---------------------------- MODULE MCSabakurai ----------------------------
(* Sabakurai for TLC: a few packets in flight and a few reports a race. *)
EXTENDS Sabakurai, TLC

CONSTANTS
    MaxUp,        \* packets a client may have in flight
    MaxDown,      \* packets the server may have in flight to a client
    MaxReports,   \* finishes counted
    MaxDrift      \* how far numReady may stray

MCTextLength == [t \in Texts |-> t + 1]
ShortText == [t \in Texts |-> 2]
LongText == [t \in Texts |-> 3]

ClientSymmetry == Permutations(Clients) \cup Permutations(Sockets) \cup Permutations(Names)

WithinBounds ==
    /\ \A s \in Sockets : Len(up'[s]) <= MaxUp /\ Len(down'[s]) <= MaxDown
    /\ numCompleted' <= MaxReports
    /\ numReady' \in -MaxDrift .. MaxClients + MaxDrift

MCSystemSpec == SystemInit /\ [][SystemNext /\ WithinBounds]_system
MCSettledSpec == SystemInit /\ [][SystemNext /\ StartsSettled /\ WithinBounds]_system
=============================================================================
