------------------------------- MODULE MCSaba -------------------------------
(***************************************************************************)
(* The server with a small pool, any legal packet at any time.             *)
(***************************************************************************)
EXTENDS Saba, TLC

CONSTANTS
    MaxReports,   \* the most COMPLETED_TEXT packets counted at once
    MaxDrift      \* how far numReady may leave 0 .. MaxClients

MCTextLength == [t \in Texts |-> 2 + t]
SocketSymmetry == Permutations(Sockets)

WithinBounds ==
    /\ numCompleted <= MaxReports
    /\ numReady \in -MaxDrift .. MaxClients + MaxDrift

MCRoomySpec == Init /\ [][RoomyNext /\ WithinBounds']_vars /\ Fairness
MCPromptSpec == Init /\ [][PromptNext /\ WithinBounds']_vars /\ Fairness
MCSpec == Init /\ [][Next /\ WithinBounds']_vars /\ Fairness
=============================================================================
