------------------------------ MODULE GameRoom ------------------------------
(***************************************************************************)
(* What the server promises about a room, without its slots and counters:  *)
(* who is in it, who only watches, when a race may start and when it may   *)
(* end.  Module Saba implements it under the reading `RoomView` gives.     *)
(***************************************************************************)
EXTENDS Naturals

CONSTANT Ids   \* the ids a member may have

VARIABLES
    members,   \* the ids of everyone who has announced a name
    watchers,  \* the members who only watch
    racing,    \* whether a race is on
    reports    \* how many finishes the current race has seen

room == <<members, watchers, racing, reports>>

RoomTypeOK ==
    /\ members \subseteq Ids
    /\ watchers \subseteq members
    /\ racing \in BOOLEAN
    /\ reports \in Nat

RoomInit == members = {} /\ watchers = {} /\ racing = FALSE /\ reports = 0

\* Who joins during a race watches it.
Enter(i) ==
    /\ i \notin members
    /\ members' = members \cup {i}
    /\ watchers' = IF racing THEN watchers \cup {i} ELSE watchers
    /\ UNCHANGED <<racing, reports>>

Leave(i) ==
    /\ i \in members
    /\ members' = members \ {i}
    /\ watchers' = watchers \ {i}
    /\ UNCHANGED <<racing, reports>>

ChangeSides(i) ==
    /\ i \in members
    /\ watchers' = IF i \in watchers THEN watchers \ {i} ELSE watchers \cup {i}
    /\ UNCHANGED <<members, racing, reports>>

\* A race needs somebody to race.
StartRace ==
    /\ ~racing
    /\ members \ watchers # {}
    /\ racing' = TRUE
    /\ reports' = 0
    /\ UNCHANGED <<members, watchers>>

Report ==
    /\ racing
    /\ members # {}
    /\ reports' = reports + 1
    /\ UNCHANGED <<members, watchers, racing>>

\* A race ends once somebody has finished, or when nobody is left to race.
EndRace ==
    /\ racing
    /\ reports > 0 \/ members = watchers
    /\ racing' = FALSE
    /\ reports' = 0
    /\ UNCHANGED <<members, watchers>>

RoomNext ==
    \/ \E i \in Ids : Enter(i) \/ Leave(i) \/ ChangeSides(i)
    \/ StartRace \/ Report \/ EndRace

RoomSpec == RoomInit /\ [][RoomNext]_room
=============================================================================
