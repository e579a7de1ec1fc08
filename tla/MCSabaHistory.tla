---------------------------- MODULE MCSabaHistory ----------------------------
(* The server with its race memory, on a small pool. *)
EXTENDS SabaHistory, TLC

CONSTANTS
    MaxReports,   \* the most COMPLETED_TEXT packets counted at once
    MaxDrift      \* how far numReady may leave 0 .. MaxClients

MCTextLength == [t \in Texts |-> 2 + t]
SocketSymmetry == Permutations(Sockets)

WithinBounds ==
    /\ numCompleted <= MaxReports
    /\ numReady \in -MaxDrift .. MaxClients + MaxDrift

MCHistorySpec ==
    HistoryInit /\ [][HistoryNext /\ WithinBounds']_historyVars /\ Fairness
=============================================================================
