----------------------------- MODULE SabaHistory -----------------------------
(***************************************************************************)
(* The server with a memory of the current race: which of the connected    *)
(* players have reported their finish.  The server itself only counts.     *)
(***************************************************************************)
EXTENDS Saba

VARIABLE finishers   \* the connected slots that finished the current race

historyVars == <<vars, finishers>>

\* A report is the packet that every connection is sent.
Reported == {p.id : p \in {q \in UNION {{sent[s][i] : i \in DOMAIN sent[s]} : s \in Sockets} :
                             q.type = "PLAYER_COMPLETED"}}

HistoryInit == Init /\ finishers = {}

Remember ==
    finishers' = IF currentState' = 0 THEN {}
                 ELSE (finishers \cup Reported') \cap Players'

HistoryNext == PromptNext /\ Remember

HistorySpec == HistoryInit /\ [][HistoryNext]_historyVars /\ Fairness

\* sabakurai.cpp, /help: the timeout is what the others get after the first
\* person finishes, so a race ends early only when all participants finished.
RaceEndsWhenAllFinish ==
    [][currentState = 1 /\ currentState' = 0 =>
         Decremented = 0 \/ Participants \subseteq finishers]_historyVars

=============================================================================
