------------------------------ MODULE Sabakurai ------------------------------
(***************************************************************************)
(* The system: one server (module Saba) and its clients (module Kurai)     *)
(* over TCP.                                                               *)
(*                                                                         *)
(* A connection is two FIFO streams of packets.  It waits in the listen    *)
(* backlog until the server accepts it.  checkMessages reads up to 512     *)
(* bytes at once and packetRecievedCB serves only the first packet of      *)
(* them (`length -= length`), so a read takes some packets off the stream  *)
(* and all but one are lost.  A connection whose client end is closed is   *)
(* read to its end and then dropped.                                       *)
(*                                                                         *)
(* The pool is never overfull here: a connection waits in the backlog for  *)
(* a free slot.  What the server does with it otherwise is AcceptOverflow. *)
(***************************************************************************)
EXTENDS Saba

CONSTANTS
    Clients,      \* the client processes
    Commands,     \* the lobby commands the users give
    JoinPhases,   \* the values of currentState in which connections come in
    MaxCoalesce   \* the packets one read() may return

\* The lengths of a race: of a text, or the number of a file chosen meanwhile.
Lengths == Texts \cup {TextLength[t] : t \in Texts}

\* A client tells the index it has reached, and once its own finish has come
\* back, the time it holds there.
ASSUME IndexAssumption ==
    /\ Times \subseteq Indices
    /\ \A n \in Indices \cup Lengths : 0 .. n \subseteq Indices
ASSUME CoalesceAssumption == MaxCoalesce \in Nat \ {0}

VARIABLES
    mode, socket, list, race,   \* the clients', see Kurai
    up, down, hungup,           \* the connections', see Kurai
    backlog                     \* the connections the server has not accepted

K == INSTANCE Kurai

kurai == <<mode, socket, list, race>>
system == <<vars, kurai, up, down, hungup, backlog>>

Backlogged == {backlog[i] : i \in DOMAIN backlog}

SystemInit == Init /\ K!KuraiInit /\ backlog = <<>>

-----------------------------------------------------------------------------
(* The server's steps *)

\* What a server step sent arrives, in order, unless nobody reads it any more.
Deaf == hungup \cup {socket[k] : k \in {j \in Clients : K!Lost(j)}}
Deliver == down' = [s \in Sockets |-> IF s \in Deaf THEN <<>> ELSE down[s] \o sent'[s]]

\* A connection the server has closed is gone.
Forget == hungup' = hungup \cap (Open' \cup Backlogged)

ServerAccepts ==
    /\ backlog # <<>>
    /\ currentState \in JoinPhases
    /\ Accept(Head(backlog))
    /\ backlog' = Tail(backlog)
    /\ UNCHANGED <<kurai, up, hungup>>

\* One read of slot c returns n packets, and the first of them is served.
ServerReads(c) ==
    /\ c \in Connected /\ up[clients[c]] # <<>>
    /\ \E n \in 1 .. MaxCoalesce :
        /\ n <= Len(up[clients[c]])
        /\ packetRecievedCB(c, Head(up[clients[c]]))
        /\ up' = [up EXCEPT ![clients[c]] = SubSeq(@, n + 1, Len(@))]
    /\ Forget
    /\ UNCHANGED <<kurai, backlog>>

ServerHangsUp(c) ==
    /\ c \in Connected /\ up[clients[c]] = <<>> /\ clients[c] \in hungup
    /\ disconnectCB(c)
    /\ Forget
    /\ UNCHANGED <<kurai, up, backlog>>

ServerTicks == Tick /\ UNCHANGED <<kurai, up, hungup, backlog>>

ServerStep ==
    /\ ServerAccepts \/ (\E c \in Slots : ServerReads(c) \/ ServerHangsUp(c)) \/ ServerTicks
    /\ Deliver

-----------------------------------------------------------------------------
(* The clients' steps *)

\* A connection nobody holds.
Fresh(s) == s \notin Open /\ s \notin Backlogged /\ \A k \in Clients : socket[k] # s

ClientConnects(k, s) ==
    /\ Fresh(s)
    /\ K!Connect(k, s)
    /\ backlog' = Append(backlog, s)

ClientStep(k) ==
    /\ \/ \E s \in Sockets : ClientConnects(k, s)
       \/ K!ClientStep(k) /\ UNCHANGED backlog
    /\ Silent
    /\ UNCHANGED <<pool, progress, spectator, tallies, game, timeout, victory>>

SystemNext == ServerStep \/ \E k \in Clients : ClientStep(k)
SystemSpec == SystemInit /\ [][SystemNext]_system

\* Packets of a race are under way no longer than the lobby and the countdown
\* last: when a race starts, whoever still reads has read those of the one before.
RacePackets == {"SEND_PROGRESS", "COMPLETED_TEXT", "UPDATE_PROGRESS", "PLAYER_COMPLETED", "GAME_OVER"}
Settled ==
    /\ \A s \in Sockets : \A i \in DOMAIN up[s] : up[s][i].type \notin RacePackets
    /\ \A s \in Sockets \ Deaf :
         \A i \in DOMAIN down[s] : down[s][i].type \notin RacePackets
StartsSettled == currentState = 0 /\ currentState' = 1 => Settled

SettledSpec == SystemInit /\ [][SystemNext /\ StartsSettled]_system

-----------------------------------------------------------------------------
(* What a client in step with the server knows *)

\* The slot the server keeps for client k.
SlotOf(k) == CHOOSE c \in Connected : clients[c] = socket[k]

\* Client k has read all the server has sent it since it sent its name.
CaughtUp(k) ==
    /\ mode[k] \in {"LOBBY", "PLAYING"}
    /\ down[socket[k]] = <<>>

\* Client k races and is no spectator of the race.
Started(k) == mode[k] = "PLAYING" /\ race[k].status # "SPECTATOR"
Races(k) == CaughtUp(k) /\ Started(k)

\* A client that is caught up is in the mode of the server's phase and has
\* the id of its slot: START, GAME_OVER and the snapshot reach it in the order
\* the server changed phase (connect, connected, playing).
PhasesAgree ==
    \A k \in Clients : CaughtUp(k) =>
        /\ mode[k] = "PLAYING" <=> currentState = 1
        /\ list[k][1].id = SlotOf(k)

\* A lobby client that is caught up lists exactly the server's players, each
\* once, whatever joined, left or was renamed while it raced.
RosterAgrees ==
    \A k \in Clients : CaughtUp(k) /\ mode[k] = "LOBBY" =>
        /\ {list[k][i].id : i \in DOMAIN list[k]} = Players
        /\ Len(list[k]) = Cardinality(Players)
        /\ \A i \in DOMAIN list[k] : list[k][i].name = name[list[k][i].id]

\* ... and shows for each of them the ready flag the server keeps, so that
\* "/ready" sets it and "/unready" unsets it.
ReadyAgrees ==
    \A k \in Clients : CaughtUp(k) /\ mode[k] = "LOBBY" =>
        \A i \in DOMAIN list[k] :
            list[k][i].id \in Players => list[k][i].ready = (progress[list[k][i].id] # -1)

\* ... and the side the server keeps, so that "/spectate" and "/partake" set it.
SidesAgree ==
    \A k \in Clients : CaughtUp(k) /\ mode[k] = "LOBBY" =>
        \A i \in DOMAIN list[k] :
            list[k][i].id \in Players => list[k][i].spectate = (spectator[list[k][i].id] = 1)

\* A finish the client has sent and the server has read counts in the race.
FinishCounted ==
    \A k \in Clients :
        CaughtUp(k) /\ mode[k] = "PLAYING" /\ race[k].complete /\ up[socket[k]] = <<>> =>
            numCompleted > 0

\* Racers who are caught up see each other's progress: every key of a racer,
\* right or deleted, has reached the others once the server has read it, from
\* the first right key until the text is complete (playing, last_progress).
\* Before the first a report may show that was late in the race before.
RivalsSeeProgress ==
    \A j, k \in Clients :
        Races(j) /\ Races(k) /\ up[socket[k]] = <<>>
        /\ race[k].progress > 0 /\ ~race[k].complete =>
            \A i \in DOMAIN race[j].players :
                race[j].players[i].id = SlotOf(k) => race[j].players[i].progress = race[k].progress

\* While nobody leaves and races start settled, the victor of a race is known
\* as soon as somebody has finished, and nobody has a lower time.  A finish that
\* is late in the race before would be taken for one of this race, and its
\* racer's next report for its time.
BestFinishWins ==
    \A j \in Clients : Started(j) =>
        \A r \in {race[j].players[i] : i \in DOMAIN race[j].players}
                    \cup {[status |-> race[j].status, progress |-> race[j].progress]} :
            r.status = "COMPLETED" =>
                race[j].victor # K!NoVictor /\ race[j].victor_time <= r.progress

\* README, Waiting: the first byte of every message is its type.
FramingKept == \A k \in Clients : mode[k] # "GARBLED"

\* No client in step looks up a player its list does not hold.
NoneAstray == \A k \in Clients : mode[k] # "ASTRAY"

=============================================================================
