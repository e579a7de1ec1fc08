-------------------------------- MODULE Saba --------------------------------
(***************************************************************************)
(* The race server "saba": the connection pool of server.c, the callbacks  *)
(* and the main loop of saba.c and every packet handler.                   *)
(*                                                                         *)
(* saba is one thread.  processActivityTimed serves connections, packets   *)
(* and disconnects for one tick period and returns; the main loop then     *)
(* does one Tick.  Each callback and each tick runs to its end before the  *)
(* next select, so each is one action.                                     *)
(*                                                                         *)
(* A slot is an index of GameData.players and of ServerSession.clients; it *)
(* is the player id of the protocol.  `sent` is what the step sent to each *)
(* connected socket, in order.                                             *)
(***************************************************************************)
EXTENDS Integers, Sequences, FiniteSets

CONSTANTS
    MaxClients,       \* MAX_CLIENTS
    Sockets,          \* file descriptors accept() may return
    NoSocket,         \* the 0 of an unused clients[] entry
    Names,            \* player names
    NoName,           \* the null pointer of a player that has not said its name
    Colors,           \* color bytes
    DefaultColor,     \* the 0 they start as
    NumStrings,       \* NUM_STRINGS, the files under texts/
    TextLength,       \* the bytes of each of those files
    Specials,         \* the file numbers /special may send in a TEXT_SET
    MicrosPerSecond,  \* 1000000
    TickMicros,       \* 16666, the period given to processActivityTimed
    Timeouts,         \* the seconds a TIMEOUT packet may carry
    DefaultTimeout,   \* 60
    Indices,          \* the indices a SEND_PROGRESS packet may carry
    ByteBase,         \* 256
    Times,            \* the finish times a COMPLETED_TEXT packet may carry
    TimeBase,         \* 2^24: the first time with a non-zero high byte
    MaxTime           \* 2^32 - 1, which is also -1 as an unsigned int

Slots == 0 .. MaxClients - 1
Texts == 0 .. NumStrings - 1
Nobody == -1

ASSUME SlotsAssumption == MaxClients \in Nat \ {0}
ASSUME SocketAssumption == NoSocket \notin Sockets
ASSUME NameAssumption == NoName \notin Names
ASSUME ColorAssumption == DefaultColor \in Colors
ASSUME TextAssumption ==
    /\ NumStrings \in Nat \ {0}
    /\ TextLength \in [Texts -> Nat \ {0}]
    /\ Specials \subseteq Texts
ASSUME TimerAssumption ==
    /\ TickMicros \in Nat \ {0}
    /\ MicrosPerSecond \in Nat
    /\ MicrosPerSecond >= TickMicros
    /\ Timeouts \subseteq Nat
    /\ DefaultTimeout \in Nat
ASSUME WireAssumption ==
    /\ Indices \subseteq Nat
    /\ Times \subseteq Nat
    /\ ByteBase \in Nat \ {0}
    /\ TimeBase \in Nat \ {0}
    /\ MaxTime \in Nat \ {0}

VARIABLES
    clients,        \* clients[c]: the socket of slot c
    name,           \* players[c].name
    color,          \* players[c].color
    progress,       \* players[c].progress: -1 not ready, 0 ready, 1 anything else
    spectator,      \* players[c].spectator
    numPlayers, numReady, numSpectators, numCompleted,
    currentState,   \* 0 in the lobby, 1 in a game
    startTimer,     \* ticks left, -1 when no timer runs
    timeout,
    text_size,      \* the length of the text, or in the lobby the chosen file
    text,           \* the file last read
    winner, winnerTime,
    sent            \* what the last step sent, per socket

pool == <<clients, name, color>>
tallies == <<numPlayers, numReady, numSpectators, numCompleted>>
game == <<currentState, startTimer, text_size, text>>
victory == <<winner, winnerTime>>
vars == <<pool, progress, spectator, tallies, game, timeout, victory, sent>>

-----------------------------------------------------------------------------
(* Values *)

Second == MicrosPerSecond \div TickMicros
TicksOf(seconds) == (seconds * MicrosPerSecond) \div TickMicros
CountdownSeconds == 3
Countdown == TicksOf(CountdownSeconds)

\* `data[1] << 8 + data[2]` shifts the high byte by 8 plus the low byte: an
\* index below 256 is stored as 0, any other as 0 or as something else.
StoredProgress(index) == IF index < ByteBase THEN {0} ELSE {0, 1}

\* The four shifts of phCompletedText leave 0 of a time whose high byte is 0,
\* and of any other time whatever the shift amounts make of that byte.
StoredTimes(time) == IF time < TimeBase THEN {0} ELSE 0 .. MaxTime

Connected == {c \in Slots : clients[c] # NoSocket}
Open == {clients[c] : c \in Connected}
Players == {c \in Connected : name[c] # NoName}
Spectators == {c \in Players : spectator[c] = 1}
Participants == Players \ Spectators
ReadyPlayers == {c \in Players : progress[c] = 0}

-----------------------------------------------------------------------------
(* Packets *)

Broadcast(packet) ==
    sent' = [s \in Sockets |-> IF s \in Open THEN <<packet>> ELSE <<>>]

Silent == sent' = [s \in Sockets |-> <<>>]

\* What phOnConnect tells the newcomer c, who is now called n: every connected
\* slot with a name, the newcomer's own included.
PlayerEntry(i, c, n, col, spec) ==
    [name      |-> IF i = c THEN n ELSE name[i],
     color     |-> IF i = c THEN col ELSE color[i],
     spectator |-> IF i = c THEN spec ELSE spectator[i],
     progress  |-> progress[i]]

\* Mutant: the newcomer is not counted.
SnapshotUncounted(c, n, col, spec) ==
    [type    |-> "ON_CONNECT", id |-> c, in_progress |-> currentState,
     winner  |-> winner, winner_time |-> winnerTime,
     text_size |-> text_size, text |-> text,
     count   |-> numPlayers,
     players |-> [i \in Players \cup {c} |-> PlayerEntry(i, c, n, col, spec)]]

Snapshot(c, n, col, spec) ==
    [type    |-> "ON_CONNECT", id |-> c, in_progress |-> currentState,
     winner  |-> winner, winner_time |-> winnerTime,
     text_size |-> text_size, text |-> text,
     count   |-> numPlayers + 1,
     players |-> [i \in Players \cup {c} |-> PlayerEntry(i, c, n, col, spec)]]

ClientPacket ==
    [type : {"ON_CONNECT"}, name : Names, color : Colors]
    \cup [type : {"TOGGLE_READY", "SPECTATE", "EXIT_TO_LOBBY", "DISCONNECT", "KILLME"}]
    \cup [type : {"CHANGE_NAME"}, name : Names]
    \cup [type : {"SEND_MESSAGE"}]
    \cup [type : {"TEXT_SET"}, text : Specials]
    \cup [type : {"TIMEOUT"}, timeout : Timeouts]
    \cup [type : {"COLOR"}, color : Colors]
    \cup [type : {"SEND_PROGRESS"}, progress : Indices]
    \cup [type : {"COMPLETED_TEXT"}, time : Times]

-----------------------------------------------------------------------------
Init ==
    /\ clients = [c \in Slots |-> NoSocket]
    /\ name = [c \in Slots |-> NoName]
    /\ color = [c \in Slots |-> DefaultColor]
    /\ progress = [c \in Slots |-> 0]
    /\ spectator = [c \in Slots |-> 0]
    /\ numPlayers = 0 /\ numReady = 0 /\ numSpectators = 0 /\ numCompleted = 0
    /\ currentState = 0
    /\ startTimer = -1
    /\ timeout = DefaultTimeout
    /\ text_size = 0
    /\ text = 0
    /\ winner = 0 /\ winnerTime = 0
    /\ sent = [s \in Sockets |-> <<>>]

-----------------------------------------------------------------------------
(* The connection pool *)

\* Mutants: the loop over clients[] does not stop; the slot keeps its side.
AcceptEverywhere(s) ==
    /\ s \notin Open /\ Connected # Slots
    /\ clients' = [c \in Slots |-> IF c \in Connected THEN clients[c] ELSE s]
    /\ name' = [c \in Slots |-> IF c \in Connected THEN name[c] ELSE NoName]
    /\ progress' = [c \in Slots |-> IF c \in Connected THEN progress[c] ELSE -1]
    /\ spectator' = [c \in Slots |-> IF c \in Connected THEN spectator[c] ELSE 0]
    /\ Silent
    /\ UNCHANGED <<color, tallies, game, timeout, victory>>
AcceptKeepingSide(s) ==
    /\ s \notin Open
    /\ \E c \in Slots :
        /\ clients[c] = NoSocket
        /\ \A d \in Slots : d < c => clients[d] # NoSocket
        /\ clients' = [clients EXCEPT ![c] = s]
        /\ name' = [name EXCEPT ![c] = NoName]
        /\ progress' = [progress EXCEPT ![c] = -1]
    /\ Silent
    /\ UNCHANGED <<color, spectator, tallies, game, timeout, victory>>

\* accept(): the first unused slot gets the new socket, and newConnectionCB
\* resets its player.
Accept(s) ==
    /\ s \notin Open
    /\ \E c \in Slots :
        /\ clients[c] = NoSocket
        /\ \A d \in Slots : d < c => clients[d] # NoSocket
        /\ clients' = [clients EXCEPT ![c] = s]
        /\ name' = [name EXCEPT ![c] = NoName]
        /\ progress' = [progress EXCEPT ![c] = -1]
        /\ spectator' = [spectator EXCEPT ![c] = 0]
    /\ Silent
    /\ UNCHANGED <<color, tallies, game, timeout, victory>>

\* With every slot in use the loop ends at maxClients: the socket is kept
\* nowhere, and newConnectionCB resets players[MAX_CLIENTS], whose fields lie
\* over the counters that follow the array (pointers of 8 bytes, ints of 4):
\* name over numPlayers and numReady, progress over numSpectators, spectator
\* over numCompleted, finishTime over startTimer.
AcceptOverflow ==
    /\ Connected = Slots
    /\ numPlayers' = 0 /\ numReady' = 0 /\ numSpectators' = -1 /\ numCompleted' = 0
    /\ startTimer' = -1
    /\ Silent
    /\ UNCHANGED <<pool, progress, spectator, currentState, text_size, text, timeout, victory>>

\* Mutant: a leaving spectator is still counted.
DepartWatching(c) ==
    /\ numPlayers' = numPlayers - 1
    /\ numReady' = IF currentState = 0 /\ progress[c] = 0 THEN numReady - 1 ELSE numReady
    /\ numSpectators' = numSpectators
    /\ Broadcast([type |-> "DISCONNECT", id |-> c])

\* The tallies a named player takes along when it leaves.
Depart(c) ==
    /\ numPlayers' = numPlayers - 1
    /\ numReady' = IF currentState = 0 /\ progress[c] = 0 THEN numReady - 1 ELSE numReady
    /\ numSpectators' = IF spectator[c] = 1 THEN numSpectators - 1 ELSE numSpectators
    /\ Broadcast([type |-> "DISCONNECT", id |-> c])

\* read() returned 0: the peer has closed.  The callback frees the name but
\* does not zero it.
disconnectCB(c) ==
    /\ c \in Connected
    /\ IF c \in Players
         THEN /\ Depart(c)
              /\ winner' = IF currentState = 1 /\ winner = c THEN Nobody ELSE winner
         ELSE Silent /\ UNCHANGED <<numPlayers, numReady, numSpectators, winner>>
    /\ clients' = [clients EXCEPT ![c] = NoSocket]
    /\ UNCHANGED <<name, color, progress, spectator, numCompleted, game, timeout, winnerTime>>

-----------------------------------------------------------------------------
(* The packet handlers.  None looks at currentState before it acts, except *)
(* phOnConnect and phDisconnect.                                           *)

\* Mutant: the others are not told of the newcomer.
phOnConnectUntold(c, n, col) ==
    /\ name' = [name EXCEPT ![c] = n]
    /\ color' = [color EXCEPT ![c] = col]
    /\ IF currentState = 1
         THEN /\ spectator' = [spectator EXCEPT ![c] = 1]
              /\ numSpectators' = numSpectators + 1
         ELSE UNCHANGED <<spectator, numSpectators>>
    /\ numPlayers' = numPlayers + 1
    /\ sent' = [s \in Sockets |->
         IF s = clients[c] THEN <<Snapshot(c, n, col, spectator'[c])>> ELSE <<>>]
    /\ UNCHANGED <<clients, progress, numReady, numCompleted, game, timeout, victory>>

phOnConnect(c, n, col) ==
    /\ name' = [name EXCEPT ![c] = n]
    /\ color' = [color EXCEPT ![c] = col]
    /\ IF currentState = 1
         THEN /\ spectator' = [spectator EXCEPT ![c] = 1]
              /\ numSpectators' = numSpectators + 1
         ELSE UNCHANGED <<spectator, numSpectators>>
    /\ numPlayers' = numPlayers + 1
    /\ LET connect == [type |-> "CONNECT", id |-> c, color |-> col, name |-> n]
       IN sent' = [s \in Sockets |->
            IF s = clients[c] THEN <<Snapshot(c, n, col, spectator'[c]), connect>>
            ELSE IF s \in Open THEN <<connect>> ELSE <<>>]
    /\ UNCHANGED <<clients, progress, numReady, numCompleted, game, timeout, victory>>

phToggleReady(c) ==
    /\ IF progress[c] # 0
         THEN /\ progress' = [progress EXCEPT ![c] = 0]
              /\ numReady' = numReady + 1
         ELSE /\ progress' = [progress EXCEPT ![c] = -1]
              /\ numReady' = numReady - 1
    /\ Broadcast([type |-> "TOGGLE_READY", id |-> c])
    /\ UNCHANGED <<pool, spectator, numPlayers, numSpectators, numCompleted, game, timeout, victory>>

phToggleSpectate(c) ==
    /\ numSpectators' = numSpectators + (1 - 2 * spectator[c])
    /\ spectator' = [spectator EXCEPT ![c] = 1 - @]
    /\ Broadcast([type |-> "RELAY_SPECTATE", id |-> c])
    /\ UNCHANGED <<pool, progress, numPlayers, numReady, numCompleted, game, timeout, victory>>

phChangeName(c, n) ==
    /\ name' = [name EXCEPT ![c] = n]
    /\ Broadcast([type |-> "UPDATE_NAME", id |-> c, name |-> n])
    /\ UNCHANGED <<clients, color, progress, spectator, tallies, game, timeout, victory>>

phColor(c, col) ==
    /\ color' = [color EXCEPT ![c] = col]
    /\ Broadcast([type |-> "UPDATE_COLOR", id |-> c, color |-> col])
    /\ UNCHANGED <<clients, name, progress, spectator, tallies, game, timeout, victory>>

\* Only relays: a chat line, and the joke of TEXT_SET mode 0.
Relay(c, type) ==
    /\ Broadcast([type |-> type, id |-> c])
    /\ UNCHANGED <<pool, progress, spectator, tallies, game, timeout, victory>>

phSendMessage(c) == Relay(c, "RELAY_MESSAGE")

\* TEXT_SET mode 1 stores the chosen file in text_size, in a game too.
phTextSet(c, t) ==
    /\ text_size' = t
    /\ Broadcast([type |-> "TEXT_SET", text |-> t])
    /\ UNCHANGED <<pool, progress, spectator, tallies, currentState, startTimer, text, timeout, victory>>

phTimeout(c, seconds) ==
    /\ timeout' = seconds
    /\ Broadcast([type |-> "UPDATE_TIMEOUT", timeout |-> seconds])
    /\ UNCHANGED <<pool, progress, spectator, tallies, game, victory>>

phDisconnect(c) ==
    /\ Depart(c)
    /\ IF currentState = 1 /\ winner = c
         THEN winner' = Nobody /\ winnerTime' = MaxTime
         ELSE UNCHANGED victory
    /\ clients' = [clients EXCEPT ![c] = NoSocket]
    /\ UNCHANGED <<name, color, progress, spectator, numCompleted, game, timeout>>

phSendProgress(c, index) ==
    /\ \E p \in StoredProgress(index) : progress' = [progress EXCEPT ![c] = p]
    /\ Broadcast([type |-> "UPDATE_PROGRESS", id |-> c, progress |-> index])
    /\ UNCHANGED <<pool, spectator, tallies, game, timeout, victory>>

\* Mutant: the report is relayed and not counted.
phCompletedTextUncounted(c, time) ==
    /\ startTimer' = IF startTimer < 0 THEN TicksOf(timeout) ELSE startTimer
    /\ Broadcast([type |-> "PLAYER_COMPLETED", id |-> c, time |-> time])
    /\ UNCHANGED <<pool, progress, spectator, tallies, currentState, text_size, text, timeout,
                   victory>>

\* The first report starts the timeout.  A lower stored time takes the win,
\* whatever game it was reported in.
phCompletedText(c, time) ==
    /\ startTimer' = IF startTimer < 0 THEN TicksOf(timeout) ELSE startTimer
    /\ \E t \in StoredTimes(time) :
         IF winner = Nobody \/ t < winnerTime
           THEN winner' = c /\ winnerTime' = t
           ELSE UNCHANGED victory
    /\ numCompleted' = numCompleted + 1
    /\ Broadcast([type |-> "PLAYER_COMPLETED", id |-> c, time |-> time])
    /\ UNCHANGED <<pool, progress, spectator, numPlayers, numReady, numSpectators,
                   currentState, text_size, text, timeout>>

\* packetRecievedCB: the first packet of a connection is its name, whatever
\* it holds; later ones are dispatched on their type.
packetRecievedCB(c, m) ==
    /\ c \in Connected
    /\ \/ c \notin Players /\ m.type = "ON_CONNECT" /\ phOnConnect(c, m.name, m.color)
       \/ /\ c \in Players
          /\ \/ m.type = "TOGGLE_READY" /\ phToggleReady(c)
             \/ m.type = "SPECTATE" /\ phToggleSpectate(c)
             \/ m.type = "CHANGE_NAME" /\ phChangeName(c, m.name)
             \/ m.type = "COLOR" /\ phColor(c, m.color)
             \/ m.type = "SEND_MESSAGE" /\ phSendMessage(c)
             \/ m.type = "KILLME" /\ Relay(c, "KILLME")
             \/ m.type = "TEXT_SET" /\ phTextSet(c, m.text)
             \/ m.type = "TIMEOUT" /\ phTimeout(c, m.timeout)
             \/ m.type \in {"DISCONNECT", "EXIT_TO_LOBBY"} /\ phDisconnect(c)
             \/ m.type = "SEND_PROGRESS" /\ phSendProgress(c, m.progress)
             \/ m.type = "COMPLETED_TEXT" /\ phCompletedText(c, m.time)

-----------------------------------------------------------------------------
(* The main loop after processActivityTimed *)

\* Mutants: the guard of the decrement is dropped; it is one too high.
DecrementedAlways == startTimer - 1
DecrementedToOne == IF startTimer > 1 THEN startTimer - 1 ELSE startTimer

Decremented == IF startTimer > 0 THEN startTimer - 1 ELSE startTimer

\* The slots that take part, and whether the lobby counts them all as ready.
CountedParticipants == numPlayers - numSpectators

\* Mutant: as many ready flags as participants are enough.
EnoughReady == numReady >= CountedParticipants

EveryoneReady == numReady + numSpectators = numPlayers

startGame ==
    /\ currentState' = 1
    /\ progress' = [c \in Slots |-> 0]
    /\ startTimer' = -1
    /\ \E t \in Texts :
        /\ text_size # 0 => t = text_size
        /\ text' = t
        /\ text_size' = TextLength[t]
        /\ Broadcast([type |-> "START", text_size |-> TextLength[t], text |-> t])
    /\ UNCHANGED <<numReady, numCompleted>>

\* Mutants: the text length, the ready count, the finishes, the timer, the
\* ready flags outlive the game.
endGameKeepingText ==
    /\ currentState' = 0 /\ startTimer' = -1 /\ numReady' = 0 /\ numCompleted' = 0
    /\ progress' = [c \in Slots |-> -1]
    /\ Broadcast([type |-> "GAME_OVER"])
    /\ UNCHANGED <<text_size, text>>
endGameKeepingReady ==
    /\ currentState' = 0 /\ startTimer' = -1 /\ numCompleted' = 0 /\ text_size' = 0
    /\ progress' = [c \in Slots |-> -1]
    /\ Broadcast([type |-> "GAME_OVER"])
    /\ UNCHANGED <<numReady, text>>
endGameKeepingFinishes ==
    /\ currentState' = 0 /\ startTimer' = -1 /\ numReady' = 0 /\ text_size' = 0
    /\ progress' = [c \in Slots |-> -1]
    /\ Broadcast([type |-> "GAME_OVER"])
    /\ UNCHANGED <<numCompleted, text>>
endGameKeepingTimer ==
    /\ currentState' = 0 /\ startTimer' = Decremented /\ numReady' = 0 /\ numCompleted' = 0
    /\ text_size' = 0
    /\ progress' = [c \in Slots |-> -1]
    /\ Broadcast([type |-> "GAME_OVER"])
    /\ UNCHANGED text
endGameKeepingFlags ==
    /\ currentState' = 0 /\ startTimer' = -1 /\ numReady' = 0 /\ numCompleted' = 0
    /\ text_size' = 0
    /\ Broadcast([type |-> "GAME_OVER"])
    /\ UNCHANGED <<progress, text>>

endGame ==
    /\ currentState' = 0
    /\ startTimer' = -1
    /\ numReady' = 0
    /\ numCompleted' = 0
    /\ text_size' = 0
    /\ progress' = [c \in Slots |-> -1]
    /\ Broadcast([type |-> "GAME_OVER"])
    /\ UNCHANGED text

\* Mutants: a game without a running timer ends; the timer ends no game.
TickRacingAtOnce ==
    /\ currentState = 1
    /\ IF Decremented <= 0 \/ numCompleted = CountedParticipants
         THEN endGame
         ELSE /\ startTimer' = Decremented
              /\ Silent
              /\ UNCHANGED <<progress, numReady, numCompleted, currentState, text_size, text>>
TickRacingUntimed ==
    /\ currentState = 1
    /\ IF numCompleted = CountedParticipants
         THEN endGame
         ELSE /\ startTimer' = Decremented
              /\ Silent
              /\ UNCHANGED <<progress, numReady, numCompleted, currentState, text_size, text>>

\* One tick in a game.
TickRacing ==
    /\ currentState = 1
    /\ IF Decremented = 0 \/ numCompleted = CountedParticipants
         THEN endGame
         ELSE /\ startTimer' = Decremented
              /\ Silent
              /\ UNCHANGED <<progress, numReady, numCompleted, currentState, text_size, text>>

SetTimer(ticks) ==
    /\ startTimer' = ticks
    /\ UNCHANGED <<progress, numReady, numCompleted, currentState, text_size, text>>

\* One tick in the lobby with someone to race and everyone ready.
TickCountdown ==
    /\ currentState = 0 /\ CountedParticipants > 0 /\ EveryoneReady
    /\ \/ Decremented = 0 /\ startGame
       \/ /\ Decremented = -1
          /\ SetTimer(Countdown)
          /\ Broadcast([type |-> "BEGIN_TIMER", seconds |-> CountdownSeconds])
       \/ /\ Decremented > 0
          /\ SetTimer(Decremented)
          /\ IF Decremented % Second = 0
               THEN Broadcast([type |-> "BEGIN_TIMER", seconds |-> Decremented \div Second])
               ELSE Silent

\* One tick in the lobby with someone to race and someone not ready.
TickUnready ==
    /\ currentState = 0 /\ CountedParticipants > 0 /\ ~EveryoneReady
    /\ SetTimer(-1)
    /\ IF Decremented # -1 THEN Broadcast([type |-> "CANCEL_TIMER"]) ELSE Silent

\* One tick in the lobby with nobody to race: a running timer runs on.
TickNobody ==
    /\ currentState = 0 /\ CountedParticipants <= 0
    /\ SetTimer(Decremented)
    /\ Silent

Tick ==
    /\ TickRacing \/ TickCountdown \/ TickUnready \/ TickNobody
    /\ UNCHANGED <<pool, spectator, numPlayers, numSpectators, timeout, victory>>

-----------------------------------------------------------------------------
Receive(c) == \E m \in ClientPacket : packetRecievedCB(c, m)

\* Every step of a server whose pool is never full when somebody connects.
RoomyNext ==
    \/ \E s \in Sockets : Accept(s)
    \/ \E c \in Slots : Receive(c) \/ disconnectCB(c)
    \/ Tick

Next == RoomyNext \/ AcceptOverflow

\* select() takes its time off the tick period whatever it returned for, so
\* processActivityTimed returns and ticks keep coming.
Fairness == WF_vars(Tick)

RoomySpec == Init /\ [][RoomyNext]_vars /\ Fairness
Spec == Init /\ [][Next]_vars /\ Fairness

-----------------------------------------------------------------------------
(* Reports in time: the packets of a race reach the server before it ends  *)
(* the race.  TCP alone does not promise this, see module Sabakurai.       *)

Reports == {"SEND_PROGRESS", "COMPLETED_TEXT"}

PromptReceive(c) ==
    \E m \in ClientPacket :
        /\ m.type \in Reports => currentState = 1
        /\ packetRecievedCB(c, m)

PromptNext ==
    \/ \E s \in Sockets : Accept(s)
    \/ \E c \in Slots : PromptReceive(c) \/ disconnectCB(c)
    \/ Tick

PromptSpec == Init /\ [][PromptNext]_vars /\ Fairness

-----------------------------------------------------------------------------
(* Properties *)

\* What saba sends: relays about a player, and announcements about the game.
ServerPacket ==
    [type : {"DISCONNECT", "TOGGLE_READY", "RELAY_SPECTATE", "RELAY_MESSAGE", "KILLME"},
     id : Slots]
    \cup [type : {"CONNECT"}, id : Slots, color : Colors, name : Names]
    \cup [type : {"UPDATE_NAME"}, id : Slots, name : Names]
    \cup [type : {"UPDATE_COLOR"}, id : Slots, color : Colors]
    \cup [type : {"UPDATE_PROGRESS"}, id : Slots, progress : Indices]
    \cup [type : {"PLAYER_COMPLETED"}, id : Slots, time : Times]
    \cup [type : {"TEXT_SET"}, text : Specials]
    \cup [type : {"UPDATE_TIMEOUT"}, timeout : Timeouts]
    \cup [type : {"START"}, text_size : Nat, text : Texts]
    \cup [type : {"GAME_OVER", "CANCEL_TIMER"}]
    \cup [type : {"BEGIN_TIMER"}, seconds : Nat]

Entry == [name : Names, color : Colors, spectator : {0, 1}, progress : {-1, 0, 1}]

SnapshotPacket ==
    [type : {"ON_CONNECT"}, id : Slots, in_progress : {0, 1},
     winner : Slots \cup {Nobody}, winner_time : 0 .. MaxTime,
     text_size : Nat, text : Texts, count : Int,
     players : UNION {[S -> Entry] : S \in SUBSET Slots}]

\* The types of GameData, ServerSession and of what is sent.
TypeOK ==
    /\ clients \in [Slots -> Sockets \cup {NoSocket}]
    /\ name \in [Slots -> Names \cup {NoName}]
    /\ color \in [Slots -> Colors]
    /\ progress \in [Slots -> {-1, 0, 1}]
    /\ spectator \in [Slots -> {0, 1}]
    /\ numPlayers \in Int /\ numReady \in Int /\ numSpectators \in Int /\ numCompleted \in Nat
    /\ currentState \in {0, 1}
    /\ startTimer \in Nat \cup {-1}
    /\ timeout \in Timeouts \cup {DefaultTimeout}
    /\ text_size \in Nat
    /\ text \in Texts
    /\ winner \in Slots \cup {Nobody}
    /\ winnerTime \in 0 .. MaxTime
    /\ sent \in [Sockets -> Seq(ServerPacket \cup SnapshotPacket)]

\* Two slots never hold one socket, so a broadcast reaches every peer once.
SocketsDistinct ==
    \A c, d \in Connected : clients[c] = clients[d] => c = d

\* The counters the main loop decides on agree with the slots, whatever order
\* connections, names, toggles and both kinds of departure come in
\* (phOnConnect, phToggleSpectate, phDisconnect, disconnectCB).
TalliesAgree ==
    /\ numPlayers = Cardinality(Players)
    /\ numSpectators = Cardinality(Spectators)

\* A connection that has not said its name yet carries nothing over from the
\* previous owner of its slot (newConnectionCB, startGame, endGame).
NewcomersFresh ==
    \A c \in Connected \ Players :
        spectator[c] = 0 /\ (currentState = 0 => progress[c] = -1)

\* With reports in time, numReady counts the ready players whenever the lobby
\* decides on it: the resets of startGame and endGame, the toggles of a game
\* and the departures of ready players all leave it right.
ReadyTally == currentState = 0 => numReady = Cardinality(ReadyPlayers)

\* With reports in time, a running game timer means somebody has finished, and
\* the lobby starts the next game with no finisher left over.
TimerHasCause ==
    /\ currentState = 0 => numCompleted = 0
    /\ currentState = 1 /\ startTimer >= 0 => numCompleted > 0

\* The lobby's timer never outlasts the countdown it announced.
LobbyTimerBounded == currentState = 0 => startTimer <= Countdown

\* A race somebody has finished ends: by the timeout, or because every counted
\* participant reported.
FinishedRaceEnds == currentState = 1 /\ numCompleted > 0 ~> currentState = 0

\* A lobby that keeps everyone ready does not stay a lobby.
ReadyLobbyStarts ==
    ~ <>[](currentState = 0 /\ CountedParticipants > 0 /\ EveryoneReady)

-----------------------------------------------------------------------------
(* The room the server keeps, as module GameRoom sees it. *)

RoomView == INSTANCE GameRoom WITH
    Ids      <- Slots,
    members  <- Players,
    watchers <- Spectators,
    racing   <- currentState = 1,
    reports  <- numCompleted

\* With reports in time the server implements the abstract room: a race starts
\* with somebody to race, ends only after a finish or when nobody is left to
\* race, and whoever comes during one watches.
ImplementsRoom == RoomView!RoomSpec

\* In the lobby text_size names a file that startGame can open, or none: the
\* length a game left there, and a file chosen in the middle of a game
\* (phTextSet), are gone before the lobby reads it.
ChosenTextExists == currentState = 0 => text_size \in Texts

\* A game starts only when every unready participant is made up for by a ready
\* spectator, which the sum numReady + numSpectators counts twice.
StartCountsReady ==
    [][currentState = 0 /\ currentState' = 1 =>
         Cardinality(Participants \ ReadyPlayers) = Cardinality(Spectators \cap ReadyPlayers)]_vars

SentSnapshots ==
    {p \in UNION {{sent[s][i] : i \in DOMAIN sent[s]} : s \in Sockets} : p.type = "ON_CONNECT"}

\* README, OnConnect: "-1 indicates no winner yet".
NoWinnerYet ==
    \A p \in SentSnapshots : p.in_progress = 1 /\ numCompleted = 0 => p.winner = Nobody

\* README, OnConnect: player_count is the number of the entries that follow.
SnapshotCountsEntries == \A p \in SentSnapshots : p.count = Cardinality(DOMAIN p.players)

=============================================================================
