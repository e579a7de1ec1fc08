----------------------------- MODULE SabaProofs -----------------------------
(***************************************************************************)
(* The server's types and counters, for every pool size, every tick rate   *)
(* and every set of inputs; the types of the overflowing pool too.         *)
(*                                                                         *)
(* The server never recounts: each handler adds or subtracts one, so that  *)
(* the counters of GameData agree with its slots rests on what every       *)
(* handler does to the sets Players and Spectators.  Those are the set     *)
(* lemmas of the second part; the steps then only count.  The third part   *)
(* is the server whose clients report in time.                             *)
(***************************************************************************)
EXTENDS Saba, FiniteSetTheorems, TLAPS

Packets == ServerPacket \cup SnapshotPacket

(* What a step sends is well typed. *)

\* A step that sends nothing leaves well typed outgoing streams.
LEMMA SilentType ==
    ASSUME Silent
    PROVE  sent' \in [Sockets -> Seq(Packets)]
BY DEF Silent

\* One packet is a sequence of packets.
LEMMA SingletonType ==
    ASSUME NEW S, NEW p \in S
    PROVE  <<p>> \in Seq(S)
OBVIOUS

\* A step that broadcasts one well typed packet leaves well typed streams.
LEMMA BroadcastType ==
    ASSUME NEW packet \in ServerPacket, Broadcast(packet)
    PROVE  sent' \in [Sockets -> Seq(Packets)]
<1>1. packet \in Packets BY DEF Packets
<1>2. <<packet>> \in Seq(Packets) BY <1>1, SingletonType
<1>3. <<>> \in Seq(Packets) OBVIOUS
<1> QED BY <1>2, <1>3 DEF Broadcast

(* Durations are natural numbers of ticks. *)

\* Integer division of naturals stays natural.
LEMMA DivisionType ==
    ASSUME NEW a \in Nat, NEW b \in Nat \ {0}
    PROVE  a \div b \in Nat
OBVIOUS

\* A duration in ticks is a natural number.
LEMMA TicksType ==
    ASSUME NEW n \in Nat
    PROVE  TicksOf(n) \in Nat
<1>1. n * MicrosPerSecond \in Nat BY TimerAssumption
<1> QED BY <1>1, DivisionType, TimerAssumption DEF TicksOf

\* A second lasts at least one tick, so BEGIN_TIMER never divides by zero.
LEMMA SecondType == Second \in Nat \ {0}
<1>1. MicrosPerSecond \div TickMicros \in Nat BY DivisionType, TimerAssumption
<1>2. MicrosPerSecond \div TickMicros # 0 BY TimerAssumption
<1> QED BY <1>1, <1>2 DEF Second

\* Slots are integers and slot 0 exists.
LEMMA SlotsType == Slots \subseteq Int /\ 0 \in Slots
BY SlotsAssumption DEF Slots

(* The fields of a packet are those its type gives it. *)

\* What each kind of client packet carries.
LEMMA PacketFields ==
    ASSUME NEW m \in ClientPacket
    PROVE  /\ m.type \in {"ON_CONNECT", "CHANGE_NAME"} => m.name \in Names
           /\ m.type \in {"ON_CONNECT", "COLOR"} => m.color \in Colors
           /\ m.type = "TEXT_SET" => m.text \in Specials
           /\ m.type = "TIMEOUT" => m.timeout \in Timeouts
           /\ m.type = "SEND_PROGRESS" => m.progress \in Indices
           /\ m.type = "COMPLETED_TEXT" => m.time \in Times
BY DEF ClientPacket

(* A departure of either kind. *)

\* A departure keeps the counters integers and what is sent well typed.
LEMMA DepartType ==
    ASSUME TypeOK, NEW c \in Slots, Depart(c)
    PROVE  /\ numPlayers' \in Int /\ numReady' \in Int /\ numSpectators' \in Int
           /\ sent' \in [Sockets -> Seq(Packets)]
<1>1. [type |-> "DISCONNECT", id |-> c] \in ServerPacket BY DEF ServerPacket
<1>2. sent' \in [Sockets -> Seq(Packets)] BY <1>1, BroadcastType DEF Depart
<1> QED BY <1>2 DEF Depart, TypeOK

(* The snapshot a newcomer gets. *)

\* phOnConnect sends a well typed snapshot.
LEMMA SnapshotType ==
    ASSUME TypeOK, NEW c \in Slots, NEW n \in Names, NEW col \in Colors, NEW spec \in {0, 1}
    PROVE  Snapshot(c, n, col, spec) \in SnapshotPacket
<1> DEFINE P == Players \cup {c}
           entries == [i \in P |-> PlayerEntry(i, c, n, col, spec)]
<1>1. P \in SUBSET Slots BY DEF Players, Connected
<1>2. ASSUME NEW i \in P
      PROVE  PlayerEntry(i, c, n, col, spec) \in Entry
  <2>1. /\ i = c \/ name[i] \in Names
        /\ color[i] \in Colors /\ spectator[i] \in {0, 1} /\ progress[i] \in {-1, 0, 1}
    BY <1>1 DEF TypeOK, Players
  <2> QED BY <2>1 DEF PlayerEntry, Entry
<1>3. entries \in [P -> Entry] BY <1>2
<1>4. entries \in UNION {[S -> Entry] : S \in SUBSET Slots} BY <1>1, <1>3
<1>5. numPlayers + 1 \in Int /\ winner \in Slots \cup {Nobody} /\ winnerTime \in 0 .. MaxTime
      /\ text_size \in Nat /\ text \in Texts /\ currentState \in {0, 1}
  BY DEF TypeOK
<1> HIDE DEF entries
<1>6. [type |-> "ON_CONNECT", id |-> c, in_progress |-> currentState,
       winner |-> winner, winner_time |-> winnerTime, text_size |-> text_size, text |-> text,
       count |-> numPlayers + 1, players |-> entries] \in SnapshotPacket
  BY <1>4, <1>5 DEF SnapshotPacket
<1> QED BY <1>6 DEF Snapshot, entries

-----------------------------------------------------------------------------
(* The initial state, and each kind of step. *)

\* The state main() starts from is well typed.
LEMMA InitType == Init => TypeOK
BY SlotsType, TextAssumption, ColorAssumption, WireAssumption DEF Init, TypeOK, Texts

\* checkRequests keeps the types.
LEMMA AcceptType ==
    ASSUME TypeOK, NEW s \in Sockets, Accept(s)
    PROVE  TypeOK'
<1>1. sent' \in [Sockets -> Seq(Packets)] BY SilentType DEF Accept
<1> QED BY <1>1 DEF Accept, TypeOK, Packets, tallies, game, victory

\* So does newConnectionCB for a pool that is full.
LEMMA OverflowType ==
    ASSUME TypeOK, AcceptOverflow
    PROVE  TypeOK'
<1>1. sent' \in [Sockets -> Seq(Packets)] BY SilentType DEF AcceptOverflow
<1> QED BY <1>1 DEF AcceptOverflow, TypeOK, Packets, pool, victory

\* disconnectCB keeps the types.
LEMMA DisconnectCBType ==
    ASSUME TypeOK, NEW c \in Slots, disconnectCB(c)
    PROVE  TypeOK'
<1>1. /\ numPlayers' \in Int /\ numReady' \in Int /\ numSpectators' \in Int
      /\ sent' \in [Sockets -> Seq(Packets)]
      /\ winner' \in Slots \cup {Nobody}
  <2>1. CASE c \in Players BY <2>1, DepartType DEF disconnectCB, TypeOK
  <2>2. CASE c \notin Players BY <2>2, SilentType DEF disconnectCB, TypeOK
  <2> QED BY <2>1, <2>2
<1> QED BY <1>1 DEF disconnectCB, TypeOK, Packets, game

\* phOnConnect keeps the types.
LEMMA OnConnectType ==
    ASSUME TypeOK, NEW c \in Slots, NEW n \in Names, NEW col \in Colors, phOnConnect(c, n, col)
    PROVE  TypeOK'
<1> DEFINE connect == [type |-> "CONNECT", id |-> c, color |-> col, name |-> n]
           snapshot == Snapshot(c, n, col, spectator'[c])
<1>1. spectator' \in [Slots -> {0, 1}] /\ numSpectators' \in Int /\ numPlayers' \in Int
  BY DEF phOnConnect, TypeOK
<1>2. snapshot \in Packets BY <1>1, SnapshotType DEF Packets
<1>3. connect \in Packets BY DEF Packets, ServerPacket
<1>4. <<snapshot, connect>> \in Seq(Packets) /\ <<connect>> \in Seq(Packets) /\ <<>> \in Seq(Packets)
  <2> HIDE DEF snapshot, connect
  <2> QED BY <1>2, <1>3
<1>5. sent' \in [Sockets -> Seq(Packets)]
  <2>1. sent' = [s \in Sockets |-> IF s = clients[c] THEN <<snapshot, connect>>
                                   ELSE IF s \in Open THEN <<connect>> ELSE <<>>]
    BY DEF phOnConnect
  <2> HIDE DEF snapshot, connect
  <2> QED BY <1>4, <2>1
<1> QED BY <1>1, <1>5 DEF phOnConnect, TypeOK, Packets, game, victory

\* Both toggles keep the types.
LEMMA ToggleType ==
    ASSUME TypeOK, NEW c \in Slots, phToggleReady(c) \/ phToggleSpectate(c)
    PROVE  TypeOK'
<1>1. CASE phToggleReady(c)
  <2>1. [type |-> "TOGGLE_READY", id |-> c] \in ServerPacket BY DEF ServerPacket
  <2>2. sent' \in [Sockets -> Seq(Packets)] BY <1>1, <2>1, BroadcastType DEF phToggleReady
  <2>3. progress' \in [Slots -> {-1, 0, 1}]
    <3>1. \E p \in {-1, 0} : progress' = [progress EXCEPT ![c] = p] BY <1>1 DEF phToggleReady
    <3> QED BY <3>1 DEF TypeOK
  <2>4. numReady' \in Int BY <1>1 DEF phToggleReady, TypeOK
  <2> QED BY <1>1, <2>2, <2>3, <2>4 DEF phToggleReady, TypeOK, Packets, pool, game, victory
<1>2. CASE phToggleSpectate(c)
  <2>1. [type |-> "RELAY_SPECTATE", id |-> c] \in ServerPacket BY DEF ServerPacket
  <2>2. sent' \in [Sockets -> Seq(Packets)] BY <1>2, <2>1, BroadcastType DEF phToggleSpectate
  <2>3. spectator' \in [Slots -> {0, 1}] /\ numSpectators' \in Int
    BY <1>2 DEF phToggleSpectate, TypeOK
  <2> QED BY <1>2, <2>2, <2>3 DEF phToggleSpectate, TypeOK, Packets, pool, game, victory
<1> QED BY <1>1, <1>2

\* phChangeName and phColor keep the types.
LEMMA PlayerFieldType ==
    ASSUME TypeOK, NEW c \in Slots, NEW n \in Names, NEW col \in Colors,
           phChangeName(c, n) \/ phColor(c, col)
    PROVE  TypeOK'
<1>1. CASE phChangeName(c, n)
  <2>1. [type |-> "UPDATE_NAME", id |-> c, name |-> n] \in ServerPacket BY DEF ServerPacket
  <2>2. sent' \in [Sockets -> Seq(Packets)] BY <1>1, <2>1, BroadcastType DEF phChangeName
  <2> QED BY <1>1, <2>2 DEF phChangeName, TypeOK, Packets, tallies, game, victory
<1>2. CASE phColor(c, col)
  <2>1. [type |-> "UPDATE_COLOR", id |-> c, color |-> col] \in ServerPacket BY DEF ServerPacket
  <2>2. sent' \in [Sockets -> Seq(Packets)] BY <1>2, <2>1, BroadcastType DEF phColor
  <2> QED BY <1>2, <2>2 DEF phColor, TypeOK, Packets, tallies, game, victory
<1> QED BY <1>1, <1>2

\* A mere relay keeps the types.
LEMMA RelayType ==
    ASSUME TypeOK, NEW c \in Slots, NEW type \in {"RELAY_MESSAGE", "KILLME"}, Relay(c, type)
    PROVE  TypeOK'
<1>1. [type |-> type, id |-> c] \in ServerPacket BY DEF ServerPacket
<1>2. sent' \in [Sockets -> Seq(Packets)] BY <1>1, BroadcastType DEF Relay
<1> QED BY <1>2 DEF Relay, TypeOK, Packets, pool, tallies, game, victory

\* phTextSet and phTimeout keep the types.
LEMMA SettingType ==
    ASSUME TypeOK, NEW c \in Slots,
           (\E t \in Specials : phTextSet(c, t)) \/ (\E u \in Timeouts : phTimeout(c, u))
    PROVE  TypeOK'
<1>1. ASSUME NEW t \in Specials, phTextSet(c, t) PROVE TypeOK'
  <2>1. [type |-> "TEXT_SET", text |-> t] \in ServerPacket BY DEF ServerPacket
  <2>2. sent' \in [Sockets -> Seq(Packets)] BY <1>1, <2>1, BroadcastType DEF phTextSet
  <2>3. text_size' \in Nat BY <1>1, TextAssumption DEF phTextSet, Texts
  <2> QED BY <1>1, <2>2, <2>3 DEF phTextSet, TypeOK, Packets, pool, tallies, victory
<1>2. ASSUME NEW u \in Timeouts, phTimeout(c, u) PROVE TypeOK'
  <2>1. [type |-> "UPDATE_TIMEOUT", timeout |-> u] \in ServerPacket BY DEF ServerPacket
  <2>2. sent' \in [Sockets -> Seq(Packets)] BY <1>2, <2>1, BroadcastType DEF phTimeout
  <2> QED BY <1>2, <2>2 DEF phTimeout, TypeOK, Packets, pool, tallies, game, victory
<1> QED BY <1>1, <1>2

\* phDisconnect keeps the types.
LEMMA PhDisconnectType ==
    ASSUME TypeOK, NEW c \in Slots, phDisconnect(c)
    PROVE  TypeOK'
<1>1. /\ numPlayers' \in Int /\ numReady' \in Int /\ numSpectators' \in Int
      /\ sent' \in [Sockets -> Seq(Packets)]
  BY DepartType DEF phDisconnect
<1>2. winner' \in Slots \cup {Nobody} /\ winnerTime' \in 0 .. MaxTime
  BY WireAssumption DEF phDisconnect, TypeOK, victory
<1> QED BY <1>1, <1>2 DEF phDisconnect, TypeOK, Packets, game

\* phSendProgress and phCompletedText keep the types.
LEMMA ReportType ==
    ASSUME TypeOK, NEW c \in Slots,
           (\E k \in Indices : phSendProgress(c, k)) \/ (\E t \in Times : phCompletedText(c, t))
    PROVE  TypeOK'
<1>1. ASSUME NEW k \in Indices, phSendProgress(c, k) PROVE TypeOK'
  <2>1. [type |-> "UPDATE_PROGRESS", id |-> c, progress |-> k] \in ServerPacket
    BY DEF ServerPacket
  <2>2. sent' \in [Sockets -> Seq(Packets)] BY <1>1, <2>1, BroadcastType DEF phSendProgress
  <2>3. progress' \in [Slots -> {-1, 0, 1}]
    BY <1>1 DEF phSendProgress, StoredProgress, TypeOK
  <2> QED BY <1>1, <2>2, <2>3 DEF phSendProgress, TypeOK, Packets, pool, tallies, game, victory
<1>2. ASSUME NEW t \in Times, phCompletedText(c, t) PROVE TypeOK'
  <2>1. [type |-> "PLAYER_COMPLETED", id |-> c, time |-> t] \in ServerPacket BY DEF ServerPacket
  <2>2. sent' \in [Sockets -> Seq(Packets)] BY <1>2, <2>1, BroadcastType DEF phCompletedText
  <2>3. timeout \in Nat BY TimerAssumption DEF TypeOK
  <2>4. startTimer' \in Nat \cup {-1} BY <1>2, <2>3, TicksType DEF phCompletedText, TypeOK
  <2>5. winner' \in Slots \cup {Nobody} /\ winnerTime' \in 0 .. MaxTime
    BY <1>2, WireAssumption DEF phCompletedText, StoredTimes, TypeOK, victory
  <2> QED BY <1>2, <2>2, <2>4, <2>5 DEF phCompletedText, TypeOK, Packets, pool
<1> QED BY <1>1, <1>2

\* packetRecievedCB keeps the types, whatever the packet.
LEMMA ReceiveType ==
    ASSUME TypeOK, NEW c \in Slots, NEW m \in ClientPacket, packetRecievedCB(c, m)
    PROVE  TypeOK'
<1>1. CASE m.type = "ON_CONNECT" /\ phOnConnect(c, m.name, m.color)
  BY <1>1, PacketFields, OnConnectType
<1>2. CASE phToggleReady(c) \/ phToggleSpectate(c) BY <1>2, ToggleType
<1>3. CASE m.type = "CHANGE_NAME" /\ phChangeName(c, m.name)
  BY <1>3, PacketFields, PlayerFieldType, ColorAssumption
<1>4. CASE m.type = "COLOR" /\ phColor(c, m.color)
  <2>1. name[c] \in Names \/ c \notin Players BY DEF TypeOK, Players
  <2>2. c \in Players BY <1>4 DEF packetRecievedCB
  <2> QED BY <1>4, <2>1, <2>2, PacketFields, PlayerFieldType
<1>5. CASE phSendMessage(c) \/ Relay(c, "KILLME") BY <1>5, RelayType DEF phSendMessage
<1>6. CASE m.type = "TEXT_SET" /\ phTextSet(c, m.text) BY <1>6, PacketFields, SettingType
<1>7. CASE m.type = "TIMEOUT" /\ phTimeout(c, m.timeout) BY <1>7, PacketFields, SettingType
<1>8. CASE phDisconnect(c) BY <1>8, PhDisconnectType
<1>9. CASE m.type = "SEND_PROGRESS" /\ phSendProgress(c, m.progress)
  BY <1>9, PacketFields, ReportType
<1>10. CASE m.type = "COMPLETED_TEXT" /\ phCompletedText(c, m.time)
  BY <1>10, PacketFields, ReportType
<1> QED BY <1>1, <1>2, <1>3, <1>4, <1>5, <1>6, <1>7, <1>8, <1>9, <1>10 DEF packetRecievedCB

\* A round of the main loop keeps the types.
LEMMA TickType ==
    ASSUME TypeOK, Tick
    PROVE  TypeOK'
<1>1. Decremented \in Nat \cup {-1} BY DEF Decremented, TypeOK
<1>2. Countdown \in Nat BY TicksType DEF Countdown, CountdownSeconds
<1> DEFINE Good == /\ progress' \in [Slots -> {-1, 0, 1}]
                   /\ numReady' \in Int /\ numCompleted' \in Nat
                   /\ currentState' \in {0, 1}
                   /\ startTimer' \in Nat \cup {-1}
                   /\ text_size' \in Nat /\ text' \in Texts
                   /\ sent' \in [Sockets -> Seq(Packets)]
<1>3. ASSUME TickRacing PROVE Good
  <2>1. ASSUME endGame PROVE Good
    <3>1. [type |-> "GAME_OVER"] \in ServerPacket BY DEF ServerPacket
    <3>2. sent' \in [Sockets -> Seq(Packets)] BY <2>1, <3>1, BroadcastType DEF endGame
    <3> QED BY <2>1, <3>2 DEF endGame, TypeOK
  <2>2. ASSUME ~endGame PROVE Good BY <1>1, <1>3, <2>2, SilentType DEF TickRacing, TypeOK
  <2> QED BY <2>1, <2>2
<1>4. ASSUME TickCountdown PROVE Good
  <2>1. ASSUME startGame PROVE Good
    <3>1. PICK t \in Texts : /\ text' = t /\ text_size' = TextLength[t]
                             /\ Broadcast([type |-> "START", text_size |-> TextLength[t], text |-> t])
      BY <2>1 DEF startGame
    <3>2. TextLength[t] \in Nat BY TextAssumption
    <3>3. [type |-> "START", text_size |-> TextLength[t], text |-> t] \in ServerPacket
      BY <3>2 DEF ServerPacket
    <3>4. sent' \in [Sockets -> Seq(Packets)] BY <3>1, <3>3, BroadcastType
    <3> QED BY <2>1, <3>1, <3>2, <3>4 DEF startGame, TypeOK
  <2>2. ASSUME NEW ticks \in Nat, SetTimer(ticks), sent' \in [Sockets -> Seq(Packets)]
        PROVE  Good
    BY <2>2 DEF SetTimer, TypeOK
  <2>3. ASSUME NEW n \in Nat, Broadcast([type |-> "BEGIN_TIMER", seconds |-> n])
        PROVE  sent' \in [Sockets -> Seq(Packets)]
    <3>1. [type |-> "BEGIN_TIMER", seconds |-> n] \in ServerPacket BY DEF ServerPacket
    <3> QED BY <2>3, <3>1, BroadcastType
  <2>4. ASSUME SetTimer(Countdown), Broadcast([type |-> "BEGIN_TIMER", seconds |-> CountdownSeconds])
        PROVE  Good
    BY <1>2, <2>2, <2>3, <2>4 DEF CountdownSeconds
  <2>5. ASSUME Decremented > 0, SetTimer(Decremented),
               IF Decremented % Second = 0
                 THEN Broadcast([type |-> "BEGIN_TIMER", seconds |-> Decremented \div Second])
                 ELSE Silent
        PROVE  Good
    <3>1. Decremented \in Nat BY <1>1, <2>5
    <3>2. Decremented \div Second \in Nat BY <3>1, SecondType, DivisionType
    <3>3. sent' \in [Sockets -> Seq(Packets)] BY <2>3, <2>5, <3>2, SilentType
    <3> QED BY <2>2, <2>5, <3>1, <3>3
  <2> QED BY <1>4, <2>1, <2>4, <2>5 DEF TickCountdown
<1>5. ASSUME TickUnready PROVE Good
  <2>1. [type |-> "CANCEL_TIMER"] \in ServerPacket BY DEF ServerPacket
  <2>2. sent' \in [Sockets -> Seq(Packets)]
    BY <1>5, <2>1, BroadcastType, SilentType DEF TickUnready
  <2> QED BY <1>5, <2>2 DEF TickUnready, SetTimer, TypeOK
<1>6. ASSUME TickNobody PROVE Good
  BY <1>1, <1>6, SilentType DEF TickNobody, SetTimer, TypeOK
<1>7. Good BY <1>3, <1>4, <1>5, <1>6 DEF Tick
<1> QED BY <1>7 DEF Tick, TypeOK, Packets, pool, victory

-----------------------------------------------------------------------------
(* The invariant *)

\* Every step keeps the types.
LEMMA NextType == TypeOK /\ [Next]_vars => TypeOK'
<1> SUFFICES ASSUME TypeOK, [Next]_vars PROVE TypeOK'
  OBVIOUS
<1>1. ASSUME NEW s \in Sockets, Accept(s) PROVE TypeOK' BY <1>1, AcceptType
<1>2. ASSUME NEW c \in Slots, Receive(c) PROVE TypeOK' BY <1>2, ReceiveType DEF Receive
<1>3. ASSUME NEW c \in Slots, disconnectCB(c) PROVE TypeOK' BY <1>3, DisconnectCBType
<1>4. CASE UNCHANGED vars
  BY <1>4 DEF vars, pool, tallies, game, victory, TypeOK
<1> QED BY <1>1, <1>2, <1>3, <1>4, OverflowType, TickType DEF Next, RoomyNext

\* Every field of GameData, the pool and everything the server sends keep
\* their types, in every reachable state of the unrestricted server.
THEOREM TypeCorrect == Spec => []TypeOK
<1>1. Init => TypeOK BY InitType
<1>2. TypeOK /\ [Next]_vars => TypeOK' BY NextType
<1> QED BY <1>1, <1>2, PTL DEF Spec

\* The same of the server whose pool is never overfull.
THEOREM RoomyTypeCorrect == RoomySpec => []TypeOK
<1>1. Init => TypeOK BY InitType
<1>2. TypeOK /\ [RoomyNext]_vars => TypeOK' BY NextType DEF Next
<1> QED BY <1>1, <1>2, PTL DEF RoomySpec

-----------------------------------------------------------------------------
(* The chosen text *)

\* No handler but TEXT_SET touches the text, and no packet the phase.
LEMMA ReceiveText ==
    ASSUME NEW c \in Slots, NEW m \in ClientPacket, packetRecievedCB(c, m)
    PROVE  currentState' = currentState /\ (text_size' = text_size \/ text_size' \in Specials)
<1>1. CASE c \notin Players
  BY <1>1 DEF packetRecievedCB, phOnConnect, game
<1>2. CASE m.type = "TEXT_SET" /\ phTextSet(c, m.text)
  <2>1. m.text \in Specials BY <1>2 DEF ClientPacket
  <2> QED BY <1>2, <2>1 DEF phTextSet
<1>3. CASE \/ phToggleReady(c) \/ phToggleSpectate(c) \/ phChangeName(c, m.name)
           \/ phColor(c, m.color) \/ phSendMessage(c) \/ Relay(c, "KILLME")
           \/ phTimeout(c, m.timeout) \/ phDisconnect(c)
           \/ phSendProgress(c, m.progress) \/ phCompletedText(c, m.time)
  BY <1>3 DEF phToggleReady, phToggleSpectate, phChangeName, phColor, phSendMessage, Relay,
              phTimeout, phDisconnect, phSendProgress, phCompletedText, game
<1> QED BY <1>1, <1>2, <1>3 DEF packetRecievedCB

\* The lobby's choice stays a file that exists.
LEMMA TextNext == ChosenTextExists /\ [Next]_vars => ChosenTextExists'
<1> SUFFICES ASSUME ChosenTextExists, [Next]_vars PROVE ChosenTextExists'
  OBVIOUS
<1>1. ASSUME NEW s \in Sockets, Accept(s) PROVE ChosenTextExists'
  BY <1>1 DEF Accept, game, ChosenTextExists
<1>2. ASSUME NEW c \in Slots, NEW m \in ClientPacket, packetRecievedCB(c, m)
      PROVE  ChosenTextExists'
  BY <1>2, ReceiveText, TextAssumption DEF ChosenTextExists
<1>3. ASSUME NEW c \in Slots, disconnectCB(c) PROVE ChosenTextExists'
  BY <1>3 DEF disconnectCB, game, ChosenTextExists
<1>4. CASE AcceptOverflow BY <1>4 DEF AcceptOverflow, ChosenTextExists
<1>5. CASE Tick
  <2>1. CASE endGame
    <3>1. 0 \in Texts BY TextAssumption DEF Texts
    <3> QED BY <2>1, <3>1 DEF endGame, ChosenTextExists
  <2>2. CASE startGame BY <2>2 DEF startGame, ChosenTextExists
  <2>3. CASE UNCHANGED <<currentState, text_size>> BY <2>3 DEF ChosenTextExists
  <2> QED BY <1>5, <2>1, <2>2, <2>3
             DEF Tick, TickRacing, TickCountdown, TickUnready, TickNobody, SetTimer
<1>6. CASE UNCHANGED vars BY <1>6 DEF vars, game, ChosenTextExists
<1> QED BY <1>1, <1>2, <1>3, <1>4, <1>5, <1>6 DEF Next, RoomyNext, Receive

\* The server never starts a game from a text it does not have: neither the
\* length that a game kept in text_size nor a TEXT_SET in its middle outlives it.
THEOREM RoomyChosenTextExists == RoomySpec => []ChosenTextExists
<1>1. Init => ChosenTextExists BY TextAssumption DEF Init, Texts, ChosenTextExists
<1>2. ChosenTextExists /\ [RoomyNext]_vars => ChosenTextExists' BY TextNext DEF Next
<1> QED BY <1>1, <1>2, PTL DEF RoomySpec

-----------------------------------------------------------------------------
(* Counting subsets of the slots. *)

\* There are finitely many slots.
LEMMA SlotsFinite == IsFiniteSet(Slots)
BY SlotsAssumption, FS_Interval DEF Slots

\* A set of slots has a size.
LEMMA SubsetCount ==
    ASSUME NEW S \in SUBSET Slots
    PROVE  IsFiniteSet(S) /\ Cardinality(S) \in Nat
BY SlotsFinite, FS_Subset, FS_CardinalityType

\* The size of a set of slots one joins.
LEMMA AddCount ==
    ASSUME NEW S \in SUBSET Slots, NEW c \in Slots
    PROVE  Cardinality(S \cup {c}) = IF c \in S THEN Cardinality(S) ELSE Cardinality(S) + 1
BY SubsetCount, FS_AddElement

\* The size of a set of slots one leaves.
LEMMA RemoveCount ==
    ASSUME NEW S \in SUBSET Slots, NEW c \in Slots
    PROVE  Cardinality(S \ {c}) = IF c \in S THEN Cardinality(S) - 1 ELSE Cardinality(S)
BY SubsetCount, FS_RemoveElement

\* The sets the counters count are sets of slots.
LEMMA SlotSets ==
    /\ Connected \in SUBSET Slots /\ Players \in SUBSET Slots
    /\ Spectators \in SUBSET Slots /\ ReadyPlayers \in SUBSET Slots
    /\ (Players \in SUBSET Slots)' /\ (Spectators \in SUBSET Slots)'
BY DEF Connected, Players, Spectators, ReadyPlayers

-----------------------------------------------------------------------------
(* What each kind of step does to the sets. *)

\* A new connection takes one free slot and joins no set of players.
LEMMA AcceptSets ==
    ASSUME TypeOK, NEW s \in Sockets, Accept(s)
    PROVE  /\ Players' = Players /\ Spectators' = Spectators /\ ReadyPlayers' = ReadyPlayers
           /\ \E c \in Slots \ Connected :
                /\ Connected' = Connected \cup {c}
                /\ clients' = [clients EXCEPT ![c] = s]
                /\ spectator' = [spectator EXCEPT ![c] = 0]
                /\ progress' = [progress EXCEPT ![c] = -1]
<1>1. PICK c \in Slots : /\ clients[c] = NoSocket
                         /\ clients' = [clients EXCEPT ![c] = s]
                         /\ name' = [name EXCEPT ![c] = NoName]
                         /\ progress' = [progress EXCEPT ![c] = -1]
                         /\ spectator' = [spectator EXCEPT ![c] = 0]
  BY DEF Accept
<1>2. Connected' = Connected \cup {c} /\ c \notin Connected
  BY <1>1, SocketAssumption DEF Connected, TypeOK
<1>3. Players' = Players BY <1>1, <1>2 DEF Players, Connected, TypeOK
<1>4. c \notin Players BY <1>2 DEF Players
<1>5. Spectators' = Spectators BY <1>1, <1>3, <1>4 DEF Spectators, Players, Connected, TypeOK
<1>6. ReadyPlayers' = ReadyPlayers
  BY <1>1, <1>3, <1>4 DEF ReadyPlayers, Players, Connected, TypeOK
<1> QED BY <1>1, <1>2, <1>3, <1>5, <1>6

\* Whoever leaves is gone from every set.
LEMMA LeaveSets ==
    ASSUME TypeOK, NEW c \in Slots, clients' = [clients EXCEPT ![c] = NoSocket],
           UNCHANGED <<name, progress, spectator>>
    PROVE  /\ Connected' = Connected \ {c} /\ Players' = Players \ {c}
           /\ Spectators' = Spectators \ {c} /\ ReadyPlayers' = ReadyPlayers \ {c}
<1>1. Connected' = Connected \ {c} BY DEF Connected, TypeOK
<1>2. Players' = Players \ {c} BY <1>1 DEF Players
<1> QED BY <1>1, <1>2 DEF Spectators, ReadyPlayers

\* A name makes a player, in a game a spectator.
LEMMA OnConnectSets ==
    ASSUME TypeOK, NewcomersFresh, NEW c \in Connected \ Players,
           NEW n \in Names, NEW col \in Colors, phOnConnect(c, n, col)
    PROVE  /\ Connected' = Connected /\ Players' = Players \cup {c}
           /\ Spectators' = IF currentState = 1 THEN Spectators \cup {c} ELSE Spectators
           /\ currentState = 0 => ReadyPlayers' = ReadyPlayers
<1>1. /\ c \in Slots /\ clients' = clients /\ progress' = progress
      /\ name' = [name EXCEPT ![c] = n]
      /\ spectator' = IF currentState = 1 THEN [spectator EXCEPT ![c] = 1] ELSE spectator
  BY DEF phOnConnect, Connected
<1>2. Connected' = Connected BY <1>1 DEF Connected
<1>3. Players' = Players \cup {c} BY <1>1, <1>2, NameAssumption DEF Players, Connected, TypeOK
<1>4. spectator[c] = 0 /\ (currentState = 0 => progress[c] = -1) BY DEF NewcomersFresh
<1>5. Spectators' = IF currentState = 1 THEN Spectators \cup {c} ELSE Spectators
  <2>1. CASE currentState = 1
    BY <1>1, <1>3, <2>1 DEF Spectators, Players, Connected, TypeOK
  <2>2. CASE currentState # 1 BY <1>1, <1>3, <1>4, <2>2 DEF Spectators
  <2> QED BY <2>1, <2>2
<1>6. currentState = 0 => ReadyPlayers' = ReadyPlayers
  BY <1>1, <1>3, <1>4 DEF ReadyPlayers
<1> QED BY <1>2, <1>3, <1>5, <1>6

\* phToggleReady moves one player and counts it.
LEMMA ToggleReadySets ==
    ASSUME TypeOK, NEW c \in Players, phToggleReady(c)
    PROVE  /\ Connected' = Connected /\ Players' = Players /\ Spectators' = Spectators
           /\ IF c \in ReadyPlayers
                THEN ReadyPlayers' = ReadyPlayers \ {c} /\ numReady' = numReady - 1
                ELSE ReadyPlayers' = ReadyPlayers \cup {c} /\ numReady' = numReady + 1
<1>1. Connected' = Connected /\ Players' = Players /\ Spectators' = Spectators
  BY DEF phToggleReady, pool, Connected, Players, Spectators
<1>2. c \in Slots BY DEF Players, Connected
<1>3. CASE progress[c] = 0
  <2>1. progress' = [progress EXCEPT ![c] = -1] /\ numReady' = numReady - 1
    BY <1>3 DEF phToggleReady
  <2>2. c \in ReadyPlayers BY <1>3 DEF ReadyPlayers
  <2>3. ReadyPlayers' = ReadyPlayers \ {c}
    BY <1>1, <1>2, <2>1 DEF ReadyPlayers, Players, Connected, TypeOK
  <2> QED BY <1>1, <2>1, <2>2, <2>3
<1>4. CASE progress[c] # 0
  <2>1. progress' = [progress EXCEPT ![c] = 0] /\ numReady' = numReady + 1
    BY <1>4 DEF phToggleReady
  <2>2. c \notin ReadyPlayers BY <1>4 DEF ReadyPlayers
  <2>3. ReadyPlayers' = ReadyPlayers \cup {c}
    BY <1>1, <1>2, <2>1 DEF ReadyPlayers, Players, Connected, TypeOK
  <2> QED BY <1>1, <2>1, <2>2, <2>3
<1> QED BY <1>3, <1>4

\* phToggleSpectate moves one player and counts it.
LEMMA ToggleSpectateSets ==
    ASSUME TypeOK, NEW c \in Players, phToggleSpectate(c)
    PROVE  /\ Connected' = Connected /\ Players' = Players /\ ReadyPlayers' = ReadyPlayers
           /\ IF c \in Spectators
                THEN Spectators' = Spectators \ {c} /\ numSpectators' = numSpectators - 1
                ELSE Spectators' = Spectators \cup {c} /\ numSpectators' = numSpectators + 1
<1>1. Connected' = Connected /\ Players' = Players /\ ReadyPlayers' = ReadyPlayers
  BY DEF phToggleSpectate, pool, Connected, Players, ReadyPlayers
<1>2. c \in Slots BY DEF Players, Connected
<1>3. spectator' = [spectator EXCEPT ![c] = 1 - spectator[c]] /\ spectator[c] \in {0, 1}
  BY <1>2 DEF phToggleSpectate, TypeOK
<1>4. CASE spectator[c] = 1
  <2>1. Spectators' = Spectators \ {c}
    BY <1>1, <1>2, <1>3, <1>4 DEF Spectators, Players, Connected, TypeOK
  <2>2. numSpectators' = numSpectators - 1 BY <1>4 DEF phToggleSpectate, TypeOK
  <2>3. c \in Spectators BY <1>4 DEF Spectators
  <2> QED BY <1>1, <2>1, <2>2, <2>3
<1>5. CASE spectator[c] = 0
  <2>1. Spectators' = Spectators \cup {c}
    BY <1>1, <1>2, <1>3, <1>5 DEF Spectators, Players, Connected, TypeOK
  <2>2. numSpectators' = numSpectators + 1 BY <1>5 DEF phToggleSpectate, TypeOK
  <2>3. c \notin Spectators BY <1>5 DEF Spectators
  <2> QED BY <1>1, <2>1, <2>2, <2>3
<1> QED BY <1>3, <1>4, <1>5

\* A new name moves nobody.
LEMMA ChangeNameSets ==
    ASSUME TypeOK, NEW c \in Players, NEW n \in Names, phChangeName(c, n)
    PROVE  /\ Connected' = Connected /\ Players' = Players
           /\ Spectators' = Spectators /\ ReadyPlayers' = ReadyPlayers
<1>1. Connected' = Connected BY DEF phChangeName, Connected
<1>2. Players' = Players
  BY <1>1, NameAssumption DEF phChangeName, Players, Connected, TypeOK
<1> QED BY <1>1, <1>2 DEF phChangeName, Spectators, ReadyPlayers

-----------------------------------------------------------------------------
(* Every step of the server is one of four, as far as the room goes. *)

SameRoom ==
    /\ Players' = Players /\ Spectators' = Spectators
    /\ numPlayers' = numPlayers /\ numSpectators' = numSpectators

Entered(c) ==
    /\ c \notin Players
    /\ Players' = Players \cup {c} /\ numPlayers' = numPlayers + 1
    /\ IF currentState = 1
         THEN Spectators' = Spectators \cup {c} /\ numSpectators' = numSpectators + 1
         ELSE Spectators' = Spectators /\ numSpectators' = numSpectators

Left(c) ==
    /\ c \in Players
    /\ Players' = Players \ {c} /\ numPlayers' = numPlayers - 1
    /\ Spectators' = Spectators \ {c}
    /\ numSpectators' = IF c \in Spectators THEN numSpectators - 1 ELSE numSpectators

ChangedSides(c) ==
    /\ c \in Players
    /\ Players' = Players /\ numPlayers' = numPlayers
    /\ IF c \in Spectators
         THEN Spectators' = Spectators \ {c} /\ numSpectators' = numSpectators - 1
         ELSE Spectators' = Spectators \cup {c} /\ numSpectators' = numSpectators + 1

RoomStep == SameRoom \/ \E c \in Slots : Entered(c) \/ Left(c) \/ ChangedSides(c)

\* What leaves the slots and both counters alone changes no room.
LEMMA FrameRoom ==
    ASSUME UNCHANGED <<clients, name, spectator, numPlayers, numSpectators>>
    PROVE  SameRoom
BY DEF SameRoom, Spectators, Players, Connected

\* A new connection changes no room.
LEMMA AcceptRoom ==
    ASSUME TypeOK, NEW s \in Sockets, Accept(s)
    PROVE  SameRoom
BY AcceptSets DEF Accept, tallies, SameRoom

\* A departure takes one player out of the room.
LEMMA DepartRoom ==
    ASSUME TypeOK, NEW c \in Players, Depart(c), clients' = [clients EXCEPT ![c] = NoSocket],
           UNCHANGED <<name, progress, spectator>>
    PROVE  Left(c)
<1>1. c \in Slots BY DEF Players, Connected
<1>2. Players' = Players \ {c} /\ Spectators' = Spectators \ {c} BY <1>1, LeaveSets
<1>3. c \in Spectators <=> spectator[c] = 1 BY DEF Spectators
<1> QED BY <1>2, <1>3 DEF Depart, Left

\* A lost connection changes the room by its player at most.
LEMMA DisconnectCBRoom ==
    ASSUME TypeOK, NEW c \in Slots, disconnectCB(c)
    PROVE  RoomStep
<1>1. CASE c \in Players
  <2>1. Left(c) BY <1>1, DepartRoom DEF disconnectCB
  <2> QED BY <2>1 DEF RoomStep
<1>2. CASE c \notin Players
  <2>1. Players' = Players \ {c} /\ Spectators' = Spectators \ {c} BY LeaveSets DEF disconnectCB
  <2>2. c \notin Spectators BY <1>2 DEF Spectators
  <2>3. SameRoom BY <1>2, <2>1, <2>2 DEF disconnectCB, SameRoom
  <2> QED BY <2>3 DEF RoomStep
<1> QED BY <1>1, <1>2

\* A packet changes the room by its sender at most.
LEMMA ReceiveRoom ==
    ASSUME TypeOK, NewcomersFresh, NEW c \in Slots, NEW m \in ClientPacket, packetRecievedCB(c, m)
    PROVE  RoomStep
<1>1. CASE c \notin Players
  <2>1. phOnConnect(c, m.name, m.color) /\ m.name \in Names /\ m.color \in Colors
    BY <1>1, PacketFields DEF packetRecievedCB
  <2>2. c \in Connected \ Players BY <1>1 DEF packetRecievedCB
  <2>3. /\ Players' = Players \cup {c}
        /\ Spectators' = IF currentState = 1 THEN Spectators \cup {c} ELSE Spectators
    BY <2>1, <2>2, OnConnectSets
  <2>4. Entered(c) BY <1>1, <2>1, <2>3 DEF phOnConnect, Entered
  <2> QED BY <2>4 DEF RoomStep
<1>2. CASE c \in Players /\ phToggleReady(c)
  <2>1. SameRoom BY <1>2, ToggleReadySets DEF phToggleReady, SameRoom
  <2> QED BY <2>1 DEF RoomStep
<1>3. CASE c \in Players /\ phToggleSpectate(c)
  <2>1. ChangedSides(c) BY <1>3, ToggleSpectateSets DEF phToggleSpectate, ChangedSides
  <2> QED BY <2>1 DEF RoomStep
<1>4. CASE c \in Players /\ m.type = "CHANGE_NAME" /\ phChangeName(c, m.name)
  <2>1. m.name \in Names BY <1>4, PacketFields
  <2>2. SameRoom BY <1>4, <2>1, ChangeNameSets DEF phChangeName, tallies, SameRoom
  <2> QED BY <2>2 DEF RoomStep
<1>5. CASE c \in Players /\ phDisconnect(c)
  <2>1. Left(c) BY <1>5, DepartRoom DEF phDisconnect
  <2> QED BY <2>1 DEF RoomStep
<1>6. ASSUME phColor(c, m.color) \/ Relay(c, "KILLME") \/ phSendMessage(c) \/ phTextSet(c, m.text)
             \/ phTimeout(c, m.timeout) \/ phSendProgress(c, m.progress)
             \/ phCompletedText(c, m.time)
      PROVE  RoomStep
  <2>1. UNCHANGED <<clients, name, spectator, numPlayers, numSpectators>>
    BY <1>6 DEF phColor, Relay, phSendMessage, phTextSet, phTimeout, phSendProgress,
                phCompletedText, pool, tallies
  <2> QED BY <2>1, FrameRoom DEF RoomStep
<1> QED BY <1>1, <1>2, <1>3, <1>4, <1>5, <1>6 DEF packetRecievedCB

\* A tick changes no room.
LEMMA TickRoom ==
    ASSUME Tick
    PROVE  SameRoom
BY FrameRoom DEF Tick, pool

\* Every step changes the room by one player at most.
LEMMA RoomyRoom ==
    ASSUME TypeOK, NewcomersFresh, [RoomyNext]_vars
    PROVE  RoomStep
<1>1. ASSUME NEW s \in Sockets, Accept(s) PROVE RoomStep BY <1>1, AcceptRoom DEF RoomStep
<1>2. ASSUME NEW c \in Slots, Receive(c) PROVE RoomStep BY <1>2, ReceiveRoom DEF Receive
<1>3. ASSUME NEW c \in Slots, disconnectCB(c) PROVE RoomStep BY <1>3, DisconnectCBRoom
<1>4. CASE Tick BY <1>4, TickRoom DEF RoomStep
<1>5. CASE UNCHANGED vars BY <1>5, FrameRoom DEF vars, pool, tallies, RoomStep
<1> QED BY <1>1, <1>2, <1>3, <1>4, <1>5 DEF RoomyNext

(* Counting the four. *)

\* Such a step keeps the counters right.
LEMMA TallyStep ==
    ASSUME TypeOK, TalliesAgree, RoomStep
    PROVE  TalliesAgree'
<1>1. Players \in SUBSET Slots /\ Spectators \in SUBSET Slots BY SlotSets
<1>2. CASE SameRoom BY <1>2 DEF SameRoom, TalliesAgree
<1>3. ASSUME NEW c \in Slots, Entered(c) PROVE TalliesAgree'
  <2>1. c \notin Spectators BY <1>3 DEF Entered, Spectators
  <2> QED BY <1>1, <1>3, <2>1, AddCount DEF Entered, TalliesAgree
<1>4. ASSUME NEW c \in Slots, Left(c) PROVE TalliesAgree'
  BY <1>1, <1>4, RemoveCount DEF Left, TalliesAgree
<1>5. ASSUME NEW c \in Slots, ChangedSides(c) PROVE TalliesAgree'
  BY <1>1, <1>5, AddCount, RemoveCount DEF ChangedSides, TalliesAgree
<1> QED BY <1>2, <1>3, <1>4, <1>5 DEF RoomStep

-----------------------------------------------------------------------------
(* A socket is in one slot. *)

\* No step gives a socket a second slot.
LEMMA SocketsStep ==
    ASSUME TypeOK, SocketsDistinct, [RoomyNext]_vars
    PROVE  SocketsDistinct'
<1>1. ASSUME NEW s \in Sockets, Accept(s) PROVE SocketsDistinct'
  <2>1. s \notin Open BY <1>1 DEF Accept
  <2>2. PICK c \in Slots \ Connected : /\ Connected' = Connected \cup {c}
                                       /\ clients' = [clients EXCEPT ![c] = s]
    BY <1>1, AcceptSets
  <2>3. \A d \in Connected : clients'[d] = clients[d] /\ clients[d] # s
    BY <2>1, <2>2 DEF Open, Connected, TypeOK
  <2>4. clients'[c] = s BY <2>2 DEF TypeOK
  <2> QED BY <2>2, <2>3, <2>4 DEF SocketsDistinct
<1>2. ASSUME NEW c \in Slots, clients' = [clients EXCEPT ![c] = NoSocket] PROVE SocketsDistinct'
  BY <1>2 DEF SocketsDistinct, Connected, TypeOK
<1>3. ASSUME UNCHANGED clients PROVE SocketsDistinct'
  BY <1>3 DEF SocketsDistinct, Connected
<1>4. ASSUME NEW c \in Slots, Receive(c) PROVE SocketsDistinct'
  <2>1. PICK m \in ClientPacket : packetRecievedCB(c, m) BY <1>4 DEF Receive
  <2>2. UNCHANGED clients \/ clients' = [clients EXCEPT ![c] = NoSocket]
    BY <2>1 DEF packetRecievedCB, phOnConnect, phToggleReady, phToggleSpectate, phChangeName,
                phColor, phSendMessage, Relay, phTextSet, phTimeout, phDisconnect,
                phSendProgress, phCompletedText, pool
  <2> QED BY <1>2, <1>3, <2>2
<1>5. ASSUME NEW c \in Slots, disconnectCB(c) PROVE SocketsDistinct'
  BY <1>2, <1>5 DEF disconnectCB
<1>6. CASE Tick BY <1>3, <1>6 DEF Tick, pool
<1>7. CASE UNCHANGED vars BY <1>3, <1>7 DEF vars, pool
<1> QED BY <1>1, <1>4, <1>5, <1>6, <1>7 DEF RoomyNext

(* A slot without a name is fresh: only newConnectionCB, startGame and endGame *)
(* touch it before phOnConnect gives it one.                               *)

\* A step that adds no unnamed connection and touches none keeps them fresh.
LEMMA FreshFrame ==
    ASSUME TypeOK, NewcomersFresh, Connected' \ Players' \subseteq Connected \ Players,
           UNCHANGED currentState,
           \A d \in Connected \ Players : spectator'[d] = spectator[d] /\ progress'[d] = progress[d]
    PROVE  NewcomersFresh'
BY DEF NewcomersFresh

\* Every step keeps the unnamed connections fresh.
LEMMA FreshStep ==
    ASSUME TypeOK, NewcomersFresh, [RoomyNext]_vars
    PROVE  NewcomersFresh'
<1>0. Connected \subseteq Slots BY DEF Connected
<1>1. ASSUME NEW s \in Sockets, Accept(s) PROVE NewcomersFresh'
  <2>1. PICK c \in Slots \ Connected :
            /\ Connected' = Connected \cup {c} /\ Players' = Players
            /\ spectator' = [spectator EXCEPT ![c] = 0] /\ progress' = [progress EXCEPT ![c] = -1]
    BY <1>1, AcceptSets
  <2>2. spectator'[c] = 0 /\ progress'[c] = -1 /\ currentState' = currentState
    BY <1>1, <2>1 DEF Accept, game, TypeOK
  <2>3. \A d \in Connected : spectator'[d] = spectator[d] /\ progress'[d] = progress[d]
    BY <1>0, <2>1 DEF TypeOK
  <2> QED BY <2>1, <2>2, <2>3 DEF NewcomersFresh
<1>2. ASSUME NEW c \in Slots, clients' = [clients EXCEPT ![c] = NoSocket],
             UNCHANGED <<name, progress, spectator, currentState>>
      PROVE  NewcomersFresh'
  <2>1. Connected' = Connected \ {c} /\ Players' = Players \ {c} BY <1>2, LeaveSets
  <2> QED BY <1>2, <2>1, FreshFrame
<1>3. ASSUME NEW c \in Slots, Receive(c) PROVE NewcomersFresh'
  <2>1. PICK m \in ClientPacket : packetRecievedCB(c, m) BY <1>3 DEF Receive
  <2>2. CASE c \notin Players
    <3>1. phOnConnect(c, m.name, m.color) /\ m.name \in Names /\ m.color \in Colors
      BY <2>1, <2>2, PacketFields DEF packetRecievedCB
    <3>2. c \in Connected \ Players BY <2>1, <2>2 DEF packetRecievedCB
    <3>3. Connected' = Connected /\ Players' = Players \cup {c}
      BY <3>1, <3>2, OnConnectSets
    <3>4. \A d \in Slots \ {c} : spectator'[d] = spectator[d] /\ progress'[d] = progress[d]
      BY <3>1 DEF phOnConnect, TypeOK
    <3>5. currentState' = currentState BY <3>1 DEF phOnConnect, game
    <3> QED BY <1>0, <3>3, <3>4, <3>5 DEF NewcomersFresh
  <2>3. CASE c \in Players /\ (phToggleReady(c) \/ phToggleSpectate(c))
    <3>1. Connected' = Connected /\ Players' = Players
      BY <2>3, ToggleReadySets, ToggleSpectateSets
    <3>2. \A d \in Slots \ {c} : spectator'[d] = spectator[d] /\ progress'[d] = progress[d]
      BY <2>3 DEF phToggleReady, phToggleSpectate, TypeOK
    <3>3. currentState' = currentState BY <2>3 DEF phToggleReady, phToggleSpectate, game
    <3> QED BY <1>0, <2>3, <3>1, <3>2, <3>3, FreshFrame
  <2>4. CASE c \in Players /\ m.type = "CHANGE_NAME" /\ phChangeName(c, m.name)
    <3>1. m.name \in Names BY <2>4, PacketFields
    <3>2. Connected' = Connected /\ Players' = Players BY <2>4, <3>1, ChangeNameSets
    <3> QED BY <2>4, <3>2, FreshFrame DEF phChangeName, game
  <2>5. CASE phDisconnect(c) BY <1>2, <2>5 DEF phDisconnect, game
  <2>6. CASE c \in Players /\ phSendProgress(c, m.progress)
    <3>1. Connected' = Connected /\ Players' = Players
      BY <2>6 DEF phSendProgress, pool, Connected, Players
    <3>2. \A d \in Slots \ {c} : spectator'[d] = spectator[d] /\ progress'[d] = progress[d]
      BY <2>6 DEF phSendProgress, TypeOK
    <3> QED BY <1>0, <2>6, <3>1, <3>2, FreshFrame DEF phSendProgress, game
  <2>7. ASSUME phColor(c, m.color) \/ Relay(c, "KILLME") \/ phSendMessage(c) \/ phTextSet(c, m.text)
               \/ phTimeout(c, m.timeout) \/ phCompletedText(c, m.time)
        PROVE  NewcomersFresh'
    <3>1. UNCHANGED <<clients, name, spectator, progress, currentState>>
      BY <2>7 DEF phColor, Relay, phSendMessage, phTextSet, phTimeout, phCompletedText, pool, game
    <3> QED BY <3>1 DEF NewcomersFresh, Players, Connected
  <2> QED BY <2>1, <2>2, <2>3, <2>4, <2>5, <2>6, <2>7 DEF packetRecievedCB
<1>4. ASSUME NEW c \in Slots, disconnectCB(c) PROVE NewcomersFresh'
  BY <1>2, <1>4 DEF disconnectCB, game
<1>5. CASE Tick
  <2>1. UNCHANGED <<clients, name, spectator>> BY <1>5 DEF Tick, pool
  <2>2. Connected' = Connected /\ Players' = Players BY <2>1 DEF Connected, Players
  <2>3. CASE endGame
    <3>1. \A d \in Slots : progress'[d] = -1 BY <2>3 DEF endGame
    <3> QED BY <1>0, <2>1, <2>2, <3>1 DEF NewcomersFresh
  <2>4. CASE startGame
    <3>1. currentState' = 1 BY <2>4 DEF startGame
    <3> QED BY <2>1, <2>2, <3>1 DEF NewcomersFresh
  <2>5. CASE ~endGame /\ ~startGame
    <3>1. UNCHANGED <<progress, currentState>>
      BY <1>5, <2>5 DEF Tick, TickRacing, TickCountdown, TickUnready, TickNobody, SetTimer
    <3> QED BY <2>1, <2>2, <3>1 DEF NewcomersFresh
  <2> QED BY <2>3, <2>4, <2>5
<1>6. CASE UNCHANGED vars
  BY <1>6 DEF vars, pool, game, NewcomersFresh, Players, Connected
<1> QED BY <1>1, <1>3, <1>4, <1>5, <1>6 DEF RoomyNext

-----------------------------------------------------------------------------
(* The server that always has a slot to give keeps its tallies.            *)

TallyInv == TypeOK /\ SocketsDistinct /\ NewcomersFresh /\ TalliesAgree

\* The inductive invariant holds at the start.
LEMMA TallyInit == Init => TallyInv
<1> SUFFICES ASSUME Init PROVE TallyInv
  OBVIOUS
<1>1. Connected = {} BY DEF Init, Connected
<1>2. Players = {} /\ Spectators = {} BY <1>1 DEF Players, Spectators
<1>3. TalliesAgree BY <1>2, FS_EmptySet DEF Init, TalliesAgree
<1> QED BY <1>1, <1>3, InitType DEF TallyInv, SocketsDistinct, NewcomersFresh

\* The inductive invariant is kept by every step.
LEMMA TallyNext == TallyInv /\ [RoomyNext]_vars => TallyInv'
BY NextType, SocketsStep, FreshStep, RoomyRoom, TallyStep DEF TallyInv, Next

\* The inductive invariant holds of a server with room.
LEMMA RoomyTallyInv == RoomySpec => []TallyInv
<1>1. Init => TallyInv BY TallyInit
<1>2. TallyInv /\ [RoomyNext]_vars => TallyInv' BY TallyNext
<1> QED BY <1>1, <1>2, PTL DEF RoomySpec

\* No two slots of a server with room share a socket.
THEOREM RoomySocketsDistinct == RoomySpec => []SocketsDistinct
<1>1. TallyInv => SocketsDistinct BY DEF TallyInv
<1> QED BY <1>1, RoomyTallyInv, PTL

\* numPlayers and numSpectators count the named players and the spectators
\* among them, whatever packets arrive and in whatever order players leave.
THEOREM RoomyTalliesAgree == RoomySpec => []TalliesAgree
<1>1. TallyInv => TalliesAgree BY DEF TallyInv
<1> QED BY <1>1, RoomyTallyInv, PTL

\* A slot that changes hands keeps nothing of its previous player.
THEOREM RoomyNewcomersFresh == RoomySpec => []NewcomersFresh
<1>1. TallyInv => NewcomersFresh BY DEF TallyInv
<1> QED BY <1>1, RoomyTallyInv, PTL

-----------------------------------------------------------------------------
(* With reports in time, the counters decide as the sets would: the ready   *)
(* count is right, a running game timer has a cause, and the server          *)
(* implements the abstract room.                                             *)

\* Reports in time are a restriction of the server, nothing else.
LEMMA PromptIsRoomy == PromptNext => RoomyNext
BY DEF PromptNext, RoomyNext, PromptReceive, Receive

(* What a packet that is no report does to the ready count and to the game. *)

ReadyKept == ReadyPlayers' = ReadyPlayers /\ numReady' = numReady
ReadyGained(c) ==
    c \notin ReadyPlayers /\ ReadyPlayers' = ReadyPlayers \cup {c} /\ numReady' = numReady + 1
ReadyLost(c) ==
    c \in ReadyPlayers /\ ReadyPlayers' = ReadyPlayers \ {c} /\ numReady' = numReady - 1
ReadyStep == ReadyKept \/ \E c \in Slots : ReadyGained(c) \/ ReadyLost(c)

\* The part of the state that only reports and ticks change.
GameKept == UNCHANGED <<currentState, startTimer, numCompleted>>

\* A departure in the lobby counts the ready flag it takes along.
LEMMA DepartReady ==
    ASSUME TypeOK, currentState = 0, NEW c \in Players, Depart(c),
           clients' = [clients EXCEPT ![c] = NoSocket], UNCHANGED <<name, progress, spectator>>
    PROVE  ReadyStep
<1>1. c \in Slots BY DEF Players, Connected
<1>2. ReadyPlayers' = ReadyPlayers \ {c} BY <1>1, LeaveSets
<1>3. c \in ReadyPlayers <=> progress[c] = 0 BY DEF ReadyPlayers
<1>4. CASE c \in ReadyPlayers BY <1>1, <1>2, <1>3, <1>4 DEF Depart, ReadyStep, ReadyLost
<1>5. CASE c \notin ReadyPlayers BY <1>2, <1>3, <1>5 DEF Depart, ReadyStep, ReadyKept
<1> QED BY <1>4, <1>5

\* A lost connection does so too, and leaves the game alone.
LEMMA DisconnectCBReady ==
    ASSUME TypeOK, NEW c \in Slots, disconnectCB(c)
    PROVE  GameKept /\ (currentState = 0 => ReadyStep)
<1>1. GameKept BY DEF disconnectCB, game, GameKept
<1>2. CASE c \in Players BY <1>1, <1>2, DepartReady DEF disconnectCB
<1>3. CASE c \notin Players
  <2>1. ReadyPlayers' = ReadyPlayers \ {c} BY LeaveSets DEF disconnectCB
  <2>2. ReadyPlayers' = ReadyPlayers BY <1>3, <2>1 DEF ReadyPlayers
  <2> QED BY <1>1, <1>3, <2>2 DEF disconnectCB, ReadyStep, ReadyKept
<1> QED BY <1>2, <1>3

\* Every packet but a report keeps the game and, in the lobby, the ready count.
LEMMA ReceiveReady ==
    ASSUME TypeOK, NewcomersFresh, NEW c \in Slots, NEW m \in ClientPacket,
           m.type \notin Reports, packetRecievedCB(c, m)
    PROVE  (currentState = 0 => ReadyStep) /\ GameKept
<1>1. CASE c \notin Players
  <2>1. phOnConnect(c, m.name, m.color) /\ m.name \in Names /\ m.color \in Colors
    BY <1>1, PacketFields DEF packetRecievedCB
  <2>2. c \in Connected \ Players BY <1>1 DEF packetRecievedCB
  <2>3. currentState = 0 => ReadyPlayers' = ReadyPlayers BY <2>1, <2>2, OnConnectSets
  <2> QED BY <2>1, <2>3 DEF phOnConnect, game, GameKept, ReadyStep, ReadyKept
<1>2. CASE c \in Players /\ phToggleReady(c)
  <2>1. c \in Slots BY DEF Players
  <2> QED BY <1>2, <2>1, ToggleReadySets
          DEF phToggleReady, game, GameKept, ReadyStep, ReadyGained, ReadyLost
<1>3. CASE c \in Players /\ phToggleSpectate(c)
  BY <1>3, ToggleSpectateSets DEF phToggleSpectate, game, GameKept, ReadyStep, ReadyKept
<1>4. CASE c \in Players /\ m.type = "CHANGE_NAME" /\ phChangeName(c, m.name)
  BY <1>4, PacketFields, ChangeNameSets
     DEF phChangeName, tallies, game, GameKept, ReadyStep, ReadyKept
<1>5. CASE c \in Players /\ phDisconnect(c)
  BY <1>5, DepartReady DEF phDisconnect, game, GameKept
<1>6. ASSUME phColor(c, m.color) \/ Relay(c, "KILLME") \/ phSendMessage(c) \/ phTextSet(c, m.text)
             \/ phTimeout(c, m.timeout)
      PROVE  ReadyStep /\ GameKept
  <2>1. UNCHANGED <<clients, name, progress, numReady, currentState, startTimer, numCompleted>>
    BY <1>6 DEF phColor, Relay, phSendMessage, phTextSet, phTimeout, pool, tallies, game
  <2> QED BY <2>1 DEF GameKept, ReadyStep, ReadyKept, ReadyPlayers, Players, Connected
<1> QED BY <1>1, <1>2, <1>3, <1>4, <1>5, <1>6 DEF packetRecievedCB, Reports

\* A step that counts its ready flag keeps numReady right.
LEMMA ReadyCount ==
    ASSUME TypeOK, ReadyTally, currentState = 0, ReadyStep
    PROVE  numReady' = Cardinality(ReadyPlayers')
<1>1. ReadyPlayers \in SUBSET Slots BY SlotSets
<1>2. CASE ReadyKept BY <1>2 DEF ReadyKept, ReadyTally
<1>3. ASSUME NEW c \in Slots, ReadyGained(c) PROVE numReady' = Cardinality(ReadyPlayers')
  BY <1>1, <1>3, AddCount DEF ReadyGained, ReadyTally
<1>4. ASSUME NEW c \in Slots, ReadyLost(c) PROVE numReady' = Cardinality(ReadyPlayers')
  BY <1>1, <1>4, RemoveCount DEF ReadyLost, ReadyTally
<1> QED BY <1>2, <1>3, <1>4 DEF ReadyStep

-----------------------------------------------------------------------------
(* The invariant of the server with reports in time. *)

PromptInv == TallyInv /\ ReadyTally /\ TimerHasCause

\* The inductive invariant holds at the start.
LEMMA PromptInit == Init => PromptInv
<1> SUFFICES ASSUME Init PROVE PromptInv
  OBVIOUS
<1>1. ReadyPlayers = {} BY DEF Init, ReadyPlayers, Players, Connected
<1>2. ReadyTally BY <1>1, FS_EmptySet DEF Init, ReadyTally
<1> QED BY <1>2, TallyInit DEF Init, PromptInv, TimerHasCause

\* A step that keeps the game and counts its ready flag keeps both parts.
LEMMA KeptGame ==
    ASSUME PromptInv, GameKept, currentState = 0 => ReadyStep
    PROVE  ReadyTally' /\ TimerHasCause'
BY ReadyCount DEF PromptInv, TallyInv, GameKept, ReadyTally, TimerHasCause

\* So does a report during a game.
LEMMA ReportStep ==
    ASSUME PromptInv, NEW c \in Players, currentState = 1,
           (\E k \in Indices : phSendProgress(c, k)) \/ (\E t \in Times : phCompletedText(c, t))
    PROVE  ReadyTally' /\ TimerHasCause'
<1>1. currentState' = 1 BY DEF phSendProgress, phCompletedText, game
<1>2. CASE \E k \in Indices : phSendProgress(c, k)
  BY <1>1, <1>2 DEF phSendProgress, game, tallies, PromptInv, TimerHasCause, ReadyTally
<1>3. CASE \E t \in Times : phCompletedText(c, t)
  <2>1. numCompleted' > 0 BY <1>3 DEF phCompletedText, PromptInv, TallyInv, TypeOK
  <2> QED BY <1>1, <2>1 DEF TimerHasCause, ReadyTally
<1> QED BY <1>2, <1>3

\* So does a tick: startGame and endGame reset what they must.
LEMMA TickStep ==
    ASSUME PromptInv, Tick
    PROVE  ReadyTally' /\ TimerHasCause'
<1>1. UNCHANGED <<clients, name>> BY DEF Tick, pool
<1>2. CASE endGame
  <2>1. Players' \subseteq Slots BY SlotSets
  <2>2. ReadyPlayers' = {} BY <1>2, <2>1 DEF endGame, ReadyPlayers
  <2> QED BY <1>2, <2>2, FS_EmptySet DEF endGame, ReadyTally, TimerHasCause
<1>3. CASE startGame
  BY <1>3 DEF startGame, ReadyTally, TimerHasCause
<1>4. CASE ~endGame /\ ~startGame
  <2>1. UNCHANGED <<progress, numReady, numCompleted, currentState>>
    BY <1>4 DEF Tick, TickRacing, TickCountdown, TickUnready, TickNobody, SetTimer
  <2>2. ReadyPlayers' = ReadyPlayers BY <1>1, <2>1 DEF ReadyPlayers, Players, Connected
  <2>3. CASE currentState = 1
    <3>1. startTimer' = Decremented BY <1>4, <2>3 DEF Tick, TickRacing, TickCountdown, TickUnready, TickNobody
    <3>2. startTimer' >= 0 => startTimer >= 0 BY <3>1 DEF Decremented, PromptInv, TallyInv, TypeOK
    <3> QED BY <2>1, <2>2, <2>3, <3>2 DEF PromptInv, ReadyTally, TimerHasCause
  <2> QED BY <2>1, <2>2, <2>3 DEF PromptInv, TallyInv, TypeOK, ReadyTally, TimerHasCause
<1> QED BY <1>2, <1>3, <1>4

\* The inductive invariant is kept by every step.
LEMMA PromptNextInv == PromptInv /\ [PromptNext]_vars => PromptInv'
<1> SUFFICES ASSUME PromptInv, [PromptNext]_vars PROVE PromptInv'
  OBVIOUS
<1>1. TallyInv' BY PromptIsRoomy, TallyNext DEF PromptInv
<1>2. ReadyTally' /\ TimerHasCause'
  <2>1. ASSUME NEW s \in Sockets, Accept(s) PROVE ReadyTally' /\ TimerHasCause'
    <3>1. ReadyKept /\ GameKept
      BY <2>1, AcceptSets DEF Accept, tallies, game, ReadyKept, GameKept, PromptInv, TallyInv
    <3> QED BY <3>1, KeptGame DEF ReadyStep
  <2>2. ASSUME NEW c \in Slots, PromptReceive(c) PROVE ReadyTally' /\ TimerHasCause'
    <3>1. PICK m \in ClientPacket : /\ m.type \in Reports => currentState = 1
                                    /\ packetRecievedCB(c, m)
      BY <2>2 DEF PromptReceive
    <3>2. CASE m.type \notin Reports
      BY <3>1, <3>2, ReceiveReady, KeptGame DEF PromptInv, TallyInv
    <3>3. CASE m.type \in Reports
      <4>1. /\ c \in Players /\ currentState = 1
            /\ (\E k \in Indices : phSendProgress(c, k)) \/ (\E t \in Times : phCompletedText(c, t))
        BY <3>1, <3>3, PacketFields DEF packetRecievedCB, Reports
      <4> QED BY <4>1, ReportStep
    <3> QED BY <3>2, <3>3
  <2>3. ASSUME NEW c \in Slots, disconnectCB(c) PROVE ReadyTally' /\ TimerHasCause'
    BY <2>3, DisconnectCBReady, KeptGame DEF PromptInv, TallyInv
  <2>4. CASE Tick BY <2>4, TickStep
  <2>5. CASE UNCHANGED vars
    <3>1. ReadyKept /\ GameKept
      BY <2>5 DEF vars, pool, tallies, game, ReadyKept, GameKept, ReadyPlayers, Players, Connected
    <3> QED BY <3>1, KeptGame DEF ReadyStep
  <2> QED BY <2>1, <2>2, <2>3, <2>4, <2>5 DEF PromptNext
<1> QED BY <1>1, <1>2 DEF PromptInv

\* The inductive invariant holds when reports come in time.
LEMMA PromptInvariant == PromptSpec => []PromptInv
<1>1. Init => PromptInv BY PromptInit
<1>2. PromptInv /\ [PromptNext]_vars => PromptInv' BY PromptNextInv
<1> QED BY <1>1, <1>2, PTL DEF PromptSpec

\* The lobby's ready count is the number of ready players.
THEOREM PromptReadyTally == PromptSpec => []ReadyTally
<1>1. PromptInv => ReadyTally BY DEF PromptInv
<1> QED BY <1>1, PromptInvariant, PTL

\* The timer of a lobby is at most the countdown: startGame and endGame stop
\* the timer of the phase they leave, and only a report sets another.
LEMMA TimerNext == PromptInv /\ LobbyTimerBounded /\ [PromptNext]_vars => LobbyTimerBounded'
<1> SUFFICES ASSUME PromptInv, LobbyTimerBounded, [PromptNext]_vars PROVE LobbyTimerBounded'
  OBVIOUS
<1>1. Countdown \in Nat BY TicksType DEF Countdown, CountdownSeconds
<1>2. startTimer \in Nat \cup {-1} /\ currentState \in {0, 1} BY DEF PromptInv, TallyInv, TypeOK
<1>3. ASSUME GameKept PROVE LobbyTimerBounded' BY <1>3 DEF GameKept, LobbyTimerBounded
<1>4. ASSUME NEW s \in Sockets, Accept(s) PROVE GameKept BY <1>4 DEF Accept, game, tallies, GameKept
<1>5. ASSUME NEW c \in Slots, disconnectCB(c) PROVE GameKept
  BY <1>5, DisconnectCBReady DEF PromptInv, TallyInv
<1>6. ASSUME NEW c \in Slots, PromptReceive(c) PROVE LobbyTimerBounded'
  <2>1. PICK m \in ClientPacket : /\ m.type \in Reports => currentState = 1
                                  /\ packetRecievedCB(c, m)
    BY <1>6 DEF PromptReceive
  <2>2. CASE m.type \notin Reports
    BY <1>3, <2>1, <2>2, ReceiveReady DEF PromptInv, TallyInv
  <2>3. CASE m.type \in Reports
    <3>1. (\E k \in Indices : phSendProgress(c, k)) \/ (\E t \in Times : phCompletedText(c, t))
      BY <2>1, <2>3, PacketFields DEF packetRecievedCB, Reports
    <3>2. currentState' = 1 BY <2>1, <2>3, <3>1 DEF phSendProgress, phCompletedText, game
    <3> QED BY <3>2 DEF LobbyTimerBounded
  <2> QED BY <2>2, <2>3
<1>7. CASE Tick
  <2>1. CASE startGame \/ endGame BY <1>1, <2>1 DEF startGame, endGame, LobbyTimerBounded
  <2>2. CASE ~startGame /\ ~endGame
    <3>1. currentState' = currentState
      BY <1>7, <2>2 DEF Tick, TickRacing, TickCountdown, TickUnready, TickNobody, SetTimer
    <3>2. startTimer' \in {Decremented, Countdown, -1}
      BY <1>7, <2>2 DEF Tick, TickRacing, TickCountdown, TickUnready, TickNobody, SetTimer
    <3>3. Decremented <= startTimer /\ Decremented \in Int BY <1>2 DEF Decremented
    <3> QED BY <1>1, <1>2, <3>1, <3>2, <3>3 DEF LobbyTimerBounded
  <2> QED BY <2>1, <2>2
<1>8. UNCHANGED vars => GameKept BY DEF vars, game, tallies, GameKept
<1> QED BY <1>3, <1>4, <1>5, <1>6, <1>7, <1>8 DEF PromptNext

\* The lobby's timer never outlasts the countdown it announced.
THEOREM PromptLobbyTimerBounded == PromptSpec => []LobbyTimerBounded
<1>1. Init => LobbyTimerBounded
  BY TicksType DEF Init, LobbyTimerBounded, Countdown, CountdownSeconds
<1> QED BY <1>1, TimerNext, PromptInvariant, PTL DEF PromptSpec

\* A game timer runs only after a finish, and no finish outlives its game.
THEOREM PromptTimerHasCause == PromptSpec => []TimerHasCause
<1>1. PromptInv => TimerHasCause BY DEF PromptInv
<1> QED BY <1>1, PromptInvariant, PTL

-----------------------------------------------------------------------------
(* The comparisons of the main loop, as facts about the sets. *)

\* What the difference of the two counters says of the players.
LEMMA RoomCounts ==
    ASSUME PromptInv
    PROVE  /\ CountedParticipants > 0 => Participants # {}
           /\ CountedParticipants = 0 => Players = Spectators
<1>1. Players \in SUBSET Slots /\ Spectators \in SUBSET Players BY SlotSets DEF Spectators
<1>2. /\ IsFiniteSet(Players)
      /\ Cardinality(Players) \in Nat /\ Cardinality(Spectators) \in Nat
  BY <1>1, SubsetCount
<1>3. CountedParticipants = Cardinality(Players) - Cardinality(Spectators)
  BY DEF PromptInv, TallyInv, TalliesAgree, CountedParticipants
<1>4. CountedParticipants = 0 => Players = Spectators BY <1>1, <1>2, <1>3, FS_Subset
<1>5. Participants = {} => Players = Spectators BY <1>1 DEF Participants
<1> QED BY <1>2, <1>3, <1>4, <1>5

(* |P \ (S u R)| = |S n R| when |R| + |S| = |P|. *)

\* When two subsets of P have sizes that add up to that of P, as many
\* elements are in neither as are in both.
LEMMA CountedTwice ==
    ASSUME NEW P \in SUBSET Slots, NEW S \in SUBSET P, NEW R \in SUBSET P,
           Cardinality(R) + Cardinality(S) = Cardinality(P)
    PROVE  Cardinality((P \ S) \ R) = Cardinality(S \cap R)
<1> DEFINE U == S \cup R
           V == (P \ S) \ R
<1>1. /\ IsFiniteSet(S) /\ IsFiniteSet(R) /\ IsFiniteSet(U) /\ IsFiniteSet(V)
      /\ Cardinality(S) \in Nat /\ Cardinality(R) \in Nat /\ Cardinality(P) \in Nat
      /\ Cardinality(U) \in Nat /\ Cardinality(V) \in Nat /\ Cardinality(S \cap R) \in Nat
  BY SubsetCount
<1>2. Cardinality(U) = Cardinality(S) + Cardinality(R) - Cardinality(S \cap R)
  BY <1>1, FS_Union
<1>3. Cardinality(U \cup V) = Cardinality(U) + Cardinality(V) - Cardinality(U \cap V)
  BY <1>1, FS_Union
<1>4. U \cup V = P /\ U \cap V = {} BY DEF U, V
<1>5. Cardinality({}) = 0 BY FS_EmptySet
<1> HIDE DEF U, V
<1>6. Cardinality(P) = Cardinality(U) + Cardinality(V) - 0 BY <1>3, <1>4, <1>5
<1>7. Cardinality(V) = Cardinality(S \cap R)
  <2> DEFINE u == Cardinality(U)  v == Cardinality(V)  b == Cardinality(S \cap R)
             r == Cardinality(R)  s == Cardinality(S)  p == Cardinality(P)
  <2>1. /\ u \in Nat /\ v \in Nat /\ b \in Nat /\ r \in Nat /\ s \in Nat /\ p \in Nat
        /\ u = s + r - b /\ p = u + v - 0 /\ r + s = p
    BY <1>1, <1>2, <1>6
  <2> HIDE DEF u, v, b, r, s, p
  <2>2. v = b BY <2>1
  <2> QED BY <2>2 DEF v, b
<1> QED BY <1>7 DEF V

\* The only step that starts a game is the tick the lobby counted down to.
LEMMA StartIsCounted ==
    ASSUME PromptInv, [PromptNext]_vars, currentState = 0, currentState' = 1
    PROVE  /\ Tick /\ startGame
           /\ Cardinality(Participants \ ReadyPlayers) = Cardinality(Spectators \cap ReadyPlayers)
<1>1. ASSUME GameKept \/ UNCHANGED vars PROVE FALSE BY <1>1 DEF GameKept, vars, game
<1>2. ASSUME NEW s \in Sockets, Accept(s) PROVE FALSE BY <1>1, <1>2 DEF Accept, game, tallies, GameKept
<1>3. ASSUME NEW c \in Slots, disconnectCB(c) PROVE FALSE
  BY <1>1, <1>3, DisconnectCBReady DEF PromptInv, TallyInv
<1>4. ASSUME NEW c \in Slots, PromptReceive(c) PROVE FALSE
  <2>1. PICK m \in ClientPacket : m.type \notin Reports /\ packetRecievedCB(c, m)
    BY <1>4 DEF PromptReceive
  <2> QED BY <1>1, <2>1, ReceiveReady DEF PromptInv, TallyInv
<1>5. Tick BY <1>1, <1>2, <1>3, <1>4 DEF PromptNext
<1>6. startGame /\ EveryoneReady
  BY <1>5 DEF Tick, TickRacing, TickCountdown, TickUnready, TickNobody, SetTimer
<1>7. Cardinality(ReadyPlayers) + Cardinality(Spectators) = Cardinality(Players)
  BY <1>6 DEF EveryoneReady, PromptInv, TallyInv, TalliesAgree, ReadyTally
<1>8. /\ Players \in SUBSET Slots /\ Spectators \in SUBSET Players
      /\ ReadyPlayers \in SUBSET Players
  BY SlotSets DEF Spectators, ReadyPlayers
<1>9. Cardinality((Players \ Spectators) \ ReadyPlayers) = Cardinality(Spectators \cap ReadyPlayers)
  BY <1>7, <1>8, CountedTwice
<1> QED BY <1>5, <1>6, <1>9 DEF Participants

\* A game starts with exactly as many unready participants as there are ready
\* spectators, whom the main loop counts twice.
THEOREM PromptStartCountsReady == PromptSpec => StartCountsReady
<1>1. PromptInv /\ [PromptNext]_vars =>
        [currentState = 0 /\ currentState' = 1 =>
           Cardinality(Participants \ ReadyPlayers) = Cardinality(Spectators \cap ReadyPlayers)]_vars
  BY StartIsCounted
<1> QED BY <1>1, PromptInvariant, PTL DEF PromptSpec, StartCountsReady

-----------------------------------------------------------------------------
(* The server implements the abstract room. *)

\* The initial server is an empty room.
LEMMA RoomViewInit == Init => RoomView!RoomInit
BY DEF Init, RoomView!RoomInit, Players, Spectators, Connected

\* A step that moves one player and keeps the game is a step of the room.
LEMMA RoomViewStep ==
    ASSUME PromptInv, RoomStep, UNCHANGED <<currentState, numCompleted>>
    PROVE  [RoomView!RoomNext]_(RoomView!room)
<1>1. CASE SameRoom BY <1>1 DEF SameRoom, RoomView!room
<1>2. ASSUME NEW c \in Slots, Entered(c) PROVE RoomView!Enter(c)
  BY <1>2 DEF Entered, RoomView!Enter
<1>3. ASSUME NEW c \in Slots, Left(c) PROVE RoomView!Leave(c)
  BY <1>3 DEF Left, RoomView!Leave
<1>4. ASSUME NEW c \in Slots, ChangedSides(c) PROVE RoomView!ChangeSides(c)
  BY <1>4 DEF ChangedSides, RoomView!ChangeSides
<1> QED BY <1>1, <1>2, <1>3, <1>4 DEF RoomStep, RoomView!RoomNext

\* A report during a game is a report in the room.
LEMMA RoomViewReport ==
    ASSUME PromptInv, NEW c \in Players, currentState = 1,
           (\E k \in Indices : phSendProgress(c, k)) \/ (\E t \in Times : phCompletedText(c, t))
    PROVE  [RoomView!RoomNext]_(RoomView!room)
<1>1. Players' = Players /\ Spectators' = Spectators /\ currentState' = currentState
  BY DEF phSendProgress, phCompletedText, pool, game, Players, Spectators, Connected
<1>2. CASE numCompleted' = numCompleted BY <1>1, <1>2 DEF RoomView!room
<1>3. CASE numCompleted' = numCompleted + 1
  BY <1>1, <1>3 DEF RoomView!Report, RoomView!RoomNext
<1> QED BY <1>2, <1>3 DEF phSendProgress, phCompletedText, tallies

\* A tick starts a race, ends one, or changes nothing the room shows.
LEMMA RoomViewTick ==
    ASSUME PromptInv, Tick
    PROVE  [RoomView!RoomNext]_(RoomView!room)
<1>1. Players' = Players /\ Spectators' = Spectators BY TickRoom DEF SameRoom
<1>2. CASE startGame /\ TickCountdown
  <2>1. currentState = 0 /\ CountedParticipants > 0 BY <1>2 DEF TickCountdown
  <2>2. Players \ Spectators # {} BY <2>1, RoomCounts DEF Participants
  <2>3. numCompleted' = 0 /\ currentState' = 1
    BY <1>2, <2>1 DEF startGame, PromptInv, TimerHasCause
  <2>4. RoomView!StartRace BY <1>1, <2>1, <2>2, <2>3 DEF RoomView!StartRace
  <2> QED BY <2>4 DEF RoomView!RoomNext
<1>3. CASE endGame /\ TickRacing
  <2>1. currentState = 1 BY <1>3 DEF TickRacing
  <2>2. currentState' = 0 /\ numCompleted' = 0 BY <1>3 DEF endGame
  <2>3. Decremented = 0 \/ numCompleted = CountedParticipants
    BY <1>3, <2>1, <2>2 DEF TickRacing
  <2>4. numCompleted \in Nat BY DEF PromptInv, TallyInv, TypeOK
  <2>5. Decremented = 0 => numCompleted > 0
    BY <2>1 DEF Decremented, PromptInv, TallyInv, TypeOK, TimerHasCause
  <2>6. numCompleted > 0 \/ Players = Spectators BY <2>3, <2>4, <2>5, RoomCounts
  <2>7. RoomView!EndRace BY <1>1, <2>1, <2>2, <2>6 DEF RoomView!EndRace
  <2> QED BY <2>7 DEF RoomView!RoomNext
<1>4. CASE UNCHANGED <<currentState, numCompleted>> BY <1>1, <1>4 DEF RoomView!room
<1> QED BY <1>2, <1>3, <1>4 DEF Tick, TickRacing, TickCountdown, TickUnready, TickNobody, SetTimer

\* Every step of the server is a step of the room or none.
LEMMA RoomViewNext ==
    ASSUME PromptInv, [PromptNext]_vars
    PROVE  [RoomView!RoomNext]_(RoomView!room)
<1>1. RoomStep BY PromptIsRoomy, RoomyRoom DEF PromptInv, TallyInv
<1>2. CASE GameKept BY <1>1, <1>2, RoomViewStep DEF GameKept
<1>3. ASSUME NEW s \in Sockets, Accept(s) PROVE GameKept BY <1>3 DEF Accept, game, tallies, GameKept
<1>4. ASSUME NEW c \in Slots, disconnectCB(c) PROVE GameKept
  BY <1>4, DisconnectCBReady DEF PromptInv, TallyInv
<1>5. ASSUME NEW c \in Slots, PromptReceive(c) PROVE [RoomView!RoomNext]_(RoomView!room)
  <2>1. PICK m \in ClientPacket : /\ m.type \in Reports => currentState = 1
                                  /\ packetRecievedCB(c, m)
    BY <1>5 DEF PromptReceive
  <2>2. CASE m.type \notin Reports
    BY <1>2, <2>1, <2>2, ReceiveReady DEF PromptInv, TallyInv
  <2>3. CASE m.type \in Reports
    <3>1. /\ c \in Players /\ currentState = 1
          /\ (\E k \in Indices : phSendProgress(c, k)) \/ (\E t \in Times : phCompletedText(c, t))
      BY <2>1, <2>3, PacketFields DEF packetRecievedCB, Reports
    <3> QED BY <3>1, RoomViewReport
  <2> QED BY <2>2, <2>3
<1>6. UNCHANGED vars => GameKept BY DEF vars, game, tallies, GameKept
<1> QED BY <1>2, <1>3, <1>4, <1>5, <1>6, RoomViewTick DEF PromptNext

\* Seen as a room, every behaviour of the server is one the abstract room
\* allows: no race starts without a racer, none ends without a finish or
\* with a racer left, and who joins during a race watches it.
THEOREM PromptImplementsRoom == PromptSpec => ImplementsRoom
<1>1. Init => RoomView!RoomInit BY RoomViewInit
<1>2. PromptInv /\ [PromptNext]_vars => [RoomView!RoomNext]_(RoomView!room) BY RoomViewNext
<1> QED BY <1>1, <1>2, PromptInvariant, PTL DEF PromptSpec, ImplementsRoom, RoomView!RoomSpec

=============================================================================
