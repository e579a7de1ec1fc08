---------------------------- MODULE RosterProofs ----------------------------
(***************************************************************************)
(* Rosters and flags: unless slots change hands during a race, a lobby     *)
(* client that has read everything lists exactly the server's players, and *)
(* on the way there no lookup fails, with any number of clients,           *)
(* connections and slots.  With the flags of the list it is the same, as   *)
(* long as nobody does what the two ends take differently.                 *)
(*                                                                         *)
(* What the server keeps is the view at the end of the stream, what the    *)
(* client holds is the one at its start.                                   *)
(***************************************************************************)
EXTENDS ViewProofs

-----------------------------------------------------------------------------
(* What the server says of its players *)

\* No slot changes hands while a race is on: nobody comes in then, or nobody
\* ever leaves.
NobodyLeaves == {"disconnect", "quit"} \cap Commands = {}
SlotsStable == JoinPhases \subseteq {0} \/ NobodyLeaves
NoneGone == NobodyLeaves => hungup = {}

\* It tells nothing, or nothing that changes who is in.
Chat ==
    /\ currentState' = currentState /\ Players' = Players
    /\ \A d \in Players : name'[d] = name[d]
    /\ currentState = 1 => Connected' \subseteq Connected \/ NobodyLeaves
    /\ \/ Silent
       \/ \E p \in ServerPacket :
            /\ p.type \notin {"CONNECT", "DISCONNECT", "UPDATE_NAME", "START", "GAME_OVER"}
            /\ p.type \in LooksUp => p.id \in Players
            /\ Broadcast(p)

\* Player c leaves, who has hung up.
Farewell(c) ==
    /\ c \in Players /\ clients[c] \in hungup /\ clients' = [clients EXCEPT ![c] = NoSocket]
    /\ UNCHANGED <<name, currentState>>
    /\ Broadcast([type |-> "DISCONNECT", id |-> c])

\* Player c is now called n.
Renaming(c, n) ==
    /\ c \in Players /\ name' = [name EXCEPT ![c] = n]
    /\ UNCHANGED <<clients, currentState>>
    /\ Broadcast([type |-> "UPDATE_NAME", id |-> c, name |-> n])

\* The newcomer in slot c says it is called n.
Introduction(c, n) ==
    /\ c \in Connected \ Players /\ name' = [name EXCEPT ![c] = n]
    /\ UNCHANGED <<clients, currentState, progress>>
    /\ up[clients[c]] # <<>>
    /\ Head(up[clients[c]]).type = "ON_CONNECT" /\ Head(up[clients[c]]).name = n
    /\ spectator' = IF currentState = 1 THEN [spectator EXCEPT ![c] = 1] ELSE spectator
    /\ \E p \in SnapshotPacket, q \in ServerPacket :
        /\ p.id = c /\ p.in_progress = currentState /\ DOMAIN p.players = Players \cup {c}
        /\ p.players[c].name = n /\ \A d \in Players : p.players[d].name = name[d]
        /\ \A d \in DOMAIN p.players :
             p.players[d].progress = progress[d] /\ p.players[d].spectator = spectator'[d]
        /\ q.type = "CONNECT" /\ q.id = c /\ q.name = n
        /\ sent' = [s \in Sockets |-> IF s = clients[c] THEN <<p, q>>
                                      ELSE IF s \in Open THEN <<q>> ELSE <<>>]

\* A race starts or ends.
Announcement ==
    /\ UNCHANGED <<clients, name>>
    /\ \E p \in ServerPacket :
        /\ p.type \in {"START", "GAME_OVER"} /\ (p.type = "START" <=> currentState' = 1)
        /\ Broadcast(p)

\* Relays that leave the pool alone are chat.
LEMMA RelayChats ==
    ASSUME NEW p \in ServerPacket,
           p.type \notin {"CONNECT", "DISCONNECT", "UPDATE_NAME", "START", "GAME_OVER"},
           p.type \in LooksUp => p.id \in Players,
           Broadcast(p), UNCHANGED <<clients, name, currentState>>
    PROVE  Chat
BY DEF Chat, Players, Connected

\* packetRecievedCB, as far as it is about who is in.
LEMMA ReceiveTells ==
    ASSUME SystemInv, NEW c \in Slots, ServerReads(c)
    PROVE  \/ Chat \/ Farewell(c)
           \/ \E n \in Names : Renaming(c, n) \/ Introduction(c, n)
<1> DEFINE m == Head(up[clients[c]])
<1>1. c \in Connected /\ up[clients[c]] # <<>> /\ packetRecievedCB(c, m)
  BY DEF ServerReads
<1>2. m \in ClientPacket /\ (m.type \in Partings => clients[c] \in hungup) BY <1>1, HeadStays
<1>3. /\ m.type \in {"ON_CONNECT", "CHANGE_NAME"} => m.name \in Names
      /\ m.type \in {"ON_CONNECT", "COLOR"} => m.color \in Colors
      /\ m.type = "TEXT_SET" => m.text \in Specials
      /\ m.type = "TIMEOUT" => m.timeout \in Timeouts
      /\ m.type = "SEND_PROGRESS" => m.progress \in Indices
      /\ m.type = "COMPLETED_TEXT" => m.time \in Times
  BY <1>2, PacketFields
<1>4. TypeOK BY DEF SystemInv, TallyInv
<1>5. CASE c \notin Players /\ m.type = "ON_CONNECT" /\ phOnConnect(c, m.name, m.color)
  <2> DEFINE p == Snapshot(c, m.name, m.color, spectator'[c])
             q == [type |-> "CONNECT", id |-> c, color |-> m.color, name |-> m.name]
  <2>1. spectator'[c] \in {0, 1} BY <1>4, <1>5 DEF phOnConnect, TypeOK
  <2>2. p \in SnapshotPacket BY <1>3, <1>4, <1>5, <2>1, SnapshotType
  <2>3. q \in ServerPacket BY <1>3, <1>5 DEF ServerPacket
  <2>4. /\ p.id = c /\ p.in_progress = currentState /\ DOMAIN p.players = Players \cup {c}
        /\ p.players[c].name = m.name /\ \A d \in Players : p.players[d].name = name[d]
        /\ \A d \in DOMAIN p.players :
             p.players[d].progress = progress[d] /\ p.players[d].spectator = spectator'[d]
    <3>1. \A d \in Slots \ {c} : spectator'[d] = spectator[d]
      BY <1>4, <1>5 DEF phOnConnect, TypeOK
    <3>2. Players \subseteq Slots BY DEF Players, Connected
    <3> QED BY <1>5, <3>1, <3>2 DEF Snapshot, PlayerEntry
  <2>5. q.type = "CONNECT" /\ q.id = c /\ q.name = m.name OBVIOUS
  <2>6. /\ name' = [name EXCEPT ![c] = m.name]
        /\ UNCHANGED <<clients, currentState, progress>>
        /\ spectator' = IF currentState = 1 THEN [spectator EXCEPT ![c] = 1] ELSE spectator
        /\ sent' = [s \in Sockets |-> IF s = clients[c] THEN <<p, q>>
                                      ELSE IF s \in Open THEN <<q>> ELSE <<>>]
    BY <1>5 DEF phOnConnect, game
  <2>7. c \in Connected \ Players BY <1>1, <1>5
  <2> HIDE DEF p, q
  <2>8. Introduction(c, m.name)
    BY <1>1, <1>5, <2>2, <2>3, <2>4, <2>5, <2>6, <2>7 DEF Introduction
  <2> QED BY <1>3, <1>5, <2>8
<1>6. CASE c \in Players
  <2> HIDE DEF m
  <2>1. ASSUME NEW p \in ServerPacket, p.id = c, Broadcast(p),
               UNCHANGED <<clients, name, currentState>>,
               p.type \notin {"CONNECT", "DISCONNECT", "UPDATE_NAME", "START", "GAME_OVER"}
        PROVE  Chat
    BY <1>6, <2>1, RelayChats
  <2>2. ASSUME NEW p \in ServerPacket, p.type \in {"TEXT_SET", "UPDATE_TIMEOUT"}, Broadcast(p),
               UNCHANGED <<clients, name, currentState>>
        PROVE  Chat
    BY <2>2, RelayChats DEF LooksUp, K!LobbyLooksUp
  <2>3. CASE phToggleReady(c)
    <3>1. [type |-> "TOGGLE_READY", id |-> c] \in ServerPacket BY DEF ServerPacket
    <3> QED BY <2>1, <2>3, <3>1 DEF phToggleReady, game, pool
  <2>4. CASE phToggleSpectate(c)
    <3>1. [type |-> "RELAY_SPECTATE", id |-> c] \in ServerPacket BY DEF ServerPacket
    <3> QED BY <2>1, <2>4, <3>1 DEF phToggleSpectate, game, pool
  <2>5. CASE m.type = "CHANGE_NAME" /\ phChangeName(c, m.name)
    <3>1. Renaming(c, m.name) BY <1>6, <2>5 DEF phChangeName, game, Renaming
    <3> QED BY <1>3, <2>5, <3>1 DEF m
  <2>6. CASE m.type = "COLOR" /\ phColor(c, m.color)
    <3>1. [type |-> "UPDATE_COLOR", id |-> c, color |-> m.color] \in ServerPacket
      BY <1>3, <2>6 DEF ServerPacket, m
    <3> QED BY <2>1, <2>6, <3>1 DEF phColor, game
  <2>7. CASE phSendMessage(c) \/ Relay(c, "KILLME")
    <3>1. ASSUME NEW type \in {"RELAY_MESSAGE", "KILLME"}, Relay(c, type) PROVE Chat
      <4>1. [type |-> type, id |-> c] \in ServerPacket BY DEF ServerPacket
      <4> QED BY <2>1, <3>1, <4>1 DEF Relay, game, pool
    <3> QED BY <2>7, <3>1 DEF phSendMessage
  <2>8. CASE m.type = "TEXT_SET" /\ phTextSet(c, m.text)
    <3>1. [type |-> "TEXT_SET", text |-> m.text] \in ServerPacket
      BY <1>3, <2>8 DEF ServerPacket, m
    <3> QED BY <2>2, <2>8, <3>1 DEF phTextSet, pool
  <2>9. CASE m.type = "TIMEOUT" /\ phTimeout(c, m.timeout)
    <3>1. [type |-> "UPDATE_TIMEOUT", timeout |-> m.timeout] \in ServerPacket
      BY <1>3, <2>9 DEF ServerPacket, m
    <3> QED BY <2>2, <2>9, <3>1 DEF phTimeout, game, pool
  <2>10. CASE m.type \in {"DISCONNECT", "EXIT_TO_LOBBY"} /\ phDisconnect(c)
    <3>1. clients[c] \in hungup BY <1>2, <2>10 DEF Partings
    <3>2. Farewell(c) BY <1>6, <2>10, <3>1 DEF phDisconnect, Depart, game, Farewell
    <3> QED BY <3>2
  <2>11. CASE m.type = "SEND_PROGRESS" /\ phSendProgress(c, m.progress)
    <3>1. [type |-> "UPDATE_PROGRESS", id |-> c, progress |-> m.progress] \in ServerPacket
      BY <1>3, <2>11 DEF ServerPacket, m
    <3> QED BY <2>1, <2>11, <3>1 DEF phSendProgress, game, pool
  <2>12. CASE m.type = "COMPLETED_TEXT" /\ phCompletedText(c, m.time)
    <3>1. [type |-> "PLAYER_COMPLETED", id |-> c, time |-> m.time] \in ServerPacket
      BY <1>3, <2>12 DEF ServerPacket, m
    <3> QED BY <2>1, <2>12, <3>1 DEF phCompletedText, pool
  <2>13. packetRecievedCB(c, m) BY <1>1 DEF m
  <2> QED BY <1>6, <2>3, <2>4, <2>5, <2>6, <2>7, <2>8, <2>9, <2>10, <2>11, <2>12, <2>13
          DEF packetRecievedCB
<1> HIDE DEF m
<1> QED BY <1>1, <1>5, <1>6 DEF packetRecievedCB

\* Every step of a server whose slots are stable.
LEMMA ServerReports ==
    ASSUME SystemInv, SlotsStable, NoneGone, ServerStep
    PROVE  \/ Chat \/ Announcement
           \/ \E c \in Slots : Farewell(c)
           \/ \E c \in Slots, n \in Names : Renaming(c, n) \/ Introduction(c, n)
<1>0. TypeOK BY DEF SystemInv, TallyInv
<1>1. CASE ServerAccepts
  <2>1. Accept(Head(backlog)) /\ (currentState = 0 \/ NobodyLeaves)
    BY <1>1 DEF ServerAccepts, SlotsStable
  <2>2. PICK c \in Slots : /\ clients[c] = NoSocket
                           /\ clients' = [clients EXCEPT ![c] = Head(backlog)]
                           /\ name' = [name EXCEPT ![c] = NoName]
    BY <2>1 DEF Accept
  <2>3. currentState' = currentState /\ Silent BY <2>1 DEF Accept, game
  <2>4. c \notin Players BY <2>2 DEF Players, Connected
  <2>5. \A d \in Slots \ {c} : clients'[d] = clients[d] /\ name'[d] = name[d]
    BY <1>0, <2>2 DEF TypeOK
  <2>6. name'[c] = NoName BY <1>0, <2>2 DEF TypeOK
  <2>7. Players' = Players BY <2>4, <2>5, <2>6 DEF Players, Connected
  <2>8. \A d \in Players : name'[d] = name[d] BY <2>4, <2>5 DEF Players, Connected
  <2> QED BY <2>1, <2>3, <2>7, <2>8 DEF Chat
<1>2. CASE \E c \in Slots : ServerReads(c) BY <1>2, ReceiveTells
<1>3. ASSUME NEW c \in Slots, ServerHangsUp(c) PROVE Chat \/ Farewell(c)
  <2>1. c \in Connected /\ clients[c] \in hungup /\ disconnectCB(c) BY <1>3 DEF ServerHangsUp
  <2>2. clients' = [clients EXCEPT ![c] = NoSocket] /\ UNCHANGED <<name, currentState>>
    BY <2>1 DEF disconnectCB, game
  <2>3. CASE c \in Players BY <2>1, <2>2, <2>3 DEF disconnectCB, Depart, Farewell
  <2>4. CASE c \notin Players
    <3>1. Silent BY <2>1, <2>4 DEF disconnectCB
    <3>2. Connected' = Connected \ {c} BY <1>0, <2>2 DEF TypeOK, Connected
    <3>3. Players' = Players BY <2>2, <2>4, <3>2 DEF Players
    <3> QED BY <2>2, <3>1, <3>2, <3>3 DEF Chat
  <2> QED BY <2>3, <2>4
<1>4. CASE ServerTicks
  <2>1. Tick /\ UNCHANGED <<clients, name>> BY <1>4 DEF ServerTicks, Tick, pool
  <2>2. CASE endGame
    <3>1. [type |-> "GAME_OVER"] \in ServerPacket BY DEF ServerPacket
    <3> QED BY <2>1, <2>2, <3>1 DEF endGame, Announcement
  <2>3. CASE startGame
    <3>1. PICK t \in Texts : Broadcast([type |-> "START", text_size |-> TextLength[t], text |-> t])
      BY <2>3 DEF startGame
    <3>2. [type |-> "START", text_size |-> TextLength[t], text |-> t] \in ServerPacket
      BY TextAssumption DEF ServerPacket
    <3> QED BY <2>1, <2>3, <3>1, <3>2 DEF startGame, Announcement
  <2>4. CASE ~endGame /\ ~startGame
    <3>1. currentState' = currentState
      BY <2>1, <2>4 DEF Tick, TickRacing, TickCountdown, TickUnready, TickNobody, SetTimer
    <3>2. \/ Silent
          \/ \E n \in Nat : Broadcast([type |-> "BEGIN_TIMER", seconds |-> n])
          \/ Broadcast([type |-> "CANCEL_TIMER"])
      <4>1. CASE TickRacing \/ TickNobody BY <2>4, <4>1 DEF TickRacing, TickNobody
      <4>2. CASE TickUnready BY <4>2 DEF TickUnready
      <4>3. CASE TickCountdown
        <5>1. ASSUME Decremented > 0 PROVE Decremented \div Second \in Nat
          <6>1. Decremented \in Nat BY <1>0, <5>1 DEF Decremented, TypeOK
          <6> QED BY <6>1, SecondType, DivisionType
        <5>2. CountdownSeconds \in Nat BY DEF CountdownSeconds
        <5> QED BY <2>4, <4>3, <5>1, <5>2 DEF TickCountdown
      <4> QED BY <2>1, <4>1, <4>2, <4>3 DEF Tick
    <3>3. /\ [type |-> "CANCEL_TIMER"] \in ServerPacket
          /\ \A n \in Nat : [type |-> "BEGIN_TIMER", seconds |-> n] \in ServerPacket
      BY DEF ServerPacket
    <3>4. CASE Silent BY <2>1, <3>1, <3>4 DEF Chat, Players, Connected
    <3>5. ASSUME NEW p \in ServerPacket, p.type \in {"BEGIN_TIMER", "CANCEL_TIMER"}, Broadcast(p)
          PROVE  Chat
      BY <2>1, <3>1, <3>5, RelayChats DEF LooksUp, K!LobbyLooksUp
    <3> QED BY <3>2, <3>3, <3>4, <3>5
  <2> QED BY <2>2, <2>3, <2>4
<1> QED BY <1>1, <1>2, <1>3, <1>4 DEF ServerStep

-----------------------------------------------------------------------------
(* What the server keeps for a client *)

Listens(k) == mode[k] \in {"CONNECTING", "LOBBY", "PLAYING"}

\* View w of client k is what the server has.  Nobody who has left during the
\* race has come back into its slot.
Kept(k, w) ==
    /\ w.self \in Players /\ clients[w.self] = socket[k]
    /\ w.racing <=> currentState = 1
    /\ w.racing \/ w.gone = {}
    /\ w.gone \cap Connected = {} /\ (NobodyLeaves => w.gone = {})
    /\ w.in = Players /\ \A d \in Players : w.names[d] = name[d]

\* A client of whom the server keeps a view is not the one who leaves, and keeps
\* its slot.
LEMMA SlotKept ==
    ASSUME SystemInv, ServerStep, NEW k \in Clients, Listens(k), NEW w \in Views, Kept(k, w)
    PROVE  /\ socket[k] \in Sockets /\ socket[k] \in Open /\ socket[k] \notin hungup
           /\ w.self \in Slots /\ clients'[w.self] = socket[k] /\ socket' = socket
<1>1. w.self \in Slots /\ socket[k] \in Open BY DEF Kept, Players, Connected, Open
<1>2. socket[k] \in Sockets /\ socket[k] # NoSocket
  <2>1. socket[k] \in Sockets BY <1>1, SocketsHeld
  <2> QED BY <2>1, SocketAssumption
<1>3. socket[k] \notin hungup BY <1>2 DEF SystemInv, Wired
<1>4. PoolStep /\ socket' = socket BY ServerMoves DEF kurai
<1>5. \A c \in Slots, s \in Open \ hungup : clients'[c] = s <=> clients[c] = s
  BY <1>4, PoolSets
<1>6. clients[w.self] = socket[k] BY DEF Kept
<1> QED BY <1>1, <1>2, <1>3, <1>4, <1>5, <1>6

\* A step of the server tells such a client nothing and changes nothing of what
\* it keeps, or one packet that makes sense and accounts for the change.
LEMMA ServerKeeps ==
    ASSUME SystemInv, SlotsStable, NoneGone, ServerStep,
           NEW k \in Clients, Listens(k), NEW w \in Views, Kept(k, w)
    PROVE  \/ sent'[socket[k]] = <<>> /\ Kept(k, w)'
           \/ \E p \in Packets :
                sent'[socket[k]] = <<p>> /\ Fits(p, w) /\ Kept(k, After(w, p))'
<1> DEFINE s == socket[k]
<1>0. TypeOK /\ SocketsDistinct BY DEF SystemInv, TallyInv
<1>1. /\ s \in Sockets /\ s \in Open /\ s \notin hungup
      /\ w.self \in Slots /\ clients'[w.self] = s /\ socket' = socket
  BY SlotKept
<1>2. /\ w.self \in Players /\ clients[w.self] = s /\ (w.racing <=> currentState = 1)
      /\ (w.racing \/ w.gone = {}) /\ w.gone \cap Connected = {}
      /\ (NobodyLeaves => w.gone = {})
      /\ w.in = Players /\ \A d \in Players : w.names[d] = name[d]
  BY DEF Kept
<1>3. Players \subseteq Connected /\ Connected \subseteq Slots BY DEF Players, Connected
<1>4. ASSUME NEW p, Broadcast(p) PROVE sent'[s] = <<p>> BY <1>1, <1>4 DEF Broadcast
<1>5. \A p \in ServerPacket : p \in Packets /\ p.type # "ON_CONNECT"
  BY DEF Packets, ServerPacket
<1>6. clients'[w.self] = socket'[k] BY <1>1
<1> HIDE DEF s
<1>7. CASE Chat
  <2>1. /\ currentState' = currentState /\ Players' = Players
        /\ \A d \in Players : name'[d] = name[d]
        /\ currentState = 1 => Connected' \subseteq Connected \/ NobodyLeaves
    BY <1>7 DEF Chat
  <2>2. w.gone \cap Connected' = {} BY <1>2, <2>1
  <2>3. ASSUME NEW u, u.self = w.self, u.racing = w.racing, u.in = w.in, u.gone = w.gone,
               \A d \in Players : u.names[d] = w.names[d]
        PROVE  Kept(k, u)'
    BY <1>2, <1>6, <2>1, <2>2, <2>3 DEF Kept
  <2>4. CASE Silent
    <3>1. sent'[s] = <<>> BY <1>1, <2>4 DEF Silent
    <3>2. Kept(k, w)' BY <2>3
    <3> QED BY <3>1, <3>2 DEF s
  <2>5. ASSUME NEW p \in ServerPacket, p.type \in LooksUp => p.id \in Players, Broadcast(p),
               p.type \notin {"CONNECT", "DISCONNECT", "UPDATE_NAME", "START", "GAME_OVER"}
        PROVE  p \in Packets /\ sent'[s] = <<p>> /\ Fits(p, w) /\ Kept(k, After(w, p))'
    <3> DEFINE u == After(w, p)
    <3>1. ~Marks(p) /\ p.type # "ON_CONNECT" BY <1>5, <2>5 DEF Marks
    <3>2. u.self = w.self /\ u.racing = w.racing /\ u.in = w.in /\ u.gone = w.gone
      BY <2>5, <3>1 DEF After
    <3>3. \A d \in Slots : u.names[d] = w.names[d] BY <2>5, <3>1 DEF After
    <3> HIDE DEF u
    <3>4. Kept(k, u)' BY <1>3, <2>3, <3>2, <3>3
    <3>5. Fits(p, w) BY <1>2, <2>5 DEF Fits
    <3> QED BY <1>4, <1>5, <2>5, <3>4, <3>5 DEF u
  <2> QED BY <1>7, <2>4, <2>5 DEF Chat, s
<1>8. ASSUME NEW c \in Slots, Farewell(c)
      PROVE  \E p \in Packets : sent'[s] = <<p>> /\ Fits(p, w) /\ Kept(k, After(w, p))'
  <2> DEFINE p == [type |-> "DISCONNECT", id |-> c]
             u == After(w, p)
  <2>1. p \in ServerPacket /\ p.type = "DISCONNECT" /\ p.id = c BY DEF ServerPacket
  <2>2. c \in Players /\ Broadcast(p) /\ UNCHANGED <<name, currentState>> BY <1>8 DEF Farewell
  <2>3. c # w.self /\ ~NobodyLeaves BY <1>1, <1>2, <1>8 DEF Farewell, NoneGone
  <2>4. Connected' = Connected \ {c} /\ Players' = Players \ {c}
    <3>1. clients' = [clients EXCEPT ![c] = NoSocket] BY <1>8 DEF Farewell
    <3>2. Connected' = Connected \ {c} BY <1>0, <3>1 DEF TypeOK, Connected
    <3> QED BY <2>2, <3>2 DEF Players
  <2> HIDE DEF p
  <2>5. /\ u.self = w.self /\ u.racing = w.racing /\ u.in = w.in \ {c}
        /\ u.gone = IF w.racing THEN w.gone \cup {c} ELSE w.gone
    BY <2>1 DEF After, Marks
  <2>6. \A d \in Slots : u.names[d] = w.names[d] BY <2>1 DEF After, Marks
  <2> HIDE DEF u
  <2>7. Kept(k, u)' BY <1>2, <1>3, <1>6, <2>2, <2>3, <2>4, <2>5, <2>6 DEF Kept
  <2>8. Fits(p, w) BY <1>2, <2>1, <2>2, <2>3 DEF Fits
  <2> QED BY <1>4, <1>5, <2>1, <2>2, <2>7, <2>8 DEF u
<1>9. ASSUME NEW c \in Slots, NEW n \in Names, Renaming(c, n)
      PROVE  \E p \in Packets : sent'[s] = <<p>> /\ Fits(p, w) /\ Kept(k, After(w, p))'
  <2> DEFINE p == [type |-> "UPDATE_NAME", id |-> c, name |-> n]
             u == After(w, p)
  <2>1. p \in ServerPacket /\ p.type = "UPDATE_NAME" /\ p.id = c /\ p.name = n BY DEF ServerPacket
  <2>2. c \in Players /\ Broadcast(p) /\ UNCHANGED <<clients, currentState>>
        /\ name' = [name EXCEPT ![c] = n]
    BY <1>9 DEF Renaming
  <2>3. \A d \in Slots : name'[d] = IF d = c THEN n ELSE name[d] BY <1>0, <2>2 DEF TypeOK
  <2>4. Connected' = Connected BY <2>2 DEF Connected
  <2>5. Players' = Players BY <1>3, <2>2, <2>3, <2>4, NameAssumption DEF Players
  <2> HIDE DEF p
  <2>6. u.self = w.self /\ u.racing = w.racing /\ u.in = w.in /\ u.gone = w.gone
    BY <2>1 DEF After, Marks
  <2>7. \A d \in Slots : u.names[d] = IF d = c THEN n ELSE w.names[d] BY <2>1 DEF After
  <2> HIDE DEF u
  <2>8. Kept(k, u)' BY <1>2, <1>3, <1>6, <2>2, <2>3, <2>4, <2>5, <2>6, <2>7 DEF Kept
  <2>9. Fits(p, w) BY <1>2, <2>1, <2>2 DEF Fits
  <2> QED BY <1>4, <1>5, <2>1, <2>2, <2>8, <2>9 DEF u
<1>10. ASSUME NEW c \in Slots, NEW n \in Names, Introduction(c, n)
       PROVE  \E p \in Packets : sent'[s] = <<p>> /\ Fits(p, w) /\ Kept(k, After(w, p))'
  <2>1. c \in Connected \ Players /\ name' = [name EXCEPT ![c] = n]
        /\ UNCHANGED <<clients, currentState>>
    BY <1>10 DEF Introduction
  <2>2. s # clients[c] BY <1>0, <1>2, <1>3, <2>1 DEF SocketsDistinct
  <2>3. PICK p \in ServerPacket :
          p.type = "CONNECT" /\ p.id = c /\ p.name = n /\ sent'[s] = <<p>>
    BY <1>1, <1>10, <2>2 DEF Introduction
  <2> DEFINE u == After(w, p)
  <2>4. \A d \in Slots : name'[d] = IF d = c THEN n ELSE name[d] BY <1>0, <2>1 DEF TypeOK
  <2>5. Connected' = Connected BY <2>1 DEF Connected
  <2>6. Players' = Players \cup {c} BY <1>3, <2>1, <2>4, <2>5, NameAssumption DEF Players
  <2>7. u.self = w.self /\ u.racing = w.racing /\ u.in = w.in \cup {c} /\ u.gone = w.gone
    BY <2>3 DEF After, Marks
  <2>8. \A d \in Slots : u.names[d] = IF d = c THEN n ELSE w.names[d] BY <2>3 DEF After
  <2> HIDE DEF u
  <2>9. Kept(k, u)' BY <1>2, <1>3, <1>6, <2>1, <2>4, <2>5, <2>6, <2>7, <2>8 DEF Kept
  <2>10. Fits(p, w) BY <1>2, <2>1, <2>3 DEF Fits, LooksUp, K!LobbyLooksUp
  <2> QED BY <1>5, <2>3, <2>9, <2>10 DEF u
<1>11. CASE Announcement
  <2>1. PICK p \in ServerPacket :
          /\ p.type \in {"START", "GAME_OVER"} /\ (p.type = "START" <=> currentState' = 1)
          /\ Broadcast(p)
    BY <1>11 DEF Announcement
  <2> DEFINE u == After(w, p)
  <2>2. UNCHANGED <<clients, name>> BY <1>11 DEF Announcement
  <2>3. Players' = Players /\ Connected' = Connected BY <2>2 DEF Players, Connected
  <2>4. /\ u.self = w.self /\ (u.racing <=> currentState' = 1) /\ u.in = w.in /\ u.gone = {}
        /\ \A d \in Slots : u.names[d] = w.names[d]
    <3>1. Marks(p) /\ (MarksRace(p) <=> p.type = "START") BY <2>1 DEF Marks, MarksRace
    <3> QED BY <2>1, <3>1 DEF After
  <2> HIDE DEF u
  <2>5. Kept(k, u)' BY <1>2, <1>3, <1>6, <2>2, <2>3, <2>4 DEF Kept
  <2>6. Fits(p, w) BY <2>1 DEF Fits, LooksUp, K!LobbyLooksUp
  <2> QED BY <1>4, <1>5, <2>1, <2>5, <2>6 DEF u, s
<1> QED BY <1>7, <1>8, <1>9, <1>10, <1>11, ServerReports DEF s


-----------------------------------------------------------------------------
(* What the server keeps of the flags *)

\* View w has the server's flags, those of readiness while it is in the lobby.
KeptFlags(F, w) ==
    /\ "ready" \in F /\ currentState = 0 => \A d \in Players : d \in w.ready <=> progress[d] # -1
    /\ "spectate" \in F => \A d \in Players : d \in w.aside <=> spectator[d] = 1

\* Nobody does what the two ends take differently.  In the lobby a ready flag is
\* -1 or 0: it holds no index above 255 of a late report, which a toggle turns to
\* ready again.  Nobody changes sides there while ready: the clients then unset
\* the flag and the server keeps it.  Nobody finishes a race who watches it: the
\* clients then take it for a participant.
NextFrom(c, type) == up[clients[c]] # <<>> /\ Head(up[clients[c]]).type = type
FlagsPlain == currentState = 0 => \A c \in Players : progress[c] \in {-1, 0}
SwitchersUnready ==
    currentState = 0 => \A c \in Players : NextFrom(c, "SPECTATE") => progress[c] = -1
FinishersRace == \A c \in Spectators : ~NextFrom(c, "COMPLETED_TEXT")
Orderly(F) ==
    /\ "ready" \in F => FlagsPlain /\ SwitchersUnready
    /\ "spectate" \in F => FinishersRace

\* What the step tells client k leads view w to the server's flags.
FlagsFollow(F, k, w) ==
    /\ sent'[socket[k]] = <<>> => KeptFlags(F, w)'
    /\ \A p : sent'[socket[k]] = <<p>> => KeptFlags(F, After(w, p))'

LEMMA BroadcastFlags ==
    ASSUME NEW F, NEW k \in Clients, NEW w, socket[k] \in Sockets, socket[k] \in Open,
           NEW p, Broadcast(p), KeptFlags(F, After(w, p))'
    PROVE  FlagsFollow(F, k, w)
<1>1. sent'[socket[k]] = <<p>> BY DEF Broadcast
<1>2. ASSUME NEW q, sent'[socket[k]] = <<q>> PROVE q = p BY <1>1, <1>2
<1>3. sent'[socket[k]] # <<>> BY <1>1
<1> QED BY <1>2, <1>3 DEF FlagsFollow

LEMMA SilentFlags ==
    ASSUME NEW F, NEW k \in Clients, NEW w, socket[k] \in Sockets, Silent, KeptFlags(F, w)'
    PROVE  FlagsFollow(F, k, w)
<1>1. sent'[socket[k]] = <<>> BY DEF Silent
<1> QED BY <1>1 DEF FlagsFollow

\* Flags nobody touches stay kept, as long as nobody comes in.
LEMMA FlagsStill ==
    ASSUME NEW F, NEW w, KeptFlags(F, w), NEW u, u.ready = w.ready, u.aside = w.aside,
           currentState' = currentState, Players' \subseteq Players,
           \A d \in Players' : progress'[d] = progress[d] /\ spectator'[d] = spectator[d]
    PROVE  KeptFlags(F, u)'
BY DEF KeptFlags

\* Packets that are about no flag.
LEMMA AfterUnflagged ==
    ASSUME NEW w, NEW p,
           p.type \in {"DISCONNECT", "UPDATE_NAME", "UPDATE_COLOR", "RELAY_MESSAGE", "KILLME",
                       "TEXT_SET", "UPDATE_TIMEOUT", "BEGIN_TIMER", "CANCEL_TIMER"}
    PROVE  After(w, p).ready = w.ready /\ After(w, p).aside = w.aside
<1>1. After(w, p).ready = ReadyAfter(w, p) /\ After(w, p).aside = AsideAfter(w, p) BY DEF After
<1> QED BY <1>1 DEF ReadyAfter, AsideAfter

\* A newcomer is not ready, and watches if there is a race.
LEMMA OnConnectFlags ==
    ASSUME SystemInv, NEW F, NEW k \in Clients, NEW w \in Views, Kept(k, w), KeptFlags(F, w),
           socket[k] \in Sockets, socket[k] \in Open,
           NEW c \in Connected \ Players, NEW n \in Names, NEW col, phOnConnect(c, n, col)
    PROVE  FlagsFollow(F, k, w)
<1> DEFINE p == [type |-> "CONNECT", id |-> c, color |-> col, name |-> n]
           u == After(w, p)
<1>1. TypeOK /\ SocketsDistinct /\ NewcomersFresh BY DEF SystemInv, TallyInv
<1>2. w.self \in Players /\ clients[w.self] = socket[k] /\ (w.racing <=> currentState = 1)
  BY DEF Kept
<1>3. Players \subseteq Connected /\ Connected \subseteq Slots BY DEF Players, Connected
<1>4. c # w.self /\ socket[k] # clients[c] BY <1>1, <1>2, <1>3 DEF SocketsDistinct
<1>5. sent'[socket[k]] = <<p>> BY <1>4 DEF phOnConnect
<1>6. /\ clients' = clients /\ currentState' = currentState /\ progress' = progress
      /\ name' = [name EXCEPT ![c] = n]
      /\ spectator' = IF currentState = 1 THEN [spectator EXCEPT ![c] = 1] ELSE spectator
  BY DEF phOnConnect, game
<1>7. \A d \in Slots : /\ name'[d] = IF d = c THEN n ELSE name[d]
                       /\ spectator'[d] = IF d = c /\ currentState = 1 THEN 1 ELSE spectator[d]
  BY <1>1, <1>3, <1>6 DEF TypeOK
<1>8. Connected' = Connected BY <1>6 DEF Connected
<1>9. Players' = Players \cup {c} BY <1>3, <1>7, <1>8, NameAssumption DEF Players
<1>10. spectator[c] = 0 /\ (currentState = 0 => progress[c] = -1) BY <1>1 DEF NewcomersFresh
<1>11. currentState \in {0, 1} BY <1>1 DEF TypeOK
<1>12. u.ready = w.ready \ {c}
  <2>1. u.ready = ReadyAfter(w, p) BY DEF After
  <2> QED BY <1>4, <2>1 DEF ReadyAfter
<1>13. u.aside = IF currentState = 1 THEN w.aside \cup {c} ELSE w.aside \ {c}
  <2>1. u.aside = AsideAfter(w, p) BY DEF After
  <2> QED BY <1>2, <1>4, <2>1 DEF AsideAfter
<1> HIDE DEF p, u
<1>14. ASSUME "ready" \in F, currentState' = 0, NEW d \in Players'
       PROVE  d \in u.ready <=> progress'[d] # -1
  BY <1>6, <1>9, <1>10, <1>12, <1>14 DEF KeptFlags
<1>15. ASSUME "spectate" \in F, NEW d \in Players'
       PROVE  d \in u.aside <=> spectator'[d] = 1
  <2>1. CASE d = c BY <1>3, <1>7, <1>10, <1>11, <1>13, <2>1
  <2>2. CASE d # c BY <1>3, <1>7, <1>9, <1>13, <1>15, <2>2 DEF KeptFlags
  <2> QED BY <2>1, <2>2
<1>16. KeptFlags(F, u)' BY <1>14, <1>15 DEF KeptFlags
<1>17. ASSUME NEW q, sent'[socket[k]] = <<q>> PROVE q = p BY <1>5, <1>17
<1>18. sent'[socket[k]] # <<>> BY <1>5
<1> QED BY <1>16, <1>17, <1>18 DEF FlagsFollow, u

\* What a player says turns its flags over at both ends, when it is orderly.
LEMMA SayFlags ==
    ASSUME SystemInv, NEW F, Orderly(F), NEW k \in Clients, NEW w \in Views, Kept(k, w),
           KeptFlags(F, w), socket[k] \in Sockets, socket[k] \in Open,
           NEW c \in Players, ServerReads(c)
    PROVE  FlagsFollow(F, k, w)
<1>0. PICK m : m = Head(up[clients[c]]) OBVIOUS
<1>1. up[clients[c]] # <<>> /\ packetRecievedCB(c, m) BY <1>0 DEF ServerReads
<1>2. c \in Slots /\ c \in Connected BY DEF Players, Connected
<1>3. m \in ClientPacket BY <1>0, <1>1, <1>2, HeadStays
<1>4. m.type = "CHANGE_NAME" => m.name \in Names BY <1>3, PacketFields
<1>5. TypeOK BY DEF SystemInv, TallyInv
<1>6. Players \subseteq Slots BY DEF Players, Connected
<1>7. /\ "ready" \in F /\ currentState = 0 => progress[c] \in {-1, 0}
      /\ "ready" \in F /\ currentState = 0 /\ m.type = "SPECTATE" => progress[c] = -1
      /\ "spectate" \in F /\ m.type = "COMPLETED_TEXT" => spectator[c] # 1
  BY <1>0, <1>1 DEF Orderly, FlagsPlain, SwitchersUnready, FinishersRace, NextFrom, Spectators
<1>8. ASSUME UNCHANGED <<clients, name>> PROVE Players' = Players
  BY <1>8 DEF Players, Connected
<1>9. ASSUME NEW p, Broadcast(p), KeptFlags(F, After(w, p))' PROVE FlagsFollow(F, k, w)
  BY <1>9, BroadcastFlags
<1>10. ASSUME NEW p, Broadcast(p), Players' \subseteq Players,
              UNCHANGED <<currentState, progress, spectator>>,
              p.type \in {"DISCONNECT", "UPDATE_NAME", "UPDATE_COLOR", "RELAY_MESSAGE", "KILLME",
                          "TEXT_SET", "UPDATE_TIMEOUT"}
       PROVE  FlagsFollow(F, k, w)
  <2>1. After(w, p).ready = w.ready /\ After(w, p).aside = w.aside BY <1>10, AfterUnflagged
  <2>2. KeptFlags(F, After(w, p))' BY <1>10, <2>1, FlagsStill
  <2> QED BY <1>9, <1>10, <2>2
<1>11. CASE phToggleReady(c)
  <2> DEFINE p == [type |-> "TOGGLE_READY", id |-> c]
             u == After(w, p)
  <2>1. /\ Broadcast(p) /\ UNCHANGED <<clients, name, spectator, currentState>>
        /\ progress' = [progress EXCEPT ![c] = IF progress[c] # 0 THEN 0 ELSE -1]
    BY <1>11 DEF phToggleReady, pool, game
  <2>2. u.ready = ReadyAfter(w, p) /\ u.aside = AsideAfter(w, p) BY DEF After
  <2>3. u.ready = IF c \in w.ready THEN w.ready \ {c} ELSE w.ready \cup {c}
    BY <2>2 DEF ReadyAfter
  <2>4. u.aside = w.aside BY <2>2 DEF AsideAfter
  <2>5. \A d \in Slots :
          progress'[d] = IF d = c THEN (IF progress[c] # 0 THEN 0 ELSE -1) ELSE progress[d]
    BY <1>2, <1>5, <2>1 DEF TypeOK
  <2> HIDE DEF u
  <2>6. KeptFlags(F, u)'
    <3>1. Players' = Players BY <1>8, <2>1
    <3>2. ASSUME "ready" \in F, currentState' = 0, NEW d \in Players'
          PROVE  d \in u.ready <=> progress'[d] # -1
      <4>1. \A e \in Players : e \in w.ready <=> progress[e] # -1
        BY <2>1, <3>2 DEF KeptFlags
      <4>2. CASE d = c BY <1>2, <1>7, <2>1, <2>3, <2>5, <3>2, <4>1, <4>2
      <4>3. CASE d # c BY <1>6, <2>3, <2>5, <3>1, <4>1, <4>3
      <4> QED BY <4>2, <4>3
    <3>3. ASSUME "spectate" \in F, NEW d \in Players' PROVE d \in u.aside <=> spectator'[d] = 1
      BY <2>1, <2>4, <3>1, <3>3 DEF KeptFlags
    <3> QED BY <3>2, <3>3 DEF KeptFlags
  <2> QED BY <1>9, <2>1, <2>6 DEF u
<1>12. CASE m.type = "SPECTATE" /\ phToggleSpectate(c)
  <2> DEFINE p == [type |-> "RELAY_SPECTATE", id |-> c]
             u == After(w, p)
  <2>1. /\ Broadcast(p) /\ UNCHANGED <<clients, name, progress, currentState>>
        /\ spectator' = [spectator EXCEPT ![c] = 1 - spectator[c]]
    BY <1>12 DEF phToggleSpectate, pool, game
  <2>2. u.ready = ReadyAfter(w, p) /\ u.aside = AsideAfter(w, p) BY DEF After
  <2>3. u.ready = w.ready \ {c} BY <2>2 DEF ReadyAfter
  <2>4. u.aside = IF c \in w.aside THEN w.aside \ {c} ELSE w.aside \cup {c}
    BY <2>2 DEF AsideAfter
  <2>5. spectator[c] \in {0, 1} BY <1>2, <1>5 DEF TypeOK
  <2>6. \A d \in Slots : spectator'[d] = IF d = c THEN 1 - spectator[c] ELSE spectator[d]
    BY <1>2, <1>5, <2>1 DEF TypeOK
  <2> HIDE DEF u
  <2>7. KeptFlags(F, u)'
    <3>1. Players' = Players BY <1>8, <2>1
    <3>2. ASSUME "ready" \in F, currentState' = 0, NEW d \in Players'
          PROVE  d \in u.ready <=> progress'[d] # -1
      <4>1. \A e \in Players : e \in w.ready <=> progress[e] # -1
        BY <2>1, <3>2 DEF KeptFlags
      <4>2. progress[c] = -1 BY <1>7, <1>12, <2>1, <3>2
      <4> QED BY <2>1, <2>3, <3>1, <4>1, <4>2
    <3>3. ASSUME "spectate" \in F, NEW d \in Players' PROVE d \in u.aside <=> spectator'[d] = 1
      <4>1. \A e \in Players : e \in w.aside <=> spectator[e] = 1 BY <3>3 DEF KeptFlags
      <4>2. CASE d = c BY <1>2, <2>4, <2>5, <2>6, <4>1, <4>2
      <4>3. CASE d # c BY <1>6, <2>4, <2>6, <3>1, <4>1, <4>3
      <4> QED BY <4>2, <4>3
    <3> QED BY <3>2, <3>3 DEF KeptFlags
  <2> QED BY <1>9, <2>1, <2>7 DEF u
<1>13. CASE m.type = "SEND_PROGRESS" /\ phSendProgress(c, m.progress)
  <2> DEFINE p == [type |-> "UPDATE_PROGRESS", id |-> c, progress |-> m.progress]
             u == After(w, p)
  <2>1. /\ Broadcast(p) /\ UNCHANGED <<clients, name, spectator, currentState>>
        /\ \E x \in {0, 1} : progress' = [progress EXCEPT ![c] = x]
    BY <1>13 DEF phSendProgress, StoredProgress, pool, game
  <2>2. u.ready = ReadyAfter(w, p) /\ u.aside = AsideAfter(w, p) BY DEF After
  <2>3. u.ready = w.ready \cup {c} BY <2>2 DEF ReadyAfter
  <2>4. u.aside = w.aside BY <2>2 DEF AsideAfter
  <2>5. progress'[c] # -1 /\ \A d \in Slots : d # c => progress'[d] = progress[d]
    BY <1>2, <1>5, <2>1 DEF TypeOK
  <2> HIDE DEF u
  <2>6. KeptFlags(F, u)'
    <3>1. Players' = Players BY <1>8, <2>1
    <3>2. ASSUME "ready" \in F, currentState' = 0, NEW d \in Players'
          PROVE  d \in u.ready <=> progress'[d] # -1
      <4>1. \A e \in Players : e \in w.ready <=> progress[e] # -1
        BY <2>1, <3>2 DEF KeptFlags
      <4> QED BY <1>6, <2>3, <2>5, <3>1, <4>1
    <3>3. ASSUME "spectate" \in F, NEW d \in Players' PROVE d \in u.aside <=> spectator'[d] = 1
      BY <2>1, <2>4, <3>1, <3>3 DEF KeptFlags
    <3> QED BY <3>2, <3>3 DEF KeptFlags
  <2> QED BY <1>9, <2>1, <2>6 DEF u
<1>14. CASE m.type = "COMPLETED_TEXT" /\ phCompletedText(c, m.time)
  <2> DEFINE p == [type |-> "PLAYER_COMPLETED", id |-> c, time |-> m.time]
             u == After(w, p)
  <2>1. Broadcast(p) /\ UNCHANGED <<clients, name, progress, spectator, currentState>>
    BY <1>14 DEF phCompletedText, pool
  <2>2. u.ready = ReadyAfter(w, p) /\ u.aside = AsideAfter(w, p) BY DEF After
  <2>3. u.ready = w.ready BY <2>2 DEF ReadyAfter
  <2>4. u.aside = w.aside \ {c} BY <2>2 DEF AsideAfter
  <2> HIDE DEF u
  <2>5. KeptFlags(F, u)'
    <3>1. Players' = Players BY <1>8, <2>1
    <3>2. ASSUME "ready" \in F, currentState' = 0, NEW d \in Players'
          PROVE  d \in u.ready <=> progress'[d] # -1
      BY <2>1, <2>3, <3>1, <3>2 DEF KeptFlags
    <3>3. ASSUME "spectate" \in F, NEW d \in Players' PROVE d \in u.aside <=> spectator'[d] = 1
      BY <1>7, <1>14, <2>1, <2>4, <3>1, <3>3 DEF KeptFlags
    <3> QED BY <3>2, <3>3 DEF KeptFlags
  <2> QED BY <1>9, <2>1, <2>5 DEF u
<1>15. CASE m.type = "CHANGE_NAME" /\ phChangeName(c, m.name)
  <2>1. /\ Broadcast([type |-> "UPDATE_NAME", id |-> c, name |-> m.name])
        /\ UNCHANGED <<clients, currentState, progress, spectator>>
        /\ name' = [name EXCEPT ![c] = m.name]
    BY <1>15 DEF phChangeName, game
  <2>2. \A d \in Slots : name'[d] = IF d = c THEN m.name ELSE name[d]
    BY <1>2, <1>5, <2>1 DEF TypeOK
  <2>3. Connected' = Connected BY <2>1 DEF Connected
  <2>4. Players' = Players BY <1>4, <1>6, <1>15, <2>2, <2>3, NameAssumption DEF Players, Connected
  <2> QED BY <1>10, <2>1, <2>4
<1>16. CASE phColor(c, m.color)
  <2>1. /\ Broadcast([type |-> "UPDATE_COLOR", id |-> c, color |-> m.color])
        /\ UNCHANGED <<clients, name, currentState, progress, spectator>>
    BY <1>16 DEF phColor, game
  <2> QED BY <1>8, <1>10, <2>1
<1>17. CASE phSendMessage(c) \/ Relay(c, "KILLME")
  <2>1. PICK type \in {"RELAY_MESSAGE", "KILLME"} : Relay(c, type) BY <1>17 DEF phSendMessage
  <2>2. /\ Broadcast([type |-> type, id |-> c])
        /\ UNCHANGED <<clients, name, currentState, progress, spectator>>
    BY <2>1 DEF Relay, game, pool
  <2> QED BY <1>8, <1>10, <2>2
<1>18. CASE phTextSet(c, m.text)
  <2>1. /\ Broadcast([type |-> "TEXT_SET", text |-> m.text])
        /\ UNCHANGED <<clients, name, currentState, progress, spectator>>
    BY <1>18 DEF phTextSet, pool
  <2> QED BY <1>8, <1>10, <2>1
<1>19. CASE phTimeout(c, m.timeout)
  <2>1. /\ Broadcast([type |-> "UPDATE_TIMEOUT", timeout |-> m.timeout])
        /\ UNCHANGED <<clients, name, currentState, progress, spectator>>
    BY <1>19 DEF phTimeout, pool, game
  <2> QED BY <1>8, <1>10, <2>1
<1>20. CASE phDisconnect(c)
  <2>1. /\ Broadcast([type |-> "DISCONNECT", id |-> c])
        /\ UNCHANGED <<name, currentState, progress, spectator>>
        /\ clients' = [clients EXCEPT ![c] = NoSocket]
    BY <1>20 DEF phDisconnect, Depart, game
  <2>2. Players' \subseteq Players BY <1>5, <2>1 DEF TypeOK, Players, Connected
  <2> QED BY <1>10, <2>1, <2>2
<1> QED BY <1>1, <1>11, <1>12, <1>13, <1>14, <1>15, <1>16, <1>17, <1>18, <1>19, <1>20
        DEF packetRecievedCB

\* The main loop touches the flags when a race starts or ends.
LEMMA TickFlags ==
    ASSUME SystemInv, NEW F, NEW k \in Clients, NEW w \in Views, Kept(k, w), KeptFlags(F, w),
           socket[k] \in Sockets, socket[k] \in Open, Tick
    PROVE  FlagsFollow(F, k, w)
<1>1. TypeOK BY DEF SystemInv, TallyInv
<1>2. UNCHANGED <<clients, name, spectator>> BY DEF Tick, pool
<1>3. Players' = Players /\ Players \subseteq Slots BY <1>2 DEF Players, Connected
<1>4. w.racing <=> currentState = 1 BY DEF Kept
<1>5. ASSUME UNCHANGED <<currentState, progress>>, Silent PROVE FlagsFollow(F, k, w)
  <2>1. KeptFlags(F, w)' BY <1>2, <1>3, <1>5, FlagsStill
  <2> QED BY <1>5, <2>1, SilentFlags
<1>6. ASSUME UNCHANGED <<currentState, progress>>, NEW p, Broadcast(p),
             p.type \in {"BEGIN_TIMER", "CANCEL_TIMER"}
      PROVE  FlagsFollow(F, k, w)
  <2>1. After(w, p).ready = w.ready /\ After(w, p).aside = w.aside BY <1>6, AfterUnflagged
  <2>2. KeptFlags(F, After(w, p))' BY <1>2, <1>3, <1>6, <2>1, FlagsStill
  <2> QED BY <1>6, <2>2, BroadcastFlags
<1>7. CASE TickRacing
  <2>1. CASE endGame
    <3> DEFINE p == [type |-> "GAME_OVER"]
               u == After(w, p)
    <3>1. Broadcast(p) /\ currentState' = 0 /\ progress' = [d \in Slots |-> -1]
      BY <2>1 DEF endGame
    <3>2. w.racing BY <1>4, <1>7 DEF TickRacing
    <3>3. u.ready = ReadyAfter(w, p) /\ u.aside = AsideAfter(w, p) BY DEF After
    <3>4. u.ready = {} /\ u.aside = w.aside BY <3>2, <3>3 DEF ReadyAfter, AsideAfter
    <3> HIDE DEF u
    <3>5. \A d \in Players' : progress'[d] = -1 BY <1>3, <3>1
    <3>6. KeptFlags(F, u)' BY <1>2, <1>3, <3>4, <3>5 DEF KeptFlags
    <3> QED BY <3>1, <3>6, BroadcastFlags DEF u
  <2>2. CASE UNCHANGED <<currentState, progress>> /\ Silent BY <1>5, <2>2
  <2> QED BY <1>7, <2>1, <2>2 DEF TickRacing
<1>8. CASE TickCountdown
  <2>1. CASE startGame
    <3>1. PICK p : Broadcast(p) /\ p.type = "START" /\ currentState' = 1
      BY <2>1 DEF startGame
    <3> DEFINE u == After(w, p)
    <3>2. u.aside = AsideAfter(w, p) BY DEF After
    <3>3. u.aside = w.aside BY <3>1, <3>2 DEF AsideAfter
    <3> HIDE DEF u
    <3>4. KeptFlags(F, u)' BY <1>2, <1>3, <3>1, <3>3 DEF KeptFlags
    <3> QED BY <3>1, <3>4, BroadcastFlags DEF u
  <2>2. CASE ~startGame
    <3>1. UNCHANGED <<currentState, progress>> BY <1>8, <2>2 DEF TickCountdown, SetTimer
    <3>2. Silent \/ \E n : Broadcast([type |-> "BEGIN_TIMER", seconds |-> n])
      BY <1>8, <2>2 DEF TickCountdown
    <3> QED BY <1>5, <1>6, <3>1, <3>2
  <2> QED BY <2>1, <2>2
<1>9. CASE TickUnready
  <2>1. UNCHANGED <<currentState, progress>> BY <1>9 DEF TickUnready, SetTimer
  <2>2. Silent \/ Broadcast([type |-> "CANCEL_TIMER"]) BY <1>9 DEF TickUnready
  <2> QED BY <1>5, <1>6, <2>1, <2>2
<1>10. CASE TickNobody
  <2>1. UNCHANGED <<currentState, progress>> /\ Silent BY <1>10 DEF TickNobody, SetTimer
  <2> QED BY <1>5, <2>1
<1> QED BY <1>7, <1>8, <1>9, <1>10 DEF Tick

\* Every step of the server keeps to the flags it tells.
LEMMA ServerKeepsFlags ==
    ASSUME SystemInv, NEW F, Orderly(F), ServerStep, NEW k \in Clients, Listens(k),
           NEW w \in Views, Kept(k, w), KeptFlags(F, w)
    PROVE  FlagsFollow(F, k, w)
<1>1. socket[k] \in Sockets /\ socket[k] \in Open BY SlotKept
<1>2. TypeOK BY DEF SystemInv, TallyInv
<1>3. CASE ServerAccepts
  <2>1. Accept(Head(backlog)) BY <1>3 DEF ServerAccepts
  <2>2. PICK c \in Slots : /\ clients[c] = NoSocket
                           /\ clients' = [clients EXCEPT ![c] = Head(backlog)]
                           /\ name' = [name EXCEPT ![c] = NoName]
                           /\ progress' = [progress EXCEPT ![c] = -1]
                           /\ spectator' = [spectator EXCEPT ![c] = 0]
    BY <2>1 DEF Accept
  <2>3. currentState' = currentState /\ Silent BY <2>1 DEF Accept, game
  <2>4. c \notin Players BY <2>2 DEF Players, Connected
  <2>5. \A d \in Slots \ {c} : /\ clients'[d] = clients[d] /\ name'[d] = name[d]
                               /\ progress'[d] = progress[d] /\ spectator'[d] = spectator[d]
    BY <1>2, <2>2 DEF TypeOK
  <2>6. name'[c] = NoName BY <1>2, <2>2 DEF TypeOK
  <2>7. Players' = Players BY <2>4, <2>5, <2>6 DEF Players, Connected
  <2>8. \A d \in Players : progress'[d] = progress[d] /\ spectator'[d] = spectator[d]
    BY <2>4, <2>5 DEF Players, Connected
  <2>9. KeptFlags(F, w)' BY <2>3, <2>7, <2>8, FlagsStill
  <2> QED BY <1>1, <2>3, <2>9, SilentFlags
<1>4. ASSUME NEW c \in Slots, ServerReads(c) PROVE FlagsFollow(F, k, w)
  <2>1. CASE c \in Players BY <1>1, <1>4, <2>1, SayFlags
  <2>2. CASE c \notin Players
    <3> DEFINE m == Head(up[clients[c]])
    <3>1. c \in Connected /\ up[clients[c]] # <<>> /\ packetRecievedCB(c, m)
      BY <1>4 DEF ServerReads
    <3>2. m \in ClientPacket BY <1>4, <3>1, HeadStays
    <3>3. m.type = "ON_CONNECT" /\ phOnConnect(c, m.name, m.color)
      BY <2>2, <3>1 DEF packetRecievedCB
    <3>4. m.name \in Names BY <3>2, <3>3, PacketFields
    <3> HIDE DEF m
    <3> QED BY <1>1, <2>2, <3>1, <3>3, <3>4, OnConnectFlags
  <2> QED BY <2>1, <2>2
<1>5. ASSUME NEW c \in Slots, ServerHangsUp(c) PROVE FlagsFollow(F, k, w)
  <2>1. c \in Connected /\ disconnectCB(c) BY <1>5 DEF ServerHangsUp
  <2>2. /\ clients' = [clients EXCEPT ![c] = NoSocket]
        /\ UNCHANGED <<name, progress, spectator, currentState>>
    BY <2>1 DEF disconnectCB, game
  <2>3. Players' \subseteq Players BY <1>2, <2>2 DEF TypeOK, Players, Connected
  <2>4. CASE c \in Players
    <3> DEFINE p == [type |-> "DISCONNECT", id |-> c]
    <3>1. Broadcast(p) BY <2>1, <2>4 DEF disconnectCB, Depart
    <3>2. After(w, p).ready = w.ready /\ After(w, p).aside = w.aside BY AfterUnflagged
    <3> HIDE DEF p
    <3>3. KeptFlags(F, After(w, p))' BY <2>2, <2>3, <3>2, FlagsStill
    <3> QED BY <1>1, <3>1, <3>3, BroadcastFlags
  <2>5. CASE c \notin Players
    <3>1. Silent BY <2>1, <2>5 DEF disconnectCB
    <3>2. KeptFlags(F, w)' BY <2>2, <2>3, FlagsStill
    <3> QED BY <1>1, <3>1, <3>2, SilentFlags
  <2> QED BY <2>4, <2>5
<1>6. CASE ServerTicks BY <1>1, <1>6, TickFlags DEF ServerTicks
<1> QED BY <1>3, <1>4, <1>5, <1>6 DEF ServerStep

-----------------------------------------------------------------------------
(* A client knows what it is told *)

\* View v is what client k shows.
Sees(F, k, v) ==
    /\ mode[k] = "LOBBY" => Lists(F, list[k], v)
    /\ mode[k] = "PLAYING" => /\ Shows(F, list[k][1], race[k].players, v)
                              /\ Sided(F, list[k][1].id, race[k].status, v)

\* The stream begins with the client's snapshot.
Greeting(q) == q # <<>> /\ Head(q).type = "ON_CONNECT"

\* A client follows the server once its snapshot is under way.  What it has not
\* read leads from what it shows to what the server has.
Follows(k) == InStep(k) \/ (mode[k] = "CONNECTING" /\ Greeting(down[socket[k]]))
Told(F, k) ==
    Follows(k) =>
        \E v, w \in Views : /\ Sees(F, k, v) /\ Kept(k, w) /\ KeptFlags(F, w)
                            /\ Story(down[socket[k]], v, w)

\* Before that it lists itself alone, and gives and is given its own name.
Named(n) == {p \in ClientPacket : p.type = "ON_CONNECT" => p.name = n}
Introduces(F, k) ==
    /\ mode[k] \in {"DISCONNECTED", "CONNECTING"} => Alone(F, list[k])
    /\ mode[k] = "CONNECTING" =>
        /\ up[socket[k]] \in Seq(Named(list[k][1].name))
        /\ Greeting(down[socket[k]]) => NamesSelf(Head(down[socket[k]]), list[k][1].name)

RosterInv(F) ==
    NoneGone /\ \A k \in Clients : mode[k] # "ASTRAY" /\ Told(F, k) /\ Introduces(F, k)

\* Two packets are one after the other.
LEMMA Pair ==
    ASSUME NEW R, NEW p \in R, NEW q \in R
    PROVE  <<p>> \o <<q>> = <<p, q>>
<1> DEFINE a == <<p>>
           b == <<q>>
           c == <<p, q>>
<1>1. a \in Seq(R) /\ b \in Seq(R) /\ Len(a) = 1 /\ Len(b) = 1 /\ a[1] = p /\ b[1] = q
  OBVIOUS
<1>2. c \in Seq(R) /\ Len(c) = 2 /\ c[1] = p /\ c[2] = q OBVIOUS
<1> HIDE DEF a, b, c
<1>3. a \o b \in Seq(R) /\ Len(a \o b) = 2 /\ (a \o b)[1] = p /\ (a \o b)[2] = q
  <2>1. /\ a \o b \in Seq(R) /\ Len(a \o b) = Len(a) + Len(b)
        /\ \A i \in 1 .. Len(a) + Len(b) :
             (a \o b)[i] = IF i <= Len(a) THEN a[i] ELSE b[i - Len(a)]
    BY <1>1, ConcatProperties
  <2> QED BY <1>1, <2>1
<1>4. \A i \in 1 .. 2 : (a \o b)[i] = c[i] BY <1>2, <1>3
<1>5. a \o b = c BY <1>2, <1>3, <1>4, SeqEqual
<1> QED BY <1>5 DEF a, b, c

\* The story of two packets.
LEMMA StoryOfTwo ==
    ASSUME NEW p \in Packets, NEW q \in Packets, NEW v \in Views,
           Fits(p, v), Fits(q, After(v, p))
    PROVE  Story(<<p, q>>, v, After(After(v, p), q))
<1>1. <<>> \in Seq(Packets) /\ <<p>> \in Seq(Packets) /\ <<>> \o <<p>> = <<p>> OBVIOUS
<1>2. After(v, p) \in Views BY AfterType
<1>3. After(After(v, p), q) \in Views BY <1>2, AfterType
<1>4. Story(<<>>, v, v) BY StoryEmpty
<1>5. Story(<<>> \o <<p>>, v, After(v, p)) BY <1>1, <1>2, <1>4, StoryGrows
<1>6. Story(<<p>>, v, After(v, p)) BY <1>1, <1>5
<1>7. Story(<<p>> \o <<q>>, v, After(After(v, p), q)) BY <1>1, <1>3, <1>6, StoryGrows
<1> QED BY <1>7, Pair

\* A stream that goes on keeps its head.
LEMMA HeadJoined ==
    ASSUME NEW R, NEW s \in Seq(R), NEW t \in Seq(R)
    PROVE  /\ s # <<>> => s \o t # <<>> /\ Head(s \o t) = Head(s)
           /\ s = <<>> => s \o t = t
<1>1. ASSUME s # <<>> PROVE s \o t # <<>> /\ Head(s \o t) = Head(s)
  <2>1. Len(s) \in Nat \ {0} /\ Len(t) \in Nat /\ Head(s) = s[1]
    BY <1>1, Remaining, LenProperties
  <2>2. s \o t \in Seq(R) /\ DOMAIN (s \o t) = 1 .. Len(s) + Len(t) /\ (s \o t)[1] = s[1]
    BY <2>1, JoinedStreams
  <2>3. 1 \in DOMAIN (s \o t) BY <2>1, <2>2
  <2>4. s \o t # <<>> BY <2>3
  <2>5. Head(s \o t) = (s \o t)[1] BY <2>2, <2>4, Remaining
  <2> QED BY <2>1, <2>2, <2>4, <2>5
<1>2. ASSUME s = <<>> PROVE s \o t = t BY <1>2, ConcatEmptySeq
<1> QED BY <1>1, <1>2

\* Only its introduction brings a client a snapshot.
LEMMA GreetingComes ==
    ASSUME SystemInv, SlotsStable, NoneGone, ServerStep, NEW k \in Clients,
           mode[k] = "CONNECTING", ~Greeting(down[socket[k]]), Greeting(down'[socket[k]])
    PROVE  /\ socket[k] \in Open /\ socket[k] \in Sockets
           /\ down'[socket[k]] = sent'[socket[k]]
           /\ \E c \in Slots, n \in Names : Introduction(c, n) /\ clients[c] = socket[k]
<1> DEFINE s == socket[k]
<1>1. /\ s \in Sockets
      /\ s \notin Open => down'[s] = <<>>
      /\ s \in Open => /\ down'[s] = down[s] \o sent'[s]
                       /\ down[s] \in Seq(Packets) /\ sent'[s] \in Seq(Packets)
  BY Delivered
<1> HIDE DEF s
<1>2. ~Greeting(down[s]) /\ Greeting(down'[s]) BY DEF s
<1>3. s \in Open BY <1>1, <1>2 DEF Greeting
<1>4. down[s] = <<>> /\ down'[s] = sent'[s]
  BY <1>1, <1>2, <1>3, HeadJoined DEF Greeting
<1>5. sent'[s] # <<>> /\ Head(sent'[s]).type = "ON_CONNECT" BY <1>2, <1>4 DEF Greeting
<1>6. ASSUME NEW p \in ServerPacket, sent'[s] = <<p>> PROVE FALSE
  <2>1. p.type = "ON_CONNECT" BY <1>5, <1>6
  <2> QED BY <2>1 DEF ServerPacket
<1>7. ~Silent BY <1>1, <1>5 DEF Silent
<1>8. \A p \in ServerPacket : ~Broadcast(p)
  <2>1. ASSUME NEW p \in ServerPacket, Broadcast(p) PROVE FALSE
    <3>1. sent'[s] = <<p>> BY <1>1, <1>3, <2>1 DEF Broadcast
    <3> QED BY <1>6, <3>1
  <2> QED BY <2>1
<1>9. ~Chat /\ ~Announcement BY <1>7, <1>8 DEF Chat, Announcement
<1>10. \A c \in Slots : ~Farewell(c)
  <2>1. \A c \in Slots : [type |-> "DISCONNECT", id |-> c] \in ServerPacket BY DEF ServerPacket
  <2> QED BY <1>8, <2>1 DEF Farewell
<1>11. \A c \in Slots, n \in Names : ~Renaming(c, n)
  <2>1. \A c \in Slots, n \in Names :
          [type |-> "UPDATE_NAME", id |-> c, name |-> n] \in ServerPacket
    BY DEF ServerPacket
  <2> QED BY <1>8, <2>1 DEF Renaming
<1>12. PICK c \in Slots, n \in Names : Introduction(c, n)
  BY <1>9, <1>10, <1>11, ServerReports
<1>13. clients[c] = s
  <2>1. SUFFICES ASSUME s # clients[c] PROVE FALSE OBVIOUS
  <2>2. PICK q \in ServerPacket : sent'[s] = <<q>> BY <1>1, <1>3, <1>12, <2>1 DEF Introduction
  <2> QED BY <1>6, <2>2
<1> QED BY <1>1, <1>3, <1>4, <1>12, <1>13 DEF s

\* The server's first words to a client tell it what the server has.
LEMMA ServerIntroduces ==
    ASSUME SystemInv, SlotsStable, NoneGone, ServerStep, NEW F, NEW k \in Clients, Introduces(F, k),
           mode[k] = "CONNECTING", ~Greeting(down[socket[k]]), Greeting(down'[socket[k]])
    PROVE  /\ \E v, w \in Views :
              Kept(k, w)' /\ KeptFlags(F, w)' /\ Story(down'[socket[k]], v, w)
           /\ NamesSelf(Head(down'[socket[k]]), list[k][1].name)
<1>0. TypeOK /\ NewcomersFresh BY DEF SystemInv, TallyInv
<1>1. PICK c \in Slots, n \in Names :
        /\ socket[k] \in Open /\ socket[k] \in Sockets /\ down'[socket[k]] = sent'[socket[k]]
        /\ Introduction(c, n) /\ clients[c] = socket[k]
  BY GreetingComes
<1>2. PICK p \in SnapshotPacket, q \in ServerPacket :
        /\ p.id = c /\ p.in_progress = currentState /\ DOMAIN p.players = Players \cup {c}
        /\ p.players[c].name = n /\ \A d \in Players : p.players[d].name = name[d]
        /\ \A d \in DOMAIN p.players :
             p.players[d].progress = progress[d] /\ p.players[d].spectator = spectator'[d]
        /\ q.type = "CONNECT" /\ q.id = c /\ q.name = n
        /\ sent'[socket[k]] = <<p, q>>
  BY <1>1 DEF Introduction
<1>3. n = list[k][1].name
  <2>1. /\ up[socket[k]] # <<>> /\ Head(up[socket[k]]).type = "ON_CONNECT"
        /\ Head(up[socket[k]]).name = n
    BY <1>1 DEF Introduction
  <2>2. Head(up[socket[k]]) \in Named(list[k][1].name) BY <2>1, Remaining DEF Introduces
  <2> QED BY <2>1, <2>2 DEF Named
<1>4. Head(down'[socket[k]]) = p BY <1>1, <1>2
<1>5. PICK v \in Views : TRUE
  <2> DEFINE v == [self |-> c, racing |-> FALSE, in |-> {}, gone |-> {},
                   names |-> [d \in Slots |-> NoName], ready |-> {}, aside |-> {}]
  <2>1. v \in Views BY DEF Views
  <2> QED BY <2>1
<1> DEFINE u == After(v, p)
           w == After(u, q)
<1>6. /\ p.type = "ON_CONNECT" /\ u \in Views
      /\ u.self = c /\ (u.racing <=> currentState = 1) /\ u.in = Players \cup {c}
      /\ \A d \in Players \cup {c} : u.names[d] = p.players[d].name
      /\ u.ready = {d \in Players \cup {c} : progress[d] # -1}
      /\ u.aside = {d \in Players \cup {c} : spectator'[d] = 1}
  BY <1>2, SnapshotView
<1>7. u.gone = {} BY <1>6 DEF After, Marks
<1>8. p \in Packets /\ q \in Packets BY DEF Packets
<1>9. w \in Views BY <1>6, <1>8, AfterType
<1>10. Fits(p, v) BY <1>6 DEF Fits, LooksUp, K!LobbyLooksUp
<1> HIDE DEF u
<1>11. Fits(q, u) BY <1>2, <1>6 DEF Fits, LooksUp, K!LobbyLooksUp
<1>12. Story(<<p, q>>, v, w) BY <1>8, <1>10, <1>11, StoryOfTwo DEF u
<1>13. Kept(k, w)' /\ KeptFlags(F, w)'
  <2>1. UNCHANGED <<mode, socket>> BY ServerMoves DEF kurai
  <2>2. c \in Connected \ Players /\ name' = [name EXCEPT ![c] = n]
        /\ UNCHANGED <<clients, currentState, progress>>
    BY <1>1 DEF Introduction
  <2>3. \A d \in Slots : name'[d] = IF d = c THEN n ELSE name[d] BY <1>0, <2>2 DEF TypeOK
  <2>4. Connected' = Connected /\ Connected \subseteq Slots BY <2>2 DEF Connected
  <2>5. Players' = Players \cup {c} BY <2>2, <2>3, <2>4, NameAssumption DEF Players
  <2>6. Players \subseteq Slots BY <2>4 DEF Players
  <2>7. w.self = c /\ w.racing = u.racing /\ w.in = Players \cup {c} /\ w.gone = {}
    BY <1>2, <1>6, <1>7 DEF After, Marks
  <2>8. \A d \in Slots : w.names[d] = IF d = c THEN n ELSE u.names[d]
    BY <1>2 DEF After
  <2>10. w.ready = u.ready /\ w.aside = u.aside
    <3>1. w.ready = ReadyAfter(u, q) /\ w.aside = AsideAfter(u, q) BY DEF After
    <3> QED BY <1>2, <1>6, <3>1 DEF ReadyAfter, AsideAfter
  <2> HIDE DEF w
  <2>9. \A d \in Players' : w.names[d] = name'[d]
    BY <1>2, <1>6, <2>2, <2>3, <2>5, <2>6, <2>8
  <2>11. Kept(k, w)' BY <1>1, <1>6, <2>1, <2>2, <2>5, <2>7, <2>9 DEF Kept
  <2>12. KeptFlags(F, w)' BY <1>6, <2>2, <2>5, <2>10 DEF KeptFlags
  <2> QED BY <2>11, <2>12
<1>14. NamesSelf(p, list[k][1].name)
  <2>1. /\ c \in Connected \ Players
        /\ spectator' = IF currentState = 1 THEN [spectator EXCEPT ![c] = 1] ELSE spectator
    BY <1>1 DEF Introduction
  <2>2. spectator[c] = 0 /\ (currentState = 0 => progress[c] = -1)
    BY <1>0, <2>1 DEF NewcomersFresh
  <2>3. spectator \in [Slots -> {0, 1}] /\ currentState \in {0, 1} BY <1>0 DEF TypeOK
  <2>4. spectator'[c] = currentState BY <2>1, <2>2, <2>3
  <2> QED BY <1>2, <1>3, <2>2, <2>4 DEF NamesSelf
<1> HIDE DEF w
<1> QED BY <1>1, <1>2, <1>4, <1>9, <1>12, <1>13, <1>14

\* The server keeps telling.
LEMMA ServerTellsRoster ==
    ASSUME SystemInv, SlotsStable, NoneGone, ServerStep, NEW F, Orderly(F),
           NEW k \in Clients, Told(F, k), Introduces(F, k)
    PROVE  Told(F, k)' /\ Introduces(F, k)'
<1> DEFINE s == socket[k]
<1>1. UNCHANGED <<mode, socket, list, race>> /\ StreamStep BY ServerMoves DEF kurai
<1>2. ASSUME Follows(k)
      PROVE  /\ s \in Sockets /\ s \in Open /\ down'[s] = down[s] \o sent'[s]
             /\ down[s] \in Seq(Packets) /\ sent'[s] \in Seq(Packets)
             /\ \E v, w \in Views : /\ Sees(F, k, v) /\ Kept(k, w)' /\ KeptFlags(F, w)'
                                    /\ Story(down'[s], v, w)
  <2>1. PICK v \in Views, w \in Views :
          Sees(F, k, v) /\ Kept(k, w) /\ KeptFlags(F, w) /\ Story(down[s], v, w)
    BY <1>2 DEF Told
  <2>2. Listens(k) BY <1>2 DEF Follows, Listens, InStep
  <2>3. s \in Sockets /\ s \in Open BY <2>1, <2>2, SlotKept
  <2>4. /\ down'[s] = down[s] \o sent'[s]
        /\ down[s] \in Seq(Packets) /\ sent'[s] \in Seq(Packets)
    BY <2>2, <2>3, Delivered DEF Listens
  <2>5. \/ sent'[s] = <<>> /\ Kept(k, w)'
        \/ \E p \in Packets : sent'[s] = <<p>> /\ Fits(p, w) /\ Kept(k, After(w, p))'
    BY <2>1, <2>2, ServerKeeps
  <2>8. FlagsFollow(F, k, w) BY <2>1, <2>2, ServerKeepsFlags
  <2>6. CASE sent'[s] = <<>> /\ Kept(k, w)'
    <3>1. down'[s] = down[s] BY <2>4, <2>6, ConcatEmptySeq
    <3>2. KeptFlags(F, w)' BY <2>6, <2>8 DEF FlagsFollow
    <3> QED BY <2>1, <2>3, <2>4, <2>6, <3>1, <3>2
  <2>7. ASSUME NEW p \in Packets, sent'[s] = <<p>>, Fits(p, w), Kept(k, After(w, p))'
        PROVE  \E u \in Views : Kept(k, u)' /\ KeptFlags(F, u)' /\ Story(down'[s], v, u)
    <3>1. After(w, p) \in Views BY AfterType
    <3>2. Story(down[s] \o <<p>>, v, After(w, p)) BY <2>1, <2>4, <2>7, <3>1, StoryGrows
    <3>3. KeptFlags(F, After(w, p))' BY <2>7, <2>8 DEF FlagsFollow
    <3> QED BY <2>4, <2>7, <3>1, <3>2, <3>3
  <2> HIDE DEF s
  <2> QED BY <2>1, <2>3, <2>4, <2>5, <2>6, <2>7
<1>3. ASSUME NEW v PROVE Sees(F, k, v)' <=> Sees(F, k, v) BY <1>1 DEF Sees
<1>4. Told(F, k)'
  <2>1. SUFFICES ASSUME Follows(k)'
                 PROVE  \E v, w \in Views : /\ Sees(F, k, v) /\ Kept(k, w)' /\ KeptFlags(F, w)'
                                            /\ Story(down'[s], v, w)
    BY <1>1, <1>3 DEF Told
  <2>2. CASE Follows(k) BY <1>2, <2>2
  <2>3. CASE ~Follows(k)
    <3>1. mode[k] = "CONNECTING" /\ ~Greeting(down[s]) /\ Greeting(down'[s])
      BY <1>1, <2>1, <2>3 DEF Follows, InStep
    <3>2. \E v, w \in Views : Kept(k, w)' /\ KeptFlags(F, w)' /\ Story(down'[s], v, w)
      BY <3>1, ServerIntroduces
    <3>3. \A v : Sees(F, k, v) BY <3>1 DEF Sees
    <3> QED BY <3>2, <3>3
  <2> QED BY <2>2, <2>3
<1>5. Introduces(F, k)'
  <2>1. mode[k] \in {"DISCONNECTED", "CONNECTING"} => Alone(F, list[k]) BY DEF Introduces
  <2>2. ASSUME mode[k] = "CONNECTING" PROVE up'[s] \in Seq(Named(list[k][1].name))
    <3>1. up[s] \in Seq(Named(list[k][1].name)) BY <2>2 DEF Introduces
    <3>2. s \in Sockets BY <2>2 DEF SystemInv, Wired, ClientsTyped
    <3>3. CASE up'[s] = up[s] BY <3>1, <3>3
    <3>4. CASE \E n \in 1 .. Len(up[s]) : up'[s] = SubSeq(up[s], n + 1, Len(up[s]))
      BY <3>1, <3>4, Dropped
    <3> QED BY <1>1, <3>2, <3>3, <3>4 DEF StreamStep
  <2>3. ASSUME mode[k] = "CONNECTING", Greeting(down'[s])
        PROVE  NamesSelf(Head(down'[s]), list[k][1].name)
    <3>1. CASE Greeting(down[s])
      <4>1. Follows(k) BY <2>3, <3>1 DEF Follows
      <4>2. /\ down'[s] = down[s] \o sent'[s]
            /\ down[s] \in Seq(Packets) /\ sent'[s] \in Seq(Packets)
        BY <1>2, <4>1
      <4>3. Head(down'[s]) = Head(down[s]) BY <3>1, <4>2, HeadJoined DEF Greeting
      <4> QED BY <2>3, <3>1, <4>3 DEF Introduces
    <3>2. CASE ~Greeting(down[s]) BY <2>3, <3>2, ServerIntroduces
    <3> QED BY <3>1, <3>2
  <2> QED BY <1>1, <2>1, <2>2, <2>3 DEF Introduces
<1> QED BY <1>4, <1>5


-----------------------------------------------------------------------------
(* A client follows what it reads *)

\* The snapshot shows the client what it says.
LEMMA FirstSeen ==
    ASSUME SystemInv, NEW F, NEW k \in Clients, K!ReadFirst(k), Introduces(F, k), Greeting(K!Inbox(k)),
           NEW v \in Views, NEW p, p = Head(K!Inbox(k))
    PROVE  mode'[k] # "ASTRAY" /\ Sees(F, k, After(v, p))'
<1>1. ClientsTyped /\ mode[k] = "CONNECTING" /\ K!Inbox(k) # <<>>
  BY DEF SystemInv, K!ReadFirst
<1>2. p.type = "ON_CONNECT" /\ p \in SnapshotPacket BY <1>1, NextPacket, SnapshotOnly DEF Greeting
<1>3. Alone(F, list[k]) /\ NamesSelf(p, list[k][1].name) BY <1>1 DEF Introduces, K!Inbox
<1>4. p.in_progress \in {0, 1} BY <1>2, OthersType
<1>5. IF p.in_progress = 0 THEN K!EnterLobby(k, p) ELSE K!EnterRace(k, p)
  BY <1>2 DEF K!ReadFirst
<1>6. CASE p.in_progress = 0
  <2>1. K!EnterLobby(k, p) BY <1>5, <1>6
  <2>2. mode'[k] = "LOBBY" BY <1>1, <2>1 DEF K!EnterLobby, ClientsTyped
  <2>3. Lists(F, list'[k], After(v, p)) BY <1>1, <1>2, <1>3, <1>6, <2>1, EnterLobbyLists
  <2> QED BY <2>2, <2>3 DEF Sees
<1>7. CASE p.in_progress = 1
  <2>1. K!EnterRace(k, p) BY <1>5, <1>7
  <2>2. mode'[k] = "PLAYING" BY <1>1, <2>1 DEF K!EnterRace, ClientsTyped
  <2>3. /\ Shows(F, list'[k][1], race'[k].players, After(v, p))
        /\ Sided(F, list'[k][1].id, race'[k].status, After(v, p))
    BY <1>1, <1>2, <1>3, <1>7, <2>1, EnterRaceShows
  <2> QED BY <2>2, <2>3 DEF Sees
<1> QED BY <1>4, <1>6, <1>7

\* In the lobby every lookup succeeds, and list and view stay together.
LEMMA LobbySeen ==
    ASSUME SystemInv, NEW F, NEW k \in Clients, K!ReadLobby(k), NEW v \in Views, Sees(F, k, v),
           NEW p, p = Head(K!Inbox(k)), Fits(p, v)
    PROVE  mode'[k] # "ASTRAY" /\ Sees(F, k, After(v, p))'
<1> DEFINE u == After(v, p)
<1>1. ClientsTyped /\ mode[k] = "LOBBY" /\ K!Inbox(k) # <<>> BY DEF SystemInv, K!ReadLobby
<1>2. p \in Packets BY <1>1, NextPacket
<1>3. list[k] \in Seq(RowType) \ {<<>>} /\ Lists(F, list[k], v) BY <1>1 DEF ClientsTyped, Sees
<1>4. CASE p.type \notin K!LobbyReads
  <2>1. mode' = [mode EXCEPT ![k] = "GARBLED"] BY <1>4 DEF K!ReadLobby, K!LobbyReads, K!LobbyLooksUp
  <2>2. mode'[k] = "GARBLED" BY <1>1, <2>1 DEF ClientsTyped
  <2> QED BY <2>2 DEF Sees
<1>5. ASSUME p.type \in K!LobbyLooksUp PROVE K!RowOf(list[k], p.id) # 0
  <2>1. p.id \in v.in BY <1>5 DEF Fits, LooksUp
  <2>2. K!RowOf(list[k], p.id) \in DOMAIN list[k] BY <1>3, <2>1, RowListed
  <2>3. DOMAIN list[k] = 1 .. Len(list[k]) /\ Len(list[k]) \in Nat BY <1>3, LenProperties
  <2> QED BY <2>2, <2>3
<1>6. CASE p.type = "START"
  <2>1. K!StartRace(k, p) BY <1>5, <1>6 DEF K!ReadLobby, K!LobbyReads, K!LobbyLooksUp
  <2>2. mode'[k] = "PLAYING" BY <1>1, <2>1 DEF K!StartRace, ClientsTyped
  <2>3. Shows(F, list'[k][1], race'[k].players, u) /\ Sided(F, list'[k][1].id, race'[k].status, u)
    BY <1>1, <1>3, <1>6, <2>1, StartRaceShows
  <2> QED BY <2>2, <2>3 DEF Sees
<1>7. CASE p.type \in K!LobbyReads \ {"START"}
  <2>1. list' = [list EXCEPT ![k] = K!ListAfter(@, p)] /\ UNCHANGED <<mode, race>>
    BY <1>5, <1>7 DEF K!ReadLobby
  <2>2. list'[k] = K!ListAfter(list[k], p) BY <1>1, <2>1 DEF ClientsTyped
  <2>3. Lists(F, list'[k], u) BY <1>2, <1>3, <1>7, <2>2, ListFollows
  <2> QED BY <1>1, <2>1, <2>3 DEF Sees
<1> QED BY <1>4, <1>6, <1>7

\* So do racers and view in the race, and its end puts them on the list.
LEMMA RaceSeen ==
    ASSUME SystemInv, NEW F, NEW k \in Clients, K!ReadRace(k), NEW v \in Views, Sees(F, k, v),
           NEW p, p = Head(K!Inbox(k)), Fits(p, v)
    PROVE  mode'[k] # "ASTRAY" /\ Sees(F, k, After(v, p))'
<1> DEFINE u == After(v, p)
<1>1. ClientsTyped /\ mode[k] = "PLAYING" /\ K!Inbox(k) # <<>> BY DEF SystemInv, K!ReadRace
<1>2. p \in Packets /\ u \in Views BY <1>1, NextPacket, AfterType
<1>3. /\ race[k] \in RaceType /\ Shows(F, list[k][1], race[k].players, v)
      /\ Sided(F, list[k][1].id, race[k].status, v)
  BY <1>1 DEF ClientsTyped, Sees
<1>4. CASE p.type \notin K!RaceReads
  <2>1. mode' = [mode EXCEPT ![k] = "GARBLED"] BY <1>4 DEF K!ReadRace, K!RaceReads
  <2>2. mode'[k] = "GARBLED" BY <1>1, <2>1 DEF ClientsTyped
  <2> QED BY <2>2 DEF Sees
<1>5. CASE p.type = "GAME_OVER"
  <2>1. K!EndRace(k) BY <1>5 DEF K!ReadRace, K!RaceReads
  <2>2. mode'[k] = "LOBBY" BY <1>1, <2>1 DEF K!EndRace, ClientsTyped
  <2>3. Lists(F, list'[k], u) BY <1>1, <1>2, <1>3, <1>5, <2>1, EndRaceLists
  <2> QED BY <2>2, <2>3 DEF Sees
<1>6. CASE p.type = "CANCEL_TIMER"
  <2>1. UNCHANGED <<mode, list, race>> BY <1>6 DEF K!ReadRace, K!RaceReads
  <2>2. u = v BY <1>6 DEF After, Marks, Views, ReadyAfter, AsideAfter
  <2> QED BY <1>1, <1>3, <2>1, <2>2 DEF Sees
<1>7. CASE p.type \in {"CONNECT", "UPDATE_PROGRESS", "PLAYER_COMPLETED", "DISCONNECT"}
  <2>1. race' = [race EXCEPT ![k] = K!Drawn(K!RaceAfter(k, p))] /\ UNCHANGED <<mode, list>>
    BY <1>7 DEF K!ReadRace, K!RaceReads
  <2>2. race'[k] = K!Drawn(K!RaceAfter(k, p)) BY <1>1, <2>1 DEF ClientsTyped
  <2>3. /\ Shows(F, list[k][1], K!Drawn(K!RaceAfter(k, p)).players, u)
        /\ Sided(F, list[k][1].id, K!Drawn(K!RaceAfter(k, p)).status, u)
    BY <1>1, <1>2, <1>3, <1>7, RaceFollows
  <2> QED BY <1>1, <2>1, <2>2, <2>3 DEF Sees
<1> QED BY <1>4, <1>5, <1>6, <1>7 DEF K!RaceReads

\* The server is still while a client acts.
LEMMA KeptStill ==
    ASSUME NEW k \in Clients, NEW j \in Clients, ClientStep(k), socket'[j] = socket[j],
           NEW F, NEW w, Kept(j, w), KeptFlags(F, w)
    PROVE  Kept(j, w)' /\ KeptFlags(F, w)'
<1>1. UNCHANGED <<clients, name, currentState, progress, spectator>> BY DEF ClientStep, pool, game
<1>2. Connected' = Connected /\ Players' = Players BY <1>1 DEF Connected, Players
<1> QED BY <1>1, <1>2 DEF Kept, KeptFlags

\* A read takes the client one step along the story.
LEMMA ReadsAlong ==
    ASSUME SystemInv, NEW F, NEW k \in Clients, ClientStep(k), K!ClientReads(k),
           Told(F, k), Introduces(F, k)
    PROVE  mode'[k] # "ASTRAY" /\ Told(F, k)' /\ Introduces(F, k)'
<1> DEFINE q == K!Inbox(k)
<1>1. Heard(k) BY ReadFirstHeard, ReadLobbyHeard, ReadRaceHeard DEF K!ClientReads
<1>2. mode'[k] \notin {"DISCONNECTED", "CONNECTING"} BY <1>1 DEF Heard
<1>3. Introduces(F, k)' BY <1>2 DEF Introduces
<1>4. /\ q # <<>> /\ socket' = socket /\ down' = [down EXCEPT ![socket[k]] = Tail(q)]
      /\ socket[k] \in Sockets /\ q = down[socket[k]]
  BY <1>1, NextPacket DEF Heard, K!Consume, K!Inbox
<1>5. q \in Seq(Packets) /\ down'[socket'[k]] = Tail(q)
  BY <1>4 DEF SystemInv, WiresTyped
<1>6. CASE Follows(k)
  <2>1. PICK v \in Views, w \in Views :
          Sees(F, k, v) /\ Kept(k, w) /\ KeptFlags(F, w) /\ Story(q, v, w)
    BY <1>4, <1>6 DEF Told
  <2>2. PICK p : p = Head(q) OBVIOUS
  <2>3. Fits(p, v) /\ After(v, p) \in Views /\ Story(Tail(q), After(v, p), w)
    <3> HIDE DEF q
    <3> QED BY <1>4, <1>5, <2>1, <2>2, StoryHead
  <2>4. mode'[k] # "ASTRAY" /\ Sees(F, k, After(v, p))'
    <3>1. CASE K!ReadFirst(k)
      <4>1. mode[k] = "CONNECTING" BY <3>1 DEF K!ReadFirst
      <4>2. Greeting(q) BY <1>4, <1>6, <4>1 DEF Follows, InStep
      <4> QED BY <2>2, <3>1, <4>2, FirstSeen
    <3>2. CASE K!ReadLobby(k) BY <2>1, <2>2, <2>3, <3>2, LobbySeen
    <3>3. CASE K!ReadRace(k) BY <2>1, <2>2, <2>3, <3>3, RaceSeen
    <3> QED BY <3>1, <3>2, <3>3 DEF K!ClientReads
  <2>5. Kept(k, w)' /\ KeptFlags(F, w)' BY <1>4, <2>1, KeptStill
  <2> HIDE DEF q
  <2>6. Told(F, k)' BY <1>5, <2>3, <2>4, <2>5 DEF Told
  <2> QED BY <1>3, <2>4, <2>6
<1>7. CASE ~Follows(k)
  <2>1. mode[k] = "CONNECTING" /\ ~Greeting(q)
    BY <1>1, <1>4, <1>7 DEF Heard, Follows, InStep
  <2>2. K!ReadFirst(k) BY <2>1 DEF K!ClientReads, K!ReadLobby, K!ReadRace
  <2>3. mode' = [mode EXCEPT ![k] = "GARBLED"]
    BY <1>4, <2>1, <2>2 DEF K!ReadFirst, Greeting
  <2>4. mode'[k] = "GARBLED" BY <2>3 DEF SystemInv, ClientsTyped
  <2> QED BY <1>3, <2>4 DEF Told, Follows, InStep
<1> QED BY <1>6, <1>7

\* Speaking changes nothing of what the client knows.
LEMMA SpeaksOn ==
    ASSUME SystemInv, NEW F, NEW k \in Clients, ClientStep(k), K!Command(k) \/ K!TypeKey(k),
           mode[k] # "ASTRAY", Told(F, k), Introduces(F, k)
    PROVE  mode'[k] # "ASTRAY" /\ Told(F, k)' /\ Introduces(F, k)'
<1>1. InStep(k) /\ UNCHANGED <<mode, socket, down>>
  BY CommandSpoke, TypeKeySpoke DEF Spoke
<1>2. list' = list BY DEF K!Command, K!Says, K!clientVars, K!TypeKey
<1>3. mode[k] = "PLAYING" =>
        race'[k].players = race[k].players /\ race'[k].status = race[k].status
  <2>1. CASE K!Command(k) BY <2>1, CommandSpoke
  <2>2. CASE K!TypeKey(k)
    <3>1. mode[k] = "PLAYING" /\ race[k] \in RaceType
      BY <2>2 DEF SystemInv, ClientsTyped, K!TypeKey
    <3>2. race \in [Clients -> RaceType \cup {K!NoRace}] BY DEF SystemInv, ClientsTyped
    <3>3. PICK p \in K!Keyed(race[k]) :
            \/ race' = [race EXCEPT ![k] = [[race[k] EXCEPT !.progress = p] EXCEPT !.complete = TRUE]]
            \/ race' = [race EXCEPT ![k] = [[race[k] EXCEPT !.progress = p] EXCEPT !.told = p]]
            \/ race' = [race EXCEPT ![k] = [race[k] EXCEPT !.progress = p]]
      BY <2>2 DEF K!TypeKey
    <3> QED BY <3>1, <3>2, <3>3 DEF RaceType
  <2> QED BY <2>1, <2>2
<1>4. \A v : Sees(F, k, v) => Sees(F, k, v)' BY <1>1, <1>2, <1>3 DEF Sees
<1>5. \A w : Kept(k, w) /\ KeptFlags(F, w) => Kept(k, w)' /\ KeptFlags(F, w)'
  BY <1>1, KeptStill
<1>6. Follows(k) BY <1>1 DEF Follows
<1>7. PICK v \in Views, w \in Views :
        Sees(F, k, v) /\ Kept(k, w) /\ KeptFlags(F, w) /\ Story(down[socket[k]], v, w)
  BY <1>6 DEF Told
<1>8. Told(F, k)' BY <1>1, <1>4, <1>5, <1>7 DEF Told
<1>9. Introduces(F, k)' BY <1>1 DEF Introduces, InStep
<1> QED BY <1>1, <1>8, <1>9

\* Who has hung up is alone in its list, and watches only if it did before
\* /disconnect.
LEMMA GoneAlone ==
    ASSUME SystemInv, NEW F, "spectate" \in F => "disconnect" \notin Commands,
           NEW k \in Clients, K!Disconnect(k) \/ K!Quit(k)
    PROVE  mode'[k] # "ASTRAY" /\ Told(F, k)' /\ Introduces(F, k)'
<1>1. mode'[k] = "DISCONNECTED"
  BY GoneTyped DEF Gone, K!HangUp, SystemInv, ClientsTyped
<1>2. list \in [Clients -> Seq(RowType) \ {<<>>}] BY DEF SystemInv, ClientsTyped
<1>3. ASSUME K!Disconnect(k) PROVE Alone(F, list'[k])
  <2> DEFINE row == [K!Self(k) EXCEPT !.ready = FALSE]
  <2>1. list'[k] = <<row>> /\ "disconnect" \in Commands BY <1>2, <1>3 DEF K!Disconnect
  <2>2. K!Self(k) \in RowType
    <3>1. list[k] \in Seq(RowType) /\ list[k] # <<>> BY <1>2
    <3> QED BY <3>1, Remaining DEF K!Self
  <2>3. row.ready = FALSE BY <2>2 DEF RowType
  <2> HIDE DEF row
  <2>4. <<row>>[1] = row /\ Len(<<row>>) = 1 OBVIOUS
  <2>5. Len(list'[k]) = 1 /\ ~list'[k][1].ready BY <2>1, <2>3, <2>4
  <2> QED BY <2>1, <2>5 DEF Alone
<1>4. ASSUME K!Quit(k) PROVE Alone(F, list'[k])
  <2>1. PICK n \in Names : list' = [list EXCEPT ![k] = <<K!Row(0, n, FALSE, FALSE)>>]
    BY <1>4 DEF K!Quit
  <2>2. list'[k] = <<K!Row(0, n, FALSE, FALSE)>> BY <1>2, <2>1
  <2>3. Len(list'[k]) = 1 /\ ~list'[k][1].ready /\ ~list'[k][1].spectate BY <2>2 DEF K!Row
  <2> QED BY <2>3 DEF Alone
<1>5. Alone(F, list'[k]) BY <1>3, <1>4
<1> QED BY <1>1, <1>5 DEF Told, Follows, InStep, Introduces

\* Who connects has said its name and is told nothing yet.
LEMMA ConnectsNamed ==
    ASSUME SystemInv, NEW F, NEW k \in Clients, NEW s \in Sockets, ClientConnects(k, s),
           Introduces(F, k)
    PROVE  mode'[k] # "ASTRAY" /\ Told(F, k)' /\ Introduces(F, k)'
<1>1. /\ mode[k] = "DISCONNECTED" /\ mode' = [mode EXCEPT ![k] = "CONNECTING"]
      /\ socket' = [socket EXCEPT ![k] = s] /\ down' = [down EXCEPT ![s] = <<>>]
      /\ list' = list
  BY DEF ClientConnects, K!Connect
<1>2. mode'[k] = "CONNECTING" /\ socket'[k] = s /\ down'[s] = <<>>
  BY <1>1 DEF SystemInv, ClientsTyped, WiresTyped
<1>3. PICK col \in Colors : up' = [up EXCEPT ![s] =
            <<[type |-> "ON_CONNECT", name |-> K!Self(k).name, color |-> col]>>]
  BY DEF ClientConnects, K!Connect
<1> DEFINE n == list[k][1].name
           p == [type |-> "ON_CONNECT", name |-> n, color |-> col]
<1>4. list[k] \in Seq(RowType) /\ list[k] # <<>> BY DEF SystemInv, ClientsTyped
<1>5. n \in Names
  <2>1. list[k][1] \in RowType BY <1>4, Remaining
  <2> QED BY <2>1 DEF RowType
<1>6. p \in Named(n) BY <1>5 DEF Named, ClientPacket
<1>7. up'[s] = <<p>> BY <1>3 DEF SystemInv, WiresTyped, K!Self
<1> HIDE DEF p, n
<1>8. up'[s] \in Seq(Named(n)) BY <1>6, <1>7
<1>9. Alone(F, list[k]) BY <1>1 DEF Introduces
<1> QED BY <1>1, <1>2, <1>8, <1>9 DEF Told, Follows, InStep, Introduces, Greeting, n

\* The others know what they knew.
LEMMA OthersKnow ==
    ASSUME SystemInv, NEW F, NEW k \in Clients, ClientStep(k), NEW j \in Clients \ {k},
           mode[j] # "ASTRAY", Told(F, j), Introduces(F, j)
    PROVE  mode'[j] # "ASTRAY" /\ Told(F, j)' /\ Introduces(F, j)'
<1>0. ClientsTyped BY DEF SystemInv
<1>1. mode'[j] = mode[j] /\ list'[j] = list[j]
  <2>1. ASSUME NEW s \in Sockets, ClientConnects(k, s)
        PROVE  mode'[j] = mode[j] /\ list'[j] = list[j]
    BY <1>0, <2>1 DEF ClientConnects, K!Connect, ClientsTyped
  <2>2. CASE K!ClientReads(k)
    <3>1. Heard(k) BY <2>2, ReadFirstHeard, ReadLobbyHeard, ReadRaceHeard DEF K!ClientReads
    <3> QED BY <1>0, <3>1 DEF Heard, ClientsTyped
  <2>3. CASE K!Command(k) \/ K!TypeKey(k)
    BY <2>3 DEF K!Command, K!Says, K!clientVars, K!TypeKey
  <2>4. CASE K!Disconnect(k) \/ K!Quit(k)
    BY <1>0, <2>4, GoneTyped DEF Gone, K!HangUp, ClientsTyped
  <2> QED BY <2>1, <2>2, <2>3, <2>4 DEF ClientStep, K!ClientStep
<1>2. CASE mode[j] = "DISCONNECTED"
  BY <1>1, <1>2 DEF Told, Follows, InStep, Introduces
<1>3. CASE mode[j] # "DISCONNECTED"
  <2>1. /\ socket'[j] = socket[j] /\ race'[j] = race[j]
        /\ down'[socket[j]] = down[socket[j]] /\ up'[socket[j]] = up[socket[j]]
    BY <1>1, <1>3, OthersKept
  <2>2. \A v : Sees(F, j, v) => Sees(F, j, v)' BY <1>1, <2>1 DEF Sees
  <2>3. \A w : Kept(j, w) /\ KeptFlags(F, w) => Kept(j, w)' /\ KeptFlags(F, w)'
    BY <2>1, KeptStill
  <2>4. Told(F, j)'
    <3>1. SUFFICES ASSUME Follows(j)'
                   PROVE  \E v, w \in Views : /\ Sees(F, j, v)' /\ Kept(j, w)' /\ KeptFlags(F, w)'
                                              /\ Story(down'[socket'[j]], v, w)
      BY DEF Told
    <3>2. Follows(j) BY <1>1, <2>1, <3>1 DEF Follows, InStep
    <3>3. PICK v \in Views, w \in Views :
            Sees(F, j, v) /\ Kept(j, w) /\ KeptFlags(F, w) /\ Story(down[socket[j]], v, w)
      BY <3>2 DEF Told
    <3> QED BY <2>1, <2>2, <2>3, <3>3
  <2>5. Introduces(F, j)' BY <1>1, <2>1 DEF Introduces
  <2> QED BY <1>1, <2>4, <2>5
<1> QED BY <1>2, <1>3

\* The invariant holds at the start.
LEMMA RosterInvInit ==
    ASSUME NEW F
    PROVE  SystemInit => RosterInv(F)
<1> SUFFICES ASSUME SystemInit, NEW k \in Clients
             PROVE  mode[k] # "ASTRAY" /\ Told(F, k) /\ Introduces(F, k)
  BY DEF RosterInv, NoneGone, SystemInit, K!KuraiInit
<1>1. mode[k] = "DISCONNECTED" BY DEF SystemInit, K!KuraiInit
<1>2. \E n \in Names : list[k] = <<K!Row(0, n, FALSE, FALSE)>> BY DEF SystemInit, K!KuraiInit
<1>3. Alone(F, list[k]) BY <1>2 DEF Alone, K!Row
<1> QED BY <1>1, <1>3 DEF Told, Follows, InStep, Introduces

\* Nobody hangs up when nobody leaves.
LEMMA NoneGoneNext == SystemInv /\ NoneGone /\ [SystemNext]_system => NoneGone'
<1> SUFFICES ASSUME SystemInv, NobodyLeaves, hungup = {}, [SystemNext]_system
             PROVE  hungup' = {}
  BY DEF NoneGone
<1>1. CASE ServerStep
  <2>1. StreamStep BY <1>1, ServerMoves
  <2> QED BY <2>1 DEF StreamStep
<1>2. ASSUME NEW k \in Clients, ClientStep(k) PROVE hungup' = {}
  <2>1. ASSUME NEW s \in Sockets, ClientConnects(k, s) PROVE hungup' = {}
    BY <2>1 DEF ClientConnects, K!Connect
  <2>2. CASE K!ClientReads(k)
    <3>1. Heard(k) BY <2>2, ReadFirstHeard, ReadLobbyHeard, ReadRaceHeard DEF K!ClientReads
    <3> QED BY <3>1 DEF Heard
  <2>3. CASE K!Command(k) \/ K!TypeKey(k) BY <2>3, CommandSpoke, TypeKeySpoke DEF Spoke
  <2>4. ~K!Disconnect(k) /\ ~K!Quit(k) BY DEF NobodyLeaves, K!Disconnect, K!Quit
  <2> QED BY <1>2, <2>1, <2>2, <2>3, <2>4 DEF ClientStep, K!ClientStep
<1>3. CASE UNCHANGED system BY <1>3 DEF system
<1> QED BY <1>1, <1>2, <1>3 DEF SystemNext

\* Every step keeps the invariant.
LEMMA RosterInvNext ==
    ASSUME SlotsStable, NEW F, "spectate" \in F => "disconnect" \notin Commands
    PROVE  SystemInv /\ Orderly(F) /\ RosterInv(F) /\ [SystemNext]_system => RosterInv(F)'
<1> SUFFICES ASSUME SystemInv, Orderly(F), RosterInv(F), [SystemNext]_system, NEW j \in Clients
             PROVE  mode'[j] # "ASTRAY" /\ Told(F, j)' /\ Introduces(F, j)'
  BY NoneGoneNext DEF RosterInv
<1>1. NoneGone /\ mode[j] # "ASTRAY" /\ Told(F, j) /\ Introduces(F, j) BY DEF RosterInv
<1>2. CASE ServerStep
  <2>1. mode' = mode BY <1>2, ServerMoves DEF kurai
  <2> QED BY <1>1, <1>2, <2>1, ServerTellsRoster
<1>3. ASSUME NEW k \in Clients, ClientStep(k), j # k
      PROVE  mode'[j] # "ASTRAY" /\ Told(F, j)' /\ Introduces(F, j)'
  BY <1>1, <1>3, OthersKnow
<1>4. ASSUME ClientStep(j) PROVE mode'[j] # "ASTRAY" /\ Told(F, j)' /\ Introduces(F, j)'
  <2>1. CASE \E s \in Sockets : ClientConnects(j, s) BY <1>1, <2>1, ConnectsNamed
  <2>2. CASE K!ClientReads(j) BY <1>1, <1>4, <2>2, ReadsAlong
  <2>3. CASE K!Command(j) \/ K!TypeKey(j) BY <1>1, <1>4, <2>3, SpeaksOn
  <2>4. CASE K!Disconnect(j) \/ K!Quit(j) BY <2>4, GoneAlone
  <2> QED BY <1>4, <2>1, <2>2, <2>3, <2>4 DEF ClientStep, K!ClientStep
<1>5. CASE UNCHANGED system
  <2>1. /\ UNCHANGED <<mode, socket, list, race, up, down>>
        /\ UNCHANGED <<clients, name, currentState, progress, spectator>>
    BY <1>5 DEF system, vars, kurai, pool, game
  <2>2. Connected' = Connected /\ Players' = Players BY <2>1 DEF Connected, Players
  <2>3. \A v : Sees(F, j, v)' <=> Sees(F, j, v) BY <2>1 DEF Sees
  <2>4. \A w : (Kept(j, w)' <=> Kept(j, w)) /\ (KeptFlags(F, w)' <=> KeptFlags(F, w))
    BY <2>1, <2>2 DEF Kept, KeptFlags
  <2>5. Told(F, j)' BY <1>1, <2>1, <2>3, <2>4 DEF Told, Follows, InStep
  <2> QED BY <1>1, <2>1, <2>5 DEF Introduces
<1> QED BY <1>2, <1>3, <1>4, <1>5 DEF SystemNext

\* The invariant without the flags is one of the system.
LEMMA RosterInvHolds ==
    ASSUME SlotsStable
    PROVE  SystemSpec => []RosterInv({})
<1>1. SystemInit => RosterInv({}) BY RosterInvInit
<1>2. Orderly({}) BY DEF Orderly
<1>3. SystemInv /\ Orderly({}) /\ RosterInv({}) /\ [SystemNext]_system => RosterInv({})'
  BY RosterInvNext
<1>4. SystemInv /\ RosterInv({}) /\ [SystemNext]_system => RosterInv({})' BY <1>2, <1>3
<1> QED BY <1>1, <1>4, SystemInvHolds, PTL DEF SystemSpec

-----------------------------------------------------------------------------
(* What follows *)

\* When nobody comes in during a race, or nobody ever leaves, no client in step
\* looks up a player its list does not hold, whoever joins, leaves or is renamed
\* meanwhile (the lookups of connected end at find_player).
THEOREM SystemNoneAstray ==
    ASSUME SlotsStable
    PROVE  SystemSpec => []NoneAstray
<1>1. RosterInv({}) => NoneAstray BY DEF RosterInv, NoneAstray
<1> QED BY <1>1, RosterInvHolds, PTL

\* A list that holds each of a set once is as long as the set is large.
LEMMA RowsCounted ==
    ASSUME NEW rows \in Seq(RowType), NEW S,
           {rows[i].id : i \in DOMAIN rows} = S,
           \A i, j \in DOMAIN rows : rows[i].id = rows[j].id => i = j
    PROVE  Len(rows) = Cardinality(S)
<1> DEFINE N == Len(rows)
           f == [i \in 1 .. N |-> rows[i].id]
<1>1. N \in Nat /\ DOMAIN rows = 1 .. N BY LenProperties
<1> HIDE DEF N
<1>2. IsFiniteSet(1 .. N) /\ Cardinality(1 .. N) = N BY <1>1, FS_Interval
<1>3. f \in [1 .. N -> S] /\ (\A i, j \in 1 .. N : f[i] = f[j] => i = j)
      /\ \A d \in S : \E i \in 1 .. N : f[i] = d
  BY <1>1
<1> HIDE DEF f
<1>4. f \in Bijection(1 .. N, S)
  BY <1>3 DEF Bijection, Injection, Surjection, IsInjective
<1>5. ExistsBijection(1 .. N, S) BY <1>4 DEF ExistsBijection
<1> QED BY <1>2, <1>5, FS_Bijection DEF N

\* A lobby client that has read everything has the server's view.
LEMMA ReadAllAgrees ==
    ASSUME NEW F, SystemInv, RosterInv(F), NEW k \in Clients, CaughtUp(k), mode[k] = "LOBBY"
    PROVE  \E v \in Views : Lists(F, list[k], v) /\ Kept(k, v) /\ KeptFlags(F, v)
<1>1. Follows(k) /\ down[socket[k]] = <<>> BY DEF CaughtUp, Follows, InStep
<1>2. PICK v \in Views, w \in Views :
        Sees(F, k, v) /\ Kept(k, w) /\ KeptFlags(F, w) /\ Story(<<>>, v, w)
  BY <1>1 DEF RosterInv, Told
<1>3. w = v BY <1>2, StoryEmpty
<1> QED BY <1>2, <1>3 DEF Sees

\* When nobody comes in during a race, or nobody ever leaves, a lobby client that
\* has read all it was sent lists exactly the server's players, each once and
\* under its name, though it rebuilds the list from the racers after each race.
THEOREM SystemRosterAgrees ==
    ASSUME SlotsStable
    PROVE  SystemSpec => []RosterAgrees
<1>1. SystemInv /\ RosterInv({}) => RosterAgrees
  <2> SUFFICES ASSUME SystemInv, RosterInv({}), NEW k \in Clients, CaughtUp(k), mode[k] = "LOBBY"
               PROVE  /\ {list[k][i].id : i \in DOMAIN list[k]} = Players
                      /\ Len(list[k]) = Cardinality(Players)
                      /\ \A i \in DOMAIN list[k] : list[k][i].name = name[list[k][i].id]
    BY DEF RosterAgrees
  <2>1. PICK v \in Views : Lists({}, list[k], v) /\ Kept(k, v) BY ReadAllAgrees
  <2>2. v.in = Players /\ \A d \in Players : v.names[d] = name[d] BY <2>1 DEF Kept
  <2>3. {list[k][i].id : i \in DOMAIN list[k]} = Players BY <2>1, <2>2 DEF Lists
  <2>4. \A i \in DOMAIN list[k] : list[k][i].name = name[list[k][i].id]
    BY <2>1, <2>2 DEF Lists
  <2>5. list[k] \in Seq(RowType) BY DEF SystemInv, ClientsTyped
  <2>6. Len(list[k]) = Cardinality(Players) BY <2>1, <2>3, <2>5, RowsCounted DEF Lists
  <2> QED BY <2>3, <2>4, <2>6
<1> QED BY <1>1, SystemInvHolds, RosterInvHolds, PTL

\* ... and shows the server's ready flag for each of them, if ready flags stay -1
\* or 0 in the lobby and nobody changes sides while ready: resets at both ends of
\* a race, toggles, late reports of progress and snapshots all leave the two the
\* same, in whatever order they cross.
THEOREM SystemOrderlyReady ==
    ASSUME SlotsStable
    PROVE  SystemSpec /\ []FlagsPlain /\ []SwitchersUnready => []ReadyAgrees
<1> DEFINE F == {"ready"}
<1>1. SystemInit => RosterInv(F) BY RosterInvInit
<1>2. FlagsPlain /\ SwitchersUnready => Orderly(F) BY DEF Orderly
<1>3. "spectate" \notin F OBVIOUS
<1>4. SystemInv /\ Orderly(F) /\ RosterInv(F) /\ [SystemNext]_system => RosterInv(F)'
  BY <1>3, RosterInvNext
<1>5. SystemInv /\ RosterInv(F) => ReadyAgrees
  <2> SUFFICES ASSUME SystemInv, RosterInv(F), NEW k \in Clients, CaughtUp(k), mode[k] = "LOBBY",
                      NEW i \in DOMAIN list[k], list[k][i].id \in Players
               PROVE  list[k][i].ready = (progress[list[k][i].id] # -1)
    BY DEF ReadyAgrees
  <2>1. PICK v \in Views : Lists(F, list[k], v) /\ Kept(k, v) /\ KeptFlags(F, v)
    BY ReadAllAgrees
  <2>2. currentState = 0
    <3>1. currentState \in {0, 1} BY DEF SystemInv, TallyInv, TypeOK
    <3> QED BY <2>1, <3>1 DEF Lists, Kept
  <2>3. list[k][i].ready \in BOOLEAN
    <3>1. list[k] \in Seq(RowType) BY DEF SystemInv, ClientsTyped
    <3>2. list[k][i] \in RowType BY <3>1, ElementOfSeq, LenProperties
    <3> QED BY <3>2 DEF RowType
  <2>4. list[k][i].ready <=> list[k][i].id \in v.ready BY <2>1 DEF Lists, Flagged
  <2>5. list[k][i].id \in v.ready <=> progress[list[k][i].id] # -1 BY <2>1, <2>2 DEF KeptFlags
  <2> QED BY <2>3, <2>4, <2>5
<1> HIDE DEF F
<1> QED BY <1>1, <1>2, <1>4, <1>5, SystemInvHolds, PTL DEF SystemSpec

\* No text needs an index of two bytes, and nobody changes sides.
OneByteReports == \A n \in Indices : n < ByteBase
NobodySwitches == {"spectate", "partake"} \cap Commands = {}

\* Then every ready flag is -1 or 0, and nothing on the way to the server
\* changes a side.
Sideless == {p \in ClientPacket : p.type # "SPECTATE"}
PlainInv ==
    /\ \A c \in Slots : progress[c] \in {-1, 0}
    /\ \A s \in Sockets : up[s] \in Seq(Sideless)

LEMMA PlainInit == SystemInit => PlainInv
<1> SUFFICES ASSUME SystemInit PROVE PlainInv OBVIOUS
<1>1. progress = [c \in Slots |-> 0] /\ up = [s \in Sockets |-> <<>>]
  BY DEF SystemInit, Init, K!KuraiInit
<1>2. <<>> \in Seq(Sideless) OBVIOUS
<1> QED BY <1>1, <1>2 DEF PlainInv

\* The server stores no other flag: it resets, toggles, and makes a ready flag
\* of each report.
LEMMA PlainServer ==
    ASSUME SystemInv, PlainInv, OneByteReports, ServerStep
    PROVE  PlainInv'
<1>1. TypeOK BY DEF SystemInv, TallyInv
<1>2. \A c \in Slots : progress[c] \in {-1, 0} BY DEF PlainInv
<1>3. ASSUME progress' = progress PROVE \A c \in Slots : progress'[c] \in {-1, 0}
  BY <1>2, <1>3
<1>4. ASSUME NEW c \in Slots, NEW x \in {-1, 0}, progress' = [progress EXCEPT ![c] = x]
      PROVE  \A d \in Slots : progress'[d] \in {-1, 0}
  BY <1>1, <1>2, <1>4 DEF TypeOK
<1>5. ASSUME NEW x \in {-1, 0}, progress' = [c \in Slots |-> x]
      PROVE  \A d \in Slots : progress'[d] \in {-1, 0}
  BY <1>5
<1>6. \A c \in Slots : progress'[c] \in {-1, 0}
  <2>1. CASE ServerAccepts
    <3>1. PICK c \in Slots : progress' = [progress EXCEPT ![c] = -1]
      BY <2>1 DEF ServerAccepts, Accept
    <3> QED BY <1>4, <3>1
  <2>2. ASSUME NEW c \in Slots, ServerReads(c) PROVE \A d \in Slots : progress'[d] \in {-1, 0}
    <3>0. PICK m : m = Head(up[clients[c]]) OBVIOUS
    <3>1. c \in Connected /\ up[clients[c]] # <<>> /\ packetRecievedCB(c, m)
      BY <2>2, <3>0 DEF ServerReads
    <3>2. m \in ClientPacket BY <2>2, <3>0, <3>1, HeadStays
    <3>3. CASE phToggleReady(c)
      <4>1. progress' = [progress EXCEPT ![c] = 0] \/ progress' = [progress EXCEPT ![c] = -1]
        BY <3>3 DEF phToggleReady
      <4> QED BY <1>4, <4>1
    <3>4. CASE m.type = "SEND_PROGRESS" /\ phSendProgress(c, m.progress)
      <4>1. m.progress \in Indices BY <3>2, <3>4, PacketFields
      <4>2. StoredProgress(m.progress) = {0} BY <4>1 DEF OneByteReports, StoredProgress
      <4>3. progress' = [progress EXCEPT ![c] = 0] BY <3>4, <4>2 DEF phSendProgress
      <4> QED BY <1>4, <4>3
    <3>5. CASE phOnConnect(c, m.name, m.color) BY <1>3, <3>5 DEF phOnConnect
    <3>6. CASE phToggleSpectate(c) BY <1>3, <3>6 DEF phToggleSpectate
    <3>7. CASE phChangeName(c, m.name) \/ phColor(c, m.color)
      BY <1>3, <3>7 DEF phChangeName, phColor
    <3>8. CASE phSendMessage(c) \/ Relay(c, "KILLME") BY <1>3, <3>8 DEF phSendMessage, Relay
    <3>9. CASE phTextSet(c, m.text) \/ phTimeout(c, m.timeout)
      BY <1>3, <3>9 DEF phTextSet, phTimeout
    <3>10. CASE phDisconnect(c) BY <1>3, <3>10 DEF phDisconnect, Depart
    <3>11. CASE phCompletedText(c, m.time) BY <1>3, <3>11 DEF phCompletedText
    <3> QED BY <3>1, <3>3, <3>4, <3>5, <3>6, <3>7, <3>8, <3>9, <3>10, <3>11
            DEF packetRecievedCB
  <2>3. ASSUME NEW c \in Slots, ServerHangsUp(c) PROVE \A d \in Slots : progress'[d] \in {-1, 0}
    BY <1>3, <2>3 DEF ServerHangsUp, disconnectCB
  <2>4. CASE ServerTicks
    <3>1. \/ progress' = progress
          \/ \E x \in {-1, 0} : progress' = [c \in Slots |-> x]
      BY <2>4 DEF ServerTicks, Tick, TickRacing, TickCountdown, TickUnready, TickNobody,
                  SetTimer, startGame, endGame
    <3> QED BY <1>3, <1>5, <3>1
  <2> QED BY <2>1, <2>2, <2>3, <2>4 DEF ServerStep
<1>7. ASSUME NEW s \in Sockets PROVE up'[s] \in Seq(Sideless)
  <2>1. StreamStep BY ServerMoves
  <2>2. up[s] \in Seq(Sideless) BY DEF PlainInv
  <2>3. CASE up'[s] = up[s] BY <2>2, <2>3
  <2>4. CASE \E n \in 1 .. Len(up[s]) : up'[s] = SubSeq(up[s], n + 1, Len(up[s]))
    BY <2>2, <2>4, Dropped
  <2> QED BY <2>1, <2>3, <2>4 DEF StreamStep
<1> QED BY <1>6, <1>7 DEF PlainInv

\* The clients do not ask it to.
LEMMA PlainClient ==
    ASSUME SystemInv, PlainInv, NobodySwitches, NEW k \in Clients, ClientStep(k)
    PROVE  PlainInv'
<1>1. progress' = progress BY DEF ClientStep
<1>2. up \in [Sockets -> Seq(ClientPacket)] /\ \A s \in Sockets : up[s] \in Seq(Sideless)
  BY DEF SystemInv, WiresTyped, PlainInv
<1>3. ASSUME NEW p \in Sideless, K!Send(k, p) PROVE \A s \in Sockets : up'[s] \in Seq(Sideless)
  <2>1. ASSUME NEW q \in Seq(Sideless) PROVE Append(q, p) \in Seq(Sideless) OBVIOUS
  <2> QED BY <1>2, <1>3, <2>1 DEF K!Send
<1>4. ASSUME up' = up PROVE \A s \in Sockets : up'[s] \in Seq(Sideless) BY <1>2, <1>4
<1>5. \A s \in Sockets : up'[s] \in Seq(Sideless)
  <2>1. ASSUME NEW z \in Sockets, ClientConnects(k, z)
        PROVE  \A s \in Sockets : up'[s] \in Seq(Sideless)
    <3>1. PICK col \in Colors : up' = [up EXCEPT ![z] =
            <<[type |-> "ON_CONNECT", name |-> K!Self(k).name, color |-> col]>>]
      BY <2>1 DEF ClientConnects, K!Connect
    <3> DEFINE p == [type |-> "ON_CONNECT", name |-> K!Self(k).name, color |-> col]
    <3>2. K!Self(k).name \in Names
      <4>1. list[k] \in Seq(RowType) /\ list[k] # <<>> BY DEF SystemInv, ClientsTyped
      <4>2. list[k][1] \in RowType BY <4>1, Remaining
      <4> QED BY <4>2 DEF RowType, K!Self
    <3>3. p \in Sideless BY <3>2 DEF Sideless, ClientPacket
    <3>4. up' = [up EXCEPT ![z] = <<p>>] BY <3>1
    <3> HIDE DEF p
    <3>5. <<p>> \in Seq(Sideless) BY <3>3
    <3> QED BY <1>2, <3>4, <3>5
  <2>2. CASE K!ClientReads(k)
    <3>1. Heard(k) BY <2>2, ReadFirstHeard, ReadLobbyHeard, ReadRaceHeard DEF K!ClientReads
    <3> QED BY <1>4, <3>1 DEF Heard
  <2>3. CASE K!Command(k)
    <3>1. \E p \in Sideless : K!Send(k, p)
      <4>1. \A type \in {"TOGGLE_READY", "SEND_MESSAGE", "KILLME"} : [type |-> type] \in Sideless
        BY DEF Sideless, ClientPacket
      <4>2. \A n \in Names : [type |-> "CHANGE_NAME", name |-> n] \in Sideless
        BY DEF Sideless, ClientPacket
      <4>3. \A col \in Colors : [type |-> "COLOR", color |-> col] \in Sideless
        BY DEF Sideless, ClientPacket
      <4>4. \A t \in Specials : [type |-> "TEXT_SET", text |-> t] \in Sideless
        BY DEF Sideless, ClientPacket
      <4>5. \A d \in Timeouts : [type |-> "TIMEOUT", timeout |-> d] \in Sideless
        BY DEF Sideless, ClientPacket
      <4> QED BY <2>3, <4>1, <4>2, <4>3, <4>4, <4>5 DEF K!Command, K!Says, NobodySwitches
    <3> QED BY <1>3, <3>1
  <2>4. CASE K!TypeKey(k)
    <3>1. up' = up \/ \E p \in Sideless : K!Send(k, p)
      <4>1. \A t \in Times : [type |-> "COMPLETED_TEXT", time |-> t] \in Sideless
        BY DEF Sideless, ClientPacket
      <4>2. \A p \in Indices : [type |-> "SEND_PROGRESS", progress |-> p] \in Sideless
        BY DEF Sideless, ClientPacket
      <4>3. mode[k] = "PLAYING" /\ race[k] \in RaceType
        BY <2>4 DEF SystemInv, ClientsTyped, K!TypeKey
      <4>4. K!Keyed(race[k]) \subseteq Indices BY <4>3, KeyedType
      <4> QED BY <2>4, <4>1, <4>2, <4>4 DEF K!TypeKey
    <3> QED BY <1>3, <1>4, <3>1
  <2>5. CASE K!Disconnect(k) \/ K!Quit(k)
    <3>1. [type |-> "DISCONNECT"] \in Sideless BY DEF Sideless, ClientPacket
    <3>2. up' = up \/ K!Send(k, [type |-> "DISCONNECT"]) BY <2>5, GoneTyped DEF Gone
    <3> QED BY <1>3, <1>4, <3>1, <3>2
  <2> QED BY <2>1, <2>2, <2>3, <2>4, <2>5 DEF ClientStep, K!ClientStep
<1> QED BY <1>1, <1>5 DEF PlainInv

\* So with commands and texts like these nothing has to be assumed of what the
\* players do.
THEOREM SystemReadyAgrees ==
    ASSUME SlotsStable, OneByteReports, NobodySwitches
    PROVE  SystemSpec => []ReadyAgrees
<1>1. SystemInit => PlainInv BY PlainInit
<1>2. SystemInv /\ PlainInv /\ [SystemNext]_system => PlainInv'
  <2>1. SUFFICES ASSUME SystemInv, PlainInv, [SystemNext]_system PROVE PlainInv' OBVIOUS
  <2>2. CASE UNCHANGED system BY <2>1, <2>2 DEF system, vars, PlainInv
  <2> QED BY <2>1, <2>2, PlainServer, PlainClient DEF SystemNext
<1>3. SystemInv /\ PlainInv => FlagsPlain /\ SwitchersUnready
  <2> SUFFICES ASSUME SystemInv, PlainInv PROVE FlagsPlain /\ SwitchersUnready OBVIOUS
  <2>1. Players \subseteq Connected /\ Connected \subseteq Slots BY DEF Players, Connected
  <2>2. ASSUME NEW c \in Players PROVE ~NextFrom(c, "SPECTATE")
    <3>1. SUFFICES ASSUME up[clients[c]] # <<>> PROVE Head(up[clients[c]]).type # "SPECTATE"
      BY DEF NextFrom
    <3>2. clients[c] \in Sockets BY <2>1, <3>1, HeadStays
    <3>3. Head(up[clients[c]]) \in Sideless BY <3>1, <3>2, Remaining DEF PlainInv
    <3> QED BY <3>3 DEF Sideless
  <2> QED BY <2>1, <2>2 DEF PlainInv, FlagsPlain, SwitchersUnready
<1> QED BY <1>1, <1>2, <1>3, SystemInvHolds, SystemOrderlyReady, PTL DEF SystemSpec

\* ... and shows the server's side for each of them, if nobody who watches a race
\* finishes it and nobody comes back with the flag that /disconnect leaves set.
THEOREM SystemSidesAgree ==
    ASSUME SlotsStable, "disconnect" \notin Commands
    PROVE  SystemSpec /\ []FinishersRace => []SidesAgree
<1> DEFINE F == {"spectate"}
<1>1. SystemInit => RosterInv(F) BY RosterInvInit
<1>2. FinishersRace => Orderly(F) BY DEF Orderly
<1>3. SystemInv /\ Orderly(F) /\ RosterInv(F) /\ [SystemNext]_system => RosterInv(F)'
  BY RosterInvNext
<1>4. SystemInv /\ RosterInv(F) => SidesAgree
  <2> SUFFICES ASSUME SystemInv, RosterInv(F), NEW k \in Clients, CaughtUp(k), mode[k] = "LOBBY",
                      NEW i \in DOMAIN list[k], list[k][i].id \in Players
               PROVE  list[k][i].spectate = (spectator[list[k][i].id] = 1)
    BY DEF SidesAgree
  <2>1. PICK v \in Views : Lists(F, list[k], v) /\ Kept(k, v) /\ KeptFlags(F, v)
    BY ReadAllAgrees
  <2>2. list[k][i].spectate \in BOOLEAN
    <3>1. list[k] \in Seq(RowType) BY DEF SystemInv, ClientsTyped
    <3>2. list[k][i] \in RowType BY <3>1, ElementOfSeq, LenProperties
    <3> QED BY <3>2 DEF RowType
  <2>3. list[k][i].spectate <=> list[k][i].id \in v.aside BY <2>1 DEF Lists, Flagged
  <2>4. list[k][i].id \in v.aside <=> spectator[list[k][i].id] = 1 BY <2>1 DEF KeptFlags
  <2> QED BY <2>2, <2>3, <2>4
<1> HIDE DEF F
<1> QED BY <1>1, <1>2, <1>3, <1>4, SystemInvHolds, PTL DEF SystemSpec

=============================================================================
