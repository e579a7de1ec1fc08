---------------------------- MODULE SystemProofs ----------------------------
(***************************************************************************)
(* The composed system for any number of clients, connections and slots.   *)
(*                                                                         *)
(* Wired says who holds which connection, SoundFor what the server may     *)
(* have under way on it.  With them a client always finds its own row      *)
(* first in its list, and the server keeps what it keeps alone.            *)
(***************************************************************************)
EXTENDS KuraiProofs

(* Who holds which connection *)

\* The modes of a client that knows its id.
InStep(k) == mode[k] \in {"LOBBY", "PLAYING"}

\* The packets a client sends while it stays, and those that end a connection.
Partings == {"DISCONNECT", "EXIT_TO_LOBBY"}
Staying == {p \in ClientPacket : p.type \notin Partings}

\* A connection has one holder at most; it is waiting or open until its client
\* hangs up, carries nothing to a client before it is open or after the client
\* has hung up, and no parting before.
Wired ==
    /\ \A k \in Clients : mode[k] = "DISCONNECTED" <=> socket[k] = NoSocket
    /\ \A j, k \in Clients : socket[j] = socket[k] /\ socket[k] # NoSocket => j = k
    /\ \A k \in Clients : socket[k] # NoSocket =>
            socket[k] \in Open \cup Backlogged /\ socket[k] \notin hungup
    /\ \A k \in Clients : InStep(k) => socket[k] \in Open
    /\ \A i, j \in DOMAIN backlog : backlog[i] = backlog[j] => i = j
    /\ Backlogged \cap Open = {}
    /\ \A s \in Sockets : s \notin Open \/ s \in hungup => down[s] = <<>>
    /\ \A s \in (Open \cup Backlogged) \ hungup : up[s] \in Seq(Staying)

\* What the server may have under way to socket s: a race has a length, a
\* snapshot names the slot of s, and a departure is somebody else's.
SoundFor(s) ==
    {p \in Packets :
        /\ p.type \in {"START", "ON_CONNECT"} => p.text_size \in Lengths
        /\ p.type = "ON_CONNECT" => clients[p.id] = s
        /\ p.type = "DISCONNECT" => clients[p.id] # s}
StreamsSound == \A s \in Sockets : down[s] \in Seq(SoundFor(s))

\* A client in step has the id of its slot, in the first row of its list.
OwnIds == \A k \in Clients : InStep(k) => clients[list[k][1].id] = socket[k]

LengthKnown == text_size \in Lengths

SystemInv ==
    /\ TallyInv /\ ClientsTyped /\ WiresTyped
    /\ Wired /\ StreamsSound /\ OwnIds /\ LengthKnown

-----------------------------------------------------------------------------
(* A client reads *)

\* Packets that tell a client which phase the server is in.
Marks(p) == p.type \in {"START", "GAME_OVER", "ON_CONNECT"}
MarksRace(p) == p.type = "START" \/ (p.type = "ON_CONNECT" /\ p.in_progress = 1)

\* What every read is to the other clients and to the connections.
Heard(k) ==
    /\ mode[k] \in {"CONNECTING", "LOBBY", "PLAYING"}
    /\ K!Inbox(k) # <<>> /\ K!Consume(k)
    /\ UNCHANGED <<socket, up, hungup>>
    /\ mode' = [mode EXCEPT ![k] = mode'[k]] /\ mode'[k] \notin {"DISCONNECTED", "CONNECTING"}
    /\ \A j \in Clients \ {k} : list'[j] = list[j] /\ race'[j] = race[j]

\* What it is to the client itself, when the packet is p.
Understood(k, p) ==
    mode'[k] \in {"LOBBY", "PLAYING"} =>
        /\ clients[list'[k][1].id] = socket[k]
        /\ IF Marks(p) THEN mode'[k] = "PLAYING" <=> MarksRace(p)
                       ELSE mode[k] = mode'[k]
        /\ mode'[k] = "PLAYING" /\ race'[k].complete =>
             mode[k] = "PLAYING" /\ race[k].complete /\ p.type # "GAME_OVER"

\* The next packet of a client is one the server may have sent it.
LEMMA NextPacket ==
    ASSUME SystemInv, NEW k \in Clients, mode[k] \in {"CONNECTING", "LOBBY", "PLAYING"},
           K!Inbox(k) # <<>>
    PROVE  /\ socket[k] \in Sockets /\ socket[k] \in Open
           /\ Head(K!Inbox(k)) \in SoundFor(socket[k])
           /\ Head(K!Inbox(k)) \in Packets
<1>1. socket[k] \in Sockets BY DEF SystemInv, Wired, ClientsTyped
<1>2. down[socket[k]] \in Seq(SoundFor(socket[k])) BY <1>1 DEF SystemInv, StreamsSound
<1>3. Head(K!Inbox(k)) \in SoundFor(socket[k]) BY <1>2, Remaining DEF K!Inbox
<1>4. socket[k] \in Open BY <1>1 DEF SystemInv, Wired, K!Inbox
<1> QED BY <1>1, <1>3, <1>4 DEF SoundFor

\* A snapshot is the only packet of its type.
LEMMA SnapshotOnly ==
    ASSUME NEW p \in Packets, p.type = "ON_CONNECT"
    PROVE  p \in SnapshotPacket
BY DEF Packets, ServerPacket

\* A client that loses the thread keeps what it holds.
LEMMA LostType ==
    ASSUME ClientsTyped, NEW k \in Clients, NEW m \in {"GARBLED", "ASTRAY"},
           mode' = [mode EXCEPT ![k] = m], UNCHANGED <<socket, list, race>>
    PROVE  ClientsTyped' /\ mode'[k] = m
BY DEF ClientsTyped, K!Modes

\* connect: the first packet puts a client in the lobby, in the race, or out of step.
LEMMA ReadFirstHeard ==
    ASSUME SystemInv, NEW k \in Clients, K!ReadFirst(k), NEW p, p = Head(K!Inbox(k))
    PROVE  Heard(k) /\ ClientsTyped' /\ Understood(k, p)
<1>0. ClientsTyped /\ mode[k] = "CONNECTING" /\ K!Inbox(k) # <<>> /\ K!Consume(k)
      /\ UNCHANGED <<socket, up, hungup>>
  BY DEF SystemInv, K!ReadFirst
<1>1. p \in SoundFor(socket[k]) /\ p \in Packets BY <1>0, NextPacket
<1>2. CASE p.type # "ON_CONNECT"
  <2>1. mode' = [mode EXCEPT ![k] = "GARBLED"] /\ UNCHANGED <<list, race>>
    BY <1>2 DEF K!ReadFirst
  <2>2. ClientsTyped' /\ mode'[k] = "GARBLED" BY <1>0, <2>1, LostType
  <2> QED BY <1>0, <2>1, <2>2 DEF Heard, Understood
<1>3. CASE p.type = "ON_CONNECT"
  <2>1. p \in SnapshotPacket BY <1>1, <1>3, SnapshotOnly
  <2>2. p.text_size \in Lengths /\ clients[p.id] = socket[k] BY <1>1, <1>3 DEF SoundFor
  <2>3. p.in_progress \in {0, 1} BY <2>1, OthersType
  <2>4. CASE p.in_progress = 0
    <3>1. K!EnterLobby(k, p) BY <1>3, <2>4 DEF K!ReadFirst
    <3>2. /\ mode' = [mode EXCEPT ![k] = "LOBBY"] /\ race' = race
          /\ list' \in [Clients -> Seq(RowType) \ {<<>>}]
          /\ list'[k][1].id = p.id
          /\ \A j \in Clients \ {k} : list'[j] = list[j]
      BY <1>0, <2>1, <3>1, EnterLobbyType
    <3>3. ClientsTyped' /\ mode'[k] = "LOBBY"
      BY <1>0, <3>2 DEF ClientsTyped, K!Modes
    <3>4. Heard(k) BY <1>0, <3>2, <3>3 DEF Heard
    <3>5. ~MarksRace(p) BY <1>3, <2>4 DEF MarksRace
    <3>6. Understood(k, p) BY <1>3, <2>2, <3>2, <3>3, <3>5 DEF Understood, Marks
    <3> QED BY <3>3, <3>4, <3>6
  <2>5. CASE p.in_progress = 1
    <3>1. K!EnterRace(k, p) BY <1>3, <2>5 DEF K!ReadFirst
    <3>2. /\ mode' = [mode EXCEPT ![k] = "PLAYING"]
          /\ list' \in [Clients -> Seq(RowType) \ {<<>>}]
          /\ list'[k][1].id = p.id
          /\ race' \in [Clients -> RaceType \cup {K!NoRace}]
          /\ race'[k] \in RaceType /\ ~race'[k].complete
          /\ \A j \in Clients \ {k} : race'[j] = race[j] /\ list'[j] = list[j]
      BY <1>0, <2>1, <2>2, <3>1, EnterRaceType
    <3>3. ClientsTyped' /\ mode'[k] = "PLAYING"
      BY <1>0, <3>2 DEF ClientsTyped, K!Modes
    <3> QED BY <1>0, <1>3, <2>2, <2>5, <3>2, <3>3 DEF Heard, Understood, Marks, MarksRace
  <2> QED BY <2>3, <2>4, <2>5
<1> QED BY <1>2, <1>3

\* connected: a packet updates the list, starts the race, or loses the client.
LEMMA ReadLobbyHeard ==
    ASSUME SystemInv, NEW k \in Clients, K!ReadLobby(k), NEW p, p = Head(K!Inbox(k))
    PROVE  Heard(k) /\ ClientsTyped' /\ Understood(k, p)
<1>0. ClientsTyped /\ mode[k] = "LOBBY" /\ K!Inbox(k) # <<>> /\ K!Consume(k)
      /\ UNCHANGED <<socket, up, hungup>>
  BY DEF SystemInv, K!ReadLobby
<1>1. p \in SoundFor(socket[k]) /\ p \in Packets BY <1>0, NextPacket
<1>2. clients[list[k][1].id] = socket[k] BY <1>0 DEF SystemInv, OwnIds, InStep
<1>3. CASE \/ p.type \notin K!LobbyReads
           \/ p.type \in K!LobbyLooksUp /\ K!RowOf(list[k], p.id) = 0
  <2>1. PICK m \in {"GARBLED", "ASTRAY"} :
            mode' = [mode EXCEPT ![k] = m] /\ UNCHANGED <<list, race>>
    BY <1>3 DEF K!ReadLobby, K!LobbyReads, K!LobbyLooksUp
  <2>2. ClientsTyped' /\ mode'[k] = m BY <1>0, <2>1, LostType
  <2> QED BY <1>0, <2>1, <2>2 DEF Heard, Understood
<1>4. CASE p.type = "START"
  <2>1. K!StartRace(k, p) BY <1>4 DEF K!ReadLobby, K!LobbyReads, K!LobbyLooksUp
  <2>2. p.text_size \in Lengths BY <1>1, <1>4 DEF SoundFor
  <2>3. /\ mode' = [mode EXCEPT ![k] = "PLAYING"] /\ list' = list
        /\ race' \in [Clients -> RaceType \cup {K!NoRace}]
        /\ race'[k] \in RaceType /\ ~race'[k].complete
        /\ \A j \in Clients \ {k} : race'[j] = race[j]
    BY <1>0, <2>1, <2>2, StartRaceType
  <2>4. ClientsTyped' /\ mode'[k] = "PLAYING"
    BY <1>0, <2>3 DEF ClientsTyped, K!Modes
  <2> QED BY <1>0, <1>2, <1>4, <2>3, <2>4 DEF Heard, Understood, Marks, MarksRace
<1>5. CASE /\ p.type \in K!LobbyReads /\ p.type # "START"
           /\ p.type \in K!LobbyLooksUp => K!RowOf(list[k], p.id) # 0
  <2> DEFINE rows == K!ListAfter(list[k], p)
  <2>1. list' = [list EXCEPT ![k] = rows] /\ UNCHANGED <<mode, race>>
    BY <1>5 DEF K!ReadLobby
  <2>2. list[k] \in Seq(RowType) \ {<<>>} BY <1>0 DEF ClientsTyped
  <2>3. p.type = "DISCONNECT" => p.id # list[k][1].id BY <1>1, <1>2 DEF SoundFor
  <2>4. rows \in Seq(RowType) \ {<<>>} /\ rows[1].id = list[k][1].id
    BY <1>1, <1>5, <2>2, <2>3, ListAfterType
  <2> HIDE DEF rows
  <2>5. /\ list' \in [Clients -> Seq(RowType) \ {<<>>}] /\ list'[k] = rows
        /\ \A j \in Clients \ {k} : list'[j] = list[j]
    BY <1>0, <2>1, <2>4 DEF ClientsTyped
  <2>6. ClientsTyped' BY <1>0, <2>1, <2>5 DEF ClientsTyped
  <2>7. mode' = [mode EXCEPT ![k] = mode'[k]] /\ mode'[k] = "LOBBY"
    BY <1>0, <2>1 DEF ClientsTyped
  <2>8. p.type # "ON_CONNECT" BY <1>5 DEF K!LobbyReads
  <2> QED BY <1>0, <1>2, <1>5, <2>1, <2>4, <2>5, <2>6, <2>7, <2>8
          DEF Heard, Understood, Marks, MarksRace
<1> QED BY <1>3, <1>4, <1>5

\* playing: a packet updates the race view, ends the race, or loses the client.
LEMMA ReadRaceHeard ==
    ASSUME SystemInv, NEW k \in Clients, K!ReadRace(k), NEW p, p = Head(K!Inbox(k))
    PROVE  Heard(k) /\ ClientsTyped' /\ Understood(k, p)
<1>0. ClientsTyped /\ mode[k] = "PLAYING" /\ K!Inbox(k) # <<>> /\ K!Consume(k)
      /\ UNCHANGED <<socket, up, hungup>>
  BY DEF SystemInv, K!ReadRace
<1>1. p \in Packets BY <1>0, NextPacket
<1>2. clients[list[k][1].id] = socket[k] BY <1>0 DEF SystemInv, OwnIds, InStep
<1>3. race[k] \in RaceType BY <1>0 DEF ClientsTyped
<1>4. CASE p.type \notin K!RaceReads
  <2>1. mode' = [mode EXCEPT ![k] = "GARBLED"] /\ UNCHANGED <<list, race>>
    BY <1>4 DEF K!ReadRace, K!RaceReads
  <2>2. ClientsTyped' /\ mode'[k] = "GARBLED" BY <1>0, <2>1, LostType
  <2> QED BY <1>0, <2>1, <2>2 DEF Heard, Understood
<1>5. CASE p.type = "GAME_OVER"
  <2>1. K!EndRace(k) BY <1>5 DEF K!ReadRace, K!RaceReads
  <2>2. /\ mode' = [mode EXCEPT ![k] = "LOBBY"]
        /\ list' \in [Clients -> Seq(RowType) \ {<<>>}]
        /\ list'[k][1].id = list[k][1].id
        /\ race' \in [Clients -> RaceType \cup {K!NoRace}]
        /\ \A j \in Clients \ {k} : race'[j] = race[j] /\ list'[j] = list[j]
    BY <1>0, <1>3, <2>1, EndRaceType
  <2>3. ClientsTyped' /\ mode'[k] = "LOBBY" BY <1>0, <2>2 DEF ClientsTyped, K!Modes
  <2> QED BY <1>0, <1>2, <1>5, <2>2, <2>3 DEF Heard, Understood, Marks, MarksRace
<1>6. CASE p.type = "CANCEL_TIMER"
  <2>1. UNCHANGED <<mode, list, race>> BY <1>6 DEF K!ReadRace, K!RaceReads
  <2>2. ClientsTyped' BY <1>0, <2>1 DEF ClientsTyped
  <2>3. mode' = [mode EXCEPT ![k] = mode'[k]] /\ mode'[k] = "PLAYING"
    BY <1>0, <2>1 DEF ClientsTyped
  <2> QED BY <1>0, <1>2, <1>6, <2>1, <2>2, <2>3 DEF Heard, Understood, Marks, MarksRace
<1>7. CASE p.type \in {"CONNECT", "UPDATE_PROGRESS", "PLAYER_COMPLETED", "DISCONNECT"}
  <2> DEFINE view == K!Drawn(K!RaceAfter(k, p))
  <2>1. race' = [race EXCEPT ![k] = view] /\ UNCHANGED <<mode, list>>
    BY <1>7 DEF K!ReadRace, K!RaceReads
  <2>2. view \in RaceType /\ view.complete = race[k].complete
    BY <1>0, <1>1, <1>3, <1>7, RaceAfterType, DrawnType
  <2> HIDE DEF view
  <2>3. race'[k] = view /\ \A j \in Clients \ {k} : race'[j] = race[j]
    BY <1>0, <2>1 DEF ClientsTyped
  <2>4. ClientsTyped' BY <1>0, <2>1, <2>2, <2>3 DEF ClientsTyped
  <2>5. mode' = [mode EXCEPT ![k] = mode'[k]] /\ mode'[k] = "PLAYING"
    BY <1>0, <2>1 DEF ClientsTyped
  <2> QED BY <1>0, <1>2, <1>7, <2>1, <2>2, <2>3, <2>4, <2>5
          DEF Heard, Understood, Marks, MarksRace
<1> QED BY <1>4, <1>5, <1>6, <1>7 DEF K!RaceReads

-----------------------------------------------------------------------------
(* The steps of a client *)

\* What a client's step leaves alone.
ServerKept == UNCHANGED <<pool, progress, spectator, tallies, game, timeout, victory>>

\* A step of a client changes nothing the server keeps.
LEMMA ClientsAlone ==
    ASSUME SystemInv, Silent, ServerKept
    PROVE  /\ TallyInv' /\ LengthKnown' /\ clients' = clients /\ Open' = Open
           /\ currentState' = currentState /\ numCompleted' = numCompleted
           /\ \A s : SoundFor(s)' = SoundFor(s)
<1>1. /\ UNCHANGED <<clients, name, color, progress, spectator, timeout, winner, winnerTime>>
      /\ UNCHANGED <<numPlayers, numReady, numSpectators, numCompleted>>
      /\ UNCHANGED <<currentState, startTimer, text_size, text>>
  BY DEF ServerKept, pool, tallies, game, victory
<1>2. sent' \in [Sockets -> Seq(Packets)] BY SilentType
<1>3. TypeOK /\ SocketsDistinct /\ NewcomersFresh /\ TalliesAgree /\ LengthKnown
  BY DEF SystemInv, TallyInv
<1>4. TypeOK' BY <1>1, <1>2, <1>3 DEF TypeOK, Packets
<1>5. Connected' = Connected /\ Players' = Players /\ Spectators' = Spectators
  BY <1>1 DEF Connected, Players, Spectators
<1>6. SocketsDistinct' BY <1>1, <1>3, <1>5 DEF SocketsDistinct
<1>7. NewcomersFresh' BY <1>1, <1>3, <1>5 DEF NewcomersFresh
<1>8. TalliesAgree' BY <1>1, <1>3, <1>5 DEF TalliesAgree
<1>9. Open' = Open BY <1>1, <1>5 DEF Open
<1>10. LengthKnown' BY <1>1, <1>3 DEF LengthKnown
<1>11. \A s : SoundFor(s)' = SoundFor(s) BY <1>1 DEF SoundFor
<1> QED BY <1>1, <1>4, <1>6, <1>7, <1>8, <1>9, <1>10, <1>11 DEF TallyInv

\* Slots and backlog hold sockets.
LEMMA SocketsHeld ==
    ASSUME SystemInv
    PROVE  Open \cup Backlogged \subseteq Sockets
<1>1. Open \subseteq Sockets BY DEF SystemInv, TallyInv, TypeOK, Open, Connected
<1>2. backlog \in Seq(Sockets) BY DEF SystemInv, WiresTyped
<1>3. \A i \in DOMAIN backlog : backlog[i] \in Sockets BY <1>2, LenProperties, ElementOfSeq
<1>4. Backlogged \subseteq Sockets BY <1>3 DEF Backlogged
<1> QED BY <1>1, <1>4

\* What is said to a stream is added to it.
LEMMA SaidType ==
    ASSUME SystemInv, NEW s \in Sockets, NEW p \in ClientPacket,
           up' = [up EXCEPT ![s] = Append(@, p)]
    PROVE  /\ up' \in [Sockets -> Seq(ClientPacket)]
           /\ \A z \in Sockets \ {s} : up'[z] = up[z]
           /\ up'[s] = Append(up[s], p)
           /\ p \in Staying /\ up[s] \in Seq(Staying) => up'[s] \in Seq(Staying)
<1>1. up \in [Sockets -> Seq(ClientPacket)] BY DEF SystemInv, WiresTyped
<1>2. Append(up[s], p) \in Seq(ClientPacket) BY <1>1, Appended
<1>3. p \in Staying /\ up[s] \in Seq(Staying) => Append(up[s], p) \in Seq(Staying) BY Appended
<1> QED BY <1>1, <1>2, <1>3

\* Reading keeps the invariant.
LEMMA HeardInv ==
    ASSUME SystemInv, Silent, ServerKept, UNCHANGED backlog, NEW k \in Clients,
           Heard(k), ClientsTyped', Understood(k, Head(K!Inbox(k)))
    PROVE  SystemInv'
<1> DEFINE z == socket[k]
<1>0. /\ TallyInv' /\ LengthKnown' /\ clients' = clients /\ Open' = Open
      /\ \A s : SoundFor(s)' = SoundFor(s)
  BY ClientsAlone
<1>1. /\ mode[k] \in {"CONNECTING", "LOBBY", "PLAYING"} /\ K!Inbox(k) # <<>>
      /\ UNCHANGED <<socket, up, hungup>>
      /\ mode' = [mode EXCEPT ![k] = mode'[k]] /\ mode'[k] \notin {"DISCONNECTED", "CONNECTING"}
      /\ \A j \in Clients \ {k} : list'[j] = list[j] /\ mode'[j] = mode[j]
      /\ down' = [down EXCEPT ![z] = Tail(@)]
  BY DEF Heard, K!Consume, SystemInv, ClientsTyped
<1>2. z \in Sockets /\ z \in Open BY <1>1, NextPacket
<1>3. Backlogged' = Backlogged BY DEF Backlogged
<1>4. /\ down' \in [Sockets -> Seq(Packets)]
      /\ \A s \in Sockets : down'[s] \in Seq(SoundFor(s))
      /\ \A s \in Sockets \ {z} : down'[s] = down[s]
  <2>1. down \in [Sockets -> Seq(Packets)] /\ \A s \in Sockets : down[s] \in Seq(SoundFor(s))
    BY DEF SystemInv, WiresTyped, StreamsSound
  <2>2. down[z] # <<>> BY <1>1 DEF K!Inbox
  <2>3. Tail(down[z]) \in Seq(SoundFor(z)) BY <1>2, <2>1, <2>2, Remaining
  <2>4. Tail(down[z]) \in Seq(Packets) BY <1>2, <2>1, <2>2, Remaining
  <2> QED BY <1>1, <1>2, <2>1, <2>3, <2>4
<1>5. StreamsSound' BY <1>0, <1>4 DEF StreamsSound
<1>6. WiresTyped' BY <1>1, <1>4 DEF SystemInv, WiresTyped
<1>7. OwnIds'
  <2>1. ASSUME NEW j \in Clients, InStep(j)' PROVE clients[list'[j][1].id] = socket[j]
    <3>1. CASE j = k BY <2>1, <3>1 DEF Understood, InStep
    <3>2. CASE j # k BY <1>1, <2>1, <3>2 DEF SystemInv, OwnIds, InStep
    <3> QED BY <3>1, <3>2
  <2> QED BY <1>0, <1>1, <2>1 DEF OwnIds
<1>8. Wired'
  <2>1. Wired BY DEF SystemInv
  <2>2. \A j \in Clients : (mode[j] = "DISCONNECTED" <=> mode'[j] = "DISCONNECTED")
    BY <1>1
  <2>3. \A j \in Clients : InStep(j)' => socket[j] \in Open
    BY <1>1, <1>2, <2>1 DEF Wired, InStep
  <2>4. \A s \in Sockets : s \notin Open \/ s \in hungup => down'[s] = <<>>
    <3>1. z \notin hungup BY <1>1, <1>2, <2>1, SocketAssumption DEF Wired
    <3> QED BY <1>2, <1>4, <2>1, <3>1 DEF Wired
  <2> QED BY <1>0, <1>1, <1>3, <2>1, <2>2, <2>3, <2>4 DEF Wired
<1> QED BY <1>0, <1>5, <1>6, <1>7, <1>8 DEF SystemInv

\* What a client in step says, or does without a word.
Spoke(k) ==
    /\ InStep(k)
    /\ UNCHANGED <<mode, socket, list, down, hungup>>
    /\ up' = up \/ \E p \in Staying : K!Send(k, p)

\* So does speaking.
LEMMA SpokeInv ==
    ASSUME SystemInv, Silent, ServerKept, UNCHANGED backlog, NEW k \in Clients,
           Spoke(k), ClientsTyped'
    PROVE  SystemInv'
<1> DEFINE z == socket[k]
<1>0. /\ TallyInv' /\ LengthKnown' /\ clients' = clients /\ Open' = Open
      /\ \A s : SoundFor(s)' = SoundFor(s)
  BY ClientsAlone
<1>1. UNCHANGED <<mode, socket, list, down, hungup>> /\ mode[k] # "DISCONNECTED" /\ InStep(k)
  BY DEF Spoke, InStep
<1>2. z \in Sockets /\ z \in Open /\ z \notin hungup
  BY <1>1, SocketAssumption DEF SystemInv, Wired, ClientsTyped
<1>3. Backlogged' = Backlogged BY DEF Backlogged
<1>4. /\ up' \in [Sockets -> Seq(ClientPacket)]
      /\ \A s \in (Open \cup Backlogged) \ hungup : up'[s] \in Seq(Staying)
  <2>1. /\ up \in [Sockets -> Seq(ClientPacket)]
        /\ \A s \in (Open \cup Backlogged) \ hungup : up[s] \in Seq(Staying)
    BY DEF SystemInv, WiresTyped, Wired
  <2>2. CASE up' = up BY <2>1, <2>2
  <2>3. ASSUME NEW p \in Staying, K!Send(k, p)
        PROVE  /\ up' \in [Sockets -> Seq(ClientPacket)]
               /\ \A s \in (Open \cup Backlogged) \ hungup : up'[s] \in Seq(Staying)
    <3>1. up' = [up EXCEPT ![z] = Append(@, p)] BY <2>3 DEF K!Send
    <3>2. p \in ClientPacket BY DEF Staying
    <3>3. /\ up' \in [Sockets -> Seq(ClientPacket)]
          /\ \A s \in Sockets \ {z} : up'[s] = up[s]
          /\ up'[z] \in Seq(Staying)
      BY <1>2, <2>1, <3>1, <3>2, SaidType
    <3>4. Open \cup Backlogged \subseteq Sockets
      BY SocketsHeld
    <3> QED BY <2>1, <3>3, <3>4
  <2> QED BY <2>2, <2>3 DEF Spoke
<1>5. StreamsSound' BY <1>0, <1>1 DEF SystemInv, StreamsSound
<1>6. WiresTyped' BY <1>1, <1>4 DEF SystemInv, WiresTyped
<1>7. OwnIds' BY <1>0, <1>1 DEF SystemInv, OwnIds, InStep
<1>8. Wired' BY <1>0, <1>1, <1>3, <1>4 DEF SystemInv, Wired, InStep
<1> QED BY <1>0, <1>5, <1>6, <1>7, <1>8 DEF SystemInv

\* Hanging up, with a word or without.
Gone(k) ==
    /\ mode[k] # "DISCONNECTED"
    /\ K!HangUp(k)
    /\ up' = up \/ K!Send(k, [type |-> "DISCONNECT"])
    /\ \A j \in Clients \ {k} : list'[j] = list[j]

\* So does hanging up.
LEMMA GoneInv ==
    ASSUME SystemInv, Silent, ServerKept, UNCHANGED backlog, NEW k \in Clients,
           Gone(k), ClientsTyped'
    PROVE  SystemInv'
<1> DEFINE z == socket[k]
<1>0. /\ TallyInv' /\ LengthKnown' /\ clients' = clients /\ Open' = Open
      /\ \A s : SoundFor(s)' = SoundFor(s)
  BY ClientsAlone
<1>1. /\ mode[k] # "DISCONNECTED"
      /\ mode' = [mode EXCEPT ![k] = "DISCONNECTED"]
      /\ socket' = [socket EXCEPT ![k] = NoSocket]
      /\ hungup' = hungup \cup {z}
      /\ down' = [down EXCEPT ![z] = <<>>]
      /\ \A j \in Clients \ {k} : list'[j] = list[j]
  BY DEF Gone, K!HangUp
<1>2. /\ mode'[k] = "DISCONNECTED" /\ socket'[k] = NoSocket
      /\ \A j \in Clients \ {k} : mode'[j] = mode[j] /\ socket'[j] = socket[j]
  BY <1>1 DEF SystemInv, ClientsTyped
<1>3. z \in Sockets BY <1>1 DEF SystemInv, Wired, ClientsTyped
<1>4. Backlogged' = Backlogged BY DEF Backlogged
<1>5. /\ up' \in [Sockets -> Seq(ClientPacket)]
      /\ \A s \in Sockets \ {z} : up'[s] = up[s]
  <2>1. up \in [Sockets -> Seq(ClientPacket)] BY DEF SystemInv, WiresTyped
  <2>2. [type |-> "DISCONNECT"] \in ClientPacket BY DEF ClientPacket
  <2>3. K!Send(k, [type |-> "DISCONNECT"]) =>
          up' = [up EXCEPT ![z] = Append(@, [type |-> "DISCONNECT"])]
    BY DEF K!Send
  <2> QED BY <1>3, <2>1, <2>2, <2>3, SaidType DEF Gone
<1>6. /\ down' \in [Sockets -> Seq(Packets)]
      /\ down'[z] = <<>> /\ \A s \in Sockets \ {z} : down'[s] = down[s]
  BY <1>1, <1>3 DEF SystemInv, WiresTyped
<1>7. StreamsSound' BY <1>0, <1>6 DEF SystemInv, StreamsSound
<1>8. WiresTyped' BY <1>1, <1>3, <1>5, <1>6 DEF SystemInv, WiresTyped
<1>9. OwnIds' BY <1>0, <1>1, <1>2 DEF SystemInv, OwnIds, InStep
<1>10. Wired'
  <2>1. Wired BY DEF SystemInv
  <2>2. \A j \in Clients : mode'[j] = "DISCONNECTED" <=> socket'[j] = NoSocket
    BY <1>2, <2>1 DEF Wired
  <2>3. \A i, j \in Clients : socket'[i] = socket'[j] /\ socket'[i] # NoSocket => i = j
    BY <1>2, <2>1 DEF Wired
  <2>4. ASSUME NEW j \in Clients, socket'[j] # NoSocket
        PROVE  socket'[j] \in Open \cup Backlogged /\ socket'[j] \notin hungup'
    <3>1. j # k /\ socket'[j] = socket[j] BY <1>2, <2>4
    <3>2. socket[j] # z BY <2>1, <2>4, <3>1 DEF Wired
    <3> QED BY <1>1, <2>1, <2>4, <3>1, <3>2 DEF Wired
  <2>5. \A j \in Clients : InStep(j)' => socket'[j] \in Open
    BY <1>2, <2>1 DEF Wired, InStep
  <2>6. \A s \in Sockets : s \notin Open \/ s \in hungup' => down'[s] = <<>>
    BY <1>1, <1>6, <2>1 DEF Wired
  <2>7. \A s \in (Open \cup Backlogged) \ hungup' : up'[s] \in Seq(Staying)
    <3>1. Open \cup Backlogged \subseteq Sockets
      BY SocketsHeld
    <3> QED BY <1>1, <1>5, <2>1, <3>1 DEF Wired
  <2> QED BY <1>0, <1>4, <2>1, <2>2, <2>3, <2>4, <2>5, <2>6, <2>7 DEF Wired
<1> QED BY <1>0, <1>7, <1>8, <1>9, <1>10 DEF SystemInv

\* So does connecting.
LEMMA ConnectInv ==
    ASSUME SystemInv, Silent, ServerKept, NEW k \in Clients, NEW s \in Sockets,
           ClientConnects(k, s)
    PROVE  SystemInv'
<1>0. /\ TallyInv' /\ LengthKnown' /\ clients' = clients /\ Open' = Open
      /\ \A z : SoundFor(z)' = SoundFor(z)
  BY ClientsAlone
<1>1. /\ mode[k] = "DISCONNECTED"
      /\ mode' = [mode EXCEPT ![k] = "CONNECTING"]
      /\ socket' = [socket EXCEPT ![k] = s]
      /\ down' = [down EXCEPT ![s] = <<>>]
      /\ hungup' = hungup \ {s}
      /\ UNCHANGED <<list, race>>
      /\ backlog' = Append(backlog, s)
      /\ s \notin Open /\ s \notin Backlogged /\ \A j \in Clients : socket[j] # s
  BY DEF ClientConnects, K!Connect, Fresh
<1>2. PICK col \in Colors : up' = [up EXCEPT ![s] =
            <<[type |-> "ON_CONNECT", name |-> K!Self(k).name, color |-> col]>>]
  BY DEF ClientConnects, K!Connect
<1>3. /\ mode'[k] = "CONNECTING" /\ socket'[k] = s
      /\ \A j \in Clients \ {k} : mode'[j] = mode[j] /\ socket'[j] = socket[j]
  BY <1>1 DEF SystemInv, ClientsTyped
<1>4. /\ up' \in [Sockets -> Seq(ClientPacket)]
      /\ \A z \in Sockets \ {s} : up'[z] = up[z]
      /\ up'[s] \in Seq(Staying)
  <2> DEFINE p == [type |-> "ON_CONNECT", name |-> K!Self(k).name, color |-> col]
  <2>1. list[k] \in Seq(RowType) /\ list[k] # <<>> BY DEF SystemInv, ClientsTyped
  <2>2. list[k][1] \in RowType BY <2>1, Remaining
  <2>3. K!Self(k).name \in Names BY <2>2 DEF RowType, K!Self
  <2>4. p \in ClientPacket BY <2>3 DEF ClientPacket
  <2>5. p \in Staying BY <2>4 DEF Staying, Partings
  <2> HIDE DEF p
  <2>6. <<p>> \in Seq(ClientPacket) /\ <<p>> \in Seq(Staying) BY <2>4, <2>5
  <2>7. up' = [up EXCEPT ![s] = <<p>>] BY <1>2 DEF p
  <2> QED BY <2>6, <2>7 DEF SystemInv, WiresTyped
<1>5. /\ down' \in [Sockets -> Seq(Packets)]
      /\ down'[s] = <<>> /\ \A z \in Sockets \ {s} : down'[z] = down[z]
  BY <1>1 DEF SystemInv, WiresTyped
<1>6. /\ backlog' \in Seq(Sockets) /\ Backlogged' = Backlogged \cup {s}
      /\ \A i, j \in DOMAIN backlog' : backlog'[i] = backlog'[j] => i = j
  <2>1. backlog \in Seq(Sockets) /\ \A i, j \in DOMAIN backlog : backlog[i] = backlog[j] => i = j
    BY DEF SystemInv, WiresTyped, Wired
  <2>2. DOMAIN backlog = 1 .. Len(backlog) /\ Len(backlog) \in Nat BY <2>1, LenProperties
  <2>3. /\ backlog' \in Seq(Sockets) /\ DOMAIN backlog' = 1 .. Len(backlog) + 1
        /\ \A i \in 1 .. Len(backlog) : backlog'[i] = backlog[i]
        /\ backlog'[Len(backlog) + 1] = s
    BY <1>1, <2>1, Appended
  <2>4. 1 .. Len(backlog) + 1 = (1 .. Len(backlog)) \cup {Len(backlog) + 1} BY <2>2
  <2>5. Backlogged' = Backlogged \cup {s} BY <2>2, <2>3, <2>4 DEF Backlogged
  <2>6. \A i \in DOMAIN backlog : backlog[i] # s BY <1>1 DEF Backlogged
  <2> QED BY <2>1, <2>2, <2>3, <2>4, <2>5, <2>6
<1>7. ClientsTyped' BY <1>1 DEF SystemInv, ClientsTyped, K!Modes
<1>8. StreamsSound' BY <1>0, <1>5 DEF SystemInv, StreamsSound
<1>9. WiresTyped' BY <1>1, <1>4, <1>5, <1>6 DEF SystemInv, WiresTyped
<1>10. OwnIds' BY <1>0, <1>1, <1>3 DEF SystemInv, OwnIds, InStep
<1>11. Wired'
  <2>1. Wired BY DEF SystemInv
  <2>2. \A j \in Clients : mode'[j] = "DISCONNECTED" <=> socket'[j] = NoSocket
    BY <1>3, <2>1, SocketAssumption DEF Wired
  <2>3. \A i, j \in Clients : socket'[i] = socket'[j] /\ socket'[i] # NoSocket => i = j
    BY <1>1, <1>3, <2>1 DEF Wired
  <2>4. \A j \in Clients : socket'[j] # NoSocket =>
            socket'[j] \in Open \cup Backlogged' /\ socket'[j] \notin hungup'
    BY <1>1, <1>3, <1>6, <2>1 DEF Wired
  <2>5. \A j \in Clients : InStep(j)' => socket'[j] \in Open
    BY <1>3, <2>1 DEF Wired, InStep
  <2>6. Backlogged' \cap Open = {} BY <1>1, <1>6, <2>1 DEF Wired
  <2>7. \A z \in Sockets : z \notin Open \/ z \in hungup' => down'[z] = <<>>
    BY <1>1, <1>5, <2>1 DEF Wired
  <2>8. \A z \in (Open \cup Backlogged') \ hungup' : up'[z] \in Seq(Staying)
    <3>1. Open \cup Backlogged \subseteq Sockets
      BY SocketsHeld
    <3> QED BY <1>1, <1>4, <1>6, <2>1, <3>1 DEF Wired
  <2> QED BY <1>0, <1>6, <2>2, <2>3, <2>4, <2>5, <2>6, <2>7, <2>8 DEF Wired
<1> QED BY <1>0, <1>7, <1>8, <1>9, <1>10, <1>11 DEF SystemInv

\* The words of a client in step, and its keys.
LEMMA CommandSpoke ==
    ASSUME SystemInv, NEW k \in Clients, K!Command(k)
    PROVE  Spoke(k) /\ ClientsTyped' /\ race' = race
<1>1. InStep(k) /\ UNCHANGED <<mode, socket, list, race, down, hungup>>
  BY DEF K!Command, K!Says, K!clientVars, InStep
<1>2. \E p \in Staying : K!Send(k, p)
  <2>1. ASSUME NEW type \in {"TOGGLE_READY", "SPECTATE", "SEND_MESSAGE", "KILLME"}
        PROVE  [type |-> type] \in Staying
    BY DEF Staying, ClientPacket, Partings
  <2>2. \A n \in Names : [type |-> "CHANGE_NAME", name |-> n] \in Staying
    BY DEF Staying, ClientPacket, Partings
  <2>3. \A col \in Colors : [type |-> "COLOR", color |-> col] \in Staying
    BY DEF Staying, ClientPacket, Partings
  <2>4. \A t \in Specials : [type |-> "TEXT_SET", text |-> t] \in Staying
    BY DEF Staying, ClientPacket, Partings
  <2>5. \A d \in Timeouts : [type |-> "TIMEOUT", timeout |-> d] \in Staying
    BY DEF Staying, ClientPacket, Partings
  <2> QED BY <2>1, <2>2, <2>3, <2>4, <2>5 DEF K!Command, K!Says
<1>3. ClientsTyped' BY <1>1 DEF SystemInv, ClientsTyped
<1> QED BY <1>1, <1>2, <1>3 DEF Spoke

\* A key of the race tells the server something, and a text that it completes its time.
LEMMA TypeKeySpoke ==
    ASSUME SystemInv, NEW k \in Clients, K!TypeKey(k)
    PROVE  /\ Spoke(k) /\ ClientsTyped'
           /\ \A j \in Clients \ {k} : race'[j] = race[j]
           /\ race'[k].complete /\ ~race[k].complete =>
                \E t \in Times : K!Send(k, [type |-> "COMPLETED_TEXT", time |-> t])
<1>1. mode[k] = "PLAYING" /\ InStep(k) /\ UNCHANGED <<mode, socket, list, down, hungup>>
  BY DEF K!TypeKey, InStep
<1>2. race[k] \in RaceType BY <1>1 DEF SystemInv, ClientsTyped
<1>3. PICK p \in K!Keyed(race[k]) :
        LET view == [race[k] EXCEPT !.progress = p]
        IN IF ~view.complete /\ p = view.length
             THEN /\ race' = [race EXCEPT ![k] = [view EXCEPT !.complete = TRUE]]
                  /\ \E t \in Times : K!Send(k, [type |-> "COMPLETED_TEXT", time |-> t])
           ELSE IF K!ToldNext(view)
             THEN /\ race' = [race EXCEPT ![k] = [view EXCEPT !.told = p]]
                  /\ K!Send(k, [type |-> "SEND_PROGRESS", progress |-> p])
           ELSE race' = [race EXCEPT ![k] = view] /\ UNCHANGED up
  BY DEF K!TypeKey
<1> DEFINE view == [race[k] EXCEPT !.progress = p]
<1>4. p \in Indices BY <1>2, KeyedType
<1>5. view \in RaceType /\ view.complete = race[k].complete BY <1>2, <1>4 DEF RaceType
<1>6. [view EXCEPT !.complete = TRUE] \in RaceType BY <1>5 DEF RaceType
<1>7. [view EXCEPT !.told = p] \in RaceType /\ [view EXCEPT !.told = p].complete = race[k].complete
  BY <1>4, <1>5 DEF RaceType
<1>8. /\ \A t \in Times : [type |-> "COMPLETED_TEXT", time |-> t] \in Staying
      /\ [type |-> "SEND_PROGRESS", progress |-> p] \in Staying
  BY <1>4 DEF Staying, ClientPacket, Partings
<1> HIDE DEF view
<1>9. ASSUME NEW r \in RaceType, race' = [race EXCEPT ![k] = r]
      PROVE  /\ ClientsTyped' /\ race'[k] = r
             /\ \A j \in Clients \ {k} : race'[j] = race[j]
  BY <1>1, <1>9 DEF SystemInv, ClientsTyped
<1>10. CASE ~view.complete /\ p = view.length
  <2>1. /\ race' = [race EXCEPT ![k] = [view EXCEPT !.complete = TRUE]]
        /\ \E t \in Times : K!Send(k, [type |-> "COMPLETED_TEXT", time |-> t])
    BY <1>3, <1>10 DEF view
  <2> QED BY <1>1, <1>6, <1>8, <1>9, <2>1 DEF Spoke
<1>11. CASE ~(~view.complete /\ p = view.length) /\ K!ToldNext(view)
  <2>1. /\ race' = [race EXCEPT ![k] = [view EXCEPT !.told = p]]
        /\ K!Send(k, [type |-> "SEND_PROGRESS", progress |-> p])
    BY <1>3, <1>11 DEF view
  <2> QED BY <1>1, <1>7, <1>8, <1>9, <2>1 DEF Spoke
<1>12. CASE ~(~view.complete /\ p = view.length) /\ ~K!ToldNext(view)
  <2>1. race' = [race EXCEPT ![k] = view] /\ up' = up
    BY <1>3, <1>12 DEF view
  <2> QED BY <1>1, <1>5, <1>9, <2>1 DEF Spoke
<1> QED BY <1>10, <1>11, <1>12

\* Leaving, and the list it leaves.
LEMMA GoneTyped ==
    ASSUME SystemInv, NEW k \in Clients, K!Disconnect(k) \/ K!Quit(k)
    PROVE  Gone(k) /\ ClientsTyped'
<1>1. Gone(k)
  <2>1. CASE K!Disconnect(k)
    <3>1. mode[k] = "LOBBY" /\ K!HangUp(k) /\ K!Send(k, [type |-> "DISCONNECT"])
          /\ list' = [list EXCEPT ![k] = <<[K!Self(k) EXCEPT !.ready = FALSE]>>]
      BY <2>1 DEF K!Disconnect
    <3> QED BY <3>1 DEF SystemInv, ClientsTyped, Gone
  <2>2. CASE K!Quit(k)
    <3>1. PICK n \in Names : list' = [list EXCEPT ![k] = <<K!Row(0, n, FALSE, FALSE)>>]
      BY <2>2 DEF K!Quit
    <3>2. mode[k] # "DISCONNECTED" /\ K!HangUp(k) /\ up' = up
      BY <2>2 DEF K!Quit, K!Linked
    <3> QED BY <3>1, <3>2 DEF SystemInv, ClientsTyped, Gone
  <2> QED BY <2>1, <2>2
<1>2. PICK row \in RowType : list' = [list EXCEPT ![k] = <<row>>]
  <2>1. CASE K!Disconnect(k)
    <3>1. list[k] \in Seq(RowType) /\ list[k] # <<>> BY DEF SystemInv, ClientsTyped
    <3>2. list[k][1] \in RowType BY <3>1, Remaining
    <3>3. [list[k][1] EXCEPT !.ready = FALSE] \in RowType BY <3>2 DEF RowType
    <3> QED BY <2>1, <3>3 DEF K!Disconnect, K!Self
  <2>2. CASE K!Quit(k)
    <3>1. \A n \in Names : K!Row(0, n, FALSE, FALSE) \in RowType
      BY SlotsType DEF K!Row, RowType
    <3> QED BY <2>2, <3>1 DEF K!Quit
  <2> QED BY <2>1, <2>2
<1>3. <<row>> \in Seq(RowType) \ {<<>>} BY SingletonType
<1>4. /\ mode' = [mode EXCEPT ![k] = "DISCONNECTED"]
      /\ socket' = [socket EXCEPT ![k] = NoSocket]
      /\ race' = [race EXCEPT ![k] = K!NoRace]
  BY <1>1 DEF Gone, K!HangUp
<1> QED BY <1>1, <1>2, <1>3, <1>4 DEF SystemInv, ClientsTyped, K!Modes

\* Every step of a client keeps the invariant.
LEMMA ClientStepInv ==
    ASSUME SystemInv, NEW k \in Clients, ClientStep(k)
    PROVE  SystemInv'
<1>1. Silent /\ ServerKept BY DEF ClientStep, ServerKept
<1>2. ASSUME NEW s \in Sockets, ClientConnects(k, s) PROVE SystemInv'
  BY <1>1, <1>2, ConnectInv
<1>3. CASE K!ClientStep(k) /\ UNCHANGED backlog
  <2>1. CASE K!Command(k) BY <1>1, <1>3, <2>1, CommandSpoke, SpokeInv
  <2>2. CASE K!TypeKey(k) BY <1>1, <1>3, <2>2, TypeKeySpoke, SpokeInv
  <2>3. CASE K!ReadFirst(k) BY <1>1, <1>3, <2>3, ReadFirstHeard, HeardInv
  <2>4. CASE K!ReadLobby(k) BY <1>1, <1>3, <2>4, ReadLobbyHeard, HeardInv
  <2>5. CASE K!ReadRace(k) BY <1>1, <1>3, <2>5, ReadRaceHeard, HeardInv
  <2>6. CASE K!Disconnect(k) \/ K!Quit(k) BY <1>1, <1>3, <2>6, GoneTyped, GoneInv
  <2> QED BY <1>3, <2>1, <2>2, <2>3, <2>4, <2>5, <2>6 DEF K!ClientStep, K!ClientReads
<1> QED BY <1>2, <1>3 DEF ClientStep

-----------------------------------------------------------------------------
(* What the server says *)

\* It relays, greets a newcomer, or announces a phase.
Relayed ==
    /\ currentState' = currentState /\ numCompleted' \in Nat /\ numCompleted' >= numCompleted
    /\ \/ Silent
       \/ \E p \in ServerPacket :
            /\ p.type \notin {"START", "GAME_OVER"}
            /\ p.type = "DISCONNECT" => clients'[p.id] = NoSocket
            /\ Broadcast(p)

Greeted(c) ==
    /\ UNCHANGED <<clients, currentState, numCompleted>> /\ c \notin Players
    /\ \E p \in SnapshotPacket, q \in ServerPacket :
        /\ p.type = "ON_CONNECT" /\ p.id = c /\ p.in_progress = currentState
        /\ p.text_size = text_size
        /\ p.count = numPlayers + 1 /\ DOMAIN p.players = Players \cup {c}
        /\ q.type = "CONNECT"
        /\ sent' = [s \in Sockets |-> IF s = clients[c] THEN <<p, q>>
                                      ELSE IF s \in Open THEN <<q>> ELSE <<>>]

Announced ==
    /\ UNCHANGED clients
    /\ \/ /\ currentState' = 1 /\ numCompleted' = numCompleted
          /\ \E t \in Texts : Broadcast([type |-> "START", text_size |-> TextLength[t], text |-> t])
       \/ currentState' = 0 /\ Broadcast([type |-> "GAME_OVER"])

Talked == Relayed \/ (\E c \in Connected : Greeted(c)) \/ Announced

\* A departure is told to everybody.
LEMMA DepartTalks ==
    ASSUME TypeOK, NEW c \in Slots, Depart(c), clients' = [clients EXCEPT ![c] = NoSocket],
           UNCHANGED <<currentState, numCompleted>>
    PROVE  Relayed
<1>1. [type |-> "DISCONNECT", id |-> c] \in ServerPacket BY DEF ServerPacket
<1>2. clients'[c] = NoSocket BY DEF TypeOK
<1>3. numCompleted \in Nat BY DEF TypeOK
<1> QED BY <1>1, <1>2, <1>3 DEF Depart, Relayed

\* Every other packet handler relays one packet.
LEMMA BroadcastTalks ==
    ASSUME TypeOK, NEW p \in ServerPacket, p.type \notin {"START", "GAME_OVER", "DISCONNECT"},
           Broadcast(p), currentState' = currentState,
           numCompleted' = numCompleted \/ numCompleted' = numCompleted + 1
    PROVE  Relayed
<1>1. numCompleted \in Nat BY DEF TypeOK
<1>2. numCompleted' \in Nat /\ numCompleted' >= numCompleted BY <1>1
<1> QED BY <1>2 DEF Relayed

\* packetRecievedCB relays what it was told, or greets who said its name.
LEMMA ReceiveTalks ==
    ASSUME TypeOK, NEW c \in Slots, NEW m \in ClientPacket, packetRecievedCB(c, m)
    PROVE  Talked
<1>1. /\ m.type \in {"ON_CONNECT", "CHANGE_NAME"} => m.name \in Names
      /\ m.type \in {"ON_CONNECT", "COLOR"} => m.color \in Colors
      /\ m.type = "TEXT_SET" => m.text \in Specials
      /\ m.type = "TIMEOUT" => m.timeout \in Timeouts
      /\ m.type = "SEND_PROGRESS" => m.progress \in Indices
      /\ m.type = "COMPLETED_TEXT" => m.time \in Times
  BY PacketFields
<1>2. CASE phOnConnect(c, m.name, m.color) /\ m.type = "ON_CONNECT"
  <2> DEFINE p == Snapshot(c, m.name, m.color, spectator'[c])
             q == [type |-> "CONNECT", id |-> c, color |-> m.color, name |-> m.name]
  <2>1. spectator'[c] \in {0, 1} BY <1>2 DEF phOnConnect, TypeOK
  <2>2. p \in SnapshotPacket BY <1>1, <1>2, <2>1, SnapshotType
  <2>3. q \in ServerPacket BY <1>1, <1>2 DEF ServerPacket
  <2>4. /\ p.type = "ON_CONNECT" /\ p.id = c /\ p.in_progress = currentState
        /\ p.text_size = text_size /\ p.count = numPlayers + 1
        /\ DOMAIN p.players = Players \cup {c}
    BY DEF Snapshot
  <2>5. q.type = "CONNECT" OBVIOUS
  <2>6. /\ UNCHANGED <<clients, currentState, numCompleted>>
        /\ sent' = [s \in Sockets |-> IF s = clients[c] THEN <<p, q>>
                                      ELSE IF s \in Open THEN <<q>> ELSE <<>>]
    BY <1>2 DEF phOnConnect, game
  <2>7. c \in Connected /\ c \notin Players BY <1>2 DEF packetRecievedCB
  <2> HIDE DEF p, q
  <2> QED BY <2>2, <2>3, <2>4, <2>5, <2>6, <2>7 DEF Greeted, Talked
<1>3. CASE phToggleReady(c)
  <2>1. [type |-> "TOGGLE_READY", id |-> c] \in ServerPacket BY DEF ServerPacket
  <2> QED BY <1>3, <2>1, BroadcastTalks DEF phToggleReady, game, Talked
<1>4. CASE phToggleSpectate(c)
  <2>1. [type |-> "RELAY_SPECTATE", id |-> c] \in ServerPacket BY DEF ServerPacket
  <2> QED BY <1>4, <2>1, BroadcastTalks DEF phToggleSpectate, game, Talked
<1>5. CASE m.type = "CHANGE_NAME" /\ phChangeName(c, m.name)
  <2>1. [type |-> "UPDATE_NAME", id |-> c, name |-> m.name] \in ServerPacket
    BY <1>1, <1>5 DEF ServerPacket
  <2> QED BY <1>5, <2>1, BroadcastTalks DEF phChangeName, game, tallies, Talked
<1>6. CASE m.type = "COLOR" /\ phColor(c, m.color)
  <2>1. [type |-> "UPDATE_COLOR", id |-> c, color |-> m.color] \in ServerPacket
    BY <1>1, <1>6 DEF ServerPacket
  <2> QED BY <1>6, <2>1, BroadcastTalks DEF phColor, game, tallies, Talked
<1>7. CASE phSendMessage(c) \/ Relay(c, "KILLME")
  <2>1. ASSUME NEW type \in {"RELAY_MESSAGE", "KILLME"}, Relay(c, type) PROVE Relayed
    <3>1. [type |-> type, id |-> c] \in ServerPacket BY DEF ServerPacket
    <3> QED BY <2>1, <3>1, BroadcastTalks DEF Relay, game, tallies
  <2> QED BY <1>7, <2>1 DEF phSendMessage, Talked
<1>8. CASE m.type = "TEXT_SET" /\ phTextSet(c, m.text)
  <2>1. [type |-> "TEXT_SET", text |-> m.text] \in ServerPacket BY <1>1, <1>8 DEF ServerPacket
  <2> QED BY <1>8, <2>1, BroadcastTalks DEF phTextSet, tallies, Talked
<1>9. CASE m.type = "TIMEOUT" /\ phTimeout(c, m.timeout)
  <2>1. [type |-> "UPDATE_TIMEOUT", timeout |-> m.timeout] \in ServerPacket
    BY <1>1, <1>9 DEF ServerPacket
  <2> QED BY <1>9, <2>1, BroadcastTalks DEF phTimeout, game, tallies, Talked
<1>10. CASE phDisconnect(c) BY <1>10, DepartTalks DEF phDisconnect, game, Talked
<1>11. CASE m.type = "SEND_PROGRESS" /\ phSendProgress(c, m.progress)
  <2>1. [type |-> "UPDATE_PROGRESS", id |-> c, progress |-> m.progress] \in ServerPacket
    BY <1>1, <1>11 DEF ServerPacket
  <2> QED BY <1>11, <2>1, BroadcastTalks DEF phSendProgress, game, tallies, Talked
<1>12. CASE m.type = "COMPLETED_TEXT" /\ phCompletedText(c, m.time)
  <2>1. [type |-> "PLAYER_COMPLETED", id |-> c, time |-> m.time] \in ServerPacket
    BY <1>1, <1>12 DEF ServerPacket
  <2> QED BY <1>12, <2>1, BroadcastTalks DEF phCompletedText, Talked
<1> QED BY <1>2, <1>3, <1>4, <1>5, <1>6, <1>7, <1>8, <1>9, <1>10, <1>11, <1>12
        DEF packetRecievedCB

\* A tick announces a race or its end, or tells the timer.
LEMMA TickTalks ==
    ASSUME TypeOK, Tick
    PROVE  Talked
<1>1. numCompleted \in Nat /\ UNCHANGED clients BY DEF TypeOK, Tick, pool
<1>2. CASE endGame BY <1>1, <1>2 DEF endGame, Announced, Talked
<1>3. CASE startGame
  <2>1. \E t \in Texts : Broadcast([type |-> "START", text_size |-> TextLength[t], text |-> t])
    BY <1>3 DEF startGame
  <2> QED BY <1>1, <1>3, <2>1 DEF startGame, Announced, Talked
<1>4. CASE ~endGame /\ ~startGame
  <2>1. UNCHANGED <<currentState, numCompleted>>
    BY <1>4 DEF Tick, TickRacing, TickCountdown, TickUnready, TickNobody, SetTimer
  <2>2. \/ Silent
        \/ \E n \in Int : Broadcast([type |-> "BEGIN_TIMER", seconds |-> n]) /\ n \in Nat
        \/ Broadcast([type |-> "CANCEL_TIMER"])
    <3>1. CASE TickRacing \/ TickNobody BY <1>4, <3>1 DEF TickRacing, TickNobody
    <3>2. CASE TickUnready BY <3>2 DEF TickUnready
    <3>3. CASE TickCountdown
      <4>1. ASSUME Decremented > 0 PROVE Decremented \div Second \in Nat
        <5>1. Decremented \in Nat BY <4>1 DEF Decremented, TypeOK
        <5> QED BY <5>1, SecondType, DivisionType
      <4>2. CountdownSeconds \in Nat BY DEF CountdownSeconds
      <4> QED BY <1>4, <3>3, <4>1, <4>2 DEF TickCountdown
    <3> QED BY <3>1, <3>2, <3>3 DEF Tick
  <2>3. [type |-> "CANCEL_TIMER"] \in ServerPacket
        /\ \A n \in Nat : [type |-> "BEGIN_TIMER", seconds |-> n] \in ServerPacket
    BY DEF ServerPacket
  <2>4. CASE Silent BY <1>1, <2>1, <2>4 DEF Relayed, Talked
  <2>5. ASSUME NEW n \in Nat, Broadcast([type |-> "BEGIN_TIMER", seconds |-> n]) PROVE Talked
    BY <2>1, <2>3, <2>5, BroadcastTalks DEF Talked
  <2>6. CASE Broadcast([type |-> "CANCEL_TIMER"])
    BY <2>1, <2>3, <2>6, BroadcastTalks DEF Talked
  <2> QED BY <2>2, <2>4, <2>5, <2>6
<1> QED BY <1>2, <1>3, <1>4

\* disconnectCB tells of a departure, and only of a player.
LEMMA DisconnectCBTalks ==
    ASSUME TypeOK, NEW c \in Slots, disconnectCB(c)
    PROVE  Relayed
<1>1. UNCHANGED <<currentState, numCompleted>> /\ clients' = [clients EXCEPT ![c] = NoSocket]
  BY DEF disconnectCB, game
<1>2. CASE c \in Players BY <1>1, <1>2, DepartTalks DEF disconnectCB
<1>3. CASE c \notin Players
  <2>1. Silent BY <1>3 DEF disconnectCB
  <2>2. numCompleted \in Nat BY DEF TypeOK
  <2> QED BY <1>1, <2>1, <2>2 DEF Relayed
<1> QED BY <1>2, <1>3

\* newConnectionCB tells nobody.
LEMMA AcceptTalks ==
    ASSUME TypeOK, NEW s, Accept(s)
    PROVE  Relayed
<1>1. UNCHANGED <<currentState, numCompleted>> /\ Silent BY DEF Accept, game, tallies
<1>2. numCompleted \in Nat BY DEF TypeOK
<1> QED BY <1>1, <1>2 DEF Relayed

-----------------------------------------------------------------------------
(* The steps of the server *)

\* A connection comes out of the backlog into a free slot, or a slot whose
\* client has hung up is freed, or neither.
PoolStep ==
    \/ UNCHANGED <<clients, backlog>>
    \/ /\ backlog # <<>> /\ backlog' = Tail(backlog)
       /\ \E c \in Slots : clients[c] = NoSocket /\ clients' = [clients EXCEPT ![c] = Head(backlog)]
    \/ /\ UNCHANGED backlog
       /\ \E c \in Connected :
            clients[c] \in hungup /\ clients' = [clients EXCEPT ![c] = NoSocket]

\* Streams to the server only get shorter, and connections are only forgotten
\* once they are closed.
StreamStep ==
    /\ \A s \in Sockets :
        up'[s] = up[s] \/ \E n \in 1 .. Len(up[s]) : up'[s] = SubSeq(up[s], n + 1, Len(up[s]))
    /\ up' = [s \in Sockets |-> up'[s]]
    /\ hungup' = hungup \/ (backlog' = backlog /\ hungup' = hungup \cap (Open' \cup Backlogged))

\* The first packet of a connection whose client is there parts nobody.
LEMMA HeadStays ==
    ASSUME SystemInv, NEW c \in Connected, up[clients[c]] # <<>>
    PROVE  /\ clients[c] \in Sockets /\ c \in Slots
           /\ Head(up[clients[c]]) \in ClientPacket
           /\ Head(up[clients[c]]).type \in Partings => clients[c] \in hungup
<1>1. clients[c] \in Sockets /\ clients[c] \in Open /\ c \in Slots
  BY DEF SystemInv, TallyInv, TypeOK, Connected, Open
<1>2. up[clients[c]] \in Seq(ClientPacket) BY <1>1 DEF SystemInv, WiresTyped
<1>3. Head(up[clients[c]]) \in ClientPacket BY <1>2, Remaining
<1>4. ASSUME clients[c] \notin hungup PROVE Head(up[clients[c]]) \in Staying
  <2>1. up[clients[c]] \in Seq(Staying) BY <1>1, <1>4 DEF SystemInv, Wired
  <2> QED BY <2>1, Remaining
<1> QED BY <1>1, <1>3, <1>4 DEF Staying

\* A step of the server is one of Saba's with room, and changes the pool and
\* the streams so.
LEMMA ServerMoves ==
    ASSUME SystemInv, ServerStep
    PROVE  /\ RoomyNext /\ Talked /\ PoolStep /\ StreamStep
           /\ UNCHANGED kurai /\ Deliver
           /\ text_size' = text_size \/ text_size' \in Lengths
<1>0. TypeOK /\ Deliver /\ up \in [Sockets -> Seq(ClientPacket)]
  BY DEF SystemInv, TallyInv, WiresTyped, ServerStep
<1>1. CASE ServerAccepts
  <2>1. /\ backlog # <<>> /\ Accept(Head(backlog)) /\ backlog' = Tail(backlog)
        /\ UNCHANGED <<kurai, up, hungup>>
    BY <1>1 DEF ServerAccepts
  <2>2. Head(backlog) \in Sockets BY <2>1, Remaining DEF SystemInv, WiresTyped
  <2>3. RoomyNext BY <2>1, <2>2 DEF RoomyNext
  <2>4. Talked BY <1>0, <2>1, AcceptTalks DEF Talked
  <2>5. PoolStep BY <2>1 DEF PoolStep, Accept
  <2>6. StreamStep BY <1>0, <2>1 DEF StreamStep
  <2>7. text_size' = text_size BY <2>1 DEF Accept, game
  <2> QED BY <1>0, <2>1, <2>3, <2>4, <2>5, <2>6, <2>7
<1>2. ASSUME NEW c \in Slots, ServerReads(c)
      PROVE  /\ RoomyNext /\ Talked /\ PoolStep /\ StreamStep
             /\ UNCHANGED kurai /\ Deliver
             /\ text_size' = text_size \/ text_size' \in Lengths
  <2> DEFINE s == clients[c]
             m == Head(up[s])
  <2>1. c \in Connected /\ up[s] # <<>> /\ packetRecievedCB(c, m) /\ Forget
        /\ UNCHANGED <<kurai, backlog>>
    BY <1>2 DEF ServerReads
  <2>2. PICK n \in 1 .. MaxCoalesce :
          n <= Len(up[s]) /\ up' = [up EXCEPT ![s] = SubSeq(@, n + 1, Len(@))]
    BY <1>2 DEF ServerReads
  <2>3. m \in ClientPacket /\ s \in Sockets /\ (m.type \in Partings => s \in hungup)
    BY <2>1, HeadStays
  <2> HIDE DEF m
  <2>4. RoomyNext BY <2>1, <2>3 DEF RoomyNext, Receive
  <2>5. Talked BY <1>0, <2>1, <2>3, ReceiveTalks
  <2>6. PoolStep
    <3>1. CASE phDisconnect(c) /\ m.type \in {"DISCONNECT", "EXIT_TO_LOBBY"}
      <4>1. s \in hungup BY <2>3, <3>1 DEF Partings
      <4> QED BY <2>1, <3>1, <4>1 DEF phDisconnect, PoolStep
    <3>2. CASE ~(phDisconnect(c) /\ m.type \in {"DISCONNECT", "EXIT_TO_LOBBY"})
      <4>1. clients' = clients
        BY <2>1, <3>2 DEF packetRecievedCB, phOnConnect, phToggleReady, phToggleSpectate,
               phChangeName, phColor, phSendMessage, Relay, phTextSet, phTimeout,
               phSendProgress, phCompletedText, pool
      <4> QED BY <2>1, <4>1 DEF PoolStep
    <3> QED BY <3>1, <3>2
  <2>7. StreamStep
    <3>1. n \in 1 .. Len(up[s])
      <4>1. Len(up[s]) \in Nat BY <1>0, <2>3, LenProperties
      <4> QED BY <2>2, <4>1, CoalesceAssumption
    <3>2. up'[s] = SubSeq(up[s], n + 1, Len(up[s])) /\ \A z \in Sockets \ {s} : up'[z] = up[z]
      BY <1>0, <2>2, <2>3
    <3>3. up' = [z \in Sockets |-> up'[z]] BY <1>0, <2>2
    <3> QED BY <2>1, <3>1, <3>2, <3>3 DEF StreamStep, Forget
  <2>8. text_size' = text_size \/ text_size' \in Lengths
    <3>1. text_size' = text_size \/ text_size' \in Specials BY <2>1, <2>3, ReceiveText
    <3> QED BY <3>1, TextAssumption DEF Lengths
  <2> QED BY <1>0, <2>1, <2>4, <2>5, <2>6, <2>7, <2>8
<1>3. ASSUME NEW c \in Slots, ServerHangsUp(c)
      PROVE  /\ RoomyNext /\ Talked /\ PoolStep /\ StreamStep
             /\ UNCHANGED kurai /\ Deliver
             /\ text_size' = text_size
  <2>1. /\ c \in Connected /\ clients[c] \in hungup /\ disconnectCB(c) /\ Forget
        /\ UNCHANGED <<kurai, up, backlog>>
    BY <1>3 DEF ServerHangsUp
  <2>2. RoomyNext BY <2>1 DEF RoomyNext
  <2>3. Talked BY <1>0, <2>1, DisconnectCBTalks DEF Talked
  <2>4. PoolStep BY <2>1 DEF PoolStep, disconnectCB
  <2>5. StreamStep BY <1>0, <2>1 DEF StreamStep, Forget
  <2>6. text_size' = text_size BY <2>1 DEF disconnectCB, game
  <2> QED BY <1>0, <2>1, <2>2, <2>3, <2>4, <2>5, <2>6
<1>4. CASE ServerTicks
  <2>1. Tick /\ UNCHANGED <<kurai, up, hungup, backlog>> BY <1>4 DEF ServerTicks
  <2>2. RoomyNext BY <2>1 DEF RoomyNext
  <2>3. Talked BY <1>0, <2>1, TickTalks
  <2>4. PoolStep BY <2>1 DEF Tick, pool, PoolStep
  <2>5. StreamStep BY <1>0, <2>1 DEF StreamStep
  <2>6. text_size' = text_size \/ text_size' \in Lengths
    <3>1. CASE endGame
      <4>1. 0 \in Texts BY TextAssumption DEF Texts
      <4> QED BY <3>1, <4>1 DEF endGame, Lengths
    <3>2. CASE startGame BY <3>2 DEF startGame, Lengths
    <3>3. CASE ~endGame /\ ~startGame
      BY <2>1, <3>3 DEF Tick, TickRacing, TickCountdown, TickUnready, TickNobody, SetTimer
    <3> QED BY <3>1, <3>2, <3>3
  <2> QED BY <1>0, <2>1, <2>2, <2>3, <2>4, <2>5, <2>6
<1> QED BY <1>1, <1>2, <1>3, <1>4 DEF ServerStep

\* What a step of the server does to the sockets of the pool.
LEMMA PoolSets ==
    ASSUME SystemInv, PoolStep
    PROVE  /\ Open' \subseteq Open \cup Backlogged
           /\ Backlogged' \subseteq Backlogged /\ backlog' \in Seq(Sockets)
           /\ Open' \cap Backlogged' = {}
           /\ Open' \cup Backlogged' \cup hungup = Open \cup Backlogged \cup hungup
           /\ Open \ hungup \subseteq Open'
           /\ \A i, j \in DOMAIN backlog' : backlog'[i] = backlog'[j] => i = j
           /\ \A c \in Slots, s \in Open \ hungup : clients'[c] = s <=> clients[c] = s
<1>1. TypeOK /\ SocketsDistinct /\ Wired /\ backlog \in Seq(Sockets)
  BY DEF SystemInv, TallyInv, WiresTyped
<1>2. clients \in [Slots -> Sockets \cup {NoSocket}] /\ NoSocket \notin Sockets
  BY <1>1, SocketAssumption DEF TypeOK
<1>3. /\ Backlogged \cap Open = {}
      /\ \A i, j \in DOMAIN backlog : backlog[i] = backlog[j] => i = j
  BY <1>1 DEF Wired
<1>4. CASE UNCHANGED <<clients, backlog>>
  <2>1. Open' = Open /\ Backlogged' = Backlogged BY <1>4 DEF Open, Connected, Backlogged
  <2> QED BY <1>1, <1>3, <1>4, <2>1
<1>5. ASSUME backlog # <<>>, backlog' = Tail(backlog), NEW c \in Slots, clients[c] = NoSocket,
             clients' = [clients EXCEPT ![c] = Head(backlog)]
      PROVE  /\ Open' = Open \cup {Head(backlog)} /\ backlog' \in Seq(Sockets)
             /\ Backlogged' = Backlogged \ {Head(backlog)} /\ Head(backlog) \in Backlogged
             /\ \A i, j \in DOMAIN backlog' : backlog'[i] = backlog'[j] => i = j
             /\ \A d \in Slots, s \in Open : clients'[d] = s <=> clients[d] = s
  <2>1. /\ Head(backlog) \in Sockets /\ Head(backlog) = backlog[1] /\ 1 \in DOMAIN backlog
        /\ Tail(backlog) \in Seq(Sockets)
        /\ DOMAIN backlog = 1 .. Len(backlog) /\ DOMAIN Tail(backlog) = 1 .. Len(backlog) - 1
        /\ Len(backlog) \in Nat \ {0}
        /\ \A i \in DOMAIN Tail(backlog) :
             i + 1 \in DOMAIN backlog /\ Tail(backlog)[i] = backlog[i + 1]
    BY <1>1, <1>5, Remaining
  <2>2. Head(backlog) \in Backlogged BY <2>1 DEF Backlogged
  <2>3. Connected' = Connected \cup {c} BY <1>2, <1>5, <2>1 DEF Connected
  <2>4. Open' = Open \cup {Head(backlog)} BY <1>2, <1>5, <2>1, <2>3 DEF Open, Connected
  <2>5. Backlogged' = Backlogged \ {Head(backlog)}
    <3>1. ASSUME NEW s \in Backlogged' PROVE s \in Backlogged /\ s # Head(backlog)
      <4>1. PICK i \in DOMAIN Tail(backlog) : s = Tail(backlog)[i] BY <1>5, <3>1 DEF Backlogged
      <4>2. s = backlog[i + 1] /\ i + 1 \in DOMAIN backlog /\ i + 1 # 1 BY <2>1, <4>1
      <4> QED BY <1>3, <2>1, <4>2 DEF Backlogged
    <3>2. ASSUME NEW s \in Backlogged, s # Head(backlog) PROVE s \in Backlogged'
      <4>1. PICK i \in DOMAIN backlog : s = backlog[i] BY <3>2 DEF Backlogged
      <4>2. i # 1 BY <2>1, <3>2, <4>1
      <4>3. i - 1 \in DOMAIN Tail(backlog) /\ (i - 1) + 1 = i BY <2>1, <4>1, <4>2
      <4>4. s = Tail(backlog)[i - 1] BY <2>1, <4>1, <4>3
      <4> QED BY <1>5, <4>3, <4>4 DEF Backlogged
    <3> QED BY <3>1, <3>2
  <2>6. ASSUME NEW i \in DOMAIN Tail(backlog), NEW j \in DOMAIN Tail(backlog),
               Tail(backlog)[i] = Tail(backlog)[j]
        PROVE  i = j
    <3>1. i + 1 = j + 1 BY <1>3, <2>1, <2>6
    <3> QED BY <2>1, <3>1
  <2>7. Head(backlog) \notin Open BY <1>3, <2>2
  <2>8. \A d \in Slots, s \in Open : clients'[d] = s <=> clients[d] = s
    <3>1. NoSocket \notin Open BY <1>2 DEF Open, Connected
    <3> QED BY <1>2, <1>5, <2>7, <3>1
  <2> QED BY <1>5, <2>1, <2>2, <2>4, <2>5, <2>6, <2>8
<1>6. ASSUME UNCHANGED backlog, NEW c \in Connected, clients[c] \in hungup,
             clients' = [clients EXCEPT ![c] = NoSocket]
      PROVE  /\ Open' = Open \ {clients[c]} /\ Backlogged' = Backlogged
             /\ \A d \in Slots, s \in Open \ hungup : clients'[d] = s <=> clients[d] = s
  <2>1. c \in Slots BY DEF Connected
  <2>2. Connected' = Connected \ {c} BY <1>2, <1>6, <2>1 DEF Connected
  <2>3. \A d \in Connected \ {c} : clients'[d] = clients[d] /\ clients[d] # clients[c]
    BY <1>1, <1>2, <1>6 DEF SocketsDistinct, Connected
  <2>4. Open' = Open \ {clients[c]} BY <2>2, <2>3 DEF Open
  <2>5. Backlogged' = Backlogged BY <1>6 DEF Backlogged
  <2>6. \A d \in Slots, s \in Open \ hungup : clients'[d] = s <=> clients[d] = s
    <3>1. NoSocket \notin Open BY <1>2 DEF Open, Connected
    <3> QED BY <1>2, <1>6, <2>1, <3>1
  <2> QED BY <2>4, <2>5, <2>6
<1>7. CASE /\ backlog # <<>> /\ backlog' = Tail(backlog)
           /\ \E c \in Slots : clients[c] = NoSocket /\ clients' = [clients EXCEPT ![c] = Head(backlog)]
  <2>1. /\ Open' = Open \cup {Head(backlog)} /\ backlog' \in Seq(Sockets)
        /\ Backlogged' = Backlogged \ {Head(backlog)} /\ Head(backlog) \in Backlogged
        /\ \A i, j \in DOMAIN backlog' : backlog'[i] = backlog'[j] => i = j
        /\ \A d \in Slots, s \in Open : clients'[d] = s <=> clients[d] = s
    BY <1>5, <1>7
  <2>2. Open' \cap Backlogged' = {} BY <1>3, <2>1
  <2>3. Open' \cup Backlogged' = Open \cup Backlogged BY <2>1
  <2> QED BY <2>1, <2>2, <2>3
<1>8. CASE /\ UNCHANGED backlog
           /\ \E c \in Connected :
                clients[c] \in hungup /\ clients' = [clients EXCEPT ![c] = NoSocket]
  BY <1>1, <1>3, <1>6, <1>8
<1> QED BY <1>4, <1>7, <1>8 DEF PoolStep

\* What the server says to an open connection suits it, and to no other it
\* says anything.
LEMMA TalkSound ==
    ASSUME SystemInv, Talked, NEW s \in Sockets
    PROVE  /\ s \notin Open => sent'[s] = <<>>
           /\ sent'[s] \in Seq(SoundFor(s)')
<1>1. \A p \in ServerPacket : p \in Packets /\ p.type # "ON_CONNECT"
  BY DEF Packets, ServerPacket
<1>2. s # NoSocket BY SocketAssumption
<1>3. ASSUME NEW p \in SoundFor(s)', Broadcast(p)
      PROVE  (s \notin Open => sent'[s] = <<>>) /\ sent'[s] \in Seq(SoundFor(s)')
  <2>1. sent'[s] = IF s \in Open THEN <<p>> ELSE <<>> BY <1>3 DEF Broadcast
  <2>2. <<p>> \in Seq(SoundFor(s)') BY SingletonType
  <2> QED BY <2>1, <2>2
<1>4. CASE Silent BY <1>4 DEF Silent
<1>5. ASSUME NEW p \in ServerPacket, p.type \notin {"START", "GAME_OVER"},
             p.type = "DISCONNECT" => clients'[p.id] = NoSocket, Broadcast(p)
      PROVE  (s \notin Open => sent'[s] = <<>>) /\ sent'[s] \in Seq(SoundFor(s)')
  <2>1. p \in SoundFor(s)' BY <1>1, <1>2, <1>5 DEF SoundFor, Packets, ServerPacket, SnapshotPacket
  <2> QED BY <1>3, <1>5, <2>1
<1>6. ASSUME NEW c \in Connected, Greeted(c)
      PROVE  (s \notin Open => sent'[s] = <<>>) /\ sent'[s] \in Seq(SoundFor(s)')
  <2>1. PICK p \in SnapshotPacket, q \in ServerPacket :
        /\ p.type = "ON_CONNECT" /\ p.id = c /\ p.in_progress = currentState
        /\ p.text_size = text_size
        /\ q.type = "CONNECT"
        /\ sent' = [z \in Sockets |-> IF z = clients[c] THEN <<p, q>>
                                      ELSE IF z \in Open THEN <<q>> ELSE <<>>]
    BY <1>6 DEF Greeted
  <2>2. clients' = clients /\ text_size \in Lengths
    BY <1>6 DEF Greeted, SystemInv, LengthKnown
  <2>3. q \in SoundFor(s)'
    <3>1. q \in Packets BY <1>1
    <3> QED BY <2>1, <3>1 DEF SoundFor, Packets, ServerPacket, SnapshotPacket
  <2>4. s = clients[c] => p \in SoundFor(s)'
    <3>1. p \in Packets BY DEF Packets
    <3> QED BY <2>1, <2>2, <3>1 DEF SoundFor, Packets, ServerPacket, SnapshotPacket
  <2>5. clients[c] \in Open BY DEF Open
  <2>6. sent'[s] = IF s = clients[c] THEN <<p, q>> ELSE IF s \in Open THEN <<q>> ELSE <<>>
    BY <2>1
  <2>7. CASE s = clients[c]
    <3>1. <<p, q>> \in Seq(SoundFor(s)') BY <2>3, <2>4, <2>7
    <3> QED BY <2>5, <2>6, <2>7, <3>1
  <2>8. CASE s # clients[c]
    <3>1. <<q>> \in Seq(SoundFor(s)') BY <2>3, SingletonType
    <3> QED BY <2>6, <2>8, <3>1
  <2> QED BY <2>7, <2>8
<1>7. ASSUME NEW t \in Texts,
             Broadcast([type |-> "START", text_size |-> TextLength[t], text |-> t])
      PROVE  (s \notin Open => sent'[s] = <<>>) /\ sent'[s] \in Seq(SoundFor(s)')
  <2> DEFINE p == [type |-> "START", text_size |-> TextLength[t], text |-> t]
  <2>1. TextLength[t] \in Lengths /\ TextLength[t] \in Nat BY TextAssumption DEF Lengths
  <2>2. p \in Packets BY <2>1 DEF Packets, ServerPacket
  <2>3. p \in SoundFor(s)' BY <2>1, <2>2 DEF SoundFor, Packets, ServerPacket, SnapshotPacket
  <2> QED BY <1>3, <1>7, <2>3
<1>8. CASE Broadcast([type |-> "GAME_OVER"])
  <2>1. [type |-> "GAME_OVER"] \in Packets BY DEF Packets, ServerPacket
  <2>2. [type |-> "GAME_OVER"] \in SoundFor(s)'
    BY <2>1 DEF SoundFor, Packets, ServerPacket, SnapshotPacket
  <2> QED BY <1>3, <1>8, <2>2
<1> QED BY <1>4, <1>5, <1>6, <1>7, <1>8 DEF Talked, Relayed, Announced

\* A step of the server keeps the invariant.
LEMMA ServerStepInv ==
    ASSUME SystemInv, ServerStep
    PROVE  SystemInv'
<1>0. /\ RoomyNext /\ Talked /\ PoolStep /\ StreamStep
      /\ UNCHANGED <<mode, socket, list, race>> /\ Deliver
      /\ text_size' = text_size \/ text_size' \in Lengths
  BY ServerMoves DEF kurai
<1>1. Wired /\ StreamsSound /\ WiresTyped /\ ClientsTyped /\ OwnIds /\ TypeOK
  BY DEF SystemInv, TallyInv
<1>2. TallyInv' BY <1>0, TallyNext DEF SystemInv
<1>3. LengthKnown' BY <1>0 DEF SystemInv, LengthKnown
<1>4. ClientsTyped' BY <1>0, <1>1 DEF ClientsTyped
<1>5. /\ Open' \subseteq Open \cup Backlogged
      /\ Backlogged' \subseteq Backlogged /\ backlog' \in Seq(Sockets)
      /\ Open' \cap Backlogged' = {}
      /\ Open' \cup Backlogged' \cup hungup = Open \cup Backlogged \cup hungup
      /\ Open \ hungup \subseteq Open'
      /\ \A i, j \in DOMAIN backlog' : backlog'[i] = backlog'[j] => i = j
      /\ \A c \in Slots, s \in Open \ hungup : clients'[c] = s <=> clients[c] = s
  BY <1>0, PoolSets
<1>6. hungup' \subseteq hungup
      /\ \A s \in Open' \cup Backlogged' : s \in hungup' <=> s \in hungup
  <2>1. CASE hungup' = hungup BY <2>1
  <2>2. CASE backlog' = backlog /\ hungup' = hungup \cap (Open' \cup Backlogged)
    <3>1. Backlogged' = Backlogged BY <2>2 DEF Backlogged
    <3> QED BY <2>2, <3>1
  <2> QED BY <1>0, <2>1, <2>2 DEF StreamStep
<1>7. ASSUME NEW s \in Sockets
      PROVE  /\ down'[s] = IF s \in Deaf THEN <<>> ELSE down[s] \o sent'[s]
             /\ s \in hungup => down'[s] = <<>>
             /\ s \notin Open => down'[s] = <<>>
  <2>1. down'[s] = IF s \in Deaf THEN <<>> ELSE down[s] \o sent'[s]
    BY <1>0 DEF Deliver
  <2>2. s \in hungup => s \in Deaf BY DEF Deaf
  <2>3. ASSUME s \notin Open PROVE down'[s] = <<>>
    <3>1. down[s] = <<>> /\ sent'[s] = <<>> BY <1>0, <1>1, <2>3, TalkSound DEF Wired
    <3>2. <<>> \o <<>> = <<>> OBVIOUS
    <3> QED BY <2>1, <3>1, <3>2
  <2> QED BY <2>1, <2>2, <2>3
<1>8. ASSUME NEW s \in Sockets PROVE down'[s] \in Seq(SoundFor(s)')
  <2>1. CASE down'[s] = <<>> BY <2>1
  <2>2. CASE down'[s] # <<>>
    <3>1. s \in Open \ hungup /\ down'[s] = down[s] \o sent'[s] BY <1>7, <2>2
    <3>2. sent'[s] \in Seq(SoundFor(s)') BY <1>0, TalkSound
    <3>3. down[s] \in Seq(SoundFor(s)')
      <4>1. ASSUME NEW p \in SoundFor(s) PROVE p \in SoundFor(s)'
        <5>1. p \in Packets BY DEF SoundFor
        <5>2. p.type \in {"ON_CONNECT", "DISCONNECT"} => p.id \in Slots
          BY <5>1 DEF Packets, ServerPacket, SnapshotPacket
        <5> QED BY <1>5, <3>1, <5>1, <5>2 DEF SoundFor, Packets, ServerPacket, SnapshotPacket
      <4>2. down[s] \in Seq(SoundFor(s)) BY <1>1 DEF StreamsSound
      <4> QED BY <4>1, <4>2, SeqMonotonic
    <3> QED BY <3>1, <3>2, <3>3, JoinedStreams
  <2> QED BY <2>1, <2>2
<1>9. StreamsSound' BY <1>8 DEF StreamsSound
<1>10. ASSUME NEW s \in Sockets, NEW R, up[s] \in Seq(R) PROVE up'[s] \in Seq(R)
  <2>1. CASE up'[s] = up[s] BY <1>10, <2>1
  <2>2. CASE \E n \in 1 .. Len(up[s]) : up'[s] = SubSeq(up[s], n + 1, Len(up[s]))
    BY <1>10, <2>2, Dropped
  <2> QED BY <1>0, <2>1, <2>2 DEF StreamStep
<1>11. WiresTyped'
  <2>1. up' \in [Sockets -> Seq(ClientPacket)]
    <3>1. \A s \in Sockets : up'[s] \in Seq(ClientPacket) BY <1>1, <1>10 DEF WiresTyped
    <3>2. up' = [s \in Sockets |-> up'[s]] BY <1>0 DEF StreamStep
    <3> QED BY <3>1, <3>2
  <2>2. down' \in [Sockets -> Seq(Packets)]
    <3>1. \A s \in Sockets : SoundFor(s)' \subseteq Packets
      BY DEF SoundFor, Packets, ServerPacket, SnapshotPacket
    <3>2. \A s \in Sockets : down'[s] \in Seq(Packets) BY <1>8, <3>1, SeqMonotonic
    <3>3. down' = [s \in Sockets |-> down'[s]] BY <1>0 DEF Deliver
    <3> QED BY <3>2, <3>3
  <2>3. hungup' \in SUBSET Sockets BY <1>1, <1>6 DEF WiresTyped
  <2> QED BY <1>5, <2>1, <2>2, <2>3 DEF WiresTyped
<1>12. ASSUME NEW k \in Clients, InStep(k)
       PROVE  socket[k] \in Open \ hungup
  BY <1>1, <1>12, SocketAssumption DEF Wired, InStep
<1>13. OwnIds'
  <2>1. ASSUME NEW k \in Clients, InStep(k) PROVE clients'[list[k][1].id] = socket[k]
    <3>1. list[k] \in Seq(RowType) /\ list[k] # <<>> BY <1>1 DEF ClientsTyped
    <3>2. list[k][1] \in RowType BY <3>1, Remaining
    <3>3. list[k][1].id \in Slots BY <3>2 DEF RowType
    <3> QED BY <1>1, <1>5, <1>12, <2>1, <3>3 DEF OwnIds
  <2> QED BY <1>0, <2>1 DEF OwnIds, InStep
<1>14. Wired'
  <2>1. \A k \in Clients : socket[k] # NoSocket =>
            socket[k] \in Open' \cup Backlogged' /\ socket[k] \notin hungup'
    BY <1>1, <1>5, <1>6 DEF Wired
  <2>2. \A k \in Clients : InStep(k) => socket[k] \in Open' BY <1>5, <1>12
  <2>3. ASSUME NEW s \in Sockets, s \notin Open' \/ s \in hungup' PROVE down'[s] = <<>>
    BY <1>5, <1>6, <1>7, <2>3
  <2>4. ASSUME NEW s \in (Open' \cup Backlogged') \ hungup' PROVE up'[s] \in Seq(Staying)
    <3>1. s \in (Open \cup Backlogged) \ hungup BY <1>5, <1>6, <2>4
    <3>2. s \in Sockets BY <3>1, SocketsHeld
    <3> QED BY <1>1, <1>10, <3>1, <3>2 DEF Wired
  <2> QED BY <1>0, <1>1, <1>5, <2>1, <2>2, <2>3, <2>4 DEF Wired, InStep
<1> QED BY <1>2, <1>3, <1>4, <1>9, <1>11, <1>13, <1>14 DEF SystemInv

\* The invariant holds at the start.
LEMMA SystemInvInit == SystemInit => SystemInv
<1> SUFFICES ASSUME SystemInit PROVE SystemInv OBVIOUS
<1>1. TallyInv BY TallyInit DEF SystemInit
<1>2. /\ mode = [k \in Clients |-> "DISCONNECTED"]
      /\ socket = [k \in Clients |-> NoSocket]
      /\ race = [k \in Clients |-> K!NoRace]
      /\ up = [s \in Sockets |-> <<>>]
      /\ down = [s \in Sockets |-> <<>>]
      /\ hungup = {} /\ backlog = <<>>
  BY DEF SystemInit, K!KuraiInit
<1>3. PICK own \in [Clients -> Names] :
        list = [k \in Clients |-> <<K!Row(0, own[k], FALSE, FALSE)>>]
  BY DEF SystemInit, K!KuraiInit
<1>4. ASSUME NEW k \in Clients PROVE <<K!Row(0, own[k], FALSE, FALSE)>> \in Seq(RowType) \ {<<>>}
  <2>1. K!Row(0, own[k], FALSE, FALSE) \in RowType BY SlotsType DEF K!Row, RowType
  <2> QED BY <2>1, SingletonType
<1>5. ClientsTyped BY <1>2, <1>3, <1>4 DEF ClientsTyped, K!Modes
<1>6. Connected = {} /\ Open = {} BY DEF SystemInit, Init, Connected, Open
<1>7. Backlogged = {} BY <1>2 DEF Backlogged
<1>8. WiresTyped BY <1>2 DEF WiresTyped
<1>9. Wired BY <1>2, <1>6, <1>7 DEF Wired, InStep
<1>10. StreamsSound BY <1>2 DEF StreamsSound
<1>11. OwnIds BY <1>2 DEF OwnIds, InStep
<1>12. LengthKnown BY TextAssumption DEF SystemInit, Init, LengthKnown, Lengths, Texts
<1> QED BY <1>1, <1>5, <1>8, <1>9, <1>10, <1>11, <1>12 DEF SystemInv

\* The invariant is kept by every step of the system.
LEMMA SystemInvNext == SystemInv /\ [SystemNext]_system => SystemInv'
<1> SUFFICES ASSUME SystemInv, [SystemNext]_system PROVE SystemInv' OBVIOUS
<1>1. CASE ServerStep BY <1>1, ServerStepInv
<1>2. ASSUME NEW k \in Clients, ClientStep(k) PROVE SystemInv' BY <1>2, ClientStepInv
<1>3. CASE UNCHANGED system
  <2>1. /\ UNCHANGED <<clients, name, color, progress, spectator, timeout, winner, winnerTime>>
        /\ UNCHANGED <<numPlayers, numReady, numSpectators, numCompleted>>
        /\ UNCHANGED <<currentState, startTimer, text_size, text, sent>>
        /\ UNCHANGED <<mode, socket, list, race, up, down, hungup, backlog>>
    BY <1>3 DEF system, vars, kurai, pool, tallies, game, victory
  <2>2. TallyInv' BY <1>3, TallyNext DEF SystemInv, system
  <2>3. Open' = Open /\ Backlogged' = Backlogged BY <2>1 DEF Open, Connected, Backlogged
  <2>4. ClientsTyped' /\ WiresTyped' BY <2>1 DEF SystemInv, ClientsTyped, WiresTyped
  <2>5. Wired' BY <2>1, <2>3 DEF SystemInv, Wired, InStep
  <2>6. StreamsSound' BY <2>1 DEF SystemInv, StreamsSound, SoundFor
  <2>7. OwnIds' /\ LengthKnown' BY <2>1 DEF SystemInv, OwnIds, LengthKnown, InStep
  <2> QED BY <2>2, <2>4, <2>5, <2>6, <2>7 DEF SystemInv
<1> QED BY <1>1, <1>2, <1>3 DEF SystemNext

\* ... and so in every state of it.
LEMMA SystemInvHolds == SystemSpec => []SystemInv
<1>1. SystemInit => SystemInv BY SystemInvInit
<1>2. SystemInv /\ [SystemNext]_system => SystemInv' BY SystemInvNext
<1> QED BY <1>1, <1>2, PTL DEF SystemSpec

\* What the server does in the system, Saba does alone, whatever its clients
\* do: every theorem about RoomySpec that is about its state holds here.
THEOREM ServerIsSaba ==
    SystemSpec =>
        /\ Init
        /\ [][RoomyNext]_<<pool, progress, spectator, tallies, game, timeout, victory>>
<1> DEFINE kept == <<pool, progress, spectator, tallies, game, timeout, victory>>
<1>1. SystemInit => Init BY DEF SystemInit
<1>2. SystemInv /\ [SystemNext]_system => [RoomyNext]_kept
  <2> SUFFICES ASSUME SystemInv, [SystemNext]_system PROVE [RoomyNext]_kept OBVIOUS
  <2>1. CASE ServerStep BY <2>1, ServerMoves
  <2>2. CASE \E k \in Clients : ClientStep(k) BY <2>2 DEF ClientStep
  <2>3. CASE UNCHANGED system BY <2>3 DEF system, vars
  <2> QED BY <2>1, <2>2, <2>3 DEF SystemNext
<1> QED BY <1>1, <1>2, SystemInvHolds, PTL DEF SystemSpec

\* No two slots share a socket, newcomers are fresh and the counters agree with
\* the slots, over TCP as well, with packets lost or not.
THEOREM SystemTallies ==
    SystemSpec => [](TypeOK /\ SocketsDistinct /\ NewcomersFresh /\ TalliesAgree)
<1>1. SystemInv => TypeOK /\ SocketsDistinct /\ NewcomersFresh /\ TalliesAgree
  BY DEF SystemInv, TallyInv
<1> QED BY <1>1, SystemInvHolds, PTL

-----------------------------------------------------------------------------
(* What a step of one client is to itself, and to the others *)

\* The other clients keep what they have.
LEMMA OthersKept ==
    ASSUME SystemInv, NEW k \in Clients, ClientStep(k), NEW j \in Clients \ {k},
           mode'[j] # "DISCONNECTED"
    PROVE  /\ mode'[j] = mode[j] /\ socket'[j] = socket[j] /\ race'[j] = race[j]
           /\ down'[socket[j]] = down[socket[j]] /\ up'[socket[j]] = up[socket[j]]
<1>0. ClientsTyped /\ WiresTyped /\ Wired BY DEF SystemInv
<1>1. ASSUME NEW s \in Sockets, ClientConnects(k, s)
      PROVE  /\ mode'[j] = mode[j] /\ socket'[j] = socket[j] /\ race'[j] = race[j]
             /\ down'[socket[j]] = down[socket[j]] /\ up'[socket[j]] = up[socket[j]]
  <2>1. mode'[j] = mode[j] /\ socket'[j] = socket[j] /\ race' = race
    BY <1>0, <1>1 DEF ClientConnects, K!Connect, ClientsTyped
  <2>2. socket[j] \in Sockets /\ socket[j] # s
    BY <1>0, <1>1, <2>1 DEF ClientConnects, Fresh, Wired, ClientsTyped
  <2> QED BY <1>0, <1>1, <2>1, <2>2 DEF ClientConnects, K!Connect, WiresTyped
<1>2. CASE \/ K!ClientReads(k) \/ K!Command(k) \/ K!TypeKey(k)
           \/ K!Disconnect(k) \/ K!Quit(k)
  <2>1. /\ mode[k] # "DISCONNECTED"
        /\ mode'[j] = mode[j] /\ socket'[j] = socket[j] /\ race'[j] = race[j]
    <3>1. CASE K!ClientReads(k)
      <4>1. Heard(k)
        BY <3>1, ReadFirstHeard, ReadLobbyHeard, ReadRaceHeard DEF K!ClientReads
      <4> QED BY <1>0, <4>1 DEF Heard, ClientsTyped
    <3>2. CASE K!Command(k)
      BY <3>2, CommandSpoke DEF Spoke, InStep
    <3>3. CASE K!TypeKey(k)
      BY <3>3, TypeKeySpoke DEF Spoke, InStep
    <3>4. CASE K!Disconnect(k) \/ K!Quit(k)
      BY <1>0, <3>4, GoneTyped DEF Gone, K!HangUp, ClientsTyped
    <3> QED BY <1>2, <3>1, <3>2, <3>3, <3>4
  <2>2. socket[j] \in Sockets /\ socket[j] # socket[k]
    BY <1>0, <2>1 DEF Wired, ClientsTyped
  <2>3. /\ \/ down' = down
           \/ \E q : down' = [down EXCEPT ![socket[k]] = q]
        /\ \/ up' = up
           \/ \E q : up' = [up EXCEPT ![socket[k]] = q]
    <3>1. CASE K!ClientReads(k)
      <4>1. Heard(k)
        BY <3>1, ReadFirstHeard, ReadLobbyHeard, ReadRaceHeard DEF K!ClientReads
      <4> QED BY <4>1 DEF Heard, K!Consume
    <3>2. CASE Spoke(k) BY <3>2 DEF Spoke, K!Send
    <3>3. CASE Gone(k) BY <3>3 DEF Gone, K!HangUp, K!Send
    <3> QED BY <1>2, <3>1, <3>2, <3>3, CommandSpoke, TypeKeySpoke, GoneTyped
  <2> QED BY <1>0, <2>1, <2>2, <2>3 DEF WiresTyped
<1> QED BY <1>1, <1>2 DEF ClientStep, K!ClientStep

\* The client itself reads, speaks, or is neither in step nor has anything to
\* read.
LEMMA OwnStep ==
    ASSUME SystemInv, NEW k \in Clients, ClientStep(k)
    PROVE  \/ Heard(k) /\ Understood(k, Head(K!Inbox(k)))
           \/ /\ Spoke(k)
              /\ race'[k].complete /\ ~race[k].complete =>
                   \E t \in Times : K!Send(k, [type |-> "COMPLETED_TEXT", time |-> t])
           \/ mode'[k] = "DISCONNECTED"
           \/ mode'[k] = "CONNECTING" /\ down'[socket'[k]] = <<>>
<1>0. ClientsTyped /\ WiresTyped BY DEF SystemInv
<1>1. ASSUME NEW s \in Sockets, ClientConnects(k, s)
      PROVE  mode'[k] = "CONNECTING" /\ down'[socket'[k]] = <<>>
  BY <1>0, <1>1 DEF ClientConnects, K!Connect, ClientsTyped, WiresTyped
<1>2. CASE K!ClientReads(k)
  BY <1>2, ReadFirstHeard, ReadLobbyHeard, ReadRaceHeard DEF K!ClientReads
<1>3. CASE K!Command(k) BY <1>3, CommandSpoke
<1>4. CASE K!TypeKey(k) BY <1>4, TypeKeySpoke
<1>5. CASE K!Disconnect(k) \/ K!Quit(k)
  BY <1>0, <1>5, GoneTyped DEF Gone, K!HangUp, ClientsTyped
<1> QED BY <1>1, <1>2, <1>3, <1>4, <1>5 DEF ClientStep, K!ClientStep

\* What the server sends a client that listens joins what it has not read.
LEMMA Delivered ==
    ASSUME SystemInv, ServerStep, NEW k \in Clients, mode[k] \in {"CONNECTING", "LOBBY", "PLAYING"}
    PROVE  /\ socket[k] \in Sockets
           /\ socket[k] \notin Open => down'[socket[k]] = <<>>
           /\ socket[k] \in Open =>
                /\ down'[socket[k]] = down[socket[k]] \o sent'[socket[k]]
                /\ down[socket[k]] \in Seq(Packets) /\ sent'[socket[k]] \in Seq(Packets)
<1> DEFINE s == socket[k]
<1>0. ClientsTyped /\ WiresTyped /\ Wired BY DEF SystemInv
<1>1. s \in Sockets BY <1>0 DEF Wired, ClientsTyped
<1>2. Deliver /\ Talked BY ServerMoves
<1>3. s \notin Deaf
  <2>1. s \notin hungup BY <1>0, <1>1, SocketAssumption DEF Wired
  <2>2. ASSUME NEW j \in Clients, K!Lost(j) PROVE socket[j] # s
    <3>1. mode[j] # "DISCONNECTED" /\ j # k BY <2>2 DEF K!Lost
    <3> QED BY <1>0, <1>1, <3>1 DEF Wired
  <2> QED BY <2>1, <2>2 DEF Deaf
<1>4. down'[s] = down[s] \o sent'[s] BY <1>1, <1>2, <1>3 DEF Deliver
<1>5. sent'[s] \in Seq(Packets) /\ (s \notin Open => sent'[s] = <<>>)
  <2>1. ASSUME NEW z \in Sockets
        PROVE  sent'[z] \in Seq(Packets) /\ (z \notin Open => sent'[z] = <<>>)
    <3>1. sent'[z] \in Seq(SoundFor(z)') /\ (z \notin Open => sent'[z] = <<>>)
      BY <1>2, TalkSound
    <3>2. SoundFor(z)' \subseteq Packets BY DEF SoundFor, Packets, ServerPacket, SnapshotPacket
    <3> QED BY <3>1, <3>2, SeqMonotonic
  <2> QED BY <1>1, <2>1
<1>8. s \notin Open => down[s] = <<>> BY <1>0, <1>1 DEF Wired
<1>9. <<>> \o <<>> = <<>> OBVIOUS
<1> QED BY <1>0, <1>1, <1>4, <1>5, <1>8, <1>9 DEF WiresTyped

-----------------------------------------------------------------------------
(* Phases *)

\* A stream without marks, and one whose last mark says whether r.
Unmarked(q) == \A i \in DOMAIN q : ~Marks(q[i])
LastMark(q, r) ==
    \A i \in DOMAIN q :
        Marks(q[i]) /\ (\A j \in DOMAIN q : j > i => ~Marks(q[j])) => (MarksRace(q[i]) <=> r)

\* What a client has not read yet tells it the server's phase, and when that is
\* silent, its mode does.
PhasesTold ==
    \A k \in Clients : mode[k] \in {"CONNECTING", "LOBBY", "PLAYING"} =>
        /\ LastMark(down[socket[k]], currentState = 1)
        /\ InStep(k) /\ Unmarked(down[socket[k]]) => (mode[k] = "PLAYING" <=> currentState = 1)

\* Marks in a stream that goes on, and in what is left of one.
LEMMA MarksJoined ==
    ASSUME NEW R, NEW s \in Seq(R), NEW t \in Seq(R), NEW r \in BOOLEAN,
           LastMark(t, r), Unmarked(t) => LastMark(s, r)
    PROVE  /\ LastMark(s \o t, r)
           /\ Unmarked(s \o t) => Unmarked(s) /\ Unmarked(t)
<1> DEFINE q == s \o t
           m == Len(s)
           n == Len(t)
<1>1. m \in Nat /\ n \in Nat /\ DOMAIN s = 1 .. m /\ DOMAIN t = 1 .. n BY LenProperties
<1>2. /\ DOMAIN q = 1 .. m + n
      /\ \A i \in 1 .. m : q[i] = s[i]
      /\ \A i \in 1 .. n : q[m + i] = t[i]
  BY JoinedStreams
<1> HIDE DEF q, m, n
<1>3. /\ \A i \in 1 .. m : i \in DOMAIN q
      /\ \A i \in 1 .. n : m + i \in DOMAIN q
  BY <1>1, <1>2
<1>4. Unmarked(q) => Unmarked(s) /\ Unmarked(t) BY <1>1, <1>2, <1>3 DEF Unmarked
<1>5. ASSUME NEW i \in DOMAIN q, Marks(q[i]), \A j \in DOMAIN q : j > i => ~Marks(q[j])
      PROVE  MarksRace(q[i]) <=> r
  <2>1. CASE i <= m
    <3>1. i \in 1 .. m BY <1>1, <1>2, <2>1
    <3>2. \A j \in 1 .. n : ~Marks(t[j])
      <4>1. ASSUME NEW j \in 1 .. n PROVE ~Marks(t[j])
        <5>1. m + j \in DOMAIN q /\ m + j > i BY <1>1, <1>3, <3>1
        <5> QED BY <1>2, <1>5, <5>1
      <4> QED BY <4>1
    <3>3. LastMark(s, r) BY <1>1, <3>2 DEF Unmarked
    <3>4. \A j \in DOMAIN s : j > i => ~Marks(s[j]) BY <1>1, <1>2, <1>3, <1>5
    <3>5. Marks(s[i]) /\ i \in DOMAIN s /\ q[i] = s[i] BY <1>1, <1>2, <1>5, <3>1
    <3> QED BY <3>3, <3>4, <3>5 DEF LastMark
  <2>2. CASE i > m
    <3>1. i - m \in 1 .. n /\ m + (i - m) = i BY <1>1, <1>2, <2>2
    <3>2. q[i] = t[i - m] BY <1>2, <3>1
    <3>3. ASSUME NEW j \in DOMAIN t, j > i - m PROVE ~Marks(t[j])
      <4>1. m + j \in DOMAIN q /\ m + j > i /\ q[m + j] = t[j] BY <1>1, <1>2, <1>3, <3>1, <3>3
      <4> QED BY <1>5, <4>1
    <3> QED BY <1>1, <1>5, <3>1, <3>2, <3>3 DEF LastMark
  <2> QED BY <1>1, <1>2, <2>1, <2>2
<1> QED BY <1>4, <1>5 DEF LastMark, q

\* ... of what is left of one: the head was the last mark, or is none.
LEMMA MarksLeft ==
    ASSUME NEW R, NEW s \in Seq(R), s # <<>>, NEW r \in BOOLEAN, LastMark(s, r)
    PROVE  /\ LastMark(Tail(s), r)
           /\ Unmarked(Tail(s)) /\ Marks(Head(s)) => (MarksRace(Head(s)) <=> r)
           /\ Unmarked(Tail(s)) /\ ~Marks(Head(s)) => Unmarked(s)
<1> DEFINE q == Tail(s)
           m == Len(s)
<1>1. /\ Head(s) = s[1] /\ 1 \in DOMAIN s
      /\ DOMAIN s = 1 .. m /\ DOMAIN q = 1 .. m - 1 /\ m \in Nat \ {0}
      /\ \A i \in DOMAIN q : i + 1 \in DOMAIN s /\ q[i] = s[i + 1]
  BY Remaining
<1> HIDE DEF q, m
<1>2. ASSUME NEW i \in DOMAIN s, i # 1
      PROVE  i - 1 \in DOMAIN q /\ s[i] = q[i - 1]
  <2>1. i - 1 \in DOMAIN q /\ (i - 1) + 1 = i BY <1>1, <1>2
  <2> QED BY <1>1, <2>1
<1>3. LastMark(q, r)
  <2>1. ASSUME NEW i \in DOMAIN q, Marks(q[i]), \A j \in DOMAIN q : j > i => ~Marks(q[j])
        PROVE  MarksRace(q[i]) <=> r
    <3>1. i + 1 \in DOMAIN s /\ q[i] = s[i + 1] /\ i \in Nat BY <1>1
    <3>2. ASSUME NEW j \in DOMAIN s, j > i + 1 PROVE ~Marks(s[j])
      <4>1. j # 1 /\ j - 1 > i BY <1>1, <3>1, <3>2
      <4> QED BY <1>2, <2>1, <4>1
    <3> QED BY <2>1, <3>1, <3>2 DEF LastMark
  <2> QED BY <2>1 DEF LastMark
<1>4. ASSUME Unmarked(q) PROVE \A j \in DOMAIN s : j # 1 => ~Marks(s[j])
  BY <1>2, <1>4 DEF Unmarked
<1>5. ASSUME Unmarked(q), Marks(s[1]) PROVE MarksRace(s[1]) <=> r
  <2>1. \A j \in DOMAIN s : j > 1 => ~Marks(s[j]) BY <1>1, <1>4, <1>5
  <2> QED BY <1>1, <1>5, <2>1 DEF LastMark
<1>6. ASSUME Unmarked(q), ~Marks(s[1]) PROVE Unmarked(s)
  BY <1>1, <1>4, <1>6 DEF Unmarked
<1> QED BY <1>1, <1>3, <1>5, <1>6 DEF q

\* The server tells every open connection the phase it changes to, and a
\* newcomer the phase it is in.
LEMMA TalkMarks ==
    ASSUME SystemInv, Talked, NEW s \in Open
    PROVE  /\ LastMark(sent'[s], currentState' = 1)
           /\ Unmarked(sent'[s]) => currentState' = currentState
<1>1. s \in Sockets BY SocketsHeld
<1>2. \A p \in ServerPacket : p.type # "ON_CONNECT" BY DEF ServerPacket
<1>3. ASSUME NEW p, Broadcast(p) PROVE sent'[s] = <<p>> BY <1>1, <1>3 DEF Broadcast
<1>4. CASE Relayed
  <2>1. sent'[s] = <<>> \/ \E p : ~Marks(p) /\ sent'[s] = <<p>>
    BY <1>1, <1>2, <1>3, <1>4 DEF Relayed, Silent, Marks
  <2> QED BY <1>4, <2>1 DEF Relayed, LastMark, Unmarked
<1>5. ASSUME NEW c \in Connected, Greeted(c)
      PROVE  LastMark(sent'[s], currentState' = 1) /\ currentState' = currentState
  <2>1. PICK p \in SnapshotPacket, q \in ServerPacket :
        /\ p.type = "ON_CONNECT" /\ p.in_progress = currentState /\ q.type = "CONNECT"
        /\ sent' = [z \in Sockets |-> IF z = clients[c] THEN <<p, q>>
                                      ELSE IF z \in Open THEN <<q>> ELSE <<>>]
    BY <1>5 DEF Greeted
  <2>2. currentState' = currentState BY <1>5 DEF Greeted
  <2>3. sent'[s] = <<p, q>> \/ sent'[s] = <<q>> BY <1>1, <2>1
  <2>4. ~Marks(q) /\ (MarksRace(p) <=> currentState' = 1) BY <2>1, <2>2 DEF Marks, MarksRace
  <2>5. CASE sent'[s] = <<q>> BY <2>2, <2>4, <2>5 DEF LastMark
  <2>6. CASE sent'[s] = <<p, q>>
    <3>1. \A i \in DOMAIN sent'[s] : i = 1 \/ i = 2 BY <2>6
    <3>2. sent'[s][1] = p /\ sent'[s][2] = q BY <2>6
    <3> QED BY <2>2, <2>4, <3>1, <3>2 DEF LastMark
  <2> QED BY <2>3, <2>5, <2>6
<1>6. CASE Announced
  <2>1. PICK p : /\ Marks(p) /\ (MarksRace(p) <=> currentState' = 1)
                 /\ sent'[s] = <<p>>
    <3>1. CASE currentState' = 0 /\ Broadcast([type |-> "GAME_OVER"])
      BY <1>3, <3>1 DEF Marks, MarksRace
    <3>2. ASSUME NEW t \in Texts, currentState' = 1,
                 Broadcast([type |-> "START", text_size |-> TextLength[t], text |-> t])
          PROVE  \E p : /\ Marks(p) /\ (MarksRace(p) <=> currentState' = 1)
                        /\ sent'[s] = <<p>>
      BY <1>3, <3>2 DEF Marks, MarksRace
    <3> QED BY <1>6, <3>1, <3>2 DEF Announced
  <2> QED BY <2>1 DEF LastMark, Unmarked
<1> QED BY <1>4, <1>5, <1>6 DEF Talked

\* Nothing is left to be told on an empty stream.
LEMMA NothingMarked == Unmarked(<<>>) /\ \A r : LastMark(<<>>, r)
BY DEF Unmarked, LastMark

\* The server keeps its clients told.
LEMMA ServerTells ==
    ASSUME SystemInv, PhasesTold, ServerStep
    PROVE  PhasesTold'
<1>1. ASSUME NEW k \in Clients, mode'[k] \in {"CONNECTING", "LOBBY", "PLAYING"}
      PROVE  /\ LastMark(down'[socket'[k]], currentState' = 1)
             /\ (mode'[k] \in {"LOBBY", "PLAYING"} /\ Unmarked(down'[socket'[k]])) =>
                  (mode'[k] = "PLAYING" <=> currentState' = 1)
  <2> DEFINE z == socket[k]
             r == currentState' = 1
  <2>1. mode' = mode /\ socket' = socket /\ Talked BY ServerMoves DEF kurai
  <2>2. /\ z \in Sockets
        /\ z \notin Open => down'[z] = <<>>
        /\ z \in Open => /\ down'[z] = down[z] \o sent'[z]
                         /\ down[z] \in Seq(Packets) /\ sent'[z] \in Seq(Packets)
    BY <1>1, <2>1, Delivered
  <2>3. /\ LastMark(down[z], currentState = 1)
        /\ (mode[k] \in {"LOBBY", "PLAYING"} /\ Unmarked(down[z])) =>
             (mode[k] = "PLAYING" <=> currentState = 1)
    BY <1>1, <2>1 DEF PhasesTold, InStep
  <2>4. CASE z \notin Open
    <3>1. mode[k] \notin {"LOBBY", "PLAYING"} BY <2>4 DEF SystemInv, Wired, InStep
    <3> QED BY <2>1, <2>2, <2>4, <3>1, NothingMarked
  <2>5. CASE z \in Open
    <3>1. LastMark(sent'[z], r) /\ (Unmarked(sent'[z]) => currentState' = currentState)
      BY <2>1, <2>5, TalkMarks
    <3>2. Unmarked(sent'[z]) => LastMark(down[z], r) BY <2>3, <3>1
    <3>3. LastMark(down'[z], r) /\ (Unmarked(down'[z]) => Unmarked(down[z]) /\ Unmarked(sent'[z]))
      <4> HIDE DEF z, r
      <4>1. r \in BOOLEAN BY DEF r
      <4> QED BY <2>2, <2>5, <3>1, <3>2, <4>1, MarksJoined
    <3> QED BY <2>1, <2>3, <3>1, <3>3
  <2> QED BY <2>4, <2>5
<1> QED BY <1>1 DEF PhasesTold, InStep

\* A client follows what it is told.
LEMMA ClientFollows ==
    ASSUME SystemInv, PhasesTold, NEW k \in Clients, ClientStep(k)
    PROVE  PhasesTold'
<1>0. currentState' = currentState BY DEF ClientStep, game
<1>1. ASSUME NEW j \in Clients, mode'[j] \in {"CONNECTING", "LOBBY", "PLAYING"}
      PROVE  /\ LastMark(down'[socket'[j]], currentState = 1)
             /\ (mode'[j] \in {"LOBBY", "PLAYING"} /\ Unmarked(down'[socket'[j]])) =>
                  (mode'[j] = "PLAYING" <=> currentState = 1)
  <2>1. CASE j # k
    <3>1. mode'[j] = mode[j] /\ socket'[j] = socket[j] /\ down'[socket[j]] = down[socket[j]]
      BY <1>1, <2>1, OthersKept
    <3> QED BY <1>1, <3>1 DEF PhasesTold, InStep
  <2>2. CASE j = k /\ Heard(k) /\ Understood(k, Head(K!Inbox(k)))
    <3> DEFINE q == down[socket[k]]
               r == currentState = 1
    <3>1. /\ mode[k] \in {"CONNECTING", "LOBBY", "PLAYING"} /\ q # <<>>
          /\ down' = [down EXCEPT ![socket[k]] = Tail(q)] /\ socket' = socket
      BY <2>2 DEF Heard, K!Inbox, K!Consume
    <3>2. socket[k] \in Sockets BY <2>2, <3>1, NextPacket DEF K!Inbox
    <3>3. q \in Seq(Packets) /\ down'[socket'[k]] = Tail(q)
      BY <3>1, <3>2 DEF SystemInv, WiresTyped
    <3>4. LastMark(q, r) /\ (mode[k] \in {"LOBBY", "PLAYING"} /\ Unmarked(q) =>
                               (mode[k] = "PLAYING" <=> r))
      BY <3>1 DEF PhasesTold, InStep
    <3>5. mode'[k] \in {"LOBBY", "PLAYING"} =>
            IF Marks(Head(q)) THEN mode'[k] = "PLAYING" <=> MarksRace(Head(q))
                              ELSE mode[k] = mode'[k]
      BY <2>2 DEF Understood, K!Inbox
    <3>6. /\ LastMark(Tail(q), r)
          /\ Unmarked(Tail(q)) /\ Marks(Head(q)) => (MarksRace(Head(q)) <=> r)
          /\ Unmarked(Tail(q)) /\ ~Marks(Head(q)) => Unmarked(q)
      <4> HIDE DEF q, r
      <4>1. r \in BOOLEAN BY DEF r
      <4> QED BY <3>1, <3>3, <3>4, <4>1, MarksLeft
    <3> HIDE DEF q
    <3> QED BY <2>2, <3>3, <3>4, <3>5, <3>6
  <2>3. CASE j = k /\ Spoke(k) BY <1>1, <2>3 DEF Spoke, PhasesTold, InStep
  <2>4. CASE j = k /\ mode'[k] = "CONNECTING" /\ down'[socket'[k]] = <<>>
    BY <2>4, NothingMarked
  <2> QED BY <1>1, <2>1, <2>2, <2>3, <2>4, OwnStep
<1> QED BY <1>0, <1>1 DEF PhasesTold, InStep

\* A client that has read all it was sent is in the mode of the server's phase
\* and knows its slot: START, GAME_OVER and the snapshot reach it in the order
\* the server changes phase.
THEOREM SystemPhasesAgree == SystemSpec => []PhasesAgree
<1>1. SystemInit => PhasesTold
  BY DEF SystemInit, K!KuraiInit, PhasesTold
<1>2. SystemInv /\ PhasesTold /\ [SystemNext]_system => PhasesTold'
  <2> SUFFICES ASSUME SystemInv, PhasesTold, [SystemNext]_system PROVE PhasesTold' OBVIOUS
  <2>1. CASE ServerStep BY <2>1, ServerTells
  <2>2. ASSUME NEW k \in Clients, ClientStep(k) PROVE PhasesTold' BY <2>2, ClientFollows
  <2>3. CASE UNCHANGED system
    BY <2>3 DEF system, vars, kurai, game, PhasesTold, InStep
  <2> QED BY <2>1, <2>2, <2>3 DEF SystemNext
<1>3. SystemInv /\ PhasesTold => PhasesAgree
  <2> SUFFICES ASSUME SystemInv, PhasesTold, NEW k \in Clients, CaughtUp(k)
               PROVE  (mode[k] = "PLAYING" <=> currentState = 1) /\ list[k][1].id = SlotOf(k)
    BY DEF PhasesAgree
  <2>1. InStep(k) /\ down[socket[k]] = <<>> BY DEF CaughtUp, InStep
  <2>2. mode[k] = "PLAYING" <=> currentState = 1
    BY <2>1, NothingMarked DEF PhasesTold, InStep
  <2>3. list[k][1].id = SlotOf(k)
    <3> DEFINE c == list[k][1].id
    <3>1. list[k] \in Seq(RowType) /\ list[k] # <<>> BY DEF SystemInv, ClientsTyped
    <3>2. list[k][1] \in RowType BY <3>1, Remaining
    <3>3. c \in Slots BY <3>2 DEF RowType
    <3>4. clients[c] = socket[k] BY <2>1 DEF SystemInv, OwnIds
    <3>5. socket[k] # NoSocket BY <2>1 DEF SystemInv, Wired, InStep
    <3>6. c \in Connected BY <3>3, <3>4, <3>5 DEF Connected
    <3>7. \A d \in Connected : clients[d] = socket[k] => d = c
      BY <3>4, <3>6 DEF SystemInv, TallyInv, SocketsDistinct
    <3> QED BY <3>4, <3>6, <3>7 DEF SlotOf
  <2> QED BY <2>2, <2>3
<1> QED BY <1>1, <1>2, <1>3, SystemInvHolds, PTL DEF SystemSpec

-----------------------------------------------------------------------------
(* Finishes *)

\* A packet of that type is under way on stream q.
Has(q, type) == \E i \in DOMAIN q : q[i].type = type

\* The finish of a client that has completed the text is counted, or on its way
\* to the server, or the end of that race is on its way back.
FinishKept ==
    \A k \in Clients : mode[k] = "PLAYING" /\ race[k].complete =>
        \/ numCompleted > 0
        \/ Has(up[socket[k]], "COMPLETED_TEXT")
        \/ Has(down[socket[k]], "GAME_OVER")

\* What is under way stays so when a stream goes on.
LEMMA HasJoined ==
    ASSUME NEW R, NEW s \in Seq(R), NEW t \in Seq(R), NEW type,
           Has(s, type) \/ Has(t, type)
    PROVE  Has(s \o t, type)
<1> DEFINE q == s \o t
<1>1. /\ DOMAIN q = 1 .. Len(s) + Len(t)
      /\ \A i \in 1 .. Len(s) : q[i] = s[i]
      /\ \A i \in 1 .. Len(t) : q[Len(s) + i] = t[i]
  BY JoinedStreams
<1>2. Len(s) \in Nat /\ Len(t) \in Nat /\ DOMAIN s = 1 .. Len(s) /\ DOMAIN t = 1 .. Len(t)
  BY LenProperties
<1> HIDE DEF q
<1>3. CASE Has(s, type)
  <2>1. PICK i \in DOMAIN s : s[i].type = type BY <1>3 DEF Has
  <2>2. i \in DOMAIN q /\ q[i] = s[i] BY <1>1, <1>2, <2>1
  <2> QED BY <2>1, <2>2 DEF Has, q
<1>4. CASE Has(t, type)
  <2>1. PICK i \in DOMAIN t : t[i].type = type BY <1>4 DEF Has
  <2>2. Len(s) + i \in DOMAIN q /\ q[Len(s) + i] = t[i] BY <1>1, <1>2, <2>1
  <2> QED BY <2>1, <2>2 DEF Has, q
<1> QED BY <1>3, <1>4

\* ... so it does when something is said, and what is said is under way.
LEMMA HasAppended ==
    ASSUME NEW R, NEW s \in Seq(R), NEW p \in R, NEW type, Has(s, type) \/ p.type = type
    PROVE  Has(Append(s, p), type)
<1> DEFINE q == Append(s, p)
<1>1. /\ DOMAIN q = 1 .. Len(s) + 1
      /\ \A i \in 1 .. Len(s) : q[i] = s[i]
      /\ q[Len(s) + 1] = p
  BY Appended
<1>2. Len(s) \in Nat /\ DOMAIN s = 1 .. Len(s) BY LenProperties
<1>3. Len(s) + 1 \in DOMAIN q /\ \A i \in DOMAIN s : i \in DOMAIN q /\ q[i] = s[i]
  BY <1>1, <1>2
<1> HIDE DEF q
<1> QED BY <1>1, <1>3 DEF Has, q

\* What is under way and not read yet is in what is left.
LEMMA HasLeft ==
    ASSUME NEW R, NEW s \in Seq(R), s # <<>>, NEW type, Has(s, type), Head(s).type # type
    PROVE  Has(Tail(s), type)
<1>1. /\ Head(s) = s[1] /\ DOMAIN s = 1 .. Len(s) /\ DOMAIN Tail(s) = 1 .. Len(s) - 1
      /\ \A i \in DOMAIN Tail(s) : Tail(s)[i] = s[i + 1]
  BY Remaining
<1>2. Len(s) \in Nat BY LenProperties
<1>3. PICK i \in DOMAIN s : s[i].type = type BY DEF Has
<1>4. i - 1 \in DOMAIN Tail(s) /\ (i - 1) + 1 = i BY <1>1, <1>2, <1>3
<1> QED BY <1>1, <1>3, <1>4 DEF Has

\* When a read returns one packet, a step of the server leaves a stream alone,
\* or reads the first packet of it; and counts it when it is a finish.
LEMMA FinishRead ==
    ASSUME SystemInv, ServerStep, MaxCoalesce = 1, NEW s \in Sockets
    PROVE  \/ up'[s] = up[s]
           \/ /\ up[s] # <<>> /\ up'[s] = Tail(up[s])
              /\ Head(up[s]).type = "COMPLETED_TEXT" => numCompleted' > 0
<1>0. up \in [Sockets -> Seq(ClientPacket)] /\ numCompleted \in Nat
  BY DEF SystemInv, WiresTyped, TallyInv, TypeOK
<1>1. CASE ServerAccepts \/ ServerTicks \/ \E c \in Slots : ServerHangsUp(c)
  BY <1>1 DEF ServerAccepts, ServerTicks, ServerHangsUp
<1>2. ASSUME NEW c \in Slots, ServerReads(c), clients[c] = s
      PROVE  /\ up[s] # <<>> /\ up'[s] = Tail(up[s])
             /\ Head(up[s]).type = "COMPLETED_TEXT" => numCompleted' > 0
  <2> DEFINE m == Head(up[s])
  <2>1. c \in Connected /\ up[s] # <<>> /\ packetRecievedCB(c, m)
    BY <1>2 DEF ServerReads
  <2>2. up' = [up EXCEPT ![s] = SubSeq(@, 2, Len(@))] BY <1>2 DEF ServerReads
  <2>3. up'[s] = Tail(up[s]) BY <1>0, <2>1, <2>2
  <2> HIDE DEF m
  <2>4. ASSUME m.type = "COMPLETED_TEXT" PROVE numCompleted' > 0
    <3>1. phCompletedText(c, m.time) BY <2>1, <2>4 DEF packetRecievedCB
    <3> QED BY <1>0, <3>1 DEF phCompletedText
  <2> QED BY <2>1, <2>3, <2>4 DEF m
<1>3. ASSUME NEW c \in Slots, ServerReads(c), clients[c] # s
      PROVE  up'[s] = up[s]
  BY <1>0, <1>3 DEF ServerReads
<1> QED BY <1>1, <1>2, <1>3 DEF ServerStep

\* A count of finishes only falls when the end of the race is announced.
LEMMA FinishesFall ==
    ASSUME SystemInv, Talked, NEW s \in Open, ~(numCompleted' >= numCompleted)
    PROVE  Has(sent'[s], "GAME_OVER")
<1>1. s \in Sockets BY SocketsHeld
<1>2. numCompleted \in Nat BY DEF SystemInv, TallyInv, TypeOK
<1>3. Broadcast([type |-> "GAME_OVER"])
  BY <1>2 DEF Talked, Relayed, Greeted, Announced
<1>4. sent'[s] = <<[type |-> "GAME_OVER"]>> BY <1>1, <1>3 DEF Broadcast
<1> QED BY <1>4 DEF Has

\* The server keeps the finishes.
LEMMA ServerKeepsFinishes ==
    ASSUME SystemInv, FinishKept, ServerStep, MaxCoalesce = 1
    PROVE  FinishKept'
<1> SUFFICES ASSUME NEW k \in Clients, mode'[k] = "PLAYING", race'[k].complete
             PROVE  \/ numCompleted' > 0
                    \/ Has(up'[socket'[k]], "COMPLETED_TEXT")
                    \/ Has(down'[socket'[k]], "GAME_OVER")
  BY DEF FinishKept
<1> DEFINE z == socket[k]
<1>1. mode' = mode /\ socket' = socket /\ race' = race /\ Talked BY ServerMoves DEF kurai
<1>2. /\ z \in Sockets /\ z \in Open
      /\ down'[z] = down[z] \o sent'[z]
      /\ down[z] \in Seq(Packets) /\ sent'[z] \in Seq(Packets)
  BY <1>1, Delivered DEF SystemInv, Wired, InStep
<1>3. numCompleted \in Nat /\ up[z] \in Seq(ClientPacket)
  BY <1>2 DEF SystemInv, TallyInv, TypeOK, WiresTyped
<1>4. CASE Has(down[z], "GAME_OVER")
  BY <1>1, <1>2, <1>4, HasJoined
<1>5. CASE numCompleted > 0
  <2>1. numCompleted' >= numCompleted => numCompleted' > 0
    <3>1. numCompleted' \in Nat BY SystemInvNext DEF SystemInv, TallyInv, TypeOK, SystemNext
    <3> QED BY <1>3, <1>5, <3>1
  <2>2. CASE ~(numCompleted' >= numCompleted)
    <3>1. Has(sent'[z], "GAME_OVER") BY <1>1, <1>2, <2>2, FinishesFall
    <3> QED BY <1>1, <1>2, <3>1, HasJoined
  <2> QED BY <2>1, <2>2
<1>6. CASE Has(up[z], "COMPLETED_TEXT")
  <2>1. CASE up'[z] = up[z] BY <1>1, <1>6, <2>1
  <2>2. CASE /\ up[z] # <<>> /\ up'[z] = Tail(up[z])
             /\ Head(up[z]).type = "COMPLETED_TEXT" => numCompleted' > 0
    <3>1. Head(up[z]).type # "COMPLETED_TEXT" => Has(Tail(up[z]), "COMPLETED_TEXT")
      BY <1>3, <1>6, <2>2, HasLeft
    <3> QED BY <1>1, <2>2, <3>1
  <2> QED BY <1>2, <2>1, <2>2, FinishRead
<1> QED BY <1>1, <1>4, <1>5, <1>6 DEF FinishKept

\* So do the clients: a finish goes out with the key that completes the text.
LEMMA ClientKeepsFinishes ==
    ASSUME SystemInv, FinishKept, NEW k \in Clients, ClientStep(k)
    PROVE  FinishKept'
<1> SUFFICES ASSUME NEW j \in Clients, mode'[j] = "PLAYING", race'[j].complete
             PROVE  \/ numCompleted' > 0
                    \/ Has(up'[socket'[j]], "COMPLETED_TEXT")
                    \/ Has(down'[socket'[j]], "GAME_OVER")
  BY DEF FinishKept
<1>0. numCompleted' = numCompleted BY DEF ClientStep, tallies
<1>1. CASE j # k
  <2>1. /\ mode'[j] = mode[j] /\ socket'[j] = socket[j] /\ race'[j] = race[j]
        /\ down'[socket[j]] = down[socket[j]] /\ up'[socket[j]] = up[socket[j]]
    BY <1>1, OthersKept
  <2> QED BY <1>0, <2>1 DEF FinishKept
<1>2. CASE j = k /\ Heard(k) /\ Understood(k, Head(K!Inbox(k)))
  <2> DEFINE q == down[socket[k]]
  <2>1. /\ q # <<>> /\ down' = [down EXCEPT ![socket[k]] = Tail(q)]
        /\ UNCHANGED <<socket, up>> /\ socket[k] \in Sockets
    BY <1>2, NextPacket DEF Heard, K!Inbox, K!Consume
  <2>2. q \in Seq(Packets) /\ down'[socket[k]] = Tail(q) BY <2>1 DEF SystemInv, WiresTyped
  <2>3. mode[k] = "PLAYING" /\ race[k].complete /\ Head(q).type # "GAME_OVER"
    BY <1>2 DEF Understood, K!Inbox
  <2>4. Has(q, "GAME_OVER") => Has(Tail(q), "GAME_OVER")
    BY <2>1, <2>2, <2>3, HasLeft
  <2> QED BY <1>0, <1>2, <2>1, <2>2, <2>3, <2>4 DEF FinishKept
<1>3. CASE /\ j = k /\ Spoke(k)
           /\ race'[k].complete /\ ~race[k].complete =>
                \E t \in Times : K!Send(k, [type |-> "COMPLETED_TEXT", time |-> t])
  <2> DEFINE z == socket[k]
  <2>1. UNCHANGED <<mode, socket, down>> /\ z \in Sockets
    BY <1>3 DEF Spoke, SystemInv, Wired, ClientsTyped, InStep
  <2>2. up[z] \in Seq(ClientPacket) BY <2>1 DEF SystemInv, WiresTyped
  <2>3. ASSUME NEW p \in ClientPacket, K!Send(k, p)
        PROVE  Has(up[z], "COMPLETED_TEXT") \/ p.type = "COMPLETED_TEXT" =>
                 Has(up'[z], "COMPLETED_TEXT")
    <3>1. up'[z] = Append(up[z], p) BY <2>1, <2>3 DEF K!Send, SystemInv, WiresTyped
    <3> QED BY <2>2, <3>1, HasAppended
  <2>4. CASE race[k].complete
    <3>1. Has(up[z], "COMPLETED_TEXT") => Has(up'[z], "COMPLETED_TEXT")
      BY <1>3, <2>3 DEF Spoke, Staying
    <3> QED BY <1>0, <1>3, <2>1, <2>4, <3>1 DEF FinishKept
  <2>5. CASE ~race[k].complete
    <3>1. PICK t \in Times : K!Send(k, [type |-> "COMPLETED_TEXT", time |-> t])
      BY <1>3, <2>5
    <3>2. [type |-> "COMPLETED_TEXT", time |-> t] \in ClientPacket BY DEF ClientPacket
    <3>3. Has(up'[z], "COMPLETED_TEXT") BY <2>3, <3>1, <3>2
    <3> QED BY <1>3, <2>1, <3>3
  <2> QED BY <2>4, <2>5
<1> QED BY <1>1, <1>2, <1>3, OwnStep

\* As long as a read returns one packet, no finish is lost: one that a client
\* has sent and the server has read counts in the race.  With more packets to a
\* read it does not hold (packetRecievedCB serves the first only).
THEOREM SystemFinishCounted ==
    ASSUME MaxCoalesce = 1
    PROVE  SystemSpec => []FinishCounted
<1>1. SystemInit => FinishKept
  BY DEF SystemInit, K!KuraiInit, FinishKept
<1>2. SystemInv /\ FinishKept /\ [SystemNext]_system => FinishKept'
  <2> SUFFICES ASSUME SystemInv, FinishKept, [SystemNext]_system PROVE FinishKept' OBVIOUS
  <2>1. CASE ServerStep BY <2>1, ServerKeepsFinishes
  <2>2. ASSUME NEW k \in Clients, ClientStep(k) PROVE FinishKept' BY <2>2, ClientKeepsFinishes
  <2>3. CASE UNCHANGED system
    BY <2>3 DEF system, vars, kurai, tallies, FinishKept
  <2> QED BY <2>1, <2>2, <2>3 DEF SystemNext
<1>3. FinishKept => FinishCounted
  BY DEF FinishKept, FinishCounted, CaughtUp, Has
<1> QED BY <1>1, <1>2, <1>3, SystemInvHolds, PTL DEF SystemSpec

-----------------------------------------------------------------------------
(* Snapshots *)

\* A snapshot counts the entries it carries: its author counts itself, and the
\* counter of the others agrees with the slots.
LEMMA TalkCounts ==
    ASSUME TallyInv, Talked
    PROVE  SnapshotCountsEntries'
<1> SUFFICES ASSUME NEW s \in Sockets, NEW i \in DOMAIN sent'[s], sent'[s][i].type = "ON_CONNECT"
             PROVE  sent'[s][i].count = Cardinality(DOMAIN sent'[s][i].players)
  BY DEF SnapshotCountsEntries, SentSnapshots
<1>1. \A p \in ServerPacket : p.type # "ON_CONNECT" BY DEF ServerPacket
<1>2. ASSUME NEW p, p.type # "ON_CONNECT", Broadcast(p) PROVE FALSE
  <2>1. sent'[s] = <<p>> \/ sent'[s] = <<>> BY <1>2 DEF Broadcast
  <2> QED BY <1>2, <2>1
<1>3. ~Relayed
  <2>1. ~Silent BY DEF Silent
  <2> QED BY <1>1, <1>2, <2>1 DEF Relayed
<1>4. ~Announced
  <2>1. ~Broadcast([type |-> "GAME_OVER"]) BY <1>2
  <2>2. \A t \in Texts :
          ~Broadcast([type |-> "START", text_size |-> TextLength[t], text |-> t])
    BY <1>2
  <2> QED BY <2>1, <2>2 DEF Announced
<1>5. PICK c \in Connected : Greeted(c) BY <1>3, <1>4 DEF Talked
<1>6. PICK p \in SnapshotPacket, q \in ServerPacket :
        /\ p.count = numPlayers + 1 /\ DOMAIN p.players = Players \cup {c}
        /\ sent' = [z \in Sockets |-> IF z = clients[c] THEN <<p, q>>
                                      ELSE IF z \in Open THEN <<q>> ELSE <<>>]
  BY <1>5 DEF Greeted
<1>7. sent'[s] = <<p, q>> \/ sent'[s] = <<q>> \/ sent'[s] = <<>> BY <1>6
<1>8. sent'[s][i] = p \/ sent'[s][i] = q
  <2>1. CASE sent'[s] = <<p, q>>
    <3>1. i = 1 \/ i = 2 BY <2>1
    <3> QED BY <2>1, <3>1
  <2>2. CASE sent'[s] = <<q>> BY <2>2
  <2>3. CASE sent'[s] = <<>> BY <2>3
  <2> QED BY <1>7, <2>1, <2>2, <2>3
<1>9. sent'[s][i] = p BY <1>1, <1>8
<1>10. Cardinality(Players \cup {c}) = Cardinality(Players) + 1
  <2>1. c \in Slots /\ c \notin Players /\ Players \in SUBSET Slots
    BY <1>5 DEF Greeted, Connected, Players
  <2> QED BY <2>1, AddCount
<1>11. numPlayers = Cardinality(Players) BY DEF TallyInv, TalliesAgree
<1> QED BY <1>6, <1>9, <1>10, <1>11

\* README, OnConnect: player_count is the number of the entries that follow
\* (phOnConnect), whatever was read or dropped before.
THEOREM RoomySnapshotCountsEntries == RoomySpec => []SnapshotCountsEntries
<1>1. Init => SnapshotCountsEntries
  BY DEF Init, SnapshotCountsEntries, SentSnapshots
<1>2. TallyInv /\ SnapshotCountsEntries /\ [RoomyNext]_vars => SnapshotCountsEntries'
  <2> SUFFICES ASSUME TallyInv, SnapshotCountsEntries, [RoomyNext]_vars
               PROVE  SnapshotCountsEntries'
    OBVIOUS
  <2>0. TypeOK BY DEF TallyInv
  <2>1. CASE RoomyNext
    <3>1. Talked
      <4>1. CASE \E s \in Sockets : Accept(s) BY <2>0, <4>1, AcceptTalks DEF Talked
      <4>2. CASE \E c \in Slots : Receive(c) BY <2>0, <4>2, ReceiveTalks DEF Receive
      <4>3. CASE \E c \in Slots : disconnectCB(c) BY <2>0, <4>3, DisconnectCBTalks DEF Talked
      <4>4. CASE Tick BY <2>0, <4>4, TickTalks
      <4> QED BY <2>1, <4>1, <4>2, <4>3, <4>4 DEF RoomyNext
    <3> QED BY <3>1, TalkCounts
  <2>2. CASE UNCHANGED vars
    BY <2>2 DEF vars, SnapshotCountsEntries, SentSnapshots
  <2> QED BY <2>1, <2>2
<1> QED BY <1>1, <1>2, RoomyTallyInv, PTL DEF RoomySpec

=============================================================================
