----------------------------- MODULE KuraiProofs -----------------------------
(***************************************************************************)
(* The clients of the composed system, for any number of clients,          *)
(* connections and slots: the types of what they hold, and what each of    *)
(* their reads makes of it.                                                *)
(***************************************************************************)
EXTENDS Sabakurai, SabaProofs, OrderProofs

(* What clients and connections hold *)

RowType == [id : Slots, name : Names, ready : BOOLEAN, spectate : BOOLEAN]
Statuses == {"SPECTATOR", "PARTAKER", "COMPLETED", "DISCONNECTED"}
RacerType == [id : Slots, name : Names, progress : Int, status : Statuses]
RaceType ==
    [status : Statuses, progress : Indices, told : Indices, complete : BOOLEAN,
     length : Lengths, victor : Int, victor_time : Int, players : Seq(RacerType)]

ClientsTyped ==
    /\ mode \in [Clients -> K!Modes]
    /\ socket \in [Clients -> Sockets \cup {NoSocket}]
    /\ list \in [Clients -> Seq(RowType) \ {<<>>}]
    /\ race \in [Clients -> RaceType \cup {K!NoRace}]
    /\ \A k \in Clients : mode[k] = "PLAYING" => race[k] \in RaceType

WiresTyped ==
    /\ up \in [Sockets -> Seq(ClientPacket)]
    /\ down \in [Sockets -> Seq(Packets)]
    /\ hungup \in SUBSET Sockets
    /\ backlog \in Seq(Sockets)

-----------------------------------------------------------------------------
(* The client's operators *)

\* find_player returns the row it looks for.
LEMMA RowFound ==
    ASSUME NEW R, NEW rows \in Seq(R), NEW id
    PROVE  /\ K!RowOf(rows, id) \in 0 .. Len(rows)
           /\ K!RowOf(rows, id) # 0 => rows[K!RowOf(rows, id)].id = id
           /\ \A i \in 1 .. Len(rows) : rows[i].id = id => K!RowOf(rows, id) \in 1 .. i
<1> DEFINE hits == {i \in 1 .. Len(rows) : rows[i].id = id}
<1>1. Len(rows) \in Nat BY LenProperties
<1>2. K!RowOf(rows, id) = IF hits # {} THEN CHOOSE x \in hits : \A y \in hits : x <= y ELSE 0
  BY DEF K!RowOf, K!SelectInSeq, K!Min
<1>3. CASE hits = {} BY <1>1, <1>2, <1>3
<1>4. CASE hits # {}
  <2>1. hits \subseteq Nat BY <1>1
  <2>2. K!RowOf(rows, id) \in hits /\ \A y \in hits : K!RowOf(rows, id) <= y
    BY <1>2, <1>4, <2>1, Least
  <2> QED BY <1>1, <2>2
<1> QED BY <1>3, <1>4

\* Reading a lobby packet keeps a list of rows with the client's own row first,
\* when a lookup finds its row and nobody else's departure is its own.
LEMMA ListAfterType ==
    ASSUME NEW rows \in Seq(RowType) \ {<<>>}, NEW packet \in Packets,
           packet.type \in K!LobbyReads,
           packet.type \in K!LobbyLooksUp => K!RowOf(rows, packet.id) # 0,
           packet.type = "DISCONNECT" => packet.id # rows[1].id
    PROVE  /\ K!ListAfter(rows, packet) \in Seq(RowType) \ {<<>>}
           /\ K!ListAfter(rows, packet)[1].id = rows[1].id
<1> DEFINE i == K!RowOf(rows, packet.id)
<1>1. Len(rows) \in Nat \ {0} BY LenProperties, EmptySeq
<1>2. \A n \in 1 .. Len(rows) : rows[n] \in RowType BY ElementOfSeq
<1>3. packet.type \in K!LobbyLooksUp => i \in 1 .. Len(rows) /\ rows[i].id = packet.id
  BY <1>1, RowFound
<1>4. ASSUME NEW n \in 1 .. Len(rows), NEW r \in RowType, r.id = rows[n].id
      PROVE  /\ [rows EXCEPT ![n] = r] \in Seq(RowType) \ {<<>>}
             /\ [rows EXCEPT ![n] = r][1].id = rows[1].id
  <2>1. /\ [rows EXCEPT ![n] = r] \in Seq(RowType)
        /\ Len([rows EXCEPT ![n] = r]) = Len(rows)
        /\ \A j \in 1 .. Len(rows) : [rows EXCEPT ![n] = r][j] = IF j = n THEN r ELSE rows[j]
    BY ExceptSeq
  <2>2. [rows EXCEPT ![n] = r] # <<>> BY <1>1, <2>1, EmptySeq
  <2> QED BY <1>1, <1>4, <2>1, <2>2
<1>5. CASE packet.type = "CONNECT"
  <2>1. packet.id \in Slots /\ packet.name \in Names BY <1>5 DEF Packets, ServerPacket, SnapshotPacket
  <2>2. K!Row(packet.id, packet.name, FALSE, FALSE) \in RowType BY <2>1 DEF K!Row, RowType
  <2>3. K!ListAfter(rows, packet) = IF packet.id = rows[1].id THEN rows
          ELSE Append(rows, K!Row(packet.id, packet.name, FALSE, FALSE))
    BY <1>5 DEF K!ListAfter
  <2> DEFINE longer == Append(rows, K!Row(packet.id, packet.name, FALSE, FALSE))
  <2>4. longer \in Seq(RowType) /\ longer # <<>> /\ longer[1] = rows[1]
    <3> DEFINE row == K!Row(packet.id, packet.name, FALSE, FALSE)
    <3>0. row \in RowType BY <2>2
    <3> HIDE DEF row
    <3>1. /\ Append(rows, row) \in Seq(RowType) /\ Append(rows, row) # <<>>
          /\ \A n \in 1 .. Len(rows) : Append(rows, row)[n] = rows[n]
      BY <3>0, Appended
    <3>2. Append(rows, row)[1] = rows[1] BY <1>1, <3>1
    <3> QED BY <3>1, <3>2 DEF row
  <2> QED BY <2>3, <2>4
<1>6. CASE packet.type = "TOGGLE_READY"
  <2>1. i \in 1 .. Len(rows) BY <1>3, <1>6 DEF K!LobbyLooksUp
  <2>2. K!ListAfter(rows, packet) = [rows EXCEPT ![i] = [rows[i] EXCEPT !.ready = ~rows[i].ready]]
    BY <1>6 DEF K!ListAfter
  <2>3. [rows[i] EXCEPT !.ready = ~rows[i].ready] \in RowType BY <1>2, <2>1 DEF RowType
  <2>4. [rows[i] EXCEPT !.ready = ~rows[i].ready].id = rows[i].id BY <1>2, <2>1 DEF RowType
  <2> QED BY <1>4, <2>1, <2>2, <2>3, <2>4
<1>7. CASE packet.type = "RELAY_SPECTATE"
  <2> DEFINE r == [rows[i] EXCEPT !.spectate = ~rows[i].spectate, !.ready = FALSE]
  <2>1. i \in 1 .. Len(rows) BY <1>3, <1>7 DEF K!LobbyLooksUp
  <2>2. K!ListAfter(rows, packet) = [rows EXCEPT ![i] = r]
    <3>1. K!ListAfter(rows, packet) =
            [rows EXCEPT ![i].spectate = ~@, ![i].ready = FALSE]
      BY <1>7 DEF K!ListAfter
    <3> QED BY <1>1, <2>1, <3>1, LenProperties
  <2>3. r \in RowType /\ r.id = rows[i].id BY <1>2, <2>1 DEF RowType
  <2> QED BY <1>4, <2>1, <2>2, <2>3
<1>8. CASE packet.type = "UPDATE_NAME"
  <2> DEFINE r == [rows[i] EXCEPT !.name = packet.name]
  <2>1. i \in 1 .. Len(rows) BY <1>3, <1>8 DEF K!LobbyLooksUp
  <2>2. packet.name \in Names BY <1>8 DEF Packets, ServerPacket, SnapshotPacket
  <2>3. K!ListAfter(rows, packet) = [rows EXCEPT ![i] = r] BY <1>8 DEF K!ListAfter
  <2>4. r \in RowType /\ r.id = rows[i].id BY <1>2, <2>1, <2>2 DEF RowType
  <2> QED BY <1>4, <2>1, <2>3, <2>4
<1>9. CASE packet.type = "DISCONNECT"
  <2>1. i \in 1 .. Len(rows) /\ rows[i].id = packet.id BY <1>3, <1>9 DEF K!LobbyLooksUp
  <2>2. i # 1 BY <1>9, <2>1
  <2>3. K!ListAfter(rows, packet) = RemoveAt(rows, i) BY <1>9 DEF K!ListAfter, K!RemoveAt, RemoveAt
  <2>4. /\ RemoveAt(rows, i) \in Seq(RowType) /\ Len(RemoveAt(rows, i)) = Len(rows) - 1
        /\ \A n \in 1 .. Len(rows) - 1 : RemoveAt(rows, i)[n] = IF n < i THEN rows[n] ELSE rows[n + 1]
    BY <2>1, RemoveAtShifts
  <2>5. 1 \in 1 .. Len(rows) - 1 /\ 1 < i BY <1>1, <2>1, <2>2
  <2>6. RemoveAt(rows, i)[1] = rows[1] BY <2>4, <2>5
  <2>7. RemoveAt(rows, i) # <<>> BY <2>4, <2>5, EmptySeq
  <2> QED BY <2>3, <2>4, <2>6, <2>7
<1>10. CASE packet.type \notin {"CONNECT", "TOGGLE_READY", "RELAY_SPECTATE", "UPDATE_NAME", "DISCONNECT"}
  <2>1. K!ListAfter(rows, packet) = rows BY <1>10 DEF K!ListAfter
  <2> QED BY <2>1
<1> QED BY <1>5, <1>6, <1>7, <1>8, <1>9, <1>10

\* Both Ascents are one.
LEMMA SameAscending == ASSUME NEW S PROVE K!Ascending(S) = Ascending(S)
BY DEF K!Ascending, K!Rank, K!Cardinality, Ascending, Rank, Cardinality

\* ... and so are both At.
LEMMA SameAt == ASSUME NEW s, NEW I PROVE K!At(s, I) = At(s, I)
<1>1. K!Cardinality(I) = Cardinality(I) BY DEF K!Cardinality, Cardinality
<1>2. K!Ascending(I) = Ascending(I) BY SameAscending
<1> QED BY <1>1, <1>2 DEF K!At, At

\* The ids of the other players of a snapshot, in a sequence.
LEMMA OthersType ==
    ASSUME NEW packet \in SnapshotPacket
    PROVE  /\ packet.id \in Slots /\ packet.in_progress \in {0, 1}
           /\ K!Others(packet) \in Seq(DOMAIN packet.players)
           /\ DOMAIN packet.players \in SUBSET Slots
           /\ \A i \in DOMAIN packet.players : packet.players[i] \in Entry
<1>1. packet.id \in Slots /\ packet.in_progress \in {0, 1}
  BY DEF SnapshotPacket
<1>2. PICK S \in SUBSET Slots : packet.players \in [S -> Entry] BY DEF SnapshotPacket
<1>3. DOMAIN packet.players = S BY <1>2
<1> DEFINE ids == S \ {packet.id}
<1>4. ids \subseteq Int BY SlotsType
<1>5. IsFiniteSet(ids) BY SlotsFinite, FS_Subset
<1>6. Ascending(ids) \in Seq(ids) BY <1>4, <1>5, AscendingLists
<1>7. Ascending(ids) \in Seq(S) BY <1>6, SeqMonotonic
<1>8. K!Others(packet) = Ascending(ids) BY <1>3, SameAscending DEF K!Others
<1> QED BY <1>1, <1>2, <1>3, <1>7, <1>8

\* A row or a racer for each element of a sequence.
LEMMA MapType ==
    ASSUME NEW S, NEW q \in Seq(S), NEW R, NEW f, DOMAIN f = DOMAIN q,
           f = [i \in DOMAIN q |-> f[i]], \A i \in DOMAIN q : f[i] \in R
    PROVE  f \in Seq(R) /\ Len(f) = Len(q)
<1>1. Len(q) \in Nat /\ DOMAIN q = 1 .. Len(q) BY LenProperties
<1>2. f \in [1 .. Len(q) -> R] BY <1>1
<1> QED BY <1>1, <1>2

\* What the lobby makes of a snapshot.
LEMMA EnterLobbyType ==
    ASSUME ClientsTyped, NEW k \in Clients, NEW packet \in SnapshotPacket, K!EnterLobby(k, packet)
    PROVE  /\ mode' = [mode EXCEPT ![k] = "LOBBY"] /\ race' = race
           /\ list' \in [Clients -> Seq(RowType) \ {<<>>}]
           /\ list'[k][1].id = packet.id
           /\ \A j \in Clients \ {k} : list'[j] = list[j]
<1> DEFINE own == <<[list[k][1] EXCEPT !.id = packet.id]>>
           kept == Tail(list[k])
           ids == K!Others(packet)
           others == [i \in DOMAIN ids |-> K!LobbyRow(packet, ids[i])]
<1>1. list[k] \in Seq(RowType) /\ list[k] # <<>> BY DEF ClientsTyped
<1>2. Len(list[k]) \in Nat \ {0} BY <1>1, EmptySeq
<1>3. list[k][1] \in RowType BY <1>1, <1>2, ElementOfSeq
<1>4. own \in Seq(RowType) /\ own[1].id = packet.id /\ Len(own) = 1
  <2>1. packet.id \in Slots BY OthersType
  <2>2. [list[k][1] EXCEPT !.id = packet.id] \in RowType BY <1>3, <2>1 DEF RowType
  <2>3. [list[k][1] EXCEPT !.id = packet.id].id = packet.id BY <1>3 DEF RowType
  <2>4. own \in Seq(RowType) BY <2>2, SingletonType
  <2> QED BY <2>3, <2>4
<1>5. kept \in Seq(RowType) BY <1>1, HeadTailProperties
<1>6. others \in Seq(RowType)
  <2>1. ids \in Seq(DOMAIN packet.players) BY OthersType
  <2>2. ASSUME NEW i \in DOMAIN ids PROVE others[i] \in RowType
    <3>1. ids[i] \in DOMAIN packet.players BY <2>1, LenProperties, ElementOfSeq
    <3>2. ids[i] \in Slots /\ packet.players[ids[i]] \in Entry BY <3>1, OthersType
    <3>3. packet.players[ids[i]].name \in Names BY <3>2 DEF Entry
    <3> QED BY <3>2, <3>3 DEF K!LobbyRow, K!Row, RowType
  <2> HIDE DEF ids
  <2> QED BY <2>1, <2>2, MapType
<1>7. list' = [list EXCEPT ![k] = own \o kept \o others] BY DEF K!EnterLobby, K!Self
<1> HIDE DEF own, kept, others, ids
<1> DEFINE before == own \o kept
<1>8. before \in Seq(RowType) /\ before[1] = own[1] /\ 1 \in 1 .. Len(before)
  <2>1. Len(kept) \in Nat BY <1>5, LenProperties
  <2>2. 1 \in 1 .. Len(own) + Len(kept) /\ 1 \in 1 .. Len(own) BY <1>4, <2>1
  <2>3. before \in Seq(RowType) /\ DOMAIN before = 1 .. Len(own) + Len(kept) /\ before[1] = own[1]
    BY <1>4, <1>5, <2>2, JoinedStreams
  <2> HIDE DEF before
  <2> QED BY <2>2, <2>3, LenProperties
<1> HIDE DEF before
<1>9. /\ before \o others \in Seq(RowType) \ {<<>>}
      /\ (before \o others)[1] = own[1]
  <2>1. /\ before \o others \in Seq(RowType)
        /\ DOMAIN (before \o others) = 1 .. Len(before) + Len(others)
        /\ (before \o others)[1] = before[1]
    BY <1>6, <1>8, JoinedStreams
  <2>2. Len(before) \in Nat /\ Len(others) \in Nat BY <1>6, <1>8, LenProperties
  <2>3. before \o others # <<>>
    <3>1. 1 \in DOMAIN (before \o others) BY <1>8, <2>1, <2>2
    <3> QED BY <3>1
  <2> QED BY <1>8, <2>1, <2>3
<1>10. list' \in [Clients -> Seq(RowType) \ {<<>>}] BY <1>7, <1>9 DEF ClientsTyped, before
<1>11. list'[k] = before \o others BY <1>7 DEF ClientsTyped, before
<1>12. \A j \in Clients \ {k} : list'[j] = list[j] BY <1>7 DEF ClientsTyped
<1>13. mode' = [mode EXCEPT ![k] = "LOBBY"] /\ race' = race BY DEF K!EnterLobby
<1> QED BY <1>4, <1>9, <1>10, <1>11, <1>12, <1>13


-----------------------------------------------------------------------------
(* The race view *)

\* Lengths and told indices are natural numbers, and keys stay among them.
LEMMA LengthsType ==
    /\ \A n \in Lengths : n \in Nat
    /\ \A n \in Indices : n \in Nat /\ n \in Int
    /\ \A t \in Times : t \in Nat /\ t \in Int /\ t \in Indices
    /\ \A c \in Slots : c \in Int
    /\ 0 \in Indices
<1>1. \A n \in Lengths : n \in Nat BY TextAssumption DEF Lengths, Texts
<1>2. Indices \subseteq Nat /\ Times \subseteq Nat BY WireAssumption
<1>3. Times \subseteq Indices BY IndexAssumption
<1>4. 0 \in Indices
  <2>1. 0 \in Lengths BY TextAssumption DEF Lengths, Texts
  <2>2. 0 .. 0 \subseteq Indices BY <2>1, IndexAssumption
  <2> QED BY <2>2
<1> QED BY <1>1, <1>2, <1>3, <1>4, SlotsType

\* What a key tells the server is an index it knows.
LEMMA KeyedType ==
    ASSUME NEW view \in RaceType
    PROVE  K!Keyed(view) \subseteq Indices
<1>1. /\ view.progress \in Indices /\ view.progress \in Nat
      /\ view.length \in Lengths /\ view.length \in Nat
  BY LengthsType DEF RaceType
<1>2. ASSUME view.progress > 0 PROVE view.progress - 1 \in Indices
  <2>1. view.progress - 1 \in 0 .. view.progress BY <1>1, <1>2
  <2> QED BY <1>1, <2>1, IndexAssumption
<1>3. ASSUME view.progress < view.length PROVE view.progress + 1 \in Indices
  <2>1. view.progress + 1 \in 0 .. view.length BY <1>1, <1>3
  <2> QED BY <1>1, <2>1, IndexAssumption
<1> QED BY <1>1, <1>2, <1>3 DEF K!Keyed

\* Other racers may change and the rest of the view stays what it is.
LEMMA PlayersUpdate ==
    ASSUME NEW view \in RaceType, NEW ps \in Seq(RacerType)
    PROVE  /\ [view EXCEPT !.players = ps] \in RaceType
           /\ [view EXCEPT !.players = ps].complete = view.complete
BY DEF RaceType

\* ... and so may one of them.
LEMMA RacerUpdate ==
    ASSUME NEW view \in RaceType, NEW i \in 1 .. Len(view.players), NEW r \in RacerType
    PROVE  /\ [view EXCEPT !.players[i] = r] \in RaceType
           /\ [view EXCEPT !.players[i] = r].complete = view.complete
<1>1. view.players \in Seq(RacerType) BY DEF RaceType
<1>2. [view.players EXCEPT ![i] = r] \in Seq(RacerType) BY <1>1, ExceptSeq
<1> QED BY <1>2, PlayersUpdate

\* A finish changes the victor at most.
LEMMA VictorType ==
    ASSUME NEW view \in RaceType, NEW packet, packet.id \in Slots, packet.time \in Times
    PROVE  /\ K!VictorAfter(view, packet) \in RaceType
           /\ K!VictorAfter(view, packet).players = view.players
           /\ K!VictorAfter(view, packet).complete = view.complete
<1>1. packet.id \in Int /\ packet.time \in Int BY LengthsType
<1> QED BY <1>1 DEF K!VictorAfter, RaceType

\* What a race packet carries.
LEMMA RaceFields ==
    ASSUME NEW packet \in Packets
    PROVE  /\ packet.type \in {"CONNECT", "UPDATE_PROGRESS", "PLAYER_COMPLETED", "DISCONNECT"} =>
                packet.id \in Slots
           /\ packet.type = "CONNECT" => packet.name \in Names
           /\ packet.type = "UPDATE_PROGRESS" => packet.progress \in Indices
           /\ packet.type = "PLAYER_COMPLETED" => packet.time \in Times
BY DEF Packets, ServerPacket, SnapshotPacket

\* A race packet keeps the view a view.
LEMMA RaceAfterType ==
    ASSUME ClientsTyped, NEW k \in Clients, race[k] \in RaceType, NEW packet \in Packets,
           packet.type \in {"CONNECT", "UPDATE_PROGRESS", "PLAYER_COMPLETED", "DISCONNECT"}
    PROVE  /\ K!RaceAfter(k, packet) \in RaceType
           /\ K!RaceAfter(k, packet).complete = race[k].complete
<1> DEFINE view == race[k]
           i == K!RacerOf(k, packet.id)
<1>1. packet.id \in Slots BY RaceFields
<1>2. view.players \in Seq(RacerType) BY DEF RaceType
<1>3. i # 0 => i \in 1 .. Len(view.players)
  <2>1. K!RowOf(view.players, packet.id) \in 0 .. Len(view.players) BY <1>2, RowFound
  <2>2. Len(view.players) \in Nat BY <1>2, LenProperties
  <2> QED BY <2>1, <2>2 DEF K!RacerOf
<1>4. i # 0 => view.players[i] \in RacerType BY <1>2, <1>3, ElementOfSeq
<1>5. CASE packet.type = "CONNECT"
  <2> DEFINE r == K!Racer(packet.id, packet.name, TRUE, 0)
  <2>1. r \in RacerType BY <1>1, <1>5, RaceFields DEF K!Racer, RacerType, Statuses
  <2>2. K!RaceAfter(k, packet) = IF packet.id = K!Self(k).id THEN view
                                 ELSE [view EXCEPT !.players = Append(@, r)]
    BY <1>5 DEF K!RaceAfter
  <2> HIDE DEF r
  <2>3. Append(view.players, r) \in Seq(RacerType) BY <1>2, <2>1, Appended
  <2> QED BY <2>2, <2>3, PlayersUpdate
<1>6. CASE packet.type = "UPDATE_PROGRESS"
  <2>1. packet.progress \in Indices /\ packet.progress \in Int
    BY <1>6, RaceFields, LengthsType
  <2>2. K!RaceAfter(k, packet) =
          IF packet.id = K!Self(k).id THEN view
          ELSE IF i = 0 THEN [view EXCEPT !.progress = packet.progress]
          ELSE [view EXCEPT !.players[i].progress = packet.progress]
    BY <1>6 DEF K!RaceAfter
  <2>3. CASE i = 0 BY <2>1, <2>2, <2>3 DEF RaceType
  <2>4. CASE i # 0
    <3>1. [view.players[i] EXCEPT !.progress = packet.progress] \in RacerType
      BY <1>4, <2>1, <2>4 DEF RacerType
    <3>2. [view EXCEPT !.players[i].progress = packet.progress] =
            [view EXCEPT !.players[i] = [view.players[i] EXCEPT !.progress = packet.progress]]
      OBVIOUS
    <3> HIDE DEF i
    <3> QED BY <1>3, <2>2, <2>4, <3>1, <3>2, RacerUpdate
  <2> QED BY <2>3, <2>4
<1>7. CASE packet.type = "PLAYER_COMPLETED"
  <2> DEFINE won == K!VictorAfter(view, packet)
             r == [view.players[i] EXCEPT !.status = "COMPLETED", !.progress = packet.time]
  <2>1. packet.time \in Times /\ packet.time \in Indices /\ packet.time \in Int
    BY <1>7, RaceFields, LengthsType
  <2>2. won \in RaceType /\ won.players = view.players /\ won.complete = view.complete
    BY <1>1, <2>1, VictorType
  <2>3. K!RaceAfter(k, packet) =
          IF i = 0 THEN [won EXCEPT !.status = "COMPLETED", !.progress = packet.time]
          ELSE [won EXCEPT !.players[i].status = "COMPLETED", !.players[i].progress = packet.time]
    BY <1>7 DEF K!RaceAfter
  <2> HIDE DEF won
  <2>4. CASE i = 0 BY <2>1, <2>2, <2>3, <2>4 DEF RaceType, Statuses
  <2>5. CASE i # 0
    <3>1. r \in RacerType BY <1>4, <2>1, <2>5 DEF RacerType, Statuses
    <3>2. [won EXCEPT !.players[i].status = "COMPLETED", !.players[i].progress = packet.time]
            = [won EXCEPT !.players[i] = r]
      <4>1. i \in 1 .. Len(view.players) /\ DOMAIN view.players = 1 .. Len(view.players)
        BY <1>2, <1>3, <2>5, LenProperties
      <4> HIDE DEF i
      <4> QED BY <2>2, <4>1 DEF RaceType, RacerType
    <3> HIDE DEF i, r
    <3> QED BY <1>3, <2>2, <2>3, <2>5, <3>1, <3>2, RacerUpdate
  <2> QED BY <2>4, <2>5
<1>8. CASE packet.type = "DISCONNECT"
  <2> DEFINE won == IF view.victor = packet.id
                      THEN [view EXCEPT !.victor = K!NoVictor, !.victor_time = K!NoVictor] ELSE view
             r == [view.players[i] EXCEPT !.status = "DISCONNECTED"]
  <2>1. won \in RaceType /\ won.players = view.players /\ won.complete = view.complete
    <3>1. K!NoVictor \in Int BY DEF K!NoVictor
    <3> QED BY <3>1 DEF RaceType
  <2>2. K!RaceAfter(k, packet) =
          IF i = 0 THEN [won EXCEPT !.status = "DISCONNECTED"]
          ELSE [won EXCEPT !.players[i].status = "DISCONNECTED"]
    BY <1>8 DEF K!RaceAfter
  <2> HIDE DEF won
  <2>3. CASE i = 0 BY <2>1, <2>2, <2>3 DEF RaceType, Statuses
  <2>4. CASE i # 0
    <3>1. r \in RacerType BY <1>4, <2>4 DEF RacerType, Statuses
    <3>2. [won EXCEPT !.players[i].status = "DISCONNECTED"] = [won EXCEPT !.players[i] = r]
      BY <2>1
    <3> HIDE DEF i, r
    <3> QED BY <1>3, <2>1, <2>2, <2>4, <3>1, <3>2, RacerUpdate
  <2> QED BY <2>3, <2>4
<1> QED BY <1>5, <1>6, <1>7, <1>8

\* So does drawing it.
LEMMA DrawnType ==
    ASSUME NEW view \in RaceType
    PROVE  K!Drawn(view) \in RaceType /\ K!Drawn(view).complete = view.complete
<1> DEFINE I == {i \in DOMAIN view.players :
                   view.players[i].status # "DISCONNECTED" \/ view.players[i].progress # 0}
<1>1. view.players \in Seq(RacerType) BY DEF RaceType
<1>2. K!Drawn(view) = [view EXCEPT !.players = At(view.players, I)] BY SameAt DEF K!Drawn
<1>3. I \subseteq DOMAIN view.players OBVIOUS
<1> HIDE DEF I
<1>4. At(view.players, I) \in Seq(RacerType) BY <1>1, <1>3, AtPicks
<1> QED BY <1>2, <1>4, PlayersUpdate

\* The race the lobby's rows enter.
LEMMA StartRaceType ==
    ASSUME ClientsTyped, NEW k \in Clients, NEW packet, packet.text_size \in Lengths,
           K!StartRace(k, packet)
    PROVE  /\ mode' = [mode EXCEPT ![k] = "PLAYING"] /\ list' = list
           /\ race' \in [Clients -> RaceType \cup {K!NoRace}]
           /\ race'[k] \in RaceType /\ ~race'[k].complete
           /\ \A j \in Clients \ {k} : race'[j] = race[j]
<1> DEFINE rows == list[k]
           ps == [i \in 1 .. Len(rows) - 1 |->
                    K!Racer(rows[i + 1].id, rows[i + 1].name, rows[i + 1].spectate, 0)]
           view == [status |-> IF K!Self(k).spectate THEN "SPECTATOR" ELSE "PARTAKER",
                    progress |-> 0, told |-> 0, complete |-> FALSE, length |-> packet.text_size,
                    victor |-> K!NoVictor, victor_time |-> K!NoVictor, players |-> ps]
<1>1. rows \in Seq(RowType) /\ rows # <<>> BY DEF ClientsTyped
<1>2. Len(rows) \in Nat \ {0} BY <1>1, EmptySeq
<1>3. ps \in Seq(RacerType)
  <2>1. ASSUME NEW i \in 1 .. Len(rows) - 1 PROVE ps[i] \in RacerType
    <3>1. i + 1 \in 1 .. Len(rows) BY <1>2
    <3>2. rows[i + 1] \in RowType BY <1>1, <3>1, ElementOfSeq
    <3> QED BY <3>2 DEF RowType, RacerType, K!Racer, Statuses
  <2>2. ps = [i \in 1 .. Len(rows) - 1 |-> ps[i]] /\ Len(rows) - 1 \in Nat BY <1>2
  <2> HIDE DEF ps
  <2> QED BY <2>1, <2>2
<1> HIDE DEF ps
<1>4. view \in RaceType
  <2>1. 0 \in Indices BY LengthsType
  <2> QED BY <1>3, <2>1 DEF RaceType, Statuses, K!NoVictor
<1>5. race' = [race EXCEPT ![k] = view] /\ mode' = [mode EXCEPT ![k] = "PLAYING"] /\ list' = list
  BY DEF K!StartRace, ps
<1>6. ~view.complete OBVIOUS
<1> HIDE DEF view
<1> QED BY <1>4, <1>5, <1>6 DEF ClientsTyped

\* The race a snapshot describes.
LEMMA EnterRaceType ==
    ASSUME ClientsTyped, NEW k \in Clients, NEW packet \in SnapshotPacket,
           packet.text_size \in Lengths, K!EnterRace(k, packet)
    PROVE  /\ mode' = [mode EXCEPT ![k] = "PLAYING"]
           /\ list' \in [Clients -> Seq(RowType) \ {<<>>}]
           /\ list'[k][1].id = packet.id
           /\ race' \in [Clients -> RaceType \cup {K!NoRace}]
           /\ race'[k] \in RaceType /\ ~race'[k].complete
           /\ \A j \in Clients \ {k} : race'[j] = race[j] /\ list'[j] = list[j]
<1> DEFINE ids == K!Others(packet)
           RacerFor(id) == K!Racer(id, packet.players[id].name, packet.players[id].spectator = 1,
                                   packet.players[id].progress)
           ps == [i \in DOMAIN ids |-> RacerFor(ids[i])]
           view == [status |-> "SPECTATOR", progress |-> 0, told |-> 0, complete |-> FALSE,
                    length |-> packet.text_size, victor |-> packet.winner % 256,
                    victor_time |-> packet.winner_time, players |-> ps]
           own == [list[k][1] EXCEPT !.id = packet.id]
<1>1. ids \in Seq(DOMAIN packet.players) BY OthersType
<1>2. ps \in Seq(RacerType)
  <2>1. ASSUME NEW i \in DOMAIN ids PROVE ps[i] \in RacerType
    <3>1. ids[i] \in DOMAIN packet.players BY <1>1, LenProperties, ElementOfSeq
    <3>2. ids[i] \in Slots /\ packet.players[ids[i]] \in Entry BY <3>1, OthersType
    <3>3. packet.players[ids[i]].name \in Names /\ packet.players[ids[i]].progress \in Int
      BY <3>2 DEF Entry
    <3> QED BY <3>2, <3>3 DEF K!Racer, RacerType, Statuses
  <2> HIDE DEF ids
  <2> QED BY <1>1, <2>1, MapType
<1> HIDE DEF ps
<1>3. view \in RaceType
  <2>1. packet.winner \in Int /\ packet.winner_time \in Int
    <3>1. packet.winner \in Slots \cup {Nobody} /\ packet.winner_time \in 0 .. MaxTime
      BY DEF SnapshotPacket
    <3>2. \A c \in Slots : c \in Int BY LengthsType
    <3> QED BY <3>1, <3>2, WireAssumption DEF Nobody
  <2>2. packet.winner % 256 \in Int BY <2>1
  <2>3. 0 \in Indices BY LengthsType
  <2> QED BY <1>2, <2>1, <2>2, <2>3 DEF RaceType, Statuses
<1>4. list[k] \in Seq(RowType) /\ list[k] # <<>> BY DEF ClientsTyped
<1>5. own \in RowType /\ own.id = packet.id
  <2>1. list[k][1] \in RowType BY <1>4, Remaining
  <2>2. packet.id \in Slots BY OthersType
  <2> QED BY <2>1, <2>2 DEF RowType
<1>6. /\ [list[k] EXCEPT ![1] = own] \in Seq(RowType) \ {<<>>}
      /\ [list[k] EXCEPT ![1] = own][1] = own
  <2>1. 1 \in 1 .. Len(list[k]) BY <1>4, Remaining
  <2>2. /\ [list[k] EXCEPT ![1] = own] \in Seq(RowType)
        /\ Len([list[k] EXCEPT ![1] = own]) = Len(list[k])
    BY <1>4, <1>5, <2>1, ExceptSeq
  <2>3. [list[k] EXCEPT ![1] = own] # <<>> BY <2>1, <2>2, EmptySeq
  <2>4. DOMAIN list[k] = 1 .. Len(list[k]) BY <1>4, LenProperties
  <2> HIDE DEF own
  <2> QED BY <2>1, <2>2, <2>3, <2>4
<1>7. /\ race' = [race EXCEPT ![k] = view] /\ mode' = [mode EXCEPT ![k] = "PLAYING"]
      /\ list' = [list EXCEPT ![k] = [list[k] EXCEPT ![1] = own]]
  BY DEF K!EnterRace, ps
<1>8. ~view.complete OBVIOUS
<1> HIDE DEF view, own
<1>9. list' \in [Clients -> Seq(RowType) \ {<<>>}] /\ list'[k] = [list[k] EXCEPT ![1] = own]
  BY <1>6, <1>7 DEF ClientsTyped
<1>10. race' \in [Clients -> RaceType \cup {K!NoRace}] /\ race'[k] = view
  BY <1>3, <1>7 DEF ClientsTyped
<1>11. \A j \in Clients \ {k} : race'[j] = race[j] /\ list'[j] = list[j]
  BY <1>7 DEF ClientsTyped
<1> QED BY <1>3, <1>5, <1>6, <1>7, <1>8, <1>9, <1>10, <1>11

\* The list a race leaves.
LEMMA EndRaceType ==
    ASSUME ClientsTyped, NEW k \in Clients, race[k] \in RaceType, K!EndRace(k)
    PROVE  /\ mode' = [mode EXCEPT ![k] = "LOBBY"]
           /\ list' \in [Clients -> Seq(RowType) \ {<<>>}]
           /\ list'[k][1].id = list[k][1].id
           /\ race' \in [Clients -> RaceType \cup {K!NoRace}]
           /\ \A j \in Clients \ {k} : race'[j] = race[j] /\ list'[j] = list[j]
<1> DEFINE left == K!Survivors(race[k])
           own == K!SelfAfter(k)
           rows == [i \in DOMAIN left |->
                      K!Row(left[i].id, left[i].name, FALSE, left[i].status = "SPECTATOR")]
           I == {i \in DOMAIN race[k].players : race[k].players[i].status # "DISCONNECTED"}
<1>1. left \in Seq(RacerType)
  <2>1. left = At(race[k].players, I) BY SameAt DEF K!Survivors
  <2>2. I \subseteq DOMAIN race[k].players OBVIOUS
  <2> HIDE DEF I, left
  <2>3. race[k].players \in Seq(RacerType) BY DEF RaceType
  <2> QED BY <2>1, <2>2, <2>3, AtPicks
<1>2. rows \in Seq(RowType)
  <2>1. ASSUME NEW i \in DOMAIN left PROVE rows[i] \in RowType
    <3>1. left[i] \in RacerType BY <1>1, LenProperties, ElementOfSeq
    <3> QED BY <3>1 DEF K!Row, RacerType, RowType
  <2> HIDE DEF left
  <2> QED BY <1>1, <2>1, MapType
<1>3. list[k] \in Seq(RowType) /\ list[k] # <<>> BY DEF ClientsTyped
<1>4. list[k][1] \in RowType BY <1>3, Remaining
<1>5. own \in RowType /\ own.id = list[k][1].id
  BY <1>4 DEF K!SelfAfter, K!Row, K!Self, RowType
<1>6. /\ race' = [race EXCEPT ![k] = K!NoRace] /\ mode' = [mode EXCEPT ![k] = "LOBBY"]
      /\ list' = [list EXCEPT ![k] = <<own>> \o rows]
  BY DEF K!EndRace
<1> HIDE DEF own, rows
<1>7. /\ <<own>> \o rows \in Seq(RowType) \ {<<>>}
      /\ (<<own>> \o rows)[1] = own
  <2>1. <<own>> \in Seq(RowType) /\ Len(<<own>>) = 1 /\ <<own>>[1] = own BY <1>5
  <2>2. Len(rows) \in Nat BY <1>2, LenProperties
  <2>3. 1 \in 1 .. Len(<<own>>) + Len(rows) /\ 1 \in 1 .. Len(<<own>>) BY <2>1, <2>2
  <2>4. /\ <<own>> \o rows \in Seq(RowType)
        /\ DOMAIN (<<own>> \o rows) = 1 .. Len(<<own>>) + Len(rows)
        /\ (<<own>> \o rows)[1] = <<own>>[1]
    BY <1>2, <2>1, <2>3, JoinedStreams
  <2>5. <<own>> \o rows # <<>> BY <2>3, <2>4
  <2> QED BY <2>1, <2>4, <2>5
<1>8. list' \in [Clients -> Seq(RowType) \ {<<>>}] /\ list'[k] = <<own>> \o rows
  BY <1>6, <1>7 DEF ClientsTyped
<1>9. race' \in [Clients -> RaceType \cup {K!NoRace}] BY <1>6 DEF ClientsTyped
<1>10. \A j \in Clients \ {k} : race'[j] = race[j] /\ list'[j] = list[j]
  BY <1>6 DEF ClientsTyped
<1> QED BY <1>5, <1>6, <1>7, <1>8, <1>9, <1>10
=============================================================================
