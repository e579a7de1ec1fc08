----------------------------- MODULE ViewProofs -----------------------------
(***************************************************************************)
(* Views: what a client knows of the others, in the lobby's list and in    *)
(* the race, and what each packet it reads makes of that.                  *)
(*                                                                         *)
(* A view is such a knowledge.  Each packet turns one view into the next.  *)
(* F is the set of the flags looked at, of "ready" and "spectate".         *)
(***************************************************************************)
EXTENDS SystemProofs

(* Views *)

\* The client's own id, whether it knows a race is on, who is in, who has left
\* during the race, their names, who is ready and who watches.
Views ==
    [self : Slots, racing : BOOLEAN, in : SUBSET Slots, gone : SUBSET Slots,
     names : [Slots -> Names \cup {NoName}], ready : SUBSET Slots, aside : SUBSET Slots]

\* The packets that look a player up, in the lobby or in the race.
LooksUp == K!LobbyLooksUp \cup {"UPDATE_PROGRESS", "PLAYER_COMPLETED"}

\* Packet p makes sense to a client with view v.
Fits(p, v) ==
    /\ p.type = "CONNECT" =>
         IF p.id = v.self THEN p.id \in v.in /\ v.names[p.id] = p.name
                          ELSE p.id \notin v.in \cup v.gone
    /\ p.type \in LooksUp => p.id \in v.in
    /\ p.type = "DISCONNECT" => p.id # v.self

\* Who is ready after packet p, and who watches: whoever comes in during a race
\* does, and a finisher takes part.
ReadyAfter(v, p) ==
    CASE p.type = "ON_CONNECT" -> {d \in DOMAIN p.players : p.players[d].progress # -1}
      [] p.type = "TOGGLE_READY" ->
           IF p.id \in v.ready THEN v.ready \ {p.id} ELSE v.ready \cup {p.id}
      [] p.type = "UPDATE_PROGRESS" -> v.ready \cup {p.id}
      [] p.type = "RELAY_SPECTATE" \/ (p.type = "CONNECT" /\ p.id # v.self) -> v.ready \ {p.id}
      [] p.type = "GAME_OVER" /\ v.racing -> {}
      [] OTHER -> v.ready

AsideAfter(v, p) ==
    CASE p.type = "ON_CONNECT" -> {d \in DOMAIN p.players : p.players[d].spectator = 1}
      [] p.type = "RELAY_SPECTATE" ->
           IF p.id \in v.aside THEN v.aside \ {p.id} ELSE v.aside \cup {p.id}
      [] p.type = "CONNECT" /\ p.id # v.self ->
           IF v.racing THEN v.aside \cup {p.id} ELSE v.aside \ {p.id}
      [] p.type = "PLAYER_COMPLETED" -> v.aside \ {p.id}
      [] OTHER -> v.aside

\* The view after packet p.
After(v, p) ==
    [self   |-> IF p.type = "ON_CONNECT" THEN p.id ELSE v.self,
     racing |-> IF Marks(p) THEN MarksRace(p) ELSE v.racing,
     in     |-> IF p.type = "ON_CONNECT" THEN DOMAIN p.players
                ELSE IF p.type = "CONNECT" THEN v.in \cup {p.id}
                ELSE IF p.type = "DISCONNECT" THEN v.in \ {p.id} ELSE v.in,
     gone   |-> IF Marks(p) THEN {}
                ELSE IF p.type = "DISCONNECT" /\ v.racing THEN v.gone \cup {p.id} ELSE v.gone,
     names  |-> [d \in Slots |->
                   IF p.type = "ON_CONNECT"
                     THEN IF d \in DOMAIN p.players THEN p.players[d].name ELSE NoName
                   ELSE IF p.type \in {"CONNECT", "UPDATE_NAME"} /\ d = p.id THEN p.name
                   ELSE v.names[d]],
     ready  |-> ReadyAfter(v, p),
     aside  |-> AsideAfter(v, p)]

\* Reading stream q takes a client from view v to view w, and every packet of it
\* makes sense when it is read.
Story(q, v, w) ==
    \E W \in [0 .. Len(q) -> Views] :
        /\ W[0] = v /\ W[Len(q)] = w
        /\ \A i \in 1 .. Len(q) : Fits(q[i], W[i - 1]) /\ W[i] = After(W[i - 1], q[i])

\* A packet turns views into views.
LEMMA AfterType ==
    ASSUME NEW p \in Packets, NEW v \in Views
    PROVE  After(v, p) \in Views
<1>1. p.type = "ON_CONNECT" => p \in SnapshotPacket BY SnapshotOnly
<1>2. p.type \in {"ON_CONNECT", "CONNECT", "DISCONNECT"} => p.id \in Slots
  BY DEF Packets, ServerPacket, SnapshotPacket
<1>3. p.type \in {"CONNECT", "UPDATE_NAME"} => p.name \in Names
  BY DEF Packets, ServerPacket, SnapshotPacket
<1>4. p.type = "ON_CONNECT" =>
        /\ DOMAIN p.players \in SUBSET Slots
        /\ \A d \in DOMAIN p.players : p.players[d].name \in Names
  BY <1>1, OthersType DEF Entry
<1>5. After(v, p).self \in Slots /\ After(v, p).racing \in BOOLEAN
  BY <1>2 DEF After, Views, MarksRace
<1>6. After(v, p).in \in SUBSET Slots /\ After(v, p).gone \in SUBSET Slots
  BY <1>2, <1>4 DEF After, Views
<1>7. After(v, p).names \in [Slots -> Names \cup {NoName}]
  BY <1>3, <1>4 DEF After, Views
<1>8. p.type \in {"CONNECT", "TOGGLE_READY", "UPDATE_PROGRESS", "RELAY_SPECTATE", "PLAYER_COMPLETED"} =>
        p.id \in Slots
  BY DEF Packets, ServerPacket, SnapshotPacket
<1>9. v.ready \subseteq Slots /\ v.aside \subseteq Slots BY DEF Views
<1>10. ReadyAfter(v, p) \in SUBSET Slots BY <1>4, <1>8, <1>9 DEF ReadyAfter
<1>11. AsideAfter(v, p) \in SUBSET Slots BY <1>4, <1>8, <1>9 DEF AsideAfter
<1> QED BY <1>5, <1>6, <1>7, <1>10, <1>11 DEF After, Views

\* Nothing to read changes no view.
LEMMA StoryEmpty ==
    ASSUME NEW v \in Views
    PROVE  Story(<<>>, v, v) /\ \A w : Story(<<>>, v, w) => w = v
<1>1. Story(<<>>, v, v)
  <2> DEFINE W == [i \in 0 .. 0 |-> v]
  <2>1. W \in [0 .. Len(<<>>) -> Views] /\ W[0] = v /\ W[Len(<<>>)] = v OBVIOUS
  <2>2. 1 .. Len(<<>>) = {} OBVIOUS
  <2> HIDE DEF W
  <2> QED BY <2>1, <2>2 DEF Story
<1>2. ASSUME NEW w, Story(<<>>, v, w) PROVE w = v
  BY <1>2 DEF Story
<1> QED BY <1>1, <1>2

\* A packet at the end of the stream continues the story.
LEMMA StoryGrows ==
    ASSUME NEW R, NEW q \in Seq(R), NEW p \in R, NEW v, NEW w, Story(q, v, w), Fits(p, w),
           After(w, p) \in Views
    PROVE  Story(q \o <<p>>, v, After(w, p))
<1> DEFINE n == Len(q)
           t == q \o <<p>>
           u == After(w, p)
<1>1. PICK W \in [0 .. n -> Views] :
        /\ W[0] = v /\ W[n] = w
        /\ \A i \in 1 .. n : Fits(q[i], W[i - 1]) /\ W[i] = After(W[i - 1], q[i])
  BY DEF Story
<1>2. n \in Nat BY LenProperties
<1>3. Len(t) = n + 1 /\ t[n + 1] = p /\ \A i \in 1 .. n : t[i] = q[i]
  <2>1. <<p>> \in Seq(R) /\ Len(<<p>>) = 1 /\ <<p>>[1] = p OBVIOUS
  <2>2. /\ t \in Seq(R) /\ DOMAIN t = 1 .. n + 1
        /\ \A i \in 1 .. n : t[i] = q[i]
        /\ \A i \in 1 .. 1 : t[n + i] = <<p>>[i]
    BY <2>1, JoinedStreams
  <2>3. DOMAIN t = 1 .. Len(t) /\ Len(t) \in Nat BY <2>2, LenProperties
  <2> HIDE DEF t
  <2>4. Len(t) = n + 1 BY <1>2, <2>2, <2>3
  <2> QED BY <2>1, <2>2, <2>4
<1> DEFINE X == [i \in 0 .. n + 1 |-> IF i = n + 1 THEN u ELSE W[i]]
<1>4. X \in [0 .. n + 1 -> Views]
  <2>1. \A i \in 0 .. n + 1 : i # n + 1 => i \in 0 .. n BY <1>2
  <2> HIDE DEF u
  <2> QED BY <2>1 DEF u
<1>5. X[0] = v /\ X[n + 1] = u
  <2>1. 0 \in 0 .. n + 1 /\ n + 1 \in 0 .. n + 1 /\ 0 # n + 1 BY <1>2
  <2> HIDE DEF u
  <2> QED BY <1>1, <2>1
<1>6. ASSUME NEW i \in 1 .. n + 1
      PROVE  Fits(t[i], X[i - 1]) /\ X[i] = After(X[i - 1], t[i])
  <2>1. i \in 0 .. n + 1 /\ i - 1 \in 0 .. n + 1 /\ i - 1 # n + 1 BY <1>2
  <2>2. X[i - 1] = W[i - 1] BY <2>1
  <2>3. CASE i = n + 1
    <3>1. X[i] = u /\ X[i - 1] = w /\ t[i] = p BY <1>1, <1>2, <1>3, <2>1, <2>2, <2>3
    <3> HIDE DEF X, t
    <3> QED BY <3>1
  <2>4. CASE i # n + 1
    <3>1. i \in 1 .. n BY <1>2, <2>4
    <3>2. X[i] = W[i] /\ t[i] = q[i] BY <1>3, <2>1, <2>4, <3>1
    <3> HIDE DEF X, t
    <3> QED BY <1>1, <2>2, <3>1, <3>2
  <2> QED BY <2>3, <2>4
<1> HIDE DEF X, t, u
<1> QED BY <1>3, <1>4, <1>5, <1>6 DEF Story, t, u

\* Reading the first packet of a stream leaves the rest of the story.
LEMMA StoryHead ==
    ASSUME NEW R, NEW q \in Seq(R), q # <<>>, NEW v, NEW w, Story(q, v, w)
    PROVE  Fits(Head(q), v) /\ After(v, Head(q)) \in Views /\ Story(Tail(q), After(v, Head(q)), w)
<1> DEFINE n == Len(q)
           t == Tail(q)
<1>1. PICK W \in [0 .. n -> Views] :
        /\ W[0] = v /\ W[n] = w
        /\ \A i \in 1 .. n : Fits(q[i], W[i - 1]) /\ W[i] = After(W[i - 1], q[i])
  BY DEF Story
<1>2. /\ n \in Nat \ {0} /\ Head(q) = q[1] /\ t \in Seq(R) /\ DOMAIN t = 1 .. n - 1
      /\ \A i \in 1 .. n - 1 : t[i] = q[i + 1]
  BY Remaining
<1>3. Len(t) = n - 1
  <2>1. DOMAIN t = 1 .. Len(t) /\ Len(t) \in Nat BY <1>2, LenProperties
  <2> HIDE DEF t
  <2> QED BY <1>2, <2>1
<1>4. Fits(Head(q), v) /\ W[1] = After(v, Head(q)) /\ W[1] \in Views
  <2>1. 1 \in 1 .. n /\ 1 - 1 = 0 /\ 1 \in 0 .. n BY <1>2
  <2> QED BY <1>1, <1>2, <2>1
<1> DEFINE X == [i \in 0 .. n - 1 |-> W[i + 1]]
<1>5. X \in [0 .. n - 1 -> Views]
  <2>1. \A i \in 0 .. n - 1 : i + 1 \in 0 .. n BY <1>2
  <2> QED BY <2>1
<1>6. X[0] = W[1] /\ X[n - 1] = w
  <2>1. 0 \in 0 .. n - 1 /\ n - 1 \in 0 .. n - 1 /\ 0 + 1 = 1 /\ n - 1 + 1 = n BY <1>2
  <2> QED BY <1>1, <2>1
<1>7. ASSUME NEW i \in 1 .. n - 1
      PROVE  Fits(t[i], X[i - 1]) /\ X[i] = After(X[i - 1], t[i])
  <2>1. /\ i \in 0 .. n - 1 /\ i - 1 \in 0 .. n - 1 /\ i - 1 + 1 = i
        /\ i + 1 \in 1 .. n /\ i + 1 - 1 = i
    BY <1>2
  <2>2. X[i - 1] = W[i] /\ X[i] = W[i + 1] /\ t[i] = q[i + 1] BY <1>2, <2>1
  <2> HIDE DEF X, t
  <2> QED BY <1>1, <2>1, <2>2
<1> HIDE DEF X, t
<1>8. Story(t, W[1], w)
  BY <1>3, <1>5, <1>6, <1>7 DEF Story
<1> QED BY <1>4, <1>8 DEF t

-----------------------------------------------------------------------------
(* The lobby's list *)

\* A row has the flags of the view.
Flagged(F, r, v) ==
    /\ "ready" \in F => (r.ready <=> r.id \in v.ready)
    /\ "spectate" \in F => (r.spectate <=> r.id \in v.aside)

\* The rows of a client in the lobby are the players of its view, each once and
\* under its name and flags, and the first is its own.
Lists(F, rows, v) ==
    /\ ~v.racing /\ rows[1].id = v.self
    /\ \A i, j \in DOMAIN rows : rows[i].id = rows[j].id => i = j
    /\ \A i \in DOMAIN rows : rows[i].id \in v.in /\ rows[i].name = v.names[rows[i].id]
    /\ \A d \in v.in : \E i \in DOMAIN rows : rows[i].id = d
    /\ \A i \in DOMAIN rows : Flagged(F, rows[i], v)

\* find_player finds whoever is in the list.
LEMMA RowListed ==
    ASSUME NEW F, NEW rows \in Seq(RowType) \ {<<>>}, NEW v \in Views, Lists(F, rows, v), NEW d \in v.in
    PROVE  K!RowOf(rows, d) \in DOMAIN rows /\ rows[K!RowOf(rows, d)].id = d
<1>1. Len(rows) \in Nat /\ DOMAIN rows = 1 .. Len(rows) BY LenProperties
<1>2. PICK i \in 1 .. Len(rows) : rows[i].id = d BY <1>1 DEF Lists
<1>3. K!RowOf(rows, d) \in 0 .. Len(rows) /\ K!RowOf(rows, d) \in 1 .. i
      /\ (K!RowOf(rows, d) # 0 => rows[K!RowOf(rows, d)].id = d)
  BY <1>2, RowFound
<1> QED BY <1>1, <1>2, <1>3

\* A row may change, except for its id, and its name as the view's.
LEMMA RowEdited ==
    ASSUME NEW F, NEW rows \in Seq(RowType) \ {<<>>}, NEW v \in Views, NEW u \in Views, Lists(F, rows, v),
           ~u.racing, u.self = v.self, u.in = v.in,
           NEW i \in DOMAIN rows, NEW r \in RowType, r.id = rows[i].id, r.name = u.names[r.id],
           \A d \in v.in : d # r.id => u.names[d] = v.names[d],
           Flagged(F, r, u), \A j \in DOMAIN rows : j # i => Flagged(F, rows[j], u)
    PROVE  Lists(F, [rows EXCEPT ![i] = r], u)
<1> DEFINE t == [rows EXCEPT ![i] = r]
<1>1. DOMAIN rows = 1 .. Len(rows) /\ Len(rows) \in Nat \ {0} BY LenProperties, EmptySeq
<1>2. DOMAIN t = DOMAIN rows /\ \A j \in DOMAIN rows : t[j] = IF j = i THEN r ELSE rows[j]
  OBVIOUS
<1> HIDE DEF t
<1>3. \A j \in DOMAIN rows : t[j].id = rows[j].id BY <1>2
<1>4. ~u.racing /\ t[1].id = u.self BY <1>1, <1>3 DEF Lists
<1>5. \A j, l \in DOMAIN t : t[j].id = t[l].id => j = l BY <1>2, <1>3 DEF Lists
<1>6. ASSUME NEW j \in DOMAIN t PROVE t[j].id \in u.in /\ t[j].name = u.names[t[j].id]
  BY <1>2, <1>3 DEF Lists
<1>7. \A d \in u.in : \E j \in DOMAIN t : t[j].id = d BY <1>2, <1>3 DEF Lists
<1>8. \A j \in DOMAIN t : Flagged(F, t[j], u) BY <1>2
<1> QED BY <1>4, <1>5, <1>6, <1>7, <1>8 DEF Lists, t

\* A newcomer gets a row of its own.
LEMMA RowAdded ==
    ASSUME NEW F, NEW rows \in Seq(RowType) \ {<<>>}, NEW v \in Views, NEW u \in Views, Lists(F, rows, v),
           NEW r \in RowType, r.id \notin v.in, ~u.racing, u.self = v.self,
           u.in = v.in \cup {r.id}, r.name = u.names[r.id],
           \A d \in v.in : u.names[d] = v.names[d],
           Flagged(F, r, u), \A i \in DOMAIN rows : Flagged(F, rows[i], u)
    PROVE  Lists(F, Append(rows, r), u)
<1> DEFINE t == Append(rows, r)
           n == Len(rows)
<1>1. DOMAIN rows = 1 .. n /\ n \in Nat \ {0} BY LenProperties, EmptySeq
<1>2. DOMAIN t = 1 .. n + 1 /\ t[n + 1] = r /\ \A i \in 1 .. n : t[i] = rows[i] BY Appended
<1> HIDE DEF t, n
<1>3. \A i \in 1 .. n + 1 : i = n + 1 \/ i \in 1 .. n BY <1>1
<1>4. 1 \in 1 .. n /\ 1 \in DOMAIN t /\ n + 1 \in DOMAIN t /\ 1 .. n \subseteq DOMAIN t
  BY <1>1, <1>2
<1>5. ASSUME NEW i \in 1 .. n PROVE t[i].id \in v.in /\ t[i].name = u.names[t[i].id]
  <2>1. rows[i].id \in v.in /\ rows[i].name = v.names[rows[i].id] BY <1>1 DEF Lists
  <2>2. t[i] = rows[i] /\ u.names[rows[i].id] = v.names[rows[i].id] BY <1>2, <2>1
  <2> QED BY <2>1, <2>2
<1>6. ~u.racing /\ t[1].id = u.self BY <1>2, <1>4 DEF Lists
<1>7. ASSUME NEW i \in DOMAIN t, NEW j \in DOMAIN t, t[i].id = t[j].id PROVE i = j
  <2>1. CASE i \in 1 .. n /\ j \in 1 .. n
    <3>1. rows[i].id = rows[j].id BY <1>2, <1>7, <2>1
    <3> QED BY <1>1, <2>1, <3>1 DEF Lists
  <2>2. CASE i = n + 1 \/ j = n + 1 BY <1>2, <1>3, <1>5, <1>7, <2>2
  <2> QED BY <1>2, <1>3, <2>1, <2>2
<1>8. \A i \in DOMAIN t : t[i].id \in u.in /\ t[i].name = u.names[t[i].id]
  BY <1>2, <1>3, <1>5
<1>9. \A d \in u.in : \E i \in DOMAIN t : t[i].id = d
  BY <1>1, <1>2, <1>4 DEF Lists
<1>10. \A i \in DOMAIN t : Flagged(F, t[i], u) BY <1>1, <1>2, <1>3
<1> QED BY <1>6, <1>7, <1>8, <1>9, <1>10 DEF Lists, t

\* Who leaves takes its row along.
LEMMA RowRemoved ==
    ASSUME NEW F, NEW rows \in Seq(RowType) \ {<<>>}, NEW v \in Views, NEW u \in Views, Lists(F, rows, v),
           NEW i \in DOMAIN rows, rows[i].id # v.self, ~u.racing, u.self = v.self,
           u.in = v.in \ {rows[i].id}, \A d \in v.in : u.names[d] = v.names[d],
           \A j \in DOMAIN rows : Flagged(F, rows[j], u)
    PROVE  Lists(F, RemoveAt(rows, i), u)
<1> DEFINE t == RemoveAt(rows, i)
           n == Len(rows)
           at(j) == IF j < i THEN j ELSE j + 1
<1>1. DOMAIN rows = 1 .. n /\ n \in Nat \ {0} BY LenProperties, EmptySeq
<1>2. i \in 1 .. n /\ i # 1 BY <1>1 DEF Lists
<1>3. /\ t \in Seq(RowType) /\ Len(t) = n - 1
      /\ \A j \in 1 .. n - 1 : t[j] = IF j < i THEN rows[j] ELSE rows[j + 1]
  BY <1>2, RemoveAtShifts
<1>4. DOMAIN t = 1 .. n - 1 BY <1>3, LenProperties
<1> HIDE DEF t, n
<1>5. ASSUME NEW j \in 1 .. n - 1 PROVE at(j) \in 1 .. n /\ at(j) # i /\ t[j] = rows[at(j)]
  BY <1>1, <1>2, <1>3
<1>6. ASSUME NEW j \in 1 .. n - 1, NEW l \in 1 .. n - 1, at(j) = at(l) PROVE j = l
  BY <1>2, <1>6
<1>7. ASSUME NEW m \in 1 .. n, m # i PROVE \E j \in 1 .. n - 1 : at(j) = m
  <2>1. CASE m < i
    <3>1. m \in 1 .. n - 1 /\ at(m) = m BY <1>1, <1>2, <2>1
    <3> QED BY <3>1
  <2>2. CASE ~(m < i)
    <3>1. m - 1 \in 1 .. n - 1 /\ at(m - 1) = m BY <1>1, <1>2, <1>7, <2>2
    <3> QED BY <3>1
  <2> QED BY <2>1, <2>2
<1>8. 1 \in 1 .. n - 1 /\ at(1) = 1 BY <1>1, <1>2
<1> HIDE DEF at
<1>9. ~u.racing /\ t[1].id = u.self BY <1>5, <1>8 DEF Lists
<1>10. \A j, l \in DOMAIN t : t[j].id = t[l].id => j = l BY <1>1, <1>4, <1>5, <1>6 DEF Lists
<1>11. ASSUME NEW j \in DOMAIN t PROVE t[j].id \in u.in /\ t[j].name = u.names[t[j].id]
  <2>1. at(j) \in DOMAIN rows /\ at(j) # i /\ t[j] = rows[at(j)] BY <1>1, <1>4, <1>5
  <2>2. rows[at(j)].id # rows[i].id BY <2>1 DEF Lists
  <2> QED BY <2>1, <2>2 DEF Lists
<1>12. ASSUME NEW d \in u.in PROVE \E j \in DOMAIN t : t[j].id = d
  <2>1. PICK m \in 1 .. n : rows[m].id = d BY <1>1 DEF Lists
  <2>2. m # i BY <2>1
  <2> QED BY <1>4, <1>5, <1>7, <2>1, <2>2
<1>13. \A j \in DOMAIN t : Flagged(F, t[j], u) BY <1>1, <1>4, <1>5
<1> QED BY <1>9, <1>10, <1>11, <1>12, <1>13 DEF Lists, t

\* What a packet other than a mark does to a view.
LEMMA AfterFields ==
    ASSUME NEW p, NEW v \in Views, ~Marks(p) \/ p.type = "GAME_OVER"
    PROVE  /\ After(v, p).self = v.self
           /\ After(v, p).racing = IF Marks(p) THEN FALSE ELSE v.racing
           /\ After(v, p).in = IF p.type = "CONNECT" THEN v.in \cup {p.id}
                               ELSE IF p.type = "DISCONNECT" THEN v.in \ {p.id} ELSE v.in
           /\ \A d \in Slots : After(v, p).names[d] =
                IF p.type \in {"CONNECT", "UPDATE_NAME"} /\ d = p.id THEN p.name ELSE v.names[d]
BY DEF After, Marks, MarksRace

\* Reading a lobby packet keeps list and view together.
LEMMA ListFollows ==
    ASSUME NEW F, NEW rows \in Seq(RowType) \ {<<>>}, NEW v \in Views, Lists(F, rows, v),
           NEW p \in Packets, p.type \in K!LobbyReads \ {"START"}, Fits(p, v)
    PROVE  Lists(F, K!ListAfter(rows, p), After(v, p))
<1> DEFINE u == After(v, p)
           i == K!RowOf(rows, p.id)
<1>1. DOMAIN rows = 1 .. Len(rows) /\ Len(rows) \in Nat \ {0} BY LenProperties, EmptySeq
<1>2. \A j \in DOMAIN rows : rows[j] \in RowType BY <1>1, ElementOfSeq
<1>3. /\ p.type = "CONNECT" => p.id \in Slots /\ p.name \in Names
      /\ p.type = "UPDATE_NAME" => p.name \in Names
  BY DEF Packets, ServerPacket, SnapshotPacket
<1>4. p.type \in K!LobbyLooksUp => i \in DOMAIN rows /\ rows[i].id = p.id /\ p.id \in v.in
  BY RowListed DEF Fits, LooksUp
<1>5. u \in Views BY AfterType
<1>6. /\ u.self = v.self /\ ~u.racing
      /\ u.in = IF p.type = "CONNECT" THEN v.in \cup {p.id}
                ELSE IF p.type = "DISCONNECT" THEN v.in \ {p.id} ELSE v.in
      /\ \A d \in v.in : u.names[d] =
           IF p.type \in {"CONNECT", "UPDATE_NAME"} /\ d = p.id THEN p.name ELSE v.names[d]
  <2>1. ~Marks(p) \/ p.type = "GAME_OVER" BY DEF Marks, K!LobbyReads
  <2>2. v.in \subseteq Slots BY DEF Views
  <2>3. ~v.racing BY DEF Lists
  <2>4. u.self = v.self /\ u.racing = IF Marks(p) THEN FALSE ELSE v.racing BY <2>1, AfterFields
  <2>5. u.in = IF p.type = "CONNECT" THEN v.in \cup {p.id}
               ELSE IF p.type = "DISCONNECT" THEN v.in \ {p.id} ELSE v.in
    BY <2>1, AfterFields
  <2>6. \A d \in Slots : u.names[d] =
          IF p.type \in {"CONNECT", "UPDATE_NAME"} /\ d = p.id THEN p.name ELSE v.names[d]
    BY <2>1 DEF After, Marks
  <2> HIDE DEF u
  <2> QED BY <2>2, <2>3, <2>4, <2>5, <2>6
<1>7. p.type = "CONNECT" => u.names[p.id] = p.name
  BY <1>3 DEF After, Marks
<1>12. u.ready = ReadyAfter(v, p) /\ u.aside = AsideAfter(v, p) BY DEF After
<1>13. ~v.racing /\ \A j \in DOMAIN rows : Flagged(F, rows[j], v) BY DEF Lists
<1>14. ASSUME NEW r, Flagged(F, r, v), r.id \in u.ready <=> r.id \in v.ready,
              r.id \in u.aside <=> r.id \in v.aside
       PROVE  Flagged(F, r, u)
  BY <1>14 DEF Flagged
<1> HIDE DEF u, i
<1>8. CASE p.type = "CONNECT"
  <2> DEFINE r == K!Row(p.id, p.name, FALSE, FALSE)
  <2>1. K!ListAfter(rows, p) = IF p.id = rows[1].id THEN rows ELSE Append(rows, r)
    BY <1>8 DEF K!ListAfter
  <2>2. r \in RowType /\ r.id = p.id /\ r.name = p.name BY <1>3, <1>8 DEF K!Row, RowType
  <2>3. rows[1].id = v.self BY DEF Lists
  <2>4. CASE p.id = v.self
    <3>1. p.id \in v.in /\ v.names[p.id] = p.name BY <1>8, <2>4 DEF Fits
    <3>2. u.in = v.in /\ \A d \in v.in : u.names[d] = v.names[d] BY <1>6, <1>8, <3>1
    <3>3. u.ready = v.ready /\ u.aside = v.aside
      BY <1>8, <1>12, <2>4 DEF ReadyAfter, AsideAfter
    <3>4. \A j \in DOMAIN rows : Flagged(F, rows[j], u) BY <1>13, <1>14, <3>3
    <3>5. Lists(F, rows, u) BY <1>6, <3>2, <3>4 DEF Lists
    <3> QED BY <2>1, <2>3, <2>4, <3>5 DEF u
  <2>5. CASE p.id # v.self
    <3>1. p.id \notin v.in BY <1>8, <2>5 DEF Fits
    <3>2. u.in = v.in \cup {r.id} /\ r.name = u.names[r.id] BY <1>6, <1>7, <1>8, <2>2
    <3>3. \A d \in v.in : u.names[d] = v.names[d] BY <1>6, <3>1
    <3>4. u.ready = v.ready \ {p.id} /\ u.aside = v.aside \ {p.id}
      BY <1>8, <1>12, <1>13, <2>5 DEF ReadyAfter, AsideAfter
    <3>5. Flagged(F, r, u) BY <3>4 DEF Flagged, K!Row
    <3>6. \A j \in DOMAIN rows : Flagged(F, rows[j], u)
      <4>1. \A j \in DOMAIN rows : rows[j].id # p.id BY <3>1 DEF Lists
      <4> QED BY <1>13, <1>14, <3>4, <4>1
    <3> HIDE DEF r
    <3>7. Lists(F, Append(rows, r), u)
      BY <1>5, <1>6, <2>2, <3>1, <3>2, <3>3, <3>5, <3>6, RowAdded
    <3> QED BY <2>1, <2>3, <2>5, <3>7 DEF u, r
  <2> QED BY <2>4, <2>5
<1>9. CASE p.type \in {"TOGGLE_READY", "RELAY_SPECTATE", "UPDATE_NAME"}
  <2> DEFINE r == CASE p.type = "TOGGLE_READY" -> [rows[i] EXCEPT !.ready = ~rows[i].ready]
                    [] p.type = "RELAY_SPECTATE" ->
                         [rows[i] EXCEPT !.spectate = ~rows[i].spectate, !.ready = FALSE]
                    [] p.type = "UPDATE_NAME" -> [rows[i] EXCEPT !.name = p.name]
  <2>1. i \in DOMAIN rows /\ rows[i].id = p.id /\ p.id \in v.in /\ rows[i] \in RowType
    BY <1>2, <1>4, <1>9 DEF K!LobbyLooksUp
  <2>2. K!ListAfter(rows, p) = [rows EXCEPT ![i] = r]
    <3>1. CASE p.type = "TOGGLE_READY" BY <2>1, <3>1 DEF K!ListAfter, i
    <3>2. CASE p.type = "RELAY_SPECTATE"
      <4>1. K!ListAfter(rows, p) = [rows EXCEPT ![i].spectate = ~@, ![i].ready = FALSE]
        BY <3>2 DEF K!ListAfter, i
      <4>2. r = [rows[i] EXCEPT !.spectate = ~rows[i].spectate, !.ready = FALSE] BY <3>2
      <4> HIDE DEF r
      <4> QED BY <1>1, <2>1, <4>1, <4>2
    <3>3. CASE p.type = "UPDATE_NAME" BY <2>1, <3>3 DEF K!ListAfter, i
    <3> QED BY <1>9, <3>1, <3>2, <3>3
  <2>3. r \in RowType /\ r.id = p.id
        /\ r.name = IF p.type = "UPDATE_NAME" THEN p.name ELSE rows[i].name
    BY <1>3, <1>9, <2>1 DEF RowType
  <2>7. Flagged(F, rows[i], v) BY <1>13, <2>1
  <2>8. Flagged(F, r, u)
    <3>1. CASE p.type = "TOGGLE_READY"
      <4>1. r.ready = ~rows[i].ready /\ r.spectate = rows[i].spectate
        BY <2>1, <3>1 DEF RowType
      <4>2. p.id \in u.ready <=> p.id \notin v.ready BY <1>12, <3>1 DEF ReadyAfter
      <4>3. u.aside = v.aside BY <1>12, <3>1 DEF AsideAfter
      <4> HIDE DEF r
      <4> QED BY <2>1, <2>3, <2>7, <4>1, <4>2, <4>3 DEF Flagged
    <3>2. CASE p.type = "RELAY_SPECTATE"
      <4>1. r.ready = FALSE /\ r.spectate = ~rows[i].spectate
        BY <2>1, <3>2 DEF RowType
      <4>2. p.id \notin u.ready BY <1>12, <3>2 DEF ReadyAfter
      <4>3. p.id \in u.aside <=> p.id \notin v.aside BY <1>12, <3>2 DEF AsideAfter
      <4> HIDE DEF r
      <4> QED BY <2>1, <2>3, <2>7, <4>1, <4>2, <4>3 DEF Flagged
    <3>3. CASE p.type = "UPDATE_NAME"
      <4>1. r.ready = rows[i].ready /\ r.spectate = rows[i].spectate
        BY <2>1, <3>3 DEF RowType
      <4>2. u.ready = v.ready /\ u.aside = v.aside
        BY <1>12, <3>3 DEF ReadyAfter, AsideAfter
      <4> HIDE DEF r
      <4> QED BY <2>1, <2>3, <2>7, <4>1, <4>2 DEF Flagged
    <3> QED BY <1>9, <3>1, <3>2, <3>3
  <2>9. ASSUME NEW j \in DOMAIN rows, j # i PROVE Flagged(F, rows[j], u)
    <3>1. rows[j].id # p.id BY <2>1, <2>9 DEF Lists
    <3>2. rows[j].id \in u.ready <=> rows[j].id \in v.ready BY <1>9, <1>12, <3>1 DEF ReadyAfter
    <3>3. rows[j].id \in u.aside <=> rows[j].id \in v.aside BY <1>9, <1>12, <3>1 DEF AsideAfter
    <3> QED BY <1>13, <1>14, <3>2, <3>3
  <2> HIDE DEF r
  <2>4. u.in = v.in /\ (\A d \in v.in : d # r.id => u.names[d] = v.names[d])
    BY <1>6, <1>9, <2>3
  <2>5. r.name = u.names[r.id]
    <3>1. rows[i].name = v.names[p.id] BY <2>1 DEF Lists
    <3> QED BY <1>6, <1>9, <2>1, <2>3, <3>1
  <2>6. Lists(F, [rows EXCEPT ![i] = r], u)
    BY <1>5, <1>6, <2>1, <2>3, <2>4, <2>5, <2>8, <2>9, RowEdited
  <2> QED BY <2>2, <2>6 DEF u
<1>10. CASE p.type = "DISCONNECT"
  <2>1. i \in DOMAIN rows /\ rows[i].id = p.id BY <1>4, <1>10 DEF K!LobbyLooksUp
  <2>2. p.id # v.self BY <1>10 DEF Fits
  <2>3. u.in = v.in \ {rows[i].id} /\ \A d \in v.in : u.names[d] = v.names[d]
    BY <1>6, <1>10, <2>1
  <2>4. K!ListAfter(rows, p) = RemoveAt(rows, i)
    BY <1>10 DEF K!ListAfter, K!RemoveAt, RemoveAt, i
  <2>5. u.ready = v.ready /\ u.aside = v.aside BY <1>10, <1>12 DEF ReadyAfter, AsideAfter
  <2>6. \A j \in DOMAIN rows : Flagged(F, rows[j], u) BY <1>13, <1>14, <2>5
  <2> QED BY <1>5, <1>6, <2>1, <2>2, <2>3, <2>4, <2>6, RowRemoved DEF u
<1>11. CASE p.type \notin {"CONNECT", "TOGGLE_READY", "RELAY_SPECTATE", "UPDATE_NAME", "DISCONNECT"}
  <2>1. K!ListAfter(rows, p) = rows BY <1>11 DEF K!ListAfter
  <2>2. u.in = v.in /\ \A d \in v.in : u.names[d] = v.names[d] BY <1>6, <1>11
  <2>3. u.ready = v.ready /\ u.aside = v.aside
    <3>1. p.type \notin {"ON_CONNECT", "UPDATE_PROGRESS", "PLAYER_COMPLETED"} BY DEF K!LobbyReads
    <3> QED BY <1>11, <1>12, <1>13, <3>1 DEF ReadyAfter, AsideAfter
  <2>4. \A j \in DOMAIN rows : Flagged(F, rows[j], u) BY <1>13, <1>14, <2>3
  <2>5. Lists(F, rows, u) BY <1>6, <2>2, <2>4 DEF Lists
  <2> QED BY <2>1, <2>5 DEF u
<1> QED BY <1>8, <1>9, <1>10, <1>11

\* A list is the client's own row and one for each of the others.
LEMMA ListBuilt ==
    ASSUME NEW F, NEW own \in RowType, NEW rest \in Seq(RowType), NEW v \in Views,
           ~v.racing, own.id = v.self, own.id \in v.in, own.name = v.names[own.id],
           \A i, j \in DOMAIN rest : rest[i].id = rest[j].id => i = j,
           \A i \in DOMAIN rest : /\ rest[i].id \in v.in \ {own.id}
                                  /\ rest[i].name = v.names[rest[i].id],
           \A d \in v.in \ {own.id} : \E i \in DOMAIN rest : rest[i].id = d,
           Flagged(F, own, v), \A i \in DOMAIN rest : Flagged(F, rest[i], v)
    PROVE  Lists(F, <<own>> \o rest, v)
<1> DEFINE t == <<own>> \o rest
           n == Len(rest)
<1>1. n \in Nat /\ DOMAIN rest = 1 .. n BY LenProperties
<1>2. DOMAIN t = 1 .. n + 1 /\ t[1] = own /\ \A i \in 1 .. n : t[1 + i] = rest[i]
  <2>1. <<own>> \in Seq(RowType) /\ Len(<<own>>) = 1 /\ <<own>>[1] = own OBVIOUS
  <2>2. /\ DOMAIN t = 1 .. 1 + n
        /\ \A i \in 1 .. 1 : t[i] = <<own>>[i]
        /\ \A i \in 1 .. n : t[1 + i] = rest[i]
    BY <2>1, JoinedStreams
  <2> HIDE DEF t
  <2> QED BY <1>1, <2>1, <2>2
<1> HIDE DEF t, n
<1>3. ASSUME NEW i \in DOMAIN t, i # 1 PROVE i - 1 \in DOMAIN rest /\ t[i] = rest[i - 1]
  <2>1. i - 1 \in 1 .. n /\ 1 + (i - 1) = i BY <1>1, <1>2, <1>3
  <2> QED BY <1>1, <1>2, <2>1
<1>4. ASSUME NEW i \in 1 .. n PROVE 1 + i \in DOMAIN t /\ 1 + i # 1 BY <1>1, <1>2
<1>5. 1 \in DOMAIN t BY <1>1, <1>2
<1>6. ASSUME NEW i \in DOMAIN t, NEW j \in DOMAIN t, t[i].id = t[j].id PROVE i = j
  <2>1. CASE i = 1 /\ j = 1 BY <2>1
  <2>2. CASE i # 1 /\ j # 1
    <3>1. i - 1 \in DOMAIN rest /\ j - 1 \in DOMAIN rest /\ rest[i - 1].id = rest[j - 1].id
      BY <1>3, <1>6, <2>2
    <3>2. i - 1 = j - 1 BY <3>1
    <3> QED BY <1>1, <1>2, <3>2
  <2>3. CASE i = 1 /\ j # 1
    <3>1. j - 1 \in DOMAIN rest /\ rest[j - 1].id = own.id BY <1>2, <1>3, <1>6, <2>3
    <3> QED BY <3>1
  <2>4. CASE i # 1 /\ j = 1
    <3>1. i - 1 \in DOMAIN rest /\ rest[i - 1].id = own.id BY <1>2, <1>3, <1>6, <2>4
    <3> QED BY <3>1
  <2> QED BY <2>1, <2>2, <2>3, <2>4
<1>7. ASSUME NEW i \in DOMAIN t PROVE t[i].id \in v.in /\ t[i].name = v.names[t[i].id]
  <2>1. CASE i = 1 BY <1>2, <2>1
  <2>2. CASE i # 1
    <3>1. i - 1 \in DOMAIN rest /\ t[i] = rest[i - 1] BY <1>3, <2>2
    <3> QED BY <3>1
  <2> QED BY <2>1, <2>2
<1>8. ASSUME NEW d \in v.in PROVE \E i \in DOMAIN t : t[i].id = d
  <2>1. CASE d = own.id BY <1>2, <1>5, <2>1
  <2>2. CASE d # own.id
    <3>1. PICK i \in 1 .. n : rest[i].id = d BY <1>1, <2>2
    <3> QED BY <1>2, <1>4, <3>1
  <2> QED BY <2>1, <2>2
<1>9. ~v.racing /\ t[1].id = v.self BY <1>2
<1>10. ASSUME NEW i \in DOMAIN t PROVE Flagged(F, t[i], v)
  <2>1. CASE i = 1 BY <1>2, <2>1
  <2>2. CASE i # 1 BY <1>3, <2>2
  <2> QED BY <2>1, <2>2
<1> QED BY <1>6, <1>7, <1>8, <1>9, <1>10 DEF Lists, t

\* The others of a snapshot, each once.
LEMMA OthersListed ==
    ASSUME NEW p \in SnapshotPacket
    PROVE  LET ids == K!Others(p)
           IN  /\ ids \in Seq(DOMAIN p.players)
               /\ \A i \in DOMAIN ids : ids[i] \in DOMAIN p.players \ {p.id}
               /\ \A i, j \in DOMAIN ids : ids[i] = ids[j] => i = j
               /\ \A d \in DOMAIN p.players \ {p.id} : \E i \in DOMAIN ids : ids[i] = d
<1> DEFINE S == DOMAIN p.players \ {p.id}
           ids == Ascending(S)
<1>1. S \subseteq Slots /\ K!Others(p) \in Seq(DOMAIN p.players) BY OthersType
<1>2. S \subseteq Int /\ IsFiniteSet(S) BY <1>1, SlotsType, SlotsFinite, FS_Subset
<1>3. K!Others(p) = ids BY SameAscending DEF K!Others
<1> HIDE DEF S
<1>4. /\ ids \in Seq(S)
      /\ \A d \in S : \E i \in DOMAIN ids : ids[i] = d
      /\ \A i, j \in DOMAIN ids : i < j => ids[i] < ids[j]
  BY <1>2, AscendingLists
<1> HIDE DEF ids
<1>5. DOMAIN ids = 1 .. Len(ids) /\ Len(ids) \in Nat BY <1>4, LenProperties
<1>6. \A i \in DOMAIN ids : ids[i] \in S BY <1>4, <1>5, ElementOfSeq
<1>7. ASSUME NEW i \in DOMAIN ids, NEW j \in DOMAIN ids, ids[i] = ids[j] PROVE i = j
  <2>1. i \in Nat /\ j \in Nat BY <1>5
  <2>2. ids[i] \in Int /\ ids[j] \in Int BY <1>2, <1>6
  <2>3. i < j => ids[i] < ids[j] BY <1>4
  <2>4. j < i => ids[j] < ids[i] BY <1>4
  <2> QED BY <1>7, <2>1, <2>2, <2>3, <2>4
<1> QED BY <1>1, <1>3, <1>4, <1>6, <1>7 DEF S

\* The view a snapshot gives.
LEMMA SnapshotView ==
    ASSUME NEW p \in SnapshotPacket, NEW v \in Views
    PROVE  /\ p.type = "ON_CONNECT" /\ After(v, p) \in Views
           /\ After(v, p).self = p.id /\ (After(v, p).racing <=> p.in_progress = 1)
           /\ After(v, p).in = DOMAIN p.players
           /\ \A d \in DOMAIN p.players : After(v, p).names[d] = p.players[d].name
           /\ After(v, p).ready = {d \in DOMAIN p.players : p.players[d].progress # -1}
           /\ After(v, p).aside = {d \in DOMAIN p.players : p.players[d].spectator = 1}
<1>1. p.type = "ON_CONNECT" BY DEF SnapshotPacket
<1>2. DOMAIN p.players \subseteq Slots BY OthersType
<1>3. After(v, p) \in Views BY AfterType DEF Packets
<1>4. /\ After(v, p).self = p.id /\ (After(v, p).racing <=> p.in_progress = 1)
      /\ After(v, p).in = DOMAIN p.players
  BY <1>1 DEF After, Marks, MarksRace
<1>5. \A d \in DOMAIN p.players : After(v, p).names[d] = p.players[d].name
  BY <1>1, <1>2 DEF After
<1>6. After(v, p).ready = ReadyAfter(v, p) /\ After(v, p).aside = AsideAfter(v, p) BY DEF After
<1>7. /\ ReadyAfter(v, p) = {d \in DOMAIN p.players : p.players[d].progress # -1}
      /\ AsideAfter(v, p) = {d \in DOMAIN p.players : p.players[d].spectator = 1}
  BY <1>1 DEF ReadyAfter, AsideAfter
<1> QED BY <1>1, <1>3, <1>4, <1>5, <1>6, <1>7

\* A client that is not greeted yet lists itself alone, with no flag set.
Alone(F, rows) == Len(rows) = 1 /\ ~rows[1].ready /\ ("spectate" \in F => ~rows[1].spectate)

\* Its own entry in the snapshot has the name it gave and the flags of a newcomer.
NamesSelf(p, n) ==
    /\ p.id \in DOMAIN p.players /\ p.players[p.id].name = n
    /\ p.players[p.id].spectator = p.in_progress
    /\ p.in_progress = 0 => p.players[p.id].progress = -1

\* The lobby's snapshot gives such a client its list.
LEMMA EnterLobbyLists ==
    ASSUME NEW F, ClientsTyped, NEW k \in Clients, NEW p \in SnapshotPacket, NEW v \in Views,
           K!EnterLobby(k, p), p.in_progress = 0, Alone(F, list[k]), NamesSelf(p, list[k][1].name)
    PROVE  Lists(F, list'[k], After(v, p))
<1> DEFINE own == [list[k][1] EXCEPT !.id = p.id]
           ids == K!Others(p)
           rest == [i \in DOMAIN ids |-> K!LobbyRow(p, ids[i])]
           u == After(v, p)
<1>1. list[k] \in Seq(RowType) /\ list[k] # <<>> BY DEF ClientsTyped
<1>0. /\ Len(list[k]) = 1 /\ ~list[k][1].ready /\ ("spectate" \in F => ~list[k][1].spectate)
      /\ p.id \in DOMAIN p.players /\ p.players[p.id].name = list[k][1].name
      /\ p.players[p.id].spectator = 0 /\ p.players[p.id].progress = -1
  BY DEF Alone, NamesSelf
<1>2. list[k][1] \in RowType /\ Tail(list[k]) = <<>>
  <2>1. Tail(list[k]) \in Seq(RowType) /\ list[k][1] \in RowType BY <1>1, Remaining
  <2>2. Len(Tail(list[k])) = 0 BY <1>0, <1>1, HeadTailProperties
  <2> QED BY <2>1, <2>2, EmptySeq
<1>3. /\ own \in RowType /\ own.id = p.id /\ own.name = list[k][1].name
      /\ own.ready = list[k][1].ready /\ own.spectate = list[k][1].spectate
  BY <1>2, OthersType DEF RowType
<1>4. /\ ids \in Seq(DOMAIN p.players)
      /\ \A i \in DOMAIN ids : ids[i] \in DOMAIN p.players \ {p.id}
      /\ \A i, j \in DOMAIN ids : ids[i] = ids[j] => i = j
      /\ \A d \in DOMAIN p.players \ {p.id} : \E i \in DOMAIN ids : ids[i] = d
  BY OthersListed
<1>5. /\ p.type = "ON_CONNECT" /\ u \in Views /\ u.self = p.id /\ ~u.racing
      /\ u.in = DOMAIN p.players
      /\ \A d \in DOMAIN p.players : u.names[d] = p.players[d].name
      /\ u.ready = {d \in DOMAIN p.players : p.players[d].progress # -1}
      /\ u.aside = {d \in DOMAIN p.players : p.players[d].spectator = 1}
  BY SnapshotView
<1>6. list'[k] = <<own>> \o <<>> \o rest
  BY <1>2 DEF K!EnterLobby, K!Self, ClientsTyped
<1> HIDE DEF ids, u
<1>7. ASSUME NEW i \in DOMAIN ids
      PROVE  /\ rest[i] \in RowType /\ rest[i].id = ids[i]
             /\ rest[i].name = p.players[ids[i]].name /\ Flagged(F, rest[i], u)
  <2>1. ids[i] \in Slots /\ p.players[ids[i]] \in Entry BY <1>4, OthersType
  <2>2. /\ p.players[ids[i]].name \in Names /\ p.players[ids[i]].progress \in {-1, 0, 1}
        /\ ids[i] \in DOMAIN p.players
    BY <1>4, <2>1 DEF Entry
  <2>3. /\ rest[i] \in RowType /\ rest[i].id = ids[i] /\ rest[i].name = p.players[ids[i]].name
        /\ rest[i].ready = (p.players[ids[i]].progress + 1 # 0)
        /\ rest[i].spectate = (p.players[ids[i]].spectator = 1)
    BY <2>1, <2>2 DEF K!LobbyRow, K!Row, RowType
  <2>4. p.players[ids[i]].progress + 1 # 0 <=> p.players[ids[i]].progress # -1 BY <2>2
  <2> HIDE DEF rest
  <2> QED BY <1>5, <2>2, <2>3, <2>4 DEF Flagged
<1>8. rest \in Seq(RowType) /\ DOMAIN rest = DOMAIN ids BY <1>4, <1>7, MapType
<1>9. <<own>> \o <<>> = <<own>>
  <2>1. <<own>> \in Seq(RowType) BY <1>3
  <2> HIDE DEF own
  <2> QED BY <2>1, ConcatEmptySeq
<1> HIDE DEF own, rest
<1>10. own.id = u.self /\ own.id \in u.in /\ own.name = u.names[own.id] /\ Flagged(F, own, u)
  BY <1>0, <1>3, <1>5 DEF Flagged
<1>11. ASSUME NEW i \in DOMAIN rest, NEW j \in DOMAIN rest, rest[i].id = rest[j].id PROVE i = j
  BY <1>4, <1>7, <1>8, <1>11
<1>12. ASSUME NEW i \in DOMAIN rest
       PROVE  rest[i].id \in u.in \ {own.id} /\ rest[i].name = u.names[rest[i].id]
  BY <1>3, <1>4, <1>5, <1>7, <1>8
<1>13. ASSUME NEW d \in u.in \ {own.id} PROVE \E i \in DOMAIN rest : rest[i].id = d
  BY <1>3, <1>4, <1>5, <1>7, <1>8
<1>14. \A i \in DOMAIN rest : Flagged(F, rest[i], u) BY <1>7, <1>8
<1>15. Lists(F, <<own>> \o rest, u)
  BY <1>3, <1>5, <1>8, <1>10, <1>11, <1>12, <1>13, <1>14, ListBuilt
<1> QED BY <1>6, <1>9, <1>15 DEF u

-----------------------------------------------------------------------------
(* The race view *)

IsGone(r) == r.status = "DISCONNECTED"

\* A racer watches when the view says so.
Sided(F, id, status, v) == "spectate" \in F => (status = "SPECTATOR" <=> id \in v.aside)

\* The racers of a client in a race are those it knows to be there and to have
\* left, each once and not itself, and everybody who is there is one of them.
Shows(F, own, racers, v) ==
    /\ v.racing /\ own.id = v.self /\ own.id \in v.in /\ own.name = v.names[own.id]
    /\ \A i, j \in DOMAIN racers : racers[i].id = racers[j].id => i = j
    /\ \A i \in DOMAIN racers :
        /\ racers[i].id # own.id
        /\ IsGone(racers[i]) => racers[i].id \in v.gone
        /\ ~IsGone(racers[i]) => /\ racers[i].id \in v.in /\ racers[i].name = v.names[racers[i].id]
                                 /\ Sided(F, racers[i].id, racers[i].status, v)
    /\ \A d \in v.in \ {own.id} : \E i \in DOMAIN racers : racers[i].id = d /\ ~IsGone(racers[i])

\* The race's snapshot gives a client its racers.
LEMMA EnterRaceShows ==
    ASSUME NEW F, ClientsTyped, NEW k \in Clients, NEW p \in SnapshotPacket, NEW v \in Views,
           K!EnterRace(k, p), p.in_progress = 1, NamesSelf(p, list[k][1].name)
    PROVE  /\ Shows(F, list'[k][1], race'[k].players, After(v, p))
           /\ Sided(F, list'[k][1].id, race'[k].status, After(v, p))
<1> DEFINE own == [list[k][1] EXCEPT !.id = p.id]
           ids == K!Others(p)
           RacerFor(id) == K!Racer(id, p.players[id].name, p.players[id].spectator = 1,
                                   p.players[id].progress)
           ps == [i \in DOMAIN ids |-> RacerFor(ids[i])]
           u == After(v, p)
<1>1. list[k] \in Seq(RowType) /\ list[k] # <<>> BY DEF ClientsTyped
<1>0. /\ p.id \in DOMAIN p.players /\ p.players[p.id].name = list[k][1].name
      /\ p.players[p.id].spectator = 1
  BY DEF NamesSelf
<1>2. list[k][1] \in RowType /\ 1 \in DOMAIN list[k] BY <1>1, Remaining
<1>3. own.id = p.id /\ own.name = list[k][1].name BY <1>2 DEF RowType
<1>4. /\ ids \in Seq(DOMAIN p.players)
      /\ \A i \in DOMAIN ids : ids[i] \in DOMAIN p.players \ {p.id}
      /\ \A i, j \in DOMAIN ids : ids[i] = ids[j] => i = j
      /\ \A d \in DOMAIN p.players \ {p.id} : \E i \in DOMAIN ids : ids[i] = d
  BY OthersListed
<1>5. /\ u.self = p.id /\ u.racing /\ u.in = DOMAIN p.players
      /\ \A d \in DOMAIN p.players : u.names[d] = p.players[d].name
      /\ u.aside = {d \in DOMAIN p.players : p.players[d].spectator = 1}
  BY SnapshotView
<1>6. list'[k][1] = own /\ race'[k].players = ps /\ race'[k].status = "SPECTATOR"
  <2>1. list' = [list EXCEPT ![k] = [list[k] EXCEPT ![1] = own]] BY DEF K!EnterRace
  <2>2. race'[k].players = ps /\ race'[k].status = "SPECTATOR" BY DEF K!EnterRace, ClientsTyped
  <2>3. list'[k] = [list[k] EXCEPT ![1] = own] BY <2>1 DEF ClientsTyped
  <2> HIDE DEF own, ps
  <2>4. list'[k][1] = own BY <1>2, <2>3
  <2> QED BY <2>2, <2>4
<1> HIDE DEF ids, u, own
<1>7. ASSUME NEW i \in DOMAIN ids
      PROVE  /\ ps[i].id = ids[i] /\ ps[i].name = p.players[ids[i]].name /\ ~IsGone(ps[i])
             /\ ps[i].status = "SPECTATOR" <=> p.players[ids[i]].spectator = 1
  BY DEF K!Racer, IsGone
<1>8. DOMAIN ps = DOMAIN ids OBVIOUS
<1> HIDE DEF ps
<1>9. u.racing /\ own.id = u.self /\ own.id \in u.in /\ own.name = u.names[own.id]
  BY <1>0, <1>3, <1>5
<1>10. ASSUME NEW i \in DOMAIN ps, NEW j \in DOMAIN ps, ps[i].id = ps[j].id PROVE i = j
  BY <1>4, <1>7, <1>8, <1>10
<1>11. ASSUME NEW i \in DOMAIN ps
       PROVE  /\ ps[i].id # own.id /\ ~IsGone(ps[i])
              /\ ps[i].id \in u.in /\ ps[i].name = u.names[ps[i].id]
              /\ Sided(F, ps[i].id, ps[i].status, u)
  BY <1>3, <1>4, <1>5, <1>7, <1>8 DEF Sided
<1>12. ASSUME NEW d \in u.in \ {own.id} PROVE \E i \in DOMAIN ps : ps[i].id = d /\ ~IsGone(ps[i])
  BY <1>3, <1>4, <1>5, <1>7, <1>8
<1>13. Shows(F, own, ps, u) BY <1>9, <1>10, <1>11, <1>12 DEF Shows
<1>14. Sided(F, own.id, "SPECTATOR", u) BY <1>0, <1>3, <1>5 DEF Sided
<1> QED BY <1>6, <1>13, <1>14 DEF u

\* At START the others on the list become the racers.
LEMMA StartRaceShows ==
    ASSUME NEW F, ClientsTyped, NEW k \in Clients, NEW p, p.type = "START", NEW v \in Views,
           Lists(F, list[k], v), K!StartRace(k, p)
    PROVE  /\ Shows(F, list'[k][1], race'[k].players, After(v, p))
           /\ Sided(F, list'[k][1].id, race'[k].status, After(v, p))
<1> DEFINE rows == list[k]
           n == Len(rows)
           ps == [i \in 1 .. n - 1 |->
                    K!Racer(rows[i + 1].id, rows[i + 1].name, rows[i + 1].spectate, 0)]
           u == After(v, p)
<1>1. rows \in Seq(RowType) /\ rows # <<>> BY DEF ClientsTyped
<1>2. DOMAIN rows = 1 .. n /\ n \in Nat \ {0} BY <1>1, Remaining
<1>3. /\ list'[k] = rows /\ race'[k].players = ps
      /\ race'[k].status = IF rows[1].spectate THEN "SPECTATOR" ELSE "PARTAKER"
  BY DEF K!StartRace, K!Self, ClientsTyped
<1>4. /\ u.self = v.self /\ u.racing /\ u.in = v.in
      /\ \A d \in Slots : u.names[d] = v.names[d]
  BY DEF After, Marks, MarksRace
<1>15. u.aside = v.aside BY DEF After, AsideAfter
<1>5. v.in \subseteq Slots BY DEF Views
<1> HIDE DEF u
<1>6. /\ rows[1].id = v.self
      /\ \A i, j \in DOMAIN rows : rows[i].id = rows[j].id => i = j
      /\ \A i \in DOMAIN rows : rows[i].id \in v.in /\ rows[i].name = v.names[rows[i].id]
      /\ \A d \in v.in : \E i \in DOMAIN rows : rows[i].id = d
      /\ \A i \in DOMAIN rows : Flagged(F, rows[i], v)
  BY DEF Lists
<1>7. ASSUME NEW i \in 1 .. n - 1
      PROVE  /\ i + 1 \in DOMAIN rows /\ i + 1 # 1
             /\ ps[i].id = rows[i + 1].id /\ ps[i].name = rows[i + 1].name /\ ~IsGone(ps[i])
             /\ ps[i].status = "SPECTATOR" <=> rows[i + 1].spectate
  <2>1. i + 1 \in 1 .. n /\ i + 1 # 1 BY <1>2
  <2> QED BY <1>2, <2>1 DEF K!Racer, IsGone
<1>8. DOMAIN ps = 1 .. n - 1 OBVIOUS
<1> HIDE DEF ps, rows, n
<1>9. 1 \in DOMAIN rows BY <1>2
<1>10. /\ u.racing /\ rows[1].id = u.self /\ rows[1].id \in u.in
       /\ rows[1].name = u.names[rows[1].id]
  BY <1>4, <1>5, <1>6, <1>9
<1>11. ASSUME NEW i \in DOMAIN ps, NEW j \in DOMAIN ps, ps[i].id = ps[j].id PROVE i = j
  <2>1. i + 1 = j + 1 BY <1>6, <1>7, <1>8, <1>11
  <2> QED BY <1>2, <1>8, <2>1
<1>12. ASSUME NEW i \in DOMAIN ps
       PROVE  /\ ps[i].id # rows[1].id /\ ~IsGone(ps[i])
              /\ ps[i].id \in u.in /\ ps[i].name = u.names[ps[i].id]
              /\ Sided(F, ps[i].id, ps[i].status, u)
  BY <1>4, <1>5, <1>6, <1>7, <1>8, <1>9, <1>15 DEF Sided, Flagged
<1>13. ASSUME NEW d \in u.in \ {rows[1].id}
       PROVE  \E i \in DOMAIN ps : ps[i].id = d /\ ~IsGone(ps[i])
  <2>1. PICK j \in DOMAIN rows : rows[j].id = d BY <1>4, <1>6
  <2>2. j - 1 \in 1 .. n - 1 /\ j - 1 + 1 = j BY <1>2, <2>1
  <2> QED BY <1>7, <1>8, <2>1, <2>2
<1>14. Shows(F, rows[1], ps, u) BY <1>10, <1>11, <1>12, <1>13 DEF Shows
<1>16. Sided(F, rows[1].id, race'[k].status, u)
  BY <1>3, <1>6, <1>9, <1>15 DEF Sided, Flagged
<1> QED BY <1>3, <1>14, <1>16 DEF u, rows

\* Racers that have left may be dropped.
LEMMA RacersPicked ==
    ASSUME NEW F, NEW own, NEW ps \in Seq(RacerType), NEW v \in Views, Shows(F, own, ps, v),
           NEW I \in SUBSET DOMAIN ps, \A i \in DOMAIN ps : ~IsGone(ps[i]) => i \in I
    PROVE  /\ At(ps, I) \in Seq(RacerType) /\ Shows(F, own, At(ps, I), v)
           /\ \A n \in DOMAIN At(ps, I) : \E i \in I : At(ps, I)[n] = ps[i]
<1> DEFINE q == At(ps, I)
<1>1. /\ q \in Seq(RacerType)
      /\ \A i \in I : \E n \in DOMAIN q : q[n] = ps[i]
      /\ \E f \in [DOMAIN q -> I] :
           /\ \A n \in DOMAIN q : q[n] = ps[f[n]]
           /\ \A m, n \in DOMAIN q : m < n => f[m] < f[n]
  BY AtPicks
<1> HIDE DEF q
<1>2. PICK f \in [DOMAIN q -> I] :
           /\ \A n \in DOMAIN q : q[n] = ps[f[n]]
           /\ \A m, n \in DOMAIN q : m < n => f[m] < f[n]
  BY <1>1
<1>3. DOMAIN q = 1 .. Len(q) /\ Len(q) \in Nat BY <1>1, LenProperties
<1>4. DOMAIN ps = 1 .. Len(ps) /\ Len(ps) \in Nat BY LenProperties
<1>5. ASSUME NEW m \in DOMAIN q, NEW n \in DOMAIN q, q[m].id = q[n].id PROVE m = n
  <2>1. f[m] \in DOMAIN ps /\ f[n] \in DOMAIN ps /\ ps[f[m]].id = ps[f[n]].id BY <1>2, <1>5
  <2>2. f[m] = f[n] BY <2>1 DEF Shows
  <2>3. m \in Nat /\ n \in Nat /\ f[m] \in Nat BY <1>3, <1>4, <2>1
  <2>4. m < n => f[m] < f[n] BY <1>2
  <2>5. n < m => f[n] < f[m] BY <1>2
  <2> QED BY <2>2, <2>3, <2>4, <2>5
<1>6. ASSUME NEW n \in DOMAIN q PROVE f[n] \in I /\ f[n] \in DOMAIN ps /\ q[n] = ps[f[n]]
  BY <1>2
<1>7. ASSUME NEW d \in v.in \ {own.id} PROVE \E n \in DOMAIN q : q[n].id = d /\ ~IsGone(q[n])
  <2>1. PICK i \in DOMAIN ps : ps[i].id = d /\ ~IsGone(ps[i]) BY DEF Shows
  <2>2. PICK n \in DOMAIN q : q[n] = ps[i] BY <1>1, <2>1
  <2> QED BY <2>1, <2>2
<1>8. ASSUME NEW n \in DOMAIN q
      PROVE  /\ q[n].id # own.id
             /\ IsGone(q[n]) => q[n].id \in v.gone
             /\ ~IsGone(q[n]) => /\ q[n].id \in v.in /\ q[n].name = v.names[q[n].id]
                                 /\ Sided(F, q[n].id, q[n].status, v)
  BY <1>6 DEF Shows
<1>9. Shows(F, own, q, v) BY <1>5, <1>7, <1>8 DEF Shows
<1> QED BY <1>1, <1>6, <1>9 DEF q

\* The list after a race is who is still there.
LEMMA EndRaceLists ==
    ASSUME NEW F, ClientsTyped, NEW k \in Clients, race[k] \in RaceType, NEW p, p.type = "GAME_OVER",
           NEW v \in Views, After(v, p) \in Views, Shows(F, list[k][1], race[k].players, v),
           Sided(F, list[k][1].id, race[k].status, v),
           K!EndRace(k)
    PROVE  Lists(F, list'[k], After(v, p))
<1> DEFINE I == {i \in DOMAIN race[k].players : race[k].players[i].status # "DISCONNECTED"}
           left == At(race[k].players, I)
           own == K!SelfAfter(k)
           rest == [i \in DOMAIN left |->
                      K!Row(left[i].id, left[i].name, FALSE, left[i].status = "SPECTATOR")]
           u == After(v, p)
<1>1. list[k] \in Seq(RowType) /\ list[k] # <<>> /\ race[k].players \in Seq(RacerType)
  BY DEF ClientsTyped, RaceType
<1>2. /\ own \in RowType /\ own.id = list[k][1].id /\ own.name = list[k][1].name
      /\ own.ready = FALSE /\ own.spectate = (race[k].status = "SPECTATOR")
  <2>1. list[k][1] \in RowType BY <1>1, Remaining
  <2> QED BY <2>1 DEF K!SelfAfter, K!Row, K!Self, RowType
<1>3. list'[k] = <<own>> \o rest
  <2>1. K!Survivors(race[k]) = left BY SameAt DEF K!Survivors
  <2>2. list' = [list EXCEPT ![k] = <<own>> \o rest] BY <2>1 DEF K!EndRace
  <2> HIDE DEF own, rest
  <2> QED BY <2>2 DEF ClientsTyped
<1>4. \A i \in DOMAIN race[k].players : ~IsGone(race[k].players[i]) => i \in I BY DEF IsGone
<1>5. I \subseteq DOMAIN race[k].players /\ \A i \in I : ~IsGone(race[k].players[i]) BY DEF IsGone
<1> HIDE DEF I
<1>6. /\ left \in Seq(RacerType) /\ Shows(F, list[k][1], left, v)
      /\ \A n \in DOMAIN left : \E i \in I : left[n] = race[k].players[i]
  <2> DEFINE ps == race[k].players
             me == list[k][1]
  <2>1. /\ ps \in Seq(RacerType) /\ Shows(F, me, ps, v) /\ I \in SUBSET DOMAIN ps
        /\ \A i \in DOMAIN ps : ~IsGone(ps[i]) => i \in I
    BY <1>1, <1>4, <1>5
  <2> HIDE DEF ps, me
  <2>2. /\ At(ps, I) \in Seq(RacerType) /\ Shows(F, me, At(ps, I), v)
        /\ \A n \in DOMAIN At(ps, I) : \E i \in I : At(ps, I)[n] = ps[i]
    BY <2>1, RacersPicked
  <2> QED BY <2>2 DEF ps, me
<1>7. \A n \in DOMAIN left : ~IsGone(left[n]) BY <1>5, <1>6
<1> HIDE DEF left, own
<1>8. ASSUME NEW i \in DOMAIN left
      PROVE  /\ rest[i] \in RowType /\ rest[i].id = left[i].id /\ rest[i].name = left[i].name
             /\ rest[i].ready = FALSE /\ rest[i].spectate = (left[i].status = "SPECTATOR")
  <2>1. left[i] \in RacerType BY <1>6, LenProperties, ElementOfSeq
  <2> QED BY <2>1 DEF K!Row, RacerType, RowType
<1>9. rest \in Seq(RowType) /\ DOMAIN rest = DOMAIN left BY <1>6, <1>8, MapType
<1> HIDE DEF rest
<1>10. /\ u \in Views /\ u.self = v.self /\ ~u.racing /\ u.in = v.in
       /\ \A d \in Slots : u.names[d] = v.names[d]
  BY DEF After, Marks, MarksRace
<1>11. v.in \subseteq Slots BY DEF Views
<1>17. u.ready = {} /\ u.aside = v.aside
  <2>1. v.racing BY DEF Shows
  <2>2. u.ready = ReadyAfter(v, p) /\ u.aside = AsideAfter(v, p) BY DEF After
  <2> QED BY <2>1, <2>2 DEF ReadyAfter, AsideAfter
<1> HIDE DEF u
<1>12. own.id = u.self /\ own.id \in u.in /\ own.name = u.names[own.id]
  BY <1>2, <1>6, <1>10, <1>11 DEF Shows
<1>18. Flagged(F, own, u) BY <1>2, <1>17 DEF Flagged, Sided
<1>13. ASSUME NEW i \in DOMAIN rest, NEW j \in DOMAIN rest, rest[i].id = rest[j].id PROVE i = j
  <2>1. i \in DOMAIN left /\ j \in DOMAIN left /\ left[i].id = left[j].id BY <1>8, <1>9, <1>13
  <2>2. \A a, b \in DOMAIN left : left[a].id = left[b].id => a = b BY <1>6 DEF Shows
  <2> QED BY <2>1, <2>2
<1>14. ASSUME NEW i \in DOMAIN rest
       PROVE  /\ rest[i].id \in u.in \ {own.id} /\ rest[i].name = u.names[rest[i].id]
              /\ Flagged(F, rest[i], u)
  <2>1. /\ left[i].id # own.id /\ left[i].id \in v.in /\ left[i].name = v.names[left[i].id]
        /\ Sided(F, left[i].id, left[i].status, v)
    BY <1>2, <1>6, <1>7, <1>9 DEF Shows
  <2>2. Flagged(F, rest[i], u) BY <1>8, <1>9, <1>17, <2>1 DEF Flagged, Sided
  <2> QED BY <1>8, <1>9, <1>10, <1>11, <2>1, <2>2
<1>15. ASSUME NEW d \in u.in \ {own.id} PROVE \E i \in DOMAIN rest : rest[i].id = d
  <2>1. \E i \in DOMAIN left : left[i].id = d BY <1>2, <1>6, <1>10 DEF Shows
  <2> QED BY <1>8, <1>9, <2>1
<1>16. Lists(F, <<own>> \o rest, u)
  BY <1>2, <1>9, <1>10, <1>12, <1>13, <1>14, <1>15, <1>18, ListBuilt
<1> QED BY <1>3, <1>16 DEF u

\* A racer may change, but for who it is and whether it has left.
LEMMA RacerEdited ==
    ASSUME NEW F, NEW own, NEW ps \in Seq(RacerType), NEW v \in Views, Shows(F, own, ps, v),
           NEW i \in DOMAIN ps, NEW r \in RacerType,
           r.id = ps[i].id, r.name = ps[i].name, IsGone(r) <=> IsGone(ps[i]),
           NEW u, u.racing, u.self = v.self, u.in = v.in, u.gone = v.gone,
           \A d \in v.in : u.names[d] = v.names[d],
           IsGone(ps[i]) \/ Sided(F, r.id, r.status, u),
           \A j \in DOMAIN ps : j # i /\ ~IsGone(ps[j]) => Sided(F, ps[j].id, ps[j].status, u)
    PROVE  Shows(F, own, [ps EXCEPT ![i] = r], u)
<1> DEFINE t == [ps EXCEPT ![i] = r]
<1>1. DOMAIN t = DOMAIN ps /\ \A j \in DOMAIN ps : t[j] = IF j = i THEN r ELSE ps[j]
  OBVIOUS
<1> HIDE DEF t
<1>2. \A j \in DOMAIN ps :
        t[j].id = ps[j].id /\ t[j].name = ps[j].name /\ (IsGone(t[j]) <=> IsGone(ps[j]))
  BY <1>1
<1>3. \A j, l \in DOMAIN t : t[j].id = t[l].id => j = l BY <1>1, <1>2 DEF Shows
<1>4. ASSUME NEW j \in DOMAIN t
      PROVE  /\ t[j].id # own.id
             /\ IsGone(t[j]) => t[j].id \in u.gone
             /\ ~IsGone(t[j]) => /\ t[j].id \in u.in /\ t[j].name = u.names[t[j].id]
                                 /\ Sided(F, t[j].id, t[j].status, u)
  <2>1. CASE j = i BY <1>1, <2>1 DEF Shows
  <2>2. CASE j # i BY <1>1, <2>2 DEF Shows
  <2> QED BY <2>1, <2>2
<1>5. ASSUME NEW d \in v.in \ {own.id} PROVE \E j \in DOMAIN t : t[j].id = d /\ ~IsGone(t[j])
  BY <1>1, <1>2 DEF Shows
<1>6. u.racing /\ own.id = u.self /\ own.id \in u.in /\ own.name = u.names[own.id]
  BY DEF Shows
<1> QED BY <1>3, <1>4, <1>5, <1>6 DEF Shows, t

\* Who leaves during the race stays on view, as one who has left.
LEMMA RacerLeft ==
    ASSUME NEW F, NEW own, NEW ps \in Seq(RacerType), NEW v \in Views, NEW u \in Views,
           Shows(F, own, ps, v), NEW i \in DOMAIN ps, NEW r \in RacerType,
           r.id = ps[i].id, IsGone(r), u.racing, u.self = v.self,
           u.in = v.in \ {r.id}, u.gone = v.gone \cup {r.id},
           \A d \in v.in : u.names[d] = v.names[d],
           \A j \in DOMAIN ps : ~IsGone(ps[j]) => Sided(F, ps[j].id, ps[j].status, u)
    PROVE  Shows(F, own, [ps EXCEPT ![i] = r], u)
<1> DEFINE t == [ps EXCEPT ![i] = r]
<1>1. DOMAIN t = DOMAIN ps /\ \A j \in DOMAIN ps : t[j] = IF j = i THEN r ELSE ps[j]
  OBVIOUS
<1> HIDE DEF t
<1>2. \A j \in DOMAIN ps : t[j].id = ps[j].id BY <1>1
<1>3. \A j, l \in DOMAIN t : t[j].id = t[l].id => j = l BY <1>1, <1>2 DEF Shows
<1>4. r.id # own.id BY DEF Shows
<1>5. ASSUME NEW j \in DOMAIN t
      PROVE  /\ t[j].id # own.id
             /\ IsGone(t[j]) => t[j].id \in u.gone
             /\ ~IsGone(t[j]) => /\ t[j].id \in u.in /\ t[j].name = u.names[t[j].id]
                                 /\ Sided(F, t[j].id, t[j].status, u)
  <2>1. CASE j = i BY <1>1, <1>4, <2>1
  <2>2. CASE j # i
    <3>1. t[j] = ps[j] /\ ps[j].id # r.id BY <1>1, <2>2 DEF Shows
    <3> QED BY <1>1, <3>1 DEF Shows
  <2> QED BY <2>1, <2>2
<1>6. ASSUME NEW d \in u.in \ {own.id} PROVE \E j \in DOMAIN t : t[j].id = d /\ ~IsGone(t[j])
  <2>1. PICK j \in DOMAIN ps : ps[j].id = d /\ ~IsGone(ps[j]) BY DEF Shows
  <2>2. j # i BY <2>1
  <2> QED BY <1>1, <2>1, <2>2
<1>7. u.racing /\ own.id = u.self /\ own.id \in u.in /\ own.name = u.names[own.id]
  BY <1>4 DEF Shows
<1> QED BY <1>3, <1>5, <1>6, <1>7 DEF Shows, t

\* Who comes in during the race is added to it.
LEMMA RacerAdded ==
    ASSUME NEW F, NEW own, NEW ps \in Seq(RacerType), NEW v \in Views, NEW u \in Views,
           Shows(F, own, ps, v), NEW r \in RacerType, ~IsGone(r), r.id \notin v.in \cup v.gone,
           u.racing, u.self = v.self, u.in = v.in \cup {r.id}, u.gone = v.gone,
           r.name = u.names[r.id], \A d \in v.in : u.names[d] = v.names[d],
           Sided(F, r.id, r.status, u),
           \A j \in DOMAIN ps : ~IsGone(ps[j]) => Sided(F, ps[j].id, ps[j].status, u)
    PROVE  Shows(F, own, Append(ps, r), u)
<1> DEFINE t == Append(ps, r)
           n == Len(ps)
<1>1. DOMAIN ps = 1 .. n /\ n \in Nat BY LenProperties
<1>2. DOMAIN t = 1 .. n + 1 /\ t[n + 1] = r /\ \A i \in 1 .. n : t[i] = ps[i] BY Appended
<1> HIDE DEF t, n
<1>3. \A i \in DOMAIN t : i = n + 1 \/ i \in DOMAIN ps BY <1>1, <1>2
<1>4. n + 1 \in DOMAIN t /\ \A i \in DOMAIN ps : i \in DOMAIN t /\ t[i] = ps[i]
  BY <1>1, <1>2
<1>5. \A i \in DOMAIN ps : ps[i].id # r.id BY DEF Shows
<1>6. ASSUME NEW i \in DOMAIN t, NEW j \in DOMAIN t, t[i].id = t[j].id PROVE i = j
  <2>1. CASE i \in DOMAIN ps /\ j \in DOMAIN ps
    <3>1. ps[i].id = ps[j].id BY <1>4, <1>6, <2>1
    <3> QED BY <2>1, <3>1 DEF Shows
  <2>2. CASE i = n + 1 \/ j = n + 1 BY <1>2, <1>3, <1>4, <1>5, <1>6, <2>2
  <2> QED BY <1>3, <2>1, <2>2
<1>7. r.id # own.id BY DEF Shows
<1>8. ASSUME NEW i \in DOMAIN t
      PROVE  /\ t[i].id # own.id
             /\ IsGone(t[i]) => t[i].id \in u.gone
             /\ ~IsGone(t[i]) => /\ t[i].id \in u.in /\ t[i].name = u.names[t[i].id]
                                 /\ Sided(F, t[i].id, t[i].status, u)
  <2>1. CASE i = n + 1 BY <1>2, <1>7, <2>1
  <2>2. CASE i \in DOMAIN ps
    <3>1. t[i] = ps[i] BY <1>4, <2>2
    <3> QED BY <2>2, <3>1 DEF Shows
  <2> QED BY <1>3, <2>1, <2>2
<1>9. ASSUME NEW d \in u.in \ {own.id} PROVE \E i \in DOMAIN t : t[i].id = d /\ ~IsGone(t[i])
  <2>1. CASE d = r.id BY <1>2, <1>4, <2>1
  <2>2. CASE d # r.id
    <3>1. PICK i \in DOMAIN ps : ps[i].id = d /\ ~IsGone(ps[i]) BY <2>2 DEF Shows
    <3> QED BY <1>4, <3>1
  <2> QED BY <2>1, <2>2
<1>10. u.racing /\ own.id = u.self /\ own.id \in u.in /\ own.name = u.names[own.id]
  BY DEF Shows
<1> QED BY <1>6, <1>8, <1>9, <1>10 DEF Shows, t

\* get_player finds whoever is in the race.
LEMMA RacerSeen ==
    ASSUME NEW F, ClientsTyped, NEW k \in Clients, race[k] \in RaceType, NEW v \in Views,
           Shows(F, list[k][1], race[k].players, v), NEW d \in Slots
    PROVE  /\ K!RacerOf(k, d) # 0 =>
                /\ K!RacerOf(k, d) \in DOMAIN race[k].players
                /\ race[k].players[K!RacerOf(k, d)].id = d
           /\ d \in v.in \ {v.self} =>
                /\ K!RacerOf(k, d) # 0
                /\ ~IsGone(race[k].players[K!RacerOf(k, d)])
           /\ d = v.self => K!RacerOf(k, d) = 0
<1> DEFINE ps == race[k].players
           own == list[k][1]
           i == K!RowOf(ps, d)
<1>1. ps \in Seq(RacerType) BY DEF RaceType
<1>2. DOMAIN ps = 1 .. Len(ps) /\ Len(ps) \in Nat BY <1>1, LenProperties
<1>3. /\ i \in 0 .. Len(ps) /\ (i # 0 => ps[i].id = d)
      /\ \A j \in 1 .. Len(ps) : ps[j].id = d => i \in 1 .. j
  BY <1>1, RowFound
<1>4. K!RacerOf(k, d) = IF d = own.id THEN 0 ELSE i BY DEF K!RacerOf, K!Self
<1>5. Shows(F, own, ps, v) OBVIOUS
<1> HIDE DEF ps, own, i
<1>6. i # 0 => i \in DOMAIN ps /\ ps[i].id = d BY <1>2, <1>3
<1>7. ASSUME d \in v.in \ {v.self} PROVE d # own.id /\ i # 0 /\ ~IsGone(ps[i])
  <2>1. d # own.id BY <1>5, <1>7 DEF Shows
  <2>2. PICK j \in DOMAIN ps : ps[j].id = d /\ ~IsGone(ps[j]) BY <1>5, <1>7, <2>1 DEF Shows
  <2>3. i # 0 BY <1>2, <1>3, <2>2
  <2>4. i = j BY <1>5, <1>6, <2>2, <2>3 DEF Shows
  <2> QED BY <2>1, <2>2, <2>3, <2>4
<1>8. d = v.self => d = own.id BY <1>5 DEF Shows
<1> QED BY <1>4, <1>6, <1>7, <1>8 DEF ps, own

\* Reading a race packet keeps the racers and the view together.
LEMMA RaceAfterShows ==
    ASSUME NEW F, ClientsTyped, NEW k \in Clients, race[k] \in RaceType, NEW v \in Views,
           Shows(F, list[k][1], race[k].players, v), Sided(F, list[k][1].id, race[k].status, v),
           NEW p \in Packets,
           p.type \in {"CONNECT", "UPDATE_PROGRESS", "PLAYER_COMPLETED", "DISCONNECT"},
           Fits(p, v)
    PROVE  /\ Shows(F, list[k][1], K!RaceAfter(k, p).players, After(v, p))
           /\ Sided(F, list[k][1].id, K!RaceAfter(k, p).status, After(v, p))
<1> DEFINE view == race[k]
           ps == view.players
           own == list[k][1]
           i == K!RacerOf(k, p.id)
           u == After(v, p)
<1>1. p.id \in Slots /\ (p.type = "CONNECT" => p.name \in Names) BY RaceFields
<1>2. ps \in Seq(RacerType) /\ view \in RaceType BY DEF RaceType
<1>3. Shows(F, own, ps, v) /\ Sided(F, own.id, view.status, v) OBVIOUS
<1>12. v.racing /\ own.id = v.self BY <1>3 DEF Shows
<1>4. /\ i # 0 => i \in DOMAIN ps /\ ps[i].id = p.id
      /\ p.id \in v.in \ {v.self} => i # 0 /\ ~IsGone(ps[i])
      /\ p.id = v.self => i = 0
  BY <1>1, RacerSeen
<1>5. i # 0 => ps[i] \in RacerType
  <2>1. DOMAIN ps = 1 .. Len(ps) BY <1>2, LenProperties
  <2> HIDE DEF i, ps
  <2> QED BY <1>2, <1>4, <2>1, ElementOfSeq
<1>6. u \in Views BY AfterType
<1>7. /\ u.self = v.self /\ u.racing
      /\ u.in = IF p.type = "CONNECT" THEN v.in \cup {p.id}
                ELSE IF p.type = "DISCONNECT" THEN v.in \ {p.id} ELSE v.in
      /\ u.gone = IF p.type = "DISCONNECT" THEN v.gone \cup {p.id} ELSE v.gone
      /\ \A d \in Slots : u.names[d] = IF p.type = "CONNECT" /\ d = p.id THEN p.name ELSE v.names[d]
  <2>1. v.racing BY DEF Shows
  <2>2. ~Marks(p) BY DEF Marks
  <2> QED BY <2>1, <2>2 DEF After
<1>8. v.in \subseteq Slots BY DEF Views
<1>13. u.aside = AsideAfter(v, p) BY DEF After
<1> HIDE DEF u
<1>14. \A j \in DOMAIN ps : ~IsGone(ps[j]) => Sided(F, ps[j].id, ps[j].status, v)
  BY <1>3 DEF Shows
<1>15. ASSUME NEW d, NEW status, Sided(F, d, status, v), d \in u.aside <=> d \in v.aside
       PROVE  Sided(F, d, status, u)
  BY <1>15 DEF Sided
<1>9. CASE p.type = "CONNECT"
  <2> DEFINE r == K!Racer(p.id, p.name, TRUE, 0)
  <2>1. K!RaceAfter(k, p) = IF p.id = own.id THEN view ELSE [view EXCEPT !.players = Append(@, r)]
    BY <1>9 DEF K!RaceAfter, K!Self
  <2>2. r \in RacerType /\ r.id = p.id /\ r.name = p.name /\ ~IsGone(r)
    BY <1>1, <1>9 DEF K!Racer, RacerType, Statuses, IsGone
  <2>3. own.id = v.self BY <1>3 DEF Shows
  <2>4. CASE p.id = v.self
    <3>1. p.id \in v.in /\ v.names[p.id] = p.name BY <1>9, <2>4 DEF Fits
    <3>2. u.in = v.in /\ \A d \in v.in : u.names[d] = v.names[d] BY <1>7, <1>8, <1>9, <3>1
    <3>3. u.aside = v.aside BY <1>9, <1>13, <2>4 DEF AsideAfter
    <3>4. /\ Sided(F, own.id, view.status, u)
          /\ \A j \in DOMAIN ps : ~IsGone(ps[j]) => Sided(F, ps[j].id, ps[j].status, u)
      BY <1>3, <1>14, <1>15, <3>3
    <3>5. Shows(F, own, ps, u) BY <1>3, <1>7, <1>9, <3>2, <3>4 DEF Shows
    <3> QED BY <2>1, <2>3, <2>4, <3>4, <3>5 DEF u
  <2>5. CASE p.id # v.self
    <3>6. u.aside = v.aside \cup {p.id} BY <1>9, <1>12, <1>13, <2>5 DEF AsideAfter
    <3>7. Sided(F, r.id, r.status, u) BY <3>6 DEF Sided, K!Racer
    <3>8. K!RaceAfter(k, p).status = view.status BY <1>2, <2>1, <2>3, <2>5 DEF RaceType
    <3> HIDE DEF r, ps, own
    <3>1. r.id \notin v.in \cup v.gone BY <1>9, <2>2, <2>5 DEF Fits
    <3>9. /\ Sided(F, own.id, view.status, u)
          /\ \A j \in DOMAIN ps : ~IsGone(ps[j]) => Sided(F, ps[j].id, ps[j].status, u)
      <4>1. \A j \in DOMAIN ps : ~IsGone(ps[j]) => ps[j].id \in v.in BY <1>3 DEF Shows
      <4>2. own.id # p.id /\ r.id = p.id BY <1>12, <2>2, <2>5
      <4> QED BY <1>3, <1>14, <1>15, <3>1, <3>6, <4>1, <4>2
    <3>2. u.in = v.in \cup {r.id} /\ r.name = u.names[r.id] /\ u.gone = v.gone
      BY <1>1, <1>7, <1>9, <2>2
    <3>3. \A d \in v.in : u.names[d] = v.names[d] BY <1>7, <1>8, <2>2, <3>1
    <3>4. Shows(F, own, Append(ps, r), u)
      BY <1>2, <1>3, <1>6, <1>7, <2>2, <3>1, <3>2, <3>3, <3>7, <3>9, RacerAdded
    <3>5. K!RaceAfter(k, p).players = Append(ps, r)
      BY <1>2, <2>1, <2>3, <2>5 DEF RaceType, ps
    <3> QED BY <3>4, <3>5, <3>8, <3>9 DEF u, own
  <2> QED BY <2>4, <2>5
<1>10. CASE p.type \in {"UPDATE_PROGRESS", "PLAYER_COMPLETED"}
  <2> DEFINE r == IF p.type = "UPDATE_PROGRESS" THEN [ps[i] EXCEPT !.progress = p.progress]
                  ELSE [ps[i] EXCEPT !.status = "COMPLETED", !.progress = p.time]
  <2>1. u.in = v.in /\ u.gone = v.gone /\ \A d \in v.in : u.names[d] = v.names[d]
    BY <1>7, <1>8, <1>10
  <2>2. \A d : d # p.id \/ p.type = "UPDATE_PROGRESS" => (d \in u.aside <=> d \in v.aside)
    BY <1>10, <1>13 DEF AsideAfter
  <2>6. p.type = "PLAYER_COMPLETED" => p.id \notin u.aside BY <1>13 DEF AsideAfter
  <2>3. /\ K!RaceAfter(k, p).players = IF i = 0 THEN ps ELSE [ps EXCEPT ![i] = r]
        /\ K!RaceAfter(k, p).status = IF i = 0 /\ p.type = "PLAYER_COMPLETED"
                                        THEN "COMPLETED" ELSE view.status
    <3>1. CASE p.type = "UPDATE_PROGRESS"
      <4>1. K!RaceAfter(k, p) = IF p.id = own.id THEN view
                                ELSE IF i = 0 THEN [view EXCEPT !.progress = p.progress]
                                ELSE [view EXCEPT !.players[i].progress = p.progress]
        BY <3>1 DEF K!RaceAfter, K!Self
      <4>2. p.id = own.id => i = 0 BY DEF K!RacerOf, K!Self
      <4> HIDE DEF i, own
      <4> QED BY <1>2, <3>1, <4>1, <4>2 DEF RaceType
    <3>2. CASE p.type = "PLAYER_COMPLETED"
      <4> DEFINE won == K!VictorAfter(view, p)
      <4>1. won \in RaceType /\ won.players = ps /\ won.status = view.status
        <5>1. p.time \in Times BY <3>2, RaceFields
        <5>2. won \in RaceType /\ won.players = ps BY <1>1, <1>2, <5>1, VictorType
        <5> QED BY <1>2, <5>2 DEF K!VictorAfter, RaceType
      <4>2. K!RaceAfter(k, p) = IF i = 0 THEN [won EXCEPT !.status = "COMPLETED", !.progress = p.time]
                                ELSE [won EXCEPT !.players[i].status = "COMPLETED",
                                                 !.players[i].progress = p.time]
        BY <3>2 DEF K!RaceAfter
      <4> HIDE DEF won, i
      <4>3. CASE i = 0 BY <3>2, <4>1, <4>2, <4>3 DEF RaceType
      <4>4. CASE i # 0
        <5>1. /\ K!RaceAfter(k, p).players = [ps EXCEPT ![i].status = "COMPLETED", ![i].progress = p.time]
              /\ K!RaceAfter(k, p).status = view.status
          BY <4>1, <4>2, <4>4 DEF RaceType
        <5>2. i \in DOMAIN ps BY <1>4, <4>4
        <5> HIDE DEF ps
        <5> QED BY <1>5, <3>2, <4>4, <5>1, <5>2 DEF RacerType
      <4> QED BY <4>3, <4>4
    <3> QED BY <1>10, <3>1, <3>2
  <2>7. p.type = "PLAYER_COMPLETED" => p.id \in v.in /\ (i = 0 => p.id = v.self)
    BY <1>4 DEF Fits, LooksUp
  <2>8. \A j \in DOMAIN ps : (~IsGone(ps[j]) /\ ps[j].id # p.id) \/ p.type = "UPDATE_PROGRESS" =>
          (~IsGone(ps[j]) => Sided(F, ps[j].id, ps[j].status, u))
    BY <1>14, <1>15, <2>2
  <2>4. CASE i = 0
    <3> HIDE DEF i, ps, own
    <3>1. \A j \in DOMAIN ps : ~IsGone(ps[j]) => Sided(F, ps[j].id, ps[j].status, u)
      <4>1. \A j \in DOMAIN ps : ps[j].id # v.self BY <1>3, <1>12 DEF Shows
      <4> QED BY <1>10, <2>4, <2>7, <2>8, <4>1
    <3>2. Shows(F, own, ps, u) BY <1>3, <1>7, <2>1, <3>1 DEF Shows
    <3>3. Sided(F, own.id, K!RaceAfter(k, p).status, u)
      <4>1. CASE p.type = "PLAYER_COMPLETED" BY <1>12, <2>3, <2>4, <2>6, <2>7, <4>1 DEF Sided
      <4>2. CASE p.type = "UPDATE_PROGRESS" BY <1>3, <1>15, <2>2, <2>3, <4>2
      <4> QED BY <1>10, <4>1, <4>2
    <3> QED BY <2>3, <2>4, <3>2, <3>3 DEF u, ps, own
  <2>5. CASE i # 0
    <3>1. ps[i] \in RacerType /\ i \in DOMAIN ps BY <1>4, <1>5, <2>5
    <3>2. p.type = "PLAYER_COMPLETED" => ~IsGone(ps[i])
      <4>1. p.type = "PLAYER_COMPLETED" => p.id \in v.in BY DEF Fits, LooksUp
      <4>2. p.id # v.self BY <1>4, <2>5
      <4> HIDE DEF i, ps
      <4> QED BY <1>4, <4>1, <4>2
    <3>3. /\ r \in RacerType /\ r.id = ps[i].id /\ r.name = ps[i].name
          /\ IsGone(r) <=> IsGone(ps[i])
      <4>1. CASE p.type = "UPDATE_PROGRESS"
        <5>1. p.progress \in Int BY <4>1, RaceFields, LengthsType
        <5> HIDE DEF i, ps
        <5> QED BY <3>1, <4>1, <5>1 DEF RacerType, IsGone
      <4>2. CASE p.type = "PLAYER_COMPLETED"
        <5>1. p.time \in Int BY <4>2, RaceFields, LengthsType
        <5> HIDE DEF i, ps
        <5> QED BY <3>1, <3>2, <4>2, <5>1 DEF RacerType, IsGone, Statuses
      <4> QED BY <1>10, <4>1, <4>2
    <3>4. r.status = IF p.type = "UPDATE_PROGRESS" THEN ps[i].status ELSE "COMPLETED"
      BY <3>1 DEF RacerType
    <3> HIDE DEF i, ps, own, r
    <3>5. ps[i].id = p.id /\ p.id # own.id BY <1>4, <1>12, <2>5
    <3>6. IsGone(ps[i]) \/ Sided(F, r.id, r.status, u)
      <4>1. CASE p.type = "PLAYER_COMPLETED" BY <2>6, <3>3, <3>4, <3>5, <4>1 DEF Sided
      <4>2. CASE p.type = "UPDATE_PROGRESS" BY <2>8, <3>1, <3>3, <3>4, <4>2
      <4> QED BY <1>10, <4>1, <4>2
    <3>7. \A j \in DOMAIN ps : j # i /\ ~IsGone(ps[j]) => Sided(F, ps[j].id, ps[j].status, u)
      <4>1. \A j \in DOMAIN ps : j # i => ps[j].id # p.id BY <1>3, <3>1, <3>5 DEF Shows
      <4> QED BY <2>8, <4>1
    <3>8. Shows(F, own, [ps EXCEPT ![i] = r], u)
      BY <1>2, <1>3, <1>7, <2>1, <3>1, <3>3, <3>6, <3>7, RacerEdited
    <3>9. Sided(F, own.id, view.status, u) BY <1>3, <1>15, <2>2, <3>5
    <3> QED BY <2>3, <2>5, <3>8, <3>9 DEF u, own
  <2> QED BY <2>4, <2>5
<1>11. CASE p.type = "DISCONNECT"
  <2> DEFINE r == [ps[i] EXCEPT !.status = "DISCONNECTED"]
             won == IF view.victor = p.id
                      THEN [view EXCEPT !.victor = K!NoVictor, !.victor_time = K!NoVictor] ELSE view
  <2>1. p.id \in v.in \ {v.self} BY <1>11 DEF Fits, LooksUp, K!LobbyLooksUp
  <2>2. i # 0 /\ i \in DOMAIN ps /\ ps[i].id = p.id /\ ps[i] \in RacerType
    BY <1>4, <1>5, <2>1
  <2>3. /\ K!RaceAfter(k, p).players = [ps EXCEPT ![i] = r]
        /\ K!RaceAfter(k, p).status = view.status
    <3>1. K!RaceAfter(k, p) = [won EXCEPT !.players[i].status = "DISCONNECTED"]
      BY <1>11, <2>2 DEF K!RaceAfter
    <3>2. won \in RaceType /\ won.players = ps /\ won.status = view.status
      <4>1. K!NoVictor \in Int BY DEF K!NoVictor
      <4> QED BY <1>2, <4>1 DEF RaceType
    <3> HIDE DEF won, i
    <3> QED BY <2>2, <3>1, <3>2 DEF RaceType
  <2> HIDE DEF i, ps, own
  <2>4. r \in RacerType /\ r.id = p.id /\ IsGone(r) BY <2>2 DEF RacerType, Statuses, IsGone
  <2> HIDE DEF r
  <2>5. u.in = v.in \ {r.id} /\ u.gone = v.gone \cup {r.id} BY <1>7, <1>11, <2>4
  <2>6. \A d \in v.in : u.names[d] = v.names[d] BY <1>7, <1>8, <1>11
  <2>7. u.aside = v.aside BY <1>11, <1>13 DEF AsideAfter
  <2>8. /\ Sided(F, own.id, view.status, u)
        /\ \A j \in DOMAIN ps : ~IsGone(ps[j]) => Sided(F, ps[j].id, ps[j].status, u)
    BY <1>3, <1>14, <1>15, <2>7
  <2>9. Shows(F, own, [ps EXCEPT ![i] = r], u)
    BY <1>2, <1>3, <1>6, <1>7, <2>2, <2>4, <2>5, <2>6, <2>8, RacerLeft
  <2> QED BY <2>3, <2>8, <2>9 DEF u, own
<1> QED BY <1>9, <1>10, <1>11

\* ... and so does drawing it.
LEMMA RaceFollows ==
    ASSUME NEW F, ClientsTyped, NEW k \in Clients, race[k] \in RaceType, NEW v \in Views,
           Shows(F, list[k][1], race[k].players, v), Sided(F, list[k][1].id, race[k].status, v),
           NEW p \in Packets,
           p.type \in {"CONNECT", "UPDATE_PROGRESS", "PLAYER_COMPLETED", "DISCONNECT"},
           Fits(p, v)
    PROVE  /\ Shows(F, list[k][1], K!Drawn(K!RaceAfter(k, p)).players, After(v, p))
           /\ Sided(F, list[k][1].id, K!Drawn(K!RaceAfter(k, p)).status, After(v, p))
<1> DEFINE view == K!RaceAfter(k, p)
           own == list[k][1]
           u == After(v, p)
           I == {i \in DOMAIN view.players :
                   view.players[i].status # "DISCONNECTED" \/ view.players[i].progress # 0}
<1>1. view \in RaceType BY RaceAfterType
<1>2. Shows(F, own, view.players, u) /\ Sided(F, own.id, view.status, u) BY RaceAfterShows
<1>3. u \in Views BY AfterType
<1> HIDE DEF view, own, u
<1>4. view.players \in Seq(RacerType) BY <1>1 DEF RaceType
<1>5. K!Drawn(view) = [view EXCEPT !.players = At(view.players, I)] BY SameAt DEF K!Drawn
<1>6. I \in SUBSET DOMAIN view.players /\ \A i \in DOMAIN view.players : ~IsGone(view.players[i]) => i \in I
  BY DEF IsGone
<1> HIDE DEF I
<1>7. Shows(F, own, At(view.players, I), u) BY <1>2, <1>3, <1>4, <1>6, RacersPicked
<1>8. K!Drawn(view).players = At(view.players, I) /\ K!Drawn(view).status = view.status
  BY <1>1, <1>5 DEF RaceType
<1> QED BY <1>2, <1>7, <1>8 DEF view, own, u

=============================================================================
