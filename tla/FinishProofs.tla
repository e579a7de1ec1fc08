---------------------------- MODULE FinishProofs ----------------------------
(***************************************************************************)
(* The victor of a race: if nobody leaves and races start settled, every   *)
(* client knows the fastest of those it saw finish.                        *)
(*                                                                         *)
(* What could go wrong is a report of progress that is read after the      *)
(* finish of the same player, which then loses its time.  None is: a       *)
(* client that has finished reports nothing until the next race, its       *)
(* packets stay in order on both ways, and when a race starts nobody       *)
(* knows of a finish any more.                                             *)
(***************************************************************************)
EXTENDS RosterProofs

-----------------------------------------------------------------------------
(* What a stream carries, and in which order *)

Carries(q, S) == \E i \in DOMAIN q : q[i] \in S

\* After a packet of S comes none of T.
Precludes(q, S, T) == \A i, j \in DOMAIN q : i < j /\ q[i] \in S => q[j] \notin T

\* After a packet of S comes one of T.
Entails(q, S, T) == \A i \in DOMAIN q : q[i] \in S => \E j \in DOMAIN q : i < j /\ q[j] \in T

\* A stream that goes on.
LEMMA CarriesJoined ==
    ASSUME NEW R, NEW s \in Seq(R), NEW t \in Seq(R), NEW S
    PROVE  Carries(s \o t, S) <=> Carries(s, S) \/ Carries(t, S)
<1> DEFINE q == s \o t
<1>1. /\ DOMAIN q = 1 .. Len(s) + Len(t)
      /\ \A i \in 1 .. Len(s) : q[i] = s[i]
      /\ \A i \in 1 .. Len(t) : q[Len(s) + i] = t[i]
  BY JoinedStreams
<1>2. Len(s) \in Nat /\ Len(t) \in Nat /\ DOMAIN s = 1 .. Len(s) /\ DOMAIN t = 1 .. Len(t)
  BY LenProperties
<1> HIDE DEF q
<1>3. ASSUME NEW i \in DOMAIN q, q[i] \in S PROVE Carries(s, S) \/ Carries(t, S)
  <2>1. CASE i <= Len(s) BY <1>1, <1>2, <1>3, <2>1 DEF Carries
  <2>2. CASE i > Len(s)
    <3>1. i - Len(s) \in 1 .. Len(t) /\ Len(s) + (i - Len(s)) = i BY <1>1, <1>2, <2>2
    <3>2. t[i - Len(s)] \in S BY <1>1, <1>3, <3>1
    <3> QED BY <1>2, <3>1, <3>2 DEF Carries
  <2> QED BY <1>1, <1>2, <2>1, <2>2
<1>4. ASSUME NEW i \in DOMAIN s, s[i] \in S PROVE Carries(q, S)
  BY <1>1, <1>2, <1>4 DEF Carries
<1>5. ASSUME NEW i \in DOMAIN t, t[i] \in S PROVE Carries(q, S)
  <2>1. Len(s) + i \in DOMAIN q /\ q[Len(s) + i] \in S BY <1>1, <1>2, <1>5
  <2> QED BY <2>1 DEF Carries
<1> QED BY <1>3, <1>4, <1>5 DEF Carries, q

LEMMA PrecludesJoined ==
    ASSUME NEW R, NEW s \in Seq(R), NEW t \in Seq(R), NEW S, NEW T,
           Precludes(s, S, T), Precludes(t, S, T), Carries(s, S) => ~Carries(t, T)
    PROVE  Precludes(s \o t, S, T)
<1> DEFINE q == s \o t
<1>1. /\ DOMAIN q = 1 .. Len(s) + Len(t)
      /\ \A i \in 1 .. Len(s) : q[i] = s[i]
      /\ \A i \in 1 .. Len(t) : q[Len(s) + i] = t[i]
  BY JoinedStreams
<1>2. Len(s) \in Nat /\ Len(t) \in Nat /\ DOMAIN s = 1 .. Len(s) /\ DOMAIN t = 1 .. Len(t)
  BY LenProperties
<1> HIDE DEF q
<1>3. ASSUME NEW i \in DOMAIN q, NEW j \in DOMAIN q, i < j, q[i] \in S PROVE q[j] \notin T
  <2>1. CASE j <= Len(s) BY <1>1, <1>2, <1>3, <2>1 DEF Precludes
  <2>2. CASE j > Len(s)
    <3>1. j - Len(s) \in DOMAIN t /\ q[j] = t[j - Len(s)]
      <4>1. j - Len(s) \in 1 .. Len(t) /\ Len(s) + (j - Len(s)) = j BY <1>1, <1>2, <2>2
      <4> QED BY <1>1, <1>2, <4>1
    <3>2. CASE i <= Len(s)
      <4>1. Carries(s, S) BY <1>1, <1>2, <1>3, <3>2 DEF Carries
      <4> QED BY <3>1, <4>1 DEF Carries
    <3>3. CASE i > Len(s)
      <4>1. i - Len(s) \in 1 .. Len(t) /\ Len(s) + (i - Len(s)) = i BY <1>1, <1>2, <3>3
      <4>2. i - Len(s) \in DOMAIN t /\ q[i] = t[i - Len(s)] BY <1>1, <1>2, <4>1
      <4>3. i - Len(s) < j - Len(s) BY <1>1, <1>2, <1>3
      <4> QED BY <1>3, <3>1, <4>2, <4>3 DEF Precludes
    <3> QED BY <1>1, <1>2, <3>2, <3>3
  <2> QED BY <1>1, <1>2, <2>1, <2>2
<1> QED BY <1>3 DEF Precludes, q

LEMMA EntailsJoined ==
    ASSUME NEW R, NEW s \in Seq(R), NEW t \in Seq(R), NEW S, NEW T,
           Entails(t, S, T), Entails(s, S, T) \/ Carries(t, T)
    PROVE  Entails(s \o t, S, T)
<1> DEFINE q == s \o t
<1>1. /\ DOMAIN q = 1 .. Len(s) + Len(t)
      /\ \A i \in 1 .. Len(s) : q[i] = s[i]
      /\ \A i \in 1 .. Len(t) : q[Len(s) + i] = t[i]
  BY JoinedStreams
<1>2. Len(s) \in Nat /\ Len(t) \in Nat /\ DOMAIN s = 1 .. Len(s) /\ DOMAIN t = 1 .. Len(t)
  BY LenProperties
<1> HIDE DEF q
<1>3. ASSUME NEW j \in DOMAIN t
      PROVE  Len(s) + j \in DOMAIN q /\ q[Len(s) + j] = t[j] /\ Len(s) + j > Len(s)
  BY <1>1, <1>2
<1>4. ASSUME NEW i \in DOMAIN q, q[i] \in S PROVE \E j \in DOMAIN q : i < j /\ q[j] \in T
  <2>1. CASE i <= Len(s)
    <3>1. i \in DOMAIN s /\ s[i] \in S BY <1>1, <1>2, <1>4, <2>1
    <3>2. CASE Carries(t, T)
      <4>1. PICK j \in DOMAIN t : t[j] \in T BY <3>2 DEF Carries
      <4>2. i < Len(s) + j BY <1>2, <1>3, <2>1, <1>1
      <4> QED BY <1>3, <4>1, <4>2
    <3>3. CASE Entails(s, S, T)
      <4>1. PICK j \in DOMAIN s : i < j /\ s[j] \in T BY <3>1, <3>3 DEF Entails
      <4>2. j \in DOMAIN q /\ q[j] = s[j] BY <1>1, <1>2
      <4> QED BY <4>1, <4>2
    <3> QED BY <3>2, <3>3
  <2>2. CASE i > Len(s)
    <3>1. i - Len(s) \in 1 .. Len(t) /\ Len(s) + (i - Len(s)) = i BY <1>1, <1>2, <2>2
    <3>2. i - Len(s) \in DOMAIN t /\ t[i - Len(s)] \in S BY <1>1, <1>2, <1>4, <3>1
    <3>3. PICK j \in DOMAIN t : i - Len(s) < j /\ t[j] \in T BY <3>2 DEF Entails
    <3>4. i < Len(s) + j BY <1>1, <1>2, <3>3
    <3> QED BY <1>3, <3>3, <3>4
  <2> QED BY <1>1, <1>2, <2>1, <2>2
<1> QED BY <1>4 DEF Entails, q

\* What is left of one.
LEMMA LeftOver ==
    ASSUME NEW R, NEW q \in Seq(R), q # <<>>, NEW S, NEW T
    PROVE  /\ Carries(Tail(q), S) => Carries(q, S)
           /\ Carries(q, S) => Head(q) \in S \/ Carries(Tail(q), S)
           /\ Head(q) \in S => Carries(q, S)
           /\ Precludes(q, S, T) =>
                Precludes(Tail(q), S, T) /\ (Head(q) \in S => ~Carries(Tail(q), T))
           /\ Entails(q, S, T) =>
                Entails(Tail(q), S, T) /\ (Head(q) \in S => Carries(Tail(q), T))
<1>0. PICK t : t = Tail(q) OBVIOUS
<1>1. /\ Head(q) = q[1] /\ 1 \in DOMAIN q /\ Len(q) \in Nat \ {0}
      /\ DOMAIN q = 1 .. Len(q) /\ DOMAIN t = 1 .. Len(q) - 1
      /\ \A i \in DOMAIN t : i + 1 \in DOMAIN q /\ t[i] = q[i + 1]
  BY <1>0, Remaining
<1>2. ASSUME NEW j \in DOMAIN q, j > 1 PROVE j - 1 \in DOMAIN t /\ t[j - 1] = q[j]
  <2>1. j - 1 \in DOMAIN t /\ (j - 1) + 1 = j BY <1>1, <1>2
  <2> QED BY <1>1, <2>1
<1>3. Carries(t, S) => Carries(q, S) BY <1>1 DEF Carries
<1>4. Carries(q, S) => Head(q) \in S \/ Carries(t, S)
  <2>1. ASSUME NEW i \in DOMAIN q, q[i] \in S PROVE Head(q) \in S \/ Carries(t, S)
    <3>1. i = 1 \/ i > 1 BY <1>1
    <3> QED BY <1>1, <1>2, <2>1, <3>1 DEF Carries
  <2> QED BY <2>1 DEF Carries
<1>5. Head(q) \in S => Carries(q, S) BY <1>1 DEF Carries
<1>6. ASSUME Precludes(q, S, T)
      PROVE  Precludes(t, S, T) /\ (Head(q) \in S => ~Carries(t, T))
  <2>1. Precludes(t, S, T)
    <3>1. ASSUME NEW i \in DOMAIN t, NEW j \in DOMAIN t, i < j, t[i] \in S PROVE t[j] \notin T
      <4>1. i + 1 < j + 1 BY <1>1, <3>1
      <4> QED BY <1>1, <1>6, <3>1, <4>1 DEF Precludes
    <3> QED BY <3>1 DEF Precludes
  <2>2. ASSUME Head(q) \in S, NEW j \in DOMAIN t PROVE t[j] \notin T
    <3>1. 1 < j + 1 BY <1>1
    <3> QED BY <1>1, <1>6, <2>2, <3>1 DEF Precludes
  <2> QED BY <2>1, <2>2 DEF Carries
<1>7. ASSUME Entails(q, S, T)
      PROVE  Entails(t, S, T) /\ (Head(q) \in S => Carries(t, T))
  <2>1. ASSUME NEW i \in DOMAIN t, t[i] \in S PROVE \E j \in DOMAIN t : i < j /\ t[j] \in T
    <3>1. PICK j \in DOMAIN q : i + 1 < j /\ q[j] \in T BY <1>1, <1>7, <2>1 DEF Entails
    <3>2. j > 1 /\ i < j - 1 BY <1>1, <3>1
    <3> QED BY <1>2, <3>1, <3>2
  <2>2. ASSUME Head(q) \in S PROVE Carries(t, T)
    <3>1. PICK j \in DOMAIN q : 1 < j /\ q[j] \in T BY <1>1, <1>7, <2>2 DEF Entails
    <3> QED BY <1>2, <3>1 DEF Carries
  <2> QED BY <2>1, <2>2 DEF Entails
<1> QED BY <1>0, <1>3, <1>4, <1>5, <1>6, <1>7

LEMMA LeftLater ==
    ASSUME NEW R, NEW q \in Seq(R), NEW n \in 1 .. Len(q), NEW S, NEW T
    PROVE  LET t == SubSeq(q, n + 1, Len(q))
           IN  /\ Carries(t, S) => Carries(q, S)
               /\ Precludes(q, S, T) =>
                    Precludes(t, S, T) /\ (Head(q) \in S => ~Carries(t, T))
<1> DEFINE t == SubSeq(q, n + 1, Len(q))
<1>1. Len(q) \in Nat /\ DOMAIN q = 1 .. Len(q) /\ q # <<>> BY LenProperties
<1>2. Head(q) = q[1] BY <1>1, Remaining
<1>3. \A i \in n + 1 .. Len(q) : q[i] \in R
  <2>1. ASSUME NEW i \in n + 1 .. Len(q) PROVE i \in 1 .. Len(q) BY <1>1
  <2> QED BY <2>1, ElementOfSeq
<1>4. /\ t \in Seq(R) /\ Len(t) = IF n + 1 <= Len(q) THEN Len(q) - (n + 1) + 1 ELSE 0
      /\ \A i \in 1 .. Len(q) - (n + 1) + 1 : t[i] = q[n + 1 + i - 1]
  BY <1>1, <1>3, SubSeqProperties
<1> HIDE DEF t
<1>5. DOMAIN t = 1 .. Len(q) - n
  <2>1. DOMAIN t = 1 .. Len(t) BY <1>4, LenProperties
  <2>2. Len(t) = Len(q) - n
    <3>1. n \in Nat /\ n <= Len(q) BY <1>1
    <3>2. Len(t) = IF n + 1 <= Len(q) THEN Len(q) - (n + 1) + 1 ELSE 0 BY <1>4
    <3>3. CASE n + 1 <= Len(q) BY <1>1, <3>1, <3>2, <3>3
    <3>4. CASE n = Len(q)
      <4>1. ~(n + 1 <= Len(q)) /\ Len(q) - n = 0 BY <3>1, <3>4
      <4> QED BY <3>2, <4>1
    <3>5. Len(q) \in Nat BY <1>1
    <3>6. n + 1 <= Len(q) \/ n = Len(q) BY <3>1, <3>5
    <3> QED BY <3>3, <3>4, <3>6
  <2> QED BY <2>1, <2>2
<1>6. \A i \in DOMAIN t : n + i \in DOMAIN q /\ t[i] = q[n + i] /\ 1 < n + i
  <2>1. ASSUME NEW i \in DOMAIN t
        PROVE  /\ n + i \in DOMAIN q /\ 1 < n + i /\ i \in 1 .. Len(q) - (n + 1) + 1
               /\ n + 1 + i - 1 = n + i
    BY <1>1, <1>5
  <2> QED BY <1>4, <2>1
<1>7. Carries(t, S) => Carries(q, S) BY <1>6 DEF Carries
<1>8. ASSUME Precludes(q, S, T)
      PROVE  Precludes(t, S, T) /\ (Head(q) \in S => ~Carries(t, T))
  <2>1. ASSUME NEW i \in DOMAIN t, NEW j \in DOMAIN t, i < j, t[i] \in S PROVE t[j] \notin T
    <3>1. n + i < n + j BY <1>1, <1>5, <2>1
    <3> QED BY <1>6, <1>8, <2>1, <3>1 DEF Precludes
  <2>2. ASSUME Head(q) \in S, NEW j \in DOMAIN t PROVE t[j] \notin T
    <3>1. 1 \in DOMAIN q BY <1>1
    <3> QED BY <1>2, <1>6, <1>8, <2>2, <3>1 DEF Precludes
  <2> QED BY <2>1, <2>2 DEF Precludes, Carries
<1> QED BY <1>7, <1>8 DEF t

\* One more packet.
LEMMA OneMore ==
    ASSUME NEW R, NEW q \in Seq(R), NEW p \in R, NEW S, NEW T
    PROVE  /\ Carries(Append(q, p), S) <=> Carries(q, S) \/ p \in S
           /\ Precludes(q, S, T) /\ (Carries(q, S) => p \notin T) => Precludes(Append(q, p), S, T)
<1> DEFINE t == Append(q, p)
<1>1. /\ DOMAIN t = 1 .. Len(q) + 1 /\ t[Len(q) + 1] = p
      /\ \A i \in 1 .. Len(q) : t[i] = q[i]
  BY Appended
<1>2. Len(q) \in Nat /\ DOMAIN q = 1 .. Len(q) BY LenProperties
<1> HIDE DEF t
<1>3. Carries(t, S) <=> Carries(q, S) \/ p \in S
  <2>1. \A i \in DOMAIN t : i \in DOMAIN q \/ i = Len(q) + 1 BY <1>1, <1>2
  <2>2. \A i \in DOMAIN q : i \in DOMAIN t BY <1>1, <1>2
  <2>3. Len(q) + 1 \in DOMAIN t BY <1>1, <1>2
  <2> QED BY <1>1, <1>2, <2>1, <2>2, <2>3 DEF Carries
<1>4. ASSUME Precludes(q, S, T), Carries(q, S) => p \notin T PROVE Precludes(t, S, T)
  <2>1. ASSUME NEW i \in DOMAIN t, NEW j \in DOMAIN t, i < j, t[i] \in S PROVE t[j] \notin T
    <3>1. i \in DOMAIN q /\ q[i] \in S BY <1>1, <1>2, <2>1
    <3>2. CASE j \in DOMAIN q BY <1>1, <1>2, <1>4, <2>1, <3>1, <3>2 DEF Precludes
    <3>3. CASE j = Len(q) + 1
      <4>1. Carries(q, S) BY <3>1 DEF Carries
      <4> QED BY <1>1, <1>4, <3>3, <4>1
    <3> QED BY <1>1, <1>2, <3>2, <3>3
  <2> QED BY <2>1 DEF Precludes
<1> QED BY <1>3, <1>4 DEF t

LEMMA Nothing ==
    ASSUME NEW S, NEW T
    PROVE  ~Carries(<<>>, S) /\ Precludes(<<>>, S, T) /\ Entails(<<>>, S, T)
BY DEF Carries, Precludes, Entails

\* A single packet.
LEMMA Single ==
    ASSUME NEW p, NEW S
    PROVE  Carries(<<p>>, S) <=> p \in S
<1>1. DOMAIN <<p>> = {1} /\ <<p>>[1] = p OBVIOUS
<1> QED BY <1>1 DEF Carries

\* A stream without packets of S, or without any of T.
LEMMA Apart ==
    ASSUME NEW q, NEW S, NEW T
    PROVE  /\ ~Carries(q, S) => Entails(q, S, T)
           /\ ~Carries(q, S) \/ ~Carries(q, T) => Precludes(q, S, T)
BY DEF Carries, Precludes, Entails

-----------------------------------------------------------------------------
(* Finishes and what follows them *)

\* What a client tells of its race.
Finishes == {p \in ClientPacket : p.type = "COMPLETED_TEXT"}
Progresses == {p \in ClientPacket : p.type = "SEND_PROGRESS"}

\* What the server tells of player c, and of all.
FinishesOf(c) == {p \in Packets : p.type = "PLAYER_COMPLETED" /\ p.id = c}
ProgressesOf(c) == {p \in Packets : p.type = "UPDATE_PROGRESS" /\ p.id = c}
Starts == {p \in Packets : p.type = "START"}
Ends == {p \in Packets : p.type = "GAME_OVER"}
Departures == {p \in Packets : p.type = "DISCONNECT"}
RaceMarks == {p \in Packets : MarksRace(p)}

\* Client j shows that player c has finished, or is about to read it.
Knows(j, c) ==
    /\ mode[j] = "PLAYING"
    /\ \/ clients[c] = socket[j] /\ race[j].status = "COMPLETED"
       \/ \E i \in DOMAIN race[j].players :
            race[j].players[i].id = c /\ race[j].players[i].status = "COMPLETED"
Learns(j, c) == Listens(j) /\ (Knows(j, c) \/ Carries(down[socket[j]], FinishesOf(c)))

\* The race is over for player c: its finish is on its way to the server, or on
\* its way to somebody, or known.
Over(c) == Carries(up[clients[c]], Finishes) \/ \E j \in Clients : Learns(j, c)

\* What is under way to client j is in order.
DownOrdered(j) ==
    LET q == down[socket[j]]
    IN  /\ Precludes(q, Ends, Starts) /\ ~Carries(q, Departures)
        /\ \A c \in Slots : /\ Precludes(q, FinishesOf(c), ProgressesOf(c))
                            /\ Knows(j, c) => ~Carries(q, ProgressesOf(c))

\* Every race client j is in or reads of has its end under way.
EndsTold(j) ==
    /\ Entails(down[socket[j]], RaceMarks, Ends)
    /\ mode[j] = "PLAYING" => Carries(down[socket[j]], Ends)

\* Whoever the race is over for tells no more progress.
Done(k) ==
    /\ mode[k] # "CONNECTING"
    /\ mode[k] = "PLAYING" => race[k].complete
    /\ mode[k] = "LOBBY" => ~Carries(down[socket[k]], Starts)

\* The victor of a view is at least as fast as a racer who has finished.
Beats(view, r) ==
    r.status = "COMPLETED" => view.victor # K!NoVictor /\ view.victor_time <= r.progress
Best(view) ==
    Beats(view, view) /\ \A i \in DOMAIN view.players : Beats(view, view.players[i])

UpInv ==
    /\ \A s \in Sockets : Precludes(up[s], Finishes, Progresses)
    /\ \A s \in Backlogged : ~Carries(up[s], Finishes) /\ ~Carries(up[s], Progresses)
LearnInv ==
    /\ \A c \in Connected, j \in Clients : Learns(j, c) => ~Carries(up[clients[c]], Progresses)
    /\ \A c \in Slots \ Connected, j \in Clients : ~Learns(j, c)
OverInv ==
    \A c \in Connected, k \in Clients : clients[c] = socket[k] /\ Over(c) => Done(k)
DownInv ==
    \A j \in Clients : Listens(j) => DownOrdered(j) /\ (currentState = 0 => EndsTold(j))
BestInv == \A j \in Clients : mode[j] = "PLAYING" => Best(race[j])

FinishInv == UpInv /\ LearnInv /\ OverInv /\ DownInv /\ BestInv

-----------------------------------------------------------------------------
(* The race view *)

\* A finish takes the win or leaves it to a time that is no worse.
LEMMA VictorWins ==
    ASSUME NEW view \in RaceType, NEW p, p.id \in Slots, p.time \in Times
    PROVE  LET won == K!VictorAfter(view, p)
           IN  /\ won \in RaceType /\ won.players = view.players
               /\ won.status = view.status /\ won.progress = view.progress
               /\ won.victor # K!NoVictor /\ won.victor_time <= p.time
               /\ \A r : r.progress \in Int /\ Beats(view, r) => Beats(won, r)
<1> DEFINE won == K!VictorAfter(view, p)
           new == [view EXCEPT !.victor = p.id, !.victor_time = p.time]
<1>1. won \in RaceType /\ won.players = view.players BY VictorType
<1>2. p.id \in Nat /\ K!NoVictor = -1 BY SlotsAssumption DEF Slots, K!NoVictor
<1>3. p.time \in Int /\ view.victor_time \in Int /\ view.victor \in Int
  BY LengthsType DEF RaceType
<1>4. won = IF view.victor = K!NoVictor \/ p.time < view.victor_time THEN new ELSE view
  BY DEF K!VictorAfter
<1>5. /\ new.status = view.status /\ new.progress = view.progress
      /\ new.victor = p.id /\ new.victor_time = p.time
  BY DEF RaceType
<1> HIDE DEF won, new
<1>6. won.status = view.status /\ won.progress = view.progress BY <1>4, <1>5
<1>7. won.victor # K!NoVictor /\ won.victor_time <= p.time /\ won.victor_time \in Int
  BY <1>2, <1>3, <1>4, <1>5
<1>8. view.victor # K!NoVictor => won.victor_time <= view.victor_time BY <1>2, <1>3, <1>4, <1>5
<1>9. ASSUME NEW r, r.progress \in Int, Beats(view, r) PROVE Beats(won, r)
  BY <1>3, <1>7, <1>8, <1>9 DEF Beats
<1> QED BY <1>1, <1>6, <1>7, <1>9 DEF won

\* Racer r is in view, as one who has finished.
Finished(view, id) ==
    \E i \in DOMAIN view.players : view.players[i].id = id /\ view.players[i].status = "COMPLETED"

\* Another racer, whom the victor beats, keeps a view the best.
LEMMA BestEdited ==
    ASSUME NEW view \in RaceType, Best(view), NEW i \in DOMAIN view.players, NEW r \in RacerType,
           Beats(view, r)
    PROVE  Best([view EXCEPT !.players[i] = r])
<1> DEFINE new == [view EXCEPT !.players[i] = r]
<1>1. view.players \in Seq(RacerType) BY DEF RaceType
<1>2. /\ new.victor = view.victor /\ new.victor_time = view.victor_time
      /\ new.status = view.status /\ new.progress = view.progress
      /\ new.players = [view.players EXCEPT ![i] = r]
  BY DEF RaceType
<1> HIDE DEF new
<1>3. ASSUME NEW x, Beats(view, x) PROVE Beats(new, x) BY <1>2, <1>3 DEF Beats
<1>4. Beats(new, new) BY <1>2 DEF Best, Beats
<1>5. ASSUME NEW n \in DOMAIN new.players PROVE Beats(new, new.players[n])
  <2>1. n \in DOMAIN view.players BY <1>2
  <2>2. CASE n = i BY <1>2, <1>3, <2>1, <2>2
  <2>3. CASE n # i BY <1>2, <1>3, <2>1, <2>3 DEF Best
  <2> QED BY <2>2, <2>3
<1> QED BY <1>4, <1>5 DEF Best, new

\* Who is picked was there.
LEMMA Picked ==
    ASSUME NEW R, NEW s \in Seq(R), NEW I, I \subseteq DOMAIN s
    PROVE  \A n \in DOMAIN At(s, I) : \E i \in DOMAIN s : At(s, I)[n] = s[i]
<1> DEFINE q == At(s, I)
<1>1. /\ q \in Seq(R)
      /\ \A i \in I : \E n \in DOMAIN q : q[n] = s[i]
      /\ \E f \in [DOMAIN q -> I] :
           /\ \A n \in DOMAIN q : q[n] = s[f[n]]
           /\ \A m, n \in DOMAIN q : m < n => f[m] < f[n]
  BY AtPicks
<1> HIDE DEF q
<1>2. PICK f \in [DOMAIN q -> I] : \A n \in DOMAIN q : q[n] = s[f[n]] BY <1>1
<1>3. \A n \in DOMAIN q : f[n] \in DOMAIN s BY <1>2
<1> QED BY <1>2, <1>3 DEF q

\* Drawing a view changes nothing of who has finished.
LEMMA DrawnBest ==
    ASSUME NEW view \in RaceType
    PROVE  /\ Best(view) => Best(K!Drawn(view))
           /\ K!Drawn(view).status = view.status
           /\ \A id : Finished(K!Drawn(view), id) => Finished(view, id)
<1> DEFINE I == {i \in DOMAIN view.players :
                   view.players[i].status # "DISCONNECTED" \/ view.players[i].progress # 0}
           new == K!Drawn(view)
<1>1. view.players \in Seq(RacerType) BY DEF RaceType
<1>2. new = [view EXCEPT !.players = At(view.players, I)] BY SameAt DEF K!Drawn
<1>3. I \subseteq DOMAIN view.players OBVIOUS
<1> HIDE DEF I, new
<1>4. /\ new.victor = view.victor /\ new.victor_time = view.victor_time
      /\ new.status = view.status /\ new.progress = view.progress
      /\ new.players = At(view.players, I)
  BY <1>2 DEF RaceType
<1>5. \A n \in DOMAIN new.players : \E i \in DOMAIN view.players :
        new.players[n] = view.players[i]
  <2>1. \A n \in DOMAIN At(view.players, I) : \E i \in DOMAIN view.players :
          At(view.players, I)[n] = view.players[i]
    BY <1>1, <1>3, Picked
  <2> QED BY <1>4, <2>1
<1>6. Best(view) => Best(new)
  <2>1. ASSUME NEW x, Beats(view, x) PROVE Beats(new, x) BY <1>4, <2>1 DEF Beats
  <2>2. Best(view) => Beats(new, new) BY <1>4 DEF Best, Beats
  <2> QED BY <1>5, <2>1, <2>2 DEF Best
<1>7. \A id : Finished(new, id) => Finished(view, id) BY <1>5 DEF Finished
<1> QED BY <1>4, <1>6, <1>7 DEF new

\* What a race packet makes of who has finished, and of the victor.
LEMMA RaceAfterBest ==
    ASSUME ClientsTyped, NEW k \in Clients, race[k] \in RaceType, Best(race[k]),
           NEW p \in Packets, p.type \in {"CONNECT", "UPDATE_PROGRESS", "PLAYER_COMPLETED"},
           K!RacerOf(k, p.id) # 0 =>
             /\ K!RacerOf(k, p.id) \in DOMAIN race[k].players
             /\ race[k].players[K!RacerOf(k, p.id)].id = p.id,
           K!RacerOf(k, p.id) = 0 /\ p.type # "CONNECT" => p.id = K!Self(k).id,
           p.type = "UPDATE_PROGRESS" => ~Finished(race[k], p.id)
    PROVE  LET new == K!RaceAfter(k, p)
           IN  /\ Best(new)
               /\ new.status = "COMPLETED" =>
                    \/ race[k].status = "COMPLETED"
                    \/ p.type = "PLAYER_COMPLETED" /\ p.id = K!Self(k).id
               /\ \A id : Finished(new, id) =>
                    Finished(race[k], id) \/ (p.type = "PLAYER_COMPLETED" /\ id = p.id)
<1> DEFINE view == race[k]
           i == K!RacerOf(k, p.id)
           new == K!RaceAfter(k, p)
<1> SUFFICES /\ Best(new)
             /\ new.status = "COMPLETED" =>
                  view.status = "COMPLETED" \/ (p.type = "PLAYER_COMPLETED" /\ p.id = K!Self(k).id)
             /\ \A id : Finished(new, id) =>
                  Finished(view, id) \/ (p.type = "PLAYER_COMPLETED" /\ id = p.id)
  OBVIOUS
<1>1. p.id \in Slots BY RaceFields
<1>2. view \in RaceType /\ view.players \in Seq(RacerType) BY DEF RaceType
<1>3. i # 0 => /\ i \in DOMAIN view.players /\ view.players[i].id = p.id
               /\ view.players[i] \in RacerType
  <2>1. \A n \in DOMAIN view.players : view.players[n] \in RacerType BY <1>2, ElementOfSeq
  <2> QED BY <2>1
<1> HIDE DEF i, new
<1>4. CASE p.type = "CONNECT"
  <2> DEFINE r == K!Racer(p.id, p.name, TRUE, 0)
             ps == Append(view.players, r)
             added == [view EXCEPT !.players = ps]
  <2>1. r \in RacerType /\ r.status # "COMPLETED"
    BY <1>1, <1>4, RaceFields DEF K!Racer, RacerType, Statuses
  <2>2. new = IF p.id = K!Self(k).id THEN view ELSE added BY <1>4 DEF K!RaceAfter, new
  <2> HIDE DEF r
  <2>3. /\ DOMAIN ps = 1 .. Len(view.players) + 1
        /\ \A n \in 1 .. Len(view.players) : ps[n] = view.players[n]
        /\ ps[Len(view.players) + 1] = r
    BY <1>2, <2>1, Appended
  <2>4. Len(view.players) \in Nat /\ DOMAIN view.players = 1 .. Len(view.players)
    BY <1>2, LenProperties
  <2>5. /\ added.victor = view.victor /\ added.victor_time = view.victor_time
        /\ added.status = view.status /\ added.progress = view.progress
        /\ added.players = ps
    BY <1>2 DEF RaceType
  <2> HIDE DEF added, ps
  <2>6. \A n \in DOMAIN ps : (n \in DOMAIN view.players /\ ps[n] = view.players[n]) \/ ps[n] = r
    BY <2>3, <2>4
  <2>7. \A x : Beats(view, x) => Beats(added, x) BY <2>5 DEF Beats
  <2>8. Beats(added, added) BY <2>5 DEF Best, Beats
  <2>9. Best(added)
    <3>1. ASSUME NEW n \in DOMAIN added.players PROVE Beats(added, added.players[n])
      <4>1. CASE ps[n] = r BY <2>1, <2>5, <4>1 DEF Beats
      <4>2. CASE n \in DOMAIN view.players /\ ps[n] = view.players[n]
        BY <2>5, <2>7, <4>2 DEF Best
      <4> QED BY <2>5, <2>6, <3>1, <4>1, <4>2
    <3> QED BY <2>8, <3>1 DEF Best
  <2>10. \A id : Finished(added, id) => Finished(view, id) BY <2>1, <2>5, <2>6 DEF Finished
  <2> QED BY <2>2, <2>5, <2>9, <2>10
<1>5. CASE p.type = "UPDATE_PROGRESS"
  <2> DEFINE r == [view.players[i] EXCEPT !.progress = p.progress]
             told == [view EXCEPT !.players[i] = r]
  <2>1. p.progress \in Int BY <1>5, RaceFields, LengthsType
  <2>2. new = IF p.id = K!Self(k).id THEN view
              ELSE IF i = 0 THEN [view EXCEPT !.progress = p.progress]
              ELSE [view EXCEPT !.players[i].progress = p.progress]
    BY <1>5 DEF K!RaceAfter, i, new
  <2>3. new = view \/ (i # 0 /\ new = told) BY <1>5, <2>2 DEF i
  <2>4. CASE new = view BY <2>4
  <2>5. CASE i # 0 /\ new = told
    <3>1. r \in RacerType /\ r.id = p.id /\ r.status = view.players[i].status
      BY <1>3, <2>1, <2>5 DEF RacerType
    <3>2. view.players[i].status # "COMPLETED" BY <1>3, <1>5, <2>5 DEF Finished
    <3>3. told.players = [view.players EXCEPT ![i] = r] /\ told.status = view.status
      BY <1>2 DEF RaceType
    <3> HIDE DEF r, told
    <3>4. Beats(view, r) BY <3>1, <3>2 DEF Beats
    <3>5. Best(told) BY <1>2, <1>3, <2>5, <3>1, <3>4, BestEdited DEF told
    <3>6. ASSUME NEW id, Finished(told, id) PROVE Finished(view, id)
      <4>1. PICK n \in DOMAIN told.players :
              told.players[n].id = id /\ told.players[n].status = "COMPLETED"
        BY <3>6 DEF Finished
      <4>2. n \in DOMAIN view.players BY <3>3, <4>1
      <4>3. n # i BY <3>1, <3>2, <3>3, <4>1, <4>2
      <4>4. told.players[n] = view.players[n] BY <3>3, <4>2, <4>3
      <4> QED BY <4>1, <4>2, <4>4 DEF Finished
    <3> QED BY <2>5, <3>3, <3>5, <3>6
  <2> QED BY <2>3, <2>4, <2>5
<1>6. CASE p.type = "PLAYER_COMPLETED"
  <2> DEFINE won == K!VictorAfter(view, p)
             r == [view.players[i] EXCEPT !.status = "COMPLETED", !.progress = p.time]
  <2>1. p.time \in Times /\ p.time \in Int BY <1>6, RaceFields, LengthsType
  <2>2. /\ won \in RaceType /\ won.players = view.players
        /\ won.status = view.status /\ won.progress = view.progress
        /\ won.victor # K!NoVictor /\ won.victor_time <= p.time
        /\ \A x : x.progress \in Int /\ Beats(view, x) => Beats(won, x)
    BY <1>1, <1>2, <2>1, VictorWins
  <2>3. new = IF i = 0 THEN [won EXCEPT !.status = "COMPLETED", !.progress = p.time]
              ELSE [won EXCEPT !.players[i].status = "COMPLETED", !.players[i].progress = p.time]
    BY <1>6 DEF K!RaceAfter, i, new
  <2> HIDE DEF won
  <2>4. Best(won)
    <3>1. view.progress \in Int BY <1>2, LengthsType DEF RaceType
    <3>2. \A n \in DOMAIN view.players : view.players[n].progress \in Int
      <4>1. \A n \in DOMAIN view.players : view.players[n] \in RacerType BY <1>2, ElementOfSeq
      <4> QED BY <4>1 DEF RacerType
    <3>3. Beats(won, view) BY <2>2, <3>1 DEF Best
    <3>4. Beats(won, won) BY <2>2, <3>3 DEF Beats
    <3> QED BY <2>2, <3>2, <3>4 DEF Best
  <2>5. CASE i = 0
    <3> DEFINE own == [won EXCEPT !.status = "COMPLETED", !.progress = p.time]
    <3>1. new = own BY <2>3, <2>5
    <3>2. /\ own.victor = won.victor /\ own.victor_time = won.victor_time
          /\ own.status = "COMPLETED" /\ own.progress = p.time /\ own.players = won.players
      BY <2>2 DEF RaceType
    <3> HIDE DEF own
    <3>3. \A x : Beats(won, x) => Beats(own, x) BY <3>2 DEF Beats
    <3>4. Beats(own, own) BY <2>2, <3>2 DEF Beats
    <3>5. Best(own) BY <2>4, <3>2, <3>3, <3>4 DEF Best
    <3>6. p.id = K!Self(k).id BY <1>6, <2>5 DEF i
    <3>7. \A id : Finished(own, id) => Finished(view, id) BY <2>2, <3>2 DEF Finished
    <3> QED BY <1>6, <3>1, <3>5, <3>6, <3>7
  <2>6. CASE i # 0
    <3> DEFINE other == [won EXCEPT !.players[i] = r]
    <3>1. r \in RacerType /\ r.id = p.id /\ r.status = "COMPLETED" /\ r.progress = p.time
      BY <1>3, <2>1, <2>6 DEF RacerType, Statuses
    <3>2. new = other
      <4>1. [won EXCEPT !.players[i].status = "COMPLETED", !.players[i].progress = p.time] = other
        BY <1>3, <2>2, <2>6 DEF RaceType, RacerType
      <4> QED BY <2>3, <2>6, <4>1
    <3>3. other.players = [won.players EXCEPT ![i] = r] /\ other.status = won.status
      BY <2>2 DEF RaceType
    <3> HIDE DEF r, other
    <3>4. Beats(won, r) BY <2>2, <3>1 DEF Beats
    <3>5. Best(other) BY <1>3, <2>2, <2>4, <2>6, <3>1, <3>4, BestEdited DEF other
    <3>6. ASSUME NEW id, Finished(other, id) PROVE Finished(view, id) \/ id = p.id
      <4>1. PICK n \in DOMAIN other.players :
              other.players[n].id = id /\ other.players[n].status = "COMPLETED"
        BY <3>6 DEF Finished
      <4>2. n \in DOMAIN view.players BY <2>2, <3>3, <4>1
      <4>3. CASE n = i BY <2>2, <3>1, <3>3, <4>1, <4>2, <4>3
      <4>4. CASE n # i BY <2>2, <3>3, <4>1, <4>2, <4>4 DEF Finished
      <4> QED BY <4>3, <4>4
    <3> QED BY <1>6, <2>2, <3>2, <3>3, <3>5, <3>6
  <2> QED BY <2>5, <2>6
<1> QED BY <1>4, <1>5, <1>6

-----------------------------------------------------------------------------
(* A client reads of the race *)

\* What client k makes of packet p.  It learns of no finish but from that
\* finish, keeps its own, and comes into a race by its start or its snapshot and
\* out of it by its end.
Learned(k, p) ==
    /\ \A c \in Slots : Knows(k, c)' => Knows(k, c) \/ p \in FinishesOf(c)
    /\ mode'[k] = "PLAYING" => Best(race'[k])
    /\ mode'[k] = "PLAYING" =>
         IF mode[k] = "PLAYING"
           THEN race'[k].complete = race[k].complete /\ ~Marks(p)
           ELSE p \in RaceMarks /\ (mode[k] = "LOBBY" => p \in Starts)
    /\ mode'[k] = "LOBBY" /\ mode[k] = "PLAYING" => p \in Ends

\* Nobody has finished a race that begins.
LEMMA NoneFinished ==
    ASSUME NEW k \in Clients, race'[k].status # "COMPLETED",
           \A i \in DOMAIN race'[k].players : race'[k].players[i].status # "COMPLETED"
    PROVE  Best(race'[k]) /\ \A c \in Slots : ~Knows(k, c)'
BY DEF Best, Beats, Knows

LEMMA FirstLearned ==
    ASSUME SystemInv, NEW k \in Clients, K!ReadFirst(k), NEW p, p = Head(K!Inbox(k))
    PROVE  Learned(k, p)
<1>1. ClientsTyped /\ mode[k] = "CONNECTING" /\ K!Inbox(k) # <<>> BY DEF SystemInv, K!ReadFirst
<1>2. p \in Packets BY <1>1, NextPacket
<1>3. CASE p.type # "ON_CONNECT"
  <2>1. mode' = [mode EXCEPT ![k] = "GARBLED"] BY <1>3 DEF K!ReadFirst
  <2>2. mode'[k] = "GARBLED" BY <1>1, <2>1 DEF ClientsTyped
  <2> QED BY <1>1, <2>2 DEF Learned, Knows
<1>4. CASE p.type = "ON_CONNECT"
  <2>1. p \in SnapshotPacket BY <1>2, <1>4, SnapshotOnly
  <2>2. CASE p.in_progress = 0
    <3>1. mode'[k] = "LOBBY" BY <1>1, <1>4, <2>2 DEF K!ReadFirst, K!EnterLobby, ClientsTyped
    <3> QED BY <1>1, <3>1 DEF Learned, Knows
  <2>3. CASE p.in_progress # 0
    <3>1. p.in_progress = 1 BY <2>1, <2>3, OthersType
    <3>2. K!EnterRace(k, p) BY <1>4, <2>3 DEF K!ReadFirst
    <3>3. /\ race'[k].status = "SPECTATOR"
          /\ race'[k].players = [i \in DOMAIN K!Others(p) |->
               K!Racer(K!Others(p)[i], p.players[K!Others(p)[i]].name,
                       p.players[K!Others(p)[i]].spectator = 1, p.players[K!Others(p)[i]].progress)]
      BY <1>1, <3>2 DEF K!EnterRace, ClientsTyped
    <3>4. \A i \in DOMAIN race'[k].players : race'[k].players[i].status # "COMPLETED"
      <4>1. \A id, nm, w, n : K!Racer(id, nm, w, n).status # "COMPLETED" BY DEF K!Racer
      <4>2. ASSUME NEW i \in DOMAIN race'[k].players
            PROVE  \E id, nm, w, n : race'[k].players[i] = K!Racer(id, nm, w, n)
        BY <3>3, SMTT(30)
      <4> QED BY <4>1, <4>2
    <3>5. Best(race'[k]) /\ \A c \in Slots : ~Knows(k, c)' BY <3>3, <3>4, NoneFinished
    <3>6. p \in RaceMarks BY <1>2, <1>4, <3>1 DEF RaceMarks, MarksRace
    <3> QED BY <1>1, <3>5, <3>6 DEF Learned
  <2> QED BY <2>2, <2>3
<1> QED BY <1>3, <1>4

LEMMA LobbyLearned ==
    ASSUME SystemInv, NEW k \in Clients, K!ReadLobby(k), NEW p, p = Head(K!Inbox(k))
    PROVE  Learned(k, p)
<1>1. ClientsTyped /\ mode[k] = "LOBBY" /\ K!Inbox(k) # <<>> BY DEF SystemInv, K!ReadLobby
<1>2. p \in Packets BY <1>1, NextPacket
<1>3. CASE mode'[k] # "PLAYING" BY <1>1, <1>3 DEF Learned, Knows
<1>4. CASE mode'[k] = "PLAYING"
  <2>1. p.type = "START" /\ K!StartRace(k, p)
    <3>1. \A m \in {"GARBLED", "ASTRAY"} : mode' # [mode EXCEPT ![k] = m]
      BY <1>1, <1>4 DEF ClientsTyped
    <3>2. mode' # mode BY <1>1, <1>4
    <3> QED BY <3>1, <3>2 DEF K!ReadLobby
  <2>2. /\ race'[k].status # "COMPLETED"
        /\ race'[k].players = [i \in 1 .. Len(list[k]) - 1 |->
             K!Racer(list[k][i + 1].id, list[k][i + 1].name, list[k][i + 1].spectate, 0)]
    BY <1>1, <2>1 DEF K!StartRace, ClientsTyped
  <2>3. \A i \in DOMAIN race'[k].players : race'[k].players[i].status # "COMPLETED"
    BY <2>2 DEF K!Racer
  <2>4. Best(race'[k]) /\ \A c \in Slots : ~Knows(k, c)' BY <2>2, <2>3, NoneFinished
  <2>5. p \in RaceMarks /\ p \in Starts BY <1>2, <2>1 DEF RaceMarks, MarksRace, Starts
  <2> QED BY <1>1, <2>4, <2>5 DEF Learned
<1> QED BY <1>3, <1>4

\* In the race a finish is somebody's who is in it, and no progress is told of
\* who has finished.
LEMMA RaceLearned ==
    ASSUME SystemInv, NEW k \in Clients, K!ReadRace(k), UNCHANGED clients,
           Told({}, k), DownOrdered(k), Best(race[k]), NEW p, p = Head(K!Inbox(k))
    PROVE  Learned(k, p)
<1>1. ClientsTyped /\ mode[k] = "PLAYING" /\ K!Inbox(k) # <<>> BY DEF SystemInv, K!ReadRace
<1>2. p \in Packets /\ socket[k] \in Sockets BY <1>1, NextPacket
<1>3. race[k] \in RaceType BY <1>1 DEF ClientsTyped
<1>4. down[socket[k]] \in Seq(Packets) /\ p = Head(down[socket[k]]) /\ down[socket[k]] # <<>>
  BY <1>1, <1>2 DEF SystemInv, WiresTyped, K!Inbox
<1>5. CASE p.type \notin K!RaceReads
  <2>1. mode' = [mode EXCEPT ![k] = "GARBLED"] BY <1>5 DEF K!ReadRace, K!RaceReads
  <2>2. mode'[k] = "GARBLED" BY <1>1, <2>1 DEF ClientsTyped
  <2> QED BY <2>2 DEF Learned, Knows
<1>6. CASE p.type = "GAME_OVER"
  <2>1. K!EndRace(k) BY <1>6 DEF K!ReadRace, K!RaceReads
  <2>2. mode'[k] = "LOBBY" BY <1>1, <2>1 DEF K!EndRace, ClientsTyped
  <2> QED BY <1>2, <1>6, <2>2 DEF Learned, Knows, Ends
<1>7. CASE p.type = "CANCEL_TIMER"
  <2>1. UNCHANGED <<mode, list, race, socket>> BY <1>7 DEF K!ReadRace, K!RaceReads
  <2>2. ~Marks(p) BY <1>7 DEF Marks
  <2> QED BY <1>1, <2>1, <2>2 DEF Learned, Knows
<1>8. p.type # "DISCONNECT"
  <2>1. p \notin Departures BY <1>4, LeftOver DEF DownOrdered
  <2> QED BY <1>2, <2>1 DEF Departures
<1>9. CASE p.type \in {"CONNECT", "UPDATE_PROGRESS", "PLAYER_COMPLETED"}
  <2> DEFINE i == K!RacerOf(k, p.id)
             new == K!RaceAfter(k, p)
  <2>1. race' = [race EXCEPT ![k] = K!Drawn(new)] /\ UNCHANGED <<mode, socket>>
    BY <1>9 DEF K!ReadRace, K!RaceReads
  <2>2. race'[k] = K!Drawn(new) /\ mode'[k] = "PLAYING" BY <1>1, <2>1 DEF ClientsTyped
  <2>3. new \in RaceType /\ new.complete = race[k].complete BY <1>1, <1>2, <1>3, <1>9, RaceAfterType
  <2>4. p.id \in Slots BY <1>2, <1>9, RaceFields
  <2>5. PICK v \in Views : Shows({}, list[k][1], race[k].players, v) /\ Fits(p, v)
    <3>1. Follows(k) BY <1>1 DEF Follows, InStep
    <3>2. PICK v \in Views, w \in Views : Sees({}, k, v) /\ Story(down[socket[k]], v, w)
      BY <3>1 DEF Told
    <3> QED BY <1>1, <1>4, <3>2, StoryHead DEF Sees
  <2>6. list[k][1].id = v.self BY <2>5 DEF Shows
  <2>7. i # 0 => i \in DOMAIN race[k].players /\ race[k].players[i].id = p.id
    BY <1>1, <1>3, <2>4, <2>5, RacerSeen
  <2>8. i = 0 /\ p.type # "CONNECT" => p.id = K!Self(k).id
    <3>1. p.type # "CONNECT" => p.id \in v.in BY <1>9, <2>5 DEF Fits, LooksUp
    <3>2. p.id \in v.in \ {v.self} => i # 0 BY <1>1, <1>3, <2>4, <2>5, RacerSeen
    <3> QED BY <2>6, <3>1, <3>2 DEF K!Self
  <2> HIDE DEF i
  <2>9. p.type = "UPDATE_PROGRESS" => ~Finished(race[k], p.id)
    <3>1. ASSUME p.type = "UPDATE_PROGRESS" PROVE ~Knows(k, p.id)
      <4>1. p \in ProgressesOf(p.id) BY <1>2, <3>1 DEF ProgressesOf
      <4>2. Carries(down[socket[k]], ProgressesOf(p.id)) BY <1>4, <4>1, LeftOver
      <4> QED BY <2>4, <4>2 DEF DownOrdered
    <3> QED BY <1>1, <3>1 DEF Knows, Finished
  <2>10. /\ Best(new)
         /\ new.status = "COMPLETED" =>
              \/ race[k].status = "COMPLETED"
              \/ p.type = "PLAYER_COMPLETED" /\ p.id = K!Self(k).id
         /\ \A id : Finished(new, id) =>
              Finished(race[k], id) \/ (p.type = "PLAYER_COMPLETED" /\ id = p.id)
    BY <1>1, <1>2, <1>3, <1>9, <2>7, <2>8, <2>9, RaceAfterBest DEF i
  <2> HIDE DEF new
  <2>11. /\ Best(race'[k]) /\ race'[k].status = new.status
         /\ race'[k].complete = race[k].complete
         /\ \A id : Finished(race'[k], id) => Finished(new, id)
    BY <2>2, <2>3, <2>10, DrawnBest, DrawnType
  <2>12. ASSUME NEW c \in Slots, Knows(k, c)' PROVE Knows(k, c) \/ p \in FinishesOf(c)
    <3>1. CASE Finished(race'[k], c)
      <4>1. Finished(race[k], c) \/ (p.type = "PLAYER_COMPLETED" /\ c = p.id)
        BY <2>10, <2>11, <3>1
      <4> QED BY <1>1, <1>2, <4>1 DEF Knows, Finished, FinishesOf
    <3>2. CASE clients[c] = socket[k] /\ race'[k].status = "COMPLETED"
      <4>1. CASE race[k].status = "COMPLETED" BY <1>1, <3>2, <4>1 DEF Knows
      <4>2. CASE p.type = "PLAYER_COMPLETED" /\ p.id = K!Self(k).id
        <5>1. clients[p.id] = socket[k] BY <1>1, <4>2 DEF K!Self, SystemInv, OwnIds, InStep
        <5>2. socket[k] # NoSocket BY <1>2, SocketAssumption
        <5>3. c \in Connected /\ p.id \in Connected BY <2>4, <3>2, <5>1, <5>2 DEF Connected
        <5>4. c = p.id BY <3>2, <5>1, <5>3 DEF SystemInv, TallyInv, SocketsDistinct
        <5> QED BY <1>2, <4>2, <5>4 DEF FinishesOf
      <4> QED BY <2>10, <2>11, <3>2, <4>1, <4>2
    <3> QED BY <2>1, <2>12, <3>1, <3>2 DEF Knows, Finished
  <2>13. ~Marks(p) BY <1>9 DEF Marks
  <2> QED BY <1>1, <2>2, <2>11, <2>12, <2>13 DEF Learned
<1> QED BY <1>5, <1>6, <1>7, <1>8, <1>9 DEF K!RaceReads

-----------------------------------------------------------------------------
(* What the server says of the race *)

\* The server reads a packet of S from slot c.
ReadsOf(c, S) ==
    c \in Connected /\ ServerReads(c) /\ up[clients[c]] # <<>> /\ Head(up[clients[c]]) \in S

\* It tells the phase it changes to, and of a racer what it reads from it.
Right(p) ==
    /\ p.type # "DISCONNECT"
    /\ p.type = "START" => currentState = 0 /\ currentState' = 1
    /\ p.type = "GAME_OVER" => currentState' = 0
    /\ MarksRace(p) => currentState' = 1
    /\ p.type = "UPDATE_PROGRESS" => p.id \in Slots /\ ReadsOf(p.id, Progresses)
    /\ p.type = "PLAYER_COMPLETED" => p.id \in Slots /\ ReadsOf(p.id, Finishes)
SaidRight(s) ==
    /\ \A i \in DOMAIN sent'[s] : Right(sent'[s][i])
    /\ \A i, j \in DOMAIN sent'[s] : i < j => sent'[s][i].type = "ON_CONNECT"
    /\ currentState = 1 /\ currentState' = 0 =>
         \E i \in DOMAIN sent'[s] : sent'[s][i].type = "GAME_OVER"

LEMMA SilentRight ==
    ASSUME NEW s \in Sockets, Silent, currentState' = currentState
    PROVE  SaidRight(s)
<1>1. sent'[s] = <<>> /\ DOMAIN sent'[s] = {} BY DEF Silent
<1>2. ~(currentState = 1 /\ currentState' = 0) OBVIOUS
<1> QED BY <1>1, <1>2 DEF SaidRight

LEMMA BroadcastRight ==
    ASSUME NEW s \in Sockets, s \in Open, NEW p, Broadcast(p), Right(p),
           currentState = 1 /\ currentState' = 0 => p.type = "GAME_OVER"
    PROVE  SaidRight(s)
<1>1. sent'[s] = <<p>> BY DEF Broadcast
<1>2. DOMAIN sent'[s] = {1} /\ sent'[s][1] = p BY <1>1
<1>3. \A i, j \in DOMAIN sent'[s] : ~(i < j) BY <1>2
<1> QED BY <1>2, <1>3 DEF SaidRight

\* A packet that is about neither phase nor race.
LEMMA ChatRight ==
    ASSUME NEW s \in Sockets, s \in Open, NEW p, Broadcast(p), currentState' = currentState,
           p.type \in {"TOGGLE_READY", "RELAY_SPECTATE", "RELAY_MESSAGE", "KILLME", "UPDATE_NAME",
                       "UPDATE_COLOR", "TEXT_SET", "UPDATE_TIMEOUT", "BEGIN_TIMER", "CANCEL_TIMER"}
    PROVE  SaidRight(s)
<1>1. Right(p) BY DEF Right, MarksRace
<1>2. ~(currentState = 1 /\ currentState' = 0) OBVIOUS
<1> QED BY <1>1, <1>2, BroadcastRight

LEMMA ReceiveRight ==
    ASSUME SystemInv, hungup = {}, NEW c \in Slots, ServerReads(c), NEW s \in Sockets, s \in Open
    PROVE  SaidRight(s)
<1>0. PICK m : m = Head(up[clients[c]]) OBVIOUS
<1>1. c \in Connected /\ up[clients[c]] # <<>> /\ packetRecievedCB(c, m)
  BY <1>0 DEF ServerReads
<1>2. m \in ClientPacket /\ m.type \notin Partings BY <1>0, <1>1, HeadStays
<1>3. ASSUME NEW p, Broadcast(p), currentState' = currentState,
             p.type \in {"TOGGLE_READY", "RELAY_SPECTATE", "RELAY_MESSAGE", "KILLME", "UPDATE_NAME",
                         "UPDATE_COLOR", "TEXT_SET", "UPDATE_TIMEOUT"}
      PROVE  SaidRight(s)
  BY <1>3, ChatRight
<1>4. CASE c \notin Players /\ m.type = "ON_CONNECT" /\ phOnConnect(c, m.name, m.color)
  <2> DEFINE p == Snapshot(c, m.name, m.color, spectator'[c])
             q == [type |-> "CONNECT", id |-> c, color |-> m.color, name |-> m.name]
  <2>1. currentState' = currentState BY <1>4 DEF phOnConnect, game
  <2>2. p.type = "ON_CONNECT" /\ p.in_progress = currentState BY DEF Snapshot
  <2>3. sent'[s] = IF s = clients[c] THEN <<p, q>> ELSE <<q>> BY <1>4 DEF phOnConnect
  <2>4. Right(p) BY <2>1, <2>2 DEF Right, MarksRace
  <2>5. Right(q) BY DEF Right, MarksRace
  <2> HIDE DEF p, q
  <2>6. ~(currentState = 1 /\ currentState' = 0) BY <2>1
  <2>7. CASE sent'[s] = <<q>>
    <3>1. DOMAIN sent'[s] = {1} /\ sent'[s][1] = q BY <2>7
    <3>2. \A i, j \in DOMAIN sent'[s] : ~(i < j) BY <3>1
    <3> QED BY <2>5, <2>6, <3>1, <3>2 DEF SaidRight
  <2>8. CASE sent'[s] = <<p, q>>
    <3>1. DOMAIN sent'[s] = {1, 2} /\ sent'[s][1] = p /\ sent'[s][2] = q BY <2>8
    <3>2. \A i, j \in DOMAIN sent'[s] : i < j => i = 1 BY <3>1
    <3> QED BY <2>2, <2>4, <2>5, <2>6, <3>1, <3>2 DEF SaidRight
  <2> QED BY <2>3, <2>7, <2>8
<1>5. CASE phToggleReady(c) BY <1>3, <1>5 DEF phToggleReady, game
<1>6. CASE phToggleSpectate(c) BY <1>3, <1>6 DEF phToggleSpectate, game
<1>7. CASE phChangeName(c, m.name) BY <1>3, <1>7 DEF phChangeName, game
<1>8. CASE phColor(c, m.color) BY <1>3, <1>8 DEF phColor, game
<1>9. CASE phSendMessage(c) \/ Relay(c, "KILLME") BY <1>3, <1>9 DEF phSendMessage, Relay, game
<1>10. CASE phTextSet(c, m.text) BY <1>3, <1>10 DEF phTextSet
<1>11. CASE phTimeout(c, m.timeout) BY <1>3, <1>11 DEF phTimeout, game
<1>12. CASE m.type = "SEND_PROGRESS" /\ phSendProgress(c, m.progress)
  <2> DEFINE p == [type |-> "UPDATE_PROGRESS", id |-> c, progress |-> m.progress]
  <2>1. Broadcast(p) /\ currentState' = currentState BY <1>12 DEF phSendProgress, game
  <2>2. ReadsOf(c, Progresses) BY <1>0, <1>1, <1>2, <1>12 DEF ReadsOf, Progresses
  <2>3. p.type = "UPDATE_PROGRESS" /\ p.id = c OBVIOUS
  <2> HIDE DEF p
  <2>4. Right(p) BY <2>2, <2>3 DEF Right, MarksRace
  <2>5. ~(currentState = 1 /\ currentState' = 0) BY <2>1
  <2> QED BY <2>1, <2>4, <2>5, BroadcastRight
<1>13. CASE m.type = "COMPLETED_TEXT" /\ phCompletedText(c, m.time)
  <2> DEFINE p == [type |-> "PLAYER_COMPLETED", id |-> c, time |-> m.time]
  <2>1. Broadcast(p) /\ currentState' = currentState BY <1>13 DEF phCompletedText
  <2>2. ReadsOf(c, Finishes) BY <1>0, <1>1, <1>2, <1>13 DEF ReadsOf, Finishes
  <2>3. p.type = "PLAYER_COMPLETED" /\ p.id = c OBVIOUS
  <2> HIDE DEF p
  <2>4. Right(p) BY <2>2, <2>3 DEF Right, MarksRace
  <2>5. ~(currentState = 1 /\ currentState' = 0) BY <2>1
  <2> QED BY <2>1, <2>4, <2>5, BroadcastRight
<1> QED BY <1>1, <1>2, <1>4, <1>5, <1>6, <1>7, <1>8, <1>9, <1>10, <1>11, <1>12, <1>13
        DEF packetRecievedCB, Partings

LEMMA TickRight ==
    ASSUME Tick, NEW s \in Sockets, s \in Open
    PROVE  SaidRight(s)
<1>1. ASSUME endGame PROVE SaidRight(s)
  <2>1. Broadcast([type |-> "GAME_OVER"]) /\ currentState' = 0 BY <1>1 DEF endGame
  <2>2. Right([type |-> "GAME_OVER"]) BY <2>1 DEF Right, MarksRace
  <2> QED BY <2>1, <2>2, BroadcastRight
<1>2. ASSUME startGame, currentState = 0 PROVE SaidRight(s)
  <2>1. PICK t \in Texts : Broadcast([type |-> "START", text_size |-> TextLength[t], text |-> t])
    BY <1>2 DEF startGame
  <2> DEFINE p == [type |-> "START", text_size |-> TextLength[t], text |-> t]
  <2>2. p.type = "START" OBVIOUS
  <2>3. Broadcast(p) BY <2>1
  <2> HIDE DEF p
  <2>4. currentState' = 1 BY <1>2 DEF startGame
  <2>5. Right(p) BY <1>2, <2>2, <2>4 DEF Right, MarksRace
  <2> QED BY <1>2, <2>3, <2>5, BroadcastRight
<1>3. ASSUME NEW n, Broadcast([type |-> "BEGIN_TIMER", seconds |-> n]), currentState' = currentState
      PROVE  SaidRight(s)
  BY <1>3, ChatRight
<1>4. ASSUME Broadcast([type |-> "CANCEL_TIMER"]), currentState' = currentState
      PROVE  SaidRight(s)
  BY <1>4, ChatRight
<1>5. CASE TickRacing BY <1>1, <1>5, SilentRight DEF TickRacing
<1>6. CASE TickCountdown BY <1>2, <1>3, <1>6, SilentRight DEF TickCountdown, SetTimer
<1>7. CASE TickUnready BY <1>4, <1>7, SilentRight DEF TickUnready, SetTimer
<1>8. CASE TickNobody BY <1>8, SilentRight DEF TickNobody, SetTimer
<1> QED BY <1>5, <1>6, <1>7, <1>8 DEF Tick

LEMMA ServerRight ==
    ASSUME SystemInv, hungup = {}, ServerStep, NEW s \in Sockets, s \in Open
    PROVE  SaidRight(s)
<1>1. CASE ServerAccepts BY <1>1, SilentRight DEF ServerAccepts, Accept, game
<1>2. ASSUME NEW c \in Slots, ServerReads(c) PROVE SaidRight(s) BY <1>2, ReceiveRight
<1>3. ASSUME NEW c \in Slots, ServerHangsUp(c) PROVE FALSE BY <1>3 DEF ServerHangsUp
<1>4. CASE ServerTicks BY <1>4, TickRight DEF ServerTicks
<1> QED BY <1>1, <1>2, <1>3, <1>4 DEF ServerStep

\* What that means for a stream.
LEMMA RightOrder ==
    ASSUME NEW s, SaidRight(s), sent'[s] \in Seq(Packets)
    PROVE  LET q == sent'[s]
           IN  /\ ~Carries(q, Departures) /\ Precludes(q, Ends, Starts)
               /\ Carries(q, Starts) => currentState = 0 /\ currentState' = 1
               /\ currentState = 1 /\ currentState' = 0 => Carries(q, Ends)
               /\ Carries(q, RaceMarks) => currentState' = 1
               /\ \A c : /\ Precludes(q, FinishesOf(c), ProgressesOf(c))
                         /\ Carries(q, ProgressesOf(c)) => ReadsOf(c, Progresses)
                         /\ Carries(q, FinishesOf(c)) => ReadsOf(c, Finishes)
<1> DEFINE q == sent'[s]
<1>1. \A i \in DOMAIN q : q[i] \in Packets BY ElementOfSeq, LenProperties
<1>2. /\ \A i \in DOMAIN q : Right(q[i])
      /\ \A i, j \in DOMAIN q : i < j => q[i].type = "ON_CONNECT"
      /\ currentState = 1 /\ currentState' = 0 => \E i \in DOMAIN q : q[i].type = "GAME_OVER"
  BY DEF SaidRight
<1> HIDE DEF q
<1>3. ~Carries(q, Departures) BY <1>2 DEF Carries, Departures, Right
<1>4. Precludes(q, Ends, Starts) BY <1>2 DEF Precludes, Ends
<1>5. Carries(q, Starts) => currentState = 0 /\ currentState' = 1
  BY <1>2 DEF Carries, Starts, Right
<1>6. currentState = 1 /\ currentState' = 0 => Carries(q, Ends) BY <1>1, <1>2 DEF Carries, Ends
<1>7. Carries(q, RaceMarks) => currentState' = 1 BY <1>2 DEF Carries, RaceMarks, Right
<1>8. ASSUME NEW c
      PROVE  /\ Precludes(q, FinishesOf(c), ProgressesOf(c))
             /\ Carries(q, ProgressesOf(c)) => ReadsOf(c, Progresses)
             /\ Carries(q, FinishesOf(c)) => ReadsOf(c, Finishes)
  <2>1. Precludes(q, FinishesOf(c), ProgressesOf(c)) BY <1>2 DEF Precludes, FinishesOf
  <2>2. Carries(q, ProgressesOf(c)) => ReadsOf(c, Progresses)
    BY <1>2 DEF Carries, ProgressesOf, Right
  <2>3. Carries(q, FinishesOf(c)) => ReadsOf(c, Finishes) BY <1>2 DEF Carries, FinishesOf, Right
  <2> QED BY <2>1, <2>2, <2>3
<1> QED BY <1>3, <1>4, <1>5, <1>6, <1>7, <1>8 DEF q

-----------------------------------------------------------------------------
(* A step of the server *)

\* Without anybody leaving, slots are only taken, from the backlog.
LEMMA PoolGrows ==
    ASSUME SystemInv, hungup = {}, PoolStep, NEW c \in Slots
    PROVE  /\ c \in Connected => c \in Connected' /\ clients'[c] = clients[c]
           /\ c \in Connected' \ Connected => clients'[c] \in Backlogged
<1>1. TypeOK /\ backlog \in Seq(Sockets) BY DEF SystemInv, TallyInv, WiresTyped
<1>2. CASE UNCHANGED clients BY <1>2 DEF Connected
<1>3. ASSUME backlog # <<>>, NEW d \in Slots, clients[d] = NoSocket,
             clients' = [clients EXCEPT ![d] = Head(backlog)]
      PROVE  /\ c \in Connected => c \in Connected' /\ clients'[c] = clients[c]
             /\ c \in Connected' \ Connected => clients'[c] \in Backlogged
  <2>1. Head(backlog) \in Backlogged BY <1>1, <1>3, Remaining DEF Backlogged
  <2>2. clients'[c] = IF c = d THEN Head(backlog) ELSE clients[c] BY <1>1, <1>3 DEF TypeOK
  <2> QED BY <1>3, <2>1, <2>2 DEF Connected
<1> QED BY <1>2, <1>3 DEF PoolStep

\* A client that listens has a connection of its own, which delivers.
LEMMA ListenersHear ==
    ASSUME SystemInv, hungup = {}, NEW j \in Clients, Listens(j)
    PROVE  /\ socket[j] \in Sockets /\ socket[j] # NoSocket /\ socket[j] \notin Deaf
           /\ mode[j] # "CONNECTING" => socket[j] \in Open /\ socket[j] \notin Backlogged
<1>1. ClientsTyped /\ Wired BY DEF SystemInv
<1>2. socket[j] # NoSocket BY <1>1 DEF Listens, Wired
<1>3. socket[j] \in Sockets BY <1>1, <1>2 DEF ClientsTyped
<1>4. ASSUME NEW k \in Clients, K!Lost(k) PROVE socket[k] # socket[j]
  <2>1. k # j BY <1>4 DEF K!Lost, Listens
  <2> QED BY <1>1, <1>2, <2>1 DEF Wired
<1>5. mode[j] # "CONNECTING" => socket[j] \in Open BY <1>1 DEF Wired, InStep, Listens
<1> QED BY <1>1, <1>2, <1>3, <1>4, <1>5 DEF Wired, Deaf

\* What is under way to the server was so before.
LEMMA StreamsShrink ==
    ASSUME SystemInv, ServerStep, NEW s \in Sockets, NEW S, NEW T
    PROVE  /\ Carries(up'[s], S) => Carries(up[s], S)
           /\ Precludes(up[s], S, T) => Precludes(up'[s], S, T)
<1>1. up[s] \in Seq(ClientPacket) BY DEF SystemInv, WiresTyped
<1>2. StreamStep BY ServerMoves
<1>3. CASE up'[s] = up[s] BY <1>3
<1>4. ASSUME NEW n \in 1 .. Len(up[s]), up'[s] = SubSeq(up[s], n + 1, Len(up[s]))
      PROVE  /\ Carries(up'[s], S) => Carries(up[s], S)
             /\ Precludes(up[s], S, T) => Precludes(up'[s], S, T)
  <2>1. LET t == SubSeq(up[s], n + 1, Len(up[s]))
        IN  /\ Carries(t, S) => Carries(up[s], S)
            /\ Precludes(up[s], S, T) => Precludes(t, S, T)
    BY <1>1, LeftLater
  <2> QED BY <1>4, <2>1
<1> QED BY <1>2, <1>3, <1>4 DEF StreamStep

\* Whom the server reads a finish from has sent no progress after it.
LEMMA FinishLast ==
    ASSUME SystemInv, UpInv, ServerStep, NEW c, ReadsOf(c, Finishes)
    PROVE  Carries(up[clients[c]], Finishes) /\ ~Carries(up'[clients[c]], Progresses)
<1> DEFINE s == clients[c]
<1>1. c \in Connected /\ ServerReads(c) /\ up[s] # <<>> /\ Head(up[s]) \in Finishes BY DEF ReadsOf
<1>2. s \in Sockets BY <1>1, HeadStays
<1>3. up[s] \in Seq(ClientPacket) /\ up \in [Sockets -> Seq(ClientPacket)]
  BY <1>2 DEF SystemInv, WiresTyped
<1>4. PICK n \in 1 .. MaxCoalesce :
        n <= Len(up[s]) /\ up' = [up EXCEPT ![s] = SubSeq(up[s], n + 1, Len(up[s]))]
  BY <1>1 DEF ServerReads
<1>5. n \in 1 .. Len(up[s]) BY <1>3, <1>4, LenProperties
<1>6. up'[s] = SubSeq(up[s], n + 1, Len(up[s])) BY <1>2, <1>3, <1>4
<1>7. Precludes(up[s], Finishes, Progresses) BY <1>2 DEF UpInv
<1> HIDE DEF s
<1>8. LET t == SubSeq(up[s], n + 1, Len(up[s]))
      IN  Precludes(up[s], Finishes, Progresses) =>
            Precludes(t, Finishes, Progresses) /\ (Head(up[s]) \in Finishes => ~Carries(t, Progresses))
  BY <1>3, <1>5, LeftLater
<1>9. Carries(up[s], Finishes) BY <1>1, <1>3, LeftOver
<1> QED BY <1>1, <1>6, <1>7, <1>8, <1>9 DEF s

\* A step of the server teaches a client of no finish but one it reads.
LEMMA KnowsStill ==
    ASSUME SystemInv, hungup = {}, ServerStep, NEW j \in Clients, NEW c \in Slots, Knows(j, c)'
    PROVE  Knows(j, c)
<1>1. UNCHANGED kurai /\ PoolStep BY ServerMoves
<1>2. mode[j] = "PLAYING" BY <1>1 DEF Knows, kurai
<1>3. socket[j] # NoSocket /\ socket[j] \notin Backlogged BY <1>2, ListenersHear DEF Listens
<1>4. clients'[c] = socket[j] => clients[c] = socket[j]
  <2>1. ASSUME clients'[c] = socket[j] PROVE c \in Connected
    <3>1. c \in Connected' BY <1>3, <2>1 DEF Connected
    <3> QED BY <1>1, <1>3, <2>1, <3>1, PoolGrows
  <2> QED BY <1>1, <2>1, PoolGrows
<1> QED BY <1>1, <1>4 DEF Knows, kurai

LEMMA LearnsStill ==
    ASSUME SystemInv, hungup = {}, ServerStep, NEW j \in Clients, NEW c \in Slots, Learns(j, c)'
    PROVE  Learns(j, c) \/ ReadsOf(c, Finishes)
<1>1. mode' = mode /\ socket' = socket BY ServerMoves DEF kurai
<1>2. Listens(j) BY <1>1 DEF Learns, Listens
<1>3. CASE Knows(j, c)' BY <1>2, <1>3, KnowsStill DEF Learns
<1>4. CASE Carries(down'[socket[j]], FinishesOf(c))
  <2> DEFINE s == socket[j]
  <2>1. /\ s \in Sockets
        /\ s \notin Open => down'[s] = <<>>
        /\ s \in Open => /\ down'[s] = down[s] \o sent'[s]
                         /\ down[s] \in Seq(Packets) /\ sent'[s] \in Seq(Packets)
    BY <1>2, Delivered DEF Listens
  <2> HIDE DEF s
  <2>2. s \in Open BY <1>4, <2>1, Nothing DEF s
  <2>3. CASE Carries(down[s], FinishesOf(c)) BY <1>2, <2>3 DEF Learns, s
  <2>4. CASE Carries(sent'[s], FinishesOf(c)) BY <2>1, <2>2, <2>4, ServerRight, RightOrder
  <2> QED BY <1>4, <2>1, <2>2, <2>3, <2>4, CarriesJoined DEF s
<1> QED BY <1>1, <1>3, <1>4 DEF Learns

\* For nobody does it make the race over.
LEMMA OverStill ==
    ASSUME SystemInv, hungup = {}, ServerStep, UpInv, LearnInv, NEW c \in Connected', Over(c)'
    PROVE  c \in Connected /\ clients'[c] = clients[c] /\ Over(c)
<1>1. PoolStep BY ServerMoves
<1>2. c \in Slots BY DEF Connected
<1>3. ASSUME c \notin Connected PROVE FALSE
  <2> DEFINE s == clients'[c]
  <2>1. s \in Backlogged BY <1>1, <1>2, <1>3, PoolGrows
  <2>2. s \in Sockets BY <2>1, SocketsHeld
  <2>3. ~Carries(up'[s], Finishes) BY <2>1, <2>2, StreamsShrink DEF UpInv
  <2>4. ASSUME NEW j \in Clients, Learns(j, c)' PROVE FALSE
    BY <1>2, <1>3, <2>4, LearnsStill DEF LearnInv, ReadsOf
  <2> QED BY <2>3, <2>4 DEF Over
<1>4. clients'[c] = clients[c] BY <1>1, <1>2, <1>3, PoolGrows
<1>5. CASE Carries(up'[clients[c]], Finishes)
  <2>1. clients[c] \in Sockets BY <1>3, SocketsHeld DEF Open
  <2> QED BY <1>3, <1>4, <1>5, <2>1, StreamsShrink DEF Over
<1>6. ASSUME NEW j \in Clients, Learns(j, c)' PROVE Over(c)
  <2>1. CASE Learns(j, c) BY <2>1 DEF Over
  <2>2. CASE ReadsOf(c, Finishes) BY <2>2, FinishLast DEF Over
  <2> QED BY <1>2, <1>6, <2>1, <2>2, LearnsStill
<1> QED BY <1>3, <1>4, <1>5, <1>6 DEF Over

\* When a race starts, it is over for nobody, and no end is on its way.
LEMMA StartsClear ==
    ASSUME SystemInv, hungup = {}, DownInv, StartsSettled, ServerStep,
           NEW k \in Clients, Listens(k), socket[k] \in Open, Carries(sent'[socket[k]], Starts)
    PROVE  /\ ~Carries(down[socket[k]], Ends)
           /\ \A c \in Connected : ~Over(c)
<1>1. currentState = 0 /\ Settled
  <2>1. socket[k] \in Sockets /\ sent'[socket[k]] \in Seq(Packets) BY Delivered DEF Listens
  <2>2. SaidRight(socket[k]) BY <2>1, ServerRight
  <2>3. currentState = 0 /\ currentState' = 1 BY <2>1, <2>2, RightOrder
  <2> QED BY <2>3 DEF StartsSettled
<1>2. ASSUME NEW j \in Clients, Listens(j)
      PROVE  ~Carries(down[socket[j]], Ends) /\ \A c : ~Carries(down[socket[j]], FinishesOf(c))
  <2>1. socket[j] \in Sockets \ Deaf BY <1>2, ListenersHear
  <2>2. \A i \in DOMAIN down[socket[j]] : down[socket[j]][i].type \notin RacePackets
    BY <1>1, <2>1 DEF Settled
  <2> QED BY <2>2 DEF Carries, Ends, FinishesOf, RacePackets
<1>3. ASSUME NEW j \in Clients, NEW c, Learns(j, c) PROVE FALSE
  <2>1. Listens(j) /\ Knows(j, c) BY <1>2, <1>3 DEF Learns
  <2>2. mode[j] = "PLAYING" /\ EndsTold(j) BY <1>1, <2>1 DEF Knows, DownInv
  <2> QED BY <1>2, <2>1, <2>2 DEF EndsTold
<1>4. ASSUME NEW c \in Connected PROVE ~Carries(up[clients[c]], Finishes)
  <2>1. clients[c] \in Sockets BY SocketsHeld DEF Open
  <2>2. \A i \in DOMAIN up[clients[c]] : up[clients[c]][i].type \notin RacePackets
    BY <1>1, <2>1 DEF Settled
  <2> QED BY <2>2 DEF Carries, Finishes, RacePackets
<1> QED BY <1>2, <1>3, <1>4 DEF Over

\* The server keeps the order of what clients send, and of whom it is over for.
LEMMA ServerKeepsUp ==
    ASSUME SystemInv, UpInv, ServerStep
    PROVE  UpInv'
<1>1. Backlogged' \subseteq Backlogged BY ServerMoves, PoolSets
<1>2. Backlogged \subseteq Sockets BY SocketsHeld
<1> QED BY <1>1, <1>2, StreamsShrink DEF UpInv

LEMMA ServerKeepsLearn ==
    ASSUME SystemInv, hungup = {}, UpInv, LearnInv, ServerStep
    PROVE  LearnInv'
<1>1. PoolStep BY ServerMoves
<1>2. ASSUME NEW c \in Slots, NEW j \in Clients, Learns(j, c)'
      PROVE  c \in Connected /\ ~Carries(up'[clients[c]], Progresses)
  <2>1. CASE Learns(j, c)
    <3>1. c \in Connected /\ ~Carries(up[clients[c]], Progresses) BY <2>1 DEF LearnInv
    <3>2. clients[c] \in Sockets BY <3>1, SocketsHeld DEF Open
    <3> QED BY <3>1, <3>2, StreamsShrink
  <2>2. CASE ReadsOf(c, Finishes) BY <2>2, FinishLast DEF ReadsOf
  <2> QED BY <1>2, <2>1, <2>2, LearnsStill
<1>3. \A c \in Slots : c \in Connected => c \in Connected' /\ clients'[c] = clients[c]
  BY <1>1, PoolGrows
<1>4. Connected' \subseteq Slots BY DEF Connected
<1> QED BY <1>2, <1>3, <1>4 DEF LearnInv

LEMMA ServerKeepsOver ==
    ASSUME SystemInv, hungup = {}, UpInv, LearnInv, OverInv, DownInv, StartsSettled, ServerStep
    PROVE  OverInv'
<1>1. mode' = mode /\ socket' = socket /\ race' = race BY ServerMoves DEF kurai
<1>2. ASSUME NEW c \in Connected', NEW k \in Clients, clients'[c] = socket[k], Over(c)'
      PROVE  Done(k)'
  <2>1. c \in Connected /\ clients[c] = socket[k] /\ Over(c) BY <1>2, OverStill
  <2>2. Done(k) BY <2>1 DEF OverInv
  <2>3. ASSUME mode[k] = "LOBBY" PROVE ~Carries(down'[socket[k]], Starts)
    <3>1. Listens(k) BY <2>3 DEF Listens
    <3>2. socket[k] \in Open BY <2>3, <3>1, ListenersHear
    <3>3. /\ down'[socket[k]] = down[socket[k]] \o sent'[socket[k]]
          /\ down[socket[k]] \in Seq(Packets) /\ sent'[socket[k]] \in Seq(Packets)
      BY <2>3, <3>2, Delivered
    <3>4. ~Carries(down[socket[k]], Starts) BY <2>2, <2>3 DEF Done
    <3>5. ~Carries(sent'[socket[k]], Starts) BY <2>1, <3>1, <3>2, StartsClear
    <3> QED BY <3>3, <3>4, <3>5, CarriesJoined
  <2> QED BY <1>1, <2>2, <2>3 DEF Done
<1> QED BY <1>1, <1>2 DEF OverInv

\* What it adds to a stream comes in order.
LEMMA ServerKeepsDown ==
    ASSUME SystemInv, hungup = {}, LearnInv, DownInv, StartsSettled, ServerStep
    PROVE  DownInv'
<1>1. mode' = mode /\ socket' = socket BY ServerMoves DEF kurai
<1>2. SUFFICES ASSUME NEW j \in Clients, Listens(j)
               PROVE  DownOrdered(j)' /\ (currentState' = 0 => EndsTold(j)')
  BY <1>1 DEF DownInv, Listens
<1> DEFINE s == socket[j]
           q == down[s]
           t == sent'[s]
<1>3. /\ s \in Sockets
      /\ s \notin Open => down'[s] = <<>>
      /\ s \in Open => down'[s] = q \o t /\ q \in Seq(Packets) /\ t \in Seq(Packets)
  BY <1>2, Delivered DEF Listens
<1>4. CASE s \notin Open
  <2>1. mode[j] = "CONNECTING" BY <1>2, <1>4, ListenersHear
  <2>2. down'[socket'[j]] = <<>> /\ mode'[j] # "PLAYING" BY <1>1, <1>3, <1>4, <2>1
  <2> QED BY <2>2, Nothing DEF DownOrdered, EndsTold, Knows
<1>5. CASE s \in Open
  <2>0. q \in Seq(Packets) /\ t \in Seq(Packets) /\ down'[socket'[j]] = q \o t
    BY <1>1, <1>3, <1>5
  <2>1. DownOrdered(j) /\ (currentState = 0 => EndsTold(j)) BY <1>2 DEF DownInv
  <2>2. /\ ~Carries(t, Departures) /\ Precludes(t, Ends, Starts)
        /\ currentState = 1 /\ currentState' = 0 => Carries(t, Ends)
        /\ Carries(t, RaceMarks) => currentState' = 1
        /\ \A c : /\ Precludes(t, FinishesOf(c), ProgressesOf(c))
                  /\ Carries(t, ProgressesOf(c)) => ReadsOf(c, Progresses)
    BY <1>3, <1>5, <2>0, ServerRight, RightOrder
  <2>3. Carries(q, Ends) => ~Carries(t, Starts) BY <1>2, <1>5, StartsClear
  <2>4. ASSUME NEW c \in Slots, Learns(j, c) PROVE ~Carries(t, ProgressesOf(c))
    <3>1. ASSUME ReadsOf(c, Progresses) PROVE FALSE
      <4>1. c \in Connected /\ up[clients[c]] # <<>> /\ Head(up[clients[c]]) \in Progresses
        BY <3>1 DEF ReadsOf
      <4>2. clients[c] \in Sockets BY <4>1, SocketsHeld DEF Open
      <4>3. up[clients[c]] \in Seq(ClientPacket) BY <4>2 DEF SystemInv, WiresTyped
      <4>4. Carries(up[clients[c]], Progresses) BY <4>1, <4>3, LeftOver
      <4> QED BY <2>4, <4>1, <4>4 DEF LearnInv
    <3> QED BY <2>2, <3>1
  <2>5. ASSUME NEW c \in Slots
        PROVE  /\ Precludes(q, FinishesOf(c), ProgressesOf(c))
               /\ Carries(q, FinishesOf(c)) => ~Carries(t, ProgressesOf(c))
               /\ Knows(j, c)' => ~Carries(q, ProgressesOf(c)) /\ ~Carries(t, ProgressesOf(c))
    <3>1. Precludes(q, FinishesOf(c), ProgressesOf(c)) BY <2>1 DEF DownOrdered
    <3>2. Carries(q, FinishesOf(c)) => Learns(j, c) BY <1>2 DEF Learns
    <3>3. Knows(j, c)' => Knows(j, c) BY KnowsStill
    <3>4. Knows(j, c) => Learns(j, c) /\ ~Carries(q, ProgressesOf(c))
      BY <1>2, <2>1 DEF Learns, DownOrdered
    <3> QED BY <2>4, <3>1, <3>2, <3>3, <3>4
  <2>6. ASSUME currentState' = 0
        PROVE  /\ Entails(q, RaceMarks, Ends) \/ Carries(t, Ends)
               /\ Entails(t, RaceMarks, Ends)
               /\ mode[j] = "PLAYING" => Carries(q, Ends) \/ Carries(t, Ends)
    <3>1. Entails(t, RaceMarks, Ends) BY <2>2, <2>6, Apart
    <3>2. currentState \in {0, 1} BY DEF SystemInv, TallyInv, TypeOK
    <3>3. CASE currentState = 0 BY <2>1, <3>1, <3>3 DEF EndsTold
    <3>4. CASE currentState = 1 BY <2>2, <2>6, <3>1, <3>4
    <3> QED BY <3>2, <3>3, <3>4
  <2>7. Precludes(q, Ends, Starts) /\ ~Carries(q, Departures) BY <2>1 DEF DownOrdered
  <2> HIDE DEF q, t
  <2>8. Precludes(q \o t, Ends, Starts) BY <2>0, <2>2, <2>3, <2>7, PrecludesJoined
  <2>9. ~Carries(q \o t, Departures) BY <2>0, <2>2, <2>7, CarriesJoined
  <2>10. ASSUME NEW c \in Slots
         PROVE  /\ Precludes(q \o t, FinishesOf(c), ProgressesOf(c))
                /\ Knows(j, c)' => ~Carries(q \o t, ProgressesOf(c))
    <3>1. Precludes(t, FinishesOf(c), ProgressesOf(c)) BY <2>2
    <3>2. Precludes(q \o t, FinishesOf(c), ProgressesOf(c))
      BY <2>0, <2>5, <3>1, PrecludesJoined
    <3> QED BY <2>0, <2>5, <3>2, CarriesJoined
  <2>11. ASSUME currentState' = 0
         PROVE  /\ Entails(q \o t, RaceMarks, Ends)
                /\ mode[j] = "PLAYING" => Carries(q \o t, Ends)
    BY <2>0, <2>6, <2>11, EntailsJoined, CarriesJoined
  <2> QED BY <1>1, <2>0, <2>8, <2>9, <2>10, <2>11 DEF DownOrdered, EndsTold
<1> QED BY <1>4, <1>5

LEMMA ServerKeepsFinishInv ==
    ASSUME SystemInv, hungup = {}, FinishInv, StartsSettled, ServerStep
    PROVE  FinishInv'
<1>1. UpInv' /\ LearnInv' /\ OverInv' /\ DownInv'
  BY ServerKeepsUp, ServerKeepsLearn, ServerKeepsOver, ServerKeepsDown DEF FinishInv
<1>2. BestInv'
  <2>1. mode' = mode /\ race' = race BY ServerMoves DEF kurai
  <2> QED BY <2>1 DEF FinishInv, BestInv
<1> QED BY <1>1, <1>2 DEF FinishInv

-----------------------------------------------------------------------------
(* A step of a client *)

\* To the others it is nothing.
LEMMA OthersFollow ==
    ASSUME SystemInv, NEW k \in Clients, ClientStep(k), NEW j \in Clients \ {k},
           mode'[j] # "DISCONNECTED"
    PROVE  /\ mode'[j] = mode[j] /\ socket'[j] = socket[j] /\ race'[j] = race[j]
           /\ \A c : Learns(j, c)' <=> Learns(j, c)
           /\ Done(j) => Done(j)'
           /\ DownOrdered(j) => DownOrdered(j)'
           /\ EndsTold(j) => EndsTold(j)'
<1>1. /\ mode'[j] = mode[j] /\ socket'[j] = socket[j] /\ race'[j] = race[j]
      /\ down'[socket[j]] = down[socket[j]]
  BY OthersKept
<1>2. clients' = clients BY DEF ClientStep, pool
<1>3. \A c : Knows(j, c)' <=> Knows(j, c) BY <1>1, <1>2 DEF Knows
<1>4. \A c : Learns(j, c)' <=> Learns(j, c) BY <1>1, <1>3 DEF Learns, Listens
<1>5. Done(j) => Done(j)' BY <1>1 DEF Done
<1>6. DownOrdered(j) => DownOrdered(j)' BY <1>1, <1>3 DEF DownOrdered
<1>7. EndsTold(j) => EndsTold(j)' BY <1>1 DEF EndsTold
<1> QED BY <1>1, <1>4, <1>5, <1>6, <1>7

\* What it has to do for itself: it learns of no finish, reports nothing once it
\* is over for it, and what is under way to it stays in order.
OwnKept(k) ==
    /\ \A c \in Slots : Learns(k, c)' => Learns(k, c)
    /\ \A c \in Connected : /\ Over(c) /\ Carries(up'[clients[c]], Progresses) =>
                                 Carries(up[clients[c]], Progresses)
                            /\ Carries(up'[clients[c]], Finishes) =>
                                 Carries(up[clients[c]], Finishes) \/ clients[c] = socket[k]
                            /\ clients[c] = socket'[k] /\ Over(c)' => Done(k)'
    /\ Listens(k)' => DownOrdered(k)' /\ (currentState = 0 => EndsTold(k)')
    /\ mode'[k] = "PLAYING" => Best(race'[k])

LEMMA OwnKeptInv ==
    ASSUME SystemInv, FinishInv, NEW k \in Clients, ClientStep(k), UpInv', OwnKept(k)
    PROVE  FinishInv'
<1>1. /\ Wired /\ SystemInv' BY ClientStepInv DEF SystemInv
<1>2. clients' = clients /\ currentState' = currentState /\ Connected' = Connected
  BY DEF ClientStep, pool, game, Connected
<1>3. ASSUME NEW c \in Slots, NEW j \in Clients, Learns(j, c)' PROVE Learns(j, c)
  <2>1. CASE j = k BY <1>3, <2>1 DEF OwnKept
  <2>2. CASE j # k
    <3>1. mode'[j] # "DISCONNECTED" BY <1>3 DEF Learns, Listens
    <3> QED BY <1>3, <2>2, <3>1, OthersFollow
  <2> QED BY <2>1, <2>2
<1>4. LearnInv'
  <2>1. ASSUME NEW c \in Connected, NEW j \in Clients, Learns(j, c)'
        PROVE  ~Carries(up'[clients[c]], Progresses)
    <3>1. c \in Slots BY DEF Connected
    <3>2. Learns(j, c) BY <1>3, <2>1, <3>1
    <3>3. Over(c) /\ ~Carries(up[clients[c]], Progresses)
      BY <3>2 DEF Over, FinishInv, LearnInv
    <3> QED BY <3>3 DEF OwnKept
  <2>2. \A c \in Slots \ Connected, j \in Clients : ~Learns(j, c)'
    BY <1>3 DEF FinishInv, LearnInv
  <2> QED BY <1>2, <2>1, <2>2 DEF LearnInv
<1>5. OverInv'
  <2>1. ASSUME NEW c \in Connected, NEW j \in Clients, clients[c] = socket'[j], Over(c)'
        PROVE  Done(j)'
    <3>1. CASE j = k BY <2>1, <3>1 DEF OwnKept
    <3>2. CASE j # k
      <4>1. clients[c] # NoSocket /\ c \in Slots BY DEF Connected
      <4>2. mode'[j] # "DISCONNECTED" BY <1>1, <2>1, <4>1 DEF SystemInv, Wired
      <4>3. socket'[j] = socket[j] /\ (Done(j) => Done(j)') BY <3>2, <4>2, OthersFollow
      <4>4. clients[c] # socket[k] BY <1>1, <2>1, <3>2, <4>1, <4>3 DEF Wired
      <4>5. Over(c)
        <5>1. CASE Carries(up'[clients[c]], Finishes)
          BY <4>4, <5>1 DEF OwnKept, Over
        <5>2. ASSUME NEW i \in Clients, Learns(i, c)' PROVE Over(c)
          BY <1>3, <4>1, <5>2 DEF Over
        <5> QED BY <1>2, <2>1, <5>1, <5>2 DEF Over
      <4> QED BY <2>1, <4>3, <4>5 DEF FinishInv, OverInv
    <3> QED BY <3>1, <3>2
  <2> QED BY <1>2, <2>1 DEF OverInv
<1>6. DownInv'
  <2>1. ASSUME NEW j \in Clients, Listens(j)'
        PROVE  DownOrdered(j)' /\ (currentState = 0 => EndsTold(j)')
    <3>1. CASE j = k BY <2>1, <3>1 DEF OwnKept
    <3>2. CASE j # k
      <4>1. mode'[j] # "DISCONNECTED" BY <2>1 DEF Listens
      <4>2. Listens(j) BY <2>1, <3>2, <4>1, OthersFollow DEF Listens
      <4> QED BY <3>2, <4>1, <4>2, OthersFollow DEF FinishInv, DownInv
    <3> QED BY <3>1, <3>2
  <2> QED BY <1>2, <2>1 DEF DownInv
<1>7. BestInv'
  <2>1. ASSUME NEW j \in Clients, mode'[j] = "PLAYING" PROVE Best(race'[j])
    <3>1. CASE j = k BY <2>1, <3>1 DEF OwnKept
    <3>2. CASE j # k
      <4>1. mode'[j] = mode[j] /\ race'[j] = race[j] BY <2>1, <3>2, OthersFollow
      <4> QED BY <2>1, <4>1 DEF FinishInv, BestInv
    <3> QED BY <3>1, <3>2
  <2> QED BY <2>1 DEF BestInv, Best, Beats
<1> QED BY <1>4, <1>5, <1>6, <1>7 DEF FinishInv

\* Somebody who connects brings only its name.
LEMMA ConnectsClean ==
    ASSUME SystemInv, FinishInv, NEW k \in Clients, NEW s \in Sockets, ClientConnects(k, s)
    PROVE  UpInv' /\ OwnKept(k)
<1>1. ClientsTyped /\ WiresTyped /\ UpInv BY DEF SystemInv, FinishInv
<1>2. /\ s \notin Open /\ s \notin Backlogged /\ backlog' = Append(backlog, s)
      /\ mode' = [mode EXCEPT ![k] = "CONNECTING"] /\ socket' = [socket EXCEPT ![k] = s]
      /\ down' = [down EXCEPT ![s] = <<>>]
  BY DEF ClientConnects, Fresh, K!Connect
<1>3. PICK p : p.type = "ON_CONNECT" /\ up' = [up EXCEPT ![s] = <<p>>]
  <2>1. PICK col \in Colors :
          up' = [up EXCEPT ![s] =
            <<[type |-> "ON_CONNECT", name |-> K!Self(k).name, color |-> col]>>]
    BY DEF ClientConnects, K!Connect
  <2>2. [type |-> "ON_CONNECT", name |-> K!Self(k).name, color |-> col].type = "ON_CONNECT"
    OBVIOUS
  <2> QED BY <2>1, <2>2
<1>4. /\ up'[s] = <<p>> /\ \A z \in Sockets \ {s} : up'[z] = up[z]
      /\ mode'[k] = "CONNECTING" /\ socket'[k] = s /\ down'[s] = <<>>
  BY <1>1, <1>2, <1>3 DEF ClientsTyped, WiresTyped
<1>5. ~Carries(up'[s], Finishes) /\ ~Carries(up'[s], Progresses)
  BY <1>3, <1>4, Single DEF Finishes, Progresses
<1>6. Backlogged' \subseteq Backlogged \cup {s}
  <2>1. /\ DOMAIN backlog' = 1 .. Len(backlog) + 1 /\ backlog'[Len(backlog) + 1] = s
        /\ \A i \in 1 .. Len(backlog) : backlog'[i] = backlog[i]
    BY <1>1, <1>2, Appended DEF WiresTyped
  <2>2. Len(backlog) \in Nat /\ DOMAIN backlog = 1 .. Len(backlog)
    BY <1>1, LenProperties DEF WiresTyped
  <2>3. \A i \in DOMAIN backlog' : i \in DOMAIN backlog \/ i = Len(backlog) + 1
    BY <2>1, <2>2
  <2> QED BY <2>1, <2>2, <2>3 DEF Backlogged
<1>7. Backlogged \subseteq Sockets BY SocketsHeld
<1>8. UpInv'
  <2>1. ASSUME NEW z \in Sockets PROVE Precludes(up'[z], Finishes, Progresses)
    BY <1>1, <1>4, <1>5, Apart DEF UpInv
  <2>2. ASSUME NEW z \in Backlogged'
        PROVE  ~Carries(up'[z], Finishes) /\ ~Carries(up'[z], Progresses)
    BY <1>1, <1>2, <1>4, <1>5, <1>6, <1>7, <2>2 DEF UpInv
  <2> QED BY <2>1, <2>2 DEF UpInv
<1>9. \A c \in Connected : clients[c] \in Sockets \ {s}
  <2>1. ASSUME NEW c \in Connected PROVE clients[c] \in Sockets \ {s}
    <3>1. clients[c] \in Open BY DEF Open
    <3> QED BY <1>2, <3>1, SocketsHeld
  <2> QED BY <2>1
<1>10. \A c : ~Knows(k, c)' /\ ~Learns(k, c)' BY <1>4, Nothing DEF Knows, Learns
<1>11. DownOrdered(k)' /\ EndsTold(k)' BY <1>4, Nothing DEF DownOrdered, EndsTold, Knows
<1> QED BY <1>4, <1>8, <1>9, <1>10, <1>11 DEF OwnKept

\* What a client reads leaves the rest in order.
LEMMA ReadsKeep ==
    ASSUME SystemInv, FinishInv, NEW k \in Clients, Heard(k), UNCHANGED <<clients, backlog>>,
           Learned(k, Head(K!Inbox(k)))
    PROVE  UpInv' /\ OwnKept(k)
<1> DEFINE s == socket[k]
           q == down[s]
           p == Head(q)
           t == Tail(q)
<1>1. /\ Listens(k) /\ q # <<>> /\ down' = [down EXCEPT ![s] = t]
      /\ socket' = socket /\ up' = up /\ mode'[k] # "CONNECTING"
  BY DEF Heard, Listens, K!Inbox, K!Consume
<1>2. s \in Sockets BY <1>1, NextPacket DEF K!Inbox, Listens
<1>3. q \in Seq(Packets) /\ down'[socket'[k]] = t BY <1>1, <1>2 DEF SystemInv, WiresTyped
<1>4. Learned(k, p) BY DEF K!Inbox
<1>5. /\ DownOrdered(k) /\ (currentState = 0 => EndsTold(k))
      /\ \A c \in Connected : clients[c] = s /\ Over(c) => Done(k)
  BY <1>1 DEF FinishInv, DownInv, OverInv
<1> HIDE DEF p, t
<1>6. \A S : /\ Carries(t, S) => Carries(q, S)
             /\ Carries(q, S) => p \in S \/ Carries(t, S)
             /\ p \in S => Carries(q, S)
  BY <1>1, <1>3, LeftOver DEF p, t
<1>7. \A S, T : /\ Precludes(q, S, T) =>
                     Precludes(t, S, T) /\ (p \in S => ~Carries(t, T))
                /\ Entails(q, S, T) =>
                     Entails(t, S, T) /\ (p \in S => Carries(t, T))
  BY <1>1, <1>3, LeftOver DEF p, t
<1>8. UpInv'
  <2>1. Backlogged' = Backlogged BY DEF Backlogged
  <2> QED BY <1>1, <2>1 DEF FinishInv, UpInv
<1>9. ASSUME NEW c \in Slots
      PROVE  /\ Knows(k, c)' => Knows(k, c) \/ p \in FinishesOf(c)
             /\ Learns(k, c)' => Learns(k, c)
  <2>1. Knows(k, c)' => Knows(k, c) \/ p \in FinishesOf(c) BY <1>4 DEF Learned
  <2>2. Learns(k, c)' => Knows(k, c)' \/ Carries(t, FinishesOf(c)) BY <1>3 DEF Learns
  <2> QED BY <1>1, <1>6, <2>1, <2>2 DEF Learns
<1>10. ASSUME NEW c \in Connected, clients[c] = s, Over(c)' PROVE Done(k)'
  <2>1. Over(c)
    <3>1. c \in Slots BY DEF Connected
    <3>2. CASE Carries(up[clients[c]], Finishes) BY <3>2 DEF Over
    <3>3. ASSUME NEW j \in Clients, Learns(j, c)' PROVE Learns(j, c)
      <4>1. CASE j = k BY <1>9, <3>1, <3>3, <4>1
      <4>2. CASE j # k
        <5>1. mode'[j] = mode[j] /\ race'[j] = race[j]
          BY <4>2 DEF Heard, SystemInv, ClientsTyped
        <5>2. Listens(j) BY <3>3, <5>1 DEF Learns, Listens
        <5>3. socket[j] \in Sockets /\ socket[j] # s
          BY <1>1, <4>2, <5>2 DEF SystemInv, Wired, ClientsTyped, Listens
        <5>4. down'[socket[j]] = down[socket[j]]
          BY <1>1, <1>2, <5>3 DEF SystemInv, WiresTyped
        <5> QED BY <1>1, <3>3, <5>1, <5>2, <5>4 DEF Learns, Knows
      <4> QED BY <4>1, <4>2
    <3> QED BY <1>1, <1>10, <3>2, <3>3 DEF Over
  <2>2. Done(k) BY <1>5, <1>10, <2>1
  <2>3. mode[k] \in {"LOBBY", "PLAYING"} BY <1>1, <2>2 DEF Done, Listens
  <2>4. mode'[k] = "PLAYING" => race'[k].complete
    <3>1. ASSUME mode'[k] = "PLAYING", mode[k] = "LOBBY" PROVE FALSE
      <4>1. Carries(q, Starts) BY <1>4, <1>6, <3>1 DEF Learned
      <4> QED BY <2>2, <3>1, <4>1 DEF Done
    <3> QED BY <1>4, <2>2, <2>3, <3>1 DEF Done, Learned
  <2>5. mode'[k] = "LOBBY" => ~Carries(t, Starts)
    <3>1. CASE mode[k] = "LOBBY" BY <1>6, <2>2, <3>1 DEF Done
    <3>2. CASE mode[k] = "PLAYING" BY <1>4, <1>5, <1>7, <3>2 DEF Learned, DownOrdered
    <3> QED BY <2>3, <3>1, <3>2
  <2> QED BY <1>1, <1>3, <2>4, <2>5 DEF Done
<1>11. DownOrdered(k)'
  <2>1. Precludes(t, Ends, Starts) /\ ~Carries(t, Departures)
    BY <1>5, <1>6, <1>7 DEF DownOrdered
  <2>2. ASSUME NEW c \in Slots
        PROVE  /\ Precludes(t, FinishesOf(c), ProgressesOf(c))
               /\ Knows(k, c)' => ~Carries(t, ProgressesOf(c))
    <3>1. /\ Precludes(q, FinishesOf(c), ProgressesOf(c))
          /\ Knows(k, c) => ~Carries(q, ProgressesOf(c))
      BY <1>5 DEF DownOrdered
    <3> QED BY <1>6, <1>7, <1>9, <3>1
  <2> QED BY <1>3, <2>1, <2>2 DEF DownOrdered
<1>12. ASSUME EndsTold(k) PROVE EndsTold(k)'
  <2>1. Entails(t, RaceMarks, Ends) BY <1>7, <1>12 DEF EndsTold
  <2>2. mode'[k] = "PLAYING" => Carries(t, Ends)
    <3>1. ASSUME mode'[k] = "PLAYING", mode[k] = "PLAYING" PROVE Carries(t, Ends)
      <4>1. Carries(q, Ends) BY <1>12, <3>1 DEF EndsTold
      <4>2. p \notin Ends BY <1>4, <3>1 DEF Learned, Marks, Ends
      <4> QED BY <1>6, <4>1, <4>2
    <3>2. ASSUME mode'[k] = "PLAYING", mode[k] # "PLAYING" PROVE Carries(t, Ends)
      <4>1. p \in RaceMarks BY <1>4, <3>2 DEF Learned
      <4> QED BY <1>7, <1>12, <4>1 DEF EndsTold
    <3> QED BY <3>1, <3>2
  <2> QED BY <1>3, <2>1, <2>2 DEF EndsTold
<1>13. mode'[k] = "PLAYING" => Best(race'[k]) BY <1>4 DEF Learned
<1> HIDE DEF q
<1> QED BY <1>1, <1>5, <1>8, <1>9, <1>10, <1>11, <1>12, <1>13 DEF OwnKept

\* A report or a finish is told only before one's own finish.
Quiet(k, p) ==
    /\ p \in Progresses \cup Finishes => mode[k] = "PLAYING" /\ ~race[k].complete
    /\ p \in Finishes => race'[k].complete

LEMMA SpeaksQuiet ==
    ASSUME SystemInv, hungup = {}, FinishInv, NEW k \in Clients, Spoke(k),
           UNCHANGED <<clients, backlog>>,
           \A j \in Clients \ {k} : race'[j] = race[j],
           up' = up \/ \E p \in ClientPacket : K!Send(k, p) /\ Quiet(k, p),
           mode[k] = "PLAYING" =>
             /\ race[k].complete => race'[k].complete
             /\ race'[k].status = race[k].status /\ race'[k].players = race[k].players
             /\ Best(race'[k])
    PROVE  UpInv' /\ OwnKept(k)
<1> DEFINE s == socket[k]
<1>1. Listens(k) /\ mode[k] # "CONNECTING" /\ UNCHANGED <<mode, socket, down>>
  BY DEF Spoke, InStep, Listens
<1>2. s \in Sockets /\ s \in Open /\ s \notin Backlogged BY <1>1, ListenersHear
<1>3. PICK d \in Connected : clients[d] = s BY <1>2 DEF Open
<1>4. \A c \in Slots : Knows(k, c)' <=> Knows(k, c) BY <1>1 DEF Knows
<1>5. \A j \in Clients, c \in Slots : Learns(j, c)' <=> Learns(j, c)
  <2>1. ASSUME NEW j \in Clients \ {k}, NEW c \in Slots PROVE Knows(j, c)' <=> Knows(j, c)
    <3>1. race'[j] = race[j] OBVIOUS
    <3> QED BY <1>1, <3>1 DEF Knows
  <2>2. \A j \in Clients, c \in Slots : Knows(j, c)' <=> Knows(j, c) BY <1>4, <2>1
  <2>3. \A j \in Clients : Listens(j)' <=> Listens(j) BY <1>1 DEF Listens
  <2> QED BY <1>1, <2>2, <2>3 DEF Learns
<1>6. up \in [Sockets -> Seq(ClientPacket)] /\ UpInv /\ Backlogged' = Backlogged
  BY DEF SystemInv, WiresTyped, FinishInv, Backlogged
<1>7. \A c \in Connected : clients[c] = s /\ Over(c) => Done(k)
  BY DEF FinishInv, OverInv
<1>8. Done(k) => Done(k)' BY <1>1 DEF Done
<1>9. ASSUME NEW p \in ClientPacket, Quiet(k, p), Over(d) PROVE p \notin Progresses \cup Finishes
  BY <1>3, <1>7, <1>9 DEF Quiet, Done
<1>10. /\ \A z \in Sockets \ {s} : up'[z] = up[z]
       /\ Precludes(up'[s], Finishes, Progresses)
       /\ Over(d) /\ Carries(up'[s], Progresses) => Carries(up[s], Progresses)
       /\ ~Over(d) /\ Carries(up'[s], Finishes) => Done(k)'
  <2>1. Precludes(up[s], Finishes, Progresses) /\ (Carries(up[s], Finishes) => Over(d))
    BY <1>2, <1>3, <1>6 DEF UpInv, Over
  <2>2. CASE up' = up BY <2>1, <2>2
  <2>3. ASSUME NEW p \in ClientPacket, K!Send(k, p), Quiet(k, p)
        PROVE  /\ \A z \in Sockets \ {s} : up'[z] = up[z]
               /\ Precludes(up'[s], Finishes, Progresses)
               /\ Over(d) /\ Carries(up'[s], Progresses) => Carries(up[s], Progresses)
               /\ ~Over(d) /\ Carries(up'[s], Finishes) => Done(k)'
    <3>1. /\ up'[s] = Append(up[s], p) /\ \A z \in Sockets \ {s} : up'[z] = up[z]
          /\ up[s] \in Seq(ClientPacket)
      BY <1>2, <1>6, <2>3 DEF K!Send
    <3>2. Precludes(up'[s], Finishes, Progresses)
      BY <1>9, <2>1, <2>3, <3>1, OneMore
    <3>3. ASSUME Over(d), Carries(up'[s], Progresses) PROVE Carries(up[s], Progresses)
      <4>1. p \notin Progresses BY <1>9, <2>3, <3>3
      <4>2. Carries(Append(up[s], p), Progresses) <=> Carries(up[s], Progresses) \/ p \in Progresses
        BY <3>1, OneMore
      <4> QED BY <3>1, <3>3, <4>1, <4>2
    <3>4. ~Over(d) /\ Carries(up'[s], Finishes) => Done(k)'
      <4>1. ASSUME ~Over(d), Carries(up'[s], Finishes) PROVE p \in Finishes
        BY <2>1, <3>1, <4>1, OneMore
      <4> QED BY <1>1, <2>3, <4>1 DEF Quiet, Done
    <3> QED BY <3>1, <3>2, <3>3, <3>4
  <2> QED BY <2>2, <2>3
<1>11. \A c \in Connected : /\ clients[c] \in Sockets
                            /\ clients[c] = s => c = d
  <2>1. \A c \in Connected : clients[c] \in Open BY DEF Open
  <2> QED BY <1>3, <2>1, SocketsHeld DEF SystemInv, TallyInv, SocketsDistinct
<1>12. UpInv' BY <1>2, <1>6, <1>10, SocketsHeld DEF UpInv
<1>13. ASSUME NEW c \in Connected
       PROVE  /\ Over(c) /\ Carries(up'[clients[c]], Progresses) =>
                   Carries(up[clients[c]], Progresses)
              /\ Carries(up'[clients[c]], Finishes) =>
                   Carries(up[clients[c]], Finishes) \/ clients[c] = s
  BY <1>10, <1>11
<1>14. ASSUME NEW c \in Connected, clients[c] = s, Over(c)' PROVE Done(k)'
  <2>1. c = d /\ clients'[c] = s BY <1>11, <1>14
  <2>2. CASE Over(c) BY <1>7, <1>8, <1>14, <2>2
  <2>3. CASE ~Over(c)
    <3>1. c \in Slots BY DEF Connected
    <3>2. Carries(up'[s], Finishes) BY <1>5, <1>14, <2>1, <2>3, <3>1 DEF Over
    <3> QED BY <1>10, <2>1, <2>3, <3>2
  <2> QED BY <2>2, <2>3
<1>15. DownOrdered(k)' /\ (currentState = 0 => EndsTold(k)')
  <2>1. DownOrdered(k) /\ (currentState = 0 => EndsTold(k)) BY <1>1 DEF FinishInv, DownInv
  <2> QED BY <1>1, <1>4, <2>1 DEF DownOrdered, EndsTold
<1>16. mode'[k] = "PLAYING" => Best(race'[k]) BY <1>1
<1> QED BY <1>1, <1>5, <1>12, <1>13, <1>14, <1>15, <1>16 DEF OwnKept, Connected

\* A word in the lobby is about no race.
LEMMA CommandKeeps ==
    ASSUME SystemInv, hungup = {}, FinishInv, NEW k \in Clients, ClientStep(k), UNCHANGED backlog,
           K!Command(k)
    PROVE  UpInv' /\ OwnKept(k)
<1>1. Spoke(k) /\ race' = race /\ mode[k] = "LOBBY" BY CommandSpoke DEF K!Command
<1>2. UNCHANGED clients BY DEF ClientStep, pool
<1>3. \E p \in ClientPacket : K!Send(k, p) /\ Quiet(k, p)
  <2>1. PICK p \in Staying :
          /\ K!Send(k, p)
          /\ p.type \in {"TOGGLE_READY", "SPECTATE", "SEND_MESSAGE", "KILLME", "CHANGE_NAME",
                         "COLOR", "TEXT_SET", "TIMEOUT"}
    <3>1. ASSUME NEW type \in {"TOGGLE_READY", "SPECTATE", "SEND_MESSAGE", "KILLME"}
          PROVE  [type |-> type] \in Staying /\ [type |-> type].type = type
      BY DEF Staying, ClientPacket, Partings
    <3>2. \A n \in Names : /\ [type |-> "CHANGE_NAME", name |-> n] \in Staying
                           /\ [type |-> "CHANGE_NAME", name |-> n].type = "CHANGE_NAME"
      BY DEF Staying, ClientPacket, Partings
    <3>3. \A col \in Colors : /\ [type |-> "COLOR", color |-> col] \in Staying
                              /\ [type |-> "COLOR", color |-> col].type = "COLOR"
      BY DEF Staying, ClientPacket, Partings
    <3>4. \A t \in Specials : /\ [type |-> "TEXT_SET", text |-> t] \in Staying
                              /\ [type |-> "TEXT_SET", text |-> t].type = "TEXT_SET"
      BY DEF Staying, ClientPacket, Partings
    <3>5. \A n \in Timeouts : /\ [type |-> "TIMEOUT", timeout |-> n] \in Staying
                              /\ [type |-> "TIMEOUT", timeout |-> n].type = "TIMEOUT"
      BY DEF Staying, ClientPacket, Partings
    <3> QED BY <3>1, <3>2, <3>3, <3>4, <3>5 DEF K!Command, K!Says
  <2> QED BY <2>1 DEF Staying, Quiet, Progresses, Finishes
<1>4. mode[k] # "PLAYING" BY <1>1
<1> QED BY <1>1, <1>2, <1>3, <1>4, SpeaksQuiet

\* A key is told only before the text is complete, and who completes it is told
\* to have finished.
LEMMA KeyKeeps ==
    ASSUME SystemInv, hungup = {}, FinishInv, NEW k \in Clients, ClientStep(k), UNCHANGED backlog,
           K!TypeKey(k)
    PROVE  UpInv' /\ OwnKept(k)
<1>1. Spoke(k) /\ (\A j \in Clients \ {k} : race'[j] = race[j]) BY TypeKeySpoke
<1>2. UNCHANGED clients BY DEF ClientStep, pool
<1>3. mode[k] = "PLAYING" BY DEF K!TypeKey
<1>4. race[k] \in RaceType /\ race \in [Clients -> RaceType \cup {K!NoRace}] /\ Best(race[k])
  BY <1>3 DEF SystemInv, ClientsTyped, FinishInv, BestInv
<1>5. PICK p \in K!Keyed(race[k]) :
        LET view == [race[k] EXCEPT !.progress = p]
        IN IF ~view.complete /\ p = view.length
             THEN /\ race' = [race EXCEPT ![k] = [view EXCEPT !.complete = TRUE]]
                  /\ \E t \in Times : K!Send(k, [type |-> "COMPLETED_TEXT", time |-> t])
           ELSE IF K!ToldNext(view)
             THEN /\ race' = [race EXCEPT ![k] = [view EXCEPT !.told = p]]
                  /\ K!Send(k, [type |-> "SEND_PROGRESS", progress |-> p])
           ELSE race' = [race EXCEPT ![k] = view] /\ UNCHANGED up
  BY DEF K!TypeKey
<1> DEFINE view == [race[k] EXCEPT !.progress = p]
           Same(r) == /\ r.status = race[k].status /\ r.players = race[k].players
                      /\ r.progress = p
                      /\ r.victor = race[k].victor /\ r.victor_time = race[k].victor_time
<1>6. p \in Indices BY <1>4, <1>5, KeyedType
<1>7. race[k].status = "COMPLETED" => p = race[k].progress BY <1>5 DEF K!Keyed
<1>8. /\ Same(view) /\ view.complete = race[k].complete
      /\ Same([view EXCEPT !.complete = TRUE]) /\ [view EXCEPT !.complete = TRUE].complete
      /\ Same([view EXCEPT !.told = p]) /\ [view EXCEPT !.told = p].complete = race[k].complete
  BY <1>4 DEF RaceType
<1>9. ASSUME NEW r, Same(r) PROVE Best(r)
  <2>1. ASSUME NEW x, Beats(race[k], x) PROVE Beats(r, x) BY <1>9, <2>1 DEF Beats
  <2>2. Beats(r, r)
    <3>1. Beats(race[k], race[k]) BY <1>4 DEF Best
    <3> QED BY <1>7, <1>9, <3>1 DEF Beats
  <2>3. \A i \in DOMAIN r.players : Beats(r, r.players[i]) BY <1>4, <1>9, <2>1 DEF Best
  <2> QED BY <2>2, <2>3 DEF Best
<1> HIDE DEF view
<1>10. ASSUME NEW r, race' = [race EXCEPT ![k] = r], Same(r), race[k].complete => r.complete
       PROVE  /\ race'[k] = r /\ Best(race'[k]) /\ (race[k].complete => race'[k].complete)
              /\ race'[k].status = race[k].status /\ race'[k].players = race[k].players
  BY <1>4, <1>9, <1>10
<1> HIDE DEF Same
<1>11. CASE ~view.complete /\ p = view.length
  <2>1. PICK t \in Times : /\ race' = [race EXCEPT ![k] = [view EXCEPT !.complete = TRUE]]
                           /\ K!Send(k, [type |-> "COMPLETED_TEXT", time |-> t])
    BY <1>5, <1>11 DEF view
  <2>2. race'[k] = [view EXCEPT !.complete = TRUE] BY <1>8, <1>10, <2>1
  <2>3. [type |-> "COMPLETED_TEXT", time |-> t] \in ClientPacket BY DEF ClientPacket
  <2>4. Quiet(k, [type |-> "COMPLETED_TEXT", time |-> t])
    BY <1>3, <1>8, <1>11, <2>2 DEF Quiet
  <2> QED BY <1>1, <1>2, <1>8, <1>10, <2>1, <2>3, <2>4, SpeaksQuiet
<1>12. CASE ~(~view.complete /\ p = view.length) /\ K!ToldNext(view)
  <2>1. /\ race' = [race EXCEPT ![k] = [view EXCEPT !.told = p]]
        /\ K!Send(k, [type |-> "SEND_PROGRESS", progress |-> p])
    BY <1>5, <1>12 DEF view
  <2>2. [type |-> "SEND_PROGRESS", progress |-> p] \in ClientPacket BY <1>6 DEF ClientPacket
  <2>3. Quiet(k, [type |-> "SEND_PROGRESS", progress |-> p])
    BY <1>3, <1>8, <1>12 DEF Quiet, K!ToldNext, Finishes
  <2> QED BY <1>1, <1>2, <1>8, <1>10, <2>1, <2>2, <2>3, SpeaksQuiet
<1>13. CASE ~(~view.complete /\ p = view.length) /\ ~K!ToldNext(view)
  <2>1. race' = [race EXCEPT ![k] = view] /\ up' = up BY <1>5, <1>13 DEF view
  <2> QED BY <1>1, <1>2, <1>8, <1>10, <2>1, SpeaksQuiet
<1> QED BY <1>11, <1>12, <1>13

\* A client keeps the invariant.
LEMMA ClientKeepsFinishInv ==
    ASSUME NobodyLeaves, SystemInv, RosterInv({}), FinishInv, NEW k \in Clients, ClientStep(k)
    PROVE  FinishInv'
<1>1. hungup = {} BY DEF RosterInv, NoneGone
<1>2. UNCHANGED clients BY DEF ClientStep, pool
<1> DEFINE p == Head(K!Inbox(k))
<1>3. CASE \E s \in Sockets : ClientConnects(k, s) BY <1>3, ConnectsClean, OwnKeptInv
<1>4. CASE K!ClientReads(k) /\ UNCHANGED backlog
  <2>1. Heard(k) BY <1>4, ReadFirstHeard, ReadLobbyHeard, ReadRaceHeard DEF K!ClientReads
  <2>2. CASE K!ReadFirst(k) BY <1>1, <1>2, <1>4, <2>1, <2>2, FirstLearned, ReadsKeep, OwnKeptInv
  <2>3. CASE K!ReadLobby(k) BY <1>1, <1>2, <1>4, <2>1, <2>3, LobbyLearned, ReadsKeep, OwnKeptInv
  <2>4. CASE K!ReadRace(k)
    <3>1. mode[k] = "PLAYING" /\ Listens(k) BY <2>4 DEF K!ReadRace, Listens
    <3>2. Told({}, k) /\ DownOrdered(k) /\ Best(race[k])
      BY <3>1 DEF RosterInv, FinishInv, DownInv, BestInv
    <3> QED BY <1>1, <1>2, <1>4, <2>1, <2>4, <3>2, RaceLearned, ReadsKeep, OwnKeptInv
  <2> QED BY <1>4, <2>2, <2>3, <2>4 DEF K!ClientReads
<1>5. CASE K!Command(k) /\ UNCHANGED backlog BY <1>1, <1>5, CommandKeeps, OwnKeptInv
<1>6. CASE K!TypeKey(k) /\ UNCHANGED backlog BY <1>1, <1>6, KeyKeeps, OwnKeptInv
<1>7. ~K!Disconnect(k) /\ ~K!Quit(k) BY DEF NobodyLeaves, K!Disconnect, K!Quit
<1> QED BY <1>3, <1>4, <1>5, <1>6, <1>7 DEF ClientStep, K!ClientStep

-----------------------------------------------------------------------------
(* What follows *)

LEMMA FinishInvInit == SystemInit => FinishInv
<1> SUFFICES ASSUME SystemInit PROVE FinishInv OBVIOUS
<1>1. /\ \A k \in Clients : mode[k] = "DISCONNECTED"
      /\ \A s \in Sockets : up[s] = <<>>
      /\ Backlogged = {} /\ \A c \in Slots : clients[c] = NoSocket
  BY DEF SystemInit, K!KuraiInit, Init, Backlogged
<1>2. Connected = {} BY <1>1 DEF Connected
<1> QED BY <1>1, <1>2, Nothing
        DEF FinishInv, UpInv, LearnInv, OverInv, DownInv, BestInv, Learns, Listens

LEMMA FinishInvNext ==
    ASSUME NobodyLeaves
    PROVE  SystemInv /\ RosterInv({}) /\ FinishInv /\ [SystemNext /\ StartsSettled]_system =>
             FinishInv'
<1> SUFFICES ASSUME SystemInv, RosterInv({}), FinishInv, [SystemNext /\ StartsSettled]_system
             PROVE  FinishInv'
  OBVIOUS
<1>1. hungup = {} BY DEF RosterInv, NoneGone
<1>2. CASE ServerStep /\ StartsSettled BY <1>1, <1>2, ServerKeepsFinishInv
<1>3. ASSUME NEW k \in Clients, ClientStep(k) PROVE FinishInv' BY <1>3, ClientKeepsFinishInv
<1>4. CASE UNCHANGED system
  <2>1. UNCHANGED <<mode, socket, race, up, down, backlog, clients, currentState>>
    BY <1>4 DEF system, vars, kurai, pool, game
  <2>2. Connected' = Connected /\ Backlogged' = Backlogged BY <2>1 DEF Connected, Backlogged
  <2>3. \A j \in Clients, c \in Slots : Knows(j, c)' <=> Knows(j, c) BY <2>1 DEF Knows
  <2>4. \A j \in Clients, c \in Slots : Learns(j, c)' <=> Learns(j, c)
    BY <2>1, <2>3 DEF Learns, Listens
  <2>5. \A c \in Slots : Over(c)' <=> Over(c) BY <2>1, <2>4 DEF Over
  <2>6. Connected \subseteq Slots BY DEF Connected
  <2>7. UpInv' BY <2>1, <2>2 DEF FinishInv, UpInv
  <2>8. LearnInv' BY <2>1, <2>2, <2>4, <2>6 DEF FinishInv, LearnInv
  <2>9. OverInv' BY <2>1, <2>2, <2>5, <2>6 DEF FinishInv, OverInv, Done
  <2>10. DownInv' BY <2>1, <2>3 DEF FinishInv, DownInv, DownOrdered, EndsTold, Listens
  <2>11. BestInv' BY <2>1 DEF FinishInv, BestInv
  <2> QED BY <2>7, <2>8, <2>9, <2>10, <2>11 DEF FinishInv
<1> QED BY <1>2, <1>3, <1>4 DEF SystemNext

\* While nobody leaves and races start settled, the victor of a race is known as
\* soon as somebody has finished, and nobody has a lower time: no report of
\* progress is read after the finish of its player, whoever types on meanwhile
\* and however many packets one read of the server loses (Playing.play,
\* set_progress and completed).
THEOREM SystemBestFinishWins ==
    ASSUME NobodyLeaves
    PROVE  SettledSpec => []BestFinishWins
<1>1. SlotsStable BY DEF SlotsStable
<1>2. [SystemNext /\ StartsSettled]_system => [SystemNext]_system OBVIOUS
<1>3. SettledSpec => SystemSpec BY <1>2, PTL DEF SettledSpec, SystemSpec
<1>4. SystemSpec => []RosterInv({}) BY <1>1, RosterInvHolds
<1>5. SystemInv /\ RosterInv({}) /\ FinishInv /\ [SystemNext /\ StartsSettled]_system => FinishInv'
  BY FinishInvNext
<1>6. FinishInv => BestFinishWins
  <2> SUFFICES ASSUME FinishInv, NEW j \in Clients, Started(j),
                      NEW r \in {race[j].players[i] : i \in DOMAIN race[j].players}
                           \cup {[status |-> race[j].status, progress |-> race[j].progress]},
                      r.status = "COMPLETED"
               PROVE  race[j].victor # K!NoVictor /\ race[j].victor_time <= r.progress
    BY DEF BestFinishWins
  <2>1. Best(race[j]) BY DEF Started, FinishInv, BestInv
  <2>2. CASE \E i \in DOMAIN race[j].players : r = race[j].players[i]
    BY <2>1, <2>2 DEF Best, Beats
  <2>3. CASE r = [status |-> race[j].status, progress |-> race[j].progress]
    <3>1. r.status = race[j].status /\ r.progress = race[j].progress BY <2>3
    <3> QED BY <2>1, <3>1 DEF Best, Beats
  <2> QED BY <2>2, <2>3
<1>7. SystemInit => FinishInv BY FinishInvInit
<1> QED BY <1>3, <1>4, <1>5, <1>6, <1>7, SystemInvHolds, PTL DEF SettledSpec
=============================================================================
