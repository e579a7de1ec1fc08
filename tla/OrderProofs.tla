----------------------------- MODULE OrderProofs -----------------------------
(***************************************************************************)
(* Numbers in order: least and greatest members of a set, and sets and     *)
(* subsequences in ascending order, also as they grow.                     *)
(***************************************************************************)
EXTENDS Ascents, SequencesExt, FiniteSetTheorems, FunctionTheorems, SequenceTheorems,
        WellFoundedInduction, TLAPS

(* Least and greatest numbers of a set *)

Below == {ss \in Nat \X Nat : ss[1] < ss[2]}

\* The order of the natural numbers has no infinite descent.
LEMMA BelowWellFounded == IsWellFoundedOn(Below, Nat)
BY NatLessThanWellFounded DEF OpToRel, Below

\* The least number principle.
LEMMA Least ==
    ASSUME NEW T, T \subseteq Nat, T # {}
    PROVE  \E x \in T : \A y \in T : x <= y
<1>1. PICK x \in T : \A y \in T : <<y, x>> \notin Below BY BelowWellFounded, WFMin
<1>2. ASSUME NEW y \in T, y < x PROVE FALSE
  <2>1. <<y, x>> \in Below BY <1>2 DEF Below
  <2> QED BY <1>1, <2>1
<1> QED BY <1>1, <1>2

\* Min and Max are members of the set, and bounds of it.
LEMMA MinOf ==
    ASSUME NEW T, T \subseteq Nat, T # {}
    PROVE  Min(T) \in T /\ \A y \in T : Min(T) <= y
BY Least DEF Min

\* ... the greatest, of a set with an upper bound.
LEMMA MaxOf ==
    ASSUME NEW T, NEW n \in Nat, T \subseteq 0 .. n, T # {}
    PROVE  Max(T) \in T /\ \A y \in T : y <= Max(T)
<1> DEFINE gaps == {n - y : y \in T}
<1>1. PICK some \in T : TRUE OBVIOUS
<1>2. n - some \in gaps BY <1>1
<1>3. ASSUME NEW g \in gaps PROVE g \in Nat
  <2>1. PICK y \in T : g = n - y OBVIOUS
  <2>2. y \in 0 .. n OBVIOUS
  <2> QED BY <2>1, <2>2
<1>4. PICK g \in gaps : \A h \in gaps : g <= h BY <1>2, <1>3, Least
<1>5. PICK x \in T : g = n - x OBVIOUS
<1>6. ASSUME NEW y \in T PROVE x >= y
  <2>1. x \in 0 .. n /\ y \in 0 .. n OBVIOUS
  <2>2. n - y \in gaps OBVIOUS
  <2>3. n - x <= n - y BY <1>4, <1>5, <2>2
  <2> QED BY <2>1, <2>3
<1>7. \A y \in T : Max(T) >= y /\ Max(T) \in T BY <1>6 DEF Max
<1>8. Max(T) \in 0 .. n BY <1>1, <1>7
<1>9. \A y \in T : y \in 0 .. n OBVIOUS
<1> QED BY <1>1, <1>7, <1>8, <1>9

-----------------------------------------------------------------------------
(* Ascending sequences *)

\* Smaller members have smaller ranks, and ranks count from one.
LEMMA RankOrder ==
    ASSUME NEW S, S \subseteq Int, IsFiniteSet(S), NEW i \in S, NEW j \in S
    PROVE  /\ Rank(S, i) \in 1 .. Cardinality(S) /\ Rank(S, i) \in Nat
           /\ i < j => Rank(S, i) < Rank(S, j)
<1> DEFINE upto(m) == {x \in S : x <= m}
<1>1. ASSUME NEW m \in S
      PROVE  IsFiniteSet(upto(m)) /\ Cardinality(upto(m)) \in 1 .. Cardinality(S)
  <2>1. upto(m) \subseteq S OBVIOUS
  <2>2. IsFiniteSet(upto(m)) /\ Cardinality(upto(m)) <= Cardinality(S) BY <2>1, FS_Subset
  <2>3. Cardinality(upto(m)) # 0 BY <2>2, FS_EmptySet
  <2>4. Cardinality(upto(m)) \in Nat /\ Cardinality(S) \in Nat BY <2>2, FS_CardinalityType
  <2> QED BY <2>2, <2>3, <2>4
<1>2. ASSUME i < j PROVE Cardinality(upto(i)) < Cardinality(upto(j))
  <2>0. i \in Int /\ j \in Int OBVIOUS
  <2>1. upto(i) \subseteq upto(j) /\ j \in upto(j) /\ j \notin upto(i)
    <3>1. ASSUME NEW x \in upto(i) PROVE x \in upto(j)
      <4>1. x \in Int /\ x <= i OBVIOUS
      <4> QED BY <1>2, <2>0, <4>1
    <3>2. j <= j /\ ~(j <= i) BY <1>2, <2>0
    <3> QED BY <3>1, <3>2
  <2>2. /\ Cardinality(upto(i)) <= Cardinality(upto(j))
        /\ Cardinality(upto(i)) # Cardinality(upto(j))
    BY <1>1, <2>1, FS_Subset
  <2> QED BY <1>1, <2>2
<1> QED BY <1>1, <1>2 DEF Rank

\* Members of one rank are one member.
LEMMA RankInjective ==
    ASSUME NEW S, S \subseteq Int, IsFiniteSet(S), NEW i \in S, NEW j \in S, Rank(S, i) = Rank(S, j)
    PROVE  i = j
<1>1. i \in Int /\ j \in Int OBVIOUS
<1>2. Rank(S, i) \in Nat BY RankOrder
<1>3. CASE i < j
  <2>1. Rank(S, i) < Rank(S, j) BY <1>3, RankOrder
  <2> QED BY <1>2, <2>1
<1>4. CASE j < i
  <2>1. Rank(S, j) < Rank(S, i) BY <1>4, RankOrder
  <2> QED BY <1>2, <2>1
<1> QED BY <1>1, <1>3, <1>4

\* Every rank is taken: the ranks are an injection into as many numbers.
LEMMA RankTaken ==
    ASSUME NEW S, S \subseteq Int, IsFiniteSet(S), NEW n \in 1 .. Cardinality(S)
    PROVE  \E i \in S : Rank(S, i) = n
<1> DEFINE N == Cardinality(S)
           rank == [i \in S |-> Rank(S, i)]
<1>1. N \in Nat BY FS_CardinalityType
<1>2. IsFiniteSet(1 .. N) /\ Cardinality(1 .. N) = N BY <1>1, FS_Interval
<1>3. rank \in [S -> 1 .. N] BY RankOrder
<1>4. ASSUME NEW i \in S, NEW j \in S, rank[i] = rank[j] PROVE i = j
  BY <1>4, RankInjective
<1>5. rank \in Injection(S, 1 .. N) BY <1>3, <1>4 DEF Injection, IsInjective
<1>6. rank \in Surjection(S, 1 .. N) BY <1>2, <1>5, FS_Injection
<1> QED BY <1>6 DEF Surjection

\* Ascending lists each member of a finite set of numbers once, in order.
LEMMA AscendingLists ==
    ASSUME NEW S, S \subseteq Int, IsFiniteSet(S)
    PROVE  LET q == Ascending(S)
           IN  /\ q \in Seq(S) /\ Len(q) = Cardinality(S)
               /\ \A i \in S : \E n \in DOMAIN q : q[n] = i
               /\ \A m, n \in DOMAIN q : m < n => q[m] < q[n]
<1> DEFINE q == Ascending(S)
           N == Cardinality(S)
<1>1. N \in Nat BY FS_CardinalityType
<1>2. DOMAIN q = 1 .. N BY DEF Ascending
<1>3. ASSUME NEW n \in 1 .. N PROVE q[n] \in S /\ Rank(S, q[n]) = n
  BY RankTaken DEF Ascending
<1>4. q \in Seq(S) /\ Len(q) = N
  <2>1. q = [n \in 1 .. N |-> q[n]] BY DEF Ascending
  <2> QED BY <1>1, <1>3, <2>1
<1>6. ASSUME NEW i \in S PROVE \E n \in 1 .. N : q[n] = i
  <2>1. Rank(S, i) \in 1 .. N BY RankOrder
  <2>2. q[Rank(S, i)] = i BY <1>3, <2>1, RankInjective
  <2> QED BY <2>1, <2>2
<1>7. ASSUME NEW m \in 1 .. N, NEW n \in 1 .. N, m < n PROVE q[m] < q[n]
  <2>1. q[m] \in Int /\ q[n] \in Int BY <1>3
  <2>2. q[m] # q[n] BY <1>3, <1>7
  <2>3. ~(q[n] < q[m])
    <3> SUFFICES ASSUME q[n] < q[m] PROVE FALSE OBVIOUS
    <3>1. Rank(S, q[n]) < Rank(S, q[m]) BY <1>3, RankOrder
    <3> QED BY <1>3, <1>7, <3>1
  <2> QED BY <2>1, <2>2, <2>3
<1> QED BY <1>2, <1>4, <1>6, <1>7

\* A number above all others comes last in ascending order.
LEMMA AscendingMore ==
    ASSUME NEW S, S \subseteq Int, IsFiniteSet(S), NEW x \in Int, \A y \in S : y < x
    PROVE  /\ Cardinality(S \cup {x}) = Cardinality(S) + 1 /\ Cardinality(S) \in Nat
           /\ IsFiniteSet(S \cup {x}) /\ S \cup {x} \subseteq Int
           /\ \A n \in 1 .. Cardinality(S) : Ascending(S \cup {x})[n] = Ascending(S)[n]
           /\ Ascending(S \cup {x})[Cardinality(S) + 1] = x
<1> DEFINE more == S \cup {x}
           N == Cardinality(S)
<1>1. more \subseteq Int /\ IsFiniteSet(more) /\ Cardinality(more) = N + 1 /\ N \in Nat
  <2>1. x \notin S
    <3>1. ~(x < x) OBVIOUS
    <3> QED BY <3>1
  <2> QED BY <2>1, FS_AddElement, FS_CardinalityType
<1>2. ASSUME NEW i \in S PROVE Rank(more, i) = Rank(S, i)
  <2>1. i < x /\ i \in Int OBVIOUS
  <2>2. {j \in more : j <= i} = {j \in S : j <= i} BY <2>1
  <2> QED BY <2>2 DEF Rank
<1>3. Rank(more, x) = N + 1
  <2>1. {j \in more : j <= x} = more
    <3> SUFFICES ASSUME NEW j \in more PROVE j <= x OBVIOUS
    <3>1. j \in Int /\ (j < x \/ j = x) BY <1>1
    <3> QED BY <3>1
  <2> QED BY <1>1, <2>1 DEF Rank
<1> HIDE DEF more
<1>4. ASSUME NEW n \in 1 .. N + 1
      PROVE  Ascending(more)[n] \in more /\ Rank(more, Ascending(more)[n]) = n
  BY <1>1, <1>4, RankTaken DEF Ascending
<1>5. ASSUME NEW n \in 1 .. N PROVE Ascending(S)[n] \in S /\ Rank(S, Ascending(S)[n]) = n
  BY RankTaken DEF Ascending
<1>6. ASSUME NEW n \in 1 .. N PROVE Ascending(more)[n] = Ascending(S)[n]
  <2>1. n \in 1 .. N + 1 BY <1>1
  <2>2. Ascending(S)[n] \in more BY <1>5 DEF more
  <2>3. Rank(more, Ascending(S)[n]) = Rank(more, Ascending(more)[n]) BY <1>2, <1>4, <1>5, <2>1
  <2> QED BY <1>1, <1>4, <2>1, <2>2, <2>3, RankInjective
<1>7. Ascending(more)[N + 1] = x
  <2>1. N + 1 \in 1 .. N + 1 /\ x \in more BY <1>1 DEF more
  <2> QED BY <1>1, <1>3, <1>4, <2>1, RankInjective
<1> QED BY <1>1, <1>6, <1>7 DEF more

\* What is at no index is nothing.
LEMMA AtNone == ASSUME NEW f PROVE At(f, {}) = <<>>
<1>1. Cardinality({}) = 0 BY FS_EmptySet
<1> QED BY <1>1 DEF At

\* What is at some indices is a sequence as long as they are many,
LEMMA AtType ==
    ASSUME NEW R, NEW f, NEW I, I \subseteq Int, IsFiniteSet(I), \A i \in I : f[i] \in R
    PROVE  /\ At(f, I) \in Seq(R) /\ Len(At(f, I)) = Cardinality(I) /\ Cardinality(I) \in Nat
           /\ \A n \in 1 .. Cardinality(I) : At(f, I)[n] = f[Ascending(I)[n]]
           /\ At(f, I) = <<>> <=> I = {}
<1> DEFINE N == Cardinality(I)
           q == At(f, I)
<1>1. N \in Nat BY FS_CardinalityType
<1>2. \A n \in 1 .. N : Ascending(I)[n] \in I BY RankTaken DEF Ascending
<1>3. q = [n \in 1 .. N |-> f[Ascending(I)[n]]] BY DEF At
<1> HIDE DEF N, q
<1>4. q \in [1 .. N -> R] BY <1>2, <1>3
<1>5. q \in Seq(R) /\ Len(q) = N BY <1>1, <1>4
<1>6. q = <<>> <=> N = 0 BY <1>5, EmptySeq
<1>7. N = 0 <=> I = {} BY FS_EmptySet DEF N
<1> QED BY <1>1, <1>3, <1>5, <1>6, <1>7 DEF q, N

\* ... the same one if the same is there,
LEMMA AtSame ==
    ASSUME NEW f, NEW g, NEW I, I \subseteq Int, IsFiniteSet(I), \A i \in I : f[i] = g[i]
    PROVE  At(f, I) = At(g, I)
<1>1. \A n \in 1 .. Cardinality(I) : Ascending(I)[n] \in I BY RankTaken DEF Ascending
<1> QED BY <1>1 DEF At

\* ... and one index above all others puts one element at its end.
LEMMA AtMore ==
    ASSUME NEW f, NEW I, I \subseteq Int, IsFiniteSet(I), NEW x \in Int, \A i \in I : i < x
    PROVE  At(f, I \cup {x}) = Append(At(f, I), f[x])
<1> DEFINE more == I \cup {x}
           R == {f[i] : i \in more}
           N == Cardinality(I)
           q == At(f, I)
           r == At(f, more)
<1>1. /\ Cardinality(more) = N + 1 /\ N \in Nat /\ IsFiniteSet(more) /\ more \subseteq Int
      /\ \A n \in 1 .. N : Ascending(more)[n] = Ascending(I)[n]
      /\ Ascending(more)[N + 1] = x
  BY AscendingMore
<1>2. f[x] \in R /\ (\A i \in I : f[i] \in R) /\ \A i \in more : f[i] \in R OBVIOUS
<1> HIDE DEF R
<1>3. q \in Seq(R) /\ Len(q) = N /\ \A n \in 1 .. N : q[n] = f[Ascending(I)[n]] BY <1>2, AtType
<1>4. r \in Seq(R) /\ Len(r) = N + 1 /\ \A n \in 1 .. N + 1 : r[n] = f[Ascending(more)[n]]
  <2> HIDE DEF more, N
  <2>1. /\ At(f, more) \in Seq(R) /\ Len(At(f, more)) = Cardinality(more)
        /\ \A n \in 1 .. Cardinality(more) : At(f, more)[n] = f[Ascending(more)[n]]
    <3>1. more \subseteq Int /\ IsFiniteSet(more) /\ \A i \in more : f[i] \in R BY <1>1, <1>2
    <3> QED BY ONLY <3>1, AtType
  <2> QED BY <1>1, <2>1
<1> HIDE DEF q, r, N, more
<1>5. /\ Append(q, f[x]) \in Seq(R) /\ Len(Append(q, f[x])) = N + 1
      /\ \A n \in 1 .. N : Append(q, f[x])[n] = q[n]
      /\ Append(q, f[x])[N + 1] = f[x]
  BY <1>2, <1>3, AppendProperties
<1>6. ASSUME NEW n \in 1 .. N + 1 PROVE r[n] = Append(q, f[x])[n]
  <2>1. CASE n = N + 1 BY <1>1, <1>4, <1>5, <2>1
  <2>2. CASE n \in 1 .. N BY <1>1, <1>3, <1>4, <1>5, <2>2
  <2>3. n = N + 1 \/ n \in 1 .. N BY <1>1
  <2> QED BY <2>1, <2>2, <2>3
<1>7. r = Append(q, f[x]) BY <1>4, <1>5, <1>6, SeqEqual
<1> QED BY <1>7 DEF r, q, more

\* At is the subsequence with those indices: its elements are some of s, in
\* their order, and all of those at the indices.
LEMMA AtPicks ==
    ASSUME NEW R, NEW s \in Seq(R), NEW I, I \subseteq DOMAIN s
    PROVE  LET q == At(s, I)
           IN  /\ q \in Seq(R)
               /\ \A i \in I : \E n \in DOMAIN q : q[n] = s[i]
               /\ \E f \in [DOMAIN q -> I] :
                    /\ \A n \in DOMAIN q : q[n] = s[f[n]]
                    /\ \A m, n \in DOMAIN q : m < n => f[m] < f[n]
<1> DEFINE q == At(s, I)
           f == Ascending(I)
           N == Cardinality(I)
<1>1. DOMAIN s = 1 .. Len(s) /\ Len(s) \in Nat BY LenProperties
<1>2. I \subseteq Int /\ IsFiniteSet(I)
  <2>1. IsFiniteSet(1 .. Len(s)) BY <1>1, FS_Interval
  <2> QED BY <1>1, <2>1, FS_Subset
<1>3. /\ f \in Seq(I) /\ Len(f) = N
      /\ \A i \in I : \E n \in DOMAIN f : f[n] = i
      /\ \A m, n \in DOMAIN f : m < n => f[m] < f[n]
  BY <1>2, AscendingLists
<1>4. N \in Nat /\ DOMAIN f = 1 .. N /\ DOMAIN q = 1 .. N
  BY <1>2, <1>3, FS_CardinalityType, LenProperties DEF At
<1>5. ASSUME NEW n \in 1 .. N PROVE q[n] = s[f[n]] /\ f[n] \in I /\ q[n] \in R
  <2>1. f[n] \in I BY <1>3, <1>4, ElementOfSeq
  <2>2. s[f[n]] \in R BY <1>1, <2>1, ElementOfSeq
  <2> QED BY <2>1, <2>2 DEF At
<1>6. q \in Seq(R)
  <2>1. q = [n \in 1 .. N |-> q[n]] BY DEF At
  <2> QED BY <1>4, <1>5, <2>1
<1>7. f \in [DOMAIN q -> I] BY <1>3, <1>4, LenProperties
<1>8. \A i \in I : \E n \in DOMAIN q : q[n] = s[i] BY <1>3, <1>4, <1>5
<1>9. \A m, n \in DOMAIN q : m < n => f[m] < f[n] BY <1>3, <1>4
<1>10. \A n \in DOMAIN q : q[n] = s[f[n]] BY <1>4, <1>5
<1> HIDE DEF f, q
<1> QED BY <1>6, <1>7, <1>8, <1>9, <1>10 DEF q

-----------------------------------------------------------------------------
(* Removing *)

\* RemoveAt leaves the rows before the index and moves the ones after it.
LEMMA RemoveAtShifts ==
    ASSUME NEW R, NEW s \in Seq(R), NEW i \in 1 .. Len(s)
    PROVE  LET q == RemoveAt(s, i)
           IN  /\ q \in Seq(R) /\ Len(q) = Len(s) - 1
               /\ \A n \in 1 .. Len(s) - 1 : q[n] = IF n < i THEN s[n] ELSE s[n + 1]
<1> DEFINE before == SubSeq(s, 1, i - 1)
           after == SubSeq(s, i + 1, Len(s))
<1>1. Len(s) \in Nat BY LenProperties
<1>2. \A j \in 1 .. Len(s) : s[j] \in R BY ElementOfSeq
<1>3. /\ before \in Seq(R) /\ Len(before) = i - 1
      /\ \A n \in 1 .. i - 1 : before[n] = s[n]
  <2>1. \A j \in 1 .. i - 1 : s[j] \in R BY <1>1, <1>2
  <2>2. /\ before \in Seq(R)
        /\ Len(before) = IF 1 <= i - 1 THEN (i - 1) - 1 + 1 ELSE 0
        /\ \A n \in 1 .. (i - 1) - 1 + 1 : before[n] = s[1 + n - 1]
    BY <1>1, <2>1, SubSeqProperties
  <2> QED BY <1>1, <2>2
<1>4. /\ after \in Seq(R) /\ Len(after) = Len(s) - i
      /\ \A n \in 1 .. Len(s) - i : after[n] = s[n + i]
  <2>1. \A j \in i + 1 .. Len(s) : s[j] \in R BY <1>1, <1>2
  <2>2. /\ after \in Seq(R)
        /\ Len(after) = IF i + 1 <= Len(s) THEN Len(s) - (i + 1) + 1 ELSE 0
        /\ \A n \in 1 .. Len(s) - (i + 1) + 1 : after[n] = s[(i + 1) + n - 1]
    BY <1>1, <2>1, SubSeqProperties
  <2> QED BY <1>1, <2>2
<1> HIDE DEF before, after
<1>5. /\ before \o after \in Seq(R)
      /\ Len(before \o after) = (i - 1) + (Len(s) - i)
      /\ \A n \in 1 .. (i - 1) + (Len(s) - i) :
           (before \o after)[n] = IF n <= i - 1 THEN before[n] ELSE after[n - (i - 1)]
  <2>1. /\ before \o after \in Seq(R)
        /\ Len(before \o after) = Len(before) + Len(after)
        /\ \A n \in 1 .. Len(before) + Len(after) :
             (before \o after)[n] = IF n <= Len(before) THEN before[n] ELSE after[n - Len(before)]
    BY <1>3, <1>4, ConcatProperties, Zenon
  <2> QED BY <1>3, <1>4, <2>1
<1>6. ASSUME NEW n \in 1 .. Len(s) - 1
      PROVE  (before \o after)[n] = IF n < i THEN s[n] ELSE s[n + 1]
  BY <1>1, <1>3, <1>4, <1>5
<1>7. RemoveAt(s, i) = before \o after BY DEF RemoveAt, before, after
<1>8. Len(before \o after) = Len(s) - 1 BY <1>1, <1>5
<1> QED BY <1>5, <1>6, <1>7, <1>8

-----------------------------------------------------------------------------
(* Appending, joining and reading streams *)

\* One stream after another.
LEMMA JoinedStreams ==
    ASSUME NEW R, NEW s \in Seq(R), NEW t \in Seq(R)
    PROVE  /\ s \o t \in Seq(R)
           /\ DOMAIN (s \o t) = 1 .. Len(s) + Len(t)
           /\ \A i \in 1 .. Len(s) : (s \o t)[i] = s[i]
           /\ \A i \in 1 .. Len(t) : (s \o t)[Len(s) + i] = t[i]
<1> DEFINE q == s \o t
<1>1. Len(s) \in Nat /\ Len(t) \in Nat BY LenProperties
<1>2. /\ q \in Seq(R)
      /\ Len(q) = Len(s) + Len(t)
      /\ \A i \in 1 .. Len(s) + Len(t) : q[i] = IF i <= Len(s) THEN s[i] ELSE t[i - Len(s)]
  BY ConcatProperties, Zenon
<1> HIDE DEF q
<1>3. DOMAIN q = 1 .. Len(q) BY <1>2, LenProperties
<1>4. \A i \in 1 .. Len(s) : q[i] = s[i] BY <1>1, <1>2
<1>5. ASSUME NEW i \in 1 .. Len(t) PROVE q[Len(s) + i] = t[i]
  <2>1. Len(s) + i \in 1 .. Len(s) + Len(t) /\ ~(Len(s) + i <= Len(s)) BY <1>1
  <2>2. Len(s) + i - Len(s) = i BY <1>1
  <2> QED BY <1>2, <2>1, <2>2
<1> QED BY <1>2, <1>3, <1>4, <1>5 DEF q

\* A row at the end of a sequence of rows.
LEMMA Appended ==
    ASSUME NEW R, NEW s \in Seq(R), NEW e \in R
    PROVE  /\ Append(s, e) \in Seq(R) /\ Append(s, e) # <<>>
           /\ DOMAIN Append(s, e) = 1 .. Len(s) + 1
           /\ \A i \in 1 .. Len(s) : Append(s, e)[i] = s[i]
           /\ Append(s, e)[Len(s) + 1] = e
<1> DEFINE q == Append(s, e)
<1>1. /\ q \in Seq(R) /\ q # <<>> /\ Len(q) = Len(s) + 1
      /\ \A i \in 1 .. Len(s) : q[i] = s[i]
      /\ q[Len(s) + 1] = e
  BY AppendProperties
<1> HIDE DEF q
<1>2. DOMAIN q = 1 .. Len(q) BY <1>1, LenProperties
<1> QED BY <1>1, <1>2 DEF q

\* What is left of a stream after its first element.
LEMMA Remaining ==
    ASSUME NEW R, NEW s \in Seq(R), s # <<>>
    PROVE  /\ Head(s) \in R /\ Head(s) = s[1] /\ 1 \in DOMAIN s
           /\ Tail(s) \in Seq(R)
           /\ DOMAIN s = 1 .. Len(s) /\ DOMAIN Tail(s) = 1 .. Len(s) - 1 /\ Len(s) \in Nat \ {0}
           /\ \A i \in DOMAIN Tail(s) : i + 1 \in DOMAIN s /\ Tail(s)[i] = s[i + 1]
<1> DEFINE q == Tail(s)
<1>1. Len(s) \in Nat \ {0} /\ DOMAIN s = 1 .. Len(s) BY EmptySeq, LenProperties
<1>2. /\ Head(s) \in R /\ q \in Seq(R) /\ Len(q) = Len(s) - 1
      /\ \A i \in 1 .. Len(q) : q[i] = s[i + 1]
  BY HeadTailProperties, Zenon
<1>3. Head(s) = s[1] BY <1>1
<1> HIDE DEF q
<1>4. DOMAIN q = 1 .. Len(q) BY <1>2, LenProperties
<1> QED BY <1>1, <1>2, <1>3, <1>4 DEF q

\* What is left of it after its first n elements.
LEMMA Dropped ==
    ASSUME NEW R, NEW s \in Seq(R), NEW n \in 1 .. Len(s)
    PROVE  /\ SubSeq(s, n + 1, Len(s)) \in Seq(R)
           /\ n = 1 => SubSeq(s, n + 1, Len(s)) = Tail(s)
<1>1. Len(s) \in Nat BY LenProperties
<1>2. \A j \in n + 1 .. Len(s) : s[j] \in R
  <2>1. ASSUME NEW j \in n + 1 .. Len(s) PROVE j \in 1 .. Len(s) BY <1>1
  <2> QED BY <2>1, ElementOfSeq
<1>3. SubSeq(s, n + 1, Len(s)) \in Seq(R) BY <1>1, <1>2, SubSeqProperties
<1>4. ASSUME n = 1 PROVE SubSeq(s, n + 1, Len(s)) = Tail(s)
  <2>1. s # <<>> BY <1>1, EmptySeq
  <2>2. Tail(s) = SubSeq(s, 2, Len(s)) BY <2>1, TailIsSubSeq
  <2> QED BY <1>4, <2>2
<1> QED BY <1>3, <1>4
=============================================================================
