---------------------------- MODULE ScreenProofs ----------------------------
(***************************************************************************)
(* The command prompt for every text, whatever its length: no key moves    *)
(* the cursor out of the text, and each one edits a line.                  *)
(*                                                                         *)
(* The windows of the client share the terminal, whatever its size and     *)
(* however many lines the prompt asks for, the cursor is in the one that   *)
(* is the prompt's, and that one has the height of the text: a key adds    *)
(* one line at most.                                                       *)
(*                                                                         *)
(* What recursion computes is proved for every text too: the lines of a    *)
(* message hold it all and fit, and the arguments of a command are its     *)
(* words.  A recursion has a solution, and a solution has what is claimed  *)
(* of it, because there is no least number where it fails.                 *)
(***************************************************************************)
EXTENDS Screen, OrderProofs

(* Lines *)

\* Where StopBefore, LineEnd and Column can be.
LEMMA StopBeforeRange ==
    ASSUME NEW s, NEW p \in Nat
    PROVE  StopBefore(s, p) \in 0 .. p
<1> DEFINE stops == {0} \cup {q \in 0 .. p : s[q + 1] = NewLine}
<1>1. stops \subseteq 0 .. p /\ stops # {} OBVIOUS
<1>2. Max(stops) \in stops BY <1>1, MaxOf
<1> QED BY <1>1, <1>2 DEF StopBefore

\* ... not before the position, not past the text;
LEMMA LineEndRange ==
    ASSUME NEW s, Len(s) \in Nat, NEW p \in 0 .. Len(s)
    PROVE  LineEnd(s, p) \in p .. Len(s)
<1> DEFINE ends == {Len(s)} \cup {q \in p .. Len(s) - 1 : s[q + 1] = NewLine}
<1>1. ends \subseteq p .. Len(s) /\ ends # {} OBVIOUS
<1>2. ends \subseteq Nat BY <1>1
<1>3. Min(ends) \in ends BY <1>1, <1>2, MinOf
<1> QED BY <1>1, <1>3 DEF LineEnd

\* ... and no further from the beginning of its line than the position.
LEMMA ColumnRange ==
    ASSUME NEW s, NEW p \in Nat
    PROVE  Column(s, p) \in 0 .. p
<1> DEFINE starts == {0} \cup {q \in 1 .. p : s[q] = NewLine}
<1>1. starts \subseteq 0 .. p /\ starts # {} OBVIOUS
<1>2. Max(starts) \in 0 .. p BY <1>1, MaxOf
<1> QED BY <1>2 DEF Column

\* The lesser of two numbers.
LEMMA MinOfTwo ==
    ASSUME NEW a \in Nat, NEW b \in Nat
    PROVE  Min({a, b}) \in {a, b} /\ Min({a, b}) \in Nat /\ Min({a, b}) <= a /\ Min({a, b}) <= b
<1>1. {a, b} \subseteq Nat /\ {a, b} # {} OBVIOUS
<1> QED BY <1>1, MinOf

\* KEY_UP and KEY_DOWN stay in the text.
LEMMA UpRange ==
    ASSUME NEW s, Len(s) \in Nat, NEW p \in 0 .. Len(s)
    PROVE  UpTarget(s, p) \in 0 .. Len(s)
<1> DEFINE stop == IF p = 0 THEN 0 ELSE StopBefore(s, p - 1)
           above == IF stop = 0 THEN 0 ELSE StopBefore(s, stop - 1)
           start == IF above = 0 THEN 0 ELSE above + 1
<1>1. stop \in 0 .. p /\ (stop # 0 => stop <= p - 1) BY StopBeforeRange
<1>2. CASE stop = 0 BY <1>2 DEF UpTarget
<1>3. CASE stop # 0
  <2>1. above \in 0 .. stop - 1
    <3>1. stop - 1 \in Nat BY <1>1, <1>3
    <3> QED BY <1>3, <3>1, StopBeforeRange
  <2>2. start \in 0 .. stop BY <1>1, <2>1
  <2>3. LineEnd(s, start) \in start .. Len(s) BY <1>1, <2>2, LineEndRange
  <2> HIDE DEF start, above, stop
  <2>4. start + (p - stop - 1) \in Nat /\ LineEnd(s, start) \in Nat BY <1>1, <1>3, <2>2, <2>3
  <2>5. Min({start + (p - stop - 1), LineEnd(s, start)}) \in 0 .. Len(s)
    BY <2>3, <2>4, MinOfTwo
  <2> QED BY <1>3, <2>5 DEF UpTarget, start, above, stop
<1> QED BY <1>2, <1>3

\* ... and KEY_DOWN.
LEMMA DownRange ==
    ASSUME NEW s, Len(s) \in Nat, NEW p \in 0 .. Len(s)
    PROVE  DownTarget(s, p) \in 0 .. Len(s)
<1> DEFINE end == LineEnd(s, p)
<1>1. end \in p .. Len(s) BY LineEndRange
<1>2. CASE end = Len(s) BY <1>2 DEF DownTarget
<1>3. CASE end # Len(s)
  <2>1. end + 1 \in 0 .. Len(s) BY <1>1, <1>3
  <2> HIDE DEF end
  <2>2. LineEnd(s, end + 1) \in end + 1 .. Len(s) BY <2>1, LineEndRange
  <2>3. Column(s, p) \in Nat BY ColumnRange
  <2>4. end + 1 + Column(s, p) \in Nat /\ LineEnd(s, end + 1) \in Nat BY <2>1, <2>2, <2>3
  <2>5. Min({end + 1 + Column(s, p), LineEnd(s, end + 1)}) \in 0 .. Len(s)
    BY <2>2, <2>4, MinOfTwo
  <2> QED BY <1>3, <2>5 DEF DownTarget, end
<1> QED BY <1>2, <1>3

\* What LineEnd and StopBefore find.
LEMMA LineEndFinds ==
    ASSUME NEW s, Len(s) \in Nat, NEW p \in 0 .. Len(s)
    PROVE  /\ LineEnd(s, p) = Len(s) \/ s[LineEnd(s, p) + 1] = NewLine
           /\ \A q \in p .. Len(s) - 1 : s[q + 1] = NewLine => LineEnd(s, p) <= q
<1> DEFINE ends == {Len(s)} \cup {q \in p .. Len(s) - 1 : s[q + 1] = NewLine}
<1>1. ends \subseteq Nat /\ ends # {} OBVIOUS
<1>2. Min(ends) \in ends /\ \A q \in ends : Min(ends) <= q BY <1>1, MinOf
<1> QED BY <1>2 DEF LineEnd

\* ... the last new line up to a position, or the start of the text.
LEMMA StopBeforeFinds ==
    ASSUME NEW s, NEW p \in Nat
    PROVE  /\ StopBefore(s, p) = 0 \/ s[StopBefore(s, p) + 1] = NewLine
           /\ \A q \in 0 .. p : s[q + 1] = NewLine => q <= StopBefore(s, p)
<1> DEFINE stops == {0} \cup {q \in 0 .. p : s[q + 1] = NewLine}
<1>1. stops \subseteq 0 .. p /\ stops # {} OBVIOUS
<1>2. Max(stops) \in stops /\ \A q \in stops : q <= Max(stops) BY <1>1, MaxOf
<1> QED BY <1>2 DEF StopBefore

\* The column counts from where the line begins.
LEMMA ColumnFrom ==
    ASSUME NEW s, NEW p \in Nat, NEW start \in 0 .. p, start = 0 \/ s[start] = NewLine,
           \A q \in start + 1 .. p : s[q] # NewLine
    PROVE  Column(s, p) = p - start
<1> DEFINE starts == {0} \cup {q \in 1 .. p : s[q] = NewLine}
<1>1. starts \subseteq 0 .. p /\ start \in starts OBVIOUS
<1>2. Max(starts) \in starts /\ \A q \in starts : q <= Max(starts) BY <1>1, MaxOf
<1>3. \A q \in starts : q <= start
  <2>1. ASSUME NEW q \in starts, q > start PROVE FALSE
    <3>1. q \in start + 1 .. p /\ s[q] = NewLine BY <2>1
    <3> QED BY <3>1
  <2>2. \A q \in starts : q \in Int BY <1>1
  <2> QED BY <2>1, <2>2
<1>4. Max(starts) <= start /\ start <= Max(starts) /\ Max(starts) \in Int BY <1>1, <1>2, <1>3
<1>5. Max(starts) = start BY <1>4
<1> QED BY <1>5 DEF Column

\* Two positions with one new line between them are on neighbouring lines.
LEMMA NextLine ==
    ASSUME NEW s, NEW p \in Nat, NEW e \in Nat, NEW d \in Nat, p <= e, e < d,
           s[e + 1] = NewLine,
           \A q \in p + 1 .. e : s[q] # NewLine,
           \A q \in e + 2 .. d : s[q] # NewLine
    PROVE  LineOf(s, d) = LineOf(s, p) + 1
<1> DEFINE lines(n) == {q \in 1 .. n : s[q] = NewLine}
<1>1. lines(d) = lines(p) \cup {e + 1}
  <2>1. ASSUME NEW q \in 1 .. d, s[q] = NewLine PROVE q <= p \/ q = e + 1
    <3>1. q \notin p + 1 .. e /\ q \notin e + 2 .. d BY <2>1
    <3> QED BY <3>1
  <2> QED BY <2>1
<1>2. e + 1 \notin lines(p) OBVIOUS
<1>3. IsFiniteSet(1 .. p) BY FS_Interval
<1>4. IsFiniteSet(lines(p)) BY <1>3, FS_Subset
<1>5. Cardinality(lines(p) \cup {e + 1}) = Cardinality(lines(p)) + 1 BY <1>2, <1>4, FS_AddElement
<1> QED BY <1>1, <1>5 DEF LineOf

\* KEY_DOWN goes to the next line, in the same column or at its end.
LEMMA DownMoves ==
    ASSUME NEW s, Len(s) \in Nat, NEW p \in 0 .. Len(s), LineOf(s, p) < LineOf(s, Len(s))
    PROVE  /\ LineOf(s, DownTarget(s, p)) = LineOf(s, p) + 1
           /\ AtColumn(s, DownTarget(s, p), Column(s, p))
<1> DEFINE e == LineEnd(s, p)
           f == LineEnd(s, e + 1)
           c == Column(s, p)
           d == Min({e + 1 + c, f})
<1>1. PICK r \in p + 1 .. Len(s) : s[r] = NewLine
  <2> SUFFICES ASSUME \A r \in p + 1 .. Len(s) : s[r] # NewLine PROVE FALSE OBVIOUS
  <2>1. {q \in 1 .. p : s[q] = NewLine} = {q \in 1 .. Len(s) : s[q] = NewLine} OBVIOUS
  <2>2. IsFiniteSet(1 .. p) BY FS_Interval
  <2>3. IsFiniteSet({q \in 1 .. p : s[q] = NewLine}) BY <2>2, FS_Subset
  <2>4. LineOf(s, p) \in Nat BY <2>3, FS_CardinalityType DEF LineOf
  <2>5. LineOf(s, p) = LineOf(s, Len(s)) BY <2>1 DEF LineOf
  <2> QED BY <2>4, <2>5
<1>2. r - 1 \in p .. Len(s) - 1 /\ s[(r - 1) + 1] = NewLine BY <1>1
<1>3. e \in p .. Len(s) BY LineEndRange
<1>4. e <= r - 1 BY <1>2, LineEndFinds
<1>5. e < Len(s) /\ s[e + 1] = NewLine BY <1>2, <1>3, <1>4, LineEndFinds
<1>6. \A q \in p + 1 .. e : s[q] # NewLine
  <2> SUFFICES ASSUME NEW q \in p + 1 .. e, s[q] = NewLine PROVE FALSE OBVIOUS
  <2>1. q - 1 \in p .. Len(s) - 1 /\ s[(q - 1) + 1] = NewLine BY <1>3, <1>5
  <2>2. e <= q - 1 BY <2>1, LineEndFinds
  <2> QED BY <1>3, <2>2
<1>7. e + 1 \in 0 .. Len(s) BY <1>3, <1>5
<1> HIDE DEF e
<1>8. f \in e + 1 .. Len(s) BY <1>7, LineEndRange
<1>9. \A q \in e + 2 .. f : s[q] # NewLine
  <2> SUFFICES ASSUME NEW q \in e + 2 .. f, s[q] = NewLine PROVE FALSE OBVIOUS
  <2>1. q - 1 \in e + 1 .. Len(s) - 1 /\ s[(q - 1) + 1] = NewLine
    BY <1>3, <1>7, <1>8
  <2>2. f <= q - 1 BY <1>7, <2>1, LineEndFinds
  <2> QED BY <1>7, <1>8, <2>2
<1>10. f = Len(s) \/ s[f + 1] = NewLine BY <1>7, LineEndFinds
<1> HIDE DEF f
<1>11. c \in Nat BY ColumnRange
<1> HIDE DEF c
<1>12. e \in Nat /\ f \in Nat /\ e + 1 + c \in Nat BY <1>3, <1>7, <1>8, <1>11
<1>13. d \in {e + 1 + c, f} /\ d \in Nat /\ d <= e + 1 + c /\ d <= f BY <1>12, MinOfTwo
<1> HIDE DEF d
<1>14. d \in e + 1 .. f BY <1>8, <1>11, <1>12, <1>13
<1>15. \A q \in e + 2 .. d : s[q] # NewLine BY <1>9, <1>12, <1>14
<1>16. LineOf(s, d) = LineOf(s, p) + 1
  <2>1. p \in Nat /\ p <= e /\ e < d BY <1>3, <1>12, <1>14
  <2> QED BY <1>5, <1>6, <1>12, <1>13, <1>15, <2>1, NextLine
<1>17. Column(s, d) = d - (e + 1)
  <2>1. e + 1 \in 0 .. d /\ (e + 1) + 1 = e + 2 BY <1>12, <1>14
  <2> QED BY <1>5, <1>13, <1>15, <2>1, ColumnFrom
<1>18. AtColumn(s, d, c)
  <2>1. CASE d = e + 1 + c BY <1>11, <1>12, <1>17, <2>1 DEF AtColumn
  <2>2. CASE d = f /\ d < e + 1 + c BY <1>10, <1>11, <1>12, <1>17, <2>2 DEF AtColumn
  <2> QED BY <1>12, <1>13, <2>1, <2>2
<1>19. DownTarget(s, p) = d BY <1>3, <1>5 DEF DownTarget, d, e, f, c
<1> QED BY <1>16, <1>18, <1>19 DEF c

\* KEY_UP goes to the line before, unless the text begins with an empty line.
LEMMA UpMoves ==
    ASSUME NEW s, Len(s) \in Nat, NEW p \in 0 .. Len(s), LineOf(s, p) > 0, s[1] # NewLine
    PROVE  /\ LineOf(s, UpTarget(s, p)) = LineOf(s, p) - 1
           /\ AtColumn(s, UpTarget(s, p), Column(s, p))
<1> DEFINE stop == StopBefore(s, p - 1)
           above == StopBefore(s, stop - 1)
           start == IF above = 0 THEN 0 ELSE above + 1
           u == Min({start + (p - stop - 1), LineEnd(s, start)})
<1>1. PICK r \in 1 .. p : s[r] = NewLine
  <2> SUFFICES ASSUME \A r \in 1 .. p : s[r] # NewLine PROVE FALSE OBVIOUS
  <2>1. {q \in 1 .. p : s[q] = NewLine} = {} OBVIOUS
  <2>2. LineOf(s, p) = 0 BY <2>1, FS_EmptySet DEF LineOf
  <2> QED BY <2>2
<1>2. p - 1 \in Nat /\ r # 1 /\ r - 1 \in 0 .. p - 1 /\ s[(r - 1) + 1] = NewLine BY <1>1
<1>3. stop \in 0 .. p - 1 /\ r - 1 <= stop BY <1>2, StopBeforeRange, StopBeforeFinds
<1>4. stop \in 1 .. p - 1 BY <1>1, <1>2, <1>3
<1>5. s[stop + 1] = NewLine BY <1>2, <1>4, StopBeforeFinds
<1>6. \A q \in stop + 2 .. p : s[q] # NewLine
  <2> SUFFICES ASSUME NEW q \in stop + 2 .. p, s[q] = NewLine PROVE FALSE OBVIOUS
  <2>1. q - 1 \in 0 .. p - 1 /\ s[(q - 1) + 1] = NewLine BY <1>4
  <2>2. q - 1 <= stop BY <1>2, <2>1, StopBeforeFinds
  <2> QED BY <1>4, <2>2
<1> HIDE DEF stop
<1>7. stop - 1 \in Nat BY <1>4
<1>8. above \in 0 .. stop - 1 BY <1>7, StopBeforeRange
<1>9. start \in 0 .. stop /\ (start = 0 \/ s[start] = NewLine)
  BY <1>4, <1>7, <1>8, StopBeforeFinds
<1>10. \A q \in start + 1 .. stop : s[q] # NewLine
  <2> SUFFICES ASSUME NEW q \in start + 1 .. stop, s[q] = NewLine PROVE FALSE OBVIOUS
  <2>1. q - 1 \in 0 .. stop - 1 /\ s[(q - 1) + 1] = NewLine BY <1>4, <1>9
  <2>2. q - 1 <= above BY <1>7, <2>1, StopBeforeFinds
  <2>3. q = 1 BY <1>4, <1>8, <1>9, <2>2
  <2> QED BY <2>3
<1> HIDE DEF start
<1>11. LineEnd(s, start) = stop
  <2>1. start \in 0 .. Len(s) /\ stop \in start .. Len(s) - 1 BY <1>4, <1>9
  <2>2. LineEnd(s, start) <= stop BY <1>5, <2>1, LineEndFinds
  <2>3. LineEnd(s, start) \in start .. Len(s) BY <2>1, LineEndRange
  <2>4. s[LineEnd(s, start) + 1] = NewLine BY <2>1, <2>2, <2>3, LineEndFinds
  <2>5. LineEnd(s, start) + 1 \notin start + 1 .. stop BY <1>10, <2>4
  <2> QED BY <1>4, <1>9, <2>2, <2>3, <2>5
<1>12. Column(s, p) = p - (stop + 1)
  <2>1. stop + 1 \in 0 .. p /\ (stop + 1) + 1 = stop + 2 /\ p \in Nat BY <1>4
  <2> QED BY <1>5, <1>6, <2>1, ColumnFrom
<1>13. /\ start \in Nat /\ stop \in Nat /\ start <= stop
       /\ start + (p - stop - 1) \in Nat /\ p - stop - 1 \in Nat
  BY <1>4, <1>9
<1>14. u \in {start + (p - stop - 1), stop} /\ u \in Nat /\ u <= start + (p - stop - 1) /\ u <= stop
  BY <1>11, <1>13, MinOfTwo
<1> HIDE DEF u
<1>15. u \in start .. stop BY <1>13, <1>14
<1>16. LineOf(s, p) = LineOf(s, u) + 1
  <2>1. \A q \in u + 1 .. stop : s[q] # NewLine BY <1>10, <1>13, <1>15
  <2>2. stop < p /\ p \in Nat BY <1>4
  <2> QED BY <1>5, <1>6, <1>13, <1>14, <2>1, <2>2, NextLine
<1>17. Column(s, u) = u - start
  <2>1. \A q \in start + 1 .. u : s[q] # NewLine BY <1>10, <1>13, <1>15
  <2>2. start \in 0 .. u BY <1>13, <1>15
  <2> QED BY <1>9, <1>14, <2>1, <2>2, ColumnFrom
<1>18. AtColumn(s, u, p - (stop + 1))
  <2>1. CASE u = start + (p - stop - 1) BY <1>4, <1>13, <1>17, <2>1 DEF AtColumn
  <2>2. CASE u = stop /\ u < start + (p - stop - 1)
    BY <1>4, <1>5, <1>13, <1>17, <2>2 DEF AtColumn
  <2> QED BY <1>13, <1>14, <2>1, <2>2
<1>19. UpTarget(s, p) = u
  <2>1. p # 0 BY <1>1
  <2>2. stop # 0 BY <1>4
  <2> QED BY <2>1, <2>2 DEF UpTarget, u, start, above, stop
<1>20. LineOf(s, u) \in Nat
  <2>1. IsFiniteSet(1 .. u) BY <1>14, FS_Interval
  <2>2. IsFiniteSet({q \in 1 .. u : s[q] = NewLine}) BY <2>1, FS_Subset
  <2> QED BY <2>2, FS_CardinalityType DEF LineOf
<1> QED BY <1>12, <1>16, <1>18, <1>19, <1>20

\* A text has a line at least.
LEMMA LineCountType ==
    ASSUME NEW s \in Seq(Chars), NEW width
    PROVE  line_count(s, width) \in Nat \ {0}
<1>1. IsFiniteSet(1 .. Len(s)) BY FS_Interval
<1>2. IsFiniteSet(Breaks(s, Len(s), width)) BY <1>1, FS_Subset DEF Breaks
<1>3. Cardinality(Breaks(s, Len(s), width)) \in Nat BY <1>2, FS_CardinalityType
<1> QED BY <1>3 DEF line_count
-----------------------------------------------------------------------------
(* The text on either side of the cursor *)

CursorInText == command \in Seq(Chars) /\ cursor_pos \in 0 .. Len(command)

Before == SubSeq(command, 1, cursor_pos)
After == SubSeq(command, cursor_pos + 1, Len(command))

\* A text that was put together comes apart again.
LEMMA Cut ==
    ASSUME NEW S, NEW b \in Seq(S), NEW a \in Seq(S)
    PROVE  /\ SubSeq(b \o a, 1, Len(b)) = b
           /\ SubSeq(b \o a, Len(b) + 1, Len(b \o a)) = a
<1> DEFINE t == b \o a
<1>1. /\ t \in Seq(S) /\ Len(t) = Len(b) + Len(a) /\ Len(a) \in Nat /\ Len(b) \in Nat
      /\ \A i \in 1 .. Len(b) + Len(a) : t[i] = IF i <= Len(b) THEN b[i] ELSE a[i - Len(b)]
      /\ \A i \in 1 .. Len(t) : t[i] \in S
  BY ConcatProperties, LenProperties, ElementOfSeq
<1> HIDE DEF t
<1>2. SubSeq(t, 1, Len(b)) = b
  <2>1. /\ SubSeq(t, 1, Len(b)) \in Seq(S) /\ Len(SubSeq(t, 1, Len(b))) = Len(b)
        /\ \A i \in 1 .. Len(b) : SubSeq(t, 1, Len(b))[i] = t[i]
    BY <1>1, SubSeqProperties
  <2> QED BY <1>1, <2>1, SeqEqual
<1>3. SubSeq(t, Len(b) + 1, Len(t)) = a
  <2>1. /\ SubSeq(t, Len(b) + 1, Len(t)) \in Seq(S)
        /\ Len(SubSeq(t, Len(b) + 1, Len(t))) = Len(a)
        /\ \A i \in 1 .. Len(a) : SubSeq(t, Len(b) + 1, Len(t))[i] = t[Len(b) + i]
    BY <1>1, SubSeqProperties
  <2>2. \A i \in 1 .. Len(a) : t[Len(b) + i] = a[i] BY <1>1
  <2> QED BY <1>1, <2>1, <2>2, SeqEqual
<1> QED BY <1>2, <1>3 DEF t

\* A text is what is before a position and what is after it.
LEMMA PartedAt ==
    ASSUME NEW S, NEW t \in Seq(S), NEW p \in 0 .. Len(t)
    PROVE  /\ SubSeq(t, 1, p) \in Seq(S) /\ Len(SubSeq(t, 1, p)) = p
           /\ SubSeq(t, p + 1, Len(t)) \in Seq(S) /\ Len(SubSeq(t, p + 1, Len(t))) = Len(t) - p
           /\ t = SubSeq(t, 1, p) \o SubSeq(t, p + 1, Len(t))
<1>1. Len(t) \in Nat /\ \A i \in 1 .. Len(t) : t[i] \in S BY LenProperties, ElementOfSeq
<1>2. SubSeq(t, 1, p) \in Seq(S) /\ Len(SubSeq(t, 1, p)) = p BY <1>1, SubSeqProperties
<1>3. SubSeq(t, p + 1, Len(t)) \in Seq(S) /\ Len(SubSeq(t, p + 1, Len(t))) = Len(t) - p
  BY <1>1, SubSeqProperties
<1>4. 1 \in 1 .. Len(t) + 1 /\ p \in 1 - 1 .. Len(t) /\ Len(t) \in p .. Len(t) BY <1>1
<1>5. SubSeq(t, 1, p) \o SubSeq(t, p + 1, Len(t)) = SubSeq(t, 1, Len(t))
  BY <1>4, ConcatAdjacentSubSeq
<1> QED BY <1>2, <1>3, <1>5, SubSeqFull

\* The text is what is before the cursor and what is after it.
LEMMA Parted ==
    ASSUME CursorInText
    PROVE  /\ Before \in Seq(Chars) /\ Len(Before) = cursor_pos
           /\ After \in Seq(Chars) /\ Len(After) = Len(command) - cursor_pos
           /\ command = Before \o After
BY PartedAt DEF CursorInText, Before, After

\* After a key that leaves b before the cursor and a after it.
LEMMA Rejoined ==
    ASSUME NEW b \in Seq(Chars), NEW a \in Seq(Chars),
           command' = b \o a, cursor_pos' = Len(b)
    PROVE  CursorInText' /\ Before' = b /\ After' = a
<1>1. command' \in Seq(Chars) /\ cursor_pos' \in 0 .. Len(command')
  BY ConcatProperties, LenProperties
<1> QED BY <1>1, Cut DEF CursorInText, Before, After

\* The refinement mapping, in these terms.
LEMMA Viewed ==
    /\ EditorView!Insert <=>
         /\ Before' \in Seq(Chars) /\ IsStrictPrefix(Before, Before')
         /\ Len(Before') <= Len(Before) + 4 /\ After' = After
    /\ EditorView!EraseAhead <=> After # <<>> /\ After' = Tail(After) /\ Before' = Before
    /\ EditorView!EraseBehind <=>
         Before # <<>> /\ Before' = SubSeq(Before, 1, Len(Before) - 1) /\ After' = After
    /\ EditorView!Move <=> Before' \o After' = Before \o After
    /\ EditorView!Clear <=> Before' = <<>> /\ After' = <<>>
BY DEF EditorView!Insert, EditorView!EraseAhead, EditorView!EraseBehind, EditorView!Move,
       EditorView!Clear, EditorView!IsStrictPrefix, EditorView!IsPrefix, IsStrictPrefix, IsPrefix,
       Before, After

\* One lemma for each kind of key: what it does to the text before and after
\* the cursor.
LEMMA InsertEdits ==
    ASSUME CursorInText, NEW s \in Seq(Chars), Len(s) \in 1 .. 4, Insert(s)
    PROVE  CursorInText' /\ EditorView!Insert
<1> DEFINE b == Before \o s
<1>1. b \in Seq(Chars) /\ Len(b) = cursor_pos + Len(s) BY Parted, ConcatProperties
<1>2. command' = b \o After /\ cursor_pos' = Len(b) BY <1>1 DEF Insert, Before, After
<1>3. CursorInText' /\ Before' = b /\ After' = After BY <1>1, <1>2, Parted, Rejoined
<1>4. SubSeq(b, 1, Len(Before)) = Before BY Parted, Cut
<1>5. SubSeq(Before, 1, Len(Before)) = Before BY Parted, SubSeqFull
<1> HIDE DEF b
<1>6. Len(Before) \in Nat /\ Len(b) = Len(Before) + Len(s) BY <1>1, Parted, LenProperties
<1>7. b # Before BY <1>6
<1>8. IsStrictPrefix(Before, b) BY <1>1, <1>4, <1>5, <1>6, <1>7, Parted DEF IsStrictPrefix, IsPrefix
<1>9. Before' \in Seq(Chars) /\ IsStrictPrefix(Before, Before') BY <1>1, <1>3, <1>8
<1>10. Len(b) <= Len(Before) + 4
  <2>1. \A m, n \in Nat : n \in 1 .. 4 => m + n <= m + 4 OBVIOUS
  <2>2. Len(s) \in Nat BY LenProperties
  <2> QED BY <1>6, <2>1, <2>2
<1>11. Len(Before') <= Len(Before) + 4 BY <1>3, <1>10
<1> QED BY <1>3, <1>9, <1>11, Viewed

\* KEY_DC erases the character after the cursor,
LEMMA DeleteEdits ==
    ASSUME CursorInText, Delete
    PROVE  CursorInText' /\ EditorView!EraseAhead
<1>1. Len(command) \in Nat /\ cursor_pos \in 0 .. Len(command) /\ cursor_pos < Len(command)
  BY LenProperties DEF CursorInText, Delete
<1>2. After # <<>> BY <1>1, Parted, EmptySeq
<1>3. Tail(After) = SubSeq(command, cursor_pos + 2, Len(command))
  BY <1>1, HeadTailOfSubSeq DEF CursorInText, After
<1>4. Tail(After) \in Seq(Chars) BY <1>2, Parted, HeadTailProperties
<1>5. command' = Before \o Tail(After) /\ cursor_pos' = Len(Before)
  BY <1>3, Parted DEF Delete, Without, Before
<1>6. CursorInText' /\ Before' = Before /\ After' = Tail(After)
  BY <1>4, <1>5, Parted, Rejoined
<1> QED BY <1>2, <1>6, Viewed

\* ... KEY_BACKSPACE the one before it,
LEMMA BackspaceEdits ==
    ASSUME CursorInText, Backspace
    PROVE  CursorInText' /\ EditorView!EraseBehind
<1>1. Len(command) \in Nat /\ cursor_pos \in 1 .. Len(command)
  BY LenProperties DEF CursorInText, Backspace
<1>2. Before # <<>> BY <1>1, Parted, EmptySeq
<1> DEFINE b == SubSeq(Before, 1, Len(Before) - 1)
<1>3. \A i \in 1 .. Len(Before) - 1 : Before[i] \in Chars BY <1>1, Parted, ElementOfSeq
<1>4. b \in Seq(Chars) /\ Len(b) = cursor_pos - 1
  BY <1>1, <1>3, Parted, SubSeqProperties
<1>5. b = SubSeq(command, 1, cursor_pos - 1)
  <2>1. CASE cursor_pos = 1 BY <1>1, <2>1, Parted, SubSeqEmpty
  <2>2. CASE cursor_pos > 1 BY <1>1, <2>2, Parted, SubSeqOfSubSeq DEF CursorInText, Before
  <2> QED BY <1>1, <2>1, <2>2
<1>6. command' = b \o After /\ cursor_pos' = Len(b)
  <2>1. cursor_pos - 1 + 2 = cursor_pos + 1 BY <1>1
  <2> QED BY <1>4, <1>5, <2>1 DEF Backspace, Without, After
<1>7. CursorInText' /\ Before' = b /\ After' = After BY <1>4, <1>6, Parted, Rejoined
<1> QED BY <1>2, <1>7, Viewed

\* ... and a motion leaves the text alone.
LEMMA MotionEdits ==
    ASSUME CursorInText, Motion
    PROVE  CursorInText' /\ EditorView!Move
<1>1. Len(command) \in Nat /\ cursor_pos \in 0 .. Len(command)
  BY LenProperties DEF CursorInText
<1>2. command' = command /\ cursor_pos' \in 0 .. Len(command)
  <2>1. UpTarget(command, cursor_pos) \in 0 .. Len(command) BY <1>1, UpRange
  <2>2. DownTarget(command, cursor_pos) \in 0 .. Len(command) BY <1>1, DownRange
  <2> QED BY <1>1, <2>1, <2>2 DEF Motion, MoveTo
<1>3. CursorInText' BY <1>2 DEF CursorInText
<1>4. command' = Before' \o After' BY <1>3, PartedAt DEF CursorInText, Before, After
<1> QED BY <1>2, <1>3, <1>4, Parted, Viewed

\* Every key edits next to the cursor, or moves it within the text.
LEMMA KeyEdits ==
    ASSUME CursorInText, Edit
    PROVE  CursorInText' /\ EditorView!EditorNext
<1>1. CASE Insertion
  <2>1. PICK s : Insert(s) /\ s \in Seq(Chars) /\ Len(s) \in 1 .. 4
    <3>1. Space \in Chars /\ NewLine \in Chars /\ Printable \subseteq Chars BY DEF Chars
    <3>2. CASE \E c \in Printable : Insert(<<c>>)
      <4>1. PICK c \in Printable : Insert(<<c>>) BY <3>2
      <4> WITNESS <<c>>
      <4> QED BY <3>1, <4>1
    <3>3. CASE Insert(<<Space, Space, Space, Space>>)
      <4> WITNESS <<Space, Space, Space, Space>>
      <4> QED BY <3>1, <3>3
    <3>4. CASE Insert(<<NewLine>>)
      <4> WITNESS <<NewLine>>
      <4> QED BY <3>1, <3>4
    <3> QED BY <1>1, <3>2, <3>3, <3>4 DEF Insertion
  <2> QED BY <2>1, InsertEdits DEF EditorView!EditorNext
<1>2. CASE Delete BY <1>2, DeleteEdits DEF EditorView!EditorNext
<1>3. CASE Backspace BY <1>3, BackspaceEdits DEF EditorView!EditorNext
<1>4. CASE Motion BY <1>4, MotionEdits DEF EditorView!EditorNext
<1> QED BY <1>1, <1>2, <1>3, <1>4 DEF Edit

\* Enter.
LEMMA ClearEdits ==
    ASSUME clear_command
    PROVE  CursorInText' /\ EditorView!EditorNext
<1>1. <<>> \in Seq(Chars) /\ Len(<<>>) = 0 BY EmptySeq
<1>2. CursorInText' BY <1>1 DEF CursorInText, clear_command
<1>3. Before' = <<>> /\ After' = <<>> BY <1>1, SubSeqEmpty DEF Before, After, clear_command
<1> QED BY <1>2, <1>3, Viewed DEF EditorView!EditorNext
-----------------------------------------------------------------------------
(* Where the cursor's line is *)

\* A line of m times w characters, counted with a divisor that is not fixed.
LEMMA Multiples ==
    ASSUME NEW w \in Nat \ {0}
    PROVE  /\ \A n \in Nat \ {0} : n % w = 0 => n \div w \in Nat \ {0} /\ n = (n \div w) * w
           /\ \A m \in Nat \ {0} : /\ (m * w) % w = 0 /\ m * w \in Nat \ {0}
                                   /\ m * (w + 1) - m = m * w
           /\ \A m, n \in Nat : m * w = n * w => m = n
<1>1. ASSUME NEW n \in Nat \ {0}, n % w = 0
      PROVE  n \div w \in Nat \ {0} /\ n = (n \div w) * w
  BY <1>1
<1>2. ASSUME NEW m \in Nat \ {0}
      PROVE  (m * w) % w = 0 /\ m * w \in Nat \ {0} /\ m * (w + 1) - m = m * w
  OBVIOUS
<1>3. ASSUME NEW m \in Nat, NEW n \in Nat, m * w = n * w PROVE m = n
  BY <1>3
<1> QED BY <1>1, <1>2, <1>3

\* The line a position is on has no new line before the position.
LEMMA ColumnLine ==
    ASSUME NEW s, NEW p \in Nat
    PROVE  LET start == p - Column(s, p)
           IN /\ start \in 0 .. p /\ (start = 0 \/ s[start] = NewLine)
              /\ \A q \in start + 1 .. p : s[q] # NewLine
<1> DEFINE starts == {0} \cup {q \in 1 .. p : s[q] = NewLine}
<1>1. starts \subseteq 0 .. p /\ starts # {} OBVIOUS
<1>2. Max(starts) \in starts /\ \A q \in starts : q <= Max(starts) BY <1>1, MaxOf
<1>3. p - Column(s, p) = Max(starts) BY <1>1, <1>2 DEF Column
<1>4. ASSUME NEW q \in Max(starts) + 1 .. p, s[q] = NewLine PROVE FALSE
  <2>1. Max(starts) \in 0 .. p BY <1>1, <1>2
  <2> HIDE DEF starts
  <2>2. q \in 1 .. p BY <2>1
  <2>3. q \in starts BY <1>4, <2>2 DEF starts
  <2> QED BY <1>2, <2>1, <2>3
<1> QED BY <1>1, <1>2, <1>3, <1>4

\* Lines of w characters wrap where those of w + 1 do, only earlier: the m-th
\* wrap of a line by one more is m characters after the m-th by w.
WrapOf(s, q, w) == IF s[q] = NewLine THEN q ELSE q - Column(s, q - 1) \div (w + 1)

LEMMA WrapEarlier ==
    ASSUME NEW s, NEW p \in Nat, NEW w \in Nat \ {0}, NEW q \in Breaks(s, p, w + 1),
           s[q] # NewLine
    PROVE  LET m == Column(s, q - 1) \div (w + 1)
           IN /\ m \in Nat \ {0} /\ WrapOf(s, q, w) = q - m
              /\ q - m \in 1 .. q /\ s[q - m] # NewLine
              /\ Column(s, q - m - 1) = m * w
<1> DEFINE c == Column(s, q - 1)
           m == c \div (w + 1)
           start == q - 1 - c
<1>1. q \in 1 .. p /\ q - 1 \in Nat /\ c > 0 /\ c % (w + 1) = 0 BY DEF Breaks
<1>2. c \in 0 .. q - 1 BY <1>1, ColumnRange
<1>3. /\ start \in 0 .. q - 1 /\ (start = 0 \/ s[start] = NewLine)
      /\ \A r \in start + 1 .. q - 1 : s[r] # NewLine
  BY <1>1, ColumnLine
<1>4. WrapOf(s, q, w) = q - m BY DEF WrapOf
<1> HIDE DEF c
<1>5. m \in Nat \ {0} /\ c = m * (w + 1)
  <2>1. w + 1 \in Nat \ {0} /\ c \in Nat \ {0} BY <1>1, <1>2
  <2> QED BY <1>1, <2>1, Multiples
<1> HIDE DEF m
<1>6. m * w \in Nat \ {0} /\ c - m = m * w BY <1>5, Multiples
<1>7. q - m - 1 = start + m * w /\ q - m \in start + 1 .. q - 1 /\ q - m - 1 \in start .. q - 1
  BY <1>1, <1>2, <1>5, <1>6
<1>8. Column(s, q - m - 1) = m * w
  <2>1. q - m - 1 \in Nat /\ start \in 0 .. q - m - 1 BY <1>3, <1>7
  <2>2. \A r \in start + 1 .. q - m - 1 : s[r] # NewLine BY <1>1, <1>3, <1>7
  <2>3. Column(s, q - m - 1) = (q - m - 1) - start BY <1>3, <2>1, <2>2, ColumnFrom
  <2> HIDE DEF start
  <2> QED BY <1>3, <1>6, <1>7, <2>1, <2>3
<1>9. q - m \in 1 .. q /\ s[q - m] # NewLine BY <1>1, <1>3, <1>5, <1>7
<1> QED BY <1>4, <1>5, <1>8, <1>9 DEF m, c

\* So a text has at least as many breaks by w as its beginning has by w + 1,
LEMMA FewerBreaks ==
    ASSUME NEW s \in Seq(Chars), NEW p \in 0 .. Len(s), NEW w \in Nat \ {0}
    PROVE  Cardinality(Breaks(s, p, w + 1)) <= Cardinality(Breaks(s, Len(s), w))
<1> DEFINE A == Breaks(s, p, w + 1)
           B == Breaks(s, Len(s), w)
           f == [q \in A |-> WrapOf(s, q, w)]
<1>1. Len(s) \in Nat /\ p \in Nat /\ p <= Len(s) BY LenProperties
<1>2. A \subseteq 1 .. p BY DEF Breaks
<1>3. ASSUME NEW q \in A PROVE f[q] \in B /\ (s[f[q]] = NewLine <=> s[q] = NewLine)
  <2>1. CASE s[q] = NewLine BY <1>1, <1>2, <2>1 DEF WrapOf, Breaks
  <2>2. CASE s[q] # NewLine
    <3> DEFINE m == Column(s, q - 1) \div (w + 1)
    <3>1. /\ m \in Nat \ {0} /\ f[q] = q - m /\ q - m \in 1 .. q /\ s[q - m] # NewLine
          /\ Column(s, q - m - 1) = m * w
      BY <1>1, <2>2, WrapEarlier
    <3> HIDE DEF m
    <3>2. (m * w) % w = 0 /\ m * w \in Nat \ {0} BY <3>1, Multiples
    <3>3. f[q] \in 1 .. Len(s) BY <1>1, <1>2, <3>1
    <3>4. Column(s, f[q] - 1) > 0 /\ Column(s, f[q] - 1) % w = 0 BY <3>1, <3>2
    <3> QED BY <2>2, <3>1, <3>3, <3>4 DEF Breaks
  <2> QED BY <2>1, <2>2
<1>4. ASSUME NEW q \in A, NEW r \in A, f[q] = f[r] PROVE q = r
  <2>1. CASE s[q] = NewLine
    <3>1. s[r] = NewLine BY <1>3, <1>4, <2>1
    <3> QED BY <1>4, <2>1, <3>1 DEF WrapOf
  <2>2. CASE s[q] # NewLine
    <3> DEFINE m == Column(s, q - 1) \div (w + 1)
               n == Column(s, r - 1) \div (w + 1)
    <3>1. s[r] # NewLine BY <1>3, <1>4, <2>2
    <3>2. m \in Nat \ {0} /\ f[q] = q - m /\ Column(s, q - m - 1) = m * w
      BY <1>1, <2>2, WrapEarlier
    <3>3. n \in Nat \ {0} /\ f[r] = r - n /\ Column(s, r - n - 1) = n * w
      BY <1>1, <3>1, WrapEarlier
    <3> HIDE DEF m, n, f
    <3>4. q - m = r - n BY <1>4, <3>2, <3>3
    <3>5. m * w = n * w BY <3>2, <3>3, <3>4
    <3>6. m = n BY <3>2, <3>3, <3>5, Multiples
    <3>7. q \in 1 .. p /\ r \in 1 .. p BY <1>2
    <3> QED BY <1>1, <3>2, <3>4, <3>6, <3>7
  <2> QED BY <2>1, <2>2
<1>5. f \in Injection(A, B) BY <1>3, <1>4 DEF Injection, IsInjective
<1>6. IsFiniteSet(1 .. Len(s)) BY <1>1, FS_Interval
<1>7. IsFiniteSet(B) BY <1>6, FS_Subset DEF Breaks
<1> HIDE DEF f, A, B
<1>8. Cardinality(A) <= Cardinality(B) BY <1>5, <1>7, FS_Injection
<1> QED BY <1>8 DEF A, B

\* ... and the cursor is on one of the text's lines, although it wraps a
\* character later.
LEMMA RowInText ==
    ASSUME NEW s \in Seq(Chars), NEW p \in 0 .. Len(s), NEW w \in Nat \ {0}
    PROVE  CursorRow(s, p, w) \in 0 .. line_count(s, w) - 1
<1>1. Len(s) \in Nat /\ p \in Nat BY LenProperties
<1>2. IsFiniteSet(1 .. p) /\ IsFiniteSet(1 .. Len(s)) BY <1>1, FS_Interval
<1>3. IsFiniteSet(Breaks(s, p, w + 1)) /\ IsFiniteSet(Breaks(s, Len(s), w))
  BY <1>2, FS_Subset DEF Breaks
<1>4. Cardinality(Breaks(s, p, w + 1)) \in Nat /\ Cardinality(Breaks(s, Len(s), w)) \in Nat
  BY <1>3, FS_CardinalityType
<1>5. Cardinality(Breaks(s, p, w + 1)) <= Cardinality(Breaks(s, Len(s), w)) BY FewerBreaks
<1> QED BY <1>4, <1>5 DEF CursorRow, line_count

-----------------------------------------------------------------------------
(* Windows *)

\* A quarter and a fifth less is no more than the whole.
LEMMA Portions ==
    ASSUME NEW n \in Nat
    PROVE  /\ (3 * n) \div 4 \in Nat /\ (3 * n) \div 4 <= n
           /\ (4 * n) \div 5 \in Nat /\ (4 * n) \div 5 <= n
OBVIOUS

\* What is inside a border is a rectangle,
LEMMA InnerRect == ASSUME NEW r \in Rect PROVE Inner(r) \in Rect
BY DEF Rect, Inner, Shrunk

\* ... and so is the inside of the terminal.
LEMMA InteriorRect == ASSUME NEW cols \in Nat, NEW rows \in Nat PROVE Interior(cols, rows) \in Rect
BY InnerRect DEF Rect, Interior

\* What a split cuts off its rectangle it gives to one child or the other.
LEMMA RowsSplit ==
    ASSUME NEW r \in Rect, NEW n \in 0 .. r.height
    PROVE  /\ Upper(r, n) \in Rect /\ Lower(r, n) \in Rect
           /\ \A i, j \in Int :
                /\ Covers(r, i, j) <=> Covers(Upper(r, n), i, j) \/ Covers(Lower(r, n), i, j)
                /\ ~(Covers(Upper(r, n), i, j) /\ Covers(Lower(r, n), i, j))
<1>1. r.x \in Nat /\ r.y \in Nat /\ r.width \in Nat /\ r.height \in Nat /\ n \in Nat /\ n <= r.height
  BY DEF Rect
<1>2. Upper(r, n) = [x |-> r.x, y |-> r.y, width |-> r.width, height |-> n]
  BY DEF Rect, Upper
<1>3. Lower(r, n) = [x |-> r.x, y |-> r.y + n,
                     width |-> r.width, height |-> r.height - n]
  <2> DEFINE moved == [r EXCEPT !.y = @ + n]
  <2>1. moved = [x |-> r.x, y |-> r.y + n, width |-> r.width, height |-> r.height]
    BY DEF Rect
  <2>2. Lower(r, n) = [moved EXCEPT !.height = @ - n] BY DEF Lower
  <2> HIDE DEF moved
  <2> QED BY <2>1, <2>2
<1>4. Upper(r, n) \in Rect BY <1>1, <1>2 DEF Rect
<1>5. Lower(r, n) \in Rect BY <1>1, <1>3 DEF Rect
<1>6. ASSUME NEW i \in Int, NEW j \in Int
      PROVE  /\ Covers(r, i, j) <=> Covers(Upper(r, n), i, j) \/ Covers(Lower(r, n), i, j)
             /\ ~(Covers(Upper(r, n), i, j) /\ Covers(Lower(r, n), i, j))
  BY <1>1, <1>2, <1>3 DEF Covers
<1> QED BY <1>4, <1>5, <1>6

\* ... and the same for columns.
LEMMA ColumnsSplit ==
    ASSUME NEW r \in Rect, NEW n \in 0 .. r.width
    PROVE  /\ Left(r, n) \in Rect /\ Right(r, n) \in Rect
           /\ \A i, j \in Int :
                /\ Covers(r, i, j) <=> Covers(Left(r, n), i, j) \/ Covers(Right(r, n), i, j)
                /\ ~(Covers(Left(r, n), i, j) /\ Covers(Right(r, n), i, j))
<1>1. r.x \in Nat /\ r.y \in Nat /\ r.width \in Nat /\ r.height \in Nat /\ n \in Nat /\ n <= r.width
  BY DEF Rect
<1>2. Left(r, n) = [x |-> r.x, y |-> r.y, width |-> n, height |-> r.height]
  BY DEF Rect, Left
<1>3. Right(r, n) = [x |-> r.x + n, y |-> r.y,
                     width |-> r.width - n, height |-> r.height]
  <2> DEFINE moved == [r EXCEPT !.x = @ + n]
  <2>1. moved = [x |-> r.x + n, y |-> r.y, width |-> r.width, height |-> r.height]
    BY DEF Rect
  <2>2. Right(r, n) = [moved EXCEPT !.width = @ - n] BY DEF Right
  <2> HIDE DEF moved
  <2> QED BY <2>1, <2>2
<1>4. Left(r, n) \in Rect BY <1>1, <1>2 DEF Rect
<1>5. Right(r, n) \in Rect BY <1>1, <1>3 DEF Rect
<1>6. ASSUME NEW i \in Int, NEW j \in Int
      PROVE  /\ Covers(r, i, j) <=> Covers(Left(r, n), i, j) \/ Covers(Right(r, n), i, j)
             /\ ~(Covers(Left(r, n), i, j) /\ Covers(Right(r, n), i, j))
  BY <1>1, <1>2, <1>3 DEF Covers
<1> QED BY <1>4, <1>5, <1>6

\* The places of the three splits lie within what they divide.
LEMMA Places ==
    ASSUME NEW r \in Rect, NEW lines \in Nat
    PROVE  /\ TitleRows(r) \in 0 .. r.height
           /\ PanelColumns(r) \in 0 .. r.width
           /\ LogRows(r, lines) \in 0 .. r.height
<1>1. r.height \in Nat /\ r.width \in Nat BY DEF Rect
<1>2. TitleRows(r) \in 0 .. r.height BY <1>1 DEF TitleRows
<1>3. PanelColumns(r) \in 0 .. r.width BY <1>1, Portions DEF PanelColumns
<1>4. LogRows(r, lines) \in 0 .. r.height BY <1>1, Portions DEF LogRows
<1> QED BY <1>2, <1>3, <1>4

\* Every cell of a terminal of any size is shared as it should be.
THEOREM CellsShared ==
    ASSUME NEW cols \in Nat, NEW rows \in Nat, NEW lines \in Nat
    PROVE  /\ Boxes(cols, rows, lines) \in [1 .. 4 -> Rect]
           /\ \A i, j \in Int : CellShared(Interior(cols, rows), Boxes(cols, rows, lines), i, j)
<1> DEFINE whole == Interior(cols, rows)
           title == TitleBox(cols, rows)
           lobby == Lobby(cols, rows)
           panel == Panel(cols, rows)
           players == PlayerBox(cols, rows)
           logBox == LogBox(cols, rows, lines)
           typing == CommandBox(cols, rows, lines)
           boxed == Boxes(cols, rows, lines)
<1>1. whole \in Rect BY InteriorRect
<1>2. /\ title \in Rect /\ lobby \in Rect
      /\ \A i, j \in Int : /\ Covers(whole, i, j) <=> Covers(title, i, j) \/ Covers(lobby, i, j)
                           /\ ~(Covers(title, i, j) /\ Covers(lobby, i, j))
  <2>1. TitleRows(whole) \in 0 .. whole.height BY <1>1, Places
  <2> QED BY <1>1, <2>1, RowsSplit DEF TitleBox, Lobby
<1>3. /\ panel \in Rect /\ players \in Rect
      /\ \A i, j \in Int : /\ Covers(lobby, i, j) <=> Covers(panel, i, j) \/ Covers(players, i, j)
                           /\ ~(Covers(panel, i, j) /\ Covers(players, i, j))
  <2>1. PanelColumns(lobby) \in 0 .. lobby.width BY <1>2, Places
  <2> QED BY <1>2, <2>1, ColumnsSplit DEF Panel, PlayerBox
<1>4. /\ logBox \in Rect /\ typing \in Rect
      /\ \A i, j \in Int : /\ Covers(panel, i, j) <=> Covers(logBox, i, j) \/ Covers(typing, i, j)
                           /\ ~(Covers(logBox, i, j) /\ Covers(typing, i, j))
  <2>1. LogRows(panel, lines) \in 0 .. panel.height BY <1>3, Places
  <2> QED BY <1>3, <2>1, RowsSplit DEF LogBox, CommandBox
<1>5. boxed = <<title, logBox, typing, players>> BY DEF Boxes
<1>6. boxed \in [1 .. 4 -> Rect] BY <1>2, <1>3, <1>4, <1>5
<1> HIDE DEF whole, title, lobby, panel, players, logBox, typing, boxed
<1>7. ASSUME NEW i \in Int, NEW j \in Int PROVE CellShared(whole, boxed, i, j)
  <2>1. /\ Covers(boxed[1], i, j) <=> Covers(title, i, j)
        /\ Covers(boxed[2], i, j) <=> Covers(logBox, i, j)
        /\ Covers(boxed[3], i, j) <=> Covers(typing, i, j)
        /\ Covers(boxed[4], i, j) <=> Covers(players, i, j)
    BY <1>5
  <2>2. Covers(whole, i, j) <=> \E b \in 1 .. 4 : Covers(boxed[b], i, j)
    BY <2>1, <1>2, <1>3, <1>4
  <2>3. ASSUME NEW b \in 1 .. 4, NEW c \in 1 .. 4, Covers(boxed[b], i, j), Covers(boxed[c], i, j)
        PROVE  b = c
    <3>1. b \in {1, 2, 3, 4} /\ c \in {1, 2, 3, 4} OBVIOUS
    <3> QED BY <3>1, <2>1, <2>3, <1>2, <1>3, <1>4
  <2> QED BY <2>2, <2>3 DEF CellShared
<1> QED BY <1>6, <1>7 DEF whole, boxed

\* A tiling is sampled at cells.
LEMMA SharedTiles ==
    ASSUME NEW whole \in Rect, NEW boxed \in [1 .. 4 -> Rect],
           \A i, j \in Int : CellShared(whole, boxed, i, j)
    PROVE  Tiled(whole, boxed)
<1> DEFINE rects == {whole} \cup {boxed[b] : b \in 1 .. 4}
<1>1. ASSUME NEW i \in UNION {{r.x - 1, r.x, r.x + r.width} : r \in rects} PROVE i \in Int
  <2>1. PICK r \in rects : i \in {r.x - 1, r.x, r.x + r.width} OBVIOUS
  <2>2. r \in Rect OBVIOUS
  <2>3. r.x \in Nat /\ r.width \in Nat BY <2>2 DEF Rect
  <2> QED BY <2>1, <2>3
<1>2. ASSUME NEW j \in UNION {{r.y - 1, r.y, r.y + r.height} : r \in rects} PROVE j \in Int
  <2>1. PICK r \in rects : j \in {r.y - 1, r.y, r.y + r.height} OBVIOUS
  <2>2. r \in Rect OBVIOUS
  <2>3. r.y \in Nat /\ r.height \in Nat BY <2>2 DEF Rect
  <2> QED BY <2>1, <2>3
<1> QED BY <1>1, <1>2 DEF Tiled

-----------------------------------------------------------------------------
(* The screen *)

\* The boxes were laid out for this terminal, for some number of lines.
ScreenInv ==
    /\ CursorInText
    /\ size \in Sizes
    /\ \E lines \in Nat \ {0} : boxes = LaidOut(size, lines)

\* A terminal has natural sides.
LEMMA SizeTypes == ASSUME NEW s \in Sizes PROVE s[1] \in Nat /\ s[2] \in Nat
BY SizesAssumption

\* At the start the prompt is empty and laid out for one line.
LEMMA ScreenInvInit == Init => ScreenInv
<1> SUFFICES ASSUME Init PROVE ScreenInv OBVIOUS
<1>1. CursorInText BY EmptySeq DEF Init, PromptInit, CursorInText
<1>2. 1 \in Nat \ {0} OBVIOUS
<1> QED BY <1>1, <1>2 DEF Init, ScreenInv

\* Making room for the prompt lays the boxes out for some number of lines.
LEMMA HeightChangeInv ==
    ASSUME CursorInText', size \in Sizes, UNCHANGED size, height_change,
           \E lines \in Nat \ {0} : boxes = LaidOut(size, lines)
    PROVE  ScreenInv'
<1>1. line_count(command', PromptWindow.width) \in Nat \ {0} BY LineCountType DEF CursorInText
<1>2. boxes' = boxes \/ boxes' = LaidOut(size, line_count(command', PromptWindow.width))
  BY DEF height_change
<1>3. \E lines \in Nat \ {0} : boxes' = LaidOut(size, lines) BY <1>1, <1>2
<1> QED BY <1>3 DEF ScreenInv

\* What the prompt's window shows of it is counted in integers.
LEMMA RowType ==
    ASSUME NEW s \in Seq(Chars), NEW p \in Int, NEW width
    PROVE  CursorRow(s, p, width) \in Int
<1>1. IsFiniteSet(1 .. p) BY FS_Interval
<1>2. IsFiniteSet(Breaks(s, p, width + 1)) BY <1>1, FS_Subset DEF Breaks
<1>3. Cardinality(Breaks(s, p, width + 1)) \in Nat BY <1>2, FS_CardinalityType
<1> QED BY <1>3, LineCountType DEF CursorRow

\* Every step keeps the invariant and edits a line, or leaves it alone.
LEMMA ScreenStep ==
    ASSUME ScreenInv, [Next]_vars
    PROVE  ScreenInv' /\ [EditorView!EditorNext]_(EditorView!editor)
<1>1. CASE Type
  <2>1. CursorInText' /\ EditorView!EditorNext BY <1>1, KeyEdits DEF Type, ScreenInv
  <2> QED BY <1>1, <2>1, HeightChangeInv DEF Type, ScreenInv
<1>2. CASE Enter
  <2>1. CursorInText' /\ EditorView!EditorNext BY <1>2, ClearEdits DEF Enter
  <2> QED BY <1>2, <2>1, HeightChangeInv DEF Enter, ScreenInv
<1>3. CASE Resize
  <2>1. UNCHANGED <<command, cursor_pos>> BY <1>3 DEF Resize, prompt
  <2>2. CursorInText' BY <2>1 DEF ScreenInv, CursorInText
  <2>3. PICK s \in Sizes : /\ size' = s
                           /\ boxes' = LaidOut(s, line_count(command, PromptWindow.width))
    BY <1>3 DEF Resize
  <2>4. line_count(command, PromptWindow.width) \in Nat \ {0}
    BY LineCountType DEF ScreenInv, CursorInText
  <2>5. ScreenInv' BY <2>2, <2>3, <2>4 DEF ScreenInv
  <2>6. UNCHANGED EditorView!editor BY <2>1 DEF EditorView!editor
  <2> QED BY <2>5, <2>6
<1>4. CASE UNCHANGED vars
  <2>1. UNCHANGED <<command, cursor_pos, size, boxes>> BY <1>4 DEF vars, prompt
  <2>2. UNCHANGED EditorView!editor BY <2>1 DEF EditorView!editor
  <2> QED BY <2>1, <2>2 DEF ScreenInv, CursorInText
<1> QED BY <1>1, <1>2, <1>3, <1>4 DEF Next

\* ScreenInv holds always.
LEMMA ScreenInvariant == Spec => []ScreenInv
<1>1. ScreenInv /\ [Next]_vars => ScreenInv' BY ScreenStep
<1> QED BY <1>1, ScreenInvInit, PTL DEF Spec

\* The boxes of the title, the log, the prompt and the players share the
\* terminal without a gap or an overlap, whatever is typed and however it is
\* resized (split.cpp, box.cpp).
THEOREM ScreenWindowsTiled == Spec => []WindowsTiled
<1>1. ScreenInv => WindowsTiled
  <2> SUFFICES ASSUME ScreenInv PROVE WindowsTiled OBVIOUS
  <2>1. PICK lines \in Nat : boxes = LaidOut(size, lines) BY DEF ScreenInv
  <2>2. size[1] \in Nat /\ size[2] \in Nat BY SizeTypes DEF ScreenInv
  <2>3. /\ boxes \in [1 .. 4 -> Rect]
        /\ \A i, j \in Int : CellShared(Interior(size[1], size[2]), boxes, i, j)
    BY <2>1, <2>2, CellsShared DEF LaidOut
  <2>4. Interior(size[1], size[2]) \in Rect BY <2>2, InteriorRect
  <2> QED BY <2>3, <2>4, SharedTiles DEF WindowsTiled
<1> QED BY <1>1, ScreenInvariant, PTL

\* The prompt implements the line editor: no key does more than edit next to
\* the cursor or move it, and the cursor stays in the text
\* (command_prompt.cpp, update and clear_command).
THEOREM ScreenEditsLine == Spec => EditsLine
<1>1. Init => EditorView!EditorInit
  <2> SUFFICES ASSUME Init PROVE EditorView!EditorInit OBVIOUS
  <2>1. command = <<>> /\ cursor_pos = 0 BY DEF Init, PromptInit
  <2>2. Len(<<>>) = 0 OBVIOUS
  <2> QED BY <2>1, <2>2, SubSeqEmpty DEF EditorView!EditorInit
<1>2. ScreenInv /\ [Next]_vars => [EditorView!EditorNext]_(EditorView!editor) BY ScreenStep
<1> QED BY <1>1, <1>2, ScreenInvariant, PTL DEF Spec, EditsLine, EditorView!EditorSpec

\* Every variable has its type, the cursor is in the text and the windows have
\* sides that did not wrap around.
THEOREM ScreenTypeCorrect == Spec => []TypeOK
<1>1. Init => TypeOK
  <2> SUFFICES ASSUME Init PROVE TypeOK OBVIOUS
  <2>1. CursorInText /\ size \in Sizes BY ScreenInvInit DEF ScreenInv
  <2>2. boxes \in [1 .. 4 -> Rect] BY <2>1, SizeTypes, CellsShared DEF Init, LaidOut
  <2>3. offset \in Int /\ last_count \in Nat BY DEF Init, PromptInit
  <2> QED BY <2>1, <2>2, <2>3 DEF Init, TypeOK, PromptTypeOK, CursorInText
<1>2. TypeOK /\ ScreenInv /\ ScreenInv' /\ [Next]_vars => TypeOK'
  <2> SUFFICES ASSUME TypeOK, ScreenInv, ScreenInv', [Next]_vars PROVE TypeOK' OBVIOUS
  <2>1. CursorInText' /\ size' \in Sizes BY DEF ScreenInv
  <2>2. boxes' \in [1 .. 4 -> Rect]
    <3>1. PICK lines \in Nat : boxes' = LaidOut(size', lines) BY DEF ScreenInv
    <3> QED BY <2>1, <3>1, SizeTypes, CellsShared DEF LaidOut
  <2>3. PromptWindow.height \in Nat
    <3>1. PromptWindow \in Rect BY InnerRect DEF TypeOK, PromptWindow
    <3> QED BY <3>1 DEF Rect
  <2>4. offset' \in Int
    <3>1. CASE Type
      <4>1. CursorRow(command', cursor_pos', PromptWindow.width) \in Int
        BY <2>1, RowType DEF CursorInText
      <4> QED BY <2>3, <3>1, <4>1 DEF Type, Follow, TypeOK, PromptTypeOK
    <3>2. CASE ~Type BY <3>2 DEF Next, Enter, clear_command, Resize, vars, prompt, TypeOK, PromptTypeOK
    <3> QED BY <3>1, <3>2
  <2>5. last_count' \in Nat
    <3>1. CASE height_change
      <4>1. line_count(command', PromptWindow.width) \in Nat
        BY <2>1, LineCountType DEF CursorInText
      <4>2. Capped(line_count(command', PromptWindow.width), PromptWindow.height + 1) \in Nat
        BY <2>3, <4>1 DEF Capped
      <4> QED BY <3>1, <4>2 DEF height_change, TypeOK, PromptTypeOK
    <3>2. CASE ~height_change
      BY <3>2 DEF Next, Type, Enter, Resize, vars, prompt, TypeOK, PromptTypeOK
    <3> QED BY <3>1, <3>2
  <2>6. resized' \in BOOLEAN
    BY DEF Next, Type, Enter, Resize, vars, TypeOK
  <2>7. mode' \in {"TYPING", "THROWN", "ASTRAY"}
    BY DEF Next, Type, Enter, Resize, Drawn, vars, TypeOK
  <2> QED BY <2>1, <2>2, <2>4, <2>5, <2>6, <2>7 DEF TypeOK, PromptTypeOK, CursorInText
<1> QED BY <1>1, <1>2, ScreenInvariant, PTL DEF Spec

\* KEY_UP and KEY_DOWN go to the lines above and below in every text
\* (command_prompt.cpp, update).
THEOREM ScreenVerticalMoves == Spec => []VerticalMoves
<1>1. ScreenInv => VerticalMoves
  <2> SUFFICES ASSUME ScreenInv PROVE VerticalMoves OBVIOUS
  <2>1. Len(command) \in Nat /\ cursor_pos \in 0 .. Len(command)
    BY LenProperties DEF ScreenInv, CursorInText
  <2> QED BY <2>1, UpMoves, DownMoves DEF VerticalMoves
<1> QED BY <1>1, ScreenInvariant, PTL

-----------------------------------------------------------------------------
(* The cursor is in the window *)

\* The prompt's window on a terminal, laid out for so many lines.
WindowOf(s, lines) == Inner(CommandBox(s[1], s[2], lines))

\* The lines that the panel lets the prompt have, a quarter of its rows rounded
\* up without the border.
MostLines(rows) == rows - (3 * rows) \div 4 - 2

\* What is left of the panel's rows, without the border, is what the lines ask
\* for when that is less than the most it may have.
LEMMA RowsLeft ==
    ASSUME NEW r \in Rect, NEW lines \in Nat \ {0},
           Shrunk(r.height - LogRows(r, 1)) >= 1
    PROVE  /\ MostLines(r.height) \in Nat \ {0}
           /\ Shrunk(r.height - LogRows(r, lines)) =
                IF lines <= MostLines(r.height) THEN lines ELSE MostLines(r.height)
<1>1. r.height \in Nat BY DEF Rect
<1> QED BY <1>1 DEF Shrunk, LogRows, MostLines

\* The rows of the panel that the log leaves are the prompt's, border included.
LEMMA PanelRows ==
    ASSUME NEW s \in Sizes
    PROVE  /\ Panel(s[1], s[2]) \in Rect
           /\ \A lines \in Nat :
                 /\ LogRows(Panel(s[1], s[2]), lines) \in 0 .. Panel(s[1], s[2]).height
                 /\ WindowOf(s, lines).width = Shrunk(Panel(s[1], s[2]).width)
                 /\ WindowOf(s, lines).height =
                      Shrunk(Panel(s[1], s[2]).height - LogRows(Panel(s[1], s[2]), lines))
<1> DEFINE panel == Panel(s[1], s[2])
<1>1. s[1] \in Nat /\ s[2] \in Nat BY SizeTypes
<1>2. panel \in Rect
  <2> DEFINE whole == Interior(s[1], s[2])
             lobby == Lobby(s[1], s[2])
  <2>1. whole \in Rect BY <1>1, InteriorRect
  <2>2. TitleRows(whole) \in 0 .. whole.height /\ 0 \in Nat BY <2>1, Places
  <2>3. lobby \in Rect BY <2>1, <2>2, RowsSplit DEF Lobby
  <2> HIDE DEF lobby
  <2>4. PanelColumns(lobby) \in 0 .. lobby.width BY <2>2, <2>3, Places
  <2> QED BY <2>3, <2>4, ColumnsSplit DEF Panel, lobby
<1>3. ASSUME NEW lines \in Nat
      PROVE  /\ LogRows(panel, lines) \in 0 .. panel.height
             /\ WindowOf(s, lines).width = Shrunk(panel.width)
             /\ WindowOf(s, lines).height = Shrunk(panel.height - LogRows(panel, lines))
  <2> DEFINE n == LogRows(panel, lines)
             box == Lower(panel, n)
  <2>1. n \in 0 .. panel.height BY <1>2, Places
  <2> HIDE DEF n
  <2>2. panel.height \in Nat /\ panel.width \in Nat BY <1>2 DEF Rect
  <2>3. box = [x |-> panel.x, y |-> panel.y + n, width |-> panel.width, height |-> panel.height - n]
    <3> HIDE DEF panel
    <3> DEFINE moved == [panel EXCEPT !.y = @ + n]
    <3>1. moved = [x |-> panel.x, y |-> panel.y + n, width |-> panel.width, height |-> panel.height]
      BY <1>2 DEF Rect
    <3>2. box = [moved EXCEPT !.height = @ - n] BY DEF Lower
    <3> HIDE DEF moved
    <3> QED BY <3>1, <3>2
  <2>4. WindowOf(s, lines) = Inner(box) BY DEF WindowOf, CommandBox, n
  <2> HIDE DEF box, panel
  <2>5. Inner(box).width = Shrunk(panel.width) /\ Inner(box).height = Shrunk(panel.height - n)
    BY <2>3 DEF Inner
  <2> QED BY <2>1, <2>4, <2>5 DEF n
<1> QED BY <1>2, <1>3

\* The window has the width of the panel, and the height its lines ask for up
\* to a limit.
LEMMA WindowSize ==
    ASSUME NEW s \in Sizes
    PROVE  \E width \in Nat \ {0}, most \in Nat \ {0} : \A lines \in Nat \ {0} :
              /\ WindowOf(s, lines).width = width
              /\ WindowOf(s, lines).height = IF lines <= most THEN lines ELSE most
<1> DEFINE panel == Panel(s[1], s[2])
<1>1. panel \in Rect BY PanelRows
<1>2. ASSUME NEW lines \in Nat
      PROVE  /\ WindowOf(s, lines).width = Shrunk(panel.width)
             /\ WindowOf(s, lines).height = Shrunk(panel.height - LogRows(panel, lines))
  BY PanelRows
<1>3. WindowOf(s, 1).width >= 1 /\ WindowOf(s, 1).height >= 1 BY SizesAssumption DEF WindowOf
<1> HIDE DEF panel
<1> DEFINE width == Shrunk(panel.width)
           most == MostLines(panel.height)
<1>4. width \in Nat \ {0}
  <2>1. panel.width \in Nat BY <1>1 DEF Rect
  <2>2. width \in Nat BY <2>1 DEF Shrunk
  <2>3. width >= 1 BY <1>2, <1>3
  <2> QED BY <2>2, <2>3
<1>5. Shrunk(panel.height - LogRows(panel, 1)) >= 1 BY <1>2, <1>3
<1>6. most \in Nat \ {0} BY <1>1, <1>5, RowsLeft
<1>7. ASSUME NEW lines \in Nat \ {0}
      PROVE  /\ WindowOf(s, lines).width = width
             /\ WindowOf(s, lines).height = IF lines <= most THEN lines ELSE most
  BY <1>1, <1>2, <1>5, RowsLeft
<1> HIDE DEF width, most
<1> QED BY <1>4, <1>6, <1>7

\* The third box is the prompt's.
LEMMA PromptBox ==
    ASSUME NEW s, NEW lines, boxes = LaidOut(s, lines)
    PROVE  PromptWindow = WindowOf(s, lines)
BY DEF PromptWindow, LaidOut, Boxes, WindowOf

\* The cursor's line is in the window.
Visible ==
    LET row == CursorRow(command, cursor_pos, PromptWindow.width)
    IN 0 <= offset /\ offset <= row /\ row < offset + PromptWindow.height

\* The only line of no text is the cursor's.
LEMMA EmptyRow == ASSUME NEW w PROVE CursorRow(<<>>, 0, w) = 0
<1>1. Len(<<>>) = 0 OBVIOUS
<1>2. Breaks(<<>>, 0, w) = {} /\ Breaks(<<>>, 0, w + 1) = {} BY DEF Breaks
<1>3. Breaks(<<>>, Len(<<>>), w) = {} BY <1>1, <1>2
<1>4. line_count(<<>>, w) = 1
  <2>1. Cardinality(Breaks(<<>>, Len(<<>>), w)) = 0 BY <1>3, FS_EmptySet
  <2> QED BY <2>1 DEF line_count
<1>5. Cardinality(Breaks(<<>>, 0, w + 1)) = 0 BY <1>2, FS_EmptySet
<1> QED BY <1>4, <1>5 DEF CursorRow

\* Follow scrolls by the height the window had: should the window shrink then,
\* it is because the text has no more lines than fit.
LEMMA StaysVisible ==
    ASSUME ScreenInv, TypeOK, CursorInText', UNCHANGED size, height_change,
           clear_command \/ (Visible /\ Follow(PromptWindow.width, PromptWindow.height))
    PROVE  Visible'
<1> DEFINE w == PromptWindow.width
           h == PromptWindow.height
           lines == line_count(command', w)
           row == CursorRow(command', cursor_pos', w)
<1>1. PICK width \in Nat \ {0}, most \in Nat \ {0} : \A n \in Nat \ {0} :
          /\ WindowOf(size, n).width = width
          /\ WindowOf(size, n).height = IF n <= most THEN n ELSE most
  BY WindowSize DEF ScreenInv
<1>2. PICK old \in Nat \ {0} : boxes = LaidOut(size, old) BY DEF ScreenInv
<1>3. w = width /\ h = IF old <= most THEN old ELSE most BY <1>1, <1>2, PromptBox
<1>4. lines \in Nat \ {0} BY LineCountType DEF CursorInText
<1>5. row \in 0 .. lines - 1 BY <1>3, RowInText DEF CursorInText
<1>6. /\ PromptWindow'.width = w
      /\ PromptWindow'.height = h \/ PromptWindow'.height = IF lines <= most THEN lines ELSE most
  <2>1. CASE boxes' = boxes BY <2>1 DEF PromptWindow
  <2>2. CASE boxes' = LaidOut(size, lines)
    <3>1. PromptWindow' = WindowOf(size, lines)
      BY <2>2 DEF PromptWindow, LaidOut, Boxes, WindowOf
    <3> QED BY <1>1, <1>3, <1>4, <3>1
  <2> QED BY <2>1, <2>2 DEF height_change
<1>7. h \in Nat \ {0} /\ offset \in Int BY <1>1, <1>3 DEF TypeOK, PromptTypeOK
<1>8. offset' \in Int /\ 0 <= offset' /\ offset' <= row /\ row < offset' + h
  <2>1. CASE Visible /\ Follow(w, h)
    <3>1. /\ 0 <= offset
          /\ offset' = IF row < offset THEN row
                       ELSE IF row >= offset + h THEN row - h + 1 ELSE offset
      BY <2>1 DEF Visible, Follow
    <3> HIDE DEF w, h, lines, row
    <3> QED BY <1>4, <1>5, <1>7, <3>1
  <2>2. CASE clear_command
    <3>1. command' = <<>> /\ cursor_pos' = 0 /\ offset' = 0 BY <2>2 DEF clear_command
    <3>2. row = 0 BY <3>1, EmptyRow
    <3> HIDE DEF w, h, lines, row
    <3> QED BY <1>7, <3>1, <3>2
  <2> QED BY <2>1, <2>2
<1>9. Visible' <=> /\ 0 <= offset' /\ offset' <= row /\ row < offset' + PromptWindow'.height
  BY <1>6 DEF Visible
<1> HIDE DEF w, h, lines, row
<1>10. row < offset' + PromptWindow'.height
  <2>1. CASE PromptWindow'.height = h BY <1>8, <2>1
  <2>2. CASE PromptWindow'.height = IF lines <= most THEN lines ELSE most
    <3>1. \A r, n, o \in Int : r < n /\ 0 <= o => r < o + n OBVIOUS
    <3>2. row \in Int /\ lines \in Int /\ row < lines BY <1>4, <1>5
    <3>3. row < offset' + lines BY <1>8, <3>1, <3>2
    <3>4. CASE lines > most
      <4>1. h <= most BY <1>3
      <4>2. \A r, a, b, o \in Int : r < o + a /\ a <= b => r < o + b OBVIOUS
      <4>3. h \in Int /\ most \in Int /\ offset' \in Int /\ row \in Int BY <1>7, <1>8, <3>2
      <4>4. row < offset' + h BY <1>8
      <4>5. row < offset' + most BY <4>1, <4>2, <4>3, <4>4
      <4>6. PromptWindow'.height = most BY <2>2, <3>2, <3>4
      <4> QED BY <4>5, <4>6
    <3>5. lines <= most \/ lines > most BY <3>2
    <3> QED BY <2>2, <3>3, <3>4, <3>5
  <2> QED BY <1>6, <2>1, <2>2
<1> QED BY <1>8, <1>9, <1>10

\* At the start there is one line, and the cursor is on it.
LEMMA VisibleInit == Init => Visible
<1> SUFFICES ASSUME Init PROVE Visible OBVIOUS
<1>1. command = <<>> /\ cursor_pos = 0 /\ offset = 0 /\ size \in Sizes /\ boxes = LaidOut(size, 1)
  BY DEF Init, PromptInit
<1>2. PromptWindow.width \in Nat \ {0} /\ PromptWindow.height \in Nat \ {0}
  BY <1>1, WindowSize, PromptBox
<1>3. CursorRow(command, cursor_pos, PromptWindow.width) = 0 BY <1>1, EmptyRow
<1> QED BY <1>1, <1>2, <1>3 DEF Visible

\* The line the cursor is on is in the window of a terminal that has not been
\* resized, for every text and every terminal: update() scrolls by the height
\* the window had before the key, and the window is laid out anew only then
\* (command_prompt.cpp, update and height_change).
THEOREM ScreenCursorVisible == Spec => []CursorVisible
<1>1. Init => CursorVisible BY VisibleInit DEF CursorVisible, Visible
<1>2. CursorVisible /\ TypeOK /\ ScreenInv /\ ScreenInv' /\ [Next]_vars => CursorVisible'
  <2> SUFFICES ASSUME CursorVisible, TypeOK, ScreenInv, ScreenInv', [Next]_vars, ~resized'
               PROVE  Visible'
    BY DEF CursorVisible, Visible
  <2>1. CASE Type \/ Enter
    <3>1. ~resized /\ Visible BY <2>1 DEF Type, Enter, CursorVisible, Visible
    <3>2. UNCHANGED size /\ height_change /\ CursorInText' BY <2>1 DEF Type, Enter, ScreenInv
    <3>3. clear_command \/ Follow(PromptWindow.width, PromptWindow.height)
      BY <2>1 DEF Type, Enter
    <3> QED BY <3>1, <3>2, <3>3, StaysVisible
  <2>2. CASE Resize BY <2>2 DEF Resize
  <2>3. CASE UNCHANGED vars
    <3>1. UNCHANGED <<command, cursor_pos, offset, boxes, resized>> BY <2>3 DEF vars, prompt
    <3> QED BY <3>1 DEF CursorVisible, Visible, PromptWindow
  <2> QED BY <2>1, <2>2, <2>3 DEF Next
<1> QED BY <1>1, <1>2, ScreenInvariant, ScreenTypeCorrect, PTL DEF Spec

-----------------------------------------------------------------------------
(* How many lines a key adds *)

\* Lengths of so many lines of w characters, counted with a width that is not fixed.
LEMMA Products ==
    ASSUME NEW w \in Nat \ {0}
    PROVE  /\ \A m \in Nat : m * w \in Nat /\ (m = 0 => m * w = 0) /\ (m = 1 => m * w = w)
           /\ \A m, n \in Nat : (m + n) * w = m * w + n * w
           /\ \A m, n \in Nat : m <= n => (n - m) * w = n * w - m * w /\ m * w <= n * w
           /\ \A m, n \in Nat : m * w < n * w + w => m <= n
           /\ \A n \in Nat : \E m \in Nat, r \in 0 .. w - 1 : n = m * w + r
<1>1. ASSUME NEW m \in Nat PROVE m * w \in Nat /\ (m = 0 => m * w = 0) /\ (m = 1 => m * w = w)
  OBVIOUS
<1>2. ASSUME NEW m \in Nat, NEW n \in Nat PROVE (m + n) * w = m * w + n * w
  OBVIOUS
<1>3. ASSUME NEW m \in Nat, NEW n \in Nat, m <= n
      PROVE  (n - m) * w = n * w - m * w /\ m * w <= n * w
  <2>1. n - m \in Nat BY <1>3
  <2>2. n = (n - m) + m BY <1>3
  <2>3. n * w = (n - m) * w + m * w BY <1>2, <2>1, <2>2
  <2>4. (n - m) * w \in Nat /\ n * w \in Nat /\ m * w \in Nat BY <1>1, <2>1
  <2> QED BY <2>3, <2>4
<1>4. ASSUME NEW m \in Nat, NEW n \in Nat, m * w < n * w + w PROVE m <= n
  <2>1. CASE n + 1 <= m
    <3>1. (n + 1) * w <= m * w BY <1>3, <2>1
    <3>2. (n + 1) * w = n * w + w BY <1>1, <1>2
    <3>3. n * w \in Nat /\ m * w \in Nat BY <1>1
    <3> QED BY <1>4, <3>1, <3>2, <3>3
  <2> QED BY <2>1
<1>5. ASSUME NEW n \in Nat PROVE \E m \in Nat, r \in 0 .. w - 1 : n = m * w + r
  <2> DEFINE r == n % w
             whole == n - r
  <2>1. r \in 0 .. w - 1 /\ whole \in Nat /\ whole % w = 0 OBVIOUS
  <2> HIDE DEF r
  <2>2. \E m \in Nat : whole = m * w
    <3>1. CASE whole = 0 BY <1>1, <3>1
    <3>2. CASE whole # 0
      <4>1. whole \in Nat \ {0} BY <2>1, <3>2
      <4> HIDE DEF whole
      <4>2. whole \div w \in Nat /\ whole = (whole \div w) * w BY <2>1, <4>1, Multiples
      <4> QED BY <4>2
    <3> QED BY <3>1, <3>2
  <2>3. n = whole + r BY <2>1
  <2> HIDE DEF whole
  <2> QED BY <2>1, <2>2, <2>3
<1> QED BY <1>1, <1>2, <1>3, <1>4, <1>5

\* A line that begins after `start` characters wraps after w of them, and after
\* every w more.
WrapsAt(start, w, q) == \E m \in Nat \ {0} : q = start + 1 + m * w

\* ... which is where Breaks has the wraps of that line.
LEMMA BreaksOn ==
    ASSUME NEW s, NEW n \in Nat, NEW w \in Nat \ {0}, NEW stop \in 0 .. n, NEW start \in 0 .. stop,
           start = 0 \/ s[start] = NewLine, \A q \in start + 1 .. stop : s[q] # NewLine
    PROVE  \A q \in start + 1 .. stop :
              q \in Breaks(s, n, w) <=> WrapsAt(start, w, q)
<1> SUFFICES ASSUME NEW q \in start + 1 .. stop
             PROVE  q \in Breaks(s, n, w) <=> WrapsAt(start, w, q)
  OBVIOUS
<1>1. q \in 1 .. n /\ s[q] # NewLine /\ q - 1 \in Nat /\ start \in 0 .. q - 1 OBVIOUS
<1>2. Column(s, q - 1) = q - 1 - start
  <2>1. \A r \in start + 1 .. q - 1 : s[r] # NewLine BY <1>1
  <2> QED BY <1>1, <2>1, ColumnFrom
<1>3. q \in Breaks(s, n, w) <=> q - 1 - start > 0 /\ (q - 1 - start) % w = 0
  BY <1>1, <1>2 DEF Breaks
<1> DEFINE c == q - 1 - start
<1>4. c \in Nat /\ q = start + 1 + c BY <1>1
<1> HIDE DEF c
<1>5. (c > 0 /\ c % w = 0) <=> \E m \in Nat \ {0} : c = m * w
  <2>1. ASSUME c > 0, c % w = 0 PROVE \E m \in Nat \ {0} : c = m * w
    <3>1. c \div w \in Nat \ {0} /\ c = (c \div w) * w BY <1>4, <2>1, Multiples
    <3> QED BY <3>1
  <2>2. ASSUME NEW m \in Nat \ {0}, c = m * w PROVE c > 0 /\ c % w = 0
    <3>1. (m * w) % w = 0 /\ m * w \in Nat \ {0} BY Multiples
    <3> QED BY <2>2, <3>1
  <2> QED BY <2>1, <2>2
<1>6. \A m \in Nat \ {0} : m * w \in Nat BY Products
<1>7. (\E m \in Nat \ {0} : c = m * w) <=> WrapsAt(start, w, q) BY <1>4, <1>6 DEF WrapsAt
<1> QED BY <1>3, <1>5, <1>7 DEF c

\* Texts that begin alike have the same breaks there,
LEMMA BreaksBefore ==
    ASSUME NEW s, NEW t, NEW p \in Nat, NEW m \in Nat, NEW n \in Nat, p <= m, p <= n, NEW w,
           \A i \in 1 .. p : t[i] = s[i]
    PROVE  \A q \in 1 .. p : q \in Breaks(t, m, w) <=> q \in Breaks(s, n, w)
<1> SUFFICES ASSUME NEW q \in 1 .. p PROVE q \in Breaks(t, m, w) <=> q \in Breaks(s, n, w)
  OBVIOUS
<1>1. {r \in 1 .. q - 1 : t[r] = NewLine} = {r \in 1 .. q - 1 : s[r] = NewLine} OBVIOUS
<1>2. Column(t, q - 1) = Column(s, q - 1) BY <1>1 DEF Column
<1> QED BY <1>2 DEF Breaks

\* ... and so have those that end alike, from the end of a line on.
LEMMA BreaksAfter ==
    ASSUME NEW s, NEW t, NEW n \in Nat, NEW k \in Nat, NEW e \in 0 .. n, NEW w,
           e = n \/ s[e + 1] = NewLine, \A i \in e + 1 .. n : t[i + k] = s[i]
    PROVE  \A q \in e + 1 .. n : q + k \in Breaks(t, n + k, w) <=> q \in Breaks(s, n, w)
<1> SUFFICES ASSUME NEW q \in e + 1 .. n
             PROVE  q + k \in Breaks(t, n + k, w) <=> q \in Breaks(s, n, w)
  OBVIOUS
<1>1. s[e + 1] = NewLine OBVIOUS
<1>2. q \in 1 .. n /\ q + k \in 1 .. n + k /\ t[q + k] = s[q] OBVIOUS
<1>3. CASE q = e + 1 BY <1>1, <1>2, <1>3 DEF Breaks
<1>4. CASE q > e + 1
  <2> DEFINE j == q - 1
             start == j - Column(s, j)
  <2>1. j \in e + 1 .. n /\ j \in Nat /\ q + k - 1 = j + k /\ j + k \in Nat BY <1>4
  <2>2. /\ start \in 0 .. j /\ (start = 0 \/ s[start] = NewLine)
        /\ \A r \in start + 1 .. j : s[r] # NewLine
    BY <2>1, ColumnLine
  <2>3. Column(s, j) \in 0 .. j BY <2>1, ColumnRange
  <2>4. Column(s, j) = j - start BY <2>1, <2>3
  <2> HIDE DEF j, start
  <2>5. start \in e + 1 .. j BY <1>1, <2>1, <2>2
  <2>6. t[start + k] = NewLine BY <2>1, <2>2, <2>5
  <2>7. \A r \in start + k + 1 .. j + k : t[r] # NewLine
    <3> SUFFICES ASSUME NEW r \in start + k + 1 .. j + k PROVE t[r] # NewLine OBVIOUS
    <3>1. r - k \in start + 1 .. j /\ r - k \in e + 1 .. n /\ r = r - k + k BY <2>1, <2>5
    <3>2. t[r] = s[r - k] BY <3>1
    <3> QED BY <2>2, <3>1, <3>2
  <2>8. Column(t, j + k) = j + k - (start + k)
    <3>1. start + k \in 0 .. j + k BY <2>1, <2>2
    <3> QED BY <2>1, <2>6, <2>7, <3>1, ColumnFrom
  <2>9. Column(t, j + k) = Column(s, j) BY <2>1, <2>4, <2>5, <2>8
  <2>10. Column(t, q + k - 1) = Column(s, q - 1) BY <2>1, <2>9 DEF j
  <2> QED BY <1>2, <2>10 DEF Breaks
<1> QED BY <1>3, <1>4

\* t is u with k characters put in after the first p.
Widened(t, u, p, k) ==
    /\ t \in Seq(Chars) /\ u \in Seq(Chars)
    /\ p \in 0 .. Len(u) /\ k \in Nat /\ Len(t) = Len(u) + k
    /\ \A i \in 1 .. p : t[i] = u[i]
    /\ \A i \in p + 1 .. Len(u) : t[i + k] = u[i]

\* Where the line that position p is on begins, and where it ends.
LEMMA LineAround ==
    ASSUME NEW u \in Seq(Chars), NEW p \in 0 .. Len(u)
    PROVE  LET start == p - Column(u, p)
               e == LineEnd(u, p)
           IN /\ start \in 0 .. p /\ (start = 0 \/ u[start] = NewLine)
              /\ e \in p .. Len(u) /\ (e = Len(u) \/ u[e + 1] = NewLine)
              /\ \A q \in start + 1 .. e : u[q] # NewLine
<1> DEFINE start == p - Column(u, p)
           e == LineEnd(u, p)
<1>1. Len(u) \in Nat /\ p \in Nat BY LenProperties
<1>2. start \in 0 .. p /\ (start = 0 \/ u[start] = NewLine) /\ \A q \in start + 1 .. p : u[q] # NewLine
  BY <1>1, ColumnLine
<1>3. /\ e \in p .. Len(u) /\ (e = Len(u) \/ u[e + 1] = NewLine)
      /\ \A q \in p .. Len(u) - 1 : u[q + 1] = NewLine => e <= q
  BY <1>1, LineEndRange, LineEndFinds
<1> HIDE DEF start, e
<1>4. ASSUME NEW q \in p + 1 .. e PROVE u[q] # NewLine
  <2>1. q - 1 \in p .. Len(u) - 1 /\ q - 1 + 1 = q /\ ~(e <= q - 1) BY <1>1, <1>3
  <2> QED BY <1>3, <2>1
<1>5. \A q \in start + 1 .. e : u[q] # NewLine BY <1>1, <1>2, <1>3, <1>4
<1> QED BY <1>2, <1>3, <1>5 DEF start, e

\* Characters put into a line change no break before its end and none after it.
LEMMA BreaksWidened ==
    ASSUME NEW t, NEW u, NEW p, NEW k, Widened(t, u, p, k),
           \A i \in p + 1 .. p + k : t[i] # NewLine, NEW w \in Nat \ {0}
    PROVE  LET start == p - Column(u, p)
               e == LineEnd(u, p)
               T == Breaks(t, Len(t), w)
               U == Breaks(u, Len(u), w)
           IN /\ \A q \in 1 .. e : q \in T <=> q \in U
              /\ \A q \in e + 1 .. e + k : q \in T => WrapsAt(start, w, q)
              /\ \A q \in e + 1 .. Len(u) : q + k \in T <=> q \in U
<1> DEFINE start == p - Column(u, p)
           e == LineEnd(u, p)
           T == Breaks(t, Len(t), w)
           U == Breaks(u, Len(u), w)
           n == Len(u)
<1>1. /\ n \in Nat /\ p \in 0 .. n /\ k \in Nat /\ Len(t) = n + k /\ n + k \in Nat
      /\ \A i \in 1 .. p : t[i] = u[i]
      /\ \A i \in p + 1 .. n : t[i + k] = u[i]
  BY LenProperties DEF Widened
<1>2. /\ start \in 0 .. p /\ (start = 0 \/ u[start] = NewLine)
      /\ e \in p .. n /\ (e = n \/ u[e + 1] = NewLine)
      /\ \A q \in start + 1 .. e : u[q] # NewLine
  BY LineAround DEF Widened
<1>3. T = Breaks(t, n + k, w) /\ U = Breaks(u, n, w) BY <1>1
<1> HIDE DEF start, e, T, U, n
<1>4. start = 0 \/ t[start] = NewLine BY <1>1, <1>2
<1>5. \A q \in start + 1 .. e + k : t[q] # NewLine
  <2> SUFFICES ASSUME NEW q \in start + 1 .. e + k PROVE t[q] # NewLine OBVIOUS
  <2>1. CASE q \in start + 1 .. p BY <1>1, <1>2, <2>1
  <2>2. CASE q \in p + 1 .. p + k BY <2>2
  <2>3. CASE q \in p + k + 1 .. e + k
    <3>1. q - k \in p + 1 .. n /\ q - k \in start + 1 .. e /\ q = q - k + k BY <1>1, <1>2, <2>3
    <3>2. t[q] = u[q - k] BY <1>1, <3>1
    <3> QED BY <1>2, <3>1, <3>2
  <2> QED BY <1>1, <1>2, <2>1, <2>2, <2>3
<1>6. \A q \in start + 1 .. e + k : q \in T <=> WrapsAt(start, w, q)
  <2>1. e + k \in 0 .. n + k /\ start \in 0 .. e + k BY <1>1, <1>2
  <2>2. \A q \in start + 1 .. e + k :
            q \in Breaks(t, n + k, w) <=> WrapsAt(start, w, q)
    BY <1>1, <1>4, <1>5, <2>1, BreaksOn
  <2> QED BY <1>3, <2>2
<1>7. \A q \in start + 1 .. e : q \in U <=> WrapsAt(start, w, q)
  <2>1. e \in 0 .. n /\ start \in 0 .. e BY <1>1, <1>2
  <2>2. \A q \in start + 1 .. e :
            q \in Breaks(u, n, w) <=> WrapsAt(start, w, q)
    BY <1>1, <1>2, <2>1, BreaksOn
  <2> QED BY <1>3, <2>2
<1>8. \A q \in 1 .. p : q \in T <=> q \in U
  <2>1. p \in Nat /\ p <= n /\ p <= n + k BY <1>1
  <2> QED BY <1>1, <1>3, <2>1, BreaksBefore
<1>9. \A q \in 1 .. e : q \in T <=> q \in U
  <2> SUFFICES ASSUME NEW q \in 1 .. e PROVE q \in T <=> q \in U OBVIOUS
  <2>1. CASE q \in 1 .. p BY <1>8, <2>1
  <2>2. CASE q \in start + 1 .. e
    <3>1. q \in start + 1 .. e + k BY <1>1, <1>2, <2>2
    <3> QED BY <1>6, <1>7, <2>2, <3>1
  <2> QED BY <1>1, <1>2, <2>1, <2>2
<1>10. ASSUME NEW q \in e + 1 .. e + k, q \in T PROVE WrapsAt(start, w, q)
  <2>1. q \in start + 1 .. e + k BY <1>1, <1>2
  <2> QED BY <1>6, <1>10, <2>1
<1>11. \A q \in e + 1 .. n : q + k \in T <=> q \in U
  <2>1. e \in 0 .. n /\ \A i \in e + 1 .. n : t[i + k] = u[i] BY <1>1, <1>2
  <2> QED BY <1>1, <1>2, <1>3, <2>1, BreaksAfter
<1> QED BY <1>9, <1>10, <1>11 DEF start, e, T, U, n

\* A text whose breaks are those of another, but for one, has one line more at most.
LEMMA OneLineMore ==
    ASSUME NEW t \in Seq(Chars), NEW u \in Seq(Chars), NEW w,
           NEW f \in Injection(Breaks(t, Len(t), w), Breaks(u, Len(u), w) \cup {0})
    PROVE  line_count(t, w) <= line_count(u, w) + 1
<1> DEFINE T == Breaks(t, Len(t), w)
           U == Breaks(u, Len(u), w)
<1>1. IsFiniteSet(1 .. Len(t)) /\ IsFiniteSet(1 .. Len(u)) BY LenProperties, FS_Interval
<1>2. IsFiniteSet(T) /\ IsFiniteSet(U) BY <1>1, FS_Subset DEF Breaks
<1>3. f \in Injection(T, U \cup {0}) OBVIOUS
<1>4. 0 \notin U BY DEF Breaks
<1>5. line_count(t, w) = 1 + Cardinality(T) /\ line_count(u, w) = 1 + Cardinality(U)
  BY DEF line_count
<1> HIDE DEF T, U
<1>6. IsFiniteSet(U \cup {0}) /\ Cardinality(U \cup {0}) = Cardinality(U) + 1
  BY <1>2, <1>4, FS_AddElement
<1>7. Cardinality(T) <= Cardinality(U \cup {0}) BY <1>3, <1>6, FS_Injection
<1>8. Cardinality(T) \in Nat /\ Cardinality(U) \in Nat BY <1>2, FS_CardinalityType
<1> QED BY <1>5, <1>6, <1>7, <1>8

\* As many characters as fit on a line, without a new line, make one line more
\* at most, whether they are typed or erased,
LEMMA WordLines ==
    ASSUME NEW t, NEW u, NEW p, NEW k, Widened(t, u, p, k),
           \A i \in p + 1 .. p + k : t[i] # NewLine, NEW w \in Nat \ {0}, k <= w
    PROVE  line_count(t, w) <= line_count(u, w) + 1 /\ line_count(u, w) <= line_count(t, w) + 1
<1> DEFINE start == p - Column(u, p)
           e == LineEnd(u, p)
           T == Breaks(t, Len(t), w)
           U == Breaks(u, Len(u), w)
           n == Len(u)
           f == [q \in T |-> IF q <= e THEN q ELSE IF q <= e + k THEN 0 ELSE q - k]
           g == [q \in U |-> IF q <= e THEN q ELSE q + k]
<1>1. /\ \A q \in 1 .. e : q \in T <=> q \in U
      /\ \A q \in e + 1 .. e + k : q \in T => WrapsAt(start, w, q)
      /\ \A q \in e + 1 .. n : q + k \in T <=> q \in U
  BY BreaksWidened
<1>2. /\ t \in Seq(Chars) /\ u \in Seq(Chars) /\ n \in Nat /\ k \in Nat /\ Len(t) = n + k
      /\ p \in 0 .. n
  BY LenProperties DEF Widened
<1>3. start \in 0 .. p /\ e \in p .. n BY <1>2, LineAround
<1>4. T \subseteq 1 .. n + k /\ U \subseteq 1 .. n BY <1>2 DEF Breaks
<1> HIDE DEF start, e, T, U, n
<1>5. ASSUME NEW q \in T, NEW r \in T, q > e, r > e, q <= e + k, r <= e + k PROVE q = r
  <2>1. q \in e + 1 .. e + k /\ r \in e + 1 .. e + k BY <1>2, <1>3, <1>4, <1>5
  <2>2. PICK m \in Nat : q = start + 1 + m * w BY <1>1, <2>1 DEF WrapsAt
  <2>3. PICK l \in Nat : r = start + 1 + l * w BY <1>1, <2>1 DEF WrapsAt
  <2>4. m * w \in Nat /\ l * w \in Nat BY Products
  <2>5. m * w < l * w + w /\ l * w < m * w + w BY <1>2, <1>3, <2>1, <2>2, <2>3, <2>4
  <2>6. m <= l /\ l <= m BY <2>5, Products
  <2> QED BY <2>2, <2>3, <2>6
<1>6. f \in Injection(T, U \cup {0})
  <2>1. ASSUME NEW q \in T PROVE f[q] \in U \cup {0}
    <3>1. CASE q <= e BY <1>1, <1>2, <1>3, <1>4, <3>1
    <3>2. CASE q > e /\ q <= e + k BY <1>2, <1>3, <1>4, <3>2
    <3>3. CASE q > e + k
      <4>1. q - k \in e + 1 .. n /\ q - k + k = q BY <1>2, <1>3, <1>4, <3>3
      <4>2. q - k \in U BY <1>1, <4>1
      <4> QED BY <1>2, <1>3, <1>4, <3>3, <4>2
    <3> QED BY <1>2, <1>3, <1>4, <3>1, <3>2, <3>3
  <2>2. ASSUME NEW q \in T, NEW r \in T, f[q] = f[r] PROVE q = r
    <3>1. q \in 1 .. n + k /\ r \in 1 .. n + k BY <1>4
    <3> QED BY <1>2, <1>3, <1>5, <2>2, <3>1
  <2> QED BY <2>1, <2>2 DEF Injection, IsInjective
<1>7. g \in Injection(U, T \cup {0})
  <2>1. ASSUME NEW q \in U PROVE g[q] \in T
    <3>1. q \in 1 .. n /\ (q \in 1 .. e \/ q \in e + 1 .. n) BY <1>2, <1>3, <1>4
    <3> QED BY <1>1, <1>2, <1>3, <3>1
  <2>2. ASSUME NEW q \in U, NEW r \in U, g[q] = g[r] PROVE q = r
    <3>1. q \in 1 .. n /\ r \in 1 .. n BY <1>4
    <3> QED BY <1>2, <1>3, <2>2, <3>1
  <2> QED BY <2>1, <2>2 DEF Injection, IsInjective
<1> QED BY <1>2, <1>6, <1>7, OneLineMore DEF T, U

\* The breaks around a new line that is put into a line.
LEMMA BreaksSplit ==
    ASSUME NEW t, NEW u, NEW p, Widened(t, u, p, 1), t[p + 1] = NewLine, NEW w \in Nat \ {0}
    PROVE  LET start == p - Column(u, p)
               e == LineEnd(u, p)
               T == Breaks(t, Len(t), w)
               U == Breaks(u, Len(u), w)
           IN /\ \A q \in 1 .. p : q \in T <=> q \in U
              /\ p + 1 \in T
              /\ \A q \in p + 1 .. e : q \in U <=> WrapsAt(start, w, q)
              /\ \A q \in p + 2 .. e + 1 : q \in T <=> WrapsAt(p + 1, w, q)
              /\ \A q \in e + 1 .. Len(u) : q + 1 \in T <=> q \in U
<1> DEFINE start == p - Column(u, p)
           e == LineEnd(u, p)
           T == Breaks(t, Len(t), w)
           U == Breaks(u, Len(u), w)
           n == Len(u)
<1>1. /\ n \in Nat /\ p \in 0 .. n /\ Len(t) = n + 1 /\ n + 1 \in Nat
      /\ \A i \in 1 .. p : t[i] = u[i]
      /\ \A i \in p + 1 .. n : t[i + 1] = u[i]
  BY LenProperties DEF Widened
<1>2. /\ start \in 0 .. p /\ (start = 0 \/ u[start] = NewLine)
      /\ e \in p .. n /\ (e = n \/ u[e + 1] = NewLine)
      /\ \A q \in start + 1 .. e : u[q] # NewLine
  BY LineAround DEF Widened
<1>3. T = Breaks(t, n + 1, w) /\ U = Breaks(u, n, w) BY <1>1
<1>4. p + 1 \in T BY <1>1 DEF Breaks
<1> HIDE DEF start, e, T, U, n
<1>5. \A q \in 1 .. p : q \in T <=> q \in U
  <2>1. p \in Nat /\ p <= n /\ p <= n + 1 BY <1>1
  <2> QED BY <1>1, <1>3, <2>1, BreaksBefore
<1>6. \A q \in p + 1 .. e : q \in U <=> WrapsAt(start, w, q)
  <2>1. e \in 0 .. n /\ start \in 0 .. e BY <1>1, <1>2
  <2>2. \A q \in start + 1 .. e : q \in Breaks(u, n, w) <=> WrapsAt(start, w, q)
    BY <1>1, <1>2, <2>1, BreaksOn
  <2> QED BY <1>1, <1>2, <1>3, <2>2
<1>7. \A q \in p + 2 .. e + 1 : q \in T <=> WrapsAt(p + 1, w, q)
  <2>1. e + 1 \in 0 .. n + 1 /\ p + 1 \in 0 .. e + 1 BY <1>1, <1>2
  <2>2. \A q \in p + 2 .. e + 1 : t[q] # NewLine
    <3> SUFFICES ASSUME NEW q \in p + 2 .. e + 1 PROVE t[q] # NewLine OBVIOUS
    <3>1. q - 1 \in p + 1 .. n /\ q - 1 \in start + 1 .. e /\ q = q - 1 + 1 BY <1>1, <1>2
    <3>2. t[q] = u[q - 1] BY <1>1, <3>1
    <3> QED BY <1>2, <3>1, <3>2
  <2>3. p + 2 = p + 1 + 1 BY <1>1
  <2>4. \A q \in p + 1 + 1 .. e + 1 : q \in Breaks(t, n + 1, w) <=> WrapsAt(p + 1, w, q)
    BY ZenonT(30), <1>1, <2>1, <2>2, <2>3, BreaksOn
  <2> QED BY <1>3, <2>3, <2>4
<1>8. \A q \in e + 1 .. n : q + 1 \in T <=> q \in U
  <2>1. e \in 0 .. n /\ \A i \in e + 1 .. n : t[i + 1] = u[i] BY <1>1, <1>2
  <2> QED BY <1>1, <1>2, <1>3, <2>1, BreaksAfter
<1> QED BY <1>4, <1>5, <1>6, <1>7, <1>8 DEF start, e, T, U, n

\* ... and so does a new line: what it takes off a line wraps as that line did,
\* only r characters earlier, r being what was left of a row before it.
LEMMA NewLineLines ==
    ASSUME NEW t, NEW u, NEW p, Widened(t, u, p, 1), t[p + 1] = NewLine, NEW w \in Nat \ {0}
    PROVE  line_count(t, w) <= line_count(u, w) + 1 /\ line_count(u, w) <= line_count(t, w) + 1
<1> DEFINE start == p - Column(u, p)
           e == LineEnd(u, p)
           T == Breaks(t, Len(t), w)
           U == Breaks(u, Len(u), w)
           n == Len(u)
<1>1. /\ \A q \in 1 .. p : q \in T <=> q \in U
      /\ p + 1 \in T
      /\ \A q \in p + 1 .. e : q \in U <=> WrapsAt(start, w, q)
      /\ \A q \in p + 2 .. e + 1 : q \in T <=> WrapsAt(p + 1, w, q)
      /\ \A q \in e + 1 .. n : q + 1 \in T <=> q \in U
  BY BreaksSplit
<1>2. /\ t \in Seq(Chars) /\ u \in Seq(Chars) /\ n \in Nat /\ Len(t) = n + 1 /\ p \in 0 .. n
  BY LenProperties DEF Widened
<1>3. start \in 0 .. p /\ e \in p .. n BY <1>2, LineAround
<1>4. T \subseteq 1 .. n + 1 /\ U \subseteq 1 .. n BY <1>2 DEF Breaks
<1> HIDE DEF start, e, T, U, n
<1>5. PICK l \in Nat, r \in 0 .. w - 1 : p - start = l * w + r
  <2>1. p - start \in Nat BY <1>2, <1>3
  <2> QED BY ZenonT(30), <2>1, Products
<1>6. l * w \in Nat /\ p = start + l * w + r BY <1>2, <1>3, <1>5, Products
<1> DEFINE f == [q \in T |-> IF q <= p THEN q ELSE IF q = p + 1 THEN 0
                             ELSE IF q <= e + 1 THEN q - 1 - r ELSE q - 1]
           g == [q \in U |-> IF q <= p THEN q
                             ELSE IF q <= e
                             THEN IF q = p + 1 - r THEN p + 1
                                  ELSE IF q = p + 1 - r + w THEN 0 ELSE q + 1 - w + r
                             ELSE q + 1]
<1>7. ASSUME NEW q \in p + 2 .. e + 1, q \in T PROVE q - 1 - r \in p + 1 .. e /\ q - 1 - r \in U
  <2>1. PICK m \in Nat \ {0} : q = p + 2 + m * w
    <3>1. p + 1 + 1 = p + 2 BY <1>2
    <3> QED BY <1>1, <1>7, <3>1 DEF WrapsAt
  <2>2. m * w \in Nat /\ w <= m * w /\ (l + m) * w = l * w + m * w
    <3>1. 1 \in Nat /\ m \in Nat /\ 1 <= m OBVIOUS
    <3> QED BY <3>1, Products
  <2>3. q - 1 - r = start + 1 + (l + m) * w BY <1>2, <1>3, <1>6, <2>1, <2>2
  <2>4. l + m \in Nat \ {0} OBVIOUS
  <2>5. WrapsAt(start, w, q - 1 - r) BY <2>3, <2>4 DEF WrapsAt
  <2>6. q - 1 - r \in p + 1 .. e BY <1>2, <1>3, <2>1, <2>2
  <2> QED BY <1>1, <2>5, <2>6
<1>8. f \in Injection(T, U \cup {0})
  <2>1. ASSUME NEW q \in T PROVE f[q] \in U \cup {0}
    <3>1. q \in 1 .. n + 1 BY <1>4
    <3>2. CASE q <= p BY <1>1, <1>2, <3>1, <3>2
    <3>3. CASE q = p + 1 BY <1>2, <3>3
    <3>4. CASE q \in p + 2 .. e + 1 BY <1>2, <1>7, <3>4
    <3>5. CASE q > e + 1
      <4>1. q - 1 \in e + 1 .. n /\ q - 1 + 1 = q BY <1>2, <1>3, <3>1, <3>5
      <4> QED BY <1>1, <1>2, <1>3, <3>5, <4>1
    <3> QED BY <1>2, <1>3, <3>1, <3>2, <3>3, <3>4, <3>5
  <2>2. ASSUME NEW q \in T, NEW s \in T, f[q] = f[s] PROVE q = s
    <3>1. q \in 1 .. n + 1 /\ s \in 1 .. n + 1 BY <1>4
    <3>2. /\ q \in p + 2 .. e + 1 => q - 1 - r \in p + 1 .. e
          /\ s \in p + 2 .. e + 1 => s - 1 - r \in p + 1 .. e
      BY <1>7
    <3> QED BY <1>2, <1>3, <2>2, <3>1, <3>2
  <2> QED BY <2>1, <2>2 DEF Injection, IsInjective
<1>9. ASSUME NEW q \in p + 1 .. e, q \in U, q # p + 1 - r, q # p + 1 - r + w
      PROVE  q + 1 - w + r \in p + 2 .. e + 1 /\ q + 1 - w + r \in T
  <2>1. PICK m \in Nat \ {0} : q = start + 1 + m * w BY <1>1, <1>9 DEF WrapsAt
  <2>2. m * w \in Nat BY Products
  <2>3. m # l /\ m # l + 1
    <3>1. l * w + 1 * w = l * w + w /\ (l + 1) * w = l * w + 1 * w BY Products
    <3> QED BY <1>2, <1>3, <1>6, <1>9, <2>1, <3>1
  <2>4. l * w < m * w + w BY <1>2, <1>3, <1>6, <2>1, <2>2
  <2>5. m - l - 1 \in Nat \ {0} /\ m = (m - l - 1) + (l + 1)
    <3>1. l <= m BY <2>4, Products
    <3> QED BY <2>3, <3>1
  <2> DEFINE j == m - l - 1
  <2> HIDE DEF j
  <2>6. m * w = j * w + (l * w + w) /\ j * w \in Nat /\ w <= j * w
    <3>1. j \in Nat /\ l + 1 \in Nat /\ 1 \in Nat /\ 1 <= j BY <2>5 DEF j
    <3>2. m = j + (l + 1) BY <2>5 DEF j
    <3>3. m * w = j * w + (l + 1) * w BY <3>1, <3>2, Products
    <3>4. (l + 1) * w = l * w + w BY <3>1, Products
    <3> QED BY <3>1, <3>3, <3>4, Products
  <2>7. q + 1 - w + r = p + 1 + 1 + j * w
    <3> DEFINE before == l * w
               after == j * w
               whole == m * w
    <3>1. before \in Nat /\ p = start + before + r BY <1>6
    <3>2. whole = after + (before + w) /\ after \in Nat /\ q = start + 1 + whole BY <2>1, <2>6
    <3>3. start \in Int /\ r \in Int /\ w \in Int BY <1>2, <1>3
    <3> HIDE DEF before, after, whole
    <3>4. q + 1 - w + r = p + 1 + 1 + after BY <3>1, <3>2, <3>3
    <3> QED BY <3>4 DEF after
  <2>8. q + 1 - w + r \in p + 2 .. e + 1 BY <1>2, <1>3, <2>6, <2>7
  <2>9. j \in Nat \ {0} BY <2>5 DEF j
  <2>10. WrapsAt(p + 1, w, q + 1 - w + r) BY <2>7, <2>9 DEF WrapsAt
  <2> QED BY <1>1, <2>8, <2>10
<1>10. g \in Injection(U, T \cup {0})
  <2>1. ASSUME NEW q \in U PROVE g[q] \in T \cup {0}
    <3>1. q \in 1 .. n BY <1>4
    <3>2. CASE q <= p BY <1>1, <1>2, <3>1, <3>2
    <3>3. CASE q \in p + 1 .. e BY <1>1, <1>2, <1>9, <3>3
    <3>4. CASE q > e
      <4>1. q \in e + 1 .. n BY <1>2, <1>3, <3>1, <3>4
      <4> QED BY <1>1, <1>2, <1>3, <3>4, <4>1
    <3> QED BY <1>2, <1>3, <3>1, <3>2, <3>3, <3>4
  <2>2. ASSUME NEW q \in U, NEW s \in U, g[q] = g[s] PROVE q = s
    <3>1. q \in 1 .. n /\ s \in 1 .. n BY <1>4
    <3>2. /\ q \in p + 1 .. e /\ q # p + 1 - r /\ q # p + 1 - r + w => q + 1 - w + r \in p + 2 .. e + 1
          /\ s \in p + 1 .. e /\ s # p + 1 - r /\ s # p + 1 - r + w => s + 1 - w + r \in p + 2 .. e + 1
      BY <1>9
    <3> QED BY <1>2, <1>3, <2>2, <3>1, <3>2
  <2> QED BY <2>1, <2>2 DEF Injection, IsInjective
<1> QED BY <1>2, <1>8, <1>10, OneLineMore DEF T, U

\* A text with s put in after its first p characters,
LEMMA PutIn ==
    ASSUME NEW u \in Seq(Chars), NEW p \in 0 .. Len(u), NEW s \in Seq(Chars)
    PROVE  LET t == SubSeq(u, 1, p) \o s \o SubSeq(u, p + 1, Len(u))
           IN Widened(t, u, p, Len(s)) /\ \A i \in 1 .. Len(s) : t[p + i] = s[i]
<1> DEFINE x == SubSeq(u, 1, p)
           y == SubSeq(u, p + 1, Len(u))
           n == Len(u)
           k == Len(s)
           xs == x \o s
           t == xs \o y
<1>1. n \in Nat /\ k \in Nat /\ p \in 0 .. n BY LenProperties
<1>2. /\ x \in Seq(Chars) /\ Len(x) = p /\ y \in Seq(Chars) /\ Len(y) = n - p
      /\ u = x \o y
  BY ZenonT(30), PartedAt
<1> HIDE DEF x, y, n, k, xs, t
<1>3. \A i \in 1 .. n : u[i] = IF i <= p THEN x[i] ELSE y[i - p]
  <2>1. \A i \in 1 .. Len(x) + Len(y) : (x \o y)[i] = IF i <= Len(x) THEN x[i] ELSE y[i - Len(x)]
    BY <1>2, ConcatProperties
  <2>2. Len(x) + Len(y) = n BY <1>1, <1>2
  <2> QED BY <1>2, <2>1, <2>2
<1>4. /\ xs \in Seq(Chars) /\ Len(xs) = p + k
      /\ \A i \in 1 .. p + k : xs[i] = IF i <= p THEN x[i] ELSE s[i - p]
  BY <1>2, ConcatProperties DEF k, xs
<1>5. /\ t \in Seq(Chars) /\ Len(t) = n + k
      /\ \A i \in 1 .. n + k : t[i] = IF i <= p + k THEN xs[i] ELSE y[i - (p + k)]
  <2>1. /\ t \in Seq(Chars) /\ Len(t) = Len(xs) + Len(y)
        /\ \A i \in 1 .. Len(xs) + Len(y) : t[i] = IF i <= Len(xs) THEN xs[i] ELSE y[i - Len(xs)]
    BY <1>2, <1>4, ConcatProperties DEF t
  <2>2. Len(xs) + Len(y) = n + k BY <1>1, <1>2, <1>4
  <2> QED BY <1>4, <2>1, <2>2
<1>6. ASSUME NEW i \in 1 .. p PROVE t[i] = u[i]
  <2>1. i \in 1 .. n /\ i \in 1 .. n + k /\ i \in 1 .. p + k /\ i <= p /\ i <= p + k BY <1>1
  <2> QED BY <1>3, <1>4, <1>5, <2>1
<1>7. ASSUME NEW i \in p + 1 .. n PROVE t[i + k] = u[i]
  <2> DEFINE j == i + k
  <2>1. j \in 1 .. n + k /\ ~(j <= p + k) /\ j - (p + k) = i - p /\ i \in 1 .. n /\ ~(i <= p)
    BY <1>1
  <2> HIDE DEF j
  <2>2. t[j] = y[j - (p + k)] BY <1>5, <2>1
  <2>3. u[i] = y[i - p] BY <1>3, <2>1
  <2>4. t[j] = u[i] BY <2>1, <2>2, <2>3
  <2> QED BY <2>4 DEF j
<1>8. ASSUME NEW i \in 1 .. k PROVE t[p + i] = s[i]
  <2>1. /\ p + i \in 1 .. n + k /\ p + i \in 1 .. p + k /\ p + i <= p + k
        /\ ~(p + i <= p) /\ p + i - p = i
    BY <1>1
  <2> QED BY <1>4, <1>5, <2>1
<1>9. Widened(t, u, p, k) BY <1>1, <1>5, <1>6, <1>7 DEF Widened, n, k
<1> QED BY <1>8, <1>9 DEF t, xs, x, y, k, n

\* ... and one that is left when a character is taken out.
LEMMA TakenOut ==
    ASSUME NEW t \in Seq(Chars), NEW p \in 0 .. Len(t) - 1
    PROVE  Widened(t, SubSeq(t, 1, p) \o SubSeq(t, p + 2, Len(t)), p, 1)
<1> DEFINE x == SubSeq(t, 1, p)
           y == SubSeq(t, p + 2, Len(t))
           n == Len(t)
           u == x \o y
<1>1. n \in Nat /\ \A i \in 1 .. n : t[i] \in Chars BY LenProperties, ElementOfSeq
<1>2. x \in Seq(Chars) /\ Len(x) = p /\ \A i \in 1 .. p : x[i] = t[i]
  BY <1>1, SubSeqProperties
<1>3. /\ y \in Seq(Chars) /\ Len(y) = n - p - 1
      /\ \A i \in 1 .. n - p - 1 : y[i] = t[p + 1 + i]
  <2>1. /\ y \in Seq(Chars) /\ Len(y) = IF p + 2 <= n THEN n - (p + 2) + 1 ELSE 0
        /\ \A i \in 1 .. n - (p + 2) + 1 : y[i] = t[p + 2 + i - 1]
    BY <1>1, SubSeqProperties
  <2>2. n - (p + 2) + 1 = n - p - 1 BY <1>1
  <2>3. \A i \in 1 .. n - p - 1 : p + 2 + i - 1 = p + 1 + i BY <1>1
  <2>4. n - p - 1 \in Nat /\ (IF p + 2 <= n THEN n - (p + 2) + 1 ELSE 0) = n - p - 1 BY <1>1
  <2> HIDE DEF y, n
  <2>5. Len(y) = n - p - 1 BY <2>1, <2>4
  <2>6. ASSUME NEW i \in 1 .. n - p - 1 PROVE y[i] = t[p + 1 + i]
    <3>1. y[i] = t[p + 2 + i - 1] BY <2>1, <2>2
    <3> QED BY <2>3, <3>1
  <2> QED BY <2>1, <2>5, <2>6
<1> HIDE DEF x, y, n, u
<1>4. /\ u \in Seq(Chars) /\ Len(u) = p + (n - p - 1)
      /\ \A i \in 1 .. p + (n - p - 1) : u[i] = IF i <= p THEN x[i] ELSE y[i - p]
  <2>1. /\ u \in Seq(Chars) /\ Len(u) = Len(x) + Len(y)
        /\ \A i \in 1 .. Len(x) + Len(y) : u[i] = IF i <= Len(x) THEN x[i] ELSE y[i - Len(x)]
    BY ZenonT(30), <1>2, <1>3, ConcatProperties DEF u
  <2> QED BY <1>2, <1>3, <2>1
<1>5. p \in 0 .. n - 1 BY <1>1 DEF n
<1>6. Len(u) = n - 1 /\ n = Len(u) + 1 /\ p \in 0 .. Len(u) BY <1>1, <1>4, <1>5
<1>7. ASSUME NEW i \in 1 .. p PROVE t[i] = u[i] BY <1>1, <1>2, <1>4, <1>5
<1>8. ASSUME NEW i \in p + 1 .. n - 1 PROVE t[i + 1] = u[i]
  <2>1. i \in 1 .. p + (n - p - 1) /\ ~(i <= p) /\ i - p \in 1 .. n - p - 1 /\ p + 1 + (i - p) = i + 1
    BY <1>1, <1>5
  <2> QED BY <1>3, <1>4, <2>1
<1>9. Widened(t, u, p, 1) BY <1>1, <1>4, <1>5, <1>6, <1>7, <1>8 DEF Widened, n
<1> QED BY <1>9 DEF u, x, y

\* A key adds one line at most to a prompt four columns wide: the four spaces
\* of a tab fit on a line.
LEMMA KeyLines ==
    ASSUME CursorInText, Edit, NEW w \in Nat, w >= 4
    PROVE  line_count(command', w) <= line_count(command, w) + 1
<1> DEFINE p == cursor_pos
<1>1. command \in Seq(Chars) /\ p \in 0 .. Len(command) /\ Len(command) \in Nat
  BY LenProperties DEF CursorInText
<1>2. w \in Nat \ {0} OBVIOUS
<1>3. ASSUME NEW s \in Seq(Chars), Insert(s), Len(s) \in 1 .. 4,
             s = <<NewLine>> \/ \A i \in 1 .. Len(s) : s[i] # NewLine
      PROVE  line_count(command', w) <= line_count(command, w) + 1
  <2>1. command' = SubSeq(command, 1, p) \o s \o SubSeq(command, p + 1, Len(command))
    BY <1>3 DEF Insert
  <2>2. /\ Widened(command', command, p, Len(s))
        /\ \A i \in 1 .. Len(s) : command'[p + i] = s[i]
    BY <1>1, <2>1, PutIn
  <2>3. CASE s = <<NewLine>>
    <3>1. Len(s) = 1 /\ s[1] = NewLine BY <2>3
    <3>2. Widened(command', command, p, 1) /\ command'[p + 1] = NewLine BY <2>2, <3>1
    <3> QED BY <1>2, <3>2, NewLineLines
  <2>4. CASE \A i \in 1 .. Len(s) : s[i] # NewLine
    <3>1. \A i \in p + 1 .. p + Len(s) : command'[i] # NewLine
      <4> SUFFICES ASSUME NEW i \in p + 1 .. p + Len(s) PROVE command'[i] # NewLine OBVIOUS
      <4>1. i - p \in 1 .. Len(s) /\ i = p + (i - p) BY <1>1, <1>3
      <4> QED BY <2>2, <2>4, <4>1
    <3>2. Len(s) <= w BY <1>3
    <3> QED BY <1>2, <2>2, <3>1, <3>2, WordLines
  <2> QED BY <1>3, <2>3, <2>4
<1>4. ASSUME NEW at \in 0 .. Len(command) - 1, command' = Without(at)
      PROVE  line_count(command', w) <= line_count(command, w) + 1
  <2>1. Widened(command, command', at, 1) BY <1>1, <1>4, TakenOut DEF Without
  <2>2. CASE command[at + 1] = NewLine BY <1>2, <2>1, <2>2, NewLineLines
  <2>3. CASE command[at + 1] # NewLine
    <3>1. \A i \in at + 1 .. at + 1 : command[i] # NewLine BY <1>1, <2>3
    <3> QED BY <1>2, <2>1, <3>1, WordLines
  <2> QED BY <2>2, <2>3
<1>5. CASE Insertion
  <2>1. Space \in Chars /\ NewLine \in Chars /\ Printable \subseteq Chars /\ Space # NewLine
    BY DEF Chars, Space, NewLine
  <2>2. ASSUME NEW c \in Printable, Insert(<<c>>)
        PROVE  line_count(command', w) <= line_count(command, w) + 1
    <3> DEFINE s == <<c>>
    <3>1. s \in Seq(Chars) /\ Len(s) \in 1 .. 4 /\ Insert(s) BY <2>1, <2>2
    <3>2. s = <<NewLine>> \/ \A i \in 1 .. Len(s) : s[i] # NewLine OBVIOUS
    <3> QED BY <1>3, <3>1, <3>2
  <2>3. CASE Insert(<<Space, Space, Space, Space>>)
    <3> DEFINE s == <<Space, Space, Space, Space>>
    <3>1. s \in Seq(Chars) /\ Len(s) \in 1 .. 4 /\ Insert(s) BY <2>1, <2>3
    <3>2. \A i \in 1 .. Len(s) : s[i] # NewLine BY <2>1
    <3> QED BY <1>3, <3>1, <3>2
  <2>4. CASE Insert(<<NewLine>>)
    <3> DEFINE s == <<NewLine>>
    <3>1. s \in Seq(Chars) /\ Len(s) \in 1 .. 4 /\ Insert(s) BY <2>1, <2>4
    <3> QED BY <1>3, <3>1
  <2> QED BY <1>5, <2>2, <2>3, <2>4 DEF Insertion
<1>6. CASE Delete
  <2>1. p \in 0 .. Len(command) - 1 /\ command' = Without(p) BY <1>1, <1>6 DEF Delete
  <2> QED BY <1>4, <2>1
<1>7. CASE Backspace
  <2>1. p - 1 \in 0 .. Len(command) - 1 /\ command' = Without(p - 1) BY <1>1, <1>7 DEF Backspace
  <2> QED BY <1>4, <2>1
<1>8. CASE Motion
  <2>1. command' = command BY <1>8 DEF Motion, MoveTo
  <2>2. line_count(command, w) \in Nat BY <1>1, LineCountType
  <2> QED BY <2>1, <2>2
<1> QED BY <1>5, <1>6, <1>7, <1>8 DEF Edit

-----------------------------------------------------------------------------
(* The prompt has the height of its text *)

\* A terminal is laid out the same for line counts that give the prompt the
\* same height.
LEMMA SameLayout ==
    ASSUME NEW s \in Sizes, NEW a \in Nat \ {0}, NEW b \in Nat \ {0},
           WindowOf(s, a).height = WindowOf(s, b).height
    PROVE  LaidOut(s, a) = LaidOut(s, b)
<1> DEFINE panel == Panel(s[1], s[2])
           m == LogRows(panel, a)
           n == LogRows(panel, b)
           h == panel.height
<1>1. /\ panel \in Rect /\ m \in 0 .. h /\ n \in 0 .. h
      /\ WindowOf(s, a).height = Shrunk(h - m) /\ WindowOf(s, b).height = Shrunk(h - n)
  BY PanelRows
<1>2. WindowOf(s, a).height \in Nat \ {0}
  <2>1. PICK most \in Nat \ {0} : \A lines \in Nat \ {0} :
            WindowOf(s, lines).height = IF lines <= most THEN lines ELSE most
    BY WindowSize
  <2> QED BY <2>1
<1>3. h \in Nat BY <1>1 DEF Rect
<1> HIDE DEF m, n, h
<1>4. m = n
  <2>1. Shrunk(h - m) = Shrunk(h - n) /\ Shrunk(h - m) # 0 BY <1>1, <1>2
  <2>2. m \in 0 .. h /\ n \in 0 .. h BY <1>1
  <2> QED BY <1>3, <2>1, <2>2 DEF Shrunk
<1> QED BY <1>4 DEF m, n, LaidOut, Boxes, LogBox, CommandBox

\* The prompt's window has the height its text asks for.  So it does for the
\* count that was last seen; from four columns on that count is the one of the
\* text, cut to one more than the height.
SizedInv ==
    LET width == PromptWindow.width
        height == PromptWindow.height
        lines == line_count(command, width)
    IN /\ last_count # 0
       /\ ~resized /\ (width >= 4 \/ height <= 2) =>
            /\ WindowOf(size, lines).height = height
            /\ WindowOf(size, last_count).height = height
            /\ width >= 4 => last_count = Capped(lines, height + 1)

\* At the start there is one line, which was seen.
LEMMA SizedInit == Init => SizedInv
<1> SUFFICES ASSUME Init PROVE SizedInv OBVIOUS
<1>1. /\ command = <<>> /\ last_count = 1 /\ size \in Sizes /\ boxes = LaidOut(size, 1)
  BY DEF Init, PromptInit
<1>2. PromptWindow = WindowOf(size, 1) BY <1>1, PromptBox
<1>3. PromptWindow.height \in Nat \ {0} BY <1>1, <1>2, WindowSize
<1>4. line_count(command, PromptWindow.width) = 1
  <2>1. Len(<<>>) = 0 OBVIOUS
  <2>2. Breaks(<<>>, Len(<<>>), PromptWindow.width) = {} BY <2>1 DEF Breaks
  <2>3. Cardinality(Breaks(<<>>, Len(<<>>), PromptWindow.width)) = 0 BY <2>2, FS_EmptySet
  <2> QED BY <1>1, <2>3 DEF line_count
<1>5. Capped(1, PromptWindow.height + 1) = 1 BY <1>3 DEF Capped
<1> QED BY <1>1, <1>2, <1>4, <1>5 DEF SizedInv

\* A key and enter keep it: while the prompt is four columns wide at least, a
\* key adds one line at most.
LEMMA SizedStep ==
    ASSUME ScreenInv, TypeOK, SizedInv, CursorInText', UNCHANGED <<size, resized>>, height_change,
           \/ Edit
           \/ clear_command
    PROVE  SizedInv'
<1> DEFINE w == PromptWindow.width
           h == PromptWindow.height
           lines == line_count(command, w)
           new == line_count(command', w)
<1>1. PICK width \in Nat \ {0}, most \in Nat \ {0} : \A n \in Nat \ {0} :
          /\ WindowOf(size, n).width = width
          /\ WindowOf(size, n).height = IF n <= most THEN n ELSE most
  BY WindowSize DEF ScreenInv
<1>2. PICK old \in Nat \ {0} : boxes = LaidOut(size, old) BY DEF ScreenInv
<1>3. w = width /\ h = IF old <= most THEN old ELSE most BY <1>1, <1>2, PromptBox
<1>4. lines \in Nat \ {0} /\ new \in Nat \ {0} BY LineCountType DEF CursorInText, ScreenInv
<1>5. last_count \in Nat \ {0} BY DEF SizedInv, TypeOK, PromptTypeOK
<1>6. w >= 4 => new <= lines + 1
  <2>1. CASE Edit BY <1>3, <2>1, KeyLines DEF ScreenInv
  <2>2. CASE clear_command
    <3>1. Len(<<>>) = 0 OBVIOUS
    <3>2. Breaks(<<>>, Len(<<>>), w) = {} BY <3>1 DEF Breaks
    <3>3. Cardinality(Breaks(<<>>, Len(<<>>), w)) = 0 BY <3>2, FS_EmptySet
    <3>4. new = 1 BY <2>2, <3>3 DEF clear_command, line_count
    <3> HIDE DEF new, lines
    <3> QED BY <1>4, <3>4
  <2> QED BY <2>1, <2>2
<1>7. last_count' = Capped(new, h + 1)
      /\ \/ Capped(new, h + 1) = last_count /\ boxes' = boxes
         \/ Capped(new, h + 1) # last_count /\ boxes' = LaidOut(size, new)
  BY DEF height_change
<1>8. /\ PromptWindow'.width = w
      /\ PromptWindow'.height = IF Capped(new, h + 1) = last_count THEN h
                                ELSE IF new <= most THEN new ELSE most
  <2>1. CASE boxes' = boxes /\ Capped(new, h + 1) = last_count BY <2>1 DEF PromptWindow
  <2>2. CASE boxes' = LaidOut(size, new) /\ Capped(new, h + 1) # last_count
    <3>1. PromptWindow' = WindowOf(size, new)
      BY <2>2 DEF PromptWindow, LaidOut, Boxes, WindowOf
    <3> QED BY <1>1, <1>3, <1>4, <2>2, <3>1
  <2> QED BY <1>7, <2>1, <2>2
<1>9. Capped(new, h + 1) \in Nat \ {0}
  <2> HIDE DEF h, new
  <2> QED BY <1>1, <1>3, <1>4 DEF Capped
<1>10. ~resized /\ (w >= 4 \/ h <= 2) =>
          /\ (IF lines <= most THEN lines ELSE most) = h
          /\ (IF last_count <= most THEN last_count ELSE most) = h
          /\ w >= 4 => last_count = Capped(lines, h + 1)
  BY <1>1, <1>4, <1>5 DEF SizedInv
<1> DEFINE next == PromptWindow'.height
           seen == Capped(new, h + 1)
<1>11. SizedInv' <=>
          /\ seen # 0
          /\ ~resized /\ (w >= 4 \/ next <= 2) =>
               /\ (IF new <= most THEN new ELSE most) = next
               /\ (IF seen <= most THEN seen ELSE most) = next
               /\ w >= 4 => seen = Capped(new, next + 1)
  BY <1>1, <1>4, <1>7, <1>8, <1>9 DEF SizedInv
<1>12. next = IF seen = last_count THEN h ELSE IF new <= most THEN new ELSE most BY <1>8
<1>13. seen = Capped(new, h + 1) /\ seen # 0 BY <1>9
<1>14. w \in Nat BY <1>3
<1> HIDE DEF w, h, lines, new, next, seen
\* A count that is the one seen last asks for no other height than it did; any
\* other is seen whole, or has reached the most the panel lets it have.
<1>15. ASSUME ~resized, w >= 4 \/ next <= 2
       PROVE  /\ (IF new <= most THEN new ELSE most) = next
              /\ (IF seen <= most THEN seen ELSE most) = next
              /\ w >= 4 => seen = Capped(new, next + 1)
  <2>1. w >= 4 \/ h <= 2 =>
          /\ (IF lines <= most THEN lines ELSE most) = h
          /\ (IF last_count <= most THEN last_count ELSE most) = h
          /\ w >= 4 => last_count = Capped(lines, h + 1)
    BY <1>10, <1>15
  <2>2. h = IF old <= most THEN old ELSE most BY <1>3
  <2> QED BY <1>4, <1>5, <1>6, <1>12, <1>13, <1>14, <1>15, <2>1, <2>2 DEF Capped
<1> QED BY <1>11, <1>13, <1>15

\* The prompt of a terminal that has not been resized has the height its text
\* asks for, for every text and every terminal whose prompt is four columns
\* wide, and for two lines of a narrower one (command_prompt.cpp,
\* height_change, and the loop of disconnected in sabakurai.cpp).
THEOREM ScreenPromptSized == Spec => []PromptSized
<1>1. SizedInv /\ TypeOK /\ ScreenInv /\ ScreenInv' /\ [Next]_vars => SizedInv'
  <2> SUFFICES ASSUME SizedInv, TypeOK, ScreenInv, ScreenInv', [Next]_vars PROVE SizedInv' OBVIOUS
  <2>1. CASE Type BY <2>1, SizedStep DEF Type, ScreenInv
  <2>2. CASE Enter BY <2>2, SizedStep DEF Enter, ScreenInv
  <2>3. CASE Resize BY <2>3 DEF Resize, SizedInv, prompt
  <2>4. CASE UNCHANGED vars
    <3>1. UNCHANGED <<command, last_count, size, boxes, resized>> BY <2>4 DEF vars, prompt
    <3> QED BY <3>1 DEF SizedInv, PromptWindow
  <2> QED BY <2>1, <2>2, <2>3, <2>4 DEF Next
<1>2. SizedInv /\ ScreenInv => PromptSized
  <2> SUFFICES ASSUME SizedInv, ScreenInv, ~resized,
                      PromptWindow.width >= 4 \/ PromptWindow.height <= 2
               PROVE  boxes = LaidOut(size, line_count(command, PromptWindow.width))
    BY DEF PromptSized
  <2>1. PICK old \in Nat \ {0} : boxes = LaidOut(size, old) BY DEF ScreenInv
  <2>2. WindowOf(size, line_count(command, PromptWindow.width)).height = WindowOf(size, old).height
    BY <2>1, PromptBox DEF SizedInv
  <2>3. line_count(command, PromptWindow.width) \in Nat \ {0}
    BY LineCountType DEF ScreenInv, CursorInText
  <2> QED BY <2>1, <2>2, <2>3, SameLayout DEF ScreenInv
<1> QED BY <1>1, <1>2, SizedInit, ScreenInvariant, ScreenTypeCorrect, PTL DEF Spec

-----------------------------------------------------------------------------
(* The lines of a message *)

LineType == [begin : Nat, length : Nat, indent : BOOLEAN]

\* What LinesOf finds from a position in a line, if f has what it finds later.
LinesFrom(m, width, f, start, end) ==
    IF end > Len(m.text) THEN <<>>
    ELSE IF end < Len(m.text) /\ m.text[end + 1] = "newline"
        THEN <<Line(m, start, end)>> \o f[<<end + 1, end + 2>>]
    ELSE IF end - start >= Room(m, start, width)
        THEN <<Line(m, start, end)>> \o f[<<end, end + 1>>]
    ELSE IF end = Len(m.text) THEN <<Line(m, start, end)>>
    ELSE f[<<start, end + 1>>]

\* Where a line of a message begins, and how far it is read.
Cuts(m) == (0 .. Len(m.text)) \X (1 .. Len(m.text) + 1)

\* What the loop adds to the lines is the solution of its recursion.
Scans(m, width, f) == f = [at \in Cuts(m) |-> LinesFrom(m, width, f, at[1], at[2])]

\* The recursion has a solution: one for the ends of a text can be extended to
\* the left, so there is no shortest end that none is for.
LEMMA ScanExists ==
    ASSUME NEW m, NEW width, Len(m.text) \in Nat
    PROVE  \E f : Scans(m, width, f)
<1> DEFINE n == Len(m.text)
           P == (0 .. n) \X (1 .. n + 1)
           Solves(f, k) == \A at \in P :
                              n + 1 - at[2] <= k => f[at] = LinesFrom(m, width, f, at[1], at[2])
           Extended(g) == [at \in P |-> LinesFrom(m, width, g, at[1], at[2])]
           T == {k \in Nat : ~\E f : Solves(f, k)}
<1>1. n \in Nat OBVIOUS
<1> HIDE DEF n
<1>2. ASSUME NEW k \in Nat, NEW g, k = 0 \/ Solves(g, k - 1)
      PROVE  Solves(Extended(g), k)
  <2> DEFINE h == Extended(g)
  <2> SUFFICES ASSUME NEW at \in P, n + 1 - at[2] <= k
               PROVE  h[at] = LinesFrom(m, width, h, at[1], at[2])
    OBVIOUS
  <2> DEFINE start == at[1]
             end == at[2]
  <2>1. start \in 0 .. n /\ end \in 1 .. n + 1 OBVIOUS
  <2>2. \A s \in 0 .. n, e \in 1 .. n + 1 : e > end => h[<<s, e>>] = g[<<s, e>>]
    <3> SUFFICES ASSUME NEW s \in 0 .. n, NEW e \in 1 .. n + 1, e > end
                 PROVE  h[<<s, e>>] = g[<<s, e>>]
      OBVIOUS
    <3>1. k # 0 /\ n + 1 - e <= k - 1 BY <1>1, <2>1
    <3>2. <<s, e>> \in P /\ <<s, e>>[1] = s /\ <<s, e>>[2] = e OBVIOUS
    <3>3. g[<<s, e>>] = LinesFrom(m, width, g, s, e) BY <1>2, <3>1, <3>2
    <3>4. h[<<s, e>>] = LinesFrom(m, width, g, s, e) BY <3>2
    <3> QED BY <3>3, <3>4
  <2>3. h[at] = LinesFrom(m, width, g, start, end) OBVIOUS
  <2> HIDE DEF h, start, end
  <2>4. LinesFrom(m, width, g, start, end) = LinesFrom(m, width, h, start, end)
    <3>1. CASE end > n BY <3>1 DEF LinesFrom, n
    <3>2. CASE end < n
      <4>1. /\ end + 1 \in 0 .. n /\ end + 2 \in 1 .. n + 1 /\ end \in 0 .. n
            /\ end + 1 \in 1 .. n + 1 /\ end + 2 > end /\ end + 1 > end
        BY <1>1, <2>1, <3>2
      <4>2. /\ h[<<end + 1, end + 2>>] = g[<<end + 1, end + 2>>]
            /\ h[<<end, end + 1>>] = g[<<end, end + 1>>]
            /\ h[<<start, end + 1>>] = g[<<start, end + 1>>]
        BY <2>1, <2>2, <4>1
      <4> QED BY <4>2 DEF LinesFrom
    <3>3. CASE end = n
      <4>1. end \in 0 .. n /\ end + 1 \in 1 .. n + 1 /\ end + 1 > end BY <1>1, <2>1, <3>3
      <4>2. h[<<end, end + 1>>] = g[<<end, end + 1>>] BY <2>2, <4>1
      <4>3. ~(end < Len(m.text)) /\ end = Len(m.text) BY <1>1, <3>3 DEF n
      <4> QED BY <4>2, <4>3 DEF LinesFrom
    <3> QED BY <1>1, <2>1, <3>1, <3>2, <3>3
  <2> QED BY <2>3, <2>4 DEF start, end
<1> HIDE DEF Extended, Solves
<1>3. T = {}
  <2> SUFFICES ASSUME T # {} PROVE FALSE OBVIOUS
  <2>1. T \subseteq Nat OBVIOUS
  <2>2. PICK k \in T : \A l \in T : k <= l BY <2>1, Least
  <2>3. CASE k = 0
    <3>1. Solves(Extended(<<>>), k) BY <1>2, <2>3
    <3> QED BY <3>1
  <2>4. CASE k # 0
    <3>1. k - 1 \in Nat /\ ~(k <= k - 1) BY <2>4
    <3>2. k - 1 \notin T BY <2>2, <3>1
    <3>3. PICK g : Solves(g, k - 1) BY <3>1, <3>2
    <3>4. Solves(Extended(g), k) BY <1>2, <3>3
    <3> QED BY <3>4
  <2> QED BY <2>3, <2>4
<1>4. PICK k \in Nat : k = n + 1 BY <1>1
<1>5. k - 1 \in Nat BY <1>1, <1>4
<1>6. PICK g : Solves(g, k - 1) BY <1>3, <1>5
<1>7. Solves(Extended(g), k) BY <1>2, <1>6
<1> DEFINE h == Extended(g)
<1>8. h = [at \in P |-> h[at]] BY DEF Extended
<1>9. \A at \in P : h[at] = LinesFrom(m, width, h, at[1], at[2])
  <2> SUFFICES ASSUME NEW at \in P PROVE h[at] = LinesFrom(m, width, h, at[1], at[2]) OBVIOUS
  <2>1. at[2] \in 1 .. n + 1 OBVIOUS
  <2>2. n + 1 - at[2] <= n + 1 BY <1>1, <2>1
  <2> QED BY <1>4, <1>7, <2>2 DEF Solves
<1> HIDE DEF h
<1>10. h = [at \in P |-> LinesFrom(m, width, h, at[1], at[2])] BY <1>8, <1>9
<1> QED BY <1>10 DEF Scans, Cuts, n

\* So LinesOf is what a solution finds from the first character on.
LEMMA LinesScan ==
    ASSUME NEW m, NEW width, Len(m.text) \in Nat
    PROVE  \E f : Scans(m, width, f) /\ LinesOf(m, width) = f[<<0, 1>>]
<1>1. LinesOf(m, width) = (CHOOSE f : Scans(m, width, f))[<<0, 1>>] BY DEF LinesOf, Scans, LinesFrom, Cuts
<1> QED BY <1>1, ScanExists

LineEndOf(line) == line.begin + line.length

\* LinesHold, of the lines from the character after `start` on.
Holding(m, lines, start) ==
    /\ lines \in Seq(LineType) /\ Len(lines) \in Nat \ {0} /\ lines[1].begin = start
    /\ \A i \in 1 .. Len(lines) - 1 :
          lines[i + 1].begin \in {LineEndOf(lines[i])} \cup
              (IF m.text[LineEndOf(lines[i]) + 1] = "newline" THEN {LineEndOf(lines[i]) + 1} ELSE {})
    /\ LineEndOf(lines[Len(lines)]) \in {Len(m.text)} \cup
          (IF m.text[Len(m.text)] = "newline" THEN {Len(m.text) - 1} ELSE {})

Fitting(lines, width) ==
    \A i \in DOMAIN lines : lines[i].length + (IF lines[i].indent THEN 4 ELSE 0) <= width

\* A line and the lines after it.
LEMMA Prepend ==
    ASSUME NEW S, NEW x \in S, NEW rest \in Seq(S)
    PROVE  /\ <<x>> \o rest \in Seq(S) /\ Len(<<x>> \o rest) = Len(rest) + 1 /\ Len(rest) \in Nat
           /\ (<<x>> \o rest)[1] = x
           /\ \A i \in 1 .. Len(rest) : (<<x>> \o rest)[i + 1] = rest[i]
<1> DEFINE one == <<x>>
           all == one \o rest
<1>1. one \in Seq(S) /\ Len(one) = 1 /\ one[1] = x OBVIOUS
<1>2. Len(rest) \in Nat BY LenProperties
<1> HIDE DEF one
<1>3. /\ all \in Seq(S) /\ Len(all) = 1 + Len(rest)
      /\ \A i \in 1 .. 1 + Len(rest) : all[i] = IF i <= 1 THEN one[i] ELSE rest[i - 1]
  <2>1. /\ all \in Seq(S) /\ Len(all) = Len(one) + Len(rest)
        /\ \A i \in 1 .. Len(one) + Len(rest) :
              all[i] = IF i <= Len(one) THEN one[i] ELSE rest[i - Len(one)]
    BY <1>1, ConcatProperties
  <2> HIDE DEF all
  <2> QED BY <1>1, <2>1
<1> HIDE DEF all
<1>4. all[1] = x BY <1>1, <1>2, <1>3
<1>5. ASSUME NEW i \in 1 .. Len(rest) PROVE all[i + 1] = rest[i]
  <2>1. i + 1 \in 1 .. 1 + Len(rest) /\ ~(i + 1 <= 1) /\ i + 1 - 1 = i BY <1>2
  <2> QED BY <1>3, <2>1
<1> QED BY <1>2, <1>3, <1>4, <1>5 DEF all, one

\* Lines that hold what comes after a line hold it all with that line before
\* them: there are none only when the text is at its end.
LEMMA HoldingMore ==
    ASSUME NEW m, Len(m.text) \in Nat, NEW line \in LineType, NEW rest \in Seq(LineType),
           NEW next \in Nat,
           next \in {LineEndOf(line)} \cup
              (IF m.text[LineEndOf(line) + 1] = "newline" THEN {LineEndOf(line) + 1} ELSE {}),
           (rest = <<>> /\ next = Len(m.text)) \/ Holding(m, rest, next)
    PROVE  Holding(m, <<line>> \o rest, line.begin)
<1> DEFINE all == <<line>> \o rest
           k == Len(rest)
           n == Len(m.text)
           Follows(a, b) == b.begin \in {LineEndOf(a)} \cup
              (IF m.text[LineEndOf(a) + 1] = "newline" THEN {LineEndOf(a) + 1} ELSE {})
           Ends(a) == LineEndOf(a) \in {n} \cup (IF m.text[n] = "newline" THEN {n - 1} ELSE {})
<1>1. /\ all \in Seq(LineType) /\ Len(all) = k + 1 /\ k \in Nat /\ all[1] = line
      /\ \A i \in 1 .. k : all[i + 1] = rest[i]
  BY Prepend
<1>2. LineEndOf(line) \in Nat BY DEF LineType, LineEndOf
<1> HIDE DEF all
<1>3. CASE rest = <<>> /\ next = n
  <2>1. k = 0 BY <1>3
  <2>2. Ends(line) BY <1>2, <1>3
  <2> QED BY <1>1, <2>1, <2>2 DEF Holding, all
<1>4. CASE Holding(m, rest, next)
  <2>1. /\ k \in Nat \ {0} /\ rest[1].begin = next /\ Ends(rest[k])
        /\ \A i \in 1 .. k - 1 : Follows(rest[i], rest[i + 1])
    BY <1>4 DEF Holding
  <2>2. Follows(line, rest[1]) BY <2>1
  <2> HIDE DEF Follows, Ends, k
  <2>3. ASSUME NEW i \in 1 .. k PROVE Follows(all[i], all[i + 1])
    <3>1. all[i + 1] = rest[i] BY <1>1
    <3>2. CASE i = 1 BY <1>1, <2>2, <3>1, <3>2
    <3>3. CASE i # 1
      <4>1. i - 1 \in 1 .. k - 1 /\ i - 1 \in 1 .. k /\ i - 1 + 1 = i BY <1>1, <3>3
      <4>2. all[i] = rest[i - 1] BY <1>1, <4>1
      <4>3. Follows(rest[i - 1], rest[i]) BY <2>1, <4>1
      <4> QED BY <3>1, <4>2, <4>3
    <3> QED BY <3>2, <3>3
  <2>4. Ends(all[k + 1])
    <3>1. k \in 1 .. k BY <1>1, <2>1
    <3>2. all[k + 1] = rest[k] BY <1>1, <3>1
    <3> QED BY <2>1, <3>2
  <2>5. k + 1 - 1 = k /\ k + 1 \in Nat \ {0} BY <1>1
  <2>6. Len(all) \in Nat \ {0} /\ Len(all) - 1 = k /\ Ends(all[Len(all)]) BY <1>1, <2>4, <2>5
  <2>7. \A i \in 1 .. Len(all) - 1 : Follows(all[i], all[i + 1]) BY <2>3, <2>6
  <2> QED BY <1>1, <2>6, <2>7 DEF Holding, all, Follows, Ends
<1> QED BY <1>3, <1>4

\* ... and lines that fit still do with one before them that fits.
LEMMA FittingMore ==
    ASSUME NEW line \in LineType, NEW rest \in Seq(LineType), NEW width,
           line.length + (IF line.indent THEN 4 ELSE 0) <= width, Fitting(rest, width)
    PROVE  Fitting(<<line>> \o rest, width)
<1> DEFINE all == <<line>> \o rest
           k == Len(rest)
           Fits(a) == a.length + (IF a.indent THEN 4 ELSE 0) <= width
<1>1. /\ all \in Seq(LineType) /\ Len(all) = k + 1 /\ k \in Nat /\ all[1] = line
      /\ \A i \in 1 .. k : all[i + 1] = rest[i]
  BY Prepend
<1>2. DOMAIN all = 1 .. k + 1 /\ DOMAIN rest = 1 .. k BY <1>1, LenProperties
<1>3. Fits(line) /\ \A i \in 1 .. k : Fits(rest[i]) BY <1>2 DEF Fitting
<1> HIDE DEF all, k, Fits
<1>4. ASSUME NEW i \in 1 .. k + 1 PROVE Fits(all[i])
  <2>1. CASE i = 1 BY <1>1, <1>3, <2>1
  <2>2. CASE i # 1
    <3>1. i - 1 \in 1 .. k /\ i - 1 + 1 = i BY <1>1, <2>2
    <3> QED BY <1>1, <1>3, <3>1
  <2> QED BY <2>1, <2>2
<1> QED BY <1>2, <1>4 DEF Fitting, Fits, all

\* What LinesOf finds from a position in a line: the lines hold what is left of
\* the text, and fit when the present one does.
Found(m, width, start, end, lines) ==
    /\ lines \in Seq(LineType)
    /\ end > Len(m.text) => lines = <<>>
    /\ end <= Len(m.text) => Holding(m, lines, start)
    /\ width >= 5 /\ (end > Len(m.text) \/ end - start <= Room(m, start, width)) =>
          Fitting(lines, width)

\* One turn of the loop, if the later ones find that.
LEMMA FoundStep ==
    ASSUME NEW m, Len(m.text) \in Nat, m.author_length \in Nat, NEW width \in Nat, NEW f,
           NEW start \in 0 .. Len(m.text), NEW end \in 1 .. Len(m.text) + 1, start < end,
           \A s \in 0 .. Len(m.text), e \in 1 .. Len(m.text) + 1 :
              s < e /\ end < e => Found(m, width, s, e, f[<<s, e>>])
    PROVE  Found(m, width, start, end, LinesFrom(m, width, f, start, end))
<1> DEFINE n == Len(m.text)
           found == LinesFrom(m, width, f, start, end)
           line == Line(m, start, end)
<1>1. n \in Nat /\ start \in 0 .. n /\ end \in 1 .. n + 1 OBVIOUS
<1>2. /\ line \in LineType /\ line.begin = start /\ line.length = end - start
      /\ (start > m.author_length => line.indent = TRUE)
      /\ (~(start > m.author_length) => line.indent = FALSE) /\ LineEndOf(line) = end
  <2> DEFINE deep == start > m.author_length
  <2>1. line = [begin |-> start, length |-> end - start, indent |-> deep] BY DEF Line
  <2>2. deep \in BOOLEAN /\ end - start \in Nat /\ start \in Nat BY <1>1
  <2> HIDE DEF line, deep
  <2>3. line \in LineType /\ line.begin = start /\ line.length = end - start
    BY <2>1, <2>2 DEF LineType
  <2>4. line.indent = deep BY <2>1
  <2>5. LineEndOf(line) = end BY <1>1, <2>3 DEF LineEndOf
  <2>6. (deep => line.indent = TRUE) /\ (~deep => line.indent = FALSE) BY <2>2, <2>4
  <2> QED BY <2>3, <2>5, <2>6 DEF deep
<1>3. Room(m, start, width) \in Int BY DEF Room
<1>4. ASSUME NEW s \in 0 .. n, width >= 5 PROVE 1 <= Room(m, s, width) BY <1>4 DEF Room
<1>5. width >= 5 /\ end - start <= Room(m, start, width) =>
          line.length + (IF line.indent THEN 4 ELSE 0) <= width
  <2> HIDE DEF line
  <2> SUFFICES ASSUME width >= 5, end - start <= Room(m, start, width)
               PROVE  line.length + (IF line.indent THEN 4 ELSE 0) <= width
    OBVIOUS
  <2>1. CASE start > m.author_length
    <3>1. line.indent = TRUE /\ Room(m, start, width) = width - 4 BY <1>2, <2>1 DEF Room
    <3> QED BY <1>1, <1>2, <3>1
  <2>2. CASE ~(start > m.author_length)
    <3>1. line.indent = FALSE /\ Room(m, start, width) = width BY <1>2, <2>2 DEF Room
    <3> QED BY <1>1, <1>2, <3>1
  <2> QED BY <2>1, <2>2
<1>6. CASE end > n
  <2>1. found = <<>> /\ <<>> \in Seq(LineType) /\ DOMAIN <<>> = {} BY <1>6 DEF LinesFrom
  <2>2. Fitting(<<>>, width) BY <2>1 DEF Fitting
  <2> QED BY <1>1, <1>6, <2>1, <2>2 DEF Found
<1> HIDE DEF n, line
<1>7. ASSUME NEW next \in {end, end + 1}, next <= n, next + 1 \in 1 .. n + 1,
             next = end \/ m.text[end + 1] = "newline",
             found = <<line>> \o f[<<next, next + 1>>]
      PROVE  Found(m, width, start, end, found)
  <2> DEFINE rest == f[<<next, next + 1>>]
  <2>1. next \in 0 .. n /\ next < next + 1 /\ end < next + 1 /\ end <= n BY <1>1, <1>7
  <2>2. Found(m, width, next, next + 1, rest) BY <1>7, <2>1 DEF n
  <2> HIDE DEF rest
  <2>3. rest \in Seq(LineType) BY <2>2 DEF Found
  <2>4. (rest = <<>> /\ next = n) \/ Holding(m, rest, next)
    <3>1. CASE next = n BY <1>1, <2>2, <3>1 DEF Found, n
    <3>2. CASE next < n BY <1>1, <2>1, <2>2, <3>2 DEF Found, n
    <3>3. next = n \/ next < n BY <1>1, <2>1
    <3> QED BY <3>1, <3>2, <3>3
  <2>5. next \in Nat /\ next \in {LineEndOf(line)} \cup
            (IF m.text[LineEndOf(line) + 1] = "newline" THEN {LineEndOf(line) + 1} ELSE {})
    BY <1>1, <1>2, <1>7, <2>1
  <2>6. Holding(m, <<line>> \o rest, start) BY <1>1, <1>2, <2>3, <2>4, <2>5, HoldingMore DEF n
  <2>7. ASSUME width >= 5, end - start <= Room(m, start, width) PROVE Fitting(<<line>> \o rest, width)
    <3>1. next + 1 - next <= Room(m, next, width) BY <1>4, <2>1, <2>7
    <3>2. Fitting(rest, width) BY <2>2, <2>7, <3>1 DEF Found
    <3> QED BY <1>2, <1>5, <2>3, <2>7, <3>2, FittingMore
  <2>8. <<line>> \o rest \in Seq(LineType) BY <1>2, <2>3, Prepend
  <2>9. found = <<line>> \o rest BY <1>7 DEF rest
  <2>10. ~(end > Len(m.text)) BY <1>1, <2>1 DEF n
  <2> HIDE DEF found
  <2> QED BY <2>6, <2>7, <2>8, <2>9, <2>10 DEF Found
<1>8. CASE end < n /\ m.text[end + 1] = "newline"
  <2>1. found = <<line>> \o f[<<end + 1, end + 1 + 1>>]
    <3>1. end + 1 + 1 = end + 2 BY <1>1
    <3>2. ~(end > Len(m.text)) /\ end < Len(m.text) BY <1>1, <1>8 DEF n
    <3>3. found = <<line>> \o f[<<end + 1, end + 2>>] BY <1>8, <3>2 DEF LinesFrom, line
    <3> HIDE DEF found
    <3> QED BY <3>1, <3>3
  <2>2. end + 1 <= n /\ end + 1 + 1 \in 1 .. n + 1 BY <1>1, <1>8
  <2> QED BY <1>7, <1>8, <2>1, <2>2
<1>9. CASE end <= n /\ ~(end < n /\ m.text[end + 1] = "newline")
  <2>1. CASE end - start >= Room(m, start, width)
    <3>1. found = <<line>> \o f[<<end, end + 1>>] BY <1>1, <1>9, <2>1 DEF LinesFrom, n, line
    <3>2. end + 1 \in 1 .. n + 1 BY <1>1, <1>9
    <3> QED BY <1>7, <1>9, <3>1, <3>2
  <2>2. CASE end - start < Room(m, start, width) /\ end = n
    <3>1. found = <<line>> BY <1>1, <1>3, <1>9, <2>2 DEF LinesFrom, n, line
    <3>2. <<line>> = <<line>> \o <<>> /\ <<>> \in Seq(LineType) /\ <<line>> \in Seq(LineType) /\ DOMAIN <<>> = {}
      BY <1>2
    <3>3. end \in Nat BY <1>1
    <3>4. Holding(m, <<line>> \o <<>>, line.begin)
      BY <1>1, <1>2, <2>2, <3>2, <3>3, HoldingMore DEF n
    <3>5. Fitting(<<>>, width) BY <3>2 DEF Fitting
    <3>6. width >= 5 => Fitting(<<line>> \o <<>>, width)
      <4>1. end - start <= Room(m, start, width) BY <1>1, <1>3, <2>2
      <4> QED BY <1>2, <1>5, <3>2, <3>5, <4>1, FittingMore
    <3> QED BY <1>1, <1>2, <2>2, <3>1, <3>2, <3>4, <3>6 DEF Found, n
  <2>3. CASE end - start < Room(m, start, width) /\ end < n
    <3>1. found = f[<<start, end + 1>>] BY <1>1, <1>3, <1>9, <2>3 DEF LinesFrom, n
    <3>2. end + 1 \in 1 .. n + 1 /\ start < end + 1 /\ end < end + 1 /\ ~(end + 1 > n) BY <1>1, <2>3
    <3>3. Found(m, width, start, end + 1, found) BY <1>1, <3>1, <3>2 DEF n
    <3>4. end + 1 - start <= Room(m, start, width) BY <1>1, <1>3, <2>3
    <3> QED BY <1>1, <2>3, <3>2, <3>3, <3>4 DEF Found, n
  <2> QED BY <1>1, <1>3, <1>9, <2>1, <2>2, <2>3
<1> QED BY <1>1, <1>6, <1>8, <1>9

\* So the lines of a message hold it all, and fit in a window of five columns.
LEMMA LinesFound ==
    ASSUME NEW m, Len(m.text) \in Nat \ {0}, m.author_length \in Nat, NEW width \in Nat
    PROVE  Holding(m, LinesOf(m, width), 0) /\ (width >= 5 => Fitting(LinesOf(m, width), width))
<1> DEFINE n == Len(m.text)
           Bad(s, e, f) == s < e /\ ~Found(m, width, s, e, f[<<s, e>>])
<1>1. n \in Nat \ {0} OBVIOUS
<1>2. PICK f : Scans(m, width, f) /\ LinesOf(m, width) = f[<<0, 1>>] BY LinesScan
<1>3. \A s \in 0 .. n, e \in 1 .. n + 1 : f[<<s, e>>] = LinesFrom(m, width, f, s, e)
  <2> SUFFICES ASSUME NEW s \in 0 .. n, NEW e \in 1 .. n + 1
               PROVE  f[<<s, e>>] = LinesFrom(m, width, f, s, e)
    OBVIOUS
  <2>1. <<s, e>> \in Cuts(m) /\ <<s, e>>[1] = s /\ <<s, e>>[2] = e BY DEF Cuts
  <2> QED BY <1>2, <2>1 DEF Scans
<1> DEFINE T == {k \in 0 .. n : \E s \in 0 .. n : Bad(s, n + 1 - k, f)}
<1> HIDE DEF n
<1>4. T = {}
  <2> SUFFICES ASSUME T # {} PROVE FALSE OBVIOUS
  <2>1. T \subseteq Nat OBVIOUS
  <2>2. PICK k \in T : \A l \in T : k <= l BY <2>1, Least
  <2>3. PICK start \in 0 .. n : Bad(start, n + 1 - k, f) BY <2>2
  <2> DEFINE end == n + 1 - k
  <2>4. k \in 0 .. n /\ end \in 1 .. n + 1 BY <1>1
  <2>5. ASSUME NEW s \in 0 .. n, NEW e \in 1 .. n + 1, s < e, end < e
        PROVE  Found(m, width, s, e, f[<<s, e>>])
    <3> DEFINE l == n + 1 - e
    <3>1. l \in 0 .. n /\ ~(k <= l) /\ n + 1 - l = e BY <1>1, <2>4, <2>5
    <3> HIDE DEF l
    <3>2. l \notin T BY <2>2, <3>1
    <3>3. ~Bad(s, e, f) BY <3>1, <3>2
    <3> QED BY <2>5, <3>3
  <2> HIDE DEF end
  <2>6. start < end /\ ~Found(m, width, start, end, f[<<start, end>>]) BY <2>3 DEF end
  <2>7. Found(m, width, start, end, LinesFrom(m, width, f, start, end))
    BY <1>1, <2>4, <2>5, <2>6, FoundStep DEF n
  <2> QED BY <1>3, <2>4, <2>6, <2>7
<1>5. Found(m, width, 0, 1, f[<<0, 1>>])
  <2>1. n \in 0 .. n /\ n + 1 - n = 1 /\ 0 \in 0 .. n /\ 0 < 1 BY <1>1
  <2>2. n \notin T BY <1>4
  <2>3. ~Bad(0, 1, f) BY <2>1, <2>2
  <2> QED BY <2>1, <2>3
<1>6. 1 <= n /\ (width >= 5 => 1 - 0 <= Room(m, 0, width)) BY <1>1 DEF Room
<1> QED BY <1>2, <1>5, <1>6 DEF Found, n

(* What get_args makes of a line, character by character *)

ArgsStart == [args |-> <<>>, arg |-> <<>>, quoted |-> FALSE, escaped |-> FALSE]

\* One turn of the fold that get_args is, over a set of positions.
Turn(s, g, T) == IF T = {} THEN ArgsStart ELSE ArgStep(g[T \ {Max(T)}], s[Max(T)])

Folded(s, g) == g = [T \in SUBSET DOMAIN s |-> Turn(s, g, T)]

\* The recursion of the fold has a solution.
LEMMA FoldExists ==
    ASSUME NEW s, NEW n \in Nat, DOMAIN s = 1 .. n
    PROVE  \E g : Folded(s, g)
<1> DEFINE Solves(g, k) == \A T \in SUBSET (1 .. n) : T \subseteq 1 .. k => g[T] = Turn(s, g, T)
           Extended(g) == [T \in SUBSET (1 .. n) |-> Turn(s, g, T)]
           U == {k \in Nat : ~\E g : Solves(g, k)}
<1>1. ASSUME NEW k \in Nat, NEW g, k = 0 \/ Solves(g, k - 1)
      PROVE  Solves(Extended(g), k)
  <2> DEFINE h == Extended(g)
  <2> SUFFICES ASSUME NEW T \in SUBSET (1 .. n), T \subseteq 1 .. k
               PROVE  h[T] = Turn(s, h, T)
    OBVIOUS
  <2>1. h[T] = Turn(s, g, T) OBVIOUS
  <2>2. CASE T = {} BY <2>1, <2>2 DEF Turn
  <2>3. CASE T # {}
    <3> DEFINE x == Max(T)
               R == T \ {x}
    <3>1. T \subseteq 0 .. k OBVIOUS
    <3>2. x \in T /\ \A y \in T : y <= x BY <2>3, <3>1, MaxOf
    <3> HIDE DEF x
    <3>3. k # 0 BY <3>2
    <3>4. R \in SUBSET (1 .. n) /\ R \subseteq 1 .. k - 1
      <4> SUFFICES ASSUME NEW y \in R PROVE y \in 1 .. k - 1 OBVIOUS
      <4>1. y \in 1 .. k /\ x \in 1 .. k /\ y <= x /\ y # x BY <3>2
      <4> QED BY <4>1
    <3>5. g[R] = Turn(s, g, R) BY <1>1, <3>3, <3>4
    <3>6. h[R] = Turn(s, g, R) BY <3>4
    <3> HIDE DEF h
    <3>7. Turn(s, g, T) = ArgStep(g[R], s[x]) /\ Turn(s, h, T) = ArgStep(h[R], s[x])
      BY <2>3 DEF Turn, x
    <3> QED BY <2>1, <3>5, <3>6, <3>7
  <2> QED BY <2>2, <2>3
<1> HIDE DEF Extended, Solves
<1>2. U = {}
  <2> SUFFICES ASSUME U # {} PROVE FALSE OBVIOUS
  <2>1. U \subseteq Nat OBVIOUS
  <2>2. PICK k \in U : \A l \in U : k <= l BY <2>1, Least
  <2>3. CASE k = 0
    <3>1. Solves(Extended(<<>>), k) BY <1>1, <2>3
    <3> QED BY <3>1
  <2>4. CASE k # 0
    <3>1. k - 1 \in Nat /\ ~(k <= k - 1) BY <2>4
    <3>2. k - 1 \notin U BY <2>2, <3>1
    <3>3. PICK g : Solves(g, k - 1) BY <3>1, <3>2
    <3>4. Solves(Extended(g), k) BY <1>1, <3>3
    <3> QED BY <3>4
  <2> QED BY <2>3, <2>4
<1>3. PICK k \in Nat : k = n + 1 OBVIOUS
<1>4. k - 1 \in Nat BY <1>3
<1>5. PICK g : Solves(g, k - 1) BY <1>2, <1>4
<1>6. Solves(Extended(g), k) BY <1>1, <1>5
<1> DEFINE h == Extended(g)
<1>7. h = [T \in SUBSET (1 .. n) |-> h[T]] BY DEF Extended
<1>8. \A T \in SUBSET (1 .. n) : h[T] = Turn(s, h, T)
  <2> SUFFICES ASSUME NEW T \in SUBSET (1 .. n) PROVE h[T] = Turn(s, h, T) OBVIOUS
  <2>1. T \subseteq 1 .. k BY <1>3
  <2> QED BY <1>6, <2>1 DEF Solves
<1> HIDE DEF h
<1>9. h = [T \in SUBSET (1 .. n) |-> Turn(s, h, T)] BY <1>7, <1>8
<1> QED BY <1>9 DEF Folded

\* The states get_args goes through, and what it returns.
Runs(s, st) ==
    /\ st[0] = ArgsStart
    /\ \A k \in 1 .. Len(s) : st[k] = ArgStep(st[k - 1], s[k])

ArgsOf(last) == IF last.arg = <<>> THEN last.args ELSE Append(last.args, last.arg)

\* get_args returns what the last of them leaves.
LEMMA ArgsRun ==
    ASSUME NEW S, NEW raw \in Seq(S), NEW start \in Nat
    PROVE  LET s == SubSeq(raw, start + 1, Len(raw))
           IN \E st : Runs(s, st) /\ get_args(start, raw) = ArgsOf(st[Len(s)])
<1> DEFINE s == SubSeq(raw, start + 1, Len(raw))
           n == Len(s)
           D == DOMAIN s
           g == CHOOSE g : Folded(s, g)
           st == [k \in 0 .. n |-> g[1 .. k]]
<1>1. s \in Seq(S)
  <2>1. Len(raw) \in Nat /\ \A i \in start + 1 .. Len(raw) : raw[i] \in S BY LenProperties, ElementOfSeq
  <2> QED BY <2>1, SubSeqProperties
<1> HIDE DEF s
<1>2. n \in Nat /\ D = 1 .. n BY <1>1, LenProperties
<1>3. get_args(start, raw) = ArgsOf(g[D])
  BY DEF get_args, FoldLeft, MapThenFoldSet, ArgsOf, Folded, Turn, ArgsStart, s
<1>4. Folded(s, g) BY <1>2, FoldExists
<1> HIDE DEF g, n
<1>5. \A T \in SUBSET (1 .. n) : g[T] = Turn(s, g, T) BY <1>2, <1>4 DEF Folded
<1>6. ASSUME NEW k \in 1 .. n PROVE g[1 .. k] = ArgStep(g[1 .. k - 1], s[k])
  <2>1. 1 .. k \subseteq 0 .. k /\ 1 .. k # {} /\ k \in Nat OBVIOUS
  <2>2. Max(1 .. k) \in 1 .. k /\ \A y \in 1 .. k : y <= Max(1 .. k) BY <2>1, MaxOf
  <2>3. Max(1 .. k) = k BY <2>2
  <2>4. (1 .. k) \ {k} = 1 .. k - 1 OBVIOUS
  <2>5. 1 .. k \in SUBSET (1 .. n) BY <1>2
  <2> QED BY <1>5, <2>1, <2>3, <2>4, <2>5 DEF Turn
<1>7. g[1 .. 0] = ArgsStart
  <2>1. 1 .. 0 = {} /\ {} \in SUBSET (1 .. n) OBVIOUS
  <2> QED BY <1>5, <2>1 DEF Turn
<1>8. Runs(s, st)
  <2>1. st[0] = ArgsStart BY <1>2, <1>7
  <2>2. ASSUME NEW k \in 1 .. n PROVE st[k] = ArgStep(st[k - 1], s[k])
    <3>1. k \in 0 .. n /\ k - 1 \in 0 .. n BY <1>2
    <3> QED BY <1>6, <3>1
  <2> HIDE DEF st
  <2> QED BY <2>1, <2>2 DEF Runs, n
<1>9. get_args(start, raw) = ArgsOf(st[n]) BY <1>2, <1>3
<1> QED BY <1>8, <1>9 DEF n, s

\* The states of get_args hold lists of lists of the line's characters.
ArgStates(S) == [args : Seq(Seq(S)), arg : Seq(S), quoted : BOOLEAN, escaped : BOOLEAN]

\* ... and a character makes one of them another.
LEMMA ArgStepType ==
    ASSUME NEW S, NEW st \in ArgStates(S), NEW c \in S
    PROVE  ArgStep(st, c) \in ArgStates(S)
<1>1. /\ st.args \in Seq(Seq(S)) /\ st.arg \in Seq(S) /\ st.quoted \in BOOLEAN /\ st.escaped \in BOOLEAN
      /\ st = [args |-> st.args, arg |-> st.arg, quoted |-> st.quoted, escaped |-> st.escaped]
  BY DEF ArgStates
<1>2. Append(st.arg, c) \in Seq(S) /\ Append(st.args, st.arg) \in Seq(Seq(S)) /\ <<>> \in Seq(S)
  BY <1>1, AppendProperties, EmptySeq
<1>3. [st EXCEPT !.arg = Append(@, c), !.escaped = FALSE] \in ArgStates(S) BY <1>2 DEF ArgStates
<1>4. [st EXCEPT !.escaped = TRUE] \in ArgStates(S) BY DEF ArgStates
<1>5. [st EXCEPT !.quoted = ~@] \in ArgStates(S) BY <1>1 DEF ArgStates
<1>6. [st EXCEPT !.args = Append(@, st.arg), !.arg = <<>>] \in ArgStates(S) BY <1>2 DEF ArgStates
<1>7. [st EXCEPT !.arg = Append(@, c)] \in ArgStates(S) BY <1>2 DEF ArgStates
<1> QED BY <1>3, <1>4, <1>5, <1>6, <1>7 DEF ArgStep

\* A run over a line ends in one of them.
LEMMA RunType ==
    ASSUME NEW S, NEW s \in Seq(S), NEW st, Runs(s, st), NEW k \in 0 .. Len(s)
    PROVE  st[k] \in ArgStates(S)
<1> DEFINE T == {l \in 0 .. Len(s) : st[l] \notin ArgStates(S)}
<1>1. Len(s) \in Nat BY LenProperties
<1>2. T = {}
  <2> SUFFICES ASSUME T # {} PROVE FALSE OBVIOUS
  <2>1. T \subseteq Nat BY <1>1
  <2>2. PICK l \in T : \A j \in T : l <= j BY <2>1, Least
  <2>3. CASE l = 0
    <3>1. ArgsStart \in ArgStates(S) BY EmptySeq DEF ArgsStart, ArgStates
    <3> QED BY <2>3, <3>1 DEF Runs
  <2>4. CASE l # 0
    <3>1. l \in 1 .. Len(s) /\ l - 1 \in 0 .. Len(s) /\ ~(l <= l - 1) BY <1>1, <2>4
    <3>2. st[l - 1] \in ArgStates(S) BY <2>2, <3>1
    <3>3. s[l] \in S BY <3>1, ElementOfSeq
    <3>4. st[l] = ArgStep(st[l - 1], s[l]) BY <3>1 DEF Runs
    <3> QED BY <3>2, <3>3, <3>4, ArgStepType
  <2> QED BY <2>3, <2>4
<1> QED BY <1>2

\* The arguments of a command are texts of its characters.
LEMMA ArgsType ==
    ASSUME NEW S, NEW raw \in Seq(S), NEW start \in Nat
    PROVE  get_args(start, raw) \in Seq(Seq(S))
<1> DEFINE s == SubSeq(raw, start + 1, Len(raw))
<1>1. s \in Seq(S)
  <2>1. Len(raw) \in Nat /\ \A i \in start + 1 .. Len(raw) : raw[i] \in S BY LenProperties, ElementOfSeq
  <2> QED BY <2>1, SubSeqProperties
<1>2. PICK st : Runs(s, st) /\ get_args(start, raw) = ArgsOf(st[Len(s)]) BY ArgsRun
<1> HIDE DEF s
<1>3. Len(s) \in 0 .. Len(s)
  <2>1. Len(s) \in Nat BY <1>1, LenProperties
  <2> QED BY <2>1
<1>4. st[Len(s)] \in ArgStates(S) BY <1>1, <1>2, <1>3, RunType
<1>5. st[Len(s)].args \in Seq(Seq(S)) /\ st[Len(s)].arg \in Seq(S) BY <1>4 DEF ArgStates
<1>6. Append(st[Len(s)].args, st[Len(s)].arg) \in Seq(Seq(S)) BY <1>5, AppendProperties
<1> QED BY <1>2, <1>5, <1>6 DEF ArgsOf

\* The solution of the recursion that FlattenSeq is.
Flattens(seqs, f) ==
    f = [i \in 1 .. Len(seqs) |-> IF i = 1 THEN seqs[i] ELSE f[i - 1] \o seqs[i]]

\* There is one,
LEMMA FlattenExists ==
    ASSUME NEW seqs, Len(seqs) \in Nat
    PROVE  \E f : Flattens(seqs, f)
<1> DEFINE n == Len(seqs)
           Turned(g, i) == IF i = 1 THEN seqs[i] ELSE g[i - 1] \o seqs[i]
           Solves(g, k) == \A i \in 1 .. n : i <= k => g[i] = Turned(g, i)
           Extended(g) == [i \in 1 .. n |-> Turned(g, i)]
           T == {k \in Nat : ~\E g : Solves(g, k)}
<1>1. ASSUME NEW k \in Nat, NEW g, k = 0 \/ Solves(g, k - 1)
      PROVE  Solves(Extended(g), k)
  <2> DEFINE h == Extended(g)
  <2> SUFFICES ASSUME NEW i \in 1 .. n, i <= k
               PROVE  h[i] = Turned(h, i)
    OBVIOUS
  <2>1. h[i] = Turned(g, i) OBVIOUS
  <2>2. CASE i = 1 BY <2>1, <2>2
  <2>3. CASE i # 1
    <3>1. k # 0 /\ i - 1 \in 1 .. n /\ i - 1 <= k - 1 BY <2>3
    <3>2. g[i - 1] = Turned(g, i - 1) BY <1>1, <3>1
    <3>3. h[i - 1] = Turned(g, i - 1) BY <3>1
    <3>4. Turned(g, i) = Turned(h, i) BY <2>3, <3>2, <3>3
    <3> QED BY <2>1, <3>4
  <2> QED BY <2>2, <2>3
<1> HIDE DEF Extended, Solves
<1>2. T = {}
  <2> SUFFICES ASSUME T # {} PROVE FALSE OBVIOUS
  <2>1. T \subseteq Nat OBVIOUS
  <2>2. PICK k \in T : \A l \in T : k <= l BY <2>1, Least
  <2>3. CASE k = 0
    <3>1. Solves(Extended(<<>>), k) BY <1>1, <2>3
    <3> QED BY <3>1
  <2>4. CASE k # 0
    <3>1. k - 1 \in Nat /\ ~(k <= k - 1) BY <2>4
    <3>2. k - 1 \notin T BY <2>2, <3>1
    <3>3. PICK g : Solves(g, k - 1) BY <3>1, <3>2
    <3>4. Solves(Extended(g), k) BY <1>1, <3>3
    <3> QED BY <3>4
  <2> QED BY <2>3, <2>4
<1>3. PICK k \in Nat : k = n + 1 OBVIOUS
<1>4. k - 1 \in Nat BY <1>3
<1>5. PICK g : Solves(g, k - 1) BY <1>2, <1>4
<1>6. Solves(Extended(g), k) BY <1>1, <1>5
<1> DEFINE h == Extended(g)
<1>7. h = [i \in 1 .. n |-> h[i]] BY DEF Extended
<1>8. \A i \in 1 .. n : h[i] = Turned(h, i)
  <2> SUFFICES ASSUME NEW i \in 1 .. n PROVE h[i] = Turned(h, i) OBVIOUS
  <2>1. i <= k BY <1>3
  <2> QED BY <1>6, <2>1 DEF Solves
<1> HIDE DEF h
<1>9. h = [i \in 1 .. n |-> Turned(h, i)] BY <1>7, <1>8
<1> QED BY <1>9 DEF Flattens

\* ... so texts one after the other are a text.
LEMMA FlattenType ==
    ASSUME NEW S, NEW seqs \in Seq(Seq(S))
    PROVE  FlattenSeq(seqs) \in Seq(S)
<1> DEFINE n == Len(seqs)
<1>1. n \in Nat BY LenProperties
<1>2. CASE n = 0
  <2>1. seqs = <<>> BY <1>2, EmptySeq
  <2> QED BY <1>2, <2>1, EmptySeq DEF FlattenSeq
<1>3. CASE n # 0
  <2> DEFINE f == CHOOSE f : Flattens(seqs, f)
             T == {i \in 1 .. n : f[i] \notin Seq(S)}
  <2>1. Flattens(seqs, f) BY <1>1, FlattenExists
  <2>2. FlattenSeq(seqs) = f[n] BY <1>3 DEF FlattenSeq, Flattens
  <2> HIDE DEF f, n
  <2>3. \A i \in 1 .. n : f[i] = IF i = 1 THEN seqs[i] ELSE f[i - 1] \o seqs[i] BY <2>1 DEF Flattens, n
  <2>4. T = {}
    <3> SUFFICES ASSUME T # {} PROVE FALSE OBVIOUS
    <3>1. T \subseteq Nat BY <1>1
    <3>2. PICK i \in T : \A j \in T : i <= j BY <3>1, Least
    <3>3. i \in 1 .. n /\ f[i] \notin Seq(S) /\ seqs[i] \in Seq(S) BY <3>2, ElementOfSeq DEF n
    <3>4. i # 1 BY <2>3, <3>3
    <3>5. i - 1 \in 1 .. n /\ ~(i <= i - 1) BY <1>1, <3>3, <3>4
    <3>6. f[i - 1] \in Seq(S) BY <3>2, <3>5
    <3>7. f[i] = f[i - 1] \o seqs[i] BY <2>3, <3>3, <3>4
    <3> QED BY <3>3, <3>6, <3>7, ConcatProperties
  <2>5. n \in 1 .. n BY <1>1, <1>3
  <2> QED BY <2>2, <2>4, <2>5
<1> QED BY <1>2, <1>3

(* The log *)

\* What there is to log is made of these.
Alphabet == UNION {Chars, {"[", "]", ":"}, Range(Welcome), Range(HelpText), Range(Complaint), Range(Author)}

Text == Seq(Alphabet)

MessageType == [text : Text \ {<<>>}, authored : BOOLEAN, author_length : Nat]

\* A message without an author says something,
LEMMA UnauthoredType ==
    ASSUME NEW text \in Text \ {<<>>}
    PROVE  Unauthored(text) \in MessageType
<1>1. Len(text) \in Nat BY LenProperties DEF Text
<1> QED BY <1>1 DEF Unauthored, MessageType

\* ... and one with an author has the name at least.
LEMMA AuthoredType ==
    ASSUME NEW author \in Text, NEW text \in Text
    PROVE  Authored(author, text) \in MessageType
<1> DEFINE a == <<"[">>
           b == <<"]", ":", " ">>
           ab == a \o author
           abc == ab \o b
           all == abc \o text
<1>1. a \in Text /\ b \in Text /\ Len(a) = 1
  <2>1. "[" \in Alphabet /\ "]" \in Alphabet /\ ":" \in Alphabet /\ " " \in Alphabet
    BY DEF Alphabet, Chars, Space
  <2>2. \A x, y, z \in Alphabet : <<x>> \in Text /\ Len(<<x>>) = 1 /\ <<x, y, z>> \in Text BY DEF Text
  <2> QED BY <2>1, <2>2
<1>2. Len(author) \in Nat /\ Len(text) \in Nat /\ Len(b) \in Nat BY <1>1, LenProperties DEF Text
<1> HIDE DEF a, b
<1>3. ab \in Text /\ Len(ab) = 1 + Len(author) BY <1>1, ConcatProperties DEF Text
<1> HIDE DEF ab
<1>4. abc \in Text /\ Len(abc) = Len(ab) + Len(b) BY <1>1, <1>3, ConcatProperties DEF Text
<1> HIDE DEF abc
<1>5. all \in Text /\ Len(all) = Len(abc) + Len(text)
  BY <1>2, <1>4, ConcatProperties DEF Text
<1> HIDE DEF all
<1>6. Len(all) # 0 BY <1>2, <1>3, <1>4, <1>5
<1>7. all # <<>> BY <1>6, EmptySeq
<1>8. Authored(author, text) = [text |-> all, authored |-> TRUE, author_length |-> Len(author)]
  BY DEF Authored, all, abc, ab, a, b
<1> QED BY <1>2, <1>5, <1>7, <1>8 DEF MessageType

\* What /say logs of its arguments is a text.
LEMMA JoinedType ==
    ASSUME NEW args \in Seq(Text)
    PROVE  Joined(args) \in Text
<1> DEFINE spaced == [i \in DOMAIN args |-> IF i = 1 THEN args[i] ELSE <<Space>> \o args[i]]
           n == Len(args)
<1>1. n \in Nat /\ DOMAIN args = 1 .. n BY LenProperties
<1>2. ASSUME NEW i \in 1 .. n
      PROVE  (IF i = 1 THEN args[i] ELSE <<Space>> \o args[i]) \in Text
  <2>1. args[i] \in Text BY <1>2, ElementOfSeq
  <2>2. <<Space>> \in Text
    <3>1. Space \in Alphabet BY DEF Alphabet, Chars
    <3> QED BY <3>1 DEF Text
  <2>3. <<Space>> \o args[i] \in Text BY <2>1, <2>2, ConcatProperties DEF Text
  <2> QED BY <2>1, <2>3
<1>3. spaced \in Seq(Text)
  <2>1. spaced \in [1 .. n -> Text] BY <1>1, <1>2
  <2> HIDE DEF spaced
  <2> QED BY <1>1, <2>1
<1> HIDE DEF spaced
<1>4. FlattenSeq(spaced) \in Text BY <1>3, FlattenType DEF Text
<1> QED BY <1>4 DEF Joined, spaced

\* The texts of the program are of that alphabet.
LEMMA TextsType ==
    {Welcome, HelpText, Complaint} \subseteq Text \ {<<>>} /\ Author \in Text
<1>1. /\ Range(Welcome) \subseteq Alphabet /\ Range(HelpText) \subseteq Alphabet
      /\ Range(Complaint) \subseteq Alphabet /\ Range(Author) \subseteq Alphabet
  BY DEF Alphabet
<1> QED BY <1>1, TextAssumption, SeqMonotonic DEF Text

\* The answers to a line are messages.
LEMMA AnswersType ==
    ASSUME NEW raw \in Text, NEW names
    PROVE  Answers(dispatch_command(raw, names)) \in Seq(MessageType)
<1> DEFINE entry == dispatch_command(raw, names)
           end == NameEnd(raw)
           word == SubSeq(raw, 2, end)
<1> SUFFICES Answers(entry) \in Seq(MessageType) OBVIOUS
<1> HIDE DEF entry
<1>1. HelpText \in Text \ {<<>>} /\ Complaint \in Text \ {<<>>} /\ Author \in Text BY TextsType
<1>2. \A m \in MessageType : <<m>> \in Seq(MessageType) OBVIOUS
<1>3. \A args \in Seq(Text) : <<Authored(Author, Joined(args))>> \in Seq(MessageType)
  BY <1>1, <1>2, JoinedType, AuthoredType
<1>4. <<Unauthored(HelpText)>> \in Seq(MessageType) BY <1>1, <1>2, UnauthoredType
<1>5. CASE raw = <<>>
  <2>1. entry.kind = "nothing" BY <1>5 DEF dispatch_command, entry
  <2>2. Answers(entry) = <<>> BY <2>1 DEF Answers
  <2> QED BY <2>2, EmptySeq
<1>6. ASSUME NEW args \in Seq(Text), entry = [kind |-> "say", args |-> args]
      PROVE  Answers(entry) \in Seq(MessageType)
  <2>1. entry.kind = "say" /\ entry.args = args BY <1>6
  <2>2. Answers(entry) = <<Authored(Author, Joined(args))>> BY <2>1 DEF Answers
  <2> QED BY <1>3, <2>2
<1>7. CASE raw # <<>> /\ raw[1] # Slash
  <2>1. entry = [kind |-> "say", args |-> <<raw>>] BY <1>7 DEF dispatch_command, entry
  <2>2. <<raw>> \in Seq(Text) OBVIOUS
  <2> QED BY <1>6, <2>1, <2>2
<1>8. CASE raw # <<>> /\ raw[1] = Slash /\ Len(raw) > 1 /\ raw[2] = Slash
  <2>1. entry = [kind |-> "say", args |-> <<Tail(raw)>>] BY <1>8 DEF dispatch_command, entry
  <2>2. Tail(raw) \in Text BY <1>8, HeadTailProperties DEF Text
  <2>3. <<Tail(raw)>> \in Seq(Text) BY <2>2
  <2> QED BY <1>6, <2>1, <2>3
<1>9. CASE raw # <<>> /\ raw[1] = Slash /\ ~(Len(raw) > 1 /\ raw[2] = Slash)
  <2>1. entry = IF word \in names
                  THEN [kind |-> "command", name |-> word, args |-> get_args(end + 1, raw)]
                  ELSE [kind |-> "undefined", name |-> word]
    BY <1>9 DEF dispatch_command, entry
  <2>2. Len(raw) \in Nat BY LenProperties DEF Text
  <2>3. end \in 0 .. Len(raw)
    <3> DEFINE ends == {Len(raw)} \cup {q \in 1 .. Len(raw) - 1 : raw[q + 1] = " "}
    <3>1. ends \subseteq 0 .. Len(raw) /\ ends # {}
      <4>1. Len(raw) \in 0 .. Len(raw) /\ 1 .. Len(raw) - 1 \subseteq 0 .. Len(raw) BY <2>2
      <4> QED BY <4>1
    <3> HIDE DEF ends
    <3>2. ends \subseteq Nat BY <3>1
    <3>3. Min(ends) \in ends BY <3>1, <3>2, MinOf
    <3> QED BY <3>1, <3>3 DEF NameEnd, ends
  <2> HIDE DEF end
  <2>4. word \in Text
    <3>1. \A i \in 2 .. end : raw[i] \in Alphabet BY <2>2, <2>3, ElementOfSeq DEF Text
    <3>2. end \in Int /\ 2 \in Int BY <2>3
    <3> QED BY <3>1, <3>2, SubSeqProperties DEF Text
  <2> HIDE DEF word
  <2>5. CASE word \in names
    <3> DEFINE args == get_args(end + 1, raw)
    <3>1. end + 1 \in Nat BY <2>3
    <3>2. args \in Seq(Text) BY <3>1, ArgsType DEF Text
    <3> HIDE DEF args
    <3>3. entry = [kind |-> "command", name |-> word, args |-> args] BY <2>1, <2>5 DEF args
    <3>4. entry.kind = "command" /\ entry.args = args BY <3>3
    <3>5. Answers(entry) \in {<<Authored(Author, Joined(args))>>, <<Unauthored(HelpText)>>}
      BY <3>4 DEF Answers
    <3> QED BY <1>3, <1>4, <3>2, <3>5
  <2>6. CASE word \notin names
    <3>1. entry.kind = "undefined" /\ entry.name = word BY <2>1, <2>6
    <3>2. Answers(entry) = <<Unauthored(Complaint \o word)>> BY <3>1 DEF Answers
    <3>3. /\ Complaint \o word \in Text /\ Len(Complaint) \in Nat \ {0} /\ Len(word) \in Nat
          /\ Len(Complaint \o word) = Len(Complaint) + Len(word)
      BY <1>1, <2>4, ConcatProperties, EmptySeq, LenProperties DEF Text
    <3>4. Len(Complaint \o word) # 0 BY <3>3
    <3>5. Complaint \o word # <<>> BY <3>4, EmptySeq
    <3> QED BY <1>2, <3>2, <3>3, <3>5, UnauthoredType
  <2> QED BY <2>5, <2>6
<1> QED BY <1>5, <1>7, <1>8, <1>9

\* What the log holds are messages.
Logged == log \in Seq(MessageType)

\* The welcome is one, and every line that is entered adds one at most.
LEMMA LoggedStep == Init => Logged
<1> SUFFICES ASSUME Init PROVE Logged OBVIOUS
<1>1. Unauthored(Welcome) \in MessageType BY TextsType, UnauthoredType
<1>2. log = <<Unauthored(Welcome)>> BY DEF Init
<1> HIDE DEF Init
<1> QED BY <1>1, <1>2 DEF Logged

\* ... always.
LEMMA LoggedAlways == Spec => []Logged
<1>1. ScreenInv /\ Logged /\ [Next]_vars => Logged'
  <2> SUFFICES ASSUME ScreenInv, Logged, [Next]_vars PROVE Logged' OBVIOUS
  <2>1. CASE Enter
    <3>1. PICK answers \in {Answers(dispatch_command(command, {SayName, HelpName}))} :
              log' = log \o answers
      BY <2>1 DEF Enter
    <3>2. command \in Text
      <4>1. command \in Seq(Chars) /\ Chars \subseteq Alphabet BY DEF ScreenInv, CursorInText, Alphabet
      <4> QED BY <4>1, SeqMonotonic DEF Text
    <3>3. answers \in Seq(MessageType) BY <3>1, <3>2, AnswersType
    <3> QED BY <3>1, <3>3, ConcatProperties DEF Logged
  <2>2. CASE ~Enter
    <3>1. UNCHANGED log BY <2>2 DEF Next, Type, Resize, vars
    <3> QED BY <3>1 DEF Logged
  <2> QED BY <2>1, <2>2
<1> QED BY <1>1, LoggedStep, ScreenInvariant, PTL DEF Spec

\* The lines of what is logged, in the log's window.
LEMMA LinesOfLogged ==
    ASSUME ScreenInv, Logged, NEW i \in DOMAIN log
    PROVE  LET width == LogWindow(boxes).width
           IN /\ Holding(log[i], LinesOf(log[i], width), 0)
              /\ width >= 5 => Fitting(LinesOf(log[i], width), width)
<1> DEFINE width == LogWindow(boxes).width
<1>1. width \in Nat
  <2>1. PICK lines \in Nat : boxes = LaidOut(size, lines) BY DEF ScreenInv
  <2>2. size[1] \in Nat /\ size[2] \in Nat BY SizeTypes DEF ScreenInv
  <2>3. boxes \in [1 .. 4 -> Rect] BY <2>1, <2>2, CellsShared DEF LaidOut
  <2>4. boxes[2] \in Rect BY <2>3
  <2>5. Inner(boxes[2]) \in Rect BY <2>4, InnerRect
  <2> QED BY <2>5 DEF LogWindow, Rect
<1>2. log[i] \in MessageType
  <2>1. i \in 1 .. Len(log) BY LenProperties DEF Logged
  <2> QED BY <2>1, ElementOfSeq DEF Logged
<1>3. log[i].text \in Text \ {<<>>} /\ log[i].author_length \in Nat BY <1>2 DEF MessageType
<1>4. Len(log[i].text) \in Nat \ {0} BY <1>3, EmptySeq DEF Text
<1> HIDE DEF width
<1>5. Holding(log[i], LinesOf(log[i], width), 0) /\ (width >= 5 => Fitting(LinesOf(log[i], width), width))
  BY <1>1, <1>3, <1>4, LinesFound
<1> QED BY <1>5 DEF width

\* Wrapping a message to the log's window loses and repeats no character of it,
\* for every message that can be logged and every width (log.cpp).
THEOREM ScreenLinesWhole == Spec => []LinesWhole
<1>1. ScreenInv /\ Logged => LinesWhole
  <2> SUFFICES ASSUME ScreenInv, Logged, NEW i \in DOMAIN log
               PROVE  LinesHold(log[i], LogWindow(boxes).width)
    BY DEF LinesWhole
  <2>1. Holding(log[i], LinesOf(log[i], LogWindow(boxes).width), 0) BY LinesOfLogged
  <2> QED BY <2>1 DEF Holding, LinesHold, LineEndOf
<1> QED BY <1>1, ScreenInvariant, LoggedAlways, PTL

\* ... and no line is wider than it, with its indent, when there is room for
\* more than the indent.
THEOREM ScreenLinesFit == Spec => []LinesFit
<1>1. ScreenInv /\ Logged => LinesFit
  <2> SUFFICES ASSUME ScreenInv, Logged, LogWindow(boxes).width >= 5, NEW i \in DOMAIN log
               PROVE  LinesFitIn(log[i], LogWindow(boxes).width)
    BY DEF LinesFit
  <2>1. Fitting(LinesOf(log[i], LogWindow(boxes).width), LogWindow(boxes).width) BY LinesOfLogged
  <2> QED BY <2>1 DEF Fitting, LinesFitIn
<1> QED BY <1>1, ScreenInvariant, LoggedAlways, PTL

-----------------------------------------------------------------------------
(* The words of a line *)

\* The last character before one that is no escape.
LastOther(s, k) == Max({0} \cup {q \in 1 .. k - 1 : s[q] # Escape})

\* It is before it, and all after it are escapes.
LEMMA LastOtherIs ==
    ASSUME NEW s, NEW k \in Nat \ {0}
    PROVE  /\ LastOther(s, k) \in 0 .. k - 1
           /\ \A q \in 1 .. k - 1 : s[q] # Escape => q <= LastOther(s, k)
           /\ Escaped(s, k) <=> (k - 1 - LastOther(s, k)) % 2 = 1
<1> DEFINE others == {0} \cup {q \in 1 .. k - 1 : s[q] # Escape}
<1>1. others \subseteq 0 .. k - 1 /\ others # {} /\ k - 1 \in Nat OBVIOUS
<1>2. \A q \in 1 .. k - 1 : s[q] # Escape => q \in others OBVIOUS
<1>3. LastOther(s, k) = Max(others) BY DEF LastOther
<1>4. Escaped(s, k) <=> (k - 1 - LastOther(s, k)) % 2 = 1 BY DEF Escaped, LastOther
<1> HIDE DEF others
<1>5. Max(others) \in others /\ \A y \in others : y <= Max(others) BY <1>1, MaxOf
<1> QED BY <1>1, <1>2, <1>3, <1>4, <1>5

\* A character after one that is no escape is not escaped; after an escape it
\* is if that is not.
LEMMA EscapedNext ==
    ASSUME NEW s, NEW p \in Nat \ {0}
    PROVE  Escaped(s, p + 1) <=> s[p] = Escape /\ ~Escaped(s, p)
<1> DEFINE a == LastOther(s, p)
           b == LastOther(s, p + 1)
<1>1. a \in 0 .. p - 1 /\ (Escaped(s, p) <=> (p - 1 - a) % 2 = 1) BY LastOtherIs
<1>2. /\ b \in 0 .. p /\ (Escaped(s, p + 1) <=> (p - b) % 2 = 1)
      /\ \A q \in 1 .. p : s[q] # Escape => q <= b
  <2>1. p + 1 \in Nat \ {0} /\ p + 1 - 1 = p OBVIOUS
  <2> HIDE DEF b
  <2>2. /\ b \in 0 .. p + 1 - 1 /\ (Escaped(s, p + 1) <=> (p + 1 - 1 - b) % 2 = 1)
        /\ \A q \in 1 .. p + 1 - 1 : s[q] # Escape => q <= b
    BY <2>1, LastOtherIs DEF b
  <2> QED BY <2>1, <2>2
<1>3. CASE s[p] = Escape
  <2>1. 1 .. p + 1 - 1 = (1 .. p - 1) \cup {p} OBVIOUS
  <2>2. {q \in 1 .. p + 1 - 1 : s[q] # Escape} = {q \in 1 .. p - 1 : s[q] # Escape} BY <1>3, <2>1
  <2>3. b = a BY <2>2 DEF LastOther
  <2> HIDE DEF a, b
  <2>4. (p - a) % 2 = 1 <=> ~((p - 1 - a) % 2 = 1) BY <1>1
  <2> QED BY <1>1, <1>2, <1>3, <2>3, <2>4
<1>4. CASE s[p] # Escape
  <2> HIDE DEF a, b
  <2>1. p \in 1 .. p OBVIOUS
  <2>2. b = p BY <1>2, <1>4, <2>1
  <2>3. (p - p) % 2 = 0 OBVIOUS
  <2> QED BY <1>2, <1>4, <2>2, <2>3
<1> QED BY <1>3, <1>4

\* The first is not.
LEMMA EscapedFirst == ASSUME NEW s PROVE ~Escaped(s, 1)
<1>1. {0} \cup {q \in 1 .. 1 - 1 : s[q] # Escape} = {0} OBVIOUS
<1>2. Max({0}) = 0
  <2>1. {0} \subseteq 0 .. 0 /\ {0} # {} OBVIOUS
  <2>2. Max({0}) \in {0} BY <2>1, MaxOf
  <2> QED BY <2>2
<1>3. (1 - 1 - 0) % 2 = 0 OBVIOUS
<1> QED BY <1>1, <1>2, <1>3 DEF Escaped

\* Counting the positions before one: the count is the same or one more at the
\* next, if that position is counted.
LEMMA CountNext ==
    ASSUME NEW T, NEW p \in Nat \ {0}
    PROVE  /\ Cardinality({q \in 1 .. p - 1 : q \in T}) \in Nat
           /\ Cardinality({q \in 1 .. p + 1 - 1 : q \in T}) =
                IF p \in T THEN Cardinality({q \in 1 .. p - 1 : q \in T}) + 1
                           ELSE Cardinality({q \in 1 .. p - 1 : q \in T})
<1> DEFINE before == {q \in 1 .. p - 1 : q \in T}
           upto == {q \in 1 .. p + 1 - 1 : q \in T}
<1>1. IsFiniteSet(before) /\ Cardinality(before) \in Nat
  <2>1. IsFiniteSet(1 .. p - 1) BY FS_Interval
  <2> QED BY <2>1, FS_Subset, FS_CardinalityType
<1>2. 1 .. p + 1 - 1 = (1 .. p - 1) \cup {p} /\ p \notin 1 .. p - 1 OBVIOUS
<1>3. upto = IF p \in T THEN before \cup {p} ELSE before BY <1>2
<1>4. p \notin before BY <1>2
<1> HIDE DEF before, upto
<1>5. Cardinality(before \cup {p}) = Cardinality(before) + 1 BY <1>1, <1>4, FS_AddElement
<1> QED BY <1>1, <1>3, <1>5 DEF before, upto

\* A quote that is not escaped opens or closes what is quoted.
LEMMA QuotedNext ==
    ASSUME NEW s, NEW p \in Nat \ {0}
    PROVE  Quoted(s, p + 1) <=> IF s[p] = Quote /\ ~Escaped(s, p) THEN ~Quoted(s, p) ELSE Quoted(s, p)
<1> DEFINE T == {q \in 1 .. p : s[q] = Quote /\ ~Escaped(s, q)}
           c == Cardinality({q \in 1 .. p - 1 : q \in T})
<1>1. {q \in 1 .. p - 1 : q \in T} = {q \in 1 .. p - 1 : s[q] = Quote /\ ~Escaped(s, q)} OBVIOUS
<1>2. {q \in 1 .. p + 1 - 1 : q \in T} = {q \in 1 .. p + 1 - 1 : s[q] = Quote /\ ~Escaped(s, q)} OBVIOUS
<1>3. p \in T <=> s[p] = Quote /\ ~Escaped(s, p) OBVIOUS
<1> HIDE DEF T
<1>4. c \in Nat /\ Cardinality({q \in 1 .. p + 1 - 1 : q \in T}) = IF p \in T THEN c + 1 ELSE c
  BY CountNext
<1>5. Quoted(s, p) <=> c % 2 = 1 BY <1>1 DEF Quoted
<1>6. Quoted(s, p + 1) <=> Cardinality({q \in 1 .. p + 1 - 1 : q \in T}) % 2 = 1 BY <1>2 DEF Quoted
<1> HIDE DEF c
<1>7. (c + 1) % 2 = 1 <=> ~(c % 2 = 1) BY <1>4
<1> QED BY <1>3, <1>4, <1>5, <1>6, <1>7

\* Nothing is quoted at first.
LEMMA QuotedFirst == ASSUME NEW s PROVE ~Quoted(s, 1)
<1>1. {q \in 1 .. 1 - 1 : s[q] = Quote /\ ~Escaped(s, q)} = {} OBVIOUS
<1>2. Cardinality({}) = 0 /\ 0 % 2 = 0 BY FS_EmptySet
<1> QED BY <1>1, <1>2 DEF Quoted

\* The separators before a position.
Ahead(s, p) == Cardinality({q \in 1 .. p - 1 : Separates(s, q)})

\* They are one more after one.
LEMMA AheadNext ==
    ASSUME NEW s, NEW p \in Nat \ {0}
    PROVE  /\ Ahead(s, p) \in Nat
           /\ Ahead(s, p + 1) = IF Separates(s, p) THEN Ahead(s, p) + 1 ELSE Ahead(s, p)
<1> DEFINE T == {q \in 1 .. p : Separates(s, q)}
<1>1. {q \in 1 .. p - 1 : q \in T} = {q \in 1 .. p - 1 : Separates(s, q)} OBVIOUS
<1>2. {q \in 1 .. p + 1 - 1 : q \in T} = {q \in 1 .. p + 1 - 1 : Separates(s, q)} OBVIOUS
<1>3. p \in T <=> Separates(s, p) OBVIOUS
<1> HIDE DEF T
<1> QED BY <1>1, <1>2, <1>3, CountNext DEF Ahead

\* There are none before the first,
LEMMA AheadFirst == ASSUME NEW s PROVE Ahead(s, 1) = 0
<1>1. {q \in 1 .. 1 - 1 : Separates(s, q)} = {} OBVIOUS
<1> QED BY <1>1, FS_EmptySet DEF Ahead

\* ... and no fewer before a later position.
LEMMA AheadGrows ==
    ASSUME NEW s, NEW p \in Nat, NEW q \in Nat, q <= p
    PROVE  Ahead(s, q) <= Ahead(s, p)
<1> DEFINE before(k) == {r \in 1 .. k - 1 : Separates(s, r)}
<1>1. IsFiniteSet(before(p)) 
  <2>1. IsFiniteSet(1 .. p - 1) BY FS_Interval
  <2> QED BY <2>1, FS_Subset
<1>2. before(q) \subseteq before(p)
  <2> SUFFICES ASSUME NEW r \in 1 .. q - 1 PROVE r \in 1 .. p - 1 OBVIOUS
  <2> QED OBVIOUS
<1> QED BY <1>1, <1>2, FS_Subset DEF Ahead

\* What one character does to the state, by what the state says of it.
LEMMA ArgStepCases ==
    ASSUME NEW S, NEW st \in ArgStates(S), NEW c
    PROVE  LET next == ArgStep(st, c)
               splits == c \in Blanks /\ ~st.escaped /\ ~st.quoted
           IN /\ next.escaped <=> c = Escape /\ ~st.escaped
              /\ next.quoted <=> IF c = Quote /\ ~st.escaped THEN ~st.quoted ELSE st.quoted
              /\ splits => next.arg = <<>> /\ next.args = ArgsOf(st)
              /\ st.escaped \/ (c \notin {Escape, Quote} /\ ~splits) =>
                    next.arg = Append(st.arg, c) /\ next.args = st.args
              /\ ~splits /\ ~st.escaped /\ c \in {Escape, Quote} =>
                    next.arg = st.arg /\ next.args = st.args
<1>1. /\ st.quoted \in BOOLEAN /\ st.escaped \in BOOLEAN
      /\ DOMAIN st = {"args", "arg", "quoted", "escaped"}
  BY DEF ArgStates
<1>2. Escape # Quote /\ Escape \notin Blanks /\ Quote \notin Blanks BY DEF Escape, Quote, Blanks
<1> DEFINE next == ArgStep(st, c)
<1>3. CASE st.escaped
  <2>1. next = [st EXCEPT !.arg = Append(@, c), !.escaped = FALSE] BY <1>3 DEF ArgStep
  <2> HIDE DEF next
  <2>2. /\ next.escaped = FALSE /\ next.quoted = st.quoted
        /\ next.arg = Append(st.arg, c) /\ next.args = st.args
    BY <1>1, <2>1
  <2> QED BY <1>3, <2>2 DEF next
<1>4. CASE ~st.escaped /\ c = Escape
  <2>1. next = [st EXCEPT !.escaped = TRUE] BY <1>4 DEF ArgStep
  <2> HIDE DEF next
  <2>2. next.escaped = TRUE /\ next.quoted = st.quoted /\ next.arg = st.arg /\ next.args = st.args
    BY <1>1, <2>1
  <2> QED BY <1>2, <1>4, <2>2 DEF next
<1>5. CASE ~st.escaped /\ c = Quote
  <2>1. next = [st EXCEPT !.quoted = ~@] BY <1>2, <1>5 DEF ArgStep
  <2> HIDE DEF next
  <2>2. /\ next.escaped = st.escaped /\ next.quoted = ~st.quoted
        /\ next.arg = st.arg /\ next.args = st.args
    BY <1>1, <2>1
  <2> QED BY <1>1, <1>2, <1>5, <2>2 DEF next
<1>6. CASE ~st.escaped /\ c \in Blanks /\ ~st.quoted
  <2>1. next = IF st.arg = <<>> THEN st ELSE [st EXCEPT !.args = Append(@, st.arg), !.arg = <<>>]
    BY <1>2, <1>6 DEF ArgStep
  <2> HIDE DEF next
  <2>2. /\ next.escaped = st.escaped /\ next.quoted = st.quoted
        /\ next.arg = <<>> /\ next.args = ArgsOf(st)
    BY <1>1, <2>1 DEF ArgsOf
  <2> QED BY <1>1, <1>2, <1>6, <2>2 DEF next
<1>7. CASE ~st.escaped /\ c \notin {Escape, Quote} /\ ~(c \in Blanks /\ ~st.quoted)
  <2>1. next = [st EXCEPT !.arg = Append(@, c)] BY <1>7 DEF ArgStep
  <2> HIDE DEF next
  <2>2. /\ next.escaped = st.escaped /\ next.quoted = st.quoted
        /\ next.arg = Append(st.arg, c) /\ next.args = st.args
    BY <1>1, <2>1
  <2> QED BY <1>1, <1>7, <2>2 DEF next
<1> QED BY <1>3, <1>4, <1>5, <1>6, <1>7

\* The kept characters among the first k, the words they make and which there are.
KeptIn(s, k) == {p \in 1 .. k : Kept(s, p)}
GroupIn(s, k, g) == {p \in KeptIn(s, k) : Ahead(s, p) = g}
WordsIn(s, k) == [g \in Nat |-> At(s, GroupIn(s, k, g))]
GroupsIn(s, k) == {Ahead(s, p) : p \in KeptIn(s, k)}

\* They are natural numbers, finitely many, and none is past the separators so far.
LEMMA GroupsType ==
    ASSUME NEW s, NEW k \in Nat
    PROVE  /\ GroupsIn(s, k) \subseteq 0 .. Ahead(s, k + 1) /\ GroupsIn(s, k) \subseteq Nat
           /\ Ahead(s, k + 1) \in Nat /\ IsFiniteSet(GroupsIn(s, k))
           /\ \A g : GroupIn(s, k, g) \subseteq 1 .. k /\ IsFiniteSet(GroupIn(s, k, g))
<1>1. Ahead(s, k + 1) \in Nat BY AheadNext
<1>2. GroupsIn(s, k) \subseteq 0 .. Ahead(s, k + 1)
  <2> SUFFICES ASSUME NEW p \in 1 .. k PROVE Ahead(s, p) \in 0 .. Ahead(s, k + 1)
    BY DEF GroupsIn, KeptIn
  <2>1. p \in Nat \ {0} /\ p <= k + 1 /\ k + 1 \in Nat OBVIOUS
  <2>2. Ahead(s, p) \in Nat /\ Ahead(s, p) <= Ahead(s, k + 1) BY <2>1, AheadNext, AheadGrows
  <2> QED BY <1>1, <2>2
<1>3. IsFiniteSet(0 .. Ahead(s, k + 1)) BY <1>1, FS_Interval
<1>4. IsFiniteSet(GroupsIn(s, k)) BY <1>2, <1>3, FS_Subset
<1>5. GroupsIn(s, k) \subseteq Nat BY <1>1, <1>2
<1>6. ASSUME NEW g PROVE GroupIn(s, k, g) \subseteq 1 .. k /\ IsFiniteSet(GroupIn(s, k, g))
  <2>1. GroupIn(s, k, g) \subseteq 1 .. k BY DEF GroupIn, KeptIn
  <2>2. IsFiniteSet(1 .. k) BY FS_Interval
  <2> QED BY <2>1, <2>2, FS_Subset
<1> QED BY <1>1, <1>2, <1>4, <1>5, <1>6

\* One character more is in the group it belongs to, when it is kept.
LEMMA GroupNext ==
    ASSUME NEW s, NEW k \in Nat, NEW g
    PROVE  GroupIn(s, k + 1, g) =
             IF Kept(s, k + 1) /\ Ahead(s, k + 1) = g THEN GroupIn(s, k, g) \cup {k + 1}
             ELSE GroupIn(s, k, g)
<1>1. 1 .. k + 1 = (1 .. k) \cup {k + 1} OBVIOUS
<1>2. KeptIn(s, k + 1) = IF Kept(s, k + 1) THEN KeptIn(s, k) \cup {k + 1} ELSE KeptIn(s, k)
  BY <1>1 DEF KeptIn
<1> QED BY <1>2 DEF GroupIn

\* ... and its group is there then.
LEMMA GroupsNext ==
    ASSUME NEW s, NEW k \in Nat
    PROVE  GroupsIn(s, k + 1) =
             IF Kept(s, k + 1) THEN GroupsIn(s, k) \cup {Ahead(s, k + 1)} ELSE GroupsIn(s, k)
<1>1. 1 .. k + 1 = (1 .. k) \cup {k + 1} OBVIOUS
<1>2. KeptIn(s, k + 1) = IF Kept(s, k + 1) THEN KeptIn(s, k) \cup {k + 1} ELSE KeptIn(s, k)
  BY <1>1 DEF KeptIn
<1>3. CASE Kept(s, k + 1)
  <2>1. KeptIn(s, k + 1) = KeptIn(s, k) \cup {k + 1} BY <1>2, <1>3
  <2> QED BY <1>3, <2>1 DEF GroupsIn
<1>4. CASE ~Kept(s, k + 1) BY <1>2, <1>4 DEF GroupsIn
<1> QED BY <1>3, <1>4

\* The groups that are closed by a separator.
ClosedIn(s, k) == {g \in GroupsIn(s, k) : g < Ahead(s, k + 1)}

\* What the state is after k characters: the flags of the next one, the word
\* that is open and those that are closed.
AsRead(s, k, st) ==
    /\ st.escaped <=> Escaped(s, k + 1)
    /\ st.quoted <=> Quoted(s, k + 1)
    /\ st.arg = At(s, GroupIn(s, k, Ahead(s, k + 1)))
    /\ st.args = At(WordsIn(s, k), ClosedIn(s, k))

\* Closing the open word leaves every word there is.
LEMMA AllClosed ==
    ASSUME NEW S, NEW s \in Seq(S), NEW k \in 0 .. Len(s), NEW st, AsRead(s, k, st)
    PROVE  ArgsOf(st) = At(WordsIn(s, k), GroupsIn(s, k))
<1> DEFINE a == Ahead(s, k + 1)
           open == GroupIn(s, k, a)
           closed == ClosedIn(s, k)
           all == GroupsIn(s, k)
<1>1. k \in Nat /\ k <= Len(s) /\ Len(s) \in Nat BY LenProperties
<1>2. /\ all \subseteq 0 .. a /\ all \subseteq Nat /\ a \in Nat /\ IsFiniteSet(all)
      /\ \A g : GroupIn(s, k, g) \subseteq 1 .. k /\ IsFiniteSet(GroupIn(s, k, g))
  BY <1>1, GroupsType
<1>3. ASSUME NEW g PROVE At(s, GroupIn(s, k, g)) \in Seq(S) /\
                         (At(s, GroupIn(s, k, g)) = <<>> <=> GroupIn(s, k, g) = {})
  <2> DEFINE I == GroupIn(s, k, g)
  <2>1. I \subseteq 1 .. k /\ IsFiniteSet(I) BY <1>2
  <2> HIDE DEF I
  <2>2. I \subseteq Int BY <2>1
  <2>3. \A i \in I : s[i] \in S
    <3> SUFFICES ASSUME NEW i \in I PROVE s[i] \in S OBVIOUS
    <3>1. i \in 1 .. Len(s) BY <1>1, <2>1
    <3> QED BY <3>1, ElementOfSeq
  <2>4. At(s, I) \in Seq(S) /\ (At(s, I) = <<>> <=> I = {}) BY <2>1, <2>2, <2>3, AtType
  <2> QED BY <2>4 DEF I
<1>4. open = {} <=> a \notin all BY DEF GroupsIn, GroupIn
<1>5. closed = all \ {a}
  <2>1. \A g \in all : g < a <=> g # a
    <3> SUFFICES ASSUME NEW g \in all PROVE g < a <=> g # a OBVIOUS
    <3>1. g \in 0 .. a /\ a \in Nat BY <1>2
    <3> HIDE DEF a
    <3> QED BY <3>1
  <2> QED BY <2>1 DEF ClosedIn
<1>6. st.arg = At(s, open) /\ st.args = At(WordsIn(s, k), closed) BY DEF AsRead
<1>7. WordsIn(s, k)[a] = At(s, open) BY <1>2 DEF WordsIn
<1> HIDE DEF a, open, closed, all
<1>8. CASE a \notin all
  <2>1. st.arg = <<>> BY <1>3, <1>4, <1>6, <1>8 DEF open
  <2>2. closed = all BY <1>5, <1>8
  <2> QED BY <1>6, <2>1, <2>2 DEF ArgsOf, all
<1>9. CASE a \in all
  <2>1. st.arg # <<>> BY <1>3, <1>4, <1>6, <1>9 DEF open
  <2>2. all = closed \cup {a} BY <1>5, <1>9
  <2>3. closed \subseteq Int /\ IsFiniteSet(closed) /\ a \in Int BY <1>2, <1>5, FS_Subset
  <2>4. \A g \in closed : g < a BY DEF closed, ClosedIn, a
  <2>5. At(WordsIn(s, k), closed \cup {a}) = Append(At(WordsIn(s, k), closed), WordsIn(s, k)[a])
    BY <2>3, <2>4, AtMore
  <2> QED BY <1>6, <1>7, <2>1, <2>2, <2>5 DEF ArgsOf, all
<1> QED BY <1>8, <1>9

\* Nothing is read at first.
LEMMA AsReadStart == ASSUME NEW s PROVE AsRead(s, 0, ArgsStart)
<1>1. 0 + 1 = 1 /\ 1 .. 0 = {} OBVIOUS
<1>2. ~Escaped(s, 1) /\ ~Quoted(s, 1) BY EscapedFirst, QuotedFirst
<1>3. KeptIn(s, 0) = {} BY <1>1 DEF KeptIn
<1>4. GroupIn(s, 0, Ahead(s, 1)) = {} BY <1>3 DEF GroupIn
<1>5. ClosedIn(s, 0) = {} BY <1>3 DEF ClosedIn, GroupsIn
<1>6. /\ At(s, GroupIn(s, 0, Ahead(s, 1))) = <<>>
      /\ At(WordsIn(s, 0), ClosedIn(s, 0)) = <<>>
  BY <1>4, <1>5, AtNone
<1> QED BY <1>1, <1>2, <1>6 DEF AsRead, ArgsStart

\* A character more is read as quoting and escaping have it.
LEMMA AsReadNext ==
    ASSUME NEW S, NEW s \in Seq(S), NEW k \in 0 .. Len(s), k + 1 <= Len(s),
           NEW st \in ArgStates(S), AsRead(s, k, st)
    PROVE  AsRead(s, k + 1, ArgStep(st, s[k + 1]))
<1> DEFINE p == k + 1
           c == s[p]
           a == Ahead(s, p)
           b == Ahead(s, p + 1)
           next == ArgStep(st, c)
           splits == c \in Blanks /\ ~st.escaped /\ ~st.quoted
<1>1. k \in Nat /\ p \in Nat \ {0} /\ p \in 1 .. Len(s) /\ Len(s) \in Nat BY LenProperties
<1>2. /\ st.escaped <=> Escaped(s, p)
      /\ st.quoted <=> Quoted(s, p)
      /\ st.arg = At(s, GroupIn(s, k, a))
      /\ st.args = At(WordsIn(s, k), ClosedIn(s, k))
  BY DEF AsRead
<1>3. /\ next.escaped <=> c = Escape /\ ~st.escaped
      /\ next.quoted <=> IF c = Quote /\ ~st.escaped THEN ~st.quoted ELSE st.quoted
      /\ splits => next.arg = <<>> /\ next.args = ArgsOf(st)
      /\ st.escaped \/ (c \notin {Escape, Quote} /\ ~splits) =>
            next.arg = Append(st.arg, c) /\ next.args = st.args
      /\ ~splits /\ ~st.escaped /\ c \in {Escape, Quote} =>
            next.arg = st.arg /\ next.args = st.args
  BY ArgStepCases
<1>4. splits <=> Separates(s, p) BY <1>2 DEF Separates
<1>5. Kept(s, p) <=> st.escaped \/ (c \notin {Escape, Quote} /\ ~splits) BY <1>2, <1>4 DEF Kept
<1>6. a \in Nat /\ b = IF splits THEN a + 1 ELSE a BY <1>1, <1>4, AheadNext
<1>7. /\ GroupsIn(s, k) \subseteq 0 .. a /\ GroupsIn(s, k) \subseteq Nat /\ IsFiniteSet(GroupsIn(s, k))
      /\ \A g : GroupIn(s, k, g) \subseteq 1 .. k /\ IsFiniteSet(GroupIn(s, k, g))
  BY <1>1, GroupsType
<1>8. \A g : GroupIn(s, p, g) =
               IF Kept(s, p) /\ a = g THEN GroupIn(s, k, g) \cup {p} ELSE GroupIn(s, k, g)
  BY <1>1, GroupNext
<1>9. GroupsIn(s, p) = IF Kept(s, p) THEN GroupsIn(s, k) \cup {a} ELSE GroupsIn(s, k)
  BY <1>1, GroupsNext
<1>10. next.escaped <=> Escaped(s, p + 1) BY <1>1, <1>2, <1>3, EscapedNext
<1>11. next.quoted <=> Quoted(s, p + 1) BY <1>1, <1>2, <1>3, QuotedNext
<1> HIDE DEF p, a, b, next, splits
<1>12. SUFFICES next.arg = At(s, GroupIn(s, p, b)) /\ next.args = At(WordsIn(s, p), ClosedIn(s, p))
  BY <1>10, <1>11 DEF AsRead, p, b, next, a
<1>13. CASE splits
  <2>1. ~Kept(s, p) /\ b = a + 1 /\ ~(a + 1 <= a) BY <1>4, <1>6, <1>13 DEF Kept, Separates
  <2>2. GroupsIn(s, p) = GroupsIn(s, k) /\ \A g : GroupIn(s, p, g) = GroupIn(s, k, g) BY <1>8, <1>9, <2>1
  <2>3. WordsIn(s, p) = WordsIn(s, k) BY <2>2 DEF WordsIn
  <2>4. \A g \in GroupsIn(s, k) : g < b
    <3> SUFFICES ASSUME NEW g \in GroupsIn(s, k) PROVE g < b OBVIOUS
    <3>1. g \in 0 .. a BY <1>7
    <3> QED BY <1>6, <2>1, <3>1
  <2>5. ClosedIn(s, p) = GroupsIn(s, k) BY <2>2, <2>4 DEF ClosedIn, b
  <2>6. b \notin GroupsIn(s, k)
    <3>1. b \notin 0 .. a BY <1>6, <2>1
    <3> QED BY <1>7, <3>1
  <2>7. GroupIn(s, p, b) = {} BY <2>2, <2>6 DEF GroupIn, GroupsIn
  <2>8. ArgsOf(st) = At(WordsIn(s, k), GroupsIn(s, k)) BY AllClosed
  <2> QED BY <1>3, <1>13, <2>3, <2>5, <2>7, <2>8, AtNone
<1>14. CASE ~splits
  <2>1. b = a BY <1>6, <1>14
  <2>2. ClosedIn(s, p) = ClosedIn(s, k)
    <3>1. ~(a < a) BY <1>6
    <3> QED BY <1>9, <2>1, <3>1 DEF ClosedIn, a, b, p
  <2>3. At(WordsIn(s, p), ClosedIn(s, p)) = At(WordsIn(s, k), ClosedIn(s, k))
    <3> DEFINE closed == ClosedIn(s, k)
    <3>1. closed \subseteq Nat /\ IsFiniteSet(closed) BY <1>7, FS_Subset DEF ClosedIn
    <3>2. \A g \in closed : WordsIn(s, p)[g] = WordsIn(s, k)[g]
      <4> SUFFICES ASSUME NEW g \in closed PROVE WordsIn(s, p)[g] = WordsIn(s, k)[g] OBVIOUS
      <4>1. g \in Nat /\ g # a
        <5>1. g \in Nat /\ g < a BY <3>1 DEF ClosedIn, a, p
        <5> QED BY <1>6, <5>1
      <4>2. GroupIn(s, p, g) = GroupIn(s, k, g) BY <1>8, <4>1
      <4> QED BY <4>1, <4>2 DEF WordsIn
    <3> HIDE DEF closed
    <3>3. closed \subseteq Int BY <3>1
    <3>4. At(WordsIn(s, p), closed) = At(WordsIn(s, k), closed) BY ONLY <3>1, <3>2, <3>3, AtSame
    <3> QED BY <2>2, <3>4 DEF closed
  <2>4. next.args = st.args BY <1>3, <1>14
  <2>5. CASE Kept(s, p)
    <3> DEFINE open == GroupIn(s, k, a)
    <3>1. next.arg = Append(st.arg, c) BY <1>3, <1>5, <2>5
    <3>2. GroupIn(s, p, b) = open \cup {p} BY <1>8, <2>1, <2>5
    <3>3. open \subseteq 1 .. k /\ IsFiniteSet(open) BY <1>7
    <3> HIDE DEF open
    <3>4. open \subseteq Int /\ p \in Int /\ \A i \in open : i < p
      <4>1. \A i \in 1 .. k : i \in Int /\ i < p BY <1>1 DEF p
      <4> QED BY <1>1, <3>3, <4>1
    <3>5. At(s, open \cup {p}) = Append(At(s, open), s[p]) BY <3>3, <3>4, AtMore
    <3> QED BY <1>2, <2>3, <2>4, <3>1, <3>2, <3>5 DEF open
  <2>6. CASE ~Kept(s, p)
    <3>1. next.arg = st.arg BY <1>3, <1>5, <1>14, <2>6
    <3>2. GroupIn(s, p, b) = GroupIn(s, k, a) BY <1>8, <2>1, <2>6
    <3> QED BY <1>2, <2>3, <2>4, <3>1, <3>2
  <2> QED BY <2>5, <2>6
<1> QED BY <1>13, <1>14

\* So get_args finds the words of a line.
LEMMA ArgsWords ==
    ASSUME NEW S, NEW s \in Seq(S)
    PROVE  get_args(0, s) = Words(s)
<1> DEFINE n == Len(s)
<1>1. n \in Nat /\ DOMAIN s = 1 .. n BY LenProperties
<1>2. SubSeq(s, 0 + 1, n) = s BY SubSeqFull
<1>3. PICK st : Runs(s, st) /\ get_args(0, s) = ArgsOf(st[n])
  <2>1. 0 \in Nat OBVIOUS
  <2> QED BY <1>2, <2>1, ArgsRun
<1> DEFINE T == {k \in 0 .. n : ~AsRead(s, k, st[k])}
<1>4. T = {}
  <2> SUFFICES ASSUME T # {} PROVE FALSE OBVIOUS
  <2>1. T \subseteq Nat BY <1>1
  <2>2. PICK k \in T : \A l \in T : k <= l BY <2>1, Least
  <2>3. CASE k = 0
    <3>1. AsRead(s, 0, ArgsStart) BY AsReadStart
    <3> QED BY <1>3, <2>2, <2>3, <3>1 DEF Runs
  <2>4. CASE k # 0
    <3>1. PICK l \in 0 .. n : k = l + 1
      <4>1. k - 1 \in 0 .. n /\ k = k - 1 + 1 BY <1>1, <2>4
      <4> QED BY <4>1
    <3>2. l + 1 \in 1 .. n /\ l + 1 <= n /\ ~(k <= l) /\ l + 1 - 1 = l BY <1>1, <3>1
    <3>3. AsRead(s, l, st[l]) BY <2>2, <3>2
    <3>4. st[l] \in ArgStates(S) BY <1>3, RunType
    <3>5. AsRead(s, l + 1, ArgStep(st[l], s[l + 1])) BY <3>2, <3>3, <3>4, AsReadNext
    <3>6. st[l + 1] = ArgStep(st[l], s[l + 1]) BY <1>3, <3>2 DEF Runs
    <3> QED BY <2>2, <3>1, <3>5, <3>6
  <2> QED BY <2>3, <2>4
<1>5. n \in 0 .. n BY <1>1
<1>6. AsRead(s, n, st[n]) BY <1>4, <1>5
<1>7. ArgsOf(st[n]) = At(WordsIn(s, n), GroupsIn(s, n)) BY <1>5, <1>6, AllClosed
<1> DEFINE kept == {p \in DOMAIN s : Kept(s, p)}
           before(p) == Cardinality({q \in 1 .. p - 1 : Separates(s, q)})
           groups == {before(p) : p \in kept}
           word == [g \in groups |-> At(s, {p \in kept : before(p) = g})]
<1>8. Words(s) = At(word, groups) BY DEF Words
<1>9. kept = KeptIn(s, n) BY <1>1 DEF KeptIn
<1>10. groups = GroupsIn(s, n) /\ \A g : {p \in kept : before(p) = g} = GroupIn(s, n, g)
  BY <1>9 DEF GroupsIn, GroupIn, Ahead
<1>11. GroupsIn(s, n) \subseteq Nat /\ IsFiniteSet(GroupsIn(s, n)) BY <1>1, GroupsType
<1>12. \A g \in groups : word[g] = WordsIn(s, n)[g]
  <2> SUFFICES ASSUME NEW g \in groups PROVE word[g] = WordsIn(s, n)[g] OBVIOUS
  <2>1. word[g] = At(s, {p \in kept : before(p) = g}) OBVIOUS
  <2> HIDE DEF word, kept, before, groups
  <2>2. g \in Nat /\ word[g] = At(s, GroupIn(s, n, g)) BY <1>10, <1>11, <2>1
  <2> QED BY <2>2 DEF WordsIn
<1> HIDE DEF word, kept, before, groups
<1>13. groups \subseteq Int /\ IsFiniteSet(groups) BY <1>10, <1>11
<1>14. At(word, groups) = At(WordsIn(s, n), groups) BY ONLY <1>12, <1>13, AtSame
<1> QED BY <1>3, <1>7, <1>8, <1>10, <1>14

\* The arguments of every line that can be typed are the words that quoting and
\* escaping define, however long it is (sabakurai.cpp, get_args).
THEOREM ScreenArgsAgree == Spec => []ArgsAgree
<1>1. ScreenInv => ArgsAgree BY ArgsWords DEF ScreenInv, CursorInText, ArgsAgree
<1> QED BY <1>1, ScreenInvariant, PTL
=============================================================================
