----------------------------- MODULE LineEditor -----------------------------
(***************************************************************************)
(* What the command prompt promises: a text with a cursor in it, which     *)
(* keys change next to the cursor or not at all.  How the cursor moves is  *)
(* left open.                                                              *)
(***************************************************************************)
EXTENDS Naturals, Sequences, SequencesExt

CONSTANT Chars

VARIABLES before, after   \* the text on either side of the cursor

editor == <<before, after>>

EditorInit == before = <<>> /\ after = <<>>

\* A key inserts at most a tab's worth of characters.
Insert ==
    /\ before' \in Seq(Chars)
    /\ IsStrictPrefix(before, before') /\ Len(before') <= Len(before) + 4
    /\ after' = after

EraseAhead == after # <<>> /\ after' = Tail(after) /\ before' = before

EraseBehind ==
    /\ before # <<>>
    /\ before' = SubSeq(before, 1, Len(before) - 1)
    /\ after' = after

Move == before' \o after' = before \o after

Clear == before' = <<>> /\ after' = <<>>

EditorNext == Insert \/ EraseAhead \/ EraseBehind \/ Move \/ Clear

EditorSpec == EditorInit /\ [][EditorNext]_editor
=============================================================================
