---------------------------- MODULE CommandPrompt ----------------------------
(***************************************************************************)
(* The command prompt of command_prompt.cpp: a text of several lines with  *)
(* a cursor, wrapped to the width of its window and scrolled by `offset`   *)
(* lines from the bottom.                                                  *)
(*                                                                         *)
(* Positions are 0-based, as in the code: the character at position p is   *)
(* command[p + 1].  The window has a column at least.                      *)
(***************************************************************************)
EXTENDS Integers, Sequences, FiniteSets, FiniteSetsExt

CONSTANT Printable   \* the characters from ' ' to '~' that are typed

VARIABLES
    command,
    cursor_pos,
    offset,       \* the lines hidden below the window
    last_count    \* the lines when the window was last resized for them

prompt == <<command, cursor_pos, offset, last_count>>

NewLine == "newline"
Space == " "
Chars == Printable \cup {NewLine, Space}

PromptInit == command = <<>> /\ cursor_pos = 0 /\ offset = 0 /\ last_count = 1

-----------------------------------------------------------------------------
(* Lines *)

\* The column of position p in its line, before wrapping.
Column(s, p) == p - Max({0} \cup {q \in 1 .. p : s[q] = NewLine})

\* Where the first n characters begin a new line when `width` of them make one.
Breaks(s, n, width) ==
    {q \in 1 .. n : s[q] = NewLine \/ (Column(s, q - 1) > 0 /\ Column(s, q - 1) % width = 0)}

line_count(s, width) == 1 + Cardinality(Breaks(s, Len(s), width))

\* cursor_position().y: the cursor's line, counted from the bottom.  It wraps
\* with > where line_count and draw have >=, one character later.
CursorRow(s, p, width) == line_count(s, width) - Cardinality(Breaks(s, p, width + 1)) - 1

-----------------------------------------------------------------------------
(* The keys.  Each is a new text and a new cursor; one that changes neither *)
(* is left to the caller's stuttering.                                      *)

Insert(s) ==
    /\ command' = SubSeq(command, 1, cursor_pos) \o s
                    \o SubSeq(command, cursor_pos + 1, Len(command))
    /\ cursor_pos' = cursor_pos + Len(s)

\* Printable characters, tab and shift-tab.
Insertion ==
    \/ \E c \in Printable : Insert(<<c>>)
    \/ Insert(<<Space, Space, Space, Space>>)
    \/ Insert(<<NewLine>>)

Without(p) == SubSeq(command, 1, p) \o SubSeq(command, p + 2, Len(command))

Delete ==
    /\ cursor_pos < Len(command)
    /\ command' = Without(cursor_pos)
    /\ UNCHANGED cursor_pos

\* Mutant: it erases the character under the cursor.
BackspaceAhead ==
    /\ cursor_pos > 0
    /\ command' = Without(cursor_pos)
    /\ cursor_pos' = cursor_pos - 1

Backspace ==
    /\ cursor_pos > 0
    /\ command' = Without(cursor_pos - 1)
    /\ cursor_pos' = cursor_pos - 1

\* The last position up to p that holds a new line, or 0.
StopBefore(s, p) == Max({0} \cup {q \in 0 .. p : s[q + 1] = NewLine})

\* The end of the line that position p is on.
LineEnd(s, p) == Min({Len(s)} \cup {q \in p .. Len(s) - 1 : s[q + 1] = NewLine})

\* KEY_UP.  A new line at position 0 is taken for the start of the text.
UpTarget(s, p) ==
    LET stop == IF p = 0 THEN 0 ELSE StopBefore(s, p - 1)
        above == IF stop = 0 THEN 0 ELSE StopBefore(s, stop - 1)
        start == IF above = 0 THEN 0 ELSE above + 1
    IN IF stop = 0 THEN 0 ELSE Min({start + (p - stop - 1), LineEnd(s, start)})

\* Mutant: the column is not cut to the length of the line.
DownTargetUncut(s, p) ==
    LET end == LineEnd(s, p)
    IN IF end = Len(s) THEN end ELSE Min({end + 1 + Column(s, p), Len(s)})

\* KEY_DOWN.
DownTarget(s, p) ==
    LET end == LineEnd(s, p)
    IN IF end = Len(s) THEN end ELSE Min({end + 1 + Column(s, p), LineEnd(s, end + 1)})

MoveTo(p) == cursor_pos' = p /\ UNCHANGED command

Motion ==
    \/ cursor_pos > 0 /\ MoveTo(cursor_pos - 1)
    \/ cursor_pos < Len(command) /\ MoveTo(cursor_pos + 1)
    \/ MoveTo(UpTarget(command, cursor_pos))
    \/ MoveTo(DownTarget(command, cursor_pos))

Edit == Insertion \/ Delete \/ Backspace \/ Motion

\* Mutant: it scrolls up a line late.
FollowLate(width, height) ==
    LET row == CursorRow(command', cursor_pos', width)
    IN offset' = IF row < offset THEN row
                 ELSE IF row > offset + height THEN row - height + 1
                 ELSE offset

\* The end of update(): the window follows the cursor.
Follow(width, height) ==
    LET row == CursorRow(command', cursor_pos', width)
    IN offset' = IF row < offset THEN row
                 ELSE IF row >= offset + height THEN row - height + 1
                 ELSE offset

\* Mutant: the cursor stays where it was.
clear_text == command' = <<>> /\ cursor_pos' = cursor_pos /\ offset' = 0

clear_command == command' = <<>> /\ cursor_pos' = 0 /\ offset' = 0

\* height_change: the line count, capped, and whether it is a new one.
Capped(lines, cap) == IF lines > cap THEN cap ELSE lines

-----------------------------------------------------------------------------
\* The cursor stays in the text.
PromptTypeOK ==
    /\ command \in Seq(Chars)
    /\ cursor_pos \in 0 .. Len(command)
    /\ offset \in Int
    /\ last_count \in Nat

\* The prompt is a line editor, wherever its window is.
EditorView == INSTANCE LineEditor WITH
    before <- SubSeq(command, 1, cursor_pos),
    after  <- SubSeq(command, cursor_pos + 1, Len(command))

\* Every key edits next to the cursor or moves it, none does more.
EditsLine == EditorView!EditorSpec

LineOf(s, p) == Cardinality({q \in 1 .. p : s[q] = NewLine})

\* Position p is in column c, or at the end of a line that is shorter.
AtColumn(s, p, c) ==
    \/ Column(s, p) = c
    \/ Column(s, p) < c /\ (p = Len(s) \/ s[p + 1] = NewLine)

\* KEY_UP and KEY_DOWN go to the line above and below, in the same column or
\* at the end of it; KEY_UP does unless the text begins with an empty line.
VerticalMoves ==
    LET up == UpTarget(command, cursor_pos)
        down == DownTarget(command, cursor_pos)
        line == LineOf(command, cursor_pos)
        column == Column(command, cursor_pos)
    IN /\ line > 0 /\ command[1] # NewLine =>
            LineOf(command, up) = line - 1 /\ AtColumn(command, up, column)
       /\ line < LineOf(command, Len(command)) =>
            LineOf(command, down) = line + 1 /\ AtColumn(command, down, column)
=============================================================================
