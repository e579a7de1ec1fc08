------------------------------- MODULE Layout -------------------------------
(***************************************************************************)
(* Where the windows of the client lie: a box leaves a border around its   *)
(* child (box.cpp), a split divides its rectangle in two (split.cpp), and  *)
(* the three splits of sabakurai.cpp's main decide where.                  *)
(***************************************************************************)
EXTENDS Integers

Rect == [x : Nat, y : Nat, width : Nat, height : Nat]

\* Box.component_resize: a side below 2 would wrap around as an unsigned int
\* and is taken for 0.
Shrunk(side) == IF side >= 2 THEN side - 2 ELSE 0

Inner(r) == [x |-> r.x + 1, y |-> r.y + 1, width |-> Shrunk(r.width), height |-> Shrunk(r.height)]

\* Split.component_resize, HORZ and VERT.
Upper(r, n) == [r EXCEPT !.height = n]

\* Mutant: the second child keeps the height of the whole.
LowerUncut(r, n) == [r EXCEPT !.y = @ + n]

Lower(r, n) == [r EXCEPT !.y = @ + n, !.height = @ - n]
Left(r, n) == [r EXCEPT !.width = n]
Right(r, n) == [r EXCEPT !.x = @ + n, !.width = @ - n]

\* The location callbacks of the three splits: the title takes 7 rows, the
\* left panel four fifths of the columns, and the log the rows the prompt
\* leaves, but never less than three quarters.
TitleRows(r) == IF r.height < 7 THEN r.height ELSE 7
PanelColumns(r) == (4 * r.width) \div 5
LogRows(r, lines) ==
    IF 4 * (lines + 2) > r.height THEN (3 * r.height) \div 4 ELSE r.height - lines - 2

-----------------------------------------------------------------------------
(* The windows of a terminal, with a prompt that asks for so many lines. *)

Interior(cols, rows) == Inner([x |-> 0, y |-> 0, width |-> cols, height |-> rows])

TitleBox(cols, rows) == Upper(Interior(cols, rows), TitleRows(Interior(cols, rows)))
Lobby(cols, rows) == Lower(Interior(cols, rows), TitleRows(Interior(cols, rows)))

Panel(cols, rows) == Left(Lobby(cols, rows), PanelColumns(Lobby(cols, rows)))
PlayerBox(cols, rows) == Right(Lobby(cols, rows), PanelColumns(Lobby(cols, rows)))

LogBox(cols, rows, lines) == Upper(Panel(cols, rows), LogRows(Panel(cols, rows), lines))
CommandBox(cols, rows, lines) == Lower(Panel(cols, rows), LogRows(Panel(cols, rows), lines))

Boxes(cols, rows, lines) ==
    <<TitleBox(cols, rows), LogBox(cols, rows, lines), CommandBox(cols, rows, lines),
      PlayerBox(cols, rows)>>

\* The cell in column i and row j.
Covers(r, i, j) == r.x <= i /\ i < r.x + r.width /\ r.y <= j /\ j < r.y + r.height

\* A cell inside the outer border is in exactly one of the four boxes, and one
\* on it or beyond is in none.
CellShared(interior, boxes, i, j) ==
    LET holds(b) == Covers(boxes[b], i, j)
    IN /\ Covers(interior, i, j) <=> \E b \in 1 .. 4 : holds(b)
       /\ \A b, c \in 1 .. 4 : holds(b) /\ holds(c) => b = c

\* It is so of every cell when it is of those where a box begins or has ended.
Tiled(interior, boxes) ==
    LET rects == {interior} \cup {boxes[b] : b \in 1 .. 4}
    IN \A i \in UNION {{r.x - 1, r.x, r.x + r.width} : r \in rects},
          j \in UNION {{r.y - 1, r.y, r.y + r.height} : r \in rects} :
            CellShared(interior, boxes, i, j)
=============================================================================
