--------------------------------- MODULE Log ---------------------------------
(***************************************************************************)
(* The log window of log.cpp: messages, their lines in a window, and what  *)
(* draw does with them.  Nothing calls scroll_up or scroll_down, so the    *)
(* scroll offset is 0 and left out, and so is the color of a message.      *)
(***************************************************************************)
EXTENDS Integers, Sequences, SequencesExt

\* Log.message with and without an author.
Unauthored(text) == [text |-> text, authored |-> FALSE, author_length |-> Len(text)]
Authored(author, text) ==
    [text |-> <<"[">> \o author \o <<"]", ":", " ">> \o text,
     authored |-> TRUE, author_length |-> Len(author)]

\* Mutants: a wrapped line loses a character; the indent is not taken off.
LineShort(m, start, end) ==
    [begin |-> start, length |-> IF end < Len(m.text) THEN end - start - 1 ELSE end - start,
     indent |-> start > m.author_length]
RoomUnindented(m, start, width) == width

\* A line from position `begin`; `indent` puts four blanks before it.
Line(m, start, end) ==
    [begin |-> start, length |-> end - start, indent |-> start > m.author_length]

\* The room in a line; less than nothing wraps around and is no limit.
Room(m, start, width) ==
    LET left == IF start > m.author_length THEN width - 4 ELSE width
    IN IF left < 0 THEN Len(m.text) + 1 ELSE left

\* The lines of a message.  The loop steps over the character after a new line
\* without looking at it.
LinesOf(m, width) ==
    LET n == Len(m.text)
        from[at \in (0 .. n) \X (1 .. n + 1)] ==
            LET start == at[1]
                end == at[2]
            IN IF end > n THEN <<>>
               ELSE IF end < n /\ m.text[end + 1] = "newline"
                   THEN <<Line(m, start, end)>> \o from[<<end + 1, end + 2>>]
               ELSE IF end - start >= Room(m, start, width)
                   THEN <<Line(m, start, end)>> \o from[<<end, end + 1>>]
               ELSE IF end = n THEN <<Line(m, start, end)>>
               ELSE from[<<start, end + 1>>]
    IN from[<<0, 1>>]

\* The lines of the whole log, each with its message, oldest first.
LogLines(log, width) ==
    FlattenSeq([i \in DOMAIN log |->
        LET lines == LinesOf(log[i], width)
        IN [j \in DOMAIN lines |-> [message |-> log[i], line |-> lines[j]]]])

\* How many characters of the author's name are still to be drawn after this
\* line, when it has none of its own before it.
StillOwed(shown, owed) ==
    LET line == shown.line
        m == shown.message
    IN IF line.begin = 0
         THEN LET length == line.length - (IF m.authored THEN 1 ELSE 0)
              IN IF length > m.author_length THEN 0 ELSE m.author_length - length
       ELSE IF line.length > owed THEN 0 ELSE owed - line.length

\* out.substr(line.begin, ...) on a string that holds this line only.
Overruns(shown, owed) ==
    LET out == shown.line.length + (IF shown.line.indent THEN 4 ELSE 0)
        from == IF shown.line.length > owed THEN shown.line.begin + owed ELSE shown.line.begin
    IN shown.line.begin > 0 /\ owed > 0 /\ from > out

\* draw goes from the bottom of the window up and takes what a line leaves of
\* the name to the line above it, which may be of an older message.
DrawThrows(log, window) ==
    LET lines == LogLines(log, window.width)
        top == IF Len(lines) > window.height THEN Len(lines) - window.height + 1 ELSE 1
        throws[i \in 0 .. Len(lines), owed \in Nat] ==
            i >= top /\ (Overruns(lines[i], owed) \/ throws[i - 1, StillOwed(lines[i], owed)])
    IN window.width > 0 /\ window.height > 0 /\ throws[Len(lines), 0]

-----------------------------------------------------------------------------
\* Every line fits in the window, with its indent (message, width at least 5).
LinesFitIn(m, width) ==
    \A i \in DOMAIN LinesOf(m, width) :
        LET line == LinesOf(m, width)[i]
        IN line.length + (IF line.indent THEN 4 ELSE 0) <= width

\* The lines hold every character once and in order, but for the new lines
\* between them.
LinesHold(m, width) ==
    LET lines == LinesOf(m, width)
        end(i) == lines[i].begin + lines[i].length
    IN /\ lines[1].begin = 0
       /\ \A i \in 1 .. Len(lines) - 1 :
            lines[i + 1].begin \in {end(i)} \cup
                (IF m.text[end(i) + 1] = "newline" THEN {end(i) + 1} ELSE {})
       /\ end(Len(lines)) \in {Len(m.text)} \cup
            (IF m.text[Len(m.text)] = "newline" THEN {Len(m.text) - 1} ELSE {})
=============================================================================
