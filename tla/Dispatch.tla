------------------------------ MODULE Dispatch ------------------------------
(***************************************************************************)
(* What an entered line means: dispatch_command, Command.matches and       *)
(* get_args of sabakurai.cpp.                                              *)
(***************************************************************************)
EXTENDS Integers, Sequences, FiniteSets, SequencesExt, FiniteSetsExt, Ascents

Slash == "/"
Quote == "\""
Escape == "\\"
Blanks == {" ", "newline"}

\* The word after the slash ends at a space; a new line does not end it.
NameEnd(raw) == Min({Len(raw)} \cup {q \in 1 .. Len(raw) - 1 : raw[q + 1] = " "})

\* Mutant: the character after an escape escapes too.
ArgStepSticky(st, c) ==
    IF st.escaped THEN [st EXCEPT !.arg = Append(@, c)]
    ELSE IF c = Escape THEN [st EXCEPT !.escaped = TRUE]
    ELSE IF c = Quote THEN [st EXCEPT !.quoted = ~@]
    ELSE IF c \in Blanks /\ ~st.quoted THEN
        IF st.arg = <<>> THEN st ELSE [st EXCEPT !.args = Append(@, st.arg), !.arg = <<>>]
    ELSE [st EXCEPT !.arg = Append(@, c)]

\* One character of get_args.
ArgStep(st, c) ==
    IF st.escaped THEN [st EXCEPT !.arg = Append(@, c), !.escaped = FALSE]
    ELSE IF c = Escape THEN [st EXCEPT !.escaped = TRUE]
    ELSE IF c = Quote THEN [st EXCEPT !.quoted = ~@]
    ELSE IF c \in Blanks /\ ~st.quoted THEN
        IF st.arg = <<>> THEN st ELSE [st EXCEPT !.args = Append(@, st.arg), !.arg = <<>>]
    ELSE [st EXCEPT !.arg = Append(@, c)]

get_args(start, raw) ==
    LET end == FoldLeft(ArgStep, [args |-> <<>>, arg |-> <<>>, quoted |-> FALSE, escaped |-> FALSE],
                        SubSeq(raw, start + 1, Len(raw)))
    IN IF end.arg = <<>> THEN end.args ELSE Append(end.args, end.arg)

\* Where a line goes: said as it stands, without the first of two slashes, to
\* the command of that name with its arguments, or nowhere.
dispatch_command(raw, names) ==
    IF raw = <<>> THEN [kind |-> "nothing"]
    ELSE IF raw[1] # Slash THEN [kind |-> "say", args |-> <<raw>>]
    ELSE IF Len(raw) > 1 /\ raw[2] = Slash THEN [kind |-> "say", args |-> <<Tail(raw)>>]
    ELSE LET end == NameEnd(raw)
             word == SubSeq(raw, 2, end)
         IN IF word \in names
              THEN [kind |-> "command", name |-> word, args |-> get_args(end + 1, raw)]
              ELSE [kind |-> "undefined", name |-> word]

-----------------------------------------------------------------------------
(* The words of a line by what each of its characters is. *)

\* Preceded by an odd number of escapes in a row.
Escaped(s, p) ==
    (p - 1 - Max({0} \cup {q \in 1 .. p - 1 : s[q] # Escape})) % 2 = 1

Quoted(s, p) ==
    Cardinality({q \in 1 .. p - 1 : s[q] = Quote /\ ~Escaped(s, q)}) % 2 = 1

Separates(s, p) == s[p] \in Blanks /\ ~Escaped(s, p) /\ ~Quoted(s, p)

Kept(s, p) == Escaped(s, p) \/ (s[p] \notin {Escape, Quote} /\ ~Separates(s, p))

\* The kept characters between separators, where there are any.
Words(s) ==
    LET kept == {p \in DOMAIN s : Kept(s, p)}
        before(p) == Cardinality({q \in 1 .. p - 1 : Separates(s, q)})
        groups == {before(p) : p \in kept}
    IN At([g \in groups |-> At(s, {p \in kept : before(p) = g})], groups)
=============================================================================
