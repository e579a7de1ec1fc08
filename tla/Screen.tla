------------------------------- MODULE Screen -------------------------------
(***************************************************************************)
(* The terminal of the client between games: the loop at the end of        *)
(* disconnected() that feeds keys to the prompt, runs what was entered and *)
(* makes room for the prompt, with the log above it.  Of the commands,     *)
(* /say and /help are here: the others leave the windows alone or log one  *)
(* more message.  The lobby's loop in connected() is the same.             *)
(***************************************************************************)
EXTENDS CommandPrompt, Dispatch, Log, Layout

CONSTANTS
    Sizes,          \* <<columns, rows>> the terminal may have
    SayName, HelpName, HelpText, Complaint, Welcome, Author,
    MaxLen, MaxLog  \* bounds: characters in the prompt, messages in the log

VARIABLES
    log,
    size,      \* of the terminal
    boxes,     \* the title's, the log's, the prompt's and the players', as last laid out
    resized,   \* whether the terminal has ever been resized
    mode       \* "TYPING", "THROWN": draw() threw, "ASTRAY": it popped an empty stack

vars == <<prompt, log, size, boxes, resized, mode>>

PromptWindow == Inner(boxes[3])
LogWindow(b) == Inner(b[2])

LaidOut(s, lines) == Boxes(s[1], s[2], lines)

\* A prompt with no room has its own early returns, which are left out.
ASSUME SizesAssumption ==
    \A s \in Sizes :
        LET w == Inner(CommandBox(s[1], s[2], 1))
        IN s \in Nat \X Nat /\ w.width >= 1 /\ w.height >= 1

\* The texts that are not typed are texts, and what the program says is not empty.
ASSUME TextAssumption ==
    /\ \A text \in {Welcome, HelpText, Complaint, Author} : text \in Seq(Range(text))
    /\ <<>> \notin {Welcome, HelpText, Complaint}

Init ==
    /\ PromptInit
    /\ log = <<Unauthored(Welcome)>>
    /\ size \in Sizes
    /\ boxes = LaidOut(size, 1)
    /\ resized = FALSE
    /\ mode = "TYPING"

\* Mutant: the count is capped at the height, one line earlier.
height_change_early ==
    \E lines \in {line_count(command', PromptWindow.width)} :
        LET seen == Capped(lines, PromptWindow.height)
        IN IF seen = last_count THEN UNCHANGED <<last_count, boxes>>
           ELSE last_count' = seen /\ boxes' = LaidOut(size, lines)

\* height_change(height() + 1), and split3 laid out again when it says so.
height_change ==
    \E lines \in {line_count(command', PromptWindow.width)} :
        LET seen == Capped(lines, PromptWindow.height + 1)
        IN IF seen = last_count THEN UNCHANGED <<last_count, boxes>>
           ELSE last_count' = seen /\ boxes' = LaidOut(size, lines)

\* The mode after the log was drawn in any of these layouts.
Drawn(messages, layouts) ==
    IF \E b \in layouts : DrawThrows(messages, LogWindow(b)) THEN "THROWN" ELSE "TYPING"

\* Any key but enter.
Type ==
    /\ mode = "TYPING"
    /\ Len(log) < MaxLog
    /\ Edit
    /\ Len(command') <= MaxLen
    /\ Follow(PromptWindow.width, PromptWindow.height)
    /\ height_change
    /\ mode' = Drawn(log, {boxes'} \ {boxes})
    /\ UNCHANGED <<log, size, resized>>

\* What /say logs of its arguments.
Joined(args) == FlattenSeq([i \in DOMAIN args |-> IF i = 1 THEN args[i] ELSE <<Space>> \o args[i]])

Answers(entry) ==
    CASE entry.kind = "nothing" -> <<>>
      [] entry.kind = "undefined" -> <<Unauthored(Complaint \o entry.name)>>
      [] entry.kind = "say" \/ (entry.kind = "command" /\ entry.name = SayName) ->
            <<Authored(Author, Joined(entry.args))>>
      [] OTHER -> <<Unauthored(HelpText)>>

\* The log is drawn when it has a new message and when split3 is laid out.
Enter ==
    /\ mode = "TYPING"
    /\ Len(log) < MaxLog
    /\ clear_command
    /\ height_change
    /\ \E answers \in {Answers(dispatch_command(command, {SayName, HelpName}))} :
        log' = log \o answers /\ mode' = Drawn(log \o answers, {boxes, boxes'})
    /\ UNCHANGED <<size, resized>>

\* KEY_RESIZE in root_get_char: everything is laid out and drawn again.  The
\* prompt counts its lines by the width it had, and keeps its offset.
Resize ==
    /\ mode = "TYPING"
    /\ \E s \in Sizes \ {size}, lines \in {line_count(command, PromptWindow.width)} :
        size' = s /\ boxes' = LaidOut(s, lines)
    /\ resized' = TRUE
    /\ mode' = IF Drawn(log, {boxes'}) = "THROWN" THEN "THROWN"
               ELSE IF offset > line_count(command, PromptWindow'.width) THEN "ASTRAY"
               ELSE "TYPING"
    /\ UNCHANGED <<prompt, log>>

Next == Type \/ Enter \/ Resize

Spec == Init /\ [][Next]_vars

-----------------------------------------------------------------------------
(* What holds of the screen. *)

TypeOK ==
    /\ PromptTypeOK
    /\ size \in Sizes
    /\ boxes \in [1 .. 4 -> Rect]
    /\ resized \in BOOLEAN
    /\ mode \in {"TYPING", "THROWN", "ASTRAY"}

\* The line the cursor is on is in the window, however lines were added,
\* wrapped and deleted around it and the window grew and shrank: Follow scrolls
\* by the height the window had before the key (command_prompt.cpp, update),
\* and only then is the window laid out anew.
CursorVisible ==
    ~resized => LET row == CursorRow(command, cursor_pos, PromptWindow.width)
                IN 0 <= offset /\ offset <= row /\ row < offset + PromptWindow.height

\* The prompt has the height its text asks for now, although the loop lays it
\* out only when a capped line count differs from the last one it saw.  A tab
\* that adds two lines to a narrow prompt leaves a count behind that is too low,
\* and the line that is erased next goes unnoticed.
PromptSized ==
    ~resized /\ (PromptWindow.width >= 4 \/ PromptWindow.height <= 2) =>
        boxes = LaidOut(size, line_count(command, PromptWindow.width))

\* get_args, character by character with its two flags, finds the words that
\* quoting and escaping define, for every line that can be typed.
ArgsAgree == get_args(0, command) = Words(command)

\* No line of a message is wider than the log, its indent included, when the
\* log has room for more than the indent.
LinesFit == LogWindow(boxes).width >= 5 =>
    \A i \in DOMAIN log : LinesFitIn(log[i], LogWindow(boxes).width)

\* Wrapping a message loses and repeats no character.
LinesWhole == \A i \in DOMAIN log : LinesHold(log[i], LogWindow(boxes).width)

\* However many lines the prompt asks for, the four boxes share the terminal
\* without a gap or an overlap.
WindowsTiled == Tiled(Interior(size[1], size[2]), boxes)

\* /help shows the help ("- /help - prints the help menu"): drawing it does
\* not throw, whatever was logged before.
HelpIsShown == log[Len(log)] = Unauthored(HelpText) => mode # "THROWN"
=============================================================================
