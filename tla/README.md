# Verification of sabakurai

sabakurai is a typing race over TCP. `saba` (C) is the server: a pool of
connections, one handler per packet, and a main loop that ticks 60 times a
second and decides when a race starts and ends. `sabakurai` (C++) is the client:
a terminal program that is disconnected, in the lobby or in a race. This
directory holds TLA+ models of both programs and of the two together, the TLC
configurations that check them, and proofs that TLAPS checks. Paths below are
relative to the repository; the two programs are under `src/src/` of the tree
`PROJECT.json` refers to, so `saba.c` is `src/src/saba.c` there.

## 1. Inventory

### Components

| component | files | state | operations | modelled in |
|---|---|---|---|---|
| connection pool | `server.c`, `server.h` | `ServerSession.clients`: a socket or 0 per slot | accept a connection, read a packet, notice a closed peer, broadcast, wait one tick period | `Saba`, `Sabakurai` |
| callbacks and main loop | `saba.c` | `currentState`, `startTimer`, the four counters, the text | `newConnectionCB`, `packetRecievedCB`, `disconnectCB`, `startGame`, `endGame`, one tick | `Saba`, `GameRoom`, `SabaHistory` |
| packet handlers | `packetHandlers.c` | the `Player` of a slot, winner, timeout | one `ph...` function per packet type | `Saba` |
| client mode machine | `sabakurai.cpp` | which of `disconnected`, `connect`, `connected`, `playing` runs; the socket | commands, one read per cycle, keys of the race | `Kurai` |
| lobby list | `player_list.cpp` | rows of id, name, ready, spectate; the client itself first | add, remove, find, toggle, rename, clear | `Kurai` |
| race view | `playing.cpp` | racers with status and progress; own progress | feed a key, relay, finish, disconnect, draw | `Kurai` |
| client socket | `socket.cpp` | a TCP stream | connect, send, read, close | `Kurai`, `Sabakurai` |
| the two over TCP | all of the above | streams of packets, listen backlog | delivery, coalesced reads, closed ends | `Sabakurai` |
| command prompt | `command_prompt.cpp` | a text of several lines, a cursor, lines scrolled out, the last line count | one per key, clear, count lines | `CommandPrompt`, `LineEditor`, `Screen` |
| command parsing | end of `sabakurai.cpp` | none | `dispatch_command`, `get_args`; `get_color` and `get_ip` are left out | `Dispatch`, `Screen` |
| log window | `log.cpp` | messages | append, wrap, draw; scrolling is never called | `Log`, `Screen` |
| layout | `window.cpp`, `box.cpp`, `split.cpp`, `title.cpp` | sizes of nested windows | lay out, resize | `Layout`, `Screen`; ncurses external |
| sleep | `sleep.c` | none | one system call | not modelled |
| unused programs | `brap_sabakurai.cpp`, `kurai.cpp`, `kurai_brap.c`, `metestkurai.c`, `key_test.cpp`, `socket.c` | | earlier clients; neither program links them | not modelled |

### How they interact

The server is one thread. `processActivityTimed` calls `select`, then
`checkRequests` (at most one `accept`) and `checkMessages` (one `read` per ready
socket), which call the three callbacks; it returns when the tick period is used
up, and `main` then does one tick. A callback runs to its end before the next,
so nothing inside the server is interleaved: what is hard is the *sequence* of
callbacks and ticks. A slot of `clients[]` is also the index of `players[]` and
the id of the player in the protocol; slots are reused, lowest first.

A client is one thread too. It loops every 15 ms, handles at most one key or
command and at most one packet. It talks to the server only; every change goes
to the server and comes back as a broadcast, and the client's list and race view
are replicas kept up by those broadcasts alone.

### What is hard

* The main loop decides on `numPlayers`, `numReady`, `numSpectators` and
  `numCompleted`, which every handler, two kinds of departure and two resets
  adjust by one each. No handler but `phOnConnect` and `phDisconnect` looks at
  `currentState`.
* Slots change owners while a race is on; the clients know players by slot.
* A client in the lobby reads START some time after the server has started; in
  between it sends lobby packets, and both sides' packets reach the other in a
  mode that was not expecting them. The protocol has no lengths: a type that the
  mode does not know leaves the rest of the packet to be read as further types.
* Broadcasts go to every connection, also to those that have not said their
  name and wait for their snapshot.
* One `read` may return several packets; the server serves the first.
* The list is thrown away at GAME_OVER and rebuilt from the race view.
* The timer is driven by `select`, stops at 0 or -1 and is shared by the
  countdown and the end of the race.
* The prompt changes its text, its cursor, its scrolling and its line count at
  four places, by the size of a window that is laid out anew because of them.
* Drawing the log carries a count from a line to the line above it, which may
  belong to another message.

`PROJECT.json` lists these hazards line by line, with the properties aimed at
each.

### What makes the components correct

Server: two slots never share a socket; the counters are the cardinalities they
stand for; a newcomer inherits nothing; a race starts only with someone to race
and everyone counted as ready; it ends after a finish or when nobody is left,
and does end; a snapshot says what is so. Client: its mode follows the server's
phase, its list is the server's player table, its own flags are the server's, its race
view shows how far the others are. Together: whoever has read everything the
server sent agrees with the server. Screen: the cursor is in the text and
visible, keys edit where it is, windows share the terminal, a command gets the
arguments that were typed, and the log shows all of each message.

## 2. Modules

| module | what it is |
|---|---|
| `GameRoom` | the abstract room: members, watchers, racing or not, finishes |
| `Saba` | the server; `Spec` with everything, `RoomySpec` without an overfull pool, `PromptSpec` with reports in time |
| `SabaHistory` | `Saba` with a history variable: who has finished the current race |
| `Kurai` | all clients, as actions on their modes, lists, race views and streams |
| `Sabakurai` | `Saba` composed with `Kurai` over TCP |
| `LineEditor` | the abstract prompt: text before and after a cursor |
| `CommandPrompt` | the prompt: its keys, lines, scrolling |
| `Dispatch` | what an entered line means, and a reference definition of its arguments |
| `Log` | messages, their lines, and what drawing them does |
| `Layout` | the rectangles of boxes and splits |
| `Screen` | prompt, dispatch, log and layout composed: the terminal outside races |
| `MCSaba`, `MCSabaHistory`, `MCSabakurai`, `MCScreen` | bounds and symmetry for TLC |
| `Ascents` | the elements of a finite set of numbers in ascending order, for `Kurai`, `Dispatch` and the proofs |
| `OrderProofs` | lemmas on `Ascents`, `Max`, `Min` and sequences |
| `SabaProofs` | theorems about `Saba`: types, counters, the ready count, the timer and the room |
| `KuraiProofs` | types of the clients and of what is in flight; what `Saba`'s handlers send |
| `SystemProofs` | theorems about `Sabakurai`: the server in it, phases, finishes |
| `ViewProofs` | what the packets let a client know, and that lists and race views render it |
| `RosterProofs` | theorems about `Sabakurai`: lookups, rosters, ready flags, sides |
| `FinishProofs` | theorem about `Sabakurai`: the victor of a race |
| `ScreenProofs` | theorems about `CommandPrompt`, `Dispatch`, `Log`, `Layout` and `Screen` |

### Saba

One action per callback and per handler, named as in the code; `Tick` is the
body of `main`'s loop after `processActivityTimed`, split by its conditions into
`TickRacing`, `TickCountdown`, `TickUnready`, `TickNobody`. Variables are the fields
of `GameData` and `ServerSession`. `sent` is what the last step wrote to each
socket; the composition appends it to the streams and the snapshot properties
read it.

Details of the code that are kept on purpose:

* `disconnectCB` and `phDisconnect` zero `clients[c]` and leave the slot's name,
  progress and side; `Accept` (that is, `newConnectionCB`) resets them.
* `startGame` and `endGame` set `progress` of *every* slot, connected or not.
* `numReady` is not reset at the start of a race, only at its end.
* `TEXT_SET` stores the file number in `text_size`, which is the length of the
  text during a race.
* `winner` starts as 0 and is not reset between games.
* `data[1] << 8 + data[2]` parses as a shift by `8 + data[2]`. Progress below 256
  has a zero high byte and is stored as 0; larger progress as 0 or something else.
  The shifts of `phCompletedText` have the same slip. `StoredProgress` and
  `StoredTimes` are those outcomes.
* With every slot in use, `checkRequests` runs off the loop and calls
  `newConnectionCB` with `maxClients`. `AcceptOverflow` is what its four stores do
  to the counters behind the array on a 64-bit build.

What is abstracted: a name, a color and a text are model values; `finishTime`,
which no decision reads, is left out; `progress` is -1, 0 or 1 ("other"). Failing
system calls and their returns from `main` are left out.

### Kurai

`mode` says which function the client is in: `DISCONNECTED`, `CONNECTING` (blocked on
the first byte after `/connect`), `LOBBY` or `PLAYING`. `list` is `PlayerList.players`,
`race` is `Playing`. One read of one packet is one action, one command is one
action, one key of the race is one action; a command that the client's own flag
refuses (`/ready` when ready) is not enabled, as in the code.

Two modes stand for what the code does not survive. A client that reads a packet
its mode does not know is `GARBLED`: it took the first byte for a type and will take
the next field for another. A client whose `find_player` does not find runs past
the end of a vector and is `ASTRAY`. The model says nothing of what such a client
does afterwards except that it may be killed; properties that hold for clients in
step must not depend on the others, and the server serves it like anyone.

`Quit` is both `/quit` and a process that is killed: the connection closes without
a word. In a race `victor` and `victor_time` are `playing`'s two locals, -1 when
there is none; a client that joins a race takes the snapshot's winner as an
unsigned byte. Wrong keys (`incorrect`), the clock and colors are left out: a wrong
key tells nobody anything. A connection to a second server is left out: there is
one.

### Sabakurai

`up[s]` and `down[s]` are the packets in flight on connection `s`, `backlog` the
connections that the kernel holds for `accept`, `hungup` those whose client end is
closed. `ServerReads` takes one to `MaxCoalesce` packets off a stream and serves the
first, which is what `length -= length` in `packetRecievedCB` amounts to. A connection
that is hung up is first read to its end and then dropped. What is sent to a closed
or lost client vanishes.

The pool is never overfull here: a connection waits in the backlog for a free
slot. `JoinPhases` says in which phases the server takes connections in; with
`{0}` only in the lobby. `Commands` is the set of commands the users give. Both are
how the runs below are cut to size.

### Screen

`Type` is one key, `Enter` the enter key, `Resize` a `KEY_RESIZE`: each is a turn of the
loop at the end of `disconnected` (the one in `connected` is the same), with all that
follows the key in the code: `Follow` is the end of `update`, `height_change` compares the
capped line count with the last one and lays `split3` out anew, and the log is drawn
where the code draws it. `Enter` dispatches what was typed to two commands, `/say` and
`/help`, and logs what they or an undefined name log. The other commands log one more
message of the same kinds or none.

`Layout` computes the four boxes as the callbacks of `main` do, `Log` the lines as
`draw` does (its loop steps over the character after a new line), with the sole effect
of `draw` that matters: whether one of its `substr` calls throws. `mode` is `THROWN` then,
which ends the program, and `ASTRAY` when `CommandPrompt::draw` would pop more lines off
its stack than it has, after a resize. Details kept on purpose: `cursor_position` wraps a
line one character later than `line_count`; `KEY_UP` takes a new line at position 0 for
the start of the text; `Resize` counts lines by the width the prompt had; the word of a
command ends at a space only. A tab key inserts blanks, so no tab reaches the log.

### GameRoom

Five lines of promise: members come and go, may watch, whoever comes during a race
watches it, a race starts with somebody to race, ends only after a finish or
when nobody is left to race. `RoomView` reads it off `Saba`'s slots and counters.

## 3. What is checked

Each property has a mutant of the code in `PROJECT.json` that breaks it. Bounds
of the server runs: two slots, two sockets, one name and color, at most
`MaxReports` finishes counted, `numReady` at most `MaxDrift` outside the number of
slots, and a tick of one second (or half a second), so that the countdown is
three ticks (or six). Two slots are enough for the interesting cases of one slot
that is reused while the other stays, of one player ready and one not, of one
spectator and one participant; the counters are proved for any number. The two
bounds restrict packets, never ticks. `saba_open` has two texts, one of them chosen by
TEXT_SET, and progress that is stored as something other than 0. `saba_prompt` has a
timeout of five ticks, longer than the countdown as in the program (60 seconds and 3):
what a race leaves of its timer could then outlast a countdown.

| run | specification | shows |
|---|---|---|
| `saba_open` | `RoomySpec` | types, distinct sockets, counters, fresh newcomers, a chosen text that exists, snapshots that count their entries, under every packet at any time: late reports, toggles during races, both departures |
| `saba_prompt` | `PromptSpec` | the ready count, the cause of the timer and its bound; the refinement `ImplementsRoom`; `StartCountsReady`; a race with a finisher ends; a lobby that stays ready starts |
| `sabakurai_roster` | composition | two clients that come in the lobby, get ready and unready, race, disconnect and are killed at any point: phases, rosters, ready flags agree, a finish counts, progress is seen, no lookup fails |
| `sabakurai_join` | `SettledSpec` | clients that join in the lobby or during a race, set the text and the timeout, and finish a text of two keys with different times: the same agreement, and the fastest of those a client saw finish is its victor |
| `sabakurai_commands` | composition | every other lobby command, quits and reconnections: rosters and sides agree, no lookup fails |
| `screen` | `Screen` | up to four characters on three terminals that are resized into each other: the cursor is visible, the prompt has its size, keys edit and move as they should, arguments agree with their definition, log lines fit and are whole, windows tile |
| `saba_overflow` | `Spec` | violated: a third connection to a pool of two overwrites the counters |
| `saba_premature` | `HistorySpec` | violated: a finisher leaves, its finish stays counted, and the race ends before the timeout and before the other has finished |
| `saba_winner` | `RoomySpec` | violated: a snapshot in a first race nobody has finished says that player 0 has won |
| `sabakurai_framing` | composition | violated: two clients connect, and the one still waiting for its snapshot takes the CONNECT of the other for it |
| `sabakurai_coalesced` | composition | violated: a COMPLETED_TEXT read together with the progress before it is dropped |
| `screen_help` | `Screen` | violated: after a message of two lines drawing the help throws `std::out_of_range`, which nothing catches |

The composed runs have two clients, two connections, one packet in flight to the
server per connection (two in `sabakurai_coalesced`) and two or three to a client:
a lobby packet and the START or GAME_OVER that it crosses fit, and so do a
snapshot and the CONNECT that follows it. One second is one tick. The text is
one byte long, so that a race is short; it is three in `sabakurai_roster` and two in `sabakurai_join`, where progress
is told before the finish, and two in one of the two texts of `sabakurai_coalesced`. They state no liveness.
None of the server's or the composed runs switches the deadlock check off: the server
can always tick, and a client can always read what is under way to it. Clients,
connections and names are interchangeable, which the symmetry uses.

`screen` types an `s` (the name of `/say`), a slash, a blank, a quote and a backslash next to
tabs and new lines, at most four characters at a time, and keeps two messages. Its
terminals are the smallest with a prompt of three columns and up to two lines, of six and
one, and of four and up to four, so that lines wrap, scroll and are cut at the limit
of the window; resizing keeps the text, and `ss` is the name of `/help`. It does stop: when
the log is full and when the program has ended.

"Caught up" in the properties of the composition means that the client has read
everything sent to it since its snapshot. Agreement cannot be asked of a client
with packets under way, and must not be asked of one that is garbled.

### What the runs leave out, and what it hides

The passing composed runs keep to some discipline, and without it their properties
fail in the code, each in a way TLC shows at once when the bound is lifted:

* Commands `ready` together with `spectate`: on RELAY_SPECTATE a client clears its
  ready flag (`sabakurai.cpp`, `connected`), the server does not, so `ReadyAgrees` fails
  and the next `/ready` makes the server think the player unready.
* `JoinPhases = {0, 1}` with `quit`: a slot that changes hands twice in one race has
  two racers with one id on the other clients; `get_player` returns the first, the
  departure of the second is booked on it, and the second stays on the list after
  the race (`RosterAgrees` fails).
* `JoinPhases = {0, 1}` and `SidesAgree`: a spectator types like everyone, its
  COMPLETED_TEXT makes its status COMPLETED, and the rebuilt list shows a
  participant where the server keeps a spectator.
* Two connections without a name at once, or `MaxCoalesce = 2`: the runs
  `sabakurai_framing` and `sabakurai_coalesced`.
* `disconnect` with `spectate`: a client keeps its side over a reconnection and does
  not read it from its own entry of the snapshot, the server makes every newcomer
  a participant; `SidesAgree` fails, and `/partake` makes the player a spectator to the
  server. `sabakurai_commands` therefore lets clients quit, not disconnect.
* `quit` in `sabakurai_join`: when the victor leaves, `playing` forgets the finish of
  everyone else, and `BestFinishWins` fails.
* Races that do not start settled: a report that is still under way when the next race
  starts is taken for one of that race. With texts of two keys a late finish makes a
  racer COMPLETED, its next report of progress overwrites the time, and
  `BestFinishWins` fails. `SettledSpec` therefore lets a race start only when no packet
  of the race before is under way, that is, when none takes longer than the lobby
  and the countdown of three seconds. It is a premise about the network and the
  clients' 15 ms loop, not something the code checks.
* `Indices` past 255: a progress of 256 keys or more may be stored as something other
  than 0 (`StoredProgress`); if such a report is late and read in the lobby, the next
  toggle turns it to 0, ready, where the clients unset the flag, and `ReadyAgrees` fails.
* `RivalsSeeProgress` with joins during a race: a newcomer starts from the progress of
  the snapshot, which `data[1] << 8 + data[2]` has made 0.
* A ready player who becomes a spectator counts in `numReady` and in `numSpectators`,
  so a race may start with a participant who is not ready. `StartCountsReady` says
  exactly how many: as many as there are ready spectators.
* One more statement of the protocol's documentation does not hold of the
  snapshot: the text length is a file number after a `TEXT_SET` during a race.
* A prompt less than four columns wide, of three lines or more: a tab adds two lines at
  once, `height_change` remembers the count capped by the old height, and does not see
  the next change to that count. `PromptSized` says so in its condition; without it TLC
  finds three characters, a tab and a backspace.
* `RivalsSeeProgress` is silent before the first right key: a report that is late from an
  earlier race may still show.
* Without reports in time (below), a COMPLETED_TEXT that is handled after GAME_OVER
  leaves `numCompleted` at one in the lobby, the timer running and the next race
  short of one finish.

### Reports in time

`PromptSpec` restricts `Saba` by one assumption: a SEND_PROGRESS or COMPLETED_TEXT is
handled while a race is on. TCP does not give this: a client types until it has read
GAME_OVER, and what it typed since the server sent that arrives afterwards. The
assumption is stated as a guard of `PromptNext` and nowhere else, so every result
says whether it needs it. `TypeOK`, `SocketsDistinct`, `TalliesAgree` and
`NewcomersFresh` do not; the ready count, the timer, the room and the liveness do.
The composition makes no such assumption.

### Fairness

`WF_vars(Tick)`, nothing else. On Linux `select` takes the time it waited off the
timeout it was given, `processActivityTimed` loops on what is left, so the period
runs out however busy the sockets are and `main` ticks. Nothing is assumed of
the clients: no packet, connection or departure has to come. `FinishedRaceEnds`
therefore rests on the timeout; `ReadyLobbyStarts` says that a lobby does not stay
forever in a state where everyone is counted ready, which toggling may postpone.

## 4. What is proved

TLAPS checks the theorems about the server for every pool size, tick rate, set of inputs and timeout that
meets the assumptions of `Saba` (`SlotsAssumption` to `WireAssumption`: a positive pool,
a socket value for "none", texts with positive lengths, a tick of at most a second),
and those about the composition for every number of clients and connections besides
(`IndexAssumption`: a client's reports are positions in a text or the time of its finish;
`CoalesceAssumption`: a read returns one packet at least). Those about the screen hold for every set of
characters and terminals that meets `SizesAssumption`: a prompt of one cell at least.

| theorem | statement | needs |
|---|---|---|
| `TypeCorrect`, `RoomyTypeCorrect` | `TypeOK` is invariant, of the overfull pool too | |
| `RoomySocketsDistinct` | no two slots hold one socket | room |
| `RoomyTalliesAgree` | `numPlayers`, `numSpectators` are cardinalities | room |
| `RoomyNewcomersFresh` | a connection without a name carries nothing over | room |
| `RoomyChosenTextExists` | the text the lobby has chosen is a file | room |
| `RoomySnapshotCountsEntries` | a snapshot announces as many entries as it carries | room |
| `PromptReadyTally` | `numReady` is right in the lobby | room, reports in time |
| `PromptTimerHasCause` | a game timer means a finish; none outlives its game | room, reports in time |
| `PromptLobbyTimerBounded` | the lobby's timer is at most the countdown | room, reports in time |
| `PromptStartCountsReady` | a start has as many unready participants as ready spectators | room, reports in time |
| `PromptImplementsRoom` | `PromptSpec` implements `GameRoom` | room, reports in time |
| `ServerIsSaba` | the composition implements `RoomySpec` | |
| `SystemTallies` | sockets, counters and newcomers as above, in the composition | |
| `SystemPhasesAgree` | a client that is caught up is in the mode of the server's phase, with the id of its slot | |
| `SystemFinishCounted` | a finish that was sent and read counts | one packet to a read |
| `SystemNoneAstray` | no lookup of a client fails | stable slots |
| `SystemRosterAgrees` | the list of a client that is caught up is the server's player table | stable slots |
| `SystemOrderlyReady` | ... with the server's ready flags | stable slots, plain flags, switchers unready |
| `SystemReadyAgrees` | the same | stable slots, one-byte reports, no `/spectate` or `/partake` |
| `SystemSidesAgree` | ... with the server's sides | stable slots, no `/disconnect`, finishers race |
| `SystemBestFinishWins` | nobody a client saw finish was faster than its victor | nobody leaves, races start settled |
| `CellsShared` | the four boxes share the cells of the terminal | |
| `ScreenTypeCorrect` | the cursor is in the text, the boxes have natural sides | |
| `ScreenWindowsTiled` | the boxes tile whatever is typed and resized | |
| `ScreenEditsLine` | `Screen` implements `LineEditor` | |
| `ScreenVerticalMoves` | `KEY_UP` and `KEY_DOWN` go where they should | |
| `ScreenCursorVisible` | the cursor's line is in the window until the terminal is resized | |
| `ScreenPromptSized` | the prompt has the height its text asks for, likewise, if it is four columns wide or has two lines at most | |
| `ScreenArgsAgree` | `get_args` finds the words of every line | |
| `ScreenLinesWhole` | the lines of a logged message hold each character once and in order | |
| `ScreenLinesFit` | ... and fit in a log five columns wide | |

"Room" is `RoomySpec`: the pool is never overfull. "Stable slots" is `SlotsStable` of
`RosterProofs`: nobody comes in during a race, or nobody ever leaves. Each of the three
passing composed runs is an instance of it, and it cannot be dropped: with joins in
a race and `quit`, `RosterAgrees` fails (section 3). The disciplines of the flags are about
what players do, so they are premises on the behaviour (`[]FlagsPlain` and so on), each of
which section 3 shows to be needed: "plain flags" is that in the lobby `progress` is -1 or 0,
"switchers unready" that whoever is about to change sides is not ready, "finishers race"
that a spectator's text is not read as complete. Where the constants alone enforce the
first two, `SystemReadyAgrees` has no premise on the behaviour: reports fit one byte
(`OneByteReports`) and the commands that change sides are not given (`NobodySwitches`).
"Nobody leaves" is that `disconnect` and `quit` are not given, "races start settled" the
specification `SettledSpec`; section 3 shows that neither can be dropped.

*Types* (`SabaProofs`, first part): one lemma per handler, on the way one about what a
broadcast and a snapshot send.

*Counters* (`SabaProofs`, second part): `TallyInv` is `TypeOK`, `SocketsDistinct`, `TalliesAgree`
and `NewcomersFresh` together. `TalliesAgree` is not inductive alone: `phOnConnect`
adds a player whose side was set when the connection came in, so the count of
spectators is right only if that side was reset, which is `NewcomersFresh`; and that
a slot which `disconnectCB` frees does not leave the counts of others alone without
types. The step is shown on the sets `Players`, `Spectators` and `ReadyPlayers` (how each
operation changes them) and then on their cardinalities.

*Ready count, timer and room* (`SabaProofs`, last part): `PromptInv` is `TallyInv`, `ReadyTally`
and `TimerHasCause`. A toggle during a race may carry `numReady` anywhere, but no
theorem needs it there, since `endGame` resets it together with all `progress`.
`StartCountsReady` is counting: players are participants and spectators, ready or
not, and `numReady + numSpectators = numPlayers`. The refinement maps each handler
to a step of `GameRoom` or to none; that a race ends with a cause is `TimerHasCause`
for the timer, and for `numCompleted = numPlayers - numSpectators` that either is
positive or both are zero.

*The composition* (`KuraiProofs`, `SystemProofs`): `SystemInv` is `TallyInv`, the types of
clients and streams, and four facts that need each other. `Wired` says who holds which
connection: a client in step holds an open one, two clients never the same, nothing is
under way on a connection before it is open or after its client hung up, and no
parting packet before the client hangs up. `StreamsSound` says of what is under way to
a connection that a snapshot names the slot of that connection and a departure does
not, and that a START carries the length of a text. `OwnIds` is that the client's first row
has the id of its slot, which rests on both; `LengthKnown` that the server always has a
length to send. From `Wired`, a step of the server in the composition is a step of `Saba`
with room, or none (`ServerIsSaba`), so `TallyInv` carries over.

*Phases*: `PhasesTold` says that the last START, GAME_OVER or snapshot under way to a
client, or its mode when there is none, tells the server's phase. Reading takes the
first mark off and adopts it, sending appends, and both keep the last one; a client
with nothing under way then agrees, which is `PhasesAgree`.

*Finishes*: `FinishKept` says of a client that has finished that some finish is counted, or
its own is still on its way up, or a GAME_OVER is on its way down. When a read takes one
packet, what leaves the stream is served; when it takes two, the second is lost, which is
why `SystemFinishCounted` asks for `MaxCoalesce = 1` (`sabakurai_coalesced` is the counterexample).

*Rosters* (`ViewProofs`, `RosterProofs`): a *view* is what the packets so far let a client know: who is in,
under which name, who left during the race, whether a race is on, who is ready and who watches. `Fits` says when a
packet makes sense after a view, `After` what it makes of it, and `Story(q, v, w)` that the
stream `q` leads from `v` to `w`. `Lists` and `Shows` say that a lobby list, or a race view with the
departed in it, is a rendering of a view. The invariant `Told` is that for each client in step
(or about to read its snapshot) some view is what it shows, some view is what the server
has (`Kept`), and what is under way is a story from the one to the other. A read moves the
first view along, a broadcast the second; a lookup never fails because the packet at
the head fits a view in which the player is. Rebuilding the list at GAME_OVER keeps the
racers that have not left: exactly those of the view, unless an id was given away twice in the
race, hence the hypothesis. `Introduces` covers the time before the snapshot.
`RosterAgrees` is `Told` with nothing under way, and a count: distinct ids that are all of
the server's players are as many.

*Flags* (the same modules): every definition has the set `F` of the flags it looks at as a
parameter, of `"ready"` and `"spectate"`, so that `Told({})` is about rosters alone and holds
without any discipline. `ReadyAfter` and `AsideAfter` say what a packet makes of the flags
of a view, and `FlagsFollow` that what the server sends turns a view that has its flags into
one that has them again. Ready flags are compared in the lobby only: the race view has
none, and both ends unset all of them when a race ends (`endGame`, `EndRace`). Sides are
compared throughout. The client's own row is the hard case: a snapshot does not set it, so a
newcomer must be unready and no spectator on both sides (`Alone`). `PlainInv`, that nothing
under way changes sides and `progress` is -1 or 0 in the lobby, gives the two premises of
`SystemOrderlyReady` where the constants enforce them.

*The victor* (`FinishProofs`): `progress` of a racer is a number of keys until its finish
comes, and then a time, so the one thing that can break `BestFinishWins` is a report of
progress that is read after the finish of the same racer. `BestInv` says that the victor
beats every racer of a view who has finished, and is kept by a read only if no such
report comes. The rest of `FinishInv` is why none does. A client is silent after its
finish, so on the way up no progress follows a finish (`UpInv`), and as long as anybody
knows of a finish, or is about to read it, the one who finished has no progress on
its way (`LearnInv`); hence on the way down no progress follows the finish of the same player
(`DownInv`). A client is silent because it is `Done`: its text is complete, or it is back in
the lobby and reads no START (`OverInv`). That a START takes this back is the hard step:
when a race starts settled, no finish is on its way and no client is left in the race before,
since a client that is has its GAME_OVER on its way (`EndsTold`), so the race is over
for nobody (`StartsClear`). No assumption is made on how many packets a read of the
server takes: what it loses is never told to anybody.

*Prompt and screen* (`ScreenProofs`): `Max` and `Min` of the code's
searches exist by the least number principle, which follows from the well-foundedness
of `<` on the naturals; from there each key's target is in the text, and the text before
and after it is what `LineEditor` says. `ScreenInv` is that the cursor is in the text and
the boxes are laid out for the present terminal and *some* positive number of lines: which
number it is says `PromptSized`, and the tiling holds for every one. That it does is
arithmetic: seven rows, three quarters and four fifths are no more than the whole, and a
split gives each cell to exactly one child.

*The visible cursor*: `cursor_position` wraps by one character more than `line_count`, so
it is not obvious that it finds a line of the text at all. `FewerBreaks` maps the m-th wrap of a line
by w + 1 to the m-th by w, m characters earlier, and a new line to itself; the map is
one-to-one, so `RowInText`: the row is between 0 and the last line. `WindowSize` computes the
height from the layout: the lines asked for, up to a limit of the terminal. `Follow` scrolls by
the height before the key; when the window shrinks after that, the new height is the line
count, the row is below it, and the cursor stays visible.

*The height of the prompt*: `height_change` lays the prompt out only when a count, cut to one
more than the height it has, differs from the last one, cut to one more than the height it had
then. `PromptSized` alone is not inductive: `SizedInv` adds that the last count asks for the
height there is, and that from four columns on it is the count of the text, cut likewise.
The step rests on `KeyLines`: a key adds one line at most to a prompt four columns wide,
the width of a tab. What is typed into a line moves no wrap of it but adds those
that fall in as many characters as were typed (`WordLines`); a new line ends a line and gives
the rest of it wraps of its own, which are the old ones moved by what was left of a
row (`NewLineLines`). Both map the breaks of the longer text one-to-one to those of the shorter
and one more, and back. A prompt of two lines at most needs none of this.

*Recursion*: `LinesOf` is a recursive function and `get_args` a fold, so what they return
is that of *some* solution of a recursion, and of nothing in particular unless there is
one. That there is one is proved by the least number principle instead of induction:
`ScanExists`, `FoldExists` and `FlattenExists` extend a solution for k to one for k + 1, so
there is no least k without one. What a solution returns is shown in the same way.
`Found` says of each position of the loop that the lines from there on hold what is left of
the message and fit if the present one does; `FoundStep` is one turn, so there is no last
position where it fails. The text of a message is never empty (`LoggedAlways`), as the code's own texts
are not (`TextAssumption`) and `/say` puts a name before it. `AsRead` says of
the state of `get_args` after k characters that its flags are those of the next character, `arg` is
the word still open and `args` are those that a separator has closed. `Escaped` looks for the
last character that is no escape and `Quoted` counts, so the flags take a lemma each
(`EscapedNext`, `QuotedNext`); the words are subsequences at ascending indices, which grow
at the end (`AtMore`), and the end of a line closes the last one as a separator would
(`AllClosed`).

Model-checked only, and why:

* Liveness (`FinishedRaceEnds`, `ReadyLobbyStarts`): out of the prover's reach, as ENABLED is.
* `RivalsSeeProgress`: it needs the progress of each racer in the views, one packet to a
  read, and that nobody joins during a race.

## 5. Not modelled

What is printed and its colors, the title, the windows of the race and the list of players,
scrolling of the log and the list (nothing calls it), commands that read an
argument they were not given, `get_color`, `get_ip`; wrong keys and the clock of a race;
bytes: the order and the sign of fields, strings that arrive in parts, reads cut at
512 bytes; a server that dies (a `send` to a reset connection raises SIGPIPE); failing
`bind`, `listen`, `select`, `accept`; reading the text files. The programs that no target of
the Makefile links are left aside.

## 6. Plan

In order of what matters for the system:

1. Proofs: `RivalsSeeProgress`, with progress in the views.
2. `Wire`: the arithmetic of fields and strings as operators (signed lengths,
   the shifts, 512-byte reads, three-byte times), checked against the layouts of
   the client and of the README; theorems about round trips on the bytes that do
   survive.
3. `Playing` as a module of its own: wrong keys, words per minute and the widths of the
   bars that `draw` computes from progress.
4. The server that stops: failing sends and accepts, the return of `main`; clients
   that do not notice (they poll a socket that is at its end).
5. Liveness of the composition: with clients that read and type, a race everyone is
   in ends and a lobby where everyone is ready becomes a race.

New modules keep the rules of the present ones: parameters as constants with named
assumptions, no RECURSIVE operator where something is to be proved, one run per
question.
