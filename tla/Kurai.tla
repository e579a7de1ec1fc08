-------------------------------- MODULE Kurai --------------------------------
(***************************************************************************)
(* The clients: the mode machine of sabakurai.cpp (disconnected, connect,  *)
(* connected, playing), the lobby's PlayerList and the race view of        *)
(* Playing, for every client at once.                                      *)
(*                                                                         *)
(* A client is one thread that loops every 15 ms: it runs at most one      *)
(* command or key and reads at most one packet.  Each of these is an       *)
(* action.  A packet is read field by field, so a mode that does not know  *)
(* the packet's type reads one byte and takes the next field for a type:   *)
(* the client is then GARBLED.  A lobby lookup of an id it does not hold   *)
(* runs off the list: the client is then ASTRAY.  Nothing is said of what  *)
(* such a client does, except that it can be killed.                       *)
(*                                                                         *)
(* Colors, the wrong keys and the clock are left out; the windows of the   *)
(* client are modules Screen and Layout.                                   *)
(***************************************************************************)
EXTENDS Ascents, Integers, Sequences, SequencesExt

CONSTANTS
    Clients,      \* the client processes
    Sockets,      \* TCP connections
    NoSocket,
    Names,
    Colors,
    Specials,     \* the file numbers /special knows
    Timeouts,     \* the seconds /timeout is given
    Times,        \* finish times
    Commands      \* the lobby commands the users give

VARIABLES
    mode,      \* which function of sabakurai.cpp the client is in
    socket,    \* its connection
    list,      \* PlayerList.players: the client itself first
    race,      \* the Playing of a client in a race
    up,        \* per connection, the packets the server has not read
    down,      \* per connection, the packets the client has not read
    hungup     \* the connections whose client end is closed

clientVars == <<mode, socket, list, race>>
wires == <<up, down, hungup>>

Modes == {"DISCONNECTED", "CONNECTING", "LOBBY", "PLAYING", "GARBLED", "ASTRAY"}
NoRace == [players |-> <<>>]
NoVictor == -1

\* A row of the lobby's list and one of the race view.
Row(id, name, ready, spectate) ==
    [id |-> id, name |-> name, ready |-> ready, spectate |-> spectate]
Racer(id, name, spectate, progress) ==
    [id |-> id, name |-> name, progress |-> progress,
     status |-> IF spectate THEN "SPECTATOR" ELSE "PARTAKER"]

Self(k) == list[k][1]
Inbox(k) == down[socket[k]]

\* The clients whose process holds a connection, and those lost to it.
Linked(k) == mode[k] # "DISCONNECTED"
Lost(k) == mode[k] \in {"GARBLED", "ASTRAY"}

\* find_player: the first row with that id, or 0 where the code runs on.
RowOf(rows, id) == SelectInSeq(rows, LAMBDA row : row.id = id)

KuraiInit ==
    /\ mode = [k \in Clients |-> "DISCONNECTED"]
    /\ socket = [k \in Clients |-> NoSocket]
    /\ \E own \in [Clients -> Names] :
         list = [k \in Clients |-> <<Row(0, own[k], FALSE, FALSE)>>]
    /\ race = [k \in Clients |-> NoRace]
    /\ up = [s \in Sockets |-> <<>>]
    /\ down = [s \in Sockets |-> <<>>]
    /\ hungup = {}

Send(k, packet) == up' = [up EXCEPT ![socket[k]] = Append(@, packet)]
Consume(k) == down' = [down EXCEPT ![socket[k]] = Tail(@)]

-----------------------------------------------------------------------------
(* Connecting and leaving *)

\* /connect: the name goes out and the client blocks on the first byte.
Connect(k, s) ==
    /\ mode[k] = "DISCONNECTED"
    /\ mode' = [mode EXCEPT ![k] = "CONNECTING"]
    /\ socket' = [socket EXCEPT ![k] = s]
    /\ \E col \in Colors :
         up' = [up EXCEPT ![s] = <<[type |-> "ON_CONNECT", name |-> Self(k).name, color |-> col]>>]
    /\ down' = [down EXCEPT ![s] = <<>>]
    /\ hungup' = hungup \ {s}
    /\ UNCHANGED <<list, race>>

\* Mutant: only the client's own entry is kept.
NoOthers(packet) == <<>>

\* Snapshot entries in id order, without the client's own.
Others(packet) == Ascending(DOMAIN packet.players \ {packet.id})

\* Mutant: the two flags of an entry are read in the other order.
LobbyRowSwapped(packet, id) ==
    Row(id, packet.players[id].name, packet.players[id].spectator = 1,
        packet.players[id].progress + 1 # 0)

LobbyRow(packet, id) ==
    Row(id, packet.players[id].name, packet.players[id].progress + 1 # 0,
        packet.players[id].spectator = 1)

\* Mutant: the client keeps the id of its last connection.
EnterLobbyKeepingId(k, packet) ==
    /\ mode' = [mode EXCEPT ![k] = "LOBBY"]
    /\ list' = [list EXCEPT ![k] =
         @ \o [i \in DOMAIN Others(packet) |-> LobbyRow(packet, Others(packet)[i])]]
    /\ UNCHANGED race

\* connect(): the lobby snapshot.  The client takes only its id from its own
\* entry, not its ready and spectator flags.
EnterLobby(k, packet) ==
    /\ mode' = [mode EXCEPT ![k] = "LOBBY"]
    /\ list' = [list EXCEPT ![k] =
         <<[Self(k) EXCEPT !.id = packet.id]>> \o Tail(@)
           \o [i \in DOMAIN Others(packet) |-> LobbyRow(packet, Others(packet)[i])]]
    /\ UNCHANGED race

\* playing(lobby, true): the race snapshot, whose winner is an unsigned byte.
EnterRace(k, packet) ==
    LET RacerFor(id) == Racer(id, packet.players[id].name, packet.players[id].spectator = 1,
                              packet.players[id].progress)
    IN /\ mode' = [mode EXCEPT ![k] = "PLAYING"]
       /\ list' = [list EXCEPT ![k][1].id = packet.id]
       /\ race' = [race EXCEPT ![k] =
            [status |-> "SPECTATOR", progress |-> 0, told |-> 0, complete |-> FALSE,
             length |-> packet.text_size,
             victor |-> packet.winner % 256, victor_time |-> packet.winner_time,
             players |-> [i \in DOMAIN Others(packet) |-> RacerFor(Others(packet)[i])]]]

\* Mutant: the first byte is not looked at.
ReadFirstAsLobby(k) ==
    /\ mode[k] = "CONNECTING" /\ Inbox(k) # <<>>
    /\ LET packet == Head(Inbox(k))
       IN IF packet.type # "ON_CONNECT"
            THEN mode' = [mode EXCEPT ![k] = "GARBLED"] /\ UNCHANGED <<list, race>>
            ELSE EnterLobby(k, packet)
    /\ Consume(k)
    /\ UNCHANGED <<socket, up, hungup>>

\* The first byte of the connection is taken for in_progress whatever it is.
ReadFirst(k) ==
    /\ mode[k] = "CONNECTING" /\ Inbox(k) # <<>>
    /\ LET packet == Head(Inbox(k))
       IN IF packet.type # "ON_CONNECT"
            THEN mode' = [mode EXCEPT ![k] = "GARBLED"] /\ UNCHANGED <<list, race>>
            ELSE IF packet.in_progress = 0 THEN EnterLobby(k, packet) ELSE EnterRace(k, packet)
    /\ Consume(k)
    /\ UNCHANGED <<socket, up, hungup>>

\* clear_list keeps the client's own row, and its spectate flag.
HangUp(k) ==
    /\ mode' = [mode EXCEPT ![k] = "DISCONNECTED"]
    /\ socket' = [socket EXCEPT ![k] = NoSocket]
    /\ race' = [race EXCEPT ![k] = NoRace]
    /\ hungup' = hungup \cup {socket[k]}
    /\ down' = [down EXCEPT ![socket[k]] = <<>>]

Disconnect(k) ==
    /\ mode[k] = "LOBBY" /\ "disconnect" \in Commands
    /\ HangUp(k)
    /\ Send(k, [type |-> "DISCONNECT"])
    /\ list' = [list EXCEPT ![k] = <<[Self(k) EXCEPT !.ready = FALSE]>>]

\* /quit in the lobby, or the process killed anywhere: the connection closes
\* without a word, and a new process starts from nothing.
Quit(k) ==
    /\ Linked(k) /\ "quit" \in Commands
    /\ HangUp(k)
    /\ \E n \in Names : list' = [list EXCEPT ![k] = <<Row(0, n, FALSE, FALSE)>>]
    /\ UNCHANGED up

-----------------------------------------------------------------------------
(* Lobby commands.  /ready and /unready send the same toggle, each when the *)
(* client's own flag allows it; so do /spectate and /partake.               *)

Says(k, packet) ==
    /\ Send(k, packet)
    /\ UNCHANGED <<clientVars, down, hungup>>

Command(k) ==
    /\ mode[k] = "LOBBY"
    /\ \/ "ready" \in Commands /\ ~Self(k).ready /\ Says(k, [type |-> "TOGGLE_READY"])
       \/ "unready" \in Commands /\ Self(k).ready /\ Says(k, [type |-> "TOGGLE_READY"])
       \/ "spectate" \in Commands /\ ~Self(k).spectate /\ Says(k, [type |-> "SPECTATE"])
       \/ "partake" \in Commands /\ Self(k).spectate /\ Says(k, [type |-> "SPECTATE"])
       \/ "say" \in Commands /\ Says(k, [type |-> "SEND_MESSAGE"])
       \/ "killme" \in Commands /\ Says(k, [type |-> "KILLME"])
       \/ "name" \in Commands /\ \E n \in Names : Says(k, [type |-> "CHANGE_NAME", name |-> n])
       \/ "color" \in Commands /\ \E col \in Colors : Says(k, [type |-> "COLOR", color |-> col])
       \/ "special" \in Commands /\ \E t \in Specials : Says(k, [type |-> "TEXT_SET", text |-> t])
       \/ "timeout" \in Commands /\ \E d \in Timeouts : Says(k, [type |-> "TIMEOUT", timeout |-> d])

-----------------------------------------------------------------------------
(* The lobby reads *)

\* Types the lobby's switch reads to their end; GAME_OVER is unknown to it
\* but is one byte long.
LobbyReads ==
    {"CONNECT", "TOGGLE_READY", "DISCONNECT", "START", "UPDATE_NAME", "RELAY_MESSAGE",
     "RELAY_SPECTATE", "BEGIN_TIMER", "CANCEL_TIMER", "KILLME", "TEXT_SET", "UPDATE_TIMEOUT",
     "UPDATE_COLOR", "GAME_OVER"}
\* The ones that look a player up.
LobbyLooksUp ==
    {"TOGGLE_READY", "DISCONNECT", "UPDATE_NAME", "RELAY_MESSAGE", "RELAY_SPECTATE", "KILLME",
     "UPDATE_COLOR"}

\* Mutant: renames are not applied.
ListAfterUnnamed(rows, packet) ==
    CASE packet.type = "CONNECT" ->
           IF packet.id = rows[1].id THEN rows
           ELSE Append(rows, Row(packet.id, packet.name, FALSE, FALSE))
      [] packet.type = "TOGGLE_READY" ->
           [rows EXCEPT ![RowOf(rows, packet.id)].ready = ~@]
      [] packet.type = "DISCONNECT" -> RemoveAt(rows, RowOf(rows, packet.id))
      [] OTHER -> rows

\* What a packet does to the list.
ListAfter(rows, packet) ==
    CASE packet.type = "CONNECT" ->
           IF packet.id = rows[1].id THEN rows
           ELSE Append(rows, Row(packet.id, packet.name, FALSE, FALSE))
      [] packet.type = "TOGGLE_READY" ->
           [rows EXCEPT ![RowOf(rows, packet.id)].ready = ~@]
      [] packet.type = "RELAY_SPECTATE" ->
           [rows EXCEPT ![RowOf(rows, packet.id)].spectate = ~@,
                        ![RowOf(rows, packet.id)].ready = FALSE]
      [] packet.type = "UPDATE_NAME" ->
           [rows EXCEPT ![RowOf(rows, packet.id)].name = packet.name]
      [] packet.type = "DISCONNECT" -> RemoveAt(rows, RowOf(rows, packet.id))
      [] OTHER -> rows

\* playing(lobby, false): the race starts with the lobby's rows.
StartRace(k, packet) ==
    /\ mode' = [mode EXCEPT ![k] = "PLAYING"]
    /\ race' = [race EXCEPT ![k] =
         [status |-> IF Self(k).spectate THEN "SPECTATOR" ELSE "PARTAKER",
          progress |-> 0, told |-> 0, complete |-> FALSE, length |-> packet.text_size,
          victor |-> NoVictor, victor_time |-> NoVictor,
          players |-> [i \in 1 .. Len(list[k]) - 1 |->
                         Racer(list[k][i + 1].id, list[k][i + 1].name, list[k][i + 1].spectate, 0)]]]
    /\ UNCHANGED list

ReadLobby(k) ==
    /\ mode[k] = "LOBBY" /\ Inbox(k) # <<>>
    /\ LET packet == Head(Inbox(k))
       IN CASE packet.type \notin LobbyReads ->
                 mode' = [mode EXCEPT ![k] = "GARBLED"] /\ UNCHANGED <<list, race>>
            [] packet.type \in LobbyLooksUp /\ RowOf(list[k], packet.id) = 0 ->
                 mode' = [mode EXCEPT ![k] = "ASTRAY"] /\ UNCHANGED <<list, race>>
            [] packet.type = "START" -> StartRace(k, packet)
            [] OTHER ->
                 /\ list' = [list EXCEPT ![k] = ListAfter(@, packet)]
                 /\ UNCHANGED <<mode, race>>
    /\ Consume(k)
    /\ UNCHANGED <<socket, up, hungup>>

-----------------------------------------------------------------------------
(* The race *)

\* Playing.feed_char: a right key, a deleted one, or one that changes nothing.
\* Once the own finish has come back, `progress` holds its time, and keys do
\* nothing that is told.
Keyed(view) ==
    {view.progress}
    \cup (IF view.progress > 0 /\ view.status # "COMPLETED" THEN {view.progress - 1} ELSE {})
    \cup (IF view.progress < view.length /\ view.status # "COMPLETED"
            THEN {view.progress + 1} ELSE {})

\* Mutant: a deleted character is not told.
ToldWhenAhead(view) == ~view.complete /\ view.progress > view.told

\* Whether there is a progress to tell.
ToldNext(view) == ~view.complete /\ view.progress # view.told

\* Every key, of a spectator too.  The first time the text is complete its
\* time is sent, and until then each change of the progress.
TypeKey(k) ==
    /\ mode[k] = "PLAYING"
    /\ \E p \in Keyed(race[k]) :
        LET view == [race[k] EXCEPT !.progress = p]
        IN IF ~view.complete /\ p = view.length
             THEN /\ race' = [race EXCEPT ![k] = [view EXCEPT !.complete = TRUE]]
                  /\ \E t \in Times : Send(k, [type |-> "COMPLETED_TEXT", time |-> t])
           ELSE IF ToldNext(view)
             THEN /\ race' = [race EXCEPT ![k] = [view EXCEPT !.told = p]]
                  /\ Send(k, [type |-> "SEND_PROGRESS", progress |-> p])
           ELSE race' = [race EXCEPT ![k] = view] /\ UNCHANGED up
    /\ UNCHANGED <<mode, socket, list, down, hungup>>

RaceReads ==
    {"CONNECT", "UPDATE_PROGRESS", "PLAYER_COMPLETED", "DISCONNECT", "GAME_OVER", "CANCEL_TIMER"}

\* Playing.get_player: the client itself, the first racer with that id, or
\* the client itself again when there is none.
RacerOf(k, id) == IF id = Self(k).id THEN 0 ELSE RowOf(race[k].players, id)

\* Mutant: the last finish takes the win.
VictorLast(view, packet) ==
    [view EXCEPT !.victor = packet.id, !.victor_time = packet.time]

\* A finish takes the win when there is none or when its time is lower.
VictorAfter(view, packet) ==
    IF view.victor = NoVictor \/ packet.time < view.victor_time
      THEN [view EXCEPT !.victor = packet.id, !.victor_time = packet.time]
      ELSE view

\* What a packet does to the race view.
RaceAfter(k, packet) ==
    LET view == race[k]
        i == RacerOf(k, packet.id)
    IN CASE packet.type = "CONNECT" ->
              IF packet.id = Self(k).id THEN view
              ELSE [view EXCEPT !.players = Append(@, Racer(packet.id, packet.name, TRUE, 0))]
         [] packet.type = "UPDATE_PROGRESS" ->
              IF packet.id = Self(k).id THEN view
              ELSE IF i = 0 THEN [view EXCEPT !.progress = packet.progress]
              ELSE [view EXCEPT !.players[i].progress = packet.progress]
         [] packet.type = "PLAYER_COMPLETED" ->
              IF i = 0 THEN [VictorAfter(view, packet) EXCEPT
                                !.status = "COMPLETED", !.progress = packet.time]
              ELSE [VictorAfter(view, packet) EXCEPT
                                !.players[i].status = "COMPLETED",
                                !.players[i].progress = packet.time]
         [] packet.type = "DISCONNECT" ->
              LET won == IF view.victor = packet.id
                           THEN [view EXCEPT !.victor = NoVictor, !.victor_time = NoVictor] ELSE view
              IN IF i = 0 THEN [won EXCEPT !.status = "DISCONNECTED"]
                 ELSE [won EXCEPT !.players[i].status = "DISCONNECTED"]

\* draw() drops the racers that left before they typed anything.
Drawn(view) ==
    [view EXCEPT !.players =
       At(@, {i \in DOMAIN @ : @[i].status # "DISCONNECTED" \/ @[i].progress # 0})]

\* Mutant: everyone who was in the race is put back on the list.
Entrants(view) == view.players

\* The racers still there when it ends.
Survivors(view) ==
    At(view.players, {i \in DOMAIN view.players : view.players[i].status # "DISCONNECTED"})

\* Mutant: the client's own ready flag outlives the race.
SelfAfterReady(k) == Row(Self(k).id, Self(k).name, Self(k).ready, race[k].status = "SPECTATOR")

\* The client's own row after the race.
SelfAfter(k) == Row(Self(k).id, Self(k).name, FALSE, race[k].status = "SPECTATOR")

\* GAME_OVER: the lobby's list is rebuilt from the racers that are left.
EndRace(k) ==
    LET left == Survivors(race[k])
    IN /\ mode' = [mode EXCEPT ![k] = "LOBBY"]
       /\ list' = [list EXCEPT ![k] =
            <<SelfAfter(k)>>
              \o [i \in DOMAIN left |->
                    Row(left[i].id, left[i].name, FALSE, left[i].status = "SPECTATOR")]]
       /\ race' = [race EXCEPT ![k] = NoRace]

ReadRace(k) ==
    /\ mode[k] = "PLAYING" /\ Inbox(k) # <<>>
    /\ LET packet == Head(Inbox(k))
       IN CASE packet.type \notin RaceReads ->
                 mode' = [mode EXCEPT ![k] = "GARBLED"] /\ UNCHANGED <<list, race>>
            [] packet.type = "GAME_OVER" -> EndRace(k)
            [] packet.type = "CANCEL_TIMER" -> UNCHANGED <<mode, list, race>>
            [] OTHER ->
                 /\ race' = [race EXCEPT ![k] = Drawn(RaceAfter(k, packet))]
                 /\ UNCHANGED <<mode, list>>
    /\ Consume(k)
    /\ UNCHANGED <<socket, up, hungup>>

-----------------------------------------------------------------------------
ClientReads(k) == ReadFirst(k) \/ ReadLobby(k) \/ ReadRace(k)

ClientStep(k) ==
    \/ Command(k) \/ TypeKey(k) \/ ClientReads(k)
    \/ Disconnect(k) \/ Quit(k)

=============================================================================
