------------------------------ MODULE MCScreen ------------------------------
(* Small instances of Screen: short messages, and commands of a letter or two. *)
EXTENDS Screen

Keys == {"s", Slash, Space, Quote, Escape}

SmallWelcome == <<"W", "e", "l", "c", "o", "m", "e">>
SmallHelp == [i \in 1 .. 9 |-> "h"]
SmallComplaint == <<"U", " ">>
SmallAuthor == <<"A">>
Say == <<"s">>
Help == <<"s", "s">>

\* A prompt three columns wide in a panel that lets it have two lines, one of
\* six columns that gets a single line, and one of four that may have four.
ThreeSizes == {<<9, 25>>, <<12, 21>>, <<10, 33>>}
\* A log of eight columns, where the welcome fits on a line and the help does
\* not, as on a terminal of 80 by 40.
OneSize == {<<15, 40>>}
=============================================================================
