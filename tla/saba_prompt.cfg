SPECIFICATION MCPromptSpec
CONSTANTS
  MaxClients = 2
  Sockets = {s1, s2}
  NoSocket = NoSocket
  Names = {n1}
  NoName = NoName
  Colors = {k1}
  DefaultColor = k1
  NumStrings = 1
  TextLength <- MCTextLength
  Specials = {}
  MicrosPerSecond = 1
  TickMicros = 1
  Timeouts = {}
  DefaultTimeout = 5
  Indices = {1}
  ByteBase = 2
  Times = {1}
  TimeBase = 2
  MaxTime = 1
  MaxReports = 2
  MaxDrift = 1
INVARIANTS ReadyTally TimerHasCause LobbyTimerBounded
PROPERTIES ImplementsRoom StartCountsReady FinishedRaceEnds ReadyLobbyStarts
