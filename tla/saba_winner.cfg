SPECIFICATION MCRoomySpec
CONSTANTS
  MaxClients = 2
  Sockets = {s1, s2}
  NoSocket = NoSocket
  Names = {n1}
  NoName = NoName
  Colors = {k1}
  DefaultColor = k1
  NumStrings = 2
  TextLength <- MCTextLength
  Specials = {1}
  MicrosPerSecond = 1
  TickMicros = 1
  Timeouts = {1}
  DefaultTimeout = 1
  Indices = {1}
  ByteBase = 2
  Times = {1}
  TimeBase = 2
  MaxTime = 1
  MaxReports = 1
  MaxDrift = 0
SYMMETRY SocketSymmetry
INVARIANT NoWinnerYet
