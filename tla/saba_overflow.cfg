SPECIFICATION MCSpec
CONSTANTS
  MaxClients = 2
  Sockets = {s1, s2}
  NoSocket = NoSocket
  Names = {n1}
  NoName = NoName
  Colors = {k1}
  DefaultColor = k1
  NumStrings = 1
  TextLength <- MCTextLength
  Specials = {}
  MicrosPerSecond = 1
  TickMicros = 1
  Timeouts = {}
  DefaultTimeout = 1
  Indices = {1}
  ByteBase = 2
  Times = {1}
  TimeBase = 2
  MaxTime = 1
  MaxReports = 2
  MaxDrift = 2
SYMMETRY SocketSymmetry
INVARIANT SnapshotCountsEntries
