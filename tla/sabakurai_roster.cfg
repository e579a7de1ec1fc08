SPECIFICATION MCSystemSpec
CONSTANTS
    MaxClients = 2
    Clients = {k1, k2}
    Sockets = {s1, s2}
    NoSocket = NoSocket
    Names = {n1}
    NoName = NoName
    Colors = {0}
    DefaultColor = 0
    NumStrings = 1
    TextLength <- LongText
    Specials = {}
    MicrosPerSecond = 1
    TickMicros = 1
    Timeouts = {1}
    DefaultTimeout = 1
    Indices = {0, 1, 2, 3}
    ByteBase = 256
    Times = {3}
    TimeBase = 16777216
    MaxTime = 3
    Commands = {"ready", "unready", "quit", "disconnect"}
    JoinPhases = {0}
    MaxCoalesce = 1
    MaxUp = 1
    MaxDown = 2
    MaxReports = 1
    MaxDrift = 0
SYMMETRY ClientSymmetry
INVARIANTS PhasesAgree RosterAgrees ReadyAgrees FinishCounted NoneAstray RivalsSeeProgress
