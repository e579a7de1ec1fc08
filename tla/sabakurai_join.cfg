SPECIFICATION MCSettledSpec
CONSTANTS
    MaxClients = 2
    Clients = {k1, k2}
    Sockets = {s1, s2}
    NoSocket = NoSocket
    Names = {n1}
    NoName = NoName
    Colors = {0}
    DefaultColor = 0
    NumStrings = 1
    TextLength <- ShortText
    Specials = {0}
    MicrosPerSecond = 1
    TickMicros = 1
    Timeouts = {1}
    DefaultTimeout = 1
    Indices = {0, 1, 2, 3}
    ByteBase = 256
    Times = {2, 3}
    TimeBase = 16777216
    MaxTime = 3
    Commands = {"ready", "special", "timeout"}
    JoinPhases = {0, 1}
    MaxCoalesce = 1
    MaxUp = 1
    MaxDown = 2
    MaxReports = 2
    MaxDrift = 0
SYMMETRY ClientSymmetry
INVARIANTS PhasesAgree RosterAgrees ReadyAgrees 
