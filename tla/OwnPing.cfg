SPECIFICATION RunSpec
CONSTANTS
    Worlds <- OneWorld
    Builds <- OneBuild
    d1 = d1
    d2 = d2
    Devices <- MCDevices
    Junk = Junk
    MaxSessions = 1
    MaxNodes = 1
    MaxTwists = 3
    Publications = 2
INVARIANT NoSelfPong
CHECK_DEADLOCK FALSE
