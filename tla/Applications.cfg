SPECIFICATION RunSpec
CONSTANTS
    Worlds <- MCWorlds
    Builds <- MCBuilds
    d1 = d1
    d2 = d2
    Devices <- MCDevices
    Junk = Junk
    MaxSessions = 1
    MaxNodes = 1
    MaxTwists = 3
    Publications = 2
INVARIANTS RunTypeOK PongsWereSent AddressLive RunningIsComplete OneRuns TornByOne
PROPERTIES DeinitializationGivesBack DeinitializationEnds Settles
CHECK_DEADLOCK FALSE
