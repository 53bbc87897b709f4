SPECIFICATION LeavingSpec
CONSTANTS
    s1 = s1
    s2 = s2
    Sessions = {s1, s2}
    Kind <- OneIpoe
    Server <- OneServer
    User <- OwnName
    Scenarios <- Independent
    MaxSessions = 0
    UIntMod = 8
    NoSession = NoSession
CHECK_DEADLOCK FALSE
PROPERTY ShutdownEnds
