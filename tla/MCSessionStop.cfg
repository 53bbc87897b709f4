SPECIFICATION LeavingSpec
CONSTANTS
    s1 = s1
    s2 = s2
    Sessions = {s1, s2}
    Kind <- AllPppoe
    Server <- OneServer
    User <- OneName
    Scenarios <- Replacing
    MaxSessions = 0
    UIntMod = 8
    NoSession = NoSession
CHECK_DEADLOCK FALSE
PROPERTIES ShutdownEnds WaiterResumes
