SPECIFICATION Spec
CONSTANTS
    p1 = p1
    p2 = p2
    s1 = s1
    s2 = s2
    Sessions <- AllFour
    Kind <- Kinds
    Server <- OneServer
    User <- OneName
    Scenarios <- DenyOrReplace
    MaxSessions = 0
    UIntMod = 8
    NoSession = NoSession
SYMMETRY Symmetric
CHECK_DEADLOCK FALSE
INVARIANTS CountersExact OneSessionPerName WaiterIsArmed
