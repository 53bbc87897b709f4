SPECIFICATION ServicesSpec
CONSTANTS
    Off = Off
    v1 = v1
    v2 = v2
    r1 = r1
    r2 = r2
    l1 = l1
    l2 = l2
    NoServ = NoServ
    NoItem = NoItem
    Words = 2
    LongBits = 3
    IntBits = 3
    Conns = {c1, c2, c3, c4, c5}
SYMMETRY Symmetric
CHECK_DEADLOCK FALSE
INVARIANTS UniqueSessionId IdentifiersExact RadiusSlotsExact RadiusAnswers 
