SPECIFICATION Spec
CONSTANTS
    Words = 2
    LongBits = 4
    IntBits = 2
    Conns = {c1, c2, c3}
INVARIANT UniqueSessionId
