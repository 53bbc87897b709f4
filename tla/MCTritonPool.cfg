SPECIFICATION Spec
CONSTANTS
    None = None
    Thread = {t1, t2}
    Ctx = {d, c}
    Default = d
    Static = {d, c}
    Sleepers = {c}
    CloseUnregisters = {c}
    Poster = {k1, k2}
    Func = {f}
    PrioMax = 2
    MaxOps = 3
    Requests = {"reload", "shutdown", "register"}
SYMMETRY Symmetry
CHECK_DEADLOCK FALSE
INVARIANTS TypeOK OneWorkerPerContext LinkedOnce NoWorkLost WorkConserving NoUseAfterFree
