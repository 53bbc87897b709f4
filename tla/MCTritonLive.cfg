SPECIFICATION FairSpec
CONSTANTS
    None = None
    Thread = {t1, t2}
    Ctx = {d, c}
    Default = d
    Static = {d, c}
    Sleepers = {c}
    CloseUnregisters = {c}
    Poster = {k1}
    Func = {f}
    PrioMax = 2
    MaxOps = 2
    Requests = {"reload", "shutdown"}
CHECK_DEADLOCK FALSE
PROPERTIES PostedWorkIsDone WokenResumes RequestsAreServed
