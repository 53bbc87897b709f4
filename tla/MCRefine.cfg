SPECIFICATION RefineSpec
CONSTANTS
    a = a
    b = b
    k1 = k1
    k2 = k2
    k3 = k3
    Ends <- TwoEnds
    SeqSpace = 6
    Window = 2
    MaxRetransmit = 1
    FirstNs = 5
    Lifetime = 2
    MaxMsgs <- Uneven
    NetSize = 2
    Keys = {k1, k2, k3}
    Data = {d}
    Threads = {t1, t2}
    NoKey = NoKey
    NoThread = NoThread
    Size = 2
    Hash <- HashOf
    UIntMax = 4
CHECK_DEADLOCK FALSE
INVARIANTS WindowsAndChains
PROPERTIES ChannelIsFifo AcceptedIsHanded TableIsMap
