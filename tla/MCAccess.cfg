SPECIFICATION AccessSpec
CONSTANTS
    s1 = s1
    s2 = s2
    m1 = m1
    m2 = m2
    c1 = c1
    c2 = c2
    c3 = c3
    u1 = u1
    u2 = u2
    i1 = i1
    i3 = i3
    a1 = a1
    a2 = a2
    NoAddress = NoAddress
SYMMETRY Symmetric
CHECK_DEADLOCK FALSE
INVARIANTS AccessCountersExact AccessTimed AccessReferences ProvedBeforeUse CallsStopWithTunnel IpoeClientsExact ConnectionsFound LimitsAreOwn VlansReported
