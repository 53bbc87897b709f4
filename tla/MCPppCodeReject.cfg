SPECIFICATION Spec
CONSTANTS
    MaxTerminate = 1
    MaxConfigure = 2
    MaxFailure = 2
    PppConfs <- IpcpOnly
    EchoOn = FALSE
    EchoFailure = 1
    EchoTimeout = FALSE
    TimeoutOn = FALSE
    PeerCodes <- NoTermAck
    MaxPadt = 1
CHECK_DEADLOCK FALSE
INVARIANT RestartTimerRuns
