SPECIFICATION FairSpec
CONSTANTS
    MaxTerminate = 1
    MaxConfigure = 2
    MaxFailure = 2
    PppConfs <- IpcpOnly
    EchoOn = TRUE
    EchoFailure = 1
    EchoTimeout = TRUE
    TimeoutOn = TRUE
    PeerCodes <- Vanishing
    MaxPadt = 1
CHECK_DEADLOCK FALSE
INVARIANTS TeardownIsClean RestartTimerRuns
PROPERTIES TerminationCompletes SilentPeerIsDropped
