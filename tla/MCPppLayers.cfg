SPECIFICATION Spec
CONSTANTS
    MaxTerminate = 1
    MaxConfigure = 1
    MaxFailure = 1
    PppConfs <- DualOrCcp
    EchoOn = FALSE
    EchoFailure = 1
    EchoTimeout = FALSE
    TimeoutOn = FALSE
    PeerCodes <- AllCodes
    MaxPadt = 1
CHECK_DEADLOCK FALSE
INVARIANTS NoUseAfterFree AuthBeforeNetwork ActiveCarriesTraffic RequestHasAddress
