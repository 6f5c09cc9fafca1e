CONSTANTS
    Epoch <- MCEpoch
    Horizon <- MCHorizon
    CmdTime = 1
    IpTimeout = 30
    ShutdownTimeout = 30
    PollInterval = 4
    SettleDelay = 30
    MaxCalls = 1
    MayFail = TRUE
SPECIFICATION Spec
PROPERTY BootedDomainRuns
