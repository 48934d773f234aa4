SPECIFICATION Spec
CONSTANTS
    None = None
    CountCap = 1
    Names = {"n1"}
    Urls = {"u1"}
    Configs <- NoConfig
    MaxConcurrency = 1
    FailureThreshold = 1
    RecoveryThreshold = 1
    ReplyCodes = {0, 200}
    AmbiguousSend = FALSE
    StoreFails = FALSE
    MaxCrashes = 1
INVARIANT NoSilentOutage
