SPECIFICATION Spec
CONSTANTS
    None = None
    CountCap = 1
    Names = {"n1"}
    Urls = {"u1", "u2"}
    Configs <- AnyConfig
    MaxConcurrency = 1
    FailureThreshold = 1
    RecoveryThreshold = 1
    ReplyCodes = {0, 200}
    AmbiguousSend = TRUE
    StoreFails = TRUE
    MaxCrashes = 1
INVARIANTS
    IInv
    OneTaskPerSite
    NobodyIsStuck
    JudgedAtItsUrl
PROPERTY NotifiedWasTold
CHECK_DEADLOCK FALSE
