SPECIFICATION Spec
CONSTANTS
    None = None
    CountCap = 2
    n1 = n1
    n2 = n2
    u1 = u1
    u2 = u2
    Names = {n1, n2}
    Urls = {u1, u2}
    Configs <- NoConfig
    MaxConcurrency = 1
    FailureThreshold = 2
    RecoveryThreshold = 1
    ReplyCodes = {0, 200}
    AmbiguousSend = FALSE
    StoreFails = FALSE
    MaxCrashes = 0
SYMMETRY Symmetry
INVARIANTS
    LedgerAgrees
    PausedOnDemandIsSilent
    MemoryIsDurable
    DeletedMeansGone
PROPERTY ImplementsAlertStream
