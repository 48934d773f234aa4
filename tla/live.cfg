SPECIFICATION FairSpec
CONSTANTS
    None = None
    CountCap = 2
    Names = {"n1"}
    Urls = {"u1"}
    Configs <- NoConfig
    MaxConcurrency = 1
    FailureThreshold = 2
    RecoveryThreshold = 1
    ReplyCodes = {0, 200}
    AmbiguousSend = TRUE
    StoreFails = FALSE
    MaxCrashes = 1
PROPERTIES
    OneStepAtATime
    BotComesBack
    OwedIsSettled
    KeepsChecking
