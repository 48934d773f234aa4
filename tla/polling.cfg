SPECIFICATION FairSpec
CONSTANTS
    None = None
    MaxUpdates = 3
    BatchLimit = 2
    MaxStarts = 3
    SkipFails = TRUE
INVARIANTS
    InOrderOncePerRun
    FreshAfterSkip
    ConfirmedWasHandled
PROPERTY EveryUpdateIsHandled
CHECK_DEADLOCK FALSE
