SPECIFICATION Spec
CONSTANTS
    None = None
    Interval = 4
    Grace = 3
    ShutdownTimeout = 3
    StopGrace = 6
    MaxCycle = 7
    MaxHandler = 10
    MayHang = TRUE
    Horizon = 24
INVARIANTS
    HealthyIsNeverStale
    StuckIsReported
    OnlyBotOutlastsGrace
    MonitorOutlivesBot
    NoCycleIsLeft
CHECK_DEADLOCK FALSE
