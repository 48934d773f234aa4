SPECIFICATION Spec
CONSTANTS
    None = None
    n1 = n1
    n2 = n2
    u1 = u1
    u2 = u2
    Names = {n1, n2}
    Urls = {u1, u2}
    Configs <- OneConfig
    PromptLimit = 1
    MaxInputs = 3
    MaxFaults = 1
SYMMETRY Symmetry
CHECK_DEADLOCK FALSE
INVARIANTS
    OnlyOldPromptsAreIgnored
    NothingIsLeftChecking
PROPERTIES
    ShownIsCurrent
    ReportedIsDurable
    DeletedWasAsked
    ConfigIsReadOnly
    ActsAsShown
