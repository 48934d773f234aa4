SPECIFICATION Spec
CONSTANTS
    None = None
    CountCap = 3
    Url = "u"
    Codes = {0, 199, 200, 300, 499, 500}
    MaxChecks = 6
INVARIANTS
    StatusFollowsHistory
    OutageDatedFromFirstFailure
    RecoveryIsReported
CHECK_DEADLOCK FALSE
