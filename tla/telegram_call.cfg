SPECIFICATION Spec
CONSTANTS
    MaxAttempts = 4
    Backoff = 2
    RetryAfters = {0, 5, 60, 300}
    MaxRetryAfter = 60
INVARIANTS
    ExecutedOnceUnlessLost
    SleptBounded
PROPERTIES
    ImplementsDelivery
CHECK_DEADLOCK FALSE
