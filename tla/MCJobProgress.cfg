SPECIFICATION ProgressSpec
CONSTANTS
    Workers = {w1, w2}
    Keys = {1, 2}
    NoKey = NoKey
    Bodies = {b1}
    Notes = {n1}
    NoNote = NoNote
    MaxAttempts = 2
    Instants = {0, 1}
    LeaseMs = 2
    RetryDelay <- MCRetryDelay
    MinBackoff = 1
    MaxBackoff = 2
    MaxBeats = 1
INVARIANTS AttemptLedger AcceptedOnce
PROPERTIES EverySubmissionSettles LifecycleRefined
CHECK_DEADLOCK FALSE
