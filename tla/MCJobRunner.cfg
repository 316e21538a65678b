SPECIFICATION FairRunnerSpec
CONSTANTS
    w1 = w1
    w2 = w2
    Workers = {w1, w2}
    Keys = {1, 2}
    NoKey = NoKey
    Bodies = {b1}
    Notes = {n1}
    NoNote = NoNote
    MaxAttempts = 2
    Instants <- MCInstants
    LeaseMs = 2
    RetryDelay <- MCRetryDelay
    MinBackoff = 1
    MaxBackoff = 2
    MaxTime = 5
    Budget = 3
    MinClaimBudget = 1
    MaxClaims = 2
    Submissions <- MCTwoJobs
INVARIANTS FencedWhileLive ReportMatchesQueue
PROPERTIES ReleasedOrLost InvocationStops
CHECK_DEADLOCK FALSE
