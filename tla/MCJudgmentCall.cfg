SPECIFICATION FairSpec
CONSTANTS
    Timeout = 2
    RunDeadline = 5
    MaxAttempts = 3
    RetryAfterCap = 3
    RetryAfters = {0, 2, 4}
    NoRetryAfter = NoRetryAfter
    Base <- MCBase
    Slack = 1
INVARIANTS ReceiptPerRequest OutcomeIsHonest RetriesAreEarned SettlesInTime
PROPERTIES EveryCallSettles
CHECK_DEADLOCK FALSE
