SPECIFICATION FairDatabaseSpec
CONSTANTS
    s1 = s1
    s2 = s2
    v1 = v1
    v2 = v2
    c1 = c1
    c2 = c2
    Forecasts = {1, 2}
    Keys = {1, 2}
    Judgments = {1, 2}
    EventIds = {1, 2, 3, 4, 5, 6, 7, 8}
    OutcomeIds = {1, 2, 3, 4, 5}
    Bodies = {1, 2}
    Requests <- MCRequests
    Sessions = {s1, s2}
    Visits <- MCVisits
    Visitors = {v1, v2}
    PickIds = {1, 2}
    NoPick = 0
    Traffics <- MCTraffics
    Tasks <- MCTasks
    Clerks = {c1, c2}
    AttemptIds = {1, 2, 3}
    NoOperation = 0
    Duties <- MCDuties
    MaxSetbacks = 1
    Days <- MCDays
INVARIANTS RetryIsReplayed DeadlockNeedsEarlyCall RecordsAgree
PROPERTIES HistoryRefined EveryTransactionEnds
