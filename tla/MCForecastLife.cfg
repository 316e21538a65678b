SPECIFICATION FairSpec
CONSTANTS
    Repertoires <- MCRepertoires
    Publications <- MCPublications
    ForecastIds = {1, 2}
    OutcomeIds = {1, 2, 3, 5, 6, 11, 12, 13, 14, 21}
    Retention = 2
    MaxTime = 4
    Calendar = {1, 2, 3, 4, 5, 6}
    Watched = {1, 5, 6}
    Values <- MCValues
    Lifecycles <- MCLifecycles
    Others <- MCOthers
    Timely = {1, 2}
    Resolvers = {w1, w2}
    MaxTries = 2
    Troubled = {1}
    MaxMishaps = 2
    Whole = 10
    MinimumForecasts = 2
    MinimumDistinctDates = 2
    MinimumPerActiveHorizon = 2
    MinimumBucket = 2
INVARIANTS RetriesGetTheSame RecordsAreWhole EndedOnItsEvidence ScorecardIsTheLedgers
PROPERTIES HistoryRefined ClaimIsKept KnownIsSettled
CHECK_DEADLOCK FALSE
