SPECIFICATION Spec
CONSTANTS
    S1 = S1
    S2 = S2
    Symbols <- MCSymbols
    NoSymbol = NoSymbol
    Unit = 1000
    SumTolerance = 1
    RoundingTolerance = 20
    NoJudgment = NoJudgment
    Policy <- PolicyV1
    RiskPercent = 2
    NotionalPercent = 60
    AggregatePercent = 3
    MaxOpenPositions = 2
    Rank <- MCRank
    Deposit = 100000
    Horizon = 2
    MaxSessions = 4
    MaxActions = 1
    Observations <- MCObservations
    Opens <- MCOpens
    Attestations <- MCAttestations
    NoAction = NoAction
INVARIANTS SerialLogProjects ReadingsAgree
PROPERTIES NeverOverstays CommitmentsFit
CHECK_DEADLOCK FALSE
