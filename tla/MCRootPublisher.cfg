SPECIFICATION FairPublisherSpec
CONSTANTS
    genesis = genesis
    next = next
    third = third
    None = None
    Roots = {genesis, next}
    Revisions = {1, 2}
    Previous <- MCPrevious
    ClosedAt <- MCTimes
    Deadline <- MCDeadline
    PrepareTimeout = 0
    MaxLate = 0
    Replayed <- MCReplayed
    MaxTime = 1
    Publishers = {1}
INVARIANTS AttestedIsArchived VerdictIsNotEarly
PROPERTIES EveryRunEnds
