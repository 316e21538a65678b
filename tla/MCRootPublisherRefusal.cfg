SPECIFICATION PublisherSpec
CONSTANTS
    genesis = genesis
    next = next
    third = third
    None = None
    Roots = {genesis, next}
    Revisions = {1}
    Previous <- MCPrevious
    ClosedAt <- MCTimes
    Deadline <- MCDeadline
    PrepareTimeout = 0
    MaxLate = 0
    Replayed <- MCReplayed
    MaxTime = 0
    Publishers = {1}
INVARIANT RefusedIsOutOfPlace
