SPECIFICATION Spec
CONSTANTS
    genesis = genesis
    next = next
    fork = fork
    None = None
    Roots = {genesis, next, fork}
    Revisions = {1, 2}
    Previous <- MCPrevious
    ClosedAt <- MCClosedAt
    Deadline <- MCDeadline
    PrepareTimeout = 0
    MaxLate = 1
    Replayed <- MCReplayed
    MaxTime = 1
INVARIANTS RefusalIsFinal
PROPERTIES ChainRefined ReceiptIsTimely
