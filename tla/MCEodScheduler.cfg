SPECIFICATION FairSchedulerSpec
CONSTANTS
    i1 = i1
    i2 = i2
    Symbols = {1,2}
    Sessions = 3
    Limits = {1,2}
    Invocations = {i1, i2}
    Bootstrap = 1
    MaxCrashes = 1
INVARIANTS AccountedFor
PROPERTIES BehindIsSettled
CHECK_DEADLOCK FALSE
