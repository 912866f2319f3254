\* Two drains, a research pool around a miner, crashes anywhere.
SPECIFICATION Spec
CONSTANTS
    MaxJobs = 3
    MaxBackfills = 0
    Drains = {d1, d2}
    Requests <- MixedRequests
    Widths = {2}
    Nobody = Nobody
    Other = Other
SYMMETRY Symm
CHECK_DEADLOCK FALSE
INVARIANT StoreWriterAlone
INVARIANT RunningIsOwned
INVARIANT OutcomesRecorded
INVARIANT LaunchOrder
INVARIANT PoolWithinBudget
INVARIANT NoDuplicateWork
INVARIANT DoneIsTrue
