\* Liveness: every drain ends, oversized rows included.
SPECIFICATION FairSpec
CONSTANTS
    MaxJobs = 2
    MaxBackfills = 0
    Drains = {d1, d2}
    Requests <- OversizedRequests
    Widths = {0, 2}
    Nobody = Nobody
    Other = Other
CHECK_DEADLOCK FALSE
INVARIANT TypeOK
PROPERTY DrainTerminates
