\* Superseding kinds, one-shot work and a backfill share the table.
SPECIFICATION Spec
CONSTANTS
    MaxJobs = 3
    MaxBackfills = 1
    Drains = {d1, d2}
    Requests <- SharedRequests
    Widths = {2}
    Nobody = Nobody
    Other = Other
SYMMETRY Symm
CHECK_DEADLOCK FALSE
PROPERTY OutcomesFinal
INVARIANT HeldRowsRunning
INVARIANT OneSupervisedWorker
