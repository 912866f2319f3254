SPECIFICATION Spec
CONSTANTS
    Links <- MCLinks
    Absent <- MCAbsent
    Migrations <- MCMigrations
    NeedApproval <- MCNeedApproval
    Units <- MCUnits
    MaxWrites = 2
    MaxFaults = 2
INVARIANTS
    ProducersOnOneRelease
    NoWriteLost
    OutcomeTrue
PROPERTY RollbackCompletes
CHECK_DEADLOCK FALSE
