SPECIFICATION Spec
CONSTANTS
    Lookups = {p1, p2}
    MaxRestarts = 2
INVARIANTS
    TypeOK
    RestartExclusive
    NoOrphanServer
    NoLostWakeup
    SyncedFlagIsCurrent
PROPERTIES
    Promises
SYMMETRY LookupSymmetry
