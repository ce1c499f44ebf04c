SPECIFICATION Spec
CONSTANTS
    None = None
    MaxDaemons = 4
    MaxRuns = 3
INVARIANTS
    TypeOK
    NoLostDaemon
    FlagTellsMode
PROPERTIES
    StopLeavesNothing
