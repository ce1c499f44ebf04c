SPECIFICATION FairSpec
CONSTANTS
    Lookups = {p1}
    MaxRestarts = 2
PROPERTIES
    RestartSettles
    LookupReturns
    FollowerRuns
