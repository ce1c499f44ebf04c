SPECIFICATION Spec
CONSTANTS
    Cids = {c1, c2}
    Names = {n1}
    Handlers = {h1}
    Follower = follower
    Nothing = Nothing
    MaxClock = 2
    ProbeLimit = 1
INVARIANTS
    TypeOK
PROPERTIES
    NoRepeatedVersion
    NewVersionIsNewest
    HistorySpec
SYMMETRY CidSymmetry
VIEW Live
