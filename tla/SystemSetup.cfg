SPECIFICATION Spec
CONSTANTS
    Ports = {p1, p2}
    DefaultPort = p1
    None = None
    Empty = Empty
    Old = Old
    MaxGens = 3
INVARIANTS
    TypeOK
    CertsBelongTogether
    ServesWhatIsInstalled
    UninstallLeavesNothing
PROPERTIES
    RelaunchesOnce
