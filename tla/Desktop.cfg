SPECIFICATION Spec
CONSTANTS
    a = a
    b = b
    None = None
    Endpoints = {a, b}
    Configs <- MCConfigs
    Capacity = 1
INVARIANTS
    TypeOK
    NoServerSkipped
PROPERTIES
    TrayFollows
