SPECIFICATION Spec
CONSTANTS
    Connections = {c1, c2}
    Talkers = {c1}
    Hosts <- MCHosts
    Pages <- MCPages
INVARIANTS
    TypeOK
    ResolvedIsServed
    ServedPagesReadRpc
