SPECIFICATION CheckpointSpec
CONSTANTS
    Hashes = {k1, k2, k3}
    Torn = Torn
    Tasks = {t1, t2, t3}
    Capacity = 3
INVARIANTS
    CheckpointTypeOK
    NoEchoes
    FileKeepsUp
SYMMETRY CheckpointSymmetry
