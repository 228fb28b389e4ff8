CONSTANTS
    k1 = k1
    k2 = k2
    k3 = k3
    Keys = {k1, k2, k3}
    Values = {v1}
    None = None
    KeptOld = KeptOld
    InsertedNew = InsertedNew
    ChunkSize = 2
    MaxLoops = 1
SPECIFICATION Spec
INVARIANTS TypeOK PositionsExact NotSparse LoopVisitsAll
SYMMETRY Symmetry
