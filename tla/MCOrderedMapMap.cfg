CONSTANTS
    k1 = k1
    k2 = k2
    k3 = k3
    Keys = {k1, k2, k3}
    Values = {v1, v2}
    None = None
    KeptOld = KeptOld
    InsertedNew = InsertedNew
    ChunkSize = 4
    MaxLoops = 0
SPECIFICATION Spec
PROPERTIES ImplementsMap
SYMMETRY Symmetry
