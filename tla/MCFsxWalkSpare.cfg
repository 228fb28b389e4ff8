CONSTANTS
    p1 = p1
    p2 = p2
    Procs = {p1, p2}
    Paths <- SparePaths
    Dirs <- SpareDirs
    Roots <- SpareRoot
    FileSystems <- SpareFileSystems
    Contents <- DeepContents
    MaxEdits = 1
    MaxRanges = 4
SPECIFICATION Spec
INVARIANTS ChildMatchersKept
SYMMETRY Symmetry
CHECK_DEADLOCK FALSE
