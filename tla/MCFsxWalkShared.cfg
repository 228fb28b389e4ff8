CONSTANTS
    p1 = p1
    p2 = p2
    Procs = {p1, p2}
    Paths <- DeepPaths
    Dirs <- DeepDirs
    Roots <- DeepRoot
    FileSystems <- DeepFileSystems
    Contents <- DeepContents
    MaxEdits = 1
    MaxRanges = 4
SPECIFICATION Spec
INVARIANTS MatchersStable
SYMMETRY Symmetry
CHECK_DEADLOCK FALSE
