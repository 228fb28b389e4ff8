CONSTANTS
    p1 = p1
    p2 = p2
    Procs = {p1}
    Paths <- SmallPaths
    Dirs <- SmallDirs
    Roots <- SmallRoots
    FileSystems <- SmallFileSystems
    Contents = {}
    MaxEdits = 0
    MaxRanges = 3
SPECIFICATION Spec
INVARIANTS TypeOK WalkExact RefusedIffIgnored WarnedFirst
CHECK_DEADLOCK FALSE
