CONSTANTS
    p1 = p1
    p2 = p2
    r1 = r1
    r2 = r2
    Projects = {p1, p2}
    Sorted <- TwoProjects
    Manual = {}
    Runners = {r1}
    Flags <- AnyFlags
    MaxUpstream = 2
    MaxCommits = 4
    MaxRuns = 3
SPECIFICATION Spec
INVARIANTS TypeOK OnlyItsFolder SuccessMeansClean
PROPERTIES NeverRegresses
CHECK_DEADLOCK FALSE
