CONSTANTS
    p1 = p1
    p2 = p2
    r1 = r1
    r2 = r2
    Projects = {p1}
    Sorted <- OneProject
    Manual = {}
    Runners = {r1, r2}
    Flags <- Pushing
    MaxUpstream = 1
    MaxCommits = 3
    MaxRuns = 4
SPECIFICATION Spec
PROPERTIES TrailersNameHead
SYMMETRY Symmetry
CHECK_DEADLOCK FALSE
