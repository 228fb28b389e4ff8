CONSTANTS
    p1 = p1
    p2 = p2
    r1 = r1
    r2 = r2
    Projects = {p1, p2}
    Sorted <- TwoProjects
    Manual = {p2}
    Runners = {r1}
    Flags <- Pushing
    MaxUpstream = 1
    MaxCommits = 3
    MaxRuns = 2
SPECIFICATION Spec
INVARIANTS ManualOnlyByName
CHECK_DEADLOCK FALSE
