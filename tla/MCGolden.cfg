CONSTANTS
    t1 = t1
    t2 = t2
    Tests = {t1, t2}
    Byte <- Bytes
    Roots <- TwoRoots
    RootOf <- BothInR
    Spellings <- SomeSpellings
    WorkingDirs <- SomeWorkingDirs
    Trees <- SomeTrees
SPECIFICATION Spec
INVARIANTS NormalizeSound NormalizeExact PathsStayNormal PruneExact
PROPERTIES OnlyStaleRemoved RunEnds
CHECK_DEADLOCK FALSE
