SPECIFICATION Spec
CONSTANTS
    Tokens = {t1, t2, t3}
    Procs = {p1, p2}
    Errs = {e1, e2}
    Nil = Nil
INVARIANTS TypeOK NoLostCancellation UnregisterAssertions ChildrenExact IInv
PROPERTIES ImplementsTree CancelReachesChildren CancelTerminates
