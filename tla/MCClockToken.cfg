SPECIFICATION Spec
CONSTANTS
    Tokens = {t1, t2}
    Callers = {c1, c2}
    UserErrs = {boom}
    Nil = Nil
    Timeouts = {1}
    Deadlines = {2}
    Soon = 1
    MaxOpts = 2
    MaxTime = 2
INVARIANTS
    TypeOK
    NoEarlyExpiry
    CauseTraceable
    TightestDeadline
    LiveTokensHaveTimers
    IInv
PROPERTIES
    DeadlineHappens
    CallsReturn
