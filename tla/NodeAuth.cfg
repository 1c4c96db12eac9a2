SPECIFICATION Spec
CONSTANTS
    t1 = t1
    t2 = t2
    t3 = t3
    Callers = {h1, h2}
    Keys = {a1}
    NoKey = NoKey
    Per = 2
    Burst = 1
    Ttl = 4
    Delay = 1
    MaxTime = 5
    MaxNode = 2
    Live = {2}
    Presented = {t2, t3}
    Tokens = {t1, t2, t3}
    OldToken <- MCOldToken
    NoToken = NoToken
SYMMETRY MCSymmetry
INVARIANTS
    TypeOK
    AdmittedWhenEntitled
    RefusedForCause
    Conforms
CHECK_DEADLOCK FALSE
PROPERTIES
    KeepsPromise
