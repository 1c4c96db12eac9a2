SPECIFICATION Spec
CONSTANTS
    Requests = {r1, r2}
    Shells = {x1, x2}
    Accounts = {a1, a2}
    Window = 1
    MaxTime = 2
    MaxGeneration = 2
    None = None
INVARIANT SetupWindowFromBoot
