SPECIFICATION Spec
CONSTANTS
    Years = {1, 2}
    FirstDay <- MCFirstDay
    Length <- MCLength
    Users = {u1}
    Nodes = {n1}
    Editors = {e1, e2}
    Limits = {0, 1}
    Typed = {0, 2}
    FirstDate = 36
    LastDate = 38
    MaxTotal = 1
    MaxFaults = 1
    Absent = Absent
    Null = Null
INVARIANTS LedgerOwned ChangesPushed
PROPERTIES CounterFollowsLedger OncePerCycle
SYMMETRY MCSymmetry
