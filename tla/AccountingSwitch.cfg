SPECIFICATION Spec
CONSTANTS
    Years = {1, 2}
    FirstDay <- MCLongFirstDay
    Length <- MCLongLength
    Users = {u1}
    Nodes = {n1}
    Editors = {e1}
    Limits = {0}
    Typed = {0, 4}
    FirstDate = 117
    LastDate = 119
    MaxTotal = 1
    MaxFaults = 0
    Absent = Absent
    Null = Null
PROPERTIES SwitchingOnKeepsUsage
