SPECIFICATION FairSpec
CONSTANTS
    Years = {1, 2}
    FirstDay <- MCFirstDay
    Length <- MCLength
    Users = {u1, u2}
    Nodes = {n1}
    Editors = {}
    Limits = {1}
    Typed = {0, 2, 32}
    FirstDate = 34
    LastDate = 37
    MaxTotal = 1
    MaxFaults = 1
    Absent = Absent
    Null = Null
INVARIANTS TypeOK CalendarAgrees DueOnTheDay ChangesPushed
PROPERTIES OncePerCycle EventuallyReset
