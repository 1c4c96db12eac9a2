SPECIFICATION Spec
CONSTANTS
    n1 = n1
    n2 = n2
    x = x
    y = y
    z = z
    a1 = a1
    a2 = a2
    Requests = {p1, p2}
    Nodes = {n1, n2}
    MaxInbound = 2
    MaxRequests = 3
    Names = {x, y, z}
    Slugs = {"x", "y"}
    Slug <- MCSlug
    Typed = "typed"
    Addresses = {a1, a2}
    Ports = {1, 2}
    Starts <- MCStarts
    Absent = Absent
    None = None
SYMMETRY MCSymmetry
INVARIANTS
    TypeOK
    TagsAgree
    RowsAgree
    EveryChangeTold
    TagsFollowName
CHECK_DEADLOCK FALSE
