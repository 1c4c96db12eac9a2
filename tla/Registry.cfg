SPECIFICATION Spec
CONSTANTS
    Nodes = {n1, n2}
    Inbounds = {i1, i2}
    Users = {u1}
    Addresses = {a1, a2}
    Ports = {1, 2}
    Hosts = {h1}
    HostPort <- MCHostPort
    Confs = {c1}
    Policies = {p1, p2}
    Absent = Absent
    None = None
INVARIANTS
    TypeOK
    References
    SubscriptionServed
PROPERTIES
    ConfigChangesTold
    RelayKept
    UserListsTold
SYMMETRY MCSymmetry
VIEW MCView
