SPECIFICATION Spec
CONSTANTS
    Nodes = {n1, n2}
    Inbounds = {i1}
    Users = {u1}
    Addresses = {a1, a2}
    Ports = {1}
    Hosts = {}
    HostPort <- MCHostPort
    Confs = {c1}
    Policies = {p1}
    Absent = Absent
    None = None
INVARIANT
    NoSelfForward
VIEW MCView
