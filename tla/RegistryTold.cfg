SPECIFICATION Spec
CONSTANTS
    Nodes = {n1, n2}
    Inbounds = {i1, i2}
    Users = {u1}
    Addresses = {a1}
    Ports = {1, 2}
    Hosts = {}
    HostPort <- MCHostPort
    Confs = {c1}
    Policies = {p1}
    Absent = Absent
    None = None
PROPERTY
    UserListChangesTold
VIEW MCView
