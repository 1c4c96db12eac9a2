SPECIFICATION Spec
CONSTANTS
    n1 = n1
    a1 = a1
    a2 = a2
    Nodes = {n1}
    Conns = {a1, a2}
    NoConn = NoConn
    NodeOf <- MCNodeOf
    Flushers = {f1}
    Writers = {w1}
    MaxVersion <- MCOne
INVARIANTS
    TypeOK
    FlagsWillBeTaken
    NoChangeLost
    OneConnectionPerNode
PROPERTIES
    SilentConnectionDropped
    EventuallyDelivered
    DeliversAsPromised
CHECK_DEADLOCK FALSE
