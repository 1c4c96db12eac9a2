------------------------------ MODULE Delivery ------------------------------
(***************************************************************************)
(* What the hub promises a connected node, whatever goroutines, timers and *)
(* flags it takes: a bit for every message, up from the moment the message *)
(* changes, or the connection opens, until the message is written as it is *)
(* in the database then, or is given up for good.                          *)
(***************************************************************************)
EXTENDS Integers

CONSTANTS
    Nodes,
    Conns,      \* connections, each used once
    NodeOf,     \* the node a connection is of
    Messages,   \* the messages a node is sent
    Nothing     \* the version of a message that was never written

VARIABLES
    db,      \* db[n][k]: version of message k of node n in the database
    live,    \* the open connections
    view,    \* view[c][k]: the version last written to c
    dirty,   \* dirty[c]: the messages that are still going to be written to c
    lapsed   \* lapsed[c]: those given up, or written current and then older

deliveryVars == <<db, live, view, dirty, lapsed>>

Blank == [k \in Messages |-> Nothing]

DeliveryTypeOK ==
    /\ db \in [Nodes -> [Messages -> Nat]]
    /\ live \subseteq Conns
    /\ view \in [Conns -> [Messages -> Nat \cup {Nothing}]]
    /\ dirty \in [Conns -> SUBSET Messages]
    /\ lapsed \in [Conns -> SUBSET Messages]

DeliveryInit ==
    /\ db = [n \in Nodes |-> [k \in Messages |-> 0]]
    /\ live = {}
    /\ view = [c \in Conns |-> Blank]
    /\ dirty = [c \in Conns |-> {}]
    /\ lapsed = [c \in Conns |-> {}]

\* The messages of c that a step changes in the database.
Changed(c) == {k \in Messages : db'[NodeOf[c]][k] # db[NodeOf[c]][k]}

\* The database moves on.  What changes is dirty from then on, and nothing that
\* was dirty is forgotten; more may be written than has changed.
Change ==
    /\ db' \in [Nodes -> [Messages -> Nat]]
    /\ \A n \in Nodes, k \in Messages : db'[n][k] >= db[n][k]
    /\ dirty' \in [Conns -> SUBSET Messages]
    /\ \A c \in Conns : IF c \in live THEN dirty[c] \cup Changed(c) \subseteq dirty'[c]
                                      ELSE dirty'[c] = {}
    /\ lapsed' = [c \in Conns |-> lapsed[c] \ Changed(c)]
    /\ UNCHANGED <<live, view>>

\* The connections D close, and nothing is owed to them any more.
Without(f, D, empty) == [c \in Conns |-> IF c \in D THEN empty ELSE f[c]]

Closes(D) ==
    /\ live' = live \ D
    /\ view' = Without(view, D, Blank)
    /\ dirty' = Without(dirty, D, {})
    /\ lapsed' = Without(lapsed, D, {})
    /\ UNCHANGED db

\* A connection opens in the place of the node's last one: it is owed everything.
Opens(c) ==
    LET D == {d \in live : NodeOf[d] = NodeOf[c]}
    IN  /\ c \notin live
        /\ live' = (live \ D) \cup {c}
        /\ view' = Without(view, D, Blank)
        /\ dirty' = [Without(dirty, D, {}) EXCEPT ![c] = Messages]
        /\ lapsed' = Without(lapsed, D, {})
        /\ UNCHANGED db

Current(c, k) == view[c][k] = db[NodeOf[c]][k]

\* Message k is written as it is now; somebody else may be due to write it again.
Writes(c, k) ==
    /\ c \in live
    /\ view' = [view EXCEPT ![c][k] = db[NodeOf[c]][k]]
    /\ dirty' \in {dirty, [dirty EXCEPT ![c] = @ \ {k}]}
    /\ lapsed' = [lapsed EXCEPT ![c] = @ \ {k}]
    /\ UNCHANGED <<db, live>>

\* Message k is written as it was before, which makes up for nothing.
WritesOld(c, k, v) ==
    /\ c \in live
    /\ v \in 0..db[NodeOf[c]][k] - 1
    /\ view' = [view EXCEPT ![c][k] = v]
    /\ lapsed' = [lapsed EXCEPT ![c] = IF Current(c, k) THEN @ \cup {k} ELSE @]
    /\ UNCHANGED <<db, live, dirty>>

\* The messages K are given up, with a line in the log.
GivesUp(c, K) ==
    /\ c \in live
    /\ dirty' \in [Conns -> SUBSET Messages]
    /\ \A d \in Conns : dirty[d] \ (IF d = c THEN K ELSE {}) \subseteq dirty'[d] /\ dirty'[d] \subseteq dirty[d]
    /\ lapsed' = [lapsed EXCEPT ![c] = @ \cup K]
    /\ UNCHANGED <<db, live, view>>

DeliveryNext ==
    \/ Change
    \/ \E D \in SUBSET Conns : Closes(D)
    \/ \E c \in Conns :
          \/ Opens(c)
          \/ \E k \in Messages : Writes(c, k) \/ \E v \in 0..db[NodeOf[c]][k] - 1 : WritesOld(c, k, v)
          \/ \E K \in SUBSET Messages : GivesUp(c, K)

DeliverySpec == DeliveryInit /\ [][DeliveryNext]_deliveryVars

-----------------------------------------------------------------------------
\* Whatever an open connection was last written is what the database says, or is
\* going to be written, or lapsed: no change is lost on the way.
InStep == \A c \in live, k \in Messages : Current(c, k) \/ k \in dirty[c] \cup lapsed[c]
=============================================================================
