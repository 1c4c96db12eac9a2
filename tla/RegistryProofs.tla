--------------------------- MODULE RegistryProofs ---------------------------
(***************************************************************************)
(* Theorems about Registry, for any sets of nodes, inbounds, users,        *)
(* addresses, ports and policies.                                          *)
(***************************************************************************)
EXTENDS Registry, TLAPS

USE DEF LiveNodes, LiveInbounds

-----------------------------------------------------------------------------
(***************************************************************************)
(* Type correctness.                                                       *)
(***************************************************************************)

\* The place of an inbound that resolveRelay lets through is one of three.
LEMMA PlaceShape ==
    ASSUME NEW n, NEW p, NEW x, NEW s \in ResolveRelay(n, p, x)
    PROVE  /\ s.host \in Hosts \cup {None}
           /\ s.relay \in Nodes \cup {None}
           /\ s.relayPort \in Ports \cup {None}
           /\ s.relay = None \/ s.host = None
           /\ s.relay = None <=> s.relayPort = None
  BY RegistryAssumption DEF ResolveRelay

LEMMA TypeCorrectInit == Init => TypeOK
  BY DEF Init, TypeOK

\* RelayOf yields nodes.
LEMMA RelayOfNodes ==
    ASSUME TypeOK, NEW i \in LiveInbounds
    PROVE  /\ inbound[i] \in InboundRow
           /\ inbound[i].node \in Nodes
           /\ RelayOf(i) \subseteq Nodes
  BY DEF TypeOK, RelayOf, InboundRow

\* What each operation leaves in the row of the inbound it is about.
LEMMA CreateYields ==
    ASSUME TypeOK, NEW i \in Inbounds, NEW n \in Nodes, NEW p \in Ports, NEW c \in Confs,
           NEW s \in Places, CreateInbound(i, n, p, c, s)
    PROVE  /\ \A j \in Inbounds \ {i} : inbound'[j] = inbound[j]
           /\ inbound' = [inbound EXCEPT ![i] = inbound'[i]]
           /\ inbound'[i] \in InboundRow
           /\ inbound'[i].node = n /\ inbound'[i].relay = s.relay
<1>1. inbound' = [inbound EXCEPT ![i] =
          [node |-> n, tag |-> 0, port |-> p, conf |-> c, enabled |-> TRUE,
           host |-> s.host, relay |-> s.relay, relayPort |-> s.relayPort]]
  BY DEF CreateInbound
<1>2. s \in ResolveRelay(n, p, {})
  BY DEF CreateInbound
<1> QED BY <1>1, <1>2, PlaceShape DEF TypeOK, InboundRow

LEMMA EditYields ==
    ASSUME TypeOK, NEW i \in Inbounds, NEW p \in Ports, NEW c \in Confs, NEW s \in Places,
           EditInbound(i, p, c, s)
    PROVE  /\ \A j \in Inbounds \ {i} : inbound'[j] = inbound[j]
           /\ inbound' = [inbound EXCEPT ![i] = inbound'[i]]
           /\ inbound'[i] \in InboundRow
           /\ inbound'[i].node = inbound[i].node
           /\ inbound'[i].tag = inbound[i].tag
           /\ inbound'[i].enabled = inbound[i].enabled
           /\ inbound'[i].port = p /\ inbound'[i].conf = c
           /\ inbound'[i].relay = s.relay /\ inbound'[i].relayPort = s.relayPort
<1>1. inbound' = [inbound EXCEPT ![i] = [@ EXCEPT !.port = p, !.conf = c, !.host = s.host,
                                        !.relay = s.relay, !.relayPort = s.relayPort]]
  BY DEF EditInbound
<1>2. inbound[i] \in InboundRow
  BY RelayOfNodes DEF EditInbound
<1>3. /\ s.host \in Hosts \cup {None}
      /\ s.relay \in Nodes \cup {None}
      /\ s.relayPort \in Ports \cup {None}
      /\ s.relay = None \/ s.host = None
      /\ s.relay = None <=> s.relayPort = None
  BY PlaceShape DEF EditInbound
<1>4. /\ \A j \in Inbounds \ {i} : inbound'[j] = inbound[j]
      /\ inbound' = [inbound EXCEPT ![i] = inbound'[i]]
  BY <1>1 DEF TypeOK
<1> DEFINE r == inbound[i]
           Cols == [node : Nodes, tag : {0, 1}, port : Ports, conf : Confs, enabled : BOOLEAN,
                    host : Hosts \cup {None}, relay : Nodes \cup {None},
                    relayPort : Ports \cup {None}]
           Same(x) == x.node = r.node /\ x.tag = r.tag /\ x.enabled = r.enabled
           t == [[r EXCEPT !.port = p] EXCEPT !.conf = c]
           u == [[t EXCEPT !.host = s.host] EXCEPT !.relay = s.relay]
           v == [u EXCEPT !.relayPort = s.relayPort]
<1>5. t \in Cols /\ Same(t) /\ t.port = p /\ t.conf = c
  BY <1>2 DEF InboundRow
<1>6. u \in Cols /\ Same(u) /\ u.port = p /\ u.conf = c /\ u.host = s.host /\ u.relay = s.relay
  <2> HIDE DEF t
  <2> QED BY <1>3, <1>5
<1>7. /\ v \in Cols /\ Same(v) /\ v.port = p /\ v.conf = c
      /\ v.host = s.host /\ v.relay = s.relay /\ v.relayPort = s.relayPort
  <2> HIDE DEF u
  <2> QED BY <1>3, <1>6
<1>8. inbound'[i] = v
  BY <1>1 DEF TypeOK
<1>9. v \in InboundRow
  <2> HIDE DEF v
  <2> QED BY <1>3, <1>7 DEF InboundRow
<1> HIDE DEF v
<1> QED BY <1>4, <1>7, <1>8, <1>9

LEMMA SwitchYields ==
    ASSUME TypeOK, NEW i \in Inbounds, NEW e \in BOOLEAN, SetInboundEnabled(i, e)
    PROVE  /\ \A j \in Inbounds \ {i} : inbound'[j] = inbound[j]
           /\ inbound' = [inbound EXCEPT ![i] = inbound'[i]]
           /\ inbound'[i] \in InboundRow
           /\ inbound'[i].node = inbound[i].node /\ inbound'[i].relay = inbound[i].relay
<1>1. inbound[i] \in InboundRow
  BY RelayOfNodes DEF SetInboundEnabled
<1>2. inbound' = [inbound EXCEPT ![i].enabled = e]
  BY DEF SetInboundEnabled
<1> QED BY <1>1, <1>2 DEF TypeOK, InboundRow

LEMMA RetagYields ==
    ASSUME TypeOK, NEW n \in Nodes, NEW R \in SUBSET Inbounds, R \subseteq NodeInbounds(n),
           inbound' = Retagged(R), NEW i \in Inbounds
    PROVE  /\ i \notin R => inbound'[i] = inbound[i]
           /\ i \in R => /\ inbound[i] \in InboundRow /\ inbound'[i] \in InboundRow
                         /\ inbound'[i].node = inbound[i].node
                         /\ inbound'[i].relay = inbound[i].relay
<1>1. CASE i \notin R
  BY <1>1 DEF Retagged
<1>2. CASE i \in R
  <2>1. inbound[i] \in InboundRow
    BY <1>2 DEF NodeInbounds, TypeOK
  <2>2. inbound'[i] = [inbound[i] EXCEPT !.tag = 1 - @]
    BY <1>2 DEF Retagged
  <2> QED BY <1>2, <2>1, <2>2 DEF InboundRow
<1> QED BY <1>1, <1>2

\* A step of a node is one of three operations.
LEMMA NodeStepCases ==
    ASSUME TypeOK, NEW n \in Nodes, NodeStep(n)
    PROVE  \/ \E a \in Addresses : CreateNode(n, a)
           \/ \E e \in BOOLEAN, a \in Addresses, R \in SUBSET Inbounds : UpdateNode(n, e, a, R)
           \/ DeleteNode(n)
<1>1. n \in LiveNodes => node[n].enabled \in BOOLEAN /\ node[n].address \in Addresses
  BY DEF TypeOK, NodeRow
<1>2. CASE \E a \in Addresses, R \in SUBSET Inbounds :
             n \in LiveNodes /\ UpdateNode(n, node[n].enabled, a, R)
  BY <1>1, <1>2
<1>3. CASE n \in LiveNodes /\ UpdateNode(n, ~node[n].enabled, node[n].address, {})
  <2>1. (~node[n].enabled) \in BOOLEAN
    OBVIOUS
  <2> QED BY <1>1, <1>3, <2>1
<1> QED BY <1>2, <1>3 DEF NodeStep

LEMMA NodeStepTypes ==
    ASSUME TypeOK, NEW n \in Nodes, NodeStep(n)
    PROVE  TypeOK'
<1>1. ASSUME NEW a \in Addresses, CreateNode(n, a) PROVE TypeOK'
  BY <1>1 DEF CreateNode, TypeOK, NodeRow, Tell
<1>2. ASSUME NEW e \in BOOLEAN, NEW a \in Addresses, NEW R \in SUBSET Inbounds, UpdateNode(n, e, a, R)
      PROVE  TypeOK'
  <2>1. node' \in [Nodes -> NodeRow \cup {Absent}]
    BY <1>2 DEF UpdateNode, TypeOK, NodeRow
  <2>2. inbound' \in [Inbounds -> InboundRow \cup {Absent}]
    <3>1. inbound' = Retagged(R) /\ R \subseteq NodeInbounds(n)
      BY <1>2 DEF UpdateNode
    <3>2. \A i \in Inbounds : inbound'[i] \in InboundRow \cup {Absent}
      BY <3>1, RetagYields DEF TypeOK
    <3> QED BY <3>1, <3>2 DEF Retagged
  <2>3. UNION {RelayOf(i) : i \in NodeInbounds(n)} \subseteq Nodes
    BY RelayOfNodes DEF NodeInbounds
  <2>4. told' \in [config : SUBSET Nodes, users : BOOLEAN]
    BY <1>2, <2>3 DEF UpdateNode, Tell
  <2> QED BY <1>2, <2>1, <2>2, <2>4 DEF UpdateNode, TypeOK
<1>3. ASSUME DeleteNode(n) PROVE TypeOK'
  <2>1. UNION {RelayOf(i) : i \in NodeInbounds(n)} \subseteq Nodes
    BY RelayOfNodes DEF NodeInbounds
  <2> QED BY <1>3, <2>1 DEF DeleteNode, Without, Tell, TypeOK
<1> QED BY <1>1, <1>2, <1>3, NodeStepCases

LEMMA InboundStepTypes ==
    ASSUME TypeOK, NEW i \in Inbounds, InboundStep(i)
    PROVE  TypeOK'
<1>1. ASSUME NEW p \in Ports, NEW c \in Confs, NEW s \in Places, NEW n \in Nodes,
             CreateInbound(i, n, p, c, s)
      PROVE  TypeOK'
  <2>1. {n} \cup ({s.relay} \ {None}) \subseteq Nodes
    BY <1>1, PlaceShape DEF CreateInbound
  <2> QED BY <1>1, <2>1, CreateYields DEF CreateInbound, Tell, TypeOK
<1>2. ASSUME NEW p \in Ports, NEW c \in Confs, NEW s \in Places, EditInbound(i, p, c, s)
      PROVE  TypeOK'
  <2>1. inbound[i] \in InboundRow
    BY <1>2, RelayOfNodes DEF EditInbound
  <2>2. {inbound[i].node} \subseteq Nodes /\ {inbound[i].relay, s.relay} \ {None} \subseteq Nodes
    BY <1>2, <2>1, PlaceShape DEF EditInbound, InboundRow
  <2>3. inbound' \in [Inbounds -> InboundRow \cup {Absent}]
    BY <1>2, EditYields DEF TypeOK
  <2>4. told' \in [config : SUBSET Nodes, users : BOOLEAN]
    BY <1>2, <2>2 DEF EditInbound, Tell
  <2> QED BY <1>2, <2>3, <2>4 DEF EditInbound, TypeOK
<1>3. ASSUME NEW e \in BOOLEAN, SetInboundEnabled(i, e) PROVE TypeOK'
  <2>1. inbound[i].node \in Nodes /\ RelayOf(i) \subseteq Nodes
    BY <1>3, RelayOfNodes DEF SetInboundEnabled
  <2> QED BY <1>3, <2>1, SwitchYields DEF SetInboundEnabled, Tell, TypeOK
<1>4. ASSUME DeleteInbound(i) PROVE TypeOK'
  <2>1. inbound[i].node \in Nodes /\ RelayOf(i) \subseteq Nodes
    BY <1>4, RelayOfNodes DEF DeleteInbound
  <2> QED BY <1>4, <2>1 DEF DeleteInbound, Without, Tell, TypeOK
<1> QED BY <1>1, <1>2, <1>3, <1>4 DEF InboundStep

LEMMA UserStepTypes ==
    ASSUME TypeOK, NEW u \in Users, UserStep(u)
    PROVE  TypeOK'
<1> USE DEF TypeOK, TellUsers, Tell
<1>1. ASSUME NEW st \in Status, CreateUser(u, st) PROVE TypeOK'
  BY <1>1 DEF CreateUser
<1>2. ASSUME NEW st \in Status, UpdateUser(u, st) PROVE TypeOK'
  BY <1>2 DEF UpdateUser
<1>3. ASSUME NEW st \in Status, NEW n \in Nodes, RecordTraffic(n, u, st) PROVE TypeOK'
  BY <1>3 DEF RecordTraffic
<1>4. ASSUME NEW st \in Status \cup {"absent"}, ResetUserTraffic(u, st) PROVE TypeOK'
  BY <1>4 DEF ResetUserTraffic
<1>5. ASSUME DeleteUser(u) PROVE TypeOK'
  BY <1>5 DEF DeleteUser
<1>6. ASSUME NEW I \in SUBSET Inbounds, SetUserInbounds(u, I) PROVE TypeOK'
  BY <1>6 DEF SetUserInbounds
<1> QED BY <1>1, <1>2, <1>3, <1>4, <1>5, <1>6 DEF UserStep

\* Every column keeps its type, and no inbound is ever reached at two places.
THEOREM TypeCorrect == Spec => []TypeOK
<1>1. ASSUME TypeOK, [Next]_vars PROVE TypeOK'
  <2>1. ASSUME NEW p \in Policies, SetPolicy(p) PROVE TypeOK'
    BY <1>1, <2>1 DEF SetPolicy, Tell, TypeOK
  <2>2. ASSUME NEW u \in Users, Expire(u) PROVE TypeOK'
    BY <1>1, <2>2 DEF Expire, Status, Tell, TypeOK
  <2>3. CASE UNCHANGED vars
    BY <1>1, <2>3 DEF vars, TypeOK
  <2> QED BY <1>1, <2>1, <2>2, <2>3, NodeStepTypes, InboundStepTypes, UserStepTypes
          DEF Next, Operation
<1> QED BY <1>1, TypeCorrectInit, PTL DEF Spec

-----------------------------------------------------------------------------
(***************************************************************************)
(* References lead to rows.                                                *)
(***************************************************************************)

LEMMA NodeStepReferences ==
    ASSUME TypeOK, References, NEW n \in Nodes, NodeStep(n)
    PROVE  References'
<1> USE DEF References, RelayOf
<1>1. ASSUME NEW a \in Addresses, CreateNode(n, a) PROVE References'
  BY <1>1, RegistryAssumption DEF CreateNode, TypeOK, NodeRow
<1>2. ASSUME NEW e \in BOOLEAN, NEW a \in Addresses, NEW R \in SUBSET Inbounds, UpdateNode(n, e, a, R)
      PROVE  References'
  <2>1. LiveNodes' = LiveNodes
    BY <1>2, RegistryAssumption DEF UpdateNode, TypeOK, NodeRow
  <2>2. ASSUME NEW i \in Inbounds
        PROVE  /\ inbound'[i] = Absent <=> inbound[i] = Absent
               /\ i \in LiveInbounds => /\ inbound'[i].node = inbound[i].node
                                        /\ inbound'[i].relay = inbound[i].relay
    <3>1. inbound' = Retagged(R) /\ R \subseteq NodeInbounds(n)
      BY <1>2 DEF UpdateNode
    <3> QED BY <3>1, RetagYields, RegistryAssumption DEF NodeInbounds
  <2>3. LiveInbounds' = LiveInbounds
    BY <2>2
  <2>4. user' = user /\ access' = access
    BY <1>2 DEF UpdateNode
  <2> QED BY <2>1, <2>2, <2>3, <2>4
<1>3. ASSUME DeleteNode(n) PROVE References'
  <2>1. LiveNodes' = LiveNodes \ {n}
    BY <1>3 DEF DeleteNode, TypeOK
  <2>2. LiveInbounds' = LiveInbounds \ NodeInbounds(n)
    BY <1>3 DEF DeleteNode, Without, NodeInbounds
  <2>3. \A i \in LiveInbounds' : inbound'[i] = inbound[i]
    BY <1>3 DEF DeleteNode, Without
  <2>4. \A i \in LiveInbounds' : inbound[i].node # n /\ inbound[i].relay # n
    BY <1>3, <2>2 DEF DeleteNode, NodeInbounds, InboundsRelayedVia
  <2>5. \A u \in Users : access'[u] = access[u] \ NodeInbounds(n) /\ user'[u] = user[u]
    BY <1>3 DEF DeleteNode, Without
  <2> QED BY <2>1, <2>2, <2>3, <2>4, <2>5
<1> QED BY <1>1, <1>2, <1>3, NodeStepCases

LEMMA InboundStepReferences ==
    ASSUME TypeOK, References, NEW i \in Inbounds, InboundStep(i)
    PROVE  References'
<1> USE DEF References, RelayOf
<1>0. ASSUME \A j \in Inbounds \ {i} : inbound'[j] = inbound[j],
             inbound'[i] # Absent,
             inbound'[i].node \in LiveNodes,
             {inbound'[i].relay} \ {None} \subseteq LiveNodes \ {inbound'[i].node},
             node' = node, user' = user, access' = access
      PROVE  References'
  BY <1>0
<1>1. ASSUME NEW p \in Ports, NEW c \in Confs, NEW s \in Places, NEW n \in Nodes,
             CreateInbound(i, n, p, c, s)
      PROVE  References'
  <2>1. n \in LiveNodes /\ {s.relay} \ {None} \subseteq LiveNodes \ {n}
    BY <1>1 DEF CreateInbound, ResolveRelay, CheckRelay
  <2>2. UNCHANGED <<node, user, access>>
    BY <1>1 DEF CreateInbound
  <2> QED BY <1>0, <1>1, <2>1, <2>2, CreateYields, RegistryAssumption
<1>2. ASSUME NEW p \in Ports, NEW c \in Confs, NEW s \in Places, EditInbound(i, p, c, s)
      PROVE  References'
  <2>1. i \in LiveInbounds /\ {s.relay} \ {None} \subseteq LiveNodes \ {inbound[i].node}
    BY <1>2 DEF EditInbound, ResolveRelay, CheckRelay
  <2>2. UNCHANGED <<node, user, access>>
    BY <1>2 DEF EditInbound
  <2> QED BY <1>0, <1>2, <2>1, <2>2, EditYields, RegistryAssumption
<1>3. ASSUME NEW e \in BOOLEAN, SetInboundEnabled(i, e) PROVE References'
  <2>1. i \in LiveInbounds /\ UNCHANGED <<node, user, access>>
    BY <1>3 DEF SetInboundEnabled
  <2> QED BY <1>0, <1>3, <2>1, SwitchYields, RegistryAssumption
<1>4. ASSUME DeleteInbound(i) PROVE References'
  BY <1>4 DEF DeleteInbound, Without
<1> QED BY <1>1, <1>2, <1>3, <1>4 DEF InboundStep

LEMMA UserStepReferences ==
    ASSUME TypeOK, References, NEW u \in Users, UserStep(u)
    PROVE  References'
<1> USE DEF References, RelayOf, TypeOK
<1>1. ASSUME NEW st \in Status, CreateUser(u, st) \/ UpdateUser(u, st) PROVE References'
  BY <1>1 DEF CreateUser, UpdateUser, Status
<1>2. ASSUME NEW st \in Status, NEW n \in Nodes, RecordTraffic(n, u, st) PROVE References'
  BY <1>2 DEF RecordTraffic, Status, NodeUserIDs
<1>3. ASSUME NEW st \in Status \cup {"absent"}, ResetUserTraffic(u, st) PROVE References'
  BY <1>3 DEF ResetUserTraffic, Status
<1>4. ASSUME DeleteUser(u) PROVE References'
  BY <1>4 DEF DeleteUser
<1>5. ASSUME NEW I \in SUBSET Inbounds, SetUserInbounds(u, I) PROVE References'
  BY <1>5 DEF SetUserInbounds
<1> QED BY <1>1, <1>2, <1>3, <1>4, <1>5 DEF UserStep

\* No operation leaves a reference to a row that is gone, and no node relays
\* for itself.
THEOREM ReferencesHold == Spec => []References
<1>1. Init => References
  BY DEF Init, References
<1>2. ASSUME TypeOK, References, [Next]_vars PROVE References'
  <2>1. ASSUME NEW p \in Policies, SetPolicy(p) PROVE References'
    BY <1>2, <2>1 DEF SetPolicy, References, RelayOf
  <2>2. ASSUME NEW u \in Users, Expire(u) PROVE References'
    BY <1>2, <2>2 DEF Expire, References, RelayOf, TypeOK
  <2>3. CASE UNCHANGED vars
    BY <1>2, <2>3 DEF vars, References, RelayOf
  <2> QED BY <1>2, <2>1, <2>2, <2>3, NodeStepReferences, InboundStepReferences, UserStepReferences
          DEF Next, Operation
<1> QED BY <1>1, <1>2, TypeCorrect, PTL DEF Spec

-----------------------------------------------------------------------------
(***************************************************************************)
(* Configuration changes are told.  What node n sees of inbound i is its   *)
(* listener, the relay listener it runs for it, or nothing; an operation   *)
(* that does not tell n leaves every inbound looking the same to n.        *)
(***************************************************************************)

Own(n) == Enabled(NodeInbounds(n))
Carried(n) == {j \in Enabled(InboundsRelayedVia(n)) :
                  inbound[j].node \in LiveNodes /\ node[inbound[j].node].enabled}

OwnView(i, n)   == IF i \in Own(n) THEN {Listener(i)} ELSE {}
RelayView(i, n) == IF i \in Carried(n) THEN {RelayListener(i)} ELSE {}

Config(n) ==
    [own    |-> IF node[n].enabled THEN UNION {OwnView(i, n) : i \in Inbounds} ELSE {},
     relays |-> IF node[n].enabled THEN UNION {RelayView(i, n) : i \in Inbounds} ELSE {},
     rules  |-> policy]

\* A configuration is what its node sees of each inbound.
LEMMA ConfigIsViews ==
    ASSUME NEW n \in Nodes
    PROVE  NodeConfig(n) = Config(n)
<1>1. {Listener(i) : i \in Own(n)} = UNION {OwnView(i, n) : i \in Inbounds}
  <2> HIDE DEF Listener
  <2> QED BY DEF OwnView, Own, Enabled, NodeInbounds
<1>2. {RelayListener(i) : i \in Carried(n)} = UNION {RelayView(i, n) : i \in Inbounds}
  BY DEF RelayView, Carried, Enabled, InboundsRelayedVia
<1>3. RelayInbounds(n) = {RelayListener(i) : i \in Carried(n)}
  BY DEF RelayInbounds, Carried
<1> QED BY <1>1, <1>2, <1>3 DEF NodeConfig, Config, Own

LEMMA ConfigIsViewsNext ==
    ASSUME NEW n \in Nodes
    PROVE  NodeConfig(n)' = Config(n)'
<1>1. {Listener(i) : i \in Own(n)}' = (UNION {OwnView(i, n) : i \in Inbounds})'
  BY DEF OwnView, Own, Enabled, NodeInbounds
<1>2. {RelayListener(i) : i \in Carried(n)}' = (UNION {RelayView(i, n) : i \in Inbounds})'
  BY DEF RelayView, Carried, Enabled, InboundsRelayedVia
<1>3. RelayInbounds(n)' = {RelayListener(i) : i \in Carried(n)}'
  BY DEF RelayInbounds, Carried
<1> QED BY <1>1, <1>2, <1>3 DEF NodeConfig, Config, Own

\* The same inbounds seen by the same node under the same policy.
LEMMA SameConfig ==
    ASSUME NEW n \in Nodes, node'[n].enabled = node[n].enabled, policy' = policy,
           \A i \in Inbounds : OwnView(i, n)' = OwnView(i, n) /\ RelayView(i, n)' = RelayView(i, n)
    PROVE  NodeConfig(n)' = NodeConfig(n)
<1>1. {OwnView(i, n) : i \in Inbounds}' = {OwnView(i, n) : i \in Inbounds}
  OBVIOUS
<1>2. {RelayView(i, n) : i \in Inbounds}' = {RelayView(i, n) : i \in Inbounds}
  OBVIOUS
<1> QED BY <1>1, <1>2, ConfigIsViews, ConfigIsViewsNext DEF Config

\* An inbound whose row stays, and whose node stays if n carries it.
LEMMA SameRow ==
    ASSUME NEW n \in Nodes, NEW i \in Inbounds, inbound'[i] = inbound[i],
           i \in InboundsRelayedVia(n) =>
              /\ inbound[i].node \in Nodes
              /\ node'[inbound[i].node] = node[inbound[i].node]
    PROVE  OwnView(i, n)' = OwnView(i, n) /\ RelayView(i, n)' = RelayView(i, n)
<1>1. OwnView(i, n)' = OwnView(i, n)
  BY DEF OwnView, Own, Enabled, NodeInbounds, Listener
<1>2. RelayView(i, n)' = RelayView(i, n)
  BY DEF RelayView, Carried, Enabled, InboundsRelayedVia, RelayListener
<1> QED BY <1>1, <1>2

\* An inbound that is neither n's nor carried by n, before and after.
LEMMA NotSeen ==
    ASSUME NEW n \in Nodes, NEW i \in Inbounds,
           i \notin NodeInbounds(n) \cup InboundsRelayedVia(n),
           i \notin (NodeInbounds(n) \cup InboundsRelayedVia(n))'
    PROVE  OwnView(i, n)' = OwnView(i, n) /\ RelayView(i, n)' = RelayView(i, n)
  BY DEF OwnView, Own, RelayView, Carried, Enabled

LEMMA NodeStepConfig ==
    ASSUME TypeOK, References, NEW m \in Nodes, NodeStep(m),
           NEW n \in LiveNodes, n \in LiveNodes', n \notin told'.config
    PROVE  NodeConfig(n)' = NodeConfig(n)
<1>0. \A i \in InboundsRelayedVia(n) :
         /\ i \in LiveInbounds /\ inbound[i].node \in LiveNodes /\ inbound[i].node # n
  BY RegistryAssumption DEF References, InboundsRelayedVia, RelayOf
<1>1. ASSUME NEW a \in Addresses, CreateNode(m, a) PROVE NodeConfig(n)' = NodeConfig(n)
  <2>1. m # n /\ \A k \in Nodes \ {m} : node'[k] = node[k]
    BY <1>1 DEF CreateNode, TypeOK
  <2>2. \A i \in InboundsRelayedVia(n) : inbound[i].node # m
    BY <1>0, <1>1 DEF CreateNode
  <2>3. inbound' = inbound /\ policy' = policy
    BY <1>1 DEF CreateNode
  <2>4. \A i \in Inbounds : OwnView(i, n)' = OwnView(i, n) /\ RelayView(i, n)' = RelayView(i, n)
    BY <1>0, <2>1, <2>2, <2>3, SameRow
  <2> QED BY <2>1, <2>3, <2>4, SameConfig
<1>2. ASSUME NEW e \in BOOLEAN, NEW a \in Addresses, NEW R \in SUBSET Inbounds, UpdateNode(m, e, a, R)
      PROVE  NodeConfig(n)' = NodeConfig(n)
  <2> DEFINE turned == e # node[m].enabled \/ R # {}
             moved == a # node[m].address
  <2>1. /\ inbound' = Retagged(R) /\ R \subseteq NodeInbounds(m) /\ policy' = policy
        /\ node' = [node EXCEPT ![m] = [enabled |-> e, address |-> a]]
        /\ m \in LiveNodes
    BY <1>2 DEF UpdateNode
  <2>2. told'.config = (IF turned THEN {m} ELSE {})
                  \cup (IF turned \/ moved THEN UNION {RelayOf(i) : i \in NodeInbounds(m)} ELSE {})
    BY <1>2 DEF UpdateNode, Tell
  <2>3. CASE ~turned /\ ~moved
    <3>1. \A i \in Inbounds : inbound'[i] = inbound[i]
      BY <2>1, <2>3, RetagYields
    <3>2. \A k \in Nodes : node'[k] = node[k]
      BY <2>1, <2>3 DEF TypeOK, NodeRow
    <3>3. \A i \in Inbounds : OwnView(i, n)' = OwnView(i, n) /\ RelayView(i, n)' = RelayView(i, n)
      BY <1>0, <3>1, <3>2, SameRow
    <3> QED BY <2>1, <3>2, <3>3, SameConfig
  <2>4. CASE turned \/ moved
    <3>1. \A i \in NodeInbounds(m) : i \notin InboundsRelayedVia(n)
      BY <2>2, <2>4, RegistryAssumption DEF RelayOf, InboundsRelayedVia
    <3>2. node'[n].enabled = node[n].enabled
      BY <2>1, <2>2 DEF TypeOK
    <3>3. ASSUME NEW i \in Inbounds
          PROVE  OwnView(i, n)' = OwnView(i, n) /\ RelayView(i, n)' = RelayView(i, n)
      <4>1. CASE i \in R
        <5>1. n # m
          BY <2>2, <4>1
        <5>2. /\ inbound[i].node = m /\ inbound'[i].node = m
              /\ inbound'[i].relay = inbound[i].relay
          BY <2>1, <4>1, RetagYields DEF NodeInbounds
        <5>3. i \notin InboundsRelayedVia(n) /\ i \in LiveInbounds
          BY <2>1, <3>1, <4>1 DEF NodeInbounds
        <5> QED BY <5>1, <5>2, <5>3, NotSeen DEF NodeInbounds, InboundsRelayedVia
      <4>2. CASE i \notin R
        <5>1. inbound'[i] = inbound[i]
          BY <2>1, <4>2, RetagYields
        <5>2. i \in InboundsRelayedVia(n) => inbound[i].node # m
          BY <1>0, <3>1 DEF NodeInbounds
        <5>3. \A k \in Nodes \ {m} : node'[k] = node[k]
          BY <2>1 DEF TypeOK
        <5> QED BY <1>0, <5>1, <5>2, <5>3, SameRow
      <4> QED BY <4>1, <4>2
    <3> QED BY <2>1, <3>2, <3>3, SameConfig
  <2> QED BY <2>3, <2>4
<1>3. ASSUME DeleteNode(m) PROVE NodeConfig(n)' = NodeConfig(n)
  <2>1. m # n /\ \A k \in Nodes \ {m} : node'[k] = node[k]
    BY <1>3 DEF DeleteNode, TypeOK
  <2>2. \A i \in NodeInbounds(m) : i \notin InboundsRelayedVia(n) /\ i \notin NodeInbounds(n)
    BY <1>3, <2>1, RegistryAssumption DEF DeleteNode, Tell, RelayOf, InboundsRelayedVia, NodeInbounds
  <2>3. ASSUME NEW i \in Inbounds
        PROVE  OwnView(i, n)' = OwnView(i, n) /\ RelayView(i, n)' = RelayView(i, n)
    <3>1. CASE i \in NodeInbounds(m)
      <4>1. inbound'[i] = Absent
        BY <1>3, <3>1 DEF DeleteNode, Without
      <4> QED BY <2>2, <3>1, <4>1, NotSeen DEF NodeInbounds, InboundsRelayedVia
    <3>2. CASE i \notin NodeInbounds(m)
      <4>1. inbound'[i] = inbound[i]
        BY <1>3, <3>2 DEF DeleteNode, Without
      <4>2. i \in InboundsRelayedVia(n) => inbound[i].node # m
        BY <1>0, <3>2 DEF NodeInbounds
      <4> QED BY <1>0, <2>1, <4>1, <4>2, SameRow
    <3> QED BY <3>1, <3>2
  <2>4. policy' = policy
    BY <1>3 DEF DeleteNode
  <2> QED BY <2>1, <2>3, <2>4, SameConfig
<1> QED BY <1>1, <1>2, <1>3, NodeStepCases

LEMMA InboundStepConfig ==
    ASSUME TypeOK, References, NEW i \in Inbounds, InboundStep(i),
           NEW n \in LiveNodes, n \notin told'.config
    PROVE  NodeConfig(n)' = NodeConfig(n)
<1>0. \A j \in InboundsRelayedVia(n) : inbound[j].node \in Nodes /\ inbound[j].node # n
  BY RegistryAssumption DEF References, InboundsRelayedVia, RelayOf
\* Only what n sees of i is left to be shown.
<1>1. ASSUME \A j \in Inbounds \ {i} : inbound'[j] = inbound[j], node' = node, policy' = policy,
             OwnView(i, n)' = OwnView(i, n), RelayView(i, n)' = RelayView(i, n)
      PROVE  NodeConfig(n)' = NodeConfig(n)
  <2>1. \A j \in Inbounds \ {i} :
           OwnView(j, n)' = OwnView(j, n) /\ RelayView(j, n)' = RelayView(j, n)
    BY <1>0, <1>1, SameRow
  <2> QED BY <1>1, <2>1, SameConfig
<1>2. ASSUME NEW p \in Ports, NEW c \in Confs, NEW s \in Places, NEW m \in Nodes,
             CreateInbound(i, m, p, c, s)
      PROVE  NodeConfig(n)' = NodeConfig(n)
  <2>1. node' = node /\ policy' = policy /\ inbound[i] = Absent
    BY <1>2 DEF CreateInbound
  <2>2. n # m /\ n # s.relay
    BY <1>2, RegistryAssumption DEF CreateInbound, Tell
  <2>3. inbound'[i].node = m /\ inbound'[i].relay = s.relay
    BY <1>2, CreateYields
  <2>4. OwnView(i, n)' = OwnView(i, n) /\ RelayView(i, n)' = RelayView(i, n)
    BY <2>1, <2>2, <2>3, NotSeen DEF NodeInbounds, InboundsRelayedVia
  <2> QED BY <1>1, <1>2, <2>1, <2>4, CreateYields
<1>3. ASSUME NEW p \in Ports, NEW c \in Confs, NEW s \in Places, EditInbound(i, p, c, s)
      PROVE  NodeConfig(n)' = NodeConfig(n)
  <2> DEFINE in == inbound[i]
             visible == in.port # p \/ in.conf # c
             relayed == \/ in.relay # s.relay
                        \/ in.relayPort # s.relayPort
                        \/ s.relay # None /\ in.port # p
  <2>1. /\ node' = node /\ policy' = policy /\ i \in LiveInbounds
        /\ told'.config = (IF visible THEN {in.node} ELSE {})
                              \cup (IF relayed THEN {in.relay, s.relay} \ {None} ELSE {})
    BY <1>3 DEF EditInbound, Tell
  <2>2. /\ inbound'[i].node = in.node /\ inbound'[i].tag = in.tag
        /\ inbound'[i].enabled = in.enabled /\ inbound'[i].port = p /\ inbound'[i].conf = c
        /\ inbound'[i].relay = s.relay /\ inbound'[i].relayPort = s.relayPort
        /\ i \in LiveInbounds'
    BY <1>3, EditYields, RegistryAssumption
  <2>3. OwnView(i, n)' = OwnView(i, n)
    <3>1. CASE in.node # n
      BY <2>1, <2>2, <3>1 DEF OwnView, Own, Enabled, NodeInbounds
    <3>2. CASE in.node = n
      <4>1. in.port = p /\ in.conf = c
        BY <2>1, <3>2
      <4> QED BY <2>1, <2>2, <3>2, <4>1 DEF OwnView, Own, Enabled, NodeInbounds, Listener
    <3> QED BY <3>1, <3>2
  <2>4. RelayView(i, n)' = RelayView(i, n)
    <3>1. CASE in.relay # n
      <4>1. s.relay # n
        BY <2>1, <3>1, RegistryAssumption
      <4> QED BY <2>1, <2>2, <3>1, <4>1 DEF RelayView, Carried, Enabled, InboundsRelayedVia
    <3>2. CASE in.relay = n
      <4>1. s.relay = n /\ in.relayPort = s.relayPort /\ in.port = p
        BY <2>1, <3>2, RegistryAssumption
      <4> QED BY <2>1, <2>2, <3>2, <4>1
              DEF RelayView, Carried, Enabled, InboundsRelayedVia, RelayListener
    <3> QED BY <3>1, <3>2
  <2> QED BY <1>1, <1>3, <2>1, <2>3, <2>4, EditYields
<1>4. ASSUME NEW e \in BOOLEAN, SetInboundEnabled(i, e) PROVE NodeConfig(n)' = NodeConfig(n)
  <2>1. node' = node /\ policy' = policy /\ i \in LiveInbounds
    BY <1>4 DEF SetInboundEnabled
  <2>2. inbound[i].node # n /\ inbound[i].relay # n
    BY <1>4, RegistryAssumption DEF SetInboundEnabled, Tell, RelayOf
  <2>3. OwnView(i, n)' = OwnView(i, n) /\ RelayView(i, n)' = RelayView(i, n)
    BY <1>4, <2>2, SwitchYields, NotSeen DEF NodeInbounds, InboundsRelayedVia
  <2> QED BY <1>1, <1>4, <2>1, <2>3, SwitchYields
<1>5. ASSUME DeleteInbound(i) PROVE NodeConfig(n)' = NodeConfig(n)
  <2>1. /\ node' = node /\ policy' = policy /\ inbound'[i] = Absent
        /\ \A j \in Inbounds \ {i} : inbound'[j] = inbound[j]
    BY <1>5 DEF DeleteInbound, Without
  <2>2. inbound[i].node # n /\ inbound[i].relay # n
    BY <1>5, RegistryAssumption DEF DeleteInbound, Tell, RelayOf
  <2>3. OwnView(i, n)' = OwnView(i, n) /\ RelayView(i, n)' = RelayView(i, n)
    BY <2>1, <2>2, NotSeen DEF NodeInbounds, InboundsRelayedVia
  <2> QED BY <1>1, <2>1, <2>3
<1> QED BY <1>2, <1>3, <1>4, <1>5 DEF InboundStep

\* Users are no part of a configuration.
LEMMA UserStepConfig ==
    ASSUME NEW u \in Users, UserStep(u) \/ Expire(u), NEW n \in LiveNodes
    PROVE  NodeConfig(n)' = NodeConfig(n)
<1>1. UNCHANGED <<node, inbound, policy>>
  BY DEF UserStep, CreateUser, UpdateUser, RecordTraffic, ResetUserTraffic, DeleteUser,
         SetUserInbounds, Expire
<1> QED BY <1>1 DEF NodeConfig, RelayInbounds, Listener, RelayListener, Enabled, NodeInbounds,
                    InboundsRelayedVia

\* Whatever the operation, every node whose configuration it changes is told:
\* its own node, the nodes that relay for it, and the nodes that did.
THEOREM ConfigTold == Spec => ConfigChangesTold
<1> DEFINE T == \A n \in LiveNodes :
                   n \in LiveNodes' /\ NodeConfig(n)' # NodeConfig(n) => n \in told'.config
<1>1. ASSUME TypeOK, References, [Next]_vars PROVE [T]_vars
  <2>1. ASSUME NEW p \in Policies, SetPolicy(p) PROVE T
    BY <2>1 DEF SetPolicy, Tell
  <2> QED BY <1>1, <2>1, NodeStepConfig, InboundStepConfig, UserStepConfig DEF Next, Operation
<1> QED BY <1>1, TypeCorrect, ReferencesHold, PTL DEF Spec, ConfigChangesTold

-----------------------------------------------------------------------------
(***************************************************************************)
(* Relays.                                                                 *)
(***************************************************************************)

\* A relayed inbound that survives a step and is not the one being edited keeps
\* its relay: no operation takes it away on the quiet.
THEOREM RelaysKept == Spec => RelayKept
<1> DEFINE K(i) == inbound[i].relay # None /\ i \in LiveInbounds' =>
                      \/ inbound'[i].relay = inbound[i].relay
                      \/ \E p \in Ports, c \in Confs, s \in Places : EditInbound(i, p, c, s)
<1>1. ASSUME TypeOK, [Next]_vars, NEW i \in LiveInbounds PROVE K(i) \/ UNCHANGED vars
  <2>1. ASSUME NEW n \in Nodes, NodeStep(n) PROVE K(i)
    <3>1. CASE \E a \in Addresses : CreateNode(n, a)
      BY <3>1 DEF CreateNode
    <3>2. ASSUME NEW e \in BOOLEAN, NEW a \in Addresses, NEW R \in SUBSET Inbounds, UpdateNode(n, e, a, R)
          PROVE  K(i)
      BY <1>1, <3>2, RetagYields DEF UpdateNode
    <3>3. CASE DeleteNode(n)
      BY <3>3 DEF DeleteNode, Without
    <3> QED BY <1>1, <2>1, <3>1, <3>2, <3>3, NodeStepCases
  <2>2. ASSUME NEW j \in Inbounds, InboundStep(j) PROVE K(i)
    <3>1. ASSUME NEW p \in Ports, NEW c \in Confs, NEW s \in Places, NEW m \in Nodes,
                 CreateInbound(j, m, p, c, s)
          PROVE  K(i)
      BY <1>1, <3>1, CreateYields DEF CreateInbound
    <3>2. ASSUME NEW p \in Ports, NEW c \in Confs, NEW s \in Places, EditInbound(j, p, c, s)
          PROVE  K(i)
      BY <1>1, <3>2, EditYields
    <3>3. ASSUME NEW e \in BOOLEAN, SetInboundEnabled(j, e) PROVE K(i)
      BY <1>1, <3>3, SwitchYields
    <3>4. ASSUME DeleteInbound(j) PROVE K(i)
      BY <3>4 DEF DeleteInbound, Without
    <3> QED BY <2>2, <3>1, <3>2, <3>3, <3>4 DEF InboundStep
  <2>3. ASSUME NEW u \in Users, UserStep(u) \/ Expire(u) PROVE K(i)
    <3>1. inbound' = inbound
      BY <2>3 DEF UserStep, CreateUser, UpdateUser, RecordTraffic, ResetUserTraffic, DeleteUser,
                  SetUserInbounds, Expire
    <3> QED BY <3>1
  <2>4. ASSUME NEW p \in Policies, SetPolicy(p) PROVE K(i)
    BY <2>4 DEF SetPolicy
  <2> QED BY <1>1, <2>1, <2>2, <2>3, <2>4 DEF Next, Operation
<1>2. ASSUME TypeOK, [Next]_vars PROVE [\A i \in LiveInbounds : K(i)]_vars
  BY <1>1, <1>2
<1> QED BY <1>2, TypeCorrect, PTL DEF Spec, RelayKept

-----------------------------------------------------------------------------
(***************************************************************************)
(* The user lists of a node, and who is told of them.                      *)
(***************************************************************************)

\* The lists are made of the inbounds, the users and the access alone.
LEMMA ListsUnchanged ==
    ASSUME NEW n \in Nodes, inbound' = inbound, user' = user, access' = access
    PROVE  NodeUsers(n)' = NodeUsers(n)
  BY DEF NodeUsers, UsersOf, Allowed, Enabled, NodeInbounds

\* What the cascade of a deleted node does to the restrictions.
LEMMA CascadeAdds ==
    ASSUME NEW m, NEW i \in Inbounds, i \notin NodeInbounds(m), user' = user,
           \A u \in Users : access'[u] = access[u] \ NodeInbounds(m)
    PROVE  UsersOf(i)' = UsersOf(i) \cup OnlyOn(m)
<1>1. ASSUME NEW u \in Users
      PROVE  Allowed(u, i)' <=> Allowed(u, i) \/ (access[u] # {} /\ access[u] \subseteq NodeInbounds(m))
  BY DEF Allowed
<1> QED BY <1>1 DEF UsersOf, OnlyOn

\* The inbounds of the other nodes are as they were.
LEMMA DeletionWidens ==
    ASSUME NEW m \in Nodes, DeleteNode(m), NEW n \in Nodes, n # m
    PROVE  NodeUsers(n)' = {[l EXCEPT !.users = @ \cup OnlyOn(m)] : l \in NodeUsers(n)}
<1> DEFINE List(i) == [inbound |-> i, tag |-> inbound[i].tag, users |-> UsersOf(i)]
           Wide(i) == [inbound |-> i, tag |-> inbound[i].tag, users |-> UsersOf(i) \cup OnlyOn(m)]
           I == Enabled(NodeInbounds(n))
<1>1. \A i \in Inbounds : inbound'[i] = IF i \in NodeInbounds(m) THEN Absent ELSE inbound[i]
  BY DEF DeleteNode, Without
<1>2. \A i \in NodeInbounds(n) : i \in Inbounds /\ i \notin NodeInbounds(m)
  BY DEF NodeInbounds
<1>3. NodeInbounds(n)' = NodeInbounds(n)
  BY <1>1, <1>2 DEF NodeInbounds
<1>4. I' = I
  BY <1>1, <1>2, <1>3 DEF Enabled
<1>5. \A i \in I : i \in Inbounds /\ i \notin NodeInbounds(m) /\ inbound'[i] = inbound[i]
  BY <1>1, <1>2 DEF Enabled
<1>6. user' = user /\ \A u \in Users : access'[u] = access[u] \ NodeInbounds(m)
  BY DEF DeleteNode, Without
<1>7. \A i \in I : UsersOf(i)' = UsersOf(i) \cup OnlyOn(m)
  BY <1>5, <1>6, CascadeAdds
<1>8. NodeUsers(n)' = {[inbound |-> i, tag |-> inbound'[i].tag, users |-> UsersOf(i)'] : i \in I'}
  BY DEF NodeUsers
<1>9. NodeUsers(n)' = {Wide(i) : i \in I}
  <2> HIDE DEF I
  <2> QED BY <1>4, <1>5, <1>7, <1>8
<1>10. ASSUME NEW i PROVE Wide(i) = [List(i) EXCEPT !.users = @ \cup OnlyOn(m)]
  <2>1. \A t, U, W : [[inbound |-> i, tag |-> t, users |-> U] EXCEPT !.users = @ \cup W]
                       = [inbound |-> i, tag |-> t, users |-> U \cup W]
    OBVIOUS
  <2> QED BY <2>1
<1>11. NodeUsers(n) = {List(i) : i \in I}
  BY DEF NodeUsers
<1> HIDE DEF I, List, Wide
<1> QED BY <1>9, <1>10, <1>11

\* Whatever the panel does to the list of a node that stays is sent there, but for the
\* users whom a deleted node's cascade lets in.
THEOREM UserListsAreTold == Spec => UserListsTold
<1> DEFINE R(n) == n \in LiveNodes' /\ NodeUsers(n)' # NodeUsers(n) =>
                      \/ told'.users
                      \/ \E m \in LiveNodes \ LiveNodes' :
                            NodeUsers(n)' = {[l EXCEPT !.users = @ \cup OnlyOn(m)] : l \in NodeUsers(n)}
<1>1. ASSUME TypeOK, Operation, NEW n \in LiveNodes PROVE R(n)
  <2>0. n \in Nodes
    OBVIOUS
  <2>1. ASSUME NEW m \in Nodes, NodeStep(m) PROVE R(n)
    <3>1. ASSUME NEW a \in Addresses, CreateNode(m, a) PROVE R(n)
      BY <2>0, <3>1, ListsUnchanged DEF CreateNode
    <3>2. ASSUME NEW e \in BOOLEAN, NEW a \in Addresses, NEW S \in SUBSET Inbounds, UpdateNode(m, e, a, S)
          PROVE  R(n)
      <4>1. CASE S = {}
        <5>1. inbound' = inbound
          BY <1>1, <3>2, <4>1 DEF UpdateNode, Retagged, TypeOK
        <5> QED BY <2>0, <3>2, <5>1, ListsUnchanged DEF UpdateNode
      <4>2. CASE S # {}
        BY <3>2, <4>2 DEF UpdateNode, Tell
      <4> QED BY <4>1, <4>2
    <3>3. CASE DeleteNode(m)
      <4>1. m \in LiveNodes /\ m \notin LiveNodes'
        BY <1>1, <3>3 DEF DeleteNode, TypeOK
      <4>2. n \in LiveNodes' => n # m
        BY <4>1
      <4> QED BY <2>0, <3>3, <4>1, <4>2, DeletionWidens
    <3> QED BY <1>1, <2>1, <3>1, <3>2, <3>3, NodeStepCases
  <2>2. ASSUME NEW j \in Inbounds, InboundStep(j) PROVE R(n)
    <3>1. ASSUME NEW p \in Ports, NEW c \in Confs, NEW s \in Places, NEW m \in Nodes,
                 CreateInbound(j, m, p, c, s)
          PROVE  R(n)
      BY <3>1 DEF CreateInbound, Tell
    <3>2. ASSUME NEW p \in Ports, NEW c \in Confs, NEW s \in Places, EditInbound(j, p, c, s)
          PROVE  R(n)
      <4>1. /\ \A i \in Inbounds \ {j} : inbound'[i] = inbound[i]
            /\ inbound'[j] # Absent /\ inbound[j] # Absent
            /\ inbound'[j].node = inbound[j].node /\ inbound'[j].tag = inbound[j].tag
            /\ inbound'[j].enabled = inbound[j].enabled
        <5>1. inbound[j] # Absent
          BY <3>2 DEF EditInbound
        <5> QED BY <1>1, <3>2, <5>1, EditYields, RegistryAssumption
      <4>2. /\ \A i \in Inbounds : UsersOf(i)' = UsersOf(i)
            /\ \A i \in Inbounds : inbound'[i] = Absent <=> inbound[i] = Absent
            /\ \A i \in LiveInbounds : /\ inbound'[i].node = inbound[i].node
                                       /\ inbound'[i].tag = inbound[i].tag
                                       /\ inbound'[i].enabled = inbound[i].enabled
        BY <3>2, <4>1 DEF EditInbound, UsersOf, Allowed
      <4>3. NodeInbounds(n)' = NodeInbounds(n) /\ NodeInbounds(n) \subseteq LiveInbounds
        BY <4>2 DEF NodeInbounds
      <4>4. Enabled(NodeInbounds(n))' = Enabled(NodeInbounds(n))
        BY <4>2, <4>3 DEF Enabled
      <4>5. \A i \in Enabled(NodeInbounds(n)) :
                inbound'[i].tag = inbound[i].tag /\ UsersOf(i)' = UsersOf(i)
        BY <4>2, <4>3 DEF Enabled
      <4>6. NodeUsers(n)' = {[inbound |-> i, tag |-> inbound'[i].tag, users |-> UsersOf(i)'] :
                                 i \in Enabled(NodeInbounds(n))}
        BY <4>4 DEF NodeUsers
      <4>7. NodeUsers(n)' = NodeUsers(n)
        BY <4>5, <4>6 DEF NodeUsers
      <4> QED BY <4>7
    <3>3. ASSUME NEW e \in BOOLEAN, SetInboundEnabled(j, e) PROVE R(n)
      BY <3>3 DEF SetInboundEnabled, Tell
    <3>4. ASSUME DeleteInbound(j) PROVE R(n)
      BY <3>4 DEF DeleteInbound, Tell
    <3> QED BY <2>2, <3>1, <3>2, <3>3, <3>4 DEF InboundStep
  <2>3. ASSUME NEW u \in Users, UserStep(u) PROVE R(n)
    <3>1. TellUsers
      BY <2>3 DEF UserStep, CreateUser, UpdateUser, RecordTraffic, ResetUserTraffic,
                  DeleteUser, SetUserInbounds
    <3> QED BY <3>1 DEF TellUsers
  <2>4. ASSUME NEW p \in Policies, SetPolicy(p) PROVE R(n)
    BY <2>0, <2>4, ListsUnchanged DEF SetPolicy
  <2> QED BY <1>1, <2>1, <2>2, <2>3, <2>4 DEF Operation
<1> DEFINE T == \A n \in LiveNodes :
                   n \in LiveNodes' /\ NodeUsers(n)' # NodeUsers(n) /\ ~told'.users /\ Operation =>
                      \E m \in LiveNodes \ LiveNodes' :
                         NodeUsers(n)' = {[l EXCEPT !.users = @ \cup OnlyOn(m)] : l \in NodeUsers(n)}
<1>2. ASSUME TypeOK, [Next]_vars PROVE [T]_vars
  BY <1>1, <1>2
<1> QED BY <1>2, TypeCorrect, PTL DEF Spec, UserListsTold

-----------------------------------------------------------------------------
(***************************************************************************)
(* Subscriptions.                                                          *)
(***************************************************************************)

\* An entry of u's subscription is about an inbound that is served: Build asks of
\* its node and its relay what the configurations of these two ask.
LEMMA EntryIsServed ==
    ASSUME TypeOK, References, NEW u \in Users, user[u] = "active", NEW i \in Offered(u)
    PROVE  EntryServed(u, Entry(i))
<1> DEFINE n == inbound[i].node
           r == inbound[i].relay
<1>1. /\ i \in Enabled(LiveInbounds) /\ i \in LiveInbounds
      /\ NodeUp(n) /\ Allowed(u, i)
      /\ \A x \in RelayOf(i) : NodeUp(x)
  BY DEF Offered, Enabled
<1>2. i \in Enabled(NodeInbounds(n)) /\ n \in LiveNodes /\ node[n].enabled
  BY <1>1 DEF Enabled, NodeInbounds, NodeUp
<1>3. Entry(i).inbound = i
  BY DEF Entry
<1>4. Listener(i) \in NodeConfig(n).own
  <2> HIDE DEF n
  <2> QED BY <1>2 DEF NodeConfig
<1>5. \E l \in NodeUsers(n) : l.inbound = i /\ l.tag = Listener(i).tag /\ u \in l.users
  <2> DEFINE l == [inbound |-> i, tag |-> inbound[i].tag, users |-> UsersOf(i)]
  <2>1. u \in UsersOf(i)
    BY <1>1 DEF UsersOf
  <2>2. l \in NodeUsers(n)
    BY <1>2 DEF NodeUsers
  <2>3. l.inbound = i /\ l.tag = Listener(i).tag /\ u \in l.users
    BY <2>1 DEF Listener
  <2> QED BY <2>2, <2>3
<1>6. ASSUME r # None
      PROVE  \E l \in NodeConfig(r).relays :
                /\ Entry(i).at = node[r].address /\ Entry(i).port = l.port
                /\ l.inbound = i /\ l.address = node[n].address /\ l.to = inbound[i].port
  <2>1. r \in LiveNodes /\ node[r].enabled
    BY <1>1, <1>6 DEF RelayOf, NodeUp
  <2>2. i \in Enabled(InboundsRelayedVia(r))
    BY <1>1 DEF Enabled, InboundsRelayedVia
  <2>3. RelayListener(i) \in NodeConfig(r).relays
    <3>1. RelayListener(i) \in RelayInbounds(r)
      BY <1>2, <2>2 DEF RelayInbounds
    <3> QED BY <2>1, <3>1 DEF NodeConfig
  <2>4. /\ Entry(i).at = node[r].address /\ Entry(i).port = RelayListener(i).port
        /\ RelayListener(i).inbound = i
        /\ RelayListener(i).address = node[n].address /\ RelayListener(i).to = inbound[i].port
    BY <1>6 DEF Entry, RelayListener
  <2> QED BY <2>3, <2>4
<1> QED BY <1>3, <1>4, <1>5, <1>6 DEF EntryServed

\* What a subscription advertises, the nodes are configured to serve.
THEOREM SubscriptionsAreServed == Spec => []SubscriptionServed
<1>1. ASSUME TypeOK, References PROVE SubscriptionServed
  <2> SUFFICES ASSUME NEW u \in Users, NEW e \in Build(u) PROVE EntryServed(u, e)
    BY DEF SubscriptionServed
  <2>1. user[u] = "active" /\ \E i \in Offered(u) : e = Entry(i)
    BY DEF Build
  <2> QED BY <1>1, <2>1, EntryIsServed
<1> QED BY <1>1, TypeCorrect, ReferencesHold, PTL
=============================================================================
