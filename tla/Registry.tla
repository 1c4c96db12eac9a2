------------------------------ MODULE Registry ------------------------------
(***************************************************************************)
(* What the panel keeps about nodes, inbounds, relays, users and access    *)
(* (internal/service over internal/store), what it derives from it for a   *)
(* node (node_push.go) and for a subscription (internal/sub), and whom     *)
(* each operation notifies.                                                *)
(*                                                                         *)
(* An operation is one step: a request handler up to its return.  Those    *)
(* that end in an error before their first write change nothing and are    *)
(* not actions.  A row that does not exist is Absent; None is a column     *)
(* left empty (NULL, "" or 0).                                             *)
(***************************************************************************)
EXTENDS Integers, FiniteSets

CONSTANTS
    Nodes, Inbounds, Users,  \* row ids
    Addresses,               \* what nodes.address may hold
    Ports,                   \* port numbers
    Hosts,                   \* external connect addresses an inbound may carry
    HostPort,                \* HostPort[h]: the port in connect address h, or None
    Confs,                   \* the rest of an inbound's sing-box configuration
    Policies,                \* routing policies
    Absent, None

NodeRow == [enabled : BOOLEAN, address : Addresses]

\* tag is the parity of the renames an inbound went through: enough to tell an
\* old tag from the next.  An inbound is reached at one of three places, never
\* two: its own node, an external host, a relay node.
InboundRow ==
    {r \in [node : Nodes, tag : {0, 1}, port : Ports, conf : Confs, enabled : BOOLEAN,
            host : Hosts \cup {None}, relay : Nodes \cup {None}, relayPort : Ports \cup {None}] :
        /\ r.relay = None \/ r.host = None
        /\ r.relay = None <=> r.relayPort = None}

\* User.Active: enabled, not expired, not over the limit.
Status == {"active", "inactive"}

ASSUME RegistryAssumption ==
    /\ Absent \notin NodeRow \cup InboundRow
    /\ None \notin Nodes \cup Ports \cup Hosts
    /\ HostPort \in [Hosts -> Ports \cup {None}]

VARIABLES
    node,     \* node[n]: row of the nodes table, or Absent
    inbound,  \* inbound[i]: row of the inbounds table, or Absent
    user,     \* user[u]: status of the row, or "absent"
    access,   \* access[u]: the inbounds user_inbounds restricts u to; {}: no rows
    policy,   \* settings: the policy
    told      \* what the last operation notified: nodes' configs, user lists

vars == <<node, inbound, user, access, policy, told>>

TypeOK ==
    /\ node \in [Nodes -> NodeRow \cup {Absent}]
    /\ inbound \in [Inbounds -> InboundRow \cup {Absent}]
    /\ user \in [Users -> Status \cup {"absent"}]
    /\ access \in [Users -> SUBSET Inbounds]
    /\ policy \in Policies
    /\ told \in [config : SUBSET Nodes, users : BOOLEAN]

-----------------------------------------------------------------------------
(***************************************************************************)
(* Queries.                                                                *)
(***************************************************************************)

\* The rows of a table.
LiveNodes == {n \in Nodes : node[n] # Absent}
LiveInbounds == {i \in Inbounds : inbound[i] # Absent}

NodeInbounds(n) == {i \in LiveInbounds : inbound[i].node = n}
InboundsRelayedVia(n) == {i \in LiveInbounds : inbound[i].relay = n}

Enabled(I) == {i \in I : inbound[i].enabled}

\* The node carrying i, as a set: relay_node_id is NULL for most inbounds.
RelayOf(i) == {inbound[i].relay} \ {None}

\* No rows for a user means every inbound.
Allowed(u, i) == access[u] = {} \/ i \in access[u]

-----------------------------------------------------------------------------
(***************************************************************************)
(* What a node is sent (node_push.go, relay.go).                           *)
(***************************************************************************)

Listener(i) == [inbound |-> i, tag |-> inbound[i].tag, port |-> inbound[i].port,
                conf |-> inbound[i].conf]

\* The layer-4 listener a relay node runs for i.
RelayListener(i) == [inbound |-> i, tag |-> inbound[i].tag, port |-> inbound[i].relayPort,
                     address |-> node[inbound[i].node].address, to |-> inbound[i].port]

\* relayInbounds: both the inbound and its own node must be enabled.
RelayInbounds(n) ==
    {RelayListener(i) : i \in {j \in Enabled(InboundsRelayedVia(n)) :
        inbound[j].node \in LiveNodes /\ node[inbound[j].node].enabled}}

NodeConfig(n) ==
    [own    |-> IF node[n].enabled THEN {Listener(i) : i \in Enabled(NodeInbounds(n))} ELSE {},
     relays |-> IF node[n].enabled THEN RelayInbounds(n) ELSE {},
     rules  |-> policy]

\* The users in the list of inbound i, and the lists of node n by tag.
UsersOf(i) == {u \in Users : user[u] = "active" /\ Allowed(u, i)}

NodeUsers(n) ==
    {[inbound |-> i, tag |-> inbound[i].tag, users |-> UsersOf(i)] : i \in Enabled(NodeInbounds(n))}

\* nodeUserIDs: the users node n may report about.
NodeUserIDs(n) ==
    {u \in Users : user[u] # "absent" /\ \E i \in Enabled(NodeInbounds(n)) : Allowed(u, i)}

-----------------------------------------------------------------------------
(***************************************************************************)
(* What a subscription says (internal/sub/sub.go).                         *)
(***************************************************************************)

NodeUp(n) == n \in LiveNodes /\ node[n].enabled

\* Where Build says inbound i is reached.
Entry(i) ==
    LET in == inbound[i]
    IN  IF in.relay # None
        THEN [inbound |-> i, at |-> node[in.relay].address, port |-> in.relayPort]
        ELSE IF in.host # None
        THEN [inbound |-> i, at |-> in.host,
              port |-> IF HostPort[in.host] = None THEN in.port ELSE HostPort[in.host]]
        ELSE [inbound |-> i, at |-> node[in.node].address, port |-> in.port]

\* Mutant of Offered: whether the relay node is enabled is not looked at.
OfferedAnyRelay(u) ==
    {i \in Enabled(LiveInbounds) : NodeUp(inbound[i].node) /\ Allowed(u, i)}

\* The inbounds Build does not skip; a disabled relay drops the entry.
Offered(u) ==
    {i \in Enabled(LiveInbounds) :
        /\ NodeUp(inbound[i].node)
        /\ Allowed(u, i)
        /\ \A r \in RelayOf(i) : NodeUp(r)}

Build(u) == IF user[u] = "active" THEN {Entry(i) : i \in Offered(u)} ELSE {}

-----------------------------------------------------------------------------
(***************************************************************************)
(* Notifications: Hub.ConfigChanged pushes the users as well.              *)
(***************************************************************************)

Tell(N) == told' = [config |-> N, users |-> N # {}]
TellUsers == told' = [config |-> {}, users |-> TRUE]

Init ==
    /\ node = [n \in Nodes |-> Absent]
    /\ inbound = [i \in Inbounds |-> Absent]
    /\ user = [u \in Users |-> "absent"]
    /\ access = [u \in Users |-> {}]
    /\ policy \in Policies
    /\ told = [config |-> {}, users |-> FALSE]

-----------------------------------------------------------------------------
(***************************************************************************)
(* Nodes.                                                                  *)
(***************************************************************************)

CreateNode(n, a) ==
    /\ node[n] = Absent
    /\ node' = [node EXCEPT ![n] = [enabled |-> TRUE, address |-> a]]
    /\ Tell({})
    /\ UNCHANGED <<inbound, user, access, policy>>

\* The tags of the inbounds R move on.
Retagged(R) == [i \in Inbounds |-> IF i \in R THEN [inbound[i] EXCEPT !.tag = 1 - @] ELSE inbound[i]]

\* Mutant of UpdateNode: relay hosts are told of the switch, not of the address.
UpdateNodeForgetsAddress(n, e, a, R) ==
    /\ n \in LiveNodes
    /\ R \subseteq NodeInbounds(n)
    /\ node' = [node EXCEPT ![n] = [enabled |-> e, address |-> a]]
    /\ inbound' = Retagged(R)
    /\ LET turned == e # node[n].enabled \/ R # {}
       IN  Tell(IF turned THEN {n} \cup UNION {RelayOf(i) : i \in NodeInbounds(n)} ELSE {})
    /\ UNCHANGED <<user, access, policy>>

\* R: the inbounds whose tag a new name changes ({} when the name stays).
UpdateNode(n, e, a, R) ==
    /\ n \in LiveNodes
    /\ R \subseteq NodeInbounds(n)
    /\ node' = [node EXCEPT ![n] = [enabled |-> e, address |-> a]]
    /\ inbound' = Retagged(R)
    /\ LET turned == e # node[n].enabled \/ R # {}
           moved  == a # node[n].address
       IN  Tell((IF turned THEN {n} ELSE {})
                  \cup (IF turned \/ moved THEN UNION {RelayOf(i) : i \in NodeInbounds(n)} ELSE {}))
    /\ UNCHANGED <<user, access, policy>>

\* The rows that go with the inbounds I, and what is left of a restriction.
Without(I) ==
    /\ inbound' = [i \in Inbounds |-> IF i \in I THEN Absent ELSE inbound[i]]
    /\ access' = [u \in Users |-> access[u] \ I]

\* Mutant of DeleteNode: the relays through n are emptied, as ON DELETE SET NULL would.
DeleteNodeSetNull(n) ==
    /\ n \in LiveNodes
    /\ node' = [node EXCEPT ![n] = Absent]
    /\ inbound' = [i \in Inbounds |->
          IF i \in NodeInbounds(n) THEN Absent
          ELSE IF i \in InboundsRelayedVia(n)
               THEN [inbound[i] EXCEPT !.relay = None, !.relayPort = None] ELSE inbound[i]]
    /\ access' = [u \in Users |-> access[u] \ NodeInbounds(n)]
    /\ Tell(UNION {RelayOf(i) : i \in NodeInbounds(n)})
    /\ UNCHANGED <<user, policy>>

\* Refused while n carries an inbound; the node's inbounds go with it.
DeleteNode(n) ==
    /\ n \in LiveNodes
    /\ InboundsRelayedVia(n) = {}
    /\ node' = [node EXCEPT ![n] = Absent]
    /\ Without(NodeInbounds(n))
    /\ Tell(UNION {RelayOf(i) : i \in NodeInbounds(n)})
    /\ UNCHANGED <<user, policy>>

-----------------------------------------------------------------------------
(***************************************************************************)
(* Inbounds and relays.                                                    *)
(***************************************************************************)

\* Mutant of CheckRelay: that the relay is another node is not checked.
CheckRelayAnyNode(n, p, r, rp, except) ==
    /\ r \in LiveNodes
    /\ \A i \in Enabled(NodeInbounds(r)) : inbound[i].port # rp
    /\ \A i \in Enabled(InboundsRelayedVia(r)) \ except : inbound[i].relayPort # rp

\* An inbound of node n on port p may be relayed by r, listening on rp there.
CheckRelay(n, p, r, rp, except) ==
    /\ r # n
    /\ r \in LiveNodes
    /\ ~(node[r].address = node[n].address /\ rp = p)
    /\ \A i \in Enabled(NodeInbounds(r)) : inbound[i].port # rp
    /\ \A i \in Enabled(InboundsRelayedVia(r)) \ except : inbound[i].relayPort # rp

\* The places an inbound of node n on port p may be reached at (resolveRelay).
ResolveRelay(n, p, except) ==
    [host : Hosts \cup {None}, relay : {None}, relayPort : {None}]
      \cup {s \in [host : {None}, relay : Nodes, relayPort : Ports] :
              CheckRelay(n, p, s.relay, s.relayPort, except)}

CreateInbound(i, n, p, c, s) ==
    /\ inbound[i] = Absent
    /\ n \in LiveNodes
    /\ s \in ResolveRelay(n, p, {})
    /\ inbound' = [inbound EXCEPT ![i] =
          [node |-> n, tag |-> 0, port |-> p, conf |-> c, enabled |-> TRUE,
           host |-> s.host, relay |-> s.relay, relayPort |-> s.relayPort]]
    /\ Tell({n} \cup ({s.relay} \ {None}))
    /\ UNCHANGED <<node, user, access, policy>>

\* Mutant of EditInbound: the connect address survives a move to a relay.
EditInboundKeepsHost(i, p, c, s) ==
    /\ i \in LiveInbounds
    /\ s \in ResolveRelay(inbound[i].node, p, {i})
    /\ inbound' = [inbound EXCEPT ![i] = [@ EXCEPT !.port = p, !.conf = c,
                     !.relay = s.relay, !.relayPort = s.relayPort]]
    /\ Tell({inbound[i].node})
    /\ UNCHANGED <<node, user, access, policy>>

\* EditInbound tells the node of what it can see, and the relay hosts, old and
\* new, of what changes for them.
EditInbound(i, p, c, s) ==
    /\ i \in LiveInbounds
    /\ s \in ResolveRelay(inbound[i].node, p, {i})
    /\ inbound' = [inbound EXCEPT ![i] = [@ EXCEPT !.port = p, !.conf = c,
                     !.host = s.host, !.relay = s.relay, !.relayPort = s.relayPort]]
    /\ LET in == inbound[i]
           visible == in.port # p \/ in.conf # c
           relayed == \/ in.relay # s.relay
                      \/ in.relayPort # s.relayPort
                      \/ s.relay # None /\ in.port # p
       IN  Tell((IF visible THEN {in.node} ELSE {})
                  \cup (IF relayed THEN {in.relay, s.relay} \ {None} ELSE {}))
    /\ UNCHANGED <<node, user, access, policy>>

SetInboundEnabled(i, e) ==
    /\ i \in LiveInbounds
    /\ inbound' = [inbound EXCEPT ![i].enabled = e]
    /\ Tell({inbound[i].node} \cup RelayOf(i))
    /\ UNCHANGED <<node, user, access, policy>>

DeleteInbound(i) ==
    /\ i \in LiveInbounds
    /\ Without({i})
    /\ Tell({inbound[i].node} \cup RelayOf(i))
    /\ UNCHANGED <<node, user, policy>>

-----------------------------------------------------------------------------
(***************************************************************************)
(* Users, access, traffic and policy.  Of a user only User.Active matters. *)
(***************************************************************************)

CreateUser(u, st) ==
    /\ user[u] = "absent"
    /\ user' = [user EXCEPT ![u] = st]
    /\ TellUsers
    /\ UNCHANGED <<node, inbound, access, policy>>

UpdateUser(u, st) ==
    /\ user[u] # "absent"
    /\ user' = [user EXCEPT ![u] = st]
    /\ TellUsers
    /\ UNCHANGED <<node, inbound, access, policy>>

DeleteUser(u) ==
    /\ user[u] # "absent"
    /\ user' = [user EXCEPT ![u] = "absent"]
    /\ access' = [access EXCEPT ![u] = {}]
    /\ TellUsers
    /\ UNCHANGED <<node, inbound, policy>>

SetUserInbounds(u, I) ==
    /\ user[u] # "absent"
    /\ I \subseteq LiveInbounds  \* the foreign key refuses anything else
    /\ access' = [access EXCEPT ![u] = I]
    /\ TellUsers
    /\ UNCHANGED <<node, inbound, user, policy>>

\* A reset, by hand or by schedule: u may come back under its limit.  A row that
\* is gone is no error.
ResetUserTraffic(u, st) ==
    /\ st \in IF user[u] = "inactive" THEN Status ELSE {user[u]}
    /\ user' = [user EXCEPT ![u] = st]
    /\ TellUsers
    /\ UNCHANGED <<node, inbound, access, policy>>

\* Mutant of RecordTraffic: who crosses the limit is not taken off the nodes.
RecordTrafficQuietly(n, u, st) ==
    /\ n \in LiveNodes
    /\ u \in NodeUserIDs(n)
    /\ st \in IF user[u] = "active" THEN Status ELSE {user[u]}
    /\ user' = [user EXCEPT ![u] = st]
    /\ Tell({})
    /\ UNCHANGED <<node, inbound, access, policy>>

\* A report of node n about u: u may cross its limit.
RecordTraffic(n, u, st) ==
    /\ n \in LiveNodes
    /\ u \in NodeUserIDs(n)
    /\ st \in IF user[u] = "active" THEN Status ELSE {user[u]}
    /\ user' = [user EXCEPT ![u] = st]
    /\ TellUsers
    /\ UNCHANGED <<node, inbound, access, policy>>

\* Time passes expires_at.  Nothing in the panel runs at that moment.
Expire(u) ==
    /\ user[u] = "active"
    /\ user' = [user EXCEPT ![u] = "inactive"]
    /\ Tell({})
    /\ UNCHANGED <<node, inbound, access, policy>>

SetPolicy(p) ==
    /\ policy' = p
    /\ Tell(LiveNodes)
    /\ UNCHANGED <<node, inbound, user, access>>

-----------------------------------------------------------------------------
\* The handlers of a node either edit it (updateNode) or switch it (toggleNode).
NodeStep(n) ==
    \/ \E a \in Addresses :
          \/ CreateNode(n, a)
          \/ \E R \in SUBSET Inbounds : n \in LiveNodes /\ UpdateNode(n, node[n].enabled, a, R)
    \/ n \in LiveNodes /\ UpdateNode(n, ~node[n].enabled, node[n].address, {})
    \/ DeleteNode(n)

Places == [host : Hosts \cup {None}, relay : Nodes \cup {None}, relayPort : Ports \cup {None}]

InboundStep(i) ==
    \/ \E p \in Ports, c \in Confs, s \in Places :
          \/ \E n \in Nodes : CreateInbound(i, n, p, c, s)
          \/ EditInbound(i, p, c, s)
    \/ \E e \in BOOLEAN : SetInboundEnabled(i, e)
    \/ DeleteInbound(i)

UserStep(u) ==
    \/ \E st \in Status :
          \/ CreateUser(u, st) \/ UpdateUser(u, st)
          \/ \E n \in Nodes : RecordTraffic(n, u, st)
    \/ \E st \in Status \cup {"absent"} : ResetUserTraffic(u, st)
    \/ DeleteUser(u)
    \/ \E I \in SUBSET Inbounds : SetUserInbounds(u, I)

\* What the panel does.
Operation ==
    \/ \E n \in Nodes : NodeStep(n)
    \/ \E i \in Inbounds : InboundStep(i)
    \/ \E u \in Users : UserStep(u)
    \/ \E p \in Policies : SetPolicy(p)

\* What happens to it.
Next == Operation \/ \E u \in Users : Expire(u)

Spec == Init /\ [][Next]_vars

-----------------------------------------------------------------------------
(***************************************************************************)
(* Properties.                                                             *)
(***************************************************************************)

\* Every reference leads to a row: an inbound's node, its relay (which is never
\* its own node), the inbounds a user is restricted to.  No operation leaves one
\* dangling, DeleteNode among them.  (service.go:305-328, relay.go:72, schema)
References ==
    /\ \A i \in LiveInbounds :
          /\ inbound[i].node \in LiveNodes
          /\ RelayOf(i) \subseteq LiveNodes \ {inbound[i].node}
    /\ \A u \in Users : /\ access[u] \subseteq LiveInbounds
                        /\ user[u] = "absent" => access[u] = {}

\* A subscription never sends a client to a dead end: behind every entry there
\* is a listener in a configuration the panel pushes, on the advertised port;
\* a relay's forwards to the address and port of the origin; and the origin has
\* the inbound in its configuration and the user in its list.  Subscriptions
\* (sub.go:51-135) and pushes (node_push.go, relay.go) derive this separately.
EntryServed(u, e) ==
    LET i == e.inbound
        n == inbound[i].node
        r == inbound[i].relay
    IN  /\ Listener(i) \in NodeConfig(n).own
        /\ \E l \in NodeUsers(n) : l.inbound = i /\ l.tag = Listener(i).tag /\ u \in l.users
        /\ r # None =>
              \E l \in NodeConfig(r).relays :
                 /\ e.at = node[r].address /\ e.port = l.port
                 /\ l.inbound = i /\ l.address = node[n].address /\ l.to = inbound[i].port

SubscriptionServed == \A u \in Users : \A e \in Build(u) : EntryServed(u, e)

\* Whenever an operation changes the configuration of a node that exists before
\* and after it, that node is told, whichever node the operation was about.
\* (service.go:272-286, inbound_edit.go:114-159, relay.go:159-186)
ConfigChangesTold ==
    [][\A n \in LiveNodes :
          n \in LiveNodes' /\ NodeConfig(n)' # NodeConfig(n) => n \in told'.config]_vars

\* An inbound behind a relay stays behind that relay until it is itself edited or
\* deleted: nothing done to the relay node, to the origin node or to anything
\* else makes it "fall back to advertising its own node's address".
\* (service.go:305-328, sub.go:97-107)
RelayKept ==
    [][\A i \in LiveInbounds :
          inbound[i].relay # None /\ i \in LiveInbounds' =>
             \/ inbound'[i].relay = inbound[i].relay
             \/ \E p \in Ports, c \in Confs, s \in Places : EditInbound(i, p, c, s)]_vars

\* The users restricted to inbounds of node m, and to no others.
OnlyOn(m) == {u \in Users : user[u] = "active" /\ access[u] # {} /\ access[u] \subseteq NodeInbounds(m)}

\* Whatever the panel does to the user list of a node that stays is sent there: who
\* crosses the limit, is switched off, deleted, reset, or allowed other inbounds.
\* One operation is an exception, the deletion of another node, and what it may do is
\* known: it adds to every list exactly the users who were restricted to that node,
\* whose restriction the cascade leaves empty.  (service.go:98-207, 312-342,
\* traffic.go:67-71, 0001_init.sql:48-52)
UserListsTold ==
    [][\A n \in LiveNodes :
          n \in LiveNodes' /\ NodeUsers(n)' # NodeUsers(n) /\ ~told'.users /\ Operation =>
             \E m \in LiveNodes \ LiveNodes' :
                NodeUsers(n)' = {[l EXCEPT !.users = @ \cup OnlyOn(m)] : l \in NodeUsers(n)}]_vars

\* "UsersChanged is called by the service whenever the set of active users could
\* have changed" (hub.go:389-391): an operation that changes the user lists of a
\* node that stays is followed by a push of user lists.
UserListChangesTold ==
    [][\A n \in LiveNodes :
          n \in LiveNodes' /\ NodeUsers(n)' # NodeUsers(n) /\ Operation => told'.users]_vars

\* "two node records that happen to share an address, which checkRelay rejects"
\* (relay.go:34-36): no relay listener forwards to its own address and port.
NoSelfForward ==
    \A n \in LiveNodes : \A l \in NodeConfig(n).relays :
        ~(l.address = node[n].address /\ l.to = l.port)
=============================================================================
