-------------------------------- MODULE Edits --------------------------------
(***************************************************************************)
(* The edits of nodes and inbounds, statement by statement: each request   *)
(* reads rows, decides, writes whole rows back and then tells the nodes    *)
(* whose configuration it believes to have changed.  The database runs one *)
(* statement (or transaction) at a time and keeps nothing locked between   *)
(* them, so requests interleave; a statement may fail, and the process may *)
(* stop.  (Registry has the same operations as single steps, and those on  *)
(* users; nodes are created and deleted there and in NodeAuth.)            *)
(*                                                                         *)
(* Inbounds are of one protocol here, the case in which the tags of a node *)
(* would be equal: a tag is the slug of a name and a number.  The body of  *)
(* an inbound's sing-box object is its tag and its port.                   *)
(***************************************************************************)
EXTENDS Integers, FiniteSets

CONSTANTS
    Requests,   \* requests that may be under way at one time
    Nodes,
    MaxInbound, \* bound: ids of inbounds are 1..MaxInbound
    MaxRequests, \* bound: requests there are in all
    Names, Slugs, Slug, \* names of nodes, and nodeSlug of each
    Typed,      \* the slug of a tag typed by hand
    Addresses,  \* what nodes.address may hold
    Ports,
    Starts,     \* bound: what the nodes table may hold at first
    Absent, None

Inbounds == 1..MaxInbound
Numbers == 1..(2 * MaxInbound)  \* its own inbounds and those of other nodes
Tags == (Slugs \cup {Typed}) \X Numbers

NodeRow == [name : Names, address : Addresses, enabled : BOOLEAN]

\* conf: the config column, the object the node is sent.
InboundRow ==
    [home : Nodes, tag : Tags, port : Ports, conf : [tag : Tags, port : Ports],
     relay : Nodes \cup {None}, enabled : BOOLEAN]

ASSUME EditsAssumption ==
    /\ MaxInbound \in Nat \ {0}
    /\ MaxRequests \in Nat
    /\ Slug \in [Names -> Slugs]
    /\ Starts \subseteq [Nodes -> NodeRow]
    /\ \A s \in Starts, m, n \in Nodes : s[m].name = s[n].name => m = n
    /\ None \notin Nodes \cup Tags
    /\ Absent \notin InboundRow

VARIABLES
    node,        \* node[n]: row of the nodes table
    inbound,     \* inbound[i]: row of the inbounds table, or Absent
    opened,      \* requests there have been
    pc,          \* pc[p]: the next statement of request p
    target,      \* target[p]: the id it edits
    read,        \* read[p]: the row it bases its decisions on
    write,       \* write[p]: the row it is to write
    rows,        \* rows[p]: the inbounds a rename found on the node
    plan,        \* plan[p]: the tag it gives each of them, or None
    stale,       \* history: nodes whose configuration changed since they were told
    overwritten, \* history: a write went by rows that had changed since
    cut          \* history: a request ended between a write and its consequences

rowVars == <<node, inbound>>
workVars == <<target, read, write, rows, plan>>
vars == <<rowVars, opened, pc, workVars, stale, overwritten, cut>>

\* The statements after which an edit of a node is committed and not complete.
Committed == {"rows", "taken", "retag", "hosts"}
Statements == Committed \cup {"prev", "write", "reread", "switch", "save", "delete", "insert"}
Steps == Statements \cup {"idle", "tell", "tellEdit", "tellBoth"}

TypeOK ==
    /\ node \in [Nodes -> NodeRow]
    /\ inbound \in [Inbounds -> InboundRow \cup {Absent}]
    /\ opened \in 0..MaxRequests
    /\ pc \in [Requests -> Steps]
    /\ target \in [Requests -> Nodes \cup Inbounds \cup {None}]
    /\ read \in [Requests -> NodeRow \cup InboundRow \cup {None}]
    /\ write \in [Requests -> NodeRow \cup InboundRow \cup {None}]
    /\ rows \in [Requests -> [Inbounds -> InboundRow \cup {Absent}]]
    /\ plan \in [Requests -> [Inbounds -> Tags \cup {None}]]
    /\ stale \in SUBSET Nodes
    /\ overwritten \in BOOLEAN
    /\ cut \in BOOLEAN

NoRows == [i \in Inbounds |-> Absent]
NoPlan == [i \in Inbounds |-> None]

LiveInbounds == {i \in Inbounds : inbound[i] # Absent}
NodeInbounds(n) == {i \in LiveInbounds : inbound[i].home = n}
Planned(p) == {i \in Inbounds : plan[p][i] # None}

\* The configuration of node n: its own inbounds, and those it relays, whose
\* listeners are made of the row's columns (NodeConfig, relayInbounds).
Served(n) == {i \in NodeInbounds(n) : inbound[i].enabled}
Carried(n) ==
    {i \in LiveInbounds : inbound[i].relay = n /\ inbound[i].enabled /\ node[inbound[i].home].enabled}
Listener(i) ==
    [tag |-> inbound[i].tag, to |-> inbound[i].port, address |-> node[inbound[i].home].address]
Config(n) ==
    IF ~node[n].enabled THEN [own |-> {}, relays |-> {}]
    ELSE [own    |-> {inbound[i].conf : i \in Served(n)},
          relays |-> {Listener(i) : i \in Carried(n)}]

\* What a write does to the configurations, and what telling nodes does.
Changes == stale' = stale \cup {n \in Nodes : Config(n)' # Config(n)}
Tell(N) == stale' = stale \ N

Opens(p) == pc[p] = "idle" /\ opened < MaxRequests /\ opened' = opened + 1

Goto(p, l) == pc' = [pc EXCEPT ![p] = l]

\* The request returns.
Ends(p) ==
    /\ Goto(p, "idle")
    /\ target' = [target EXCEPT ![p] = None]
    /\ read' = [read EXCEPT ![p] = None]
    /\ write' = [write EXCEPT ![p] = None]
    /\ rows' = [rows EXCEPT ![p] = NoRows]
    /\ plan' = [plan EXCEPT ![p] = NoPlan]

\* No inbound yet.
Init ==
    /\ node \in Starts
    /\ inbound = NoRows
    /\ opened = 0
    /\ pc = [p \in Requests |-> "idle"]
    /\ target = [p \in Requests |-> None]
    /\ read = [p \in Requests |-> None]
    /\ write = [p \in Requests |-> None]
    /\ rows = [p \in Requests |-> NoRows]
    /\ plan = [p \in Requests |-> NoPlan]
    /\ stale = {}
    /\ overwritten = FALSE
    /\ cut = FALSE

-----------------------------------------------------------------------------
(***************************************************************************)
(* Nodes: updateNode, toggleNode and Service.UpdateNode.                   *)
(***************************************************************************)

\* The handler reads the row and puts the form over it, or flips the switch.
OpensNode(p, n, r) ==
    /\ Opens(p)
    /\ r.enabled = node[n].enabled \/ (r.name = node[n].name /\ r.address = node[n].address)
    /\ target' = [target EXCEPT ![p] = n]
    /\ write' = [write EXCEPT ![p] = r]
    /\ Goto(p, "prev")
    /\ UNCHANGED <<rowVars, read, rows, plan, stale, overwritten, cut>>

ReadsPrev(p) ==
    /\ pc[p] = "prev"
    /\ read' = [read EXCEPT ![p] = node[target[p]]]
    /\ Goto(p, "write")
    /\ UNCHANGED <<opened, rowVars, target, write, rows, plan, stale, overwritten, cut>>

\* Mutant of WritesNode: the row is compared with what has just been written.
WritesNodeThenReads(p) ==
    /\ pc[p] = "write"
    /\ \A n \in Nodes \ {target[p]} : node[n].name # write[p].name
    /\ node' = [node EXCEPT ![target[p]] = write[p]]
    /\ read' = [read EXCEPT ![p] = write[p]]
    /\ Goto(p, "tell")
    /\ overwritten' = (overwritten \/ node[target[p]] # read[p])
    /\ UNCHANGED <<opened, inbound, target, write, rows, plan, cut>>
    /\ Changes

\* A name is one node's; otherwise the statement fails.
WritesNode(p) ==
    /\ pc[p] = "write"
    /\ \A n \in Nodes \ {target[p]} : node[n].name # write[p].name
    /\ node' = [node EXCEPT ![target[p]] = write[p]]
    /\ Goto(p, IF read[p].name # write[p].name THEN "rows" ELSE "tell")
    /\ overwritten' = (overwritten \/ node[target[p]] # read[p])
    /\ UNCHANGED <<opened, inbound, workVars, cut>>
    /\ Changes

\* retagNodeInbounds, its first query: there may be nothing to do.
ReadsRows(p) ==
    /\ pc[p] = "rows"
    /\ LET own == NodeInbounds(target[p])
       IN  /\ rows' = [rows EXCEPT ![p] = [i \in Inbounds |-> IF i \in own THEN inbound[i] ELSE Absent]]
           /\ Goto(p, IF own = {} THEN "tell" ELSE "taken")
    /\ UNCHANGED <<opened, rowVars, target, read, write, plan, stale, overwritten, cut>>

\* Mutant of Numberings: the numbers start at zero.
NumberingsFromZero(own, free) ==
    {[i \in own |-> number[i] - 1] : number \in
        {f \in [own -> free] : \A i \in own :
            Cardinality({k \in free : k < f[i]}) = Cardinality({j \in own : j < i})}}

\* The inbounds get the numbers not taken, in the order of their ids (one way).
Numberings(own, free) ==
    {f \in [own -> free] : \A i \in own :
        Cardinality({k \in free : k < f[i]}) = Cardinality({j \in own : j < i})}

\* Its second query: the tags of the other nodes are off limits.
ReadsTaken(p) ==
    /\ pc[p] = "taken"
    /\ LET own  == {i \in Inbounds : rows[p][i] # Absent}
           slug == Slug[write[p].name]
           free == {k \in Numbers : \A i \in LiveInbounds :
                       inbound[i].home # target[p] => inbound[i].tag # <<slug, k>>}
       IN  \E number \in Numberings(own, free) :
              LET new == {i \in own : <<slug, number[i]>> # rows[p][i].tag}
              IN  /\ plan' = [plan EXCEPT ![p] = [i \in Inbounds |-> IF i \in new THEN <<slug, number[i]>> ELSE None]]
                  /\ Goto(p, IF new = {} THEN "tell" ELSE "retag")
    /\ UNCHANGED <<opened, rowVars, target, read, write, rows, stale, overwritten, cut>>

\* What the plan makes of the table: tag and config are written, the config as
\* it was read.
Replanned(p) ==
    [i \in Inbounds |->
        IF i \in Planned(p)
        THEN [inbound[i] EXCEPT !.tag = plan[p][i], !.conf = [rows[p][i].conf EXCEPT !.tag = plan[p][i]]]
        ELSE inbound[i]]

\* No two rows of a table have one tag.
Unique(table) ==
    \A i, j \in Inbounds :
        table[i] # Absent /\ table[j] # Absent /\ table[i].tag = table[j].tag => i = j

\* Mutant of Retags: the row has the new tag, the object the node is sent the old.
RetagsRows(p) ==
    /\ pc[p] = "retag"
    /\ Planned(p) \subseteq LiveInbounds
    /\ Unique(Replanned(p))
    /\ inbound' = [i \in Inbounds |-> IF i \in Planned(p) THEN [inbound[i] EXCEPT !.tag = plan[p][i]]
                                      ELSE inbound[i]]
    /\ overwritten' = (overwritten \/ node[target[p]].name # write[p].name
                          \/ \E i \in Planned(p) : inbound[i] # rows[p][i])
    /\ Goto(p, "tell")
    /\ UNCHANGED <<opened, node, workVars, cut>>
    /\ Changes

\* RetagInbounds: one transaction, which a missing row or a tag that has been
\* taken undoes.
Retags(p) ==
    /\ pc[p] = "retag"
    /\ Planned(p) \subseteq LiveInbounds
    /\ Unique(Replanned(p))
    /\ inbound' = Replanned(p)
    /\ overwritten' = (overwritten \/ node[target[p]].name # write[p].name
                          \/ \E i \in Planned(p) : inbound[i] # rows[p][i])
    /\ Goto(p, "tell")
    /\ UNCHANGED <<opened, node, workVars, cut>>
    /\ Changes

Turned(p) == read[p].enabled # write[p].enabled \/ Planned(p) # {}

\* The node itself; then the nodes that carry its inbounds, if need be.
TellsNode(p) ==
    /\ pc[p] = "tell"
    /\ Tell(IF Turned(p) THEN {target[p]} ELSE {})
    /\ IF Turned(p) \/ read[p].address # write[p].address
       THEN Goto(p, "hosts") /\ UNCHANGED workVars
       ELSE Ends(p)
    /\ UNCHANGED <<opened, rowVars, overwritten, cut>>

\* Mutant of TellsHosts: the hosts are those of the inbounds the rename found.
TellsHostsFound(p) ==
    /\ pc[p] = "hosts"
    /\ Tell({rows[p][i].relay : i \in {j \in Inbounds : rows[p][j] # Absent}})
    /\ Ends(p)
    /\ UNCHANGED <<opened, rowVars, overwritten, cut>>

\* notifyRelayHostsOf, which looks at the inbounds again.
TellsHosts(p) ==
    /\ pc[p] = "hosts"
    /\ Tell({inbound[i].relay : i \in NodeInbounds(target[p])})
    /\ Ends(p)
    /\ UNCHANGED <<opened, rowVars, overwritten, cut>>

-----------------------------------------------------------------------------
(***************************************************************************)
(* Inbounds: EditInbound, SetInboundEnabled, DeleteInbound, CreateInbound. *)
(***************************************************************************)

\* The row is read, the relay checked (Registry has the whole check), and the
\* form put over the row: the port in the column and in the object.
OpensEdit(p, i, port, relay) ==
    /\ Opens(p)
    /\ i \in LiveInbounds
    /\ relay # inbound[i].home
    /\ target' = [target EXCEPT ![p] = i]
    /\ read' = [read EXCEPT ![p] = inbound[i]]
    /\ write' = [write EXCEPT ![p] = [inbound[i] EXCEPT !.port = port, !.conf.port = port, !.relay = relay]]
    /\ Goto(p, "save")
    /\ UNCHANGED <<rowVars, rows, plan, stale, overwritten, cut>>

\* toggleInbound reads the row to know which way to switch; SetInboundEnabled
\* reads it again, and that is the row it writes back.
OpensSwitch(p, i) ==
    /\ Opens(p)
    /\ i \in LiveInbounds
    /\ target' = [target EXCEPT ![p] = i]
    /\ write' = [write EXCEPT ![p] = [inbound[i] EXCEPT !.enabled = ~@]]
    /\ Goto(p, "reread")
    /\ UNCHANGED <<rowVars, read, rows, plan, stale, overwritten, cut>>

Rereads(p) ==
    /\ pc[p] = "reread"
    /\ LET i == target[p]
       IN  /\ i \in LiveInbounds
           /\ read' = [read EXCEPT ![p] = inbound[i]]
           /\ write' = [write EXCEPT ![p] = [inbound[i] EXCEPT !.enabled = write[p].enabled]]
    /\ Goto(p, "switch")
    /\ UNCHANGED <<opened, rowVars, target, rows, plan, stale, overwritten, cut>>

OpensDelete(p, i) ==
    /\ Opens(p)
    /\ i \in LiveInbounds
    /\ target' = [target EXCEPT ![p] = i]
    /\ read' = [read EXCEPT ![p] = inbound[i]]
    /\ write' = [write EXCEPT ![p] = inbound[i]]
    /\ Goto(p, "delete")
    /\ UNCHANGED <<rowVars, rows, plan, stale, overwritten, cut>>

\* Mutant of Saves: the port is not among the columns.
SavesNoPort(p) ==
    /\ pc[p] \in {"save", "switch"}
    /\ LET i == target[p]
       IN  /\ i \in LiveInbounds
           /\ inbound' = [inbound EXCEPT ![i] = [write[p] EXCEPT !.home = inbound[i].home, !.port = inbound[i].port]]
           /\ Unique(inbound')
           /\ overwritten' = (overwritten \/ inbound[i] # read[p])
    /\ Goto(p, IF pc[p] = "save" THEN "tellEdit" ELSE "tellBoth")
    /\ UNCHANGED <<opened, node, workVars, cut>>
    /\ Changes

\* UpdateInbound writes every column but the node.
Saves(p) ==
    /\ pc[p] \in {"save", "switch"}
    /\ LET i == target[p]
       IN  /\ i \in LiveInbounds
           /\ inbound' = [inbound EXCEPT ![i] = [write[p] EXCEPT !.home = inbound[i].home]]
           /\ Unique(inbound')
           /\ overwritten' = (overwritten \/ inbound[i] # read[p])
    /\ Goto(p, IF pc[p] = "save" THEN "tellEdit" ELSE "tellBoth")
    /\ UNCHANGED <<opened, node, workVars, cut>>
    /\ Changes

Deletes(p) ==
    /\ pc[p] = "delete"
    /\ LET i == target[p]
       IN  /\ i \in LiveInbounds
           /\ inbound' = [inbound EXCEPT ![i] = Absent]
           /\ overwritten' = (overwritten \/ inbound[i] # read[p])
    /\ Goto(p, "tellBoth")
    /\ UNCHANGED <<opened, node, workVars, cut>>
    /\ Changes

\* CreateInbound reads its node, and asks for tags until one is free, unless
\* there is one in the form; then it checks the relay.
OpensCreate(p, n, port, relay, typed) ==
    /\ Opens(p)
    /\ relay # n
    /\ LET slug == IF typed THEN Typed ELSE Slug[node[n].name]
           free == {k \in Numbers : \A i \in LiveInbounds : inbound[i].tag # <<slug, k>>}
       IN  \E k \in free :
              /\ \A j \in free : k <= j
              /\ write' = [write EXCEPT ![p] =
                     [home |-> n, tag |-> <<slug, k>>, port |-> port, conf |-> [tag |-> <<slug, k>>, port |-> port],
                      relay |-> relay, enabled |-> TRUE]]
    /\ read' = [read EXCEPT ![p] = node[n]]
    /\ target' = [target EXCEPT ![p] = n]
    /\ Goto(p, "insert")
    /\ UNCHANGED <<rowVars, rows, plan, stale, overwritten, cut>>

\* SQLite gives the id after the largest there is.
Inserts(p) ==
    /\ pc[p] = "insert"
    /\ \E i \in Inbounds :
          /\ inbound[i] = Absent
          /\ \A j \in LiveInbounds : j < i
          /\ i = 1 \/ i - 1 \in LiveInbounds
          /\ inbound' = [inbound EXCEPT ![i] = write[p]]
    /\ Unique(inbound')
    /\ overwritten' = (overwritten \/ node[target[p]].name # read[p].name)
    /\ Goto(p, "tellBoth")
    /\ UNCHANGED <<opened, node, workVars, cut>>
    /\ Changes

\* Mutant of Concerned: the relay an inbound moves away from is forgotten.
ConcernedNewRelay(old, in) ==
    (IF old.port # in.port \/ old.conf # in.conf THEN {in.home} ELSE {})
      \cup (IF old.relay # in.relay \/ (in.relay # None /\ old.port # in.port) THEN {in.relay} ELSE {})

\* The nodes that see an edit: the node itself, of what is in the object it is
\* sent, and the relay nodes, the one that loses the inbound and the one that
\* gains it, of what changes for them.
Concerned(old, in) ==
    (IF old.port # in.port \/ old.conf # in.conf THEN {in.home} ELSE {})
      \cup (IF old.relay # in.relay \/ (in.relay # None /\ old.port # in.port)
            THEN {old.relay, in.relay} ELSE {})

TellsEdit(p) ==
    /\ pc[p] = "tellEdit"
    /\ Tell(Concerned(read[p], write[p]))
    /\ Ends(p)
    /\ UNCHANGED <<opened, rowVars, overwritten, cut>>

\* The others tell the node and the relay node of the row they have.
TellsBoth(p) ==
    /\ pc[p] = "tellBoth"
    /\ Tell({write[p].home, write[p].relay})
    /\ Ends(p)
    /\ UNCHANGED <<opened, rowVars, overwritten, cut>>

-----------------------------------------------------------------------------
(***************************************************************************)
(* Failures.                                                               *)
(***************************************************************************)

\* A statement fails, or finds its row gone or its tag taken: the request ends
\* with an error, and what it has written stays.
Fails(p) ==
    /\ pc[p] \in Statements
    /\ cut' = (cut \/ pc[p] \in Committed)
    /\ Ends(p)
    /\ UNCHANGED <<opened, rowVars, stale, overwritten>>

\* The process stops; a node that connects again is sent everything.
Restart ==
    /\ pc' = [p \in Requests |-> "idle"]
    /\ target' = [p \in Requests |-> None]
    /\ read' = [p \in Requests |-> None]
    /\ write' = [p \in Requests |-> None]
    /\ rows' = [p \in Requests |-> NoRows]
    /\ plan' = [p \in Requests |-> NoPlan]
    /\ stale' = {}
    /\ cut' = (cut \/ \E p \in Requests : pc[p] \in Committed)
    /\ UNCHANGED <<opened, rowVars, overwritten>>

NodeStep(p) ==
    \/ \E n \in Nodes, r \in NodeRow : OpensNode(p, n, r)
    \/ ReadsPrev(p) \/ WritesNode(p)
    \/ ReadsRows(p) \/ ReadsTaken(p) \/ Retags(p)
    \/ TellsNode(p) \/ TellsHosts(p)

InboundStep(p) ==
    \/ \E i \in Inbounds, port \in Ports, relay \in Nodes \cup {None} : OpensEdit(p, i, port, relay)
    \/ \E i \in Inbounds : OpensSwitch(p, i) \/ OpensDelete(p, i)
    \/ \E n \in Nodes, port \in Ports, relay \in Nodes \cup {None}, typed \in BOOLEAN :
          OpensCreate(p, n, port, relay, typed)
    \/ Rereads(p) \/ Saves(p) \/ Deletes(p) \/ Inserts(p)
    \/ TellsEdit(p) \/ TellsBoth(p)

Next ==
    \/ \E p \in Requests : NodeStep(p) \/ InboundStep(p) \/ Fails(p)
    \/ Restart

Spec == Init /\ [][Next]_vars

-----------------------------------------------------------------------------
(***************************************************************************)
(* Properties.                                                             *)
(***************************************************************************)

Quiet == \A p \in Requests : pc[p] = "idle"

\* The tag a row has is the tag of the object the node is sent, whatever requests
\* overlap, overwrite each other or fail half way: the user lists are keyed by the
\* one, the node listens under the other.  ("Leaving one behind means ...",
\* node_rename.go:63-66; UpdateInbound and RetagInbounds, store/inbounds.go)
TagsAgree == \A i \in LiveInbounds : inbound[i].tag = inbound[i].conf.tag

\* The port of a row, which subscriptions and relays go by, is the port of that
\* object, and nobody relays his own inbound, unless some request wrote by rows
\* that had changed since it read them.
RowsAgree ==
    ~overwritten => \A i \in LiveInbounds : /\ inbound[i].port = inbound[i].conf.port
                                            /\ inbound[i].relay # inbound[i].home

\* When nothing is under way, every node whose configuration has changed, its own
\* inbounds or the ones it relays, was told after the change: overlapping edits of
\* nodes and of their inbounds lose no notification, as long as none overwrote
\* another and none was cut short.  (UpdateNode, service.go:268-288; EditInbound,
\* inbound_edit.go:125-152)
EveryChangeTold == Quiet /\ ~overwritten /\ ~cut => stale = {}

\* "Tags follow the node name" (service.go:266), through renames that overlap the
\* creation and the editing of inbounds, on the same condition.
TagsFollowName ==
    Quiet /\ ~overwritten /\ ~cut =>
        \A i \in LiveInbounds : inbound[i].tag[1] \in {Slug[node[inbound[i].home].name], Typed}
=============================================================================
