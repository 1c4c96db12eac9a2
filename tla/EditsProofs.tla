----------------------------- MODULE EditsProofs -----------------------------
(***************************************************************************)
(* Overlapping edits, for any number of nodes, inbounds and requests.      *)
(*                                                                         *)
(* The argument: whatever is out of step has a request under way that will *)
(* see to it (Announces, Renames), and a request that takes that away, by  *)
(* failing or by writing over rows that have changed, leaves its mark in   *)
(* cut or in overwritten.                                                  *)
(***************************************************************************)
EXTENDS Edits, TLAPS

OfNode == {"write", "rows", "taken", "retag", "tell", "hosts"}
OfRow == {"reread", "save", "switch", "delete", "tellEdit"}

\* What kind of rows a request holds.
Shapes ==
    \A p \in Requests :
        /\ pc[p] \in OfNode \cup {"prev"} => target[p] \in Nodes /\ write[p] \in NodeRow
        /\ pc[p] \in OfNode => read[p] \in NodeRow
        /\ pc[p] \in OfRow => target[p] \in Inbounds /\ write[p] \in InboundRow
        /\ pc[p] \in OfRow \ {"reread"} => read[p] \in InboundRow
        /\ pc[p] = "insert" => target[p] \in Nodes /\ read[p] \in NodeRow /\ write[p] \in InboundRow
        /\ pc[p] = "tellBoth" => write[p] \in InboundRow
        /\ pc[p] = "retag" => \A i \in Inbounds : plan[p][i] # None => rows[p][i] # Absent

\* Rows that are to be written are of one tag, as those of the table are.
Writing == {"reread", "save", "switch", "insert"}
TagsInStep ==
    /\ TagsAgree
    /\ \A p \in Requests : pc[p] \in Writing => write[p].tag = write[p].conf.tag

\* What a request is to write, by what it has read.
Base(p) ==
    /\ pc[p] \in {"save", "tellEdit"} =>
          /\ write[p].home = read[p].home
          /\ write[p].tag = read[p].tag
          /\ write[p].conf.tag = read[p].conf.tag
          /\ write[p].enabled = read[p].enabled
    /\ pc[p] = "switch" => write[p] = [read[p] EXCEPT !.enabled = write[p].enabled]
    /\ pc[p] = "delete" => write[p] = read[p]
    /\ pc[p] = "insert" => write[p].home = target[p] /\ write[p].tag[1] \in {Slug[read[p].name], Typed}
    /\ pc[p] \in {"taken", "retag"} =>
          \A i \in Inbounds : rows[p][i] # Absent => rows[p][i].home = target[p]
    /\ pc[p] = "retag" =>
          \A i \in Inbounds : plan[p][i] # None => plan[p][i][1] = Slug[write[p].name]
Bases == \A p \in Requests : Base(p)

Sound(r) == r.port = r.conf.port /\ r.relay # r.home
RowsInStep ==
    ~overwritten =>
        /\ \A i \in LiveInbounds : Sound(inbound[i])
        /\ \A p \in Requests : pc[p] \in Writing => Sound(write[p])

\* Request p is going to tell node n.
Touched(p) == read[p].enabled # write[p].enabled \/ (pc[p] = "tell" /\ Planned(p) # {})
HostsOf(m) == {inbound[i].relay : i \in NodeInbounds(m)}
Announces(p, n) ==
    \/ /\ pc[p] \in {"rows", "taken", "retag", "tell"}
       /\ \/ Touched(p) /\ n = target[p]
          \/ (Touched(p) \/ read[p].address # write[p].address) /\ n \in HostsOf(target[p])
    \/ pc[p] = "hosts" /\ n \in HostsOf(target[p])
    \/ pc[p] = "tellEdit" /\ n \in Concerned(read[p], write[p])
    \/ pc[p] = "tellBoth" /\ n \in {write[p].home, write[p].relay}
ChangesInHand ==
    ~overwritten /\ ~cut => \A n \in stale : \E p \in Requests : Announces(p, n)

\* Request p is going to give inbound i a tag of its node's present name.
Misnamed(i) == inbound[i].tag[1] \notin {Slug[node[inbound[i].home].name], Typed}
Renames(p, i) ==
    /\ pc[p] \in {"rows", "taken", "retag"}
    /\ target[p] = inbound[i].home
    /\ write[p].name = node[target[p]].name
    /\ pc[p] = "taken" => rows[p][i] # Absent /\ rows[p][i].tag = inbound[i].tag
    /\ pc[p] = "retag" => plan[p][i] # None
RenamesInHand ==
    ~overwritten /\ ~cut =>
        \A i \in LiveInbounds : Misnamed(i) => \E p \in Requests : Renames(p, i)

EditInv ==
    TypeOK /\ Shapes /\ TagsInStep /\ Bases /\ RowsInStep /\ ChangesInHand /\ RenamesInHand

-----------------------------------------------------------------------------
(***************************************************************************)
(* Types and shapes.                                                       *)
(***************************************************************************)

LEMMA InitTypes == Init => TypeOK /\ Shapes
  <1> SUFFICES ASSUME Init PROVE TypeOK /\ Shapes
    OBVIOUS
  <1> USE EditsAssumption DEF Init
  <1>1. TypeOK
    <2>1. node \in [Nodes -> NodeRow] /\ inbound \in [Inbounds -> InboundRow \cup {Absent}]
      BY Zenon DEF NoRows
    <2>2. pc \in [Requests -> Steps]
      BY DEF Steps
    <2>3. rows \in [Requests -> [Inbounds -> InboundRow \cup {Absent}]]
          /\ plan \in [Requests -> [Inbounds -> Tags \cup {None}]]
      BY DEF NoRows, NoPlan
    <2>4. /\ target \in [Requests -> Nodes \cup Inbounds \cup {None}]
          /\ read \in [Requests -> NodeRow \cup InboundRow \cup {None}]
          /\ write \in [Requests -> NodeRow \cup InboundRow \cup {None}]
      OBVIOUS
    <2>5. opened = 0 /\ stale = {} /\ overwritten = FALSE /\ cut = FALSE
      OBVIOUS
    <2>6. 0 \in 0..MaxRequests
      BY EditsAssumption
    <2> HIDE EditsAssumption DEF Init
    <2> QED BY <2>1, <2>2, <2>3, <2>4, <2>5, <2>6 DEF TypeOK
  <1>2. Shapes
    BY DEF Shapes, OfNode, OfRow
  <1> QED BY <1>1, <1>2

\* A request that ends holds nothing.
LEMMA EndsTypes ==
    ASSUME TypeOK, Shapes, NEW p \in Requests, Ends(p),
           node' = node, inbound' = inbound, opened' = opened,
           stale' \in SUBSET Nodes, overwritten' = overwritten, cut' \in BOOLEAN
    PROVE  TypeOK' /\ Shapes'
  <1> USE DEF Ends, Goto
  <1>1. TypeOK'
    BY DEF TypeOK, NoRows, NoPlan, Steps
  <1>2. Shapes'
    BY DEF Shapes, TypeOK, OfNode, OfRow
  <1> QED BY <1>1, <1>2

LEMMA OpensTypes ==
    ASSUME TypeOK, Shapes, NEW p \in Requests, Opens(p),
           NEW l \in Steps \ OfNode, NEW t \in Nodes \cup Inbounds, NEW w \in NodeRow \cup InboundRow,
           Goto(p, l),
           target' = [target EXCEPT ![p] = t], write' = [write EXCEPT ![p] = w],
           read' \in [Requests -> NodeRow \cup InboundRow \cup {None}],
           \A q \in Requests \ {p} : read'[q] = read[q],
           l = "prev" => t \in Nodes /\ w \in NodeRow,
           l \in OfRow => t \in Inbounds /\ w \in InboundRow,
           l \in OfRow \ {"reread"} => read'[p] \in InboundRow,
           l = "insert" => t \in Nodes /\ read'[p] \in NodeRow /\ w \in InboundRow,
           l # "tellBoth",
           UNCHANGED <<rowVars, rows, plan, stale, overwritten, cut>>
    PROVE  TypeOK' /\ Shapes'
  <1> USE DEF Opens, Goto, rowVars
  <1>1. TypeOK'
    <2>1. opened' \in 0..MaxRequests
      BY EditsAssumption DEF TypeOK
    <2>2. pc' \in [Requests -> Steps] /\ target' \in [Requests -> Nodes \cup Inbounds \cup {None}]
          /\ write' \in [Requests -> NodeRow \cup InboundRow \cup {None}]
      BY DEF TypeOK
    <2> QED BY <2>1, <2>2 DEF TypeOK
  <1>2. Shapes'
    BY DEF Shapes, TypeOK, OfNode, OfRow
  <1> QED BY <1>1, <1>2

\* A request goes on with what it holds.
LEMMA GoesOnTypes ==
    ASSUME TypeOK, Shapes, NEW p \in Requests, NEW l \in Steps, Goto(p, l), l # "retag",
           node' \in [Nodes -> NodeRow], inbound' \in [Inbounds -> InboundRow \cup {Absent}],
           UNCHANGED <<opened, workVars>>,
           stale' \in SUBSET Nodes, overwritten' \in BOOLEAN, cut' \in BOOLEAN,
           \/ l \in OfNode /\ pc[p] \in OfNode
           \/ l = "tellEdit" /\ pc[p] = "save"
           \/ l = "tellBoth" /\ pc[p] \in {"switch", "delete", "insert"}
    PROVE  TypeOK' /\ Shapes'
  <1> USE DEF Goto, workVars
  <1>1. TypeOK'
    BY DEF TypeOK
  <1>2. Shapes'
    BY DEF Shapes, TypeOK, OfNode, OfRow
  <1> QED BY <1>1, <1>2

\* Histories have their types, whatever is written.
LEMMA HistoryTypes ==
    ASSUME TypeOK, Changes
    PROVE  stale' \in SUBSET Nodes
  BY DEF TypeOK, Changes

LEMMA OpensNodeTypes ==
    ASSUME TypeOK, Shapes, NEW p \in Requests, NEW n \in Nodes, NEW r \in NodeRow, OpensNode(p, n, r)
    PROVE  TypeOK' /\ Shapes'
  <1>1. "prev" \in Steps \ OfNode /\ "prev" \notin OfRow
    BY DEF Steps, Statements, OfNode, OfRow
  <1>2. read' \in [Requests -> NodeRow \cup InboundRow \cup {None}]
        /\ \A q \in Requests \ {p} : read'[q] = read[q]
    BY DEF OpensNode, TypeOK
  <1> QED BY <1>1, <1>2, OpensTypes DEF OpensNode

LEMMA WritesNodeTypes ==
    ASSUME TypeOK, Shapes, NEW p \in Requests, WritesNode(p)
    PROVE  TypeOK' /\ Shapes'
  <1>1. pc[p] \in OfNode /\ target[p] \in Nodes /\ write[p] \in NodeRow
    BY DEF WritesNode, Shapes, OfNode
  <1>2. node' \in [Nodes -> NodeRow] /\ inbound' \in [Inbounds -> InboundRow \cup {Absent}]
        /\ overwritten' \in BOOLEAN /\ cut' \in BOOLEAN
    BY <1>1 DEF WritesNode, TypeOK
  <1>3. PICK l \in {"rows", "tell"} : Goto(p, l)
    BY DEF WritesNode
  <1>4. l \in Steps /\ l \in OfNode
    BY DEF Steps, Statements, Committed, OfNode
  <1> QED BY <1>1, <1>2, <1>3, <1>4, HistoryTypes, GoesOnTypes DEF WritesNode

LEMMA ReadsTypes ==
    ASSUME TypeOK, Shapes, NEW p \in Requests, ReadsPrev(p) \/ ReadsRows(p)
    PROVE  TypeOK' /\ Shapes'
  <1>1. CASE ReadsPrev(p)
    <2> USE <1>1 DEF ReadsPrev, Goto, rowVars
    <2>1. target[p] \in Nodes /\ node[target[p]] \in NodeRow
      BY DEF Shapes, TypeOK
    <2>2. TypeOK'
      BY <2>1 DEF TypeOK, Steps, Statements
    <2>3. Shapes'
      BY <2>1 DEF Shapes, TypeOK, OfNode, OfRow
    <2> QED BY <2>2, <2>3
  <1>2. CASE ReadsRows(p)
    <2> USE <1>2 DEF ReadsRows, Goto, rowVars
    <2>1. rows' \in [Requests -> [Inbounds -> InboundRow \cup {Absent}]]
      BY DEF TypeOK, NodeInbounds, LiveInbounds
    <2>2. pc' \in [Requests -> Steps]
      BY DEF TypeOK, Steps, Statements, Committed
    <2>3. TypeOK'
      BY <2>1, <2>2 DEF TypeOK
    <2>4. Shapes'
      BY DEF Shapes, TypeOK, OfNode, OfRow
    <2> QED BY <2>3, <2>4
  <1> QED BY <1>1, <1>2

LEMMA ReadsTakenTypes ==
    ASSUME TypeOK, Shapes, NEW p \in Requests, ReadsTaken(p)
    PROVE  TypeOK' /\ Shapes'
  <1> USE DEF ReadsTaken, Goto, rowVars
  <1>1. target[p] \in Nodes /\ write[p] \in NodeRow /\ Slug[write[p].name] \in Slugs
    BY EditsAssumption DEF Shapes, OfNode, NodeRow
  <1>2. plan' \in [Requests -> [Inbounds -> Tags \cup {None}]]
    BY <1>1 DEF TypeOK, Numberings, Tags
  <1>3. pc' \in [Requests -> Steps]
    BY DEF TypeOK, Steps, Statements, Committed
  <1>4. TypeOK'
    BY <1>2, <1>3 DEF TypeOK
  <1>5. \A i \in Inbounds : plan'[p][i] # None => rows'[p][i] # Absent
    <2> DEFINE slug == Slug[write[p].name]
               own == {i \in Inbounds : rows[p][i] # Absent}
               free == {k \in Numbers : \A i \in LiveInbounds :
                           inbound[i].home # target[p] => inbound[i].tag # <<slug, k>>}
    <2>1. PICK number \in Numberings(own, free) :
             LET new == {i \in own : <<slug, number[i]>> # rows[p][i].tag}
             IN  plan' = [plan EXCEPT ![p] = [i \in Inbounds |-> IF i \in new THEN <<slug, number[i]>> ELSE None]]
      OBVIOUS
    <2> HIDE DEF slug, free
    <2> QED BY <2>1 DEF TypeOK
  <1>6. \A q \in Requests \ {p} : plan'[q] = plan[q] /\ pc'[q] = pc[q] /\ rows'[q] = rows[q]
    BY DEF TypeOK
  <1>7. Shapes'
    BY <1>5, <1>6 DEF Shapes, TypeOK, OfNode, OfRow
  <1> QED BY <1>4, <1>7

LEMMA RetagsTypes ==
    ASSUME TypeOK, Shapes, NEW p \in Requests, Retags(p)
    PROVE  TypeOK' /\ Shapes'
  <1>1. ASSUME NEW i \in Planned(p)
        PROVE  Replanned(p)[i] \in InboundRow
    <2>1. i \in Inbounds /\ inbound[i] \in InboundRow /\ plan[p][i] \in Tags
      BY <1>1 DEF Retags, Planned, LiveInbounds, TypeOK
    <2>2. rows[p][i] \in InboundRow
      BY <1>1, <2>1 DEF Retags, Shapes, TypeOK, Planned
    <2> QED BY <1>1, <2>1, <2>2 DEF Replanned, InboundRow
  <1>2. inbound' \in [Inbounds -> InboundRow \cup {Absent}]
    BY <1>1 DEF Retags, Replanned, TypeOK
  <1>3. overwritten' \in BOOLEAN /\ "tell" \in Steps /\ "tell" \in OfNode /\ pc[p] \in OfNode
    BY DEF Retags, TypeOK, Steps, OfNode
  <1> QED BY <1>2, <1>3, HistoryTypes, GoesOnTypes DEF Retags, TypeOK

LEMMA TellsTypes ==
    ASSUME TypeOK, Shapes, NEW p \in Requests,
           TellsNode(p) \/ TellsHosts(p) \/ TellsEdit(p) \/ TellsBoth(p) \/ Fails(p)
    PROVE  TypeOK' /\ Shapes'
  <1>1. stale' \in SUBSET Nodes /\ cut' \in BOOLEAN /\ node' = node /\ inbound' = inbound
        /\ opened' = opened /\ overwritten' = overwritten
    BY DEF TellsNode, TellsHosts, TellsEdit, TellsBoth, Fails, Tell, TypeOK, rowVars
  <1>2. CASE Ends(p)
    BY <1>1, <1>2, EndsTypes
  <1>3. CASE ~Ends(p)
    <2>1. Goto(p, "hosts") /\ UNCHANGED workVars /\ pc[p] \in OfNode
      BY <1>3 DEF TellsNode, TellsHosts, TellsEdit, TellsBoth, Fails, OfNode
    <2>2. "hosts" \in Steps /\ "hosts" \in OfNode
      BY DEF Steps, Statements, Committed, OfNode
    <2> QED BY <1>1, <2>1, <2>2, GoesOnTypes DEF TypeOK
  <1> QED BY <1>2, <1>3

LEMMA OpensInboundTypes ==
    ASSUME TypeOK, Shapes, NEW p \in Requests, NEW i \in Inbounds,
           \/ \E port \in Ports, relay \in Nodes \cup {None} : OpensEdit(p, i, port, relay)
           \/ OpensSwitch(p, i)
           \/ OpensDelete(p, i)
    PROVE  TypeOK' /\ Shapes'
  <1>1. inbound[i] \in InboundRow
    BY DEF OpensEdit, OpensSwitch, OpensDelete, LiveInbounds, TypeOK
  <1>2. [inbound[i] EXCEPT !.enabled = ~@] \in InboundRow
    BY <1>1 DEF InboundRow
  <1>3. {"save", "reread", "delete"} \subseteq Steps \ OfNode
    BY DEF Steps, Statements, OfNode
  <1>4. read' \in [Requests -> NodeRow \cup InboundRow \cup {None}]
        /\ \A q \in Requests \ {p} : read'[q] = read[q]
    BY <1>1 DEF OpensEdit, OpensSwitch, OpensDelete, TypeOK
  <1>5. ASSUME NEW port \in Ports, NEW relay \in Nodes \cup {None}, OpensEdit(p, i, port, relay)
        PROVE  TypeOK' /\ Shapes'
    <2>1. read'[p] \in InboundRow
      BY <1>1, <1>5 DEF OpensEdit, TypeOK
    <2>2. [inbound[i] EXCEPT !.port = port, !.conf.port = port, !.relay = relay] \in InboundRow
      BY <1>1 DEF InboundRow
    <2> QED BY <1>3, <1>4, <1>5, <2>1, <2>2, OpensTypes DEF OpensEdit
  <1>6. CASE OpensSwitch(p, i)
    BY <1>2, <1>3, <1>4, <1>6, OpensTypes DEF OpensSwitch, OfRow
  <1>7. CASE OpensDelete(p, i)
    <2>1. read'[p] \in InboundRow
      BY <1>1, <1>7 DEF OpensDelete, TypeOK
    <2> QED BY <1>1, <1>3, <1>4, <1>7, <2>1, OpensTypes DEF OpensDelete
  <1> QED BY <1>5, <1>6, <1>7

LEMMA OpensCreateTypes ==
    ASSUME TypeOK, Shapes, NEW p \in Requests, NEW n \in Nodes, NEW port \in Ports,
           NEW relay \in Nodes \cup {None}, NEW typed \in BOOLEAN, OpensCreate(p, n, port, relay, typed)
    PROVE  TypeOK' /\ Shapes'
  <1>1. node[n] \in NodeRow /\ node[n].name \in Names
    BY DEF TypeOK, NodeRow
  <1> DEFINE slug == IF typed THEN Typed ELSE Slug[node[n].name]
  <1>2. PICK k \in Numbers : write' = [write EXCEPT ![p] =
              [home |-> n, tag |-> <<slug, k>>, port |-> port, conf |-> [tag |-> <<slug, k>>, port |-> port],
               relay |-> relay, enabled |-> TRUE]]
    BY DEF OpensCreate
  <1>3. <<slug, k>> \in Tags
    BY <1>1, EditsAssumption DEF Tags
  <1>4. [home |-> n, tag |-> <<slug, k>>, port |-> port, conf |-> [tag |-> <<slug, k>>, port |-> port],
         relay |-> relay, enabled |-> TRUE] \in InboundRow
    BY <1>3 DEF InboundRow
  <1>5. "insert" \in Steps \ OfNode /\ "insert" \notin OfRow
    BY DEF Steps, Statements, OfNode, OfRow
  <1>6. read' \in [Requests -> NodeRow \cup InboundRow \cup {None}]
        /\ read'[p] \in NodeRow /\ \A q \in Requests \ {p} : read'[q] = read[q]
    BY <1>1 DEF OpensCreate, TypeOK
  <1> HIDE DEF slug
  <1> QED BY <1>2, <1>4, <1>5, <1>6, OpensTypes DEF OpensCreate

LEMMA SavesTypes ==
    ASSUME TypeOK, Shapes, NEW p \in Requests, Saves(p) \/ Deletes(p) \/ Inserts(p)
    PROVE  TypeOK' /\ Shapes'
  <1>1. CASE Saves(p)
    <2>1. target[p] \in Inbounds /\ write[p] \in InboundRow /\ inbound[target[p]] \in InboundRow
      BY <1>1 DEF Saves, Shapes, OfRow, LiveInbounds, TypeOK
    <2>2. [write[p] EXCEPT !.home = inbound[target[p]].home] \in InboundRow
      BY <2>1 DEF InboundRow
    <2>3. inbound' \in [Inbounds -> InboundRow \cup {Absent}] /\ overwritten' \in BOOLEAN
      BY <1>1, <2>1, <2>2 DEF Saves, TypeOK
    <2>4. PICK l \in {"tellEdit", "tellBoth"} :
             Goto(p, l) /\ (l = "tellEdit" => pc[p] = "save") /\ (l = "tellBoth" => pc[p] = "switch")
      BY <1>1 DEF Saves
    <2> QED BY <1>1, <2>3, <2>4, HistoryTypes, GoesOnTypes DEF Saves, TypeOK, Steps
  <1>2. CASE Deletes(p)
    <2>1. inbound' \in [Inbounds -> InboundRow \cup {Absent}] /\ overwritten' \in BOOLEAN
      BY <1>2 DEF Deletes, TypeOK
    <2> QED BY <1>2, <2>1, HistoryTypes, GoesOnTypes DEF Deletes, TypeOK, Steps
  <1>3. CASE Inserts(p)
    <2>1. write[p] \in InboundRow
      BY <1>3 DEF Inserts, Shapes
    <2>2. inbound' \in [Inbounds -> InboundRow \cup {Absent}] /\ overwritten' \in BOOLEAN
      BY <1>3, <2>1 DEF Inserts, TypeOK
    <2> QED BY <1>3, <2>2, HistoryTypes, GoesOnTypes DEF Inserts, TypeOK, Steps
  <1> QED BY <1>1, <1>2, <1>3

LEMMA RereadsTypes ==
    ASSUME TypeOK, Shapes, NEW p \in Requests, Rereads(p)
    PROVE  TypeOK' /\ Shapes'
  <1> USE DEF Rereads, Goto, rowVars
  <1>1. target[p] \in Inbounds /\ write[p] \in InboundRow /\ inbound[target[p]] \in InboundRow
    BY DEF Shapes, OfRow, LiveInbounds, TypeOK
  <1>2. [inbound[target[p]] EXCEPT !.enabled = write[p].enabled] \in InboundRow
    BY <1>1 DEF InboundRow
  <1>3. TypeOK'
    BY <1>1, <1>2 DEF TypeOK, Steps, Statements
  <1>4. Shapes'
    BY <1>1, <1>2 DEF Shapes, TypeOK, OfNode, OfRow
  <1> QED BY <1>3, <1>4

LEMMA RestartTypes ==
    ASSUME TypeOK, Restart
    PROVE  TypeOK' /\ Shapes'
  <1> USE DEF Restart, rowVars
  <1>1. TypeOK'
    BY DEF TypeOK, NoRows, NoPlan, Steps
  <1>2. Shapes'
    BY DEF Shapes, OfNode, OfRow
  <1> QED BY <1>1, <1>2

LEMMA TypesKept ==
    ASSUME TypeOK, Shapes, [Next]_vars
    PROVE  TypeOK' /\ Shapes'
  <1>1. ASSUME NEW p \in Requests, NodeStep(p) PROVE TypeOK' /\ Shapes'
    BY <1>1, OpensNodeTypes, ReadsTypes, WritesNodeTypes, ReadsTakenTypes, RetagsTypes, TellsTypes
    DEF NodeStep
  <1>2. ASSUME NEW p \in Requests, InboundStep(p) PROVE TypeOK' /\ Shapes'
    BY <1>2, OpensInboundTypes, OpensCreateTypes, RereadsTypes, SavesTypes, TellsTypes DEF InboundStep
  <1>3. ASSUME NEW p \in Requests, Fails(p) PROVE TypeOK' /\ Shapes'
    BY <1>3, TellsTypes
  <1>4. CASE Restart
    BY <1>4, RestartTypes
  <1>5. CASE UNCHANGED vars
    BY <1>5 DEF vars, rowVars, workVars, TypeOK, Shapes
  <1> QED BY <1>1, <1>2, <1>3, <1>4, <1>5 DEF Next

-----------------------------------------------------------------------------
(***************************************************************************)
(* What requests hold.                                                     *)
(***************************************************************************)

RequestStep(p) == NodeStep(p) \/ InboundStep(p) \/ Fails(p)
Same(q) ==
    /\ pc'[q] = pc[q] /\ target'[q] = target[q]
    /\ read'[q] = read[q] /\ write'[q] = write[q]
    /\ rows'[q] = rows[q] /\ plan'[q] = plan[q]

\* Nobody touches what another request holds.
LEMMA OthersSame ==
    ASSUME TypeOK, NEW p \in Requests, RequestStep(p), NEW q \in Requests, q # p
    PROVE  Same(q)
  <1> USE DEF TypeOK, Same, Goto, Opens, workVars
  <1>1. ASSUME NEW n \in Nodes, NEW r \in NodeRow, OpensNode(p, n, r) PROVE Same(q)
    BY <1>1 DEF OpensNode
  <1>2. CASE ReadsPrev(p) \/ WritesNode(p) \/ ReadsRows(p) \/ Retags(p) \/ Rereads(p)
    BY <1>2 DEF ReadsPrev, WritesNode, ReadsRows, Retags, Rereads
  <1>3. CASE ReadsTaken(p)
    BY <1>3 DEF ReadsTaken
  <1>4. CASE TellsNode(p) \/ TellsHosts(p) \/ TellsEdit(p) \/ TellsBoth(p) \/ Fails(p)
    BY <1>4 DEF TellsNode, TellsHosts, TellsEdit, TellsBoth, Fails, Ends
  <1>5. CASE Saves(p) \/ Deletes(p) \/ Inserts(p)
    BY <1>5 DEF Saves, Deletes, Inserts
  <1>6. ASSUME NEW i \in Inbounds, OpensSwitch(p, i) \/ OpensDelete(p, i) PROVE Same(q)
    BY <1>6 DEF OpensSwitch, OpensDelete
  <1>7. ASSUME NEW i \in Inbounds, NEW port \in Ports, NEW relay \in Nodes \cup {None},
               OpensEdit(p, i, port, relay)
        PROVE  Same(q)
    BY <1>7 DEF OpensEdit
  <1>8. ASSUME NEW n \in Nodes, NEW port \in Ports, NEW relay \in Nodes \cup {None}, NEW typed \in BOOLEAN,
               OpensCreate(p, n, port, relay, typed)
        PROVE  Same(q)
    BY <1>8 DEF OpensCreate
  <1> HIDE DEF TypeOK, Same, Goto, Opens
  <1>9. CASE NodeStep(p)
    BY <1>1, <1>2, <1>3, <1>4, <1>9 DEF NodeStep
  <1>10. CASE InboundStep(p)
    BY <1>2, <1>4, <1>5, <1>6, <1>7, <1>8, <1>10 DEF InboundStep
  <1> QED BY <1>4, <1>9, <1>10 DEF RequestStep

\* What the plan of a rename is.
LEMMA PlanOf ==
    ASSUME TypeOK, Shapes, NEW p \in Requests, ReadsTaken(p)
    PROVE  /\ pc[p] = "taken" /\ pc'[p] \in {"tell", "retag"}
           /\ target' = target /\ read' = read /\ write' = write /\ rows' = rows
           /\ \A i \in Inbounds : plan'[p][i] # None =>
                 plan'[p][i][1] = Slug[write[p].name] /\ rows[p][i] # Absent
           /\ \A i \in Inbounds : rows[p][i] # Absent /\ rows[p][i].tag[1] # Slug[write[p].name] =>
                 plan'[p][i] # None /\ pc'[p] = "retag"
  <1> DEFINE slug == Slug[write[p].name]
             own == {i \in Inbounds : rows[p][i] # Absent}
             free == {k \in Numbers : \A i \in LiveInbounds :
                         inbound[i].home # target[p] => inbound[i].tag # <<slug, k>>}
  <1>1. PICK number \in Numberings(own, free) :
           LET new == {i \in own : <<slug, number[i]>> # rows[p][i].tag}
           IN  /\ plan' = [plan EXCEPT ![p] = [i \in Inbounds |-> IF i \in new THEN <<slug, number[i]>> ELSE None]]
               /\ Goto(p, IF new = {} THEN "tell" ELSE "retag")
    BY DEF ReadsTaken
  <1> DEFINE new == {i \in own : <<slug, number[i]>> # rows[p][i].tag}
  <1>2. slug \in Slugs /\ \A i \in own : number[i] \in Numbers
    BY EditsAssumption DEF ReadsTaken, Shapes, OfNode, NodeRow, Numberings
  <1>3. \A i \in own : <<slug, number[i]>> \in Tags /\ <<slug, number[i]>> # None
    BY <1>2, EditsAssumption DEF Tags
  <1>4. /\ pc[p] = "taken" /\ pc'[p] \in {"tell", "retag"}
        /\ target' = target /\ read' = read /\ write' = write /\ rows' = rows
    BY <1>1 DEF ReadsTaken, TypeOK, Goto
  <1>5. plan'[p] = [i \in Inbounds |-> IF i \in new THEN <<slug, number[i]>> ELSE None]
        /\ pc'[p] = IF new = {} THEN "tell" ELSE "retag"
    BY <1>1 DEF TypeOK, Goto
  <1>6. \A i \in own : rows[p][i].tag[1] # slug => i \in new
    OBVIOUS
  <1> HIDE DEF slug, new, free
  <1>7. ASSUME NEW i \in Inbounds, plan'[p][i] # None
        PROVE  plan'[p][i][1] = slug /\ rows[p][i] # Absent
    BY <1>5, <1>7 DEF new
  <1>8. ASSUME NEW i \in own, rows[p][i].tag[1] # slug
        PROVE  plan'[p][i] # None /\ pc'[p] = "retag"
    BY <1>3, <1>5, <1>6, <1>8
  <1> QED BY <1>4, <1>7, <1>8 DEF slug

\* What request p holds is based on rows after its own step.
LEMMA OwnBase ==
    ASSUME TypeOK, Shapes, NEW p \in Requests, Base(p), RequestStep(p)
    PROVE  Base(p)'
  <1> USE DEF TypeOK, Goto, Opens, workVars
  <1>0. ASSUME pc'[p] \notin {"save", "tellEdit", "switch", "delete", "insert", "taken", "retag"}
        PROVE  Base(p)'
    BY <1>0 DEF Base
  <1>1. ASSUME NEW n \in Nodes, NEW r \in NodeRow, OpensNode(p, n, r) PROVE Base(p)'
    BY <1>0, <1>1 DEF OpensNode
  <1>2. CASE ReadsPrev(p) \/ WritesNode(p) \/ Retags(p)
    BY <1>0, <1>2 DEF ReadsPrev, WritesNode, Retags
  <1>3. CASE ReadsRows(p)
    <2>1. pc'[p] \in {"tell", "taken"}
          /\ \A i \in Inbounds : rows'[p][i] # Absent => rows'[p][i].home = target'[p]
      BY <1>3 DEF ReadsRows, NodeInbounds
    <2> QED BY <2>1 DEF Base
  <1>4. CASE ReadsTaken(p)
    BY <1>4, PlanOf DEF Base
  <1>5. CASE TellsNode(p) \/ TellsHosts(p) \/ TellsEdit(p) \/ TellsBoth(p) \/ Fails(p)
    BY <1>0, <1>5 DEF TellsNode, TellsHosts, TellsEdit, TellsBoth, Fails, Ends
  <1>6. CASE Saves(p) \/ Deletes(p) \/ Inserts(p)
    <2>1. (Saves(p) /\ pc[p] = "save") \/ pc'[p] = "tellBoth"
      BY <1>6 DEF Saves, Deletes, Inserts
    <2>2. ASSUME Saves(p), pc[p] = "save" PROVE Base(p)'
      BY <2>2 DEF Saves, Base
    <2> QED BY <1>0, <2>1, <2>2
  <1>7. ASSUME NEW i \in Inbounds, OpensSwitch(p, i) \/ OpensDelete(p, i) PROVE Base(p)'
    BY <1>0, <1>7 DEF OpensSwitch, OpensDelete, Base
  <1>8. ASSUME NEW i \in Inbounds, NEW port \in Ports, NEW relay \in Nodes \cup {None},
               OpensEdit(p, i, port, relay)
        PROVE  Base(p)'
    <2>1. inbound[i] \in InboundRow
      BY <1>8 DEF OpensEdit, LiveInbounds
    <2>2. /\ pc'[p] = "save" /\ read'[p] = inbound[i]
          /\ write'[p] = [inbound[i] EXCEPT !.port = port, !.conf.port = port, !.relay = relay]
      BY <1>8 DEF OpensEdit
    <2> QED BY <2>1, <2>2 DEF Base, InboundRow
  <1>9. ASSUME NEW n \in Nodes, NEW port \in Ports, NEW relay \in Nodes \cup {None}, NEW typed \in BOOLEAN,
               OpensCreate(p, n, port, relay, typed)
        PROVE  Base(p)'
    <2>1. /\ pc'[p] = "insert" /\ target'[p] = n /\ read'[p] = node[n]
          /\ write'[p].home = n
          /\ write'[p].tag[1] = IF typed THEN Typed ELSE Slug[node[n].name]
      BY <1>9 DEF OpensCreate
    <2> QED BY <2>1 DEF Base
  <1>10. CASE Rereads(p)
    <2>1. /\ inbound[target[p]] \in InboundRow /\ pc'[p] = "switch" /\ read'[p] = inbound[target[p]]
          /\ write'[p] = [inbound[target[p]] EXCEPT !.enabled = write[p].enabled]
      BY <1>10 DEF Rereads, Shapes, OfRow, LiveInbounds
    <2> QED BY <2>1 DEF Base, InboundRow
  <1> HIDE DEF TypeOK, Goto, Opens
  <1>11. CASE NodeStep(p)
    BY <1>1, <1>2, <1>3, <1>4, <1>5, <1>11 DEF NodeStep
  <1>12. CASE InboundStep(p)
    BY <1>5, <1>6, <1>7, <1>8, <1>9, <1>10, <1>12 DEF InboundStep
  <1> QED BY <1>5, <1>11, <1>12 DEF RequestStep

LEMMA BasesKept ==
    ASSUME TypeOK, Shapes, Bases, [Next]_vars
    PROVE  Bases'
  <1>1. ASSUME NEW p \in Requests, RequestStep(p), NEW q \in Requests PROVE Base(q)'
    <2>1. CASE q = p
      BY <1>1, <2>1, OwnBase DEF Bases
    <2>2. CASE q # p
      BY <1>1, <2>2, OthersSame DEF Bases, Base, Same
    <2> QED BY <2>1, <2>2
  <1>2. CASE Restart
    BY <1>2 DEF Restart, Bases, Base
  <1>3. CASE UNCHANGED vars
    BY <1>3 DEF vars, workVars, Bases, Base
  <1> QED BY <1>1, <1>2, <1>3 DEF Next, RequestStep, Bases

-----------------------------------------------------------------------------
(***************************************************************************)
(* Rows: what a step writes into the inbounds table, and what it is based  *)
(* on.                                                                     *)
(***************************************************************************)

\* A step writes at most one inbound, but for a rename, which gives tags.
LEMMA RetagsRow ==
    ASSUME TypeOK, Shapes, NEW p \in Requests, Retags(p), NEW i \in Inbounds
    PROVE  /\ inbound'[i] # Absent <=> inbound[i] # Absent
           /\ i \notin Planned(p) => inbound'[i] = inbound[i]
           /\ i \in Planned(p) =>
                 /\ inbound[i] \in InboundRow /\ rows[p][i] \in InboundRow
                 /\ inbound'[i].tag = plan[p][i] /\ inbound'[i].conf.tag = plan[p][i]
                 /\ inbound'[i].conf.port = rows[p][i].conf.port
                 /\ inbound'[i].home = inbound[i].home /\ inbound'[i].port = inbound[i].port
                 /\ inbound'[i].relay = inbound[i].relay /\ inbound'[i].enabled = inbound[i].enabled
                 /\ ~overwritten' => inbound[i] = rows[p][i] /\ node[target[p]].name = write[p].name
  <1>1. inbound'[i] = Replanned(p)[i]
    BY DEF Retags
  <1>2. CASE i \notin Planned(p)
    BY <1>1, <1>2 DEF Replanned
  <1>3. CASE i \in Planned(p)
    <2>1. inbound[i] \in InboundRow
      BY <1>3 DEF Retags, LiveInbounds, TypeOK
    <2>2. rows[p][i] \in InboundRow
      BY <1>3 DEF Retags, Shapes, TypeOK, Planned
    <2>3. inbound'[i] = [inbound[i] EXCEPT !.tag = plan[p][i],
                            !.conf = [rows[p][i].conf EXCEPT !.tag = plan[p][i]]]
      BY <1>1, <1>3 DEF Replanned
    <2>4. inbound'[i] \in InboundRow
      <3>1. plan[p][i] \in Tags
        BY <1>3 DEF Planned, TypeOK
      <3>2. [rows[p][i].conf EXCEPT !.tag = plan[p][i]] \in [tag : Tags, port : Ports]
        BY <2>2, <3>1 DEF InboundRow
      <3> QED BY <2>1, <2>3, <3>1, <3>2 DEF InboundRow
    <2>5. ~overwritten' => inbound[i] = rows[p][i] /\ node[target[p]].name = write[p].name
      BY <1>3 DEF Retags
    <2>6. inbound'[i] # Absent
      BY <2>4, EditsAssumption
    <2>7. /\ inbound'[i].tag = plan[p][i] /\ inbound'[i].conf.tag = plan[p][i]
          /\ inbound'[i].conf.port = rows[p][i].conf.port
          /\ inbound'[i].home = inbound[i].home /\ inbound'[i].port = inbound[i].port
          /\ inbound'[i].relay = inbound[i].relay /\ inbound'[i].enabled = inbound[i].enabled
      BY <2>1, <2>2, <2>3 DEF InboundRow
    <2> QED BY <1>3, <2>1, <2>2, <2>5, <2>6, <2>7, EditsAssumption
  <1> QED BY <1>2, <1>3

LEMMA SavesRow ==
    ASSUME TypeOK, Shapes, Bases, NEW p \in Requests, Saves(p)
    PROVE  /\ target[p] \in LiveInbounds
           /\ inbound[target[p]] \in InboundRow /\ read[p] \in InboundRow /\ write[p] \in InboundRow
           /\ inbound' = [inbound EXCEPT ![target[p]] = [write[p] EXCEPT !.home = inbound[target[p]].home]]
           /\ inbound'[target[p]] \in InboundRow
           /\ LiveInbounds' = LiveInbounds
           /\ \A i \in Inbounds : i # target[p] => inbound'[i] = inbound[i]
           /\ ~overwritten' => inbound[target[p]] = read[p] /\ inbound'[target[p]] = write[p]
           /\ inbound'[target[p]].home = inbound[target[p]].home
           /\ ~overwritten' => inbound'[target[p]].tag = inbound[target[p]].tag
  <1>1. /\ target[p] \in LiveInbounds /\ target[p] \in Inbounds
        /\ inbound[target[p]] \in InboundRow /\ read[p] \in InboundRow /\ write[p] \in InboundRow
    BY DEF Saves, Shapes, OfRow, LiveInbounds, TypeOK
  <1>2. inbound' = [inbound EXCEPT ![target[p]] = [write[p] EXCEPT !.home = inbound[target[p]].home]]
        /\ (~overwritten' => inbound[target[p]] = read[p])
    BY DEF Saves
  <1>3. inbound'[target[p]] = [write[p] EXCEPT !.home = inbound[target[p]].home]
        /\ \A i \in Inbounds : i # target[p] => inbound'[i] = inbound[i]
    BY <1>1, <1>2 DEF TypeOK
  <1>4. inbound'[target[p]] \in InboundRow /\ inbound'[target[p]] # Absent
    BY <1>1, <1>3, EditsAssumption DEF InboundRow
  <1>5. LiveInbounds' = LiveInbounds
    BY <1>1, <1>3, <1>4 DEF LiveInbounds
  <1>6. write[p].home = read[p].home /\ write[p].tag = read[p].tag
    <2>1. CASE pc[p] = "save"
      BY <2>1 DEF Bases, Base
    <2>2. CASE pc[p] = "switch"
      BY <1>1, <2>2 DEF Bases, Base, InboundRow
    <2> QED BY <2>1, <2>2 DEF Saves
  <1>7. /\ ~overwritten' => inbound'[target[p]] = write[p]
        /\ inbound'[target[p]].home = inbound[target[p]].home
    BY <1>1, <1>2, <1>3, <1>6 DEF InboundRow
  <1> QED BY <1>1, <1>2, <1>3, <1>4, <1>5, <1>6, <1>7

LEMMA InsertsRow ==
    ASSUME TypeOK, Shapes, Bases, NEW p \in Requests, Inserts(p)
    PROVE  \E i \in Inbounds \ LiveInbounds :
              /\ inbound'[i] = write[p] /\ write[p] \in InboundRow /\ write[p].home = target[p]
              /\ target[p] \in Nodes
              /\ write[p].tag[1] \in {Slug[read[p].name], Typed}
              /\ LiveInbounds' = LiveInbounds \cup {i}
              /\ \A j \in Inbounds : j # i => inbound'[j] = inbound[j]
              /\ ~overwritten' => node[target[p]].name = read[p].name
  <1>1. write[p] \in InboundRow /\ write[p].home = target[p] /\ target[p] \in Nodes
        /\ write[p].tag[1] \in {Slug[read[p].name], Typed} /\ write[p] # Absent
    BY EditsAssumption DEF Inserts, Shapes, Bases, Base
  <1>2. PICK i \in Inbounds : inbound[i] = Absent /\ inbound' = [inbound EXCEPT ![i] = write[p]]
    BY DEF Inserts
  <1>3. inbound'[i] = write[p] /\ \A j \in Inbounds : j # i => inbound'[j] = inbound[j]
    BY <1>2 DEF TypeOK
  <1>4. LiveInbounds' = LiveInbounds \cup {i} /\ i \notin LiveInbounds
    BY <1>1, <1>2, <1>3 DEF LiveInbounds
  <1>5. ~overwritten' => node[target[p]].name = read[p].name
    BY DEF Inserts
  <1> QED BY <1>1, <1>3, <1>4, <1>5

LEMMA DeletesRow ==
    ASSUME TypeOK, Shapes, Bases, NEW p \in Requests, Deletes(p)
    PROVE  /\ target[p] \in LiveInbounds /\ inbound[target[p]] \in InboundRow
           /\ LiveInbounds' = LiveInbounds \ {target[p]}
           /\ \A i \in Inbounds : i # target[p] => inbound'[i] = inbound[i]
           /\ ~overwritten' => inbound[target[p]] = write[p]
  <1>1. target[p] \in LiveInbounds /\ target[p] \in Inbounds /\ inbound[target[p]] \in InboundRow
    BY DEF Deletes, Shapes, OfRow, LiveInbounds, TypeOK
  <1>2. inbound'[target[p]] = Absent /\ \A i \in Inbounds : i # target[p] => inbound'[i] = inbound[i]
    BY <1>1 DEF Deletes, TypeOK
  <1>3. LiveInbounds' = LiveInbounds \ {target[p]}
    BY <1>1, <1>2 DEF LiveInbounds
  <1>4. ~overwritten' => inbound[target[p]] = write[p]
    BY DEF Deletes, Bases, Base
  <1> QED BY <1>1, <1>2, <1>3, <1>4

\* Nothing else writes the inbounds table.
LEMMA TableSame ==
    ASSUME TypeOK, [Next]_vars,
           \A p \in Requests : ~Retags(p) /\ ~Saves(p) /\ ~Inserts(p) /\ ~Deletes(p)
    PROVE  inbound' = inbound /\ LiveInbounds' = LiveInbounds
  <1> SUFFICES inbound' = inbound
    BY DEF LiveInbounds
  <1> USE DEF rowVars
  <1>1. ASSUME NEW p \in Requests, NodeStep(p) PROVE inbound' = inbound
    BY <1>1 DEF NodeStep, OpensNode, ReadsPrev, WritesNode, ReadsRows, ReadsTaken, TellsNode, TellsHosts
  <1>2. ASSUME NEW p \in Requests, InboundStep(p) PROVE inbound' = inbound
    BY <1>2 DEF InboundStep, OpensEdit, OpensSwitch, OpensDelete, OpensCreate, Rereads, TellsEdit, TellsBoth
  <1>3. CASE Restart \/ (\E p \in Requests : Fails(p)) \/ UNCHANGED vars
    BY <1>3 DEF Restart, Fails, vars
  <1> QED BY <1>1, <1>2, <1>3 DEF Next

\* A row that is to be written is a row of the table, or made of one's own port and
\* tag; or it is what it was.
LEMMA WritingOf ==
    ASSUME TypeOK, Shapes, NEW p \in Requests, RequestStep(p), pc'[p] \in Writing
    PROVE  \/ /\ write'[p].tag = write'[p].conf.tag
              /\ Sound(write'[p])
           \/ \E i \in LiveInbounds :
                 /\ write'[p].tag = inbound[i].tag
                 /\ write'[p].conf.tag = inbound[i].conf.tag
                 /\ Sound(inbound[i]) => Sound(write'[p])
  <1> USE DEF TypeOK, Goto, Opens, workVars, Writing
  <1>1. CASE NodeStep(p) \/ Fails(p) \/ Saves(p) \/ Deletes(p) \/ Inserts(p) \/ TellsEdit(p) \/ TellsBoth(p)
    <2>1. CASE NodeStep(p)
      BY <2>1, PlanOf DEF NodeStep, OpensNode, ReadsPrev, WritesNode, ReadsRows, Retags, TellsNode, TellsHosts, Ends
    <2> QED BY <1>1, <2>1 DEF Fails, Saves, Deletes, Inserts, TellsEdit, TellsBoth, Ends
  <1>2. CASE Rereads(p)
    <2>1. target[p] \in LiveInbounds /\ inbound[target[p]] \in InboundRow
          /\ write'[p] = [inbound[target[p]] EXCEPT !.enabled = write[p].enabled]
      BY <1>2 DEF Rereads, Shapes, OfRow, LiveInbounds
    <2> QED BY <2>1 DEF InboundRow, Sound
  <1>3. ASSUME NEW i \in Inbounds, OpensSwitch(p, i)
        PROVE  i \in LiveInbounds /\ write'[p].tag = inbound[i].tag /\ write'[p].conf.tag = inbound[i].conf.tag
               /\ (Sound(inbound[i]) => Sound(write'[p]))
    <2>1. i \in LiveInbounds /\ inbound[i] \in InboundRow
          /\ write'[p] = [inbound[i] EXCEPT !.enabled = ~@]
      BY <1>3 DEF OpensSwitch, LiveInbounds
    <2> QED BY <2>1 DEF InboundRow, Sound
  <1>4. ASSUME NEW i \in Inbounds, OpensDelete(p, i) PROVE FALSE
    BY <1>4 DEF OpensDelete
  <1>5. ASSUME NEW i \in Inbounds, NEW port \in Ports, NEW relay \in Nodes \cup {None},
               OpensEdit(p, i, port, relay)
        PROVE  i \in LiveInbounds /\ write'[p].tag = inbound[i].tag /\ write'[p].conf.tag = inbound[i].conf.tag
               /\ Sound(write'[p])
    <2>1. i \in LiveInbounds /\ inbound[i] \in InboundRow /\ relay # inbound[i].home
          /\ write'[p] = [inbound[i] EXCEPT !.port = port, !.conf.port = port, !.relay = relay]
      BY <1>5 DEF OpensEdit, LiveInbounds
    <2> QED BY <2>1 DEF InboundRow, Sound
  <1>6. ASSUME NEW n \in Nodes, NEW port \in Ports, NEW relay \in Nodes \cup {None}, NEW typed \in BOOLEAN,
               OpensCreate(p, n, port, relay, typed)
        PROVE  write'[p].tag = write'[p].conf.tag /\ Sound(write'[p])
    BY <1>6 DEF OpensCreate, Sound
  <1> HIDE DEF TypeOK, Goto, Opens, Writing
  <1>7. CASE InboundStep(p)
    BY <1>1, <1>2, <1>3, <1>4, <1>5, <1>6, <1>7 DEF InboundStep
  <1> QED BY <1>1, <1>7 DEF RequestStep

LEMMA TagsKept ==
    ASSUME TypeOK, Shapes, Bases, TagsInStep, [Next]_vars
    PROVE  TagsInStep'
  <1>1. TagsAgree'
    <2> SUFFICES ASSUME NEW i \in LiveInbounds' PROVE inbound'[i].tag = inbound'[i].conf.tag
      BY DEF TagsAgree
    <2> i \in Inbounds
      BY DEF LiveInbounds
    <2>1. CASE \E p \in Requests : Retags(p)
      <3>1. PICK p \in Requests : Retags(p)
        BY <2>1
      <3>2. CASE i \in Planned(p)
        BY <3>1, <3>2, RetagsRow DEF InboundRow
      <3>3. CASE i \notin Planned(p)
        BY <3>1, <3>3, RetagsRow DEF LiveInbounds, TagsInStep, TagsAgree
      <3> QED BY <3>2, <3>3
    <2>2. CASE \E p \in Requests : Saves(p)
      <3>1. PICK p \in Requests : Saves(p)
        BY <2>2
      <3>2. write[p].tag = write[p].conf.tag
        BY <3>1 DEF Saves, TagsInStep, Writing
      <3>3. inbound'[target[p]].tag = write[p].tag /\ inbound'[target[p]].conf = write[p].conf
        BY <3>1, SavesRow DEF TypeOK, LiveInbounds, InboundRow
      <3> QED BY <3>1, <3>2, <3>3, SavesRow DEF TagsInStep, TagsAgree
    <2>3. CASE \E p \in Requests : Inserts(p)
      <3>1. PICK p \in Requests : Inserts(p)
        BY <2>3
      <3>2. write[p].tag = write[p].conf.tag
        BY <3>1 DEF Inserts, TagsInStep, Writing
      <3> QED BY <3>1, <3>2, InsertsRow DEF TagsInStep, TagsAgree
    <2>4. CASE \E p \in Requests : Deletes(p)
      BY <2>4, DeletesRow DEF TagsInStep, TagsAgree
    <2> QED BY <2>1, <2>2, <2>3, <2>4, TableSame DEF TagsInStep, TagsAgree
  <1>2. ASSUME NEW p \in Requests, RequestStep(p), NEW q \in Requests, pc'[q] \in Writing
        PROVE  write'[q].tag = write'[q].conf.tag
    <2>1. CASE q = p
      BY <1>2, <2>1, WritingOf DEF TagsInStep, TagsAgree
    <2>2. CASE q # p
      BY <1>2, <2>2, OthersSame DEF Same, TagsInStep
    <2> QED BY <2>1, <2>2
  <1>3. ASSUME Restart, NEW q \in Requests PROVE pc'[q] \notin Writing
    BY <1>3 DEF Restart, Writing
  <1>4. CASE UNCHANGED vars
    BY <1>1, <1>4 DEF vars, workVars, TagsInStep
  <1> QED BY <1>1, <1>2, <1>3, <1>4 DEF Next, RequestStep, TagsInStep

\* The marks of an overlap and of a cut stay.
LEMMA MarksStay ==
    ASSUME TypeOK, [Next]_vars
    PROVE  (overwritten => overwritten') /\ (cut => cut')
  <1> USE DEF TypeOK
  <1>1. ASSUME NEW p \in Requests, NodeStep(p) PROVE (overwritten => overwritten') /\ (cut => cut')
    BY <1>1 DEF NodeStep, OpensNode, ReadsPrev, WritesNode, ReadsRows, ReadsTaken, Retags, TellsNode, TellsHosts
  <1>2. ASSUME NEW p \in Requests, InboundStep(p) PROVE (overwritten => overwritten') /\ (cut => cut')
    BY <1>2 DEF InboundStep, OpensEdit, OpensSwitch, OpensDelete, OpensCreate, Rereads, Saves, Deletes,
                Inserts, TellsEdit, TellsBoth
  <1>3. CASE Restart \/ (\E p \in Requests : Fails(p)) \/ UNCHANGED vars
    BY <1>3 DEF Restart, Fails, vars
  <1> QED BY <1>1, <1>2, <1>3 DEF Next

LEMMA RowsKept ==
    ASSUME TypeOK, Shapes, Bases, RowsInStep, [Next]_vars
    PROVE  RowsInStep'
  <1> SUFFICES ASSUME ~overwritten'
               PROVE  /\ \A i \in LiveInbounds' : Sound(inbound'[i])
                      /\ \A p \in Requests : pc'[p] \in Writing => Sound(write'[p])
    BY DEF RowsInStep, Sound
  <1>0. /\ \A i \in LiveInbounds : Sound(inbound[i])
        /\ \A p \in Requests : pc[p] \in Writing => Sound(write[p])
    BY MarksStay DEF RowsInStep
  <1>1. ASSUME NEW i \in LiveInbounds' PROVE Sound(inbound'[i])
    <2> i \in Inbounds
      BY DEF LiveInbounds
    <2>1. CASE \E p \in Requests : Retags(p)
      <3>1. PICK p \in Requests : Retags(p)
        BY <2>1
      <3>2. CASE i \in Planned(p)
        BY <1>0, <3>1, <3>2, RetagsRow DEF InboundRow, Sound, LiveInbounds
      <3>3. CASE i \notin Planned(p)
        BY <1>0, <3>1, <3>3, RetagsRow DEF LiveInbounds
      <3> QED BY <3>2, <3>3
    <2>2. CASE \E p \in Requests : Saves(p)
      <3>1. PICK p \in Requests : Saves(p)
        BY <2>2
      <3>2. Sound(write[p])
        BY <1>0, <3>1 DEF Saves, Writing
      <3> QED BY <1>0, <3>1, <3>2, SavesRow
    <2>3. CASE \E p \in Requests : Inserts(p)
      <3>1. PICK p \in Requests : Inserts(p)
        BY <2>3
      <3>2. Sound(write[p])
        BY <1>0, <3>1 DEF Inserts, Writing
      <3> QED BY <1>0, <3>1, <3>2, InsertsRow
    <2>4. CASE \E p \in Requests : Deletes(p)
      BY <1>0, <2>4, DeletesRow
    <2> QED BY <1>0, <2>1, <2>2, <2>3, <2>4, TableSame
  <1>2. ASSUME NEW p \in Requests, RequestStep(p), NEW q \in Requests, pc'[q] \in Writing
        PROVE  Sound(write'[q])
    <2>1. CASE q = p
      BY <1>0, <1>2, <2>1, WritingOf
    <2>2. CASE q # p
      BY <1>0, <1>2, <2>2, OthersSame DEF Same
    <2> QED BY <2>1, <2>2
  <1>3. ASSUME Restart, NEW q \in Requests PROVE pc'[q] \notin Writing
    BY <1>3 DEF Restart, Writing
  <1>4. CASE UNCHANGED vars
    BY <1>0, <1>1, <1>4 DEF vars, workVars
  <1> QED BY <1>1, <1>2, <1>3, <1>4 DEF Next, RequestStep

-----------------------------------------------------------------------------
(***************************************************************************)
(* Tags follow names.                                                      *)
(***************************************************************************)

\* Only WritesNode writes the nodes table.
LEMMA NodesSame ==
    ASSUME [Next]_vars, \A p \in Requests : ~WritesNode(p)
    PROVE  node' = node
  <1> USE DEF rowVars
  <1>1. ASSUME NEW p \in Requests, NodeStep(p) PROVE node' = node
    BY <1>1 DEF NodeStep, OpensNode, ReadsPrev, ReadsRows, ReadsTaken, Retags, TellsNode, TellsHosts
  <1>2. ASSUME NEW p \in Requests, InboundStep(p) PROVE node' = node
    BY <1>2 DEF InboundStep, OpensEdit, OpensSwitch, OpensDelete, OpensCreate, Rereads, Saves, Deletes,
                Inserts, TellsEdit, TellsBoth
  <1>3. CASE Restart \/ (\E p \in Requests : Fails(p)) \/ UNCHANGED vars
    BY <1>3 DEF Restart, Fails, vars
  <1> QED BY <1>1, <1>2, <1>3 DEF Next

\* A request that is going to rename i still is, when neither is touched.
LEMMA RenamesStay ==
    ASSUME NEW q \in Requests, Same(q), NEW i \in Inbounds, Renames(q, i),
           inbound'[i].home = inbound[i].home, inbound'[i].tag = inbound[i].tag,
           node'[target[q]].name = node[target[q]].name
    PROVE  Renames(q, i)'
  BY DEF Renames, Same

LEMMA RenameReads ==
    ASSUME TypeOK, Shapes, NEW p \in Requests, ReadsRows(p) \/ ReadsTaken(p),
           NEW i \in LiveInbounds, Misnamed(i), Renames(p, i)
    PROVE  Renames(p, i)'
  <1>1. i \in Inbounds /\ node' = node /\ inbound' = inbound /\ target' = target /\ write' = write
    BY DEF LiveInbounds, ReadsRows, ReadsTaken, rowVars
  <1>2. CASE ReadsRows(p)
    <2>1. pc'[p] = "taken" /\ rows'[p][i] = inbound[i]
      BY <1>1, <1>2 DEF ReadsRows, Renames, NodeInbounds, TypeOK, Goto
    <2> QED BY <1>1, <2>1 DEF Renames, LiveInbounds
  <1>3. CASE ReadsTaken(p)
    <2>1. pc[p] = "taken" /\ rows[p][i] # Absent /\ rows[p][i].tag[1] # Slug[write[p].name]
      BY <1>3 DEF ReadsTaken, Renames, Misnamed
    <2>2. plan'[p][i] # None /\ pc'[p] = "retag"
      BY <1>1, <1>3, <2>1, PlanOf
    <2> QED BY <1>1, <2>2 DEF Renames
  <1> QED BY <1>2, <1>3

LEMMA RenamesKept ==
    ASSUME TypeOK, Shapes, Bases, RenamesInHand, [Next]_vars
    PROVE  RenamesInHand'
  <1> SUFFICES ASSUME ~overwritten', ~cut', NEW i \in LiveInbounds', Misnamed(i)'
               PROVE  \E p \in Requests : Renames(p, i)'
    BY DEF RenamesInHand
  <1>0. i \in Inbounds /\ ~overwritten /\ ~cut
    BY MarksStay DEF LiveInbounds
  \* If i was misnamed as it is now, some request had it in hand.
  <1>1. ASSUME i \in LiveInbounds, inbound'[i].home = inbound[i].home, inbound'[i].tag = inbound[i].tag,
               node'[inbound[i].home].name = node[inbound[i].home].name
        PROVE  /\ Misnamed(i)
               /\ \E q \in Requests : Renames(q, i)
               /\ \A q \in Requests : Renames(q, i) /\ Same(q) => Renames(q, i)'
    <2>1. Misnamed(i)
      BY <1>1 DEF Misnamed
    <2>2. ASSUME NEW q \in Requests, Renames(q, i), Same(q) PROVE Renames(q, i)'
      BY <1>0, <1>1, <2>2, RenamesStay DEF Renames
    <2> QED BY <1>0, <1>1, <2>1, <2>2 DEF RenamesInHand
  \* A step of a request that had not.
  <1>2. ASSUME NEW p \in Requests, RequestStep(p), pc[p] \notin {"rows", "taken", "retag"},
               i \in LiveInbounds, inbound'[i].home = inbound[i].home, inbound'[i].tag = inbound[i].tag,
               node'[inbound[i].home].name = node[inbound[i].home].name
        PROVE  \E q \in Requests : Renames(q, i)'
    <2>1. PICK q \in Requests : Renames(q, i)
      BY <1>1, <1>2
    <2>2. q # p
      BY <1>2, <2>1 DEF Renames
    <2> QED BY <1>1, <1>2, <2>1, <2>2, OthersSame
  <1>3. ASSUME NEW p \in Requests, WritesNode(p) PROVE \E q \in Requests : Renames(q, i)'
    <2>1. RequestStep(p) /\ pc[p] = "write" /\ inbound' = inbound /\ target[p] \in Nodes
          /\ write[p] \in NodeRow /\ target' = target /\ write' = write
      BY <1>3 DEF RequestStep, NodeStep, WritesNode, Shapes, OfNode, workVars
    <2>2. i \in LiveInbounds /\ inbound[i] \in InboundRow /\ inbound[i].home \in Nodes
      BY <2>1 DEF LiveInbounds, TypeOK, InboundRow
    <2>3. node' = [node EXCEPT ![target[p]] = write[p]] /\ node[target[p]] = read[p]
          /\ pc'[p] = (IF read[p].name # write[p].name THEN "rows" ELSE "tell")
      BY <1>3 DEF WritesNode, TypeOK, Goto
    <2>4. CASE inbound[i].home = target[p] /\ read[p].name # write[p].name
      BY <2>1, <2>2, <2>3, <2>4 DEF Renames, TypeOK
    <2>5. CASE ~(inbound[i].home = target[p] /\ read[p].name # write[p].name)
      <3>1. node'[inbound[i].home].name = node[inbound[i].home].name
        BY <2>1, <2>2, <2>3, <2>5 DEF TypeOK
      <3> QED BY <1>2, <2>1, <2>2, <3>1
    <2> QED BY <2>4, <2>5
  <1>4. ASSUME NEW p \in Requests, ReadsRows(p) \/ ReadsTaken(p) PROVE \E q \in Requests : Renames(q, i)'
    <2>1. RequestStep(p) /\ node' = node /\ inbound' = inbound /\ LiveInbounds' = LiveInbounds
      BY <1>4 DEF RequestStep, NodeStep, ReadsRows, ReadsTaken, rowVars, LiveInbounds
    <2>2. PICK q \in Requests : Renames(q, i)
      BY <1>1, <2>1
    <2>3. CASE q = p
      BY <1>1, <1>4, <2>1, <2>2, <2>3, RenameReads
    <2>4. CASE q # p
      BY <1>1, <2>1, <2>2, <2>4, OthersSame
    <2> QED BY <2>3, <2>4
  <1>5. ASSUME NEW p \in Requests, Retags(p) PROVE \E q \in Requests : Renames(q, i)'
    <2>1. RequestStep(p) /\ pc[p] = "retag" /\ node' = node /\ i \in LiveInbounds
      BY <1>0, <1>5, RetagsRow DEF RequestStep, NodeStep, Retags, LiveInbounds
    <2>2. CASE i \in Planned(p)
      <3>1. /\ rows[p][i].home = target[p] /\ plan[p][i][1] = Slug[write[p].name]
            /\ rows[p][i] # Absent
        BY <1>0, <2>1, <2>2 DEF Bases, Base, Shapes, Planned
      <3>2. inbound'[i].tag[1] = Slug[node'[inbound'[i].home].name]
        BY <1>0, <1>5, <2>1, <2>2, <3>1, RetagsRow
      <3> QED BY <3>2 DEF Misnamed
    <2>3. CASE i \notin Planned(p)
      <3>1. inbound'[i] = inbound[i]
        BY <1>0, <1>5, <2>3, RetagsRow
      <3>2. PICK q \in Requests : Renames(q, i)
        BY <1>1, <2>1, <3>1
      <3>3. q # p
        BY <1>0, <2>1, <2>3, <3>2 DEF Renames, Planned
      <3> QED BY <1>1, <2>1, <3>1, <3>2, <3>3, OthersSame
    <2> QED BY <2>2, <2>3
  <1>6. ASSUME NEW p \in Requests, Saves(p) PROVE \E q \in Requests : Renames(q, i)'
    <2>1. RequestStep(p) /\ pc[p] \notin {"rows", "taken", "retag"} /\ node' = node /\ i \in LiveInbounds
      BY <1>6, SavesRow DEF RequestStep, InboundStep, Saves
    <2>2. inbound'[i].home = inbound[i].home /\ inbound'[i].tag = inbound[i].tag
      <3>1. CASE i = target[p]
        BY <1>6, <3>1, SavesRow DEF InboundRow
      <3>2. CASE i # target[p]
        BY <1>0, <1>6, <3>2, SavesRow
      <3> QED BY <3>1, <3>2
    <2> QED BY <1>2, <2>1, <2>2
  <1>7. ASSUME NEW p \in Requests, Inserts(p) PROVE \E q \in Requests : Renames(q, i)'
    <2>1. RequestStep(p) /\ pc[p] \notin {"rows", "taken", "retag"} /\ node' = node
      BY <1>7 DEF RequestStep, InboundStep, Inserts
    <2>2. PICK j \in Inbounds \ LiveInbounds :
              /\ inbound'[j] = write[p] /\ write[p].home = target[p]
              /\ write[p].tag[1] \in {Slug[read[p].name], Typed}
              /\ LiveInbounds' = LiveInbounds \cup {j}
              /\ \A h \in Inbounds : h # j => inbound'[h] = inbound[h]
              /\ node[target[p]].name = read[p].name
      BY <1>7, InsertsRow
    <2>3. i # j
      BY <2>1, <2>2 DEF Misnamed
    <2> QED BY <1>0, <1>2, <2>1, <2>2, <2>3
  <1>8. ASSUME NEW p \in Requests, Deletes(p) PROVE \E q \in Requests : Renames(q, i)'
    <2>1. RequestStep(p) /\ pc[p] \notin {"rows", "taken", "retag"} /\ node' = node
      BY <1>8 DEF RequestStep, InboundStep, Deletes
    <2>2. i \in LiveInbounds /\ inbound'[i] = inbound[i]
      BY <1>0, <1>8, DeletesRow
    <2> QED BY <1>2, <2>1, <2>2
  <1>9. ASSUME \A p \in Requests : /\ ~WritesNode(p) /\ ~ReadsRows(p) /\ ~ReadsTaken(p)
                                   /\ ~Retags(p) /\ ~Saves(p) /\ ~Inserts(p) /\ ~Deletes(p)
        PROVE  \E q \in Requests : Renames(q, i)'
    <2>1. node' = node /\ inbound' = inbound /\ i \in LiveInbounds
      BY <1>9, NodesSame, TableSame
    <2>2. PICK q \in Requests : Renames(q, i)
      BY <1>1, <2>1
    <2>3. pc[q] \in {"rows", "taken", "retag"} /\ pc[q] \in Committed
      BY <2>2 DEF Renames, Committed
    <2>4. ASSUME NEW p \in Requests, RequestStep(p) PROVE Same(q)
      <3>1. CASE p = q
        <4>1. ~NodeStep(p) /\ ~InboundStep(p)
          BY <1>9, <2>3, <3>1 DEF NodeStep, InboundStep, OpensNode, ReadsPrev, TellsNode, TellsHosts,
               OpensEdit, OpensSwitch, OpensDelete, OpensCreate, Rereads, TellsEdit, TellsBoth, Opens
        <4>2. ~Fails(p)
          BY <2>3, <3>1 DEF Fails
        <4> QED BY <2>4, <4>1, <4>2 DEF RequestStep
      <3>2. CASE p # q
        BY <2>4, <3>2, OthersSame
      <3> QED BY <3>1, <3>2
    <2>5. ~Restart
      BY <2>3 DEF Restart
    <2>6. UNCHANGED vars => Same(q)
      BY DEF vars, workVars, Same
    <2>7. Same(q)
      BY <2>4, <2>5, <2>6 DEF Next, RequestStep
    <2> QED BY <1>1, <2>1, <2>2, <2>7
  <1> QED BY <1>3, <1>4, <1>5, <1>6, <1>7, <1>8, <1>9

-----------------------------------------------------------------------------
(***************************************************************************)
(* Every change is told: whose configuration a write changes.              *)
(***************************************************************************)

LEMMA ConfigSame ==
    ASSUME NEW n \in Nodes, node'[n].enabled = node[n].enabled,
           Served(n)' = Served(n), \A i \in Served(n) : inbound'[i].conf = inbound[i].conf,
           Carried(n)' = Carried(n), \A i \in Carried(n) : Listener(i)' = Listener(i)
    PROVE  Config(n)' = Config(n)
  <1>1. {inbound'[i].conf : i \in Served(n)'} = {inbound[i].conf : i \in Served(n)}
    OBVIOUS
  <1>2. {Listener(i)' : i \in Carried(n)'} = {Listener(i) : i \in Carried(n)}
    OBVIOUS
  <1> QED BY <1>1, <1>2 DEF Config

\* Node n does not see inbound i.
Blind(n, i) == i \notin Served(n) /\ i \notin Carried(n)

\* A write to the inbounds table that n does not see.
LEMMA TableUnseen ==
    ASSUME NEW n \in Nodes, node' = node, NEW T \in SUBSET Inbounds,
           \A i \in Inbounds \ T : inbound'[i] = inbound[i],
           \A i \in T : /\ i \in Served(n)' <=> i \in Served(n)
                        /\ i \in Served(n) => inbound'[i].conf = inbound[i].conf
                        /\ i \in Carried(n)' <=> i \in Carried(n)
                        /\ i \in Carried(n) => Listener(i)' = Listener(i)
    PROVE  Config(n)' = Config(n)
  <1>1. \A i \in Inbounds \ T :
           /\ i \in Served(n)' <=> i \in Served(n)
           /\ i \in Carried(n)' <=> i \in Carried(n)
           /\ Listener(i)' = Listener(i)
    BY DEF Served, Carried, NodeInbounds, LiveInbounds, Listener
  <1>2. Served(n) \subseteq Inbounds /\ Carried(n) \subseteq Inbounds
        /\ Served(n)' \subseteq Inbounds /\ Carried(n)' \subseteq Inbounds
    BY DEF Served, Carried, NodeInbounds, LiveInbounds
  <1>3. Served(n)' = Served(n)
    BY <1>1, <1>2
  <1>4. Carried(n)' = Carried(n)
    BY <1>1, <1>2
  <1> QED BY <1>1, <1>2, <1>3, <1>4, ConfigSame

LEMMA RetagsSeen ==
    ASSUME TypeOK, Shapes, Bases, NEW p \in Requests, Retags(p), ~overwritten',
           NEW n \in Nodes, Config(n)' # Config(n)
    PROVE  Announces(p, n)'
  <1>1. node' = node /\ target[p] \in Nodes /\ UNCHANGED workVars /\ pc'[p] = "tell" /\ pc[p] = "retag"
    BY DEF Retags, Shapes, OfNode, TypeOK, Goto
  <1>2. Planned(p)' # {}
    <2> SUFFICES ASSUME Planned(p) = {} PROVE FALSE
      BY <1>1 DEF Planned, workVars
    <2>1. \A i \in Inbounds \ {} : inbound'[i] = inbound[i]
      BY RetagsRow
    <2> QED BY <1>1, <2>1, TableUnseen
  <1>3. ASSUME NEW i \in Planned(p)
        PROVE  /\ i \in Inbounds /\ i \in LiveInbounds /\ i \in LiveInbounds'
               /\ inbound[i].home = target[p] /\ inbound'[i].home = target[p]
               /\ inbound'[i].relay = inbound[i].relay
    <2>1. i \in Inbounds /\ inbound[i] \in InboundRow /\ inbound'[i] # Absent
          /\ inbound[i] = rows[p][i] /\ rows[p][i] # Absent /\ inbound'[i].home = inbound[i].home
          /\ inbound'[i].relay = inbound[i].relay
      BY <1>3, RetagsRow, EditsAssumption DEF Planned
    <2>2. rows[p][i].home = target[p]
      BY <1>1, <2>1 DEF Bases, Base
    <2> QED BY <2>1, <2>2 DEF LiveInbounds
  <1>4. CASE n = target[p]
    BY <1>1, <1>2, <1>4 DEF Announces, Touched, workVars
  <1>5. CASE n # target[p]
    <2>1. PICK i \in Planned(p) : inbound'[i].relay = n
      <3> SUFFICES ASSUME \A i \in Planned(p) : inbound'[i].relay # n PROVE FALSE
        OBVIOUS
      <3>1. \A i \in Planned(p) : Blind(n, i) /\ Blind(n, i)'
        BY <1>3, <1>5 DEF Blind, Served, Carried, NodeInbounds
      <3>2. \A i \in Inbounds \ Planned(p) : inbound'[i] = inbound[i]
        BY RetagsRow
      <3> QED BY <1>1, <3>1, <3>2, TableUnseen DEF Blind, Planned
    <2>2. i \in NodeInbounds(target[p])'
      BY <1>1, <1>3 DEF NodeInbounds, workVars
    <2>3. n \in HostsOf(target[p])'
      BY <2>1, <2>2 DEF HostsOf
    <2> QED BY <1>1, <1>2, <2>3 DEF Announces, Touched, workVars
  <1> QED BY <1>4, <1>5

LEMMA SavesSeen ==
    ASSUME TypeOK, Shapes, Bases, NEW p \in Requests, Saves(p), ~overwritten',
           NEW n \in Nodes, Config(n)' # Config(n)
    PROVE  Announces(p, n)'
  <1>0. PICK t \in Inbounds : t = target[p]
    BY SavesRow DEF LiveInbounds
  <1>1. /\ node' = node /\ UNCHANGED workVars /\ t \in LiveInbounds /\ t \in LiveInbounds'
        /\ inbound[t] = read[p] /\ inbound'[t] = write[p] /\ read[p] \in InboundRow /\ write[p] \in InboundRow
        /\ \A i \in Inbounds \ {t} : inbound'[i] = inbound[i]
    BY <1>0, SavesRow DEF Saves, LiveInbounds
  <1>2. ~(/\ t \in Served(n)' <=> t \in Served(n)
          /\ t \in Served(n) => inbound'[t].conf = inbound[t].conf
          /\ t \in Carried(n)' <=> t \in Carried(n)
          /\ t \in Carried(n) => Listener(t)' = Listener(t))
    <2>1. {t} \in SUBSET Inbounds
      OBVIOUS
    <2> QED BY <1>1, <2>1, TableUnseen
  <1>3. CASE pc[p] = "save"
    <2>1. pc'[p] = "tellEdit"
      BY <1>3 DEF Saves, TypeOK, Goto
    <2>2. write[p].home = read[p].home /\ write[p].tag = read[p].tag /\ write[p].enabled = read[p].enabled
      BY <1>3 DEF Bases, Base
    <2>3. n \in Concerned(read[p], write[p])
      <3> SUFFICES ASSUME n \notin Concerned(read[p], write[p]) PROVE FALSE
        OBVIOUS
      <3>1. n = read[p].home => read[p].port = write[p].port /\ read[p].conf = write[p].conf
        BY <2>2 DEF Concerned
      <3>2. n \in {read[p].relay, write[p].relay} => read[p].relay = write[p].relay /\ read[p].port = write[p].port
        BY EditsAssumption DEF Concerned
      <3>3. t \in Served(n)' <=> t \in Served(n)
        BY <1>1, <2>2 DEF Served, NodeInbounds
      <3>4. t \in Served(n) => inbound'[t].conf = inbound[t].conf
        BY <1>1, <3>1 DEF Served, NodeInbounds
      <3>5. t \in Carried(n)' <=> t \in Carried(n)
        BY <1>1, <2>2, <3>2 DEF Carried
      <3>6. t \in Carried(n) => Listener(t)' = Listener(t)
        <4> SUFFICES ASSUME t \in Carried(n) PROVE Listener(t)' = Listener(t)
          OBVIOUS
        <4>1. read[p].relay = n
          BY <1>1 DEF Carried
        <4>2. read[p].port = write[p].port
          BY <3>2, <4>1
        <4> QED BY <1>1, <2>2, <4>2 DEF Listener
      <3> QED BY <1>2, <3>3, <3>4, <3>5, <3>6
    <2> QED BY <1>1, <2>1, <2>3 DEF Announces, workVars
  <1>4. CASE pc[p] = "switch"
    <2>1. pc'[p] = "tellBoth"
      BY <1>4 DEF Saves, TypeOK, Goto
    <2>2. write[p].home = read[p].home /\ write[p].relay = read[p].relay
      BY <1>1, <1>4 DEF Bases, Base, InboundRow
    <2>3. n \in {write[p].home, write[p].relay}
      BY <1>1, <1>2, <2>2 DEF Served, Carried, NodeInbounds
    <2> QED BY <1>1, <2>1, <2>3 DEF Announces, workVars
  <1> QED BY <1>3, <1>4 DEF Saves

LEMMA InsertsSeen ==
    ASSUME TypeOK, Shapes, Bases, NEW p \in Requests, Inserts(p), NEW n \in Nodes, Config(n)' # Config(n)
    PROVE  Announces(p, n)'
  <1>1. node' = node /\ UNCHANGED workVars /\ pc'[p] = "tellBoth"
    BY DEF Inserts, TypeOK, Goto
  <1>2. PICK i \in Inbounds \ LiveInbounds :
           inbound'[i] = write[p] /\ \A j \in Inbounds : j # i => inbound'[j] = inbound[j]
    BY InsertsRow
  <1>3. n \in {write[p].home, write[p].relay}
    <2> SUFFICES ASSUME n \notin {write[p].home, write[p].relay} PROVE FALSE
      OBVIOUS
    <2>1. Blind(n, i)
      BY DEF Blind, Served, Carried, NodeInbounds
    <2>2. Blind(n, i)'
      BY <1>2 DEF Blind, Served, Carried, NodeInbounds
    <2>3. {i} \in SUBSET Inbounds /\ \A j \in Inbounds \ {i} : inbound'[j] = inbound[j]
      BY <1>2
    <2> QED BY <1>1, <2>1, <2>2, <2>3, TableUnseen DEF Blind
  <1> QED BY <1>1, <1>3 DEF Announces, workVars

LEMMA DeletesSeen ==
    ASSUME TypeOK, Shapes, Bases, NEW p \in Requests, Deletes(p), ~overwritten',
           NEW n \in Nodes, Config(n)' # Config(n)
    PROVE  Announces(p, n)'
  <1>0. PICK t \in Inbounds : t = target[p]
    BY DeletesRow DEF LiveInbounds
  <1>1. node' = node /\ UNCHANGED workVars /\ pc'[p] = "tellBoth"
    BY DEF Deletes, TypeOK, Goto
  <1>2. inbound[t] = write[p] /\ t \notin LiveInbounds'
        /\ \A i \in Inbounds \ {t} : inbound'[i] = inbound[i]
    BY <1>0, DeletesRow DEF LiveInbounds
  <1>3. n \in {write[p].home, write[p].relay}
    <2> SUFFICES ASSUME n \notin {write[p].home, write[p].relay} PROVE FALSE
      OBVIOUS
    <2>1. Blind(n, t)
      BY <1>2 DEF Blind, Served, Carried, NodeInbounds
    <2>2. Blind(n, t)'
      BY <1>2 DEF Blind, Served, Carried, NodeInbounds
    <2>3. {t} \in SUBSET Inbounds
      OBVIOUS
    <2> QED BY <1>1, <1>2, <2>1, <2>2, <2>3, TableUnseen DEF Blind
  <1> QED BY <1>1, <1>3 DEF Announces, workVars

LEMMA WritesNodeSeen ==
    ASSUME TypeOK, Shapes, NEW p \in Requests, WritesNode(p), ~overwritten',
           NEW n \in Nodes, Config(n)' # Config(n)
    PROVE  Announces(p, n)'
  <1>0. PICK m \in Nodes : m = target[p]
    BY DEF WritesNode, Shapes, OfNode
  <1>1. /\ inbound' = inbound /\ UNCHANGED workVars /\ pc'[p] \in {"rows", "tell"} 
        /\ node[m] = read[p] /\ node'[m] = write[p] /\ \A k \in Nodes \ {m} : node'[k] = node[k]
    BY <1>0 DEF WritesNode, TypeOK, Goto
  <1>2. \A i \in LiveInbounds : i \in Inbounds /\ inbound[i].home \in Nodes
    BY DEF LiveInbounds, TypeOK, InboundRow
  <1>3. Served(n)' = Served(n) /\ HostsOf(m)' = HostsOf(m)
    BY <1>1 DEF Served, HostsOf, NodeInbounds, LiveInbounds
  <1>4. CASE n = m /\ read[p].enabled # write[p].enabled
    BY <1>0, <1>1, <1>4 DEF Announces, Touched, workVars
  <1>5. CASE ~(n = m /\ read[p].enabled # write[p].enabled)
    <2>1. node'[n].enabled = node[n].enabled
      BY <1>1, <1>5
    <2>2. n \in HostsOf(m) /\ (read[p].enabled # write[p].enabled \/ read[p].address # write[p].address)
      <3> SUFFICES ASSUME \/ n \notin HostsOf(m)
                          \/ read[p].enabled = write[p].enabled /\ read[p].address = write[p].address
                   PROVE  FALSE
        OBVIOUS
      <3>1. \A i \in LiveInbounds : inbound[i].relay = n =>
               /\ node'[inbound[i].home].enabled = node[inbound[i].home].enabled
               /\ node'[inbound[i].home].address = node[inbound[i].home].address
        BY <1>1, <1>2 DEF HostsOf, NodeInbounds
      <3>2. Carried(n)' = Carried(n)
        BY <1>1, <3>1 DEF Carried, LiveInbounds
      <3>3. \A i \in Carried(n) : Listener(i)' = Listener(i)
        BY <1>1, <3>1 DEF Carried, Listener
      <3> QED BY <1>1, <1>3, <2>1, <3>2, <3>3, ConfigSame
    <2> QED BY <1>0, <1>1, <1>3, <2>2 DEF Announces, Touched, workVars
  <1> QED BY <1>4, <1>5

-----------------------------------------------------------------------------
(***************************************************************************)
(* Every change is told: what is in hand stays in hand until it is told.   *)
(***************************************************************************)

\* A node loses a relay only to a request that will tell it.
LEMMA HostsStay ==
    ASSUME TypeOK, Shapes, Bases, [Next]_vars, ~overwritten', NEW m, NEW n \in HostsOf(m)
    PROVE  \/ n \in {inbound'[i].relay : i \in {j \in Inbounds : inbound'[j] # Absent /\ inbound'[j].home = m}}
           \/ \E p \in Requests : RequestStep(p) /\ Announces(p, n)'
  <1> DEFINE Hosts == {inbound'[i].relay : i \in {j \in Inbounds : inbound'[j] # Absent /\ inbound'[j].home = m}}
  <1>1. PICK i \in Inbounds : inbound[i] # Absent /\ inbound[i].home = m /\ inbound[i].relay = n
    BY DEF HostsOf, NodeInbounds, LiveInbounds
  <1>2. ASSUME inbound'[i] # Absent, inbound'[i].home = m, inbound'[i].relay = n PROVE n \in Hosts
    BY <1>2
  <1>3. CASE \E p \in Requests : Retags(p)
    BY <1>1, <1>2, <1>3, RetagsRow
  <1>4. ASSUME NEW p \in Requests, Saves(p)
        PROVE  n \in Hosts \/ \E q \in Requests : RequestStep(q) /\ Announces(q, n)'
    <2>0. RequestStep(p)
      BY <1>4 DEF RequestStep, InboundStep
    <2>1. CASE i # target[p]
      BY <1>1, <1>2, <1>4, <2>1, SavesRow
    <2>2. CASE i = target[p] /\ inbound'[i].relay = n
      <3>1. inbound'[i] # Absent /\ inbound'[i].home = m
        BY <1>1, <1>4, <2>2, SavesRow, EditsAssumption
      <3> QED BY <1>2, <2>2, <3>1
    <2>3. CASE i = target[p] /\ inbound'[i].relay # n
      <3>1. read[p].relay = n /\ write[p].relay # n /\ read[p] \in InboundRow /\ UNCHANGED workVars
        BY <1>1, <1>4, <2>3, SavesRow DEF Saves
      <3>2. pc[p] # "switch"
        BY <3>1 DEF Bases, Base, InboundRow
      <3>3. pc'[p] = "tellEdit"
        BY <1>4, <3>2 DEF Saves, TypeOK, Goto
      <3>4. n \in Concerned(read[p], write[p])
        BY <3>1 DEF Concerned
      <3> QED BY <2>0, <3>1, <3>3, <3>4 DEF Announces, workVars
    <2> QED BY <2>1, <2>2, <2>3
  <1>5. CASE \E p \in Requests : Inserts(p)
    <2>1. inbound'[i] = inbound[i]
      BY <1>1, <1>5, InsertsRow DEF LiveInbounds
    <2> QED BY <1>1, <1>2, <2>1
  <1>6. ASSUME NEW p \in Requests, Deletes(p)
        PROVE  n \in Hosts \/ \E q \in Requests : RequestStep(q) /\ Announces(q, n)'
    <2>0. RequestStep(p) /\ UNCHANGED workVars /\ pc'[p] = "tellBoth"
      BY <1>6 DEF RequestStep, InboundStep, Deletes, TypeOK, Goto
    <2>1. CASE i # target[p]
      BY <1>1, <1>2, <1>6, <2>1, DeletesRow
    <2>2. CASE i = target[p]
      <3>1. write[p].relay = n
        BY <1>1, <1>6, <2>2, DeletesRow
      <3> QED BY <2>0, <3>1 DEF Announces, workVars
    <2> QED BY <2>1, <2>2
  <1>7. CASE \A p \in Requests : ~Retags(p) /\ ~Saves(p) /\ ~Inserts(p) /\ ~Deletes(p)
    BY <1>1, <1>2, <1>7, TableSame
  <1> QED BY <1>3, <1>4, <1>5, <1>6, <1>7

\* What another request is going to tell, it still is, or the request that takes
\* the reason away is.
LEMMA OthersAnnounce ==
    ASSUME TypeOK, Shapes, Bases, [Next]_vars, ~overwritten',
           NEW q \in Requests, NEW n \in Nodes, Announces(q, n), Same(q)
    PROVE  \E p \in Requests : Announces(p, n)'
  <1>1. CASE n \in HostsOf(target[q])
    <2>1. CASE n \in {inbound'[i].relay : i \in {j \in Inbounds : inbound'[j] # Absent /\ inbound'[j].home = target[q]}}
      <3>1. n \in HostsOf(target[q])'
        BY <2>1 DEF HostsOf, NodeInbounds, LiveInbounds, Same
      <3> QED BY <1>1, <3>1 DEF Announces, Touched, Planned, Same
    <2> QED BY <1>1, <2>1, HostsStay
  <1>2. CASE n \notin HostsOf(target[q])
    BY <1>2 DEF Announces, Touched, Planned, Same
  <1> QED BY <1>1, <1>2

\* What a request is going to tell, it still is after a step of its own that tells
\* nobody.
LEMMA OwnAnnounce ==
    ASSUME TypeOK, Shapes, Bases, NEW p \in Requests, NEW n \in Nodes, Announces(p, n), ~cut',
           RequestStep(p), ~overwritten'
    PROVE  \/ Announces(p, n)'
           \/ n \notin stale'
  <1>1. pc[p] \in {"rows", "taken", "retag", "tell", "hosts", "tellEdit", "tellBoth"}
    BY DEF Announces
  <1>2. CASE pc[p] = "rows" /\ ReadsRows(p)
    <2>1. inbound' = inbound /\ target' = target /\ read' = read /\ write' = write /\ pc'[p] \in {"taken", "tell"}
      BY <1>2 DEF ReadsRows, rowVars, TypeOK, Goto
    <2>2. HostsOf(target[p])' = HostsOf(target[p])
      BY <2>1 DEF HostsOf, NodeInbounds, LiveInbounds
    <2> QED BY <1>2, <2>1, <2>2 DEF Announces, Touched
  <1>3. CASE pc[p] = "taken" /\ ReadsTaken(p)
    <2>1. inbound' = inbound /\ target' = target /\ read' = read /\ write' = write /\ pc'[p] \in {"retag", "tell"}
      BY <1>3, PlanOf DEF ReadsTaken, rowVars
    <2>2. HostsOf(target[p])' = HostsOf(target[p])
      BY <2>1 DEF HostsOf, NodeInbounds, LiveInbounds
    <2> QED BY <1>3, <2>1, <2>2 DEF Announces, Touched
  <1>4. CASE pc[p] = "retag" /\ Retags(p)
    <2>1. target' = target /\ read' = read /\ write' = write /\ pc'[p] = "tell"
      BY <1>4 DEF Retags, workVars, TypeOK, Goto
    <2>2. ASSUME NEW i \in NodeInbounds(target[p])
          PROVE  i \in NodeInbounds(target[p])' /\ inbound'[i].relay = inbound[i].relay
      BY <1>4, <2>1, <2>2, RetagsRow DEF NodeInbounds, LiveInbounds
    <2>3. HostsOf(target[p]) \subseteq HostsOf(target[p])'
      BY <2>2 DEF HostsOf
    <2> QED BY <1>4, <2>1, <2>3 DEF Announces, Touched
  <1>5. CASE pc[p] = "tell" /\ TellsNode(p)
    <2>1. Turned(p) <=> Touched(p)
      BY <1>5 DEF Turned, Touched
    <2>2. CASE n \in HostsOf(target[p]) /\ (Touched(p) \/ read[p].address # write[p].address)
      <3>1. inbound' = inbound /\ target' = target /\ pc'[p] = "hosts"
        BY <1>5, <2>1, <2>2 DEF TellsNode, rowVars, workVars, TypeOK, Goto
      <3>2. HostsOf(target[p])' = HostsOf(target[p])
        BY <3>1 DEF HostsOf, NodeInbounds, LiveInbounds
      <3> QED BY <2>2, <3>1, <3>2 DEF Announces
    <2>3. CASE Touched(p) /\ n = target[p]
      BY <1>5, <2>1, <2>3 DEF TellsNode, Tell
    <2> QED BY <1>5, <2>2, <2>3 DEF Announces
  <1>6. CASE pc[p] = "hosts" /\ TellsHosts(p)
    BY <1>6 DEF Announces, TellsHosts, Tell, HostsOf
  <1>7. CASE pc[p] = "tellEdit" /\ TellsEdit(p)
    BY <1>7 DEF Announces, TellsEdit, Tell
  <1>8. CASE pc[p] = "tellBoth" /\ TellsBoth(p)
    BY <1>8 DEF Announces, TellsBoth, Tell
  <1>9. ~Fails(p)
    BY <1>1 DEF Fails, Statements, Committed
  <1>10. ~Saves(p) /\ ~Deletes(p) /\ ~Inserts(p) /\ ~WritesNode(p) /\ ~ReadsPrev(p) /\ ~Rereads(p) /\ ~Opens(p)
    BY <1>1 DEF Saves, Deletes, Inserts, WritesNode, ReadsPrev, Rereads, Opens
  <1>11. CASE NodeStep(p)
    BY <1>2, <1>3, <1>4, <1>5, <1>6, <1>10, <1>11
    DEF NodeStep, OpensNode, ReadsRows, ReadsTaken, Retags, TellsNode, TellsHosts
  <1>12. CASE InboundStep(p)
    BY <1>7, <1>8, <1>10, <1>12
    DEF InboundStep, OpensEdit, OpensSwitch, OpensDelete, OpensCreate, TellsEdit, TellsBoth
  <1> QED BY <1>9, <1>11, <1>12 DEF RequestStep

\* A node becomes stale only by a write that announces it.
LEMMA NewlyStale ==
    ASSUME TypeOK, Shapes, Bases, [Next]_vars, ~overwritten', NEW n \in stale', n \notin stale
    PROVE  \E p \in Requests : Announces(p, n)'
  <1>1. CASE \E p \in Requests : \/ WritesNode(p) \/ Retags(p) \/ Saves(p) \/ Inserts(p) \/ Deletes(p)
    <2>1. n \in Nodes /\ Config(n)' # Config(n)
      BY <1>1 DEF WritesNode, Retags, Saves, Inserts, Deletes, Changes
    <2> QED BY <1>1, <2>1, WritesNodeSeen, RetagsSeen, SavesSeen, InsertsSeen, DeletesSeen
  <1>2. CASE \A p \in Requests : ~WritesNode(p) /\ ~Retags(p) /\ ~Saves(p) /\ ~Inserts(p) /\ ~Deletes(p)
    <2>1. ASSUME NEW p \in Requests, NodeStep(p) PROVE stale' \subseteq stale
      BY <1>2, <2>1 DEF NodeStep, OpensNode, ReadsPrev, ReadsRows, ReadsTaken, TellsNode, TellsHosts, Tell
    <2>2. ASSUME NEW p \in Requests, InboundStep(p) PROVE stale' \subseteq stale
      BY <1>2, <2>2
      DEF InboundStep, OpensEdit, OpensSwitch, OpensDelete, OpensCreate, Rereads, TellsEdit, TellsBoth, Tell
    <2>3. CASE Restart \/ (\E p \in Requests : Fails(p)) \/ UNCHANGED vars
      BY <2>3 DEF Restart, Fails, vars
    <2> QED BY <2>1, <2>2, <2>3 DEF Next
  <1> QED BY <1>1, <1>2

LEMMA ChangesKept ==
    ASSUME TypeOK, Shapes, Bases, ChangesInHand, [Next]_vars
    PROVE  ChangesInHand'
  <1> SUFFICES ASSUME ~overwritten', ~cut', NEW n \in stale'
               PROVE  \E p \in Requests : Announces(p, n)'
    BY DEF ChangesInHand
  <1>1. CASE n \notin stale
    BY <1>1, NewlyStale
  <1>2. CASE n \in stale
    <2>1. n \in Nodes
      BY <1>2 DEF TypeOK
    <2>2. PICK q \in Requests : Announces(q, n)
      BY <1>2, MarksStay DEF ChangesInHand
    <2>3. ASSUME NEW p \in Requests, RequestStep(p) PROVE \E r \in Requests : Announces(r, n)'
      <3>1. CASE p = q
        BY <2>1, <2>2, <2>3, <3>1, OwnAnnounce
      <3>2. CASE p # q
        BY <2>1, <2>2, <2>3, <3>2, OthersSame, OthersAnnounce
      <3> QED BY <3>1, <3>2
    <2>4. ~Restart
      BY DEF Restart
    <2>5. ASSUME UNCHANGED vars PROVE \E r \in Requests : Announces(r, n)'
      <3>1. Same(q)
        BY <2>5 DEF vars, workVars, Same
      <3> QED BY <2>1, <2>2, <3>1, OthersAnnounce
    <2> QED BY <2>3, <2>4, <2>5 DEF Next, RequestStep
  <1> QED BY <1>1, <1>2

-----------------------------------------------------------------------------
LEMMA InitEditInv == Init => EditInv
  <1> SUFFICES ASSUME Init PROVE EditInv
    OBVIOUS
  <1>1. TypeOK /\ Shapes
    BY InitTypes
  <1>2. LiveInbounds = {}
    BY DEF Init, NoRows, LiveInbounds
  <1>3. TagsInStep /\ Bases /\ RowsInStep /\ ChangesInHand /\ RenamesInHand
    BY <1>2 DEF Init, TagsInStep, TagsAgree, Bases, Base, RowsInStep, ChangesInHand, RenamesInHand, Writing
  <1> QED BY <1>1, <1>3 DEF EditInv

LEMMA EditInvKept == EditInv /\ [Next]_vars => EditInv'
  BY TypesKept, BasesKept, TagsKept, RowsKept, ChangesKept, RenamesKept DEF EditInv

LEMMA EditInvHolds == Spec => []EditInv
  BY InitEditInv, EditInvKept, PTL DEF Spec

\* Rows, requests and what they hold have their types, whatever overlaps.
THEOREM EditsTyped == Spec => []TypeOK
  <1>1. EditInv => TypeOK
    BY DEF EditInv
  <1> QED BY <1>1, EditInvHolds, PTL

\* The tag of a row is the tag of the object the node is sent, under any overlap,
\* failure or restart.
THEOREM TagsStayInStep == Spec => []TagsAgree
  <1>1. EditInv => TagsAgree
    BY DEF EditInv, TagsInStep
  <1> QED BY <1>1, EditInvHolds, PTL

\* So is its port, and nobody relays for himself, as long as no request writes by
\* rows that have changed.
THEOREM RowsStayInStep == Spec => []RowsAgree
  <1>1. EditInv => RowsAgree
    BY DEF EditInv, RowsInStep, RowsAgree, Sound
  <1> QED BY <1>1, EditInvHolds, PTL

\* Overlapping edits lose no notification.
THEOREM ChangesAreTold == Spec => []EveryChangeTold
  <1>1. EditInv => EveryChangeTold
    BY DEF EditInv, ChangesInHand, EveryChangeTold, Quiet, Announces
  <1> QED BY <1>1, EditInvHolds, PTL

\* And leave no tag of an old name behind.
THEOREM TagsFollow == Spec => []TagsFollowName
  <1>1. EditInv => TagsFollowName
    BY DEF EditInv, RenamesInHand, TagsFollowName, Quiet, Misnamed, Renames
  <1> QED BY <1>1, EditInvHolds, PTL

-----------------------------------------------------------------------------
(***************************************************************************)
(* Requests that take turns.                                               *)
(***************************************************************************)

OneAtATime == \A p, q \in Requests : pc[p] # "idle" /\ pc[q] # "idle" => p = q

\* What request p has read is what the tables say.
UpToDate(p) ==
    /\ pc[p] = "write" => read[p] = node[target[p]]
    /\ pc[p] \in {"save", "switch", "delete"} => inbound[target[p]] = read[p]
    /\ pc[p] = "insert" => node[target[p]].name = read[p].name
    /\ pc[p] \in {"rows", "taken", "retag"} => node[target[p]].name = write[p].name
    /\ pc[p] \in {"taken", "retag"} =>
          \A i \in Inbounds : rows[p][i] # Absent => inbound[i] = rows[p][i]

TurnInv == ~overwritten /\ \A p \in Requests : UpToDate(p)

\* A request that begins or reads is up to date with what it has read.
LEMMA TurnReads ==
    ASSUME EditInv, TurnInv, NEW p \in Requests,
           \/ \E n \in Nodes, r \in NodeRow : OpensNode(p, n, r)
           \/ ReadsPrev(p) \/ ReadsRows(p) \/ ReadsTaken(p)
           \/ \E i \in Inbounds, port \in Ports, relay \in Nodes \cup {None} : OpensEdit(p, i, port, relay)
           \/ \E i \in Inbounds : OpensSwitch(p, i) \/ OpensDelete(p, i)
           \/ \E n \in Nodes, port \in Ports, relay \in Nodes \cup {None}, typed \in BOOLEAN :
                 OpensCreate(p, n, port, relay, typed)
           \/ Rereads(p)
    PROVE  ~overwritten' /\ UpToDate(p)'
  <1>1. ASSUME NEW n \in Nodes, NEW r \in NodeRow, OpensNode(p, n, r) PROVE UpToDate(p)'
    BY <1>1 DEF OpensNode, Opens, Goto, UpToDate, EditInv, TypeOK
  <1>2. CASE ReadsPrev(p)
    BY <1>2 DEF ReadsPrev, Goto, rowVars, UpToDate, TurnInv, EditInv, TypeOK
  <1>3. CASE ReadsRows(p)
    BY <1>3 DEF ReadsRows, Goto, rowVars, UpToDate, TurnInv, EditInv, TypeOK
  <1>4. CASE ReadsTaken(p)
    BY <1>4 DEF ReadsTaken, Goto, rowVars, UpToDate, TurnInv, EditInv, TypeOK
  <1>5. ASSUME NEW i \in Inbounds, NEW port \in Ports, NEW relay \in Nodes \cup {None},
               OpensEdit(p, i, port, relay)
        PROVE  UpToDate(p)'
    BY <1>5 DEF OpensEdit, Opens, Goto, rowVars, UpToDate, EditInv, TypeOK
  <1>6. ASSUME NEW i \in Inbounds, OpensSwitch(p, i) PROVE UpToDate(p)'
    BY <1>6 DEF OpensSwitch, Opens, Goto, rowVars, UpToDate, EditInv, TypeOK
  <1>7. ASSUME NEW i \in Inbounds, OpensDelete(p, i) PROVE UpToDate(p)'
    BY <1>7 DEF OpensDelete, Opens, Goto, rowVars, UpToDate, EditInv, TypeOK
  <1>8. ASSUME NEW n \in Nodes, NEW port \in Ports, NEW relay \in Nodes \cup {None}, NEW typed \in BOOLEAN,
               OpensCreate(p, n, port, relay, typed)
        PROVE  UpToDate(p)'
    BY <1>8 DEF OpensCreate, Opens, Goto, rowVars, UpToDate, EditInv, TypeOK
  <1>9. ASSUME Rereads(p) PROVE UpToDate(p)'
    BY <1>9 DEF Rereads, Goto, rowVars, UpToDate, EditInv, TypeOK
  <1>10. overwritten' = overwritten
    BY DEF OpensNode, ReadsPrev, ReadsRows, ReadsTaken, OpensEdit, OpensSwitch, OpensDelete, OpensCreate, Rereads
  <1> QED BY <1>1, <1>2, <1>3, <1>4, <1>5, <1>6, <1>7, <1>8, <1>9, <1>10 DEF TurnInv

\* One that writes what it has read overwrites nothing.
LEMMA TurnWrites ==
    ASSUME EditInv, TurnInv, NEW p \in Requests,
           WritesNode(p) \/ Retags(p) \/ Saves(p) \/ Deletes(p) \/ Inserts(p)
    PROVE  ~overwritten' /\ UpToDate(p)'
  <1> USE DEF TurnInv, UpToDate, EditInv
  <1>1. CASE WritesNode(p)
    <2>1. target[p] \in Nodes
      BY <1>1 DEF WritesNode, Shapes, OfNode
    <2> QED BY <1>1, <2>1 DEF WritesNode, Goto, workVars, TypeOK
  <1>2. CASE Retags(p)
    <2>1. \A i \in Planned(p) : i \in Inbounds /\ inbound[i] = rows[p][i]
      BY <1>2 DEF Retags, Planned, Shapes
    <2> QED BY <1>2, <2>1 DEF Retags, Goto, workVars, TypeOK
  <1>3. CASE Saves(p)
    BY <1>3 DEF Saves, Goto, workVars, TypeOK
  <1>4. CASE Deletes(p)
    BY <1>4 DEF Deletes, Goto, workVars, TypeOK
  <1>5. CASE Inserts(p)
    BY <1>5 DEF Inserts, Goto, workVars, TypeOK
  <1> QED BY <1>1, <1>2, <1>3, <1>4, <1>5

LEMMA TurnEnds ==
    ASSUME EditInv, TurnInv, NEW p \in Requests,
           TellsNode(p) \/ TellsHosts(p) \/ TellsEdit(p) \/ TellsBoth(p) \/ Fails(p)
    PROVE  ~overwritten' /\ UpToDate(p)'
  <1>1. pc'[p] \in {"idle", "hosts"}
    BY DEF TellsNode, TellsHosts, TellsEdit, TellsBoth, Fails, Ends, Goto, EditInv, TypeOK
  <1>2. overwritten' = overwritten
    BY DEF TellsNode, TellsHosts, TellsEdit, TellsBoth, Fails
  <1> QED BY <1>1, <1>2 DEF TurnInv, UpToDate

\* The other requests have not begun, or the step writes no row.
LEMMA TurnOthers ==
    ASSUME EditInv, TurnInv, OneAtATime, NEW p \in Requests, RequestStep(p),
           NEW q \in Requests, q # p
    PROVE  UpToDate(q)'
  <1>1. Same(q)
    BY OthersSame DEF EditInv
  <1>2. CASE pc[q] = "idle"
    BY <1>1, <1>2 DEF Same, UpToDate
  <1>3. CASE pc[q] # "idle"
    <2>1. pc[p] = "idle"
      BY <1>3 DEF OneAtATime
    <2>2. UNCHANGED rowVars
      BY <2>1 DEF RequestStep, NodeStep, InboundStep, OpensNode, ReadsPrev, WritesNode, ReadsRows,
            ReadsTaken, Retags, TellsNode, TellsHosts, OpensEdit, OpensSwitch, OpensDelete, OpensCreate,
            Rereads, Saves, Deletes, Inserts, TellsEdit, TellsBoth, Fails, Statements, Committed
    <2> QED BY <1>1, <2>2 DEF Same, rowVars, TurnInv, UpToDate
  <1> QED BY <1>2, <1>3

LEMMA TurnKept == EditInv /\ OneAtATime /\ TurnInv /\ [Next]_vars => TurnInv'
  <1> SUFFICES ASSUME EditInv, OneAtATime, TurnInv, [Next]_vars PROVE TurnInv'
    OBVIOUS
  <1>1. ASSUME NEW p \in Requests, RequestStep(p) PROVE TurnInv'
    <2>1. ~overwritten' /\ UpToDate(p)'
      BY <1>1, TurnReads, TurnWrites, TurnEnds DEF RequestStep, NodeStep, InboundStep
    <2> QED BY <1>1, <2>1, TurnOthers DEF TurnInv
  <1>2. CASE Restart
    BY <1>2 DEF Restart, TurnInv, UpToDate
  <1>3. CASE UNCHANGED vars
    BY <1>3 DEF vars, rowVars, workVars, TurnInv, UpToDate
  <1> QED BY <1>1, <1>2, <1>3 DEF Next, RequestStep

\* What RowsAgree, EveryChangeTold and TagsFollowName say, without the excuse that
\* a request overwrote another.
Intact ==
    /\ \A i \in LiveInbounds : inbound[i].port = inbound[i].conf.port /\ inbound[i].relay # inbound[i].home
    /\ Quiet /\ ~cut =>
          /\ stale = {}
          /\ \A i \in LiveInbounds : inbound[i].tag[1] \in {Slug[node[inbound[i].home].name], Typed}

\* As long as requests take turns (each runs to its end before another begins), that
\* excuse is never needed: rows and objects have one port, nobody relays for himself,
\* and when nothing is under way every node was told and every tag is of its node's
\* name, unless a request was cut short.  Only requests under way at once, with
\* nothing locked from the read to the write (EditInbound, inbound_edit.go:52-155;
\* UpdateNode, service.go:247-289), lose an update.
THEOREM TurnsLoseNothing == Spec => ([]OneAtATime => []Intact)
  <1>1. Init => TurnInv
    BY DEF Init, TurnInv, UpToDate
  <1>2. TurnInv /\ RowsAgree /\ EveryChangeTold /\ TagsFollowName => Intact
    BY DEF TurnInv, RowsAgree, EveryChangeTold, TagsFollowName, Intact
  <1> QED BY <1>1, <1>2, TurnKept, EditInvHolds, RowsStayInStep, ChangesAreTold, TagsFollow, PTL DEF Spec
=============================================================================
