-------------------------- MODULE AccountingProofs --------------------------
(* Theorems about Accounting, for any users, nodes, requests, calendar and  *)
(* bounds.                                                                  *)
EXTENDS Accounting, CalendarProofs, FiniteSetTheorems, TLAPS

\* A day that was clamped fits the column.
LEMMA Clamped == \A d \in Typed : ClampResetDay(d) \in Days
BY AccountingAssumption DEF ClampResetDay, Days

\* The resting values of the processes have their types.
LEMMA Resting ==
    /\ NoReport \in Reports
    /\ NoEdit \in Edits
    /\ NoSweep \in Sweeps
    /\ FirstDate \in Instants
<1>1. NoReport \in Reports
  BY DEF NoReport, Reports
<1>2. NoEdit \in Edits
  BY AccountingAssumption DEF NoEdit, Edits, Days
<1>3. FirstDate \in Instants
  BY AccountingAssumption DEF Instants
<1>4. NoSweep \in Sweeps
  BY <1>3 DEF NoSweep, Sweeps
<1> QED BY <1>1, <1>2, <1>3, <1>4

\* What an UPDATE of one row writes is a row.
LEMMA RowShape ==
    ASSUME TypeOK, NEW u \in Users, Exists(u)
    PROVE  /\ row[u] \in Row
           /\ Zeroed(u) \in Row /\ Touched(u) \in Row
           /\ [row[u] EXCEPT !.used = @ + 1] \in Row
           /\ [row[u] EXCEPT !.used = 0] \in Row
           /\ \A l \in Limits, d \in Days : [row[u] EXCEPT !.limit = l, !.day = d] \in Row
<1>1. row[u] \in Row /\ today \in Instants
  BY DEF TypeOK, Exists
<1>2. Zeroed(u) \in Row /\ Touched(u) \in Row /\ [row[u] EXCEPT !.used = 0] \in Row
  BY <1>1 DEF Row, Zeroed, Touched
<1>3. [row[u] EXCEPT !.used = @ + 1] \in Row
  BY <1>1 DEF Row
<1>4. ASSUME NEW l \in Limits, NEW d \in Days
      PROVE  [row[u] EXCEPT !.limit = l, !.day = d] \in Row
  BY <1>1 DEF Row
<1> QED BY <1>1, <1>2, <1>3, <1>4

\* SetRow keeps the table's type.
LEMMA SetRowType ==
    ASSUME TypeOK, NEW u \in Users, NEW r, Exists(u) => r \in Row, SetRow(u, r)
    PROVE  row' \in [Users -> Row \cup {Absent}]
BY DEF TypeOK, SetRow, Exists

\* A push lists users.
LEMMA ListsUsers == UsersChanged => told' \subseteq Users /\ unsaid' \subseteq Users
BY DEF UsersChanged

\* The initial state has its type.
LEMMA TypeCorrectInit == Init => TypeOK
<1> SUFFICES ASSUME Init PROVE TypeOK
  OBVIOUS
<1>1. OldRows \subseteq Row
  BY Resting, Clamped DEF OldRows, Row, Instants
<1>2. row \in [Users -> Row \cup {Absent}]
  BY <1>1 DEF Init
<1>3. today \in Instants /\ faults \in 0..MaxFaults
  BY Resting, AccountingAssumption DEF Init
<1>4. ledger \in [Users -> [Nodes -> Nat]] /\ nodes \subseteq Nodes /\ unsaid \subseteq Users
  BY DEF Init
<1>5. told \subseteq Users /\ swept \in [Users -> Instants \cup {Null}]
  BY DEF Init, Listed, Present
<1>6. report \in [Nodes -> Reports] /\ edit \in [Editors -> Edits] /\ sweep \in Sweeps
  BY Resting DEF Init
<1> QED BY <1>2, <1>3, <1>4, <1>5, <1>6 DEF TypeOK

\* The steps of a report keep the types.
LEMMA ReportStepTypes ==
    ASSUME TypeOK, NEW n \in Nodes, ReportStep(n)
    PROVE  TypeOK'
<1> USE DEF TypeOK, Quiet
<1>1. ASSUME NEW S \in SUBSET Users, ReportReads(n, S) PROVE TypeOK'
  <2>1. [pc |-> "read", users |-> S] \in Reports
    BY DEF Reports
  <2> QED BY <1>1, <2>1 DEF ReportReads
<1>2. CASE ReportAdds(n)
  <2>1. row' \in [Users -> Row \cup {Absent}]
    BY <1>2, RowShape DEF ReportAdds, Present, Exists
  <2>2. ledger' \in [Users -> [Nodes -> Nat]]
    BY <1>2 DEF ReportAdds
  <2>3. report' \in [Nodes -> Reports]
    BY <1>2 DEF ReportAdds, Reports
  <2> QED BY <1>2, <2>1, <2>2, <2>3 DEF ReportAdds
<1>3. CASE ReportRefused(n)
  BY <1>3, Resting DEF ReportRefused
<1>4. CASE ReportTells(n)
  BY <1>4, Resting, ListsUsers DEF ReportTells
<1>5. CASE ReportFails(n)
  <2>1. faults' \in 0..MaxFaults
    BY <1>5, AccountingAssumption DEF ReportFails, Fault
  <2> QED BY <1>5, <2>1, Resting DEF ReportFails
<1> QED BY <1>1, <1>2, <1>3, <1>4, <1>5 DEF ReportStep

\* A request about to notify has its type.
LEMMA TellingType ==
    ASSUME TypeOK, NEW e \in Editors, NEW u \in Users, Telling(e, u)
    PROVE  edit' \in [Editors -> Edits]
<1>1. [NoEdit EXCEPT !.pc = "tell", !.user = u] \in Edits
  BY Resting DEF Edits
<1> QED BY <1>1 DEF TypeOK, Telling

\* The steps of a request keep the types.
LEMMA EditStepTypes ==
    ASSUME TypeOK, NEW e \in Editors, EditStep(e)
    PROVE  TypeOK'
<1> USE DEF TypeOK, Quiet
<1>1. ASSUME NEW u \in Users, NEW l \in Limits, NEW d \in Typed, CreateUser(e, u, l, d) PROVE TypeOK'
  <2>1. [limit |-> l, used |-> 0, day |-> ClampResetDay(d), last |-> today] \in Row
    BY Clamped DEF Row
  <2>2. row' \in [Users -> Row \cup {Absent}] /\ swept' \in [Users -> Instants \cup {Null}]
    BY <1>1, <2>1 DEF CreateUser
  <2> QED BY <1>1, <2>2, TellingType DEF CreateUser
<1>2. ASSUME NEW u \in Users, NEW l \in Limits, NEW d \in Typed, EditReads(e, u, l, d) PROVE TypeOK'
  <2>1. [pc |-> "write", user |-> u, limit |-> l, day |-> ClampResetDay(d),
         on |-> row[u].day = 0 /\ ClampResetDay(d) > 0] \in Edits
    <3>1. (row[u].day = 0 /\ ClampResetDay(d) > 0) \in BOOLEAN
      OBVIOUS
    <3> QED BY <3>1, Clamped DEF Edits
  <2>2. edit' \in [Editors -> Edits]
    BY <1>2, <2>1 DEF EditReads
  <2> QED BY <1>2, <2>2 DEF EditReads
<1>3. ASSUME NEW u \in Users, DeleteUser(e, u) PROVE TypeOK'
  <2>1. /\ row' \in [Users -> Row \cup {Absent}] /\ swept' \in [Users -> Instants \cup {Null}]
        /\ ledger' \in [Users -> [Nodes -> Nat]]
    BY <1>3 DEF DeleteUser
  <2> QED BY <1>3, <2>1, TellingType DEF DeleteUser
<1>4. ASSUME NEW u \in Users, ResetUserTraffic(e, u) PROVE TypeOK'
  BY <1>4, RowShape, SetRowType, TellingType DEF ResetUserTraffic
<1>5. CASE EditWrites(e)
  <2>1. edit[e] \in Edits /\ edit[e].user \in Users
    BY DEF Edits
  <2>2. row' \in [Users -> Row \cup {Absent}]
    <3>1. [row[edit[e].user] EXCEPT !.limit = edit[e].limit, !.day = edit[e].day] \in Row
      BY <1>5, <2>1, RowShape DEF EditWrites, Edits
    <3> QED BY <1>5, <2>1, <3>1 DEF EditWrites
  <2>3. edit' \in [Editors -> Edits]
    <3>1. [edit[e] EXCEPT !.pc = "touch"] \in Edits
      BY <2>1 DEF Edits
    <3>2. CASE edit[e].on
      BY <1>5, <3>1, <3>2 DEF EditWrites
    <3>3. CASE ~edit[e].on
      BY <1>5, <2>1, <3>3, TellingType DEF EditWrites
    <3> QED BY <3>2, <3>3
  <2> QED BY <1>5, <2>2, <2>3 DEF EditWrites
<1>6. CASE EditRefused(e)
  BY <1>6, Resting DEF EditRefused
<1>7. CASE EditTouches(e)
  <2>1. edit[e].user \in Users
    BY DEF Edits
  <2> QED BY <1>7, <2>1, RowShape, SetRowType, TellingType DEF EditTouches
<1>8. CASE EditTells(e)
  BY <1>8, Resting, ListsUsers DEF EditTells
<1>9. CASE EditFails(e)
  <2>1. faults' \in 0..MaxFaults
    BY <1>9, AccountingAssumption DEF EditFails, Fault
  <2>2. unsaid' \subseteq Users
    BY <1>9 DEF EditFails, Edits
  <2> QED BY <1>9, <2>1, <2>2, Resting DEF EditFails
<1> QED BY <1>1, <1>2, <1>3, <1>4, <1>5, <1>6, <1>7, <1>8, <1>9 DEF EditStep

\* The steps of the sweep keep the types.
LEMMA SweepStepTypes ==
    ASSUME TypeOK, SweepStep \/ SweepFails
    PROVE  TypeOK'
<1> USE DEF TypeOK, Quiet
<1>1. CASE SweepReads
  <2>1. [u \in Users |-> ScheduleOf(u)] \in [Users -> Schedule \cup {Absent}]
    <3> SUFFICES ASSUME NEW u \in Users PROVE ScheduleOf(u) \in Schedule \cup {Absent}
      OBVIOUS
    <3>1. Exists(u) => row[u] \in Row
      BY DEF Exists
    <3> QED BY <3>1 DEF ScheduleOf, Schedule, Row
  <2>2. sweep' \in Sweeps
    BY <1>1, <2>1 DEF SweepReads, Sweeps
  <2> QED BY <1>1, <2>2 DEF SweepReads
<1>2. CASE SweepLooks
  <2>1. sweep' \in Sweeps
    BY <1>2 DEF SweepLooks, Sweeps
  <2> QED BY <1>2, <2>1 DEF SweepLooks
<1>3. CASE SweepEnds
  <2>1. told' \subseteq Users /\ unsaid' \subseteq Users
    BY <1>3, ListsUsers DEF SweepEnds
  <2> QED BY <1>3, <2>1, Resting DEF SweepEnds
<1>4. ASSUME NEW u \in Users, SweepTouches(u) PROVE TypeOK'
  <2>1. sweep' \in Sweeps
    BY <1>4 DEF SweepTouches, Sweeps
  <2> QED BY <1>4, <2>1, RowShape, SetRowType DEF SweepTouches
<1>5. ASSUME NEW u \in Users, SweepZeroes(u) PROVE TypeOK'
  <2>1. sweep' \in Sweeps
    BY <1>5 DEF SweepZeroes, Sweeps
  <2>2. swept' \in [Users -> Instants \cup {Null}]
    BY <1>5 DEF SweepZeroes
  <2> QED BY <1>5, <2>1, <2>2, RowShape, SetRowType DEF SweepZeroes
<1>6. CASE SweepFails
  <2>1. faults' \in 0..MaxFaults
    BY <1>6, AccountingAssumption DEF SweepFails, Fault
  <2>2. unsaid' \subseteq Users
    BY <1>6 DEF SweepFails, Sweeps
  <2> QED BY <1>6, <2>1, <2>2, Resting DEF SweepFails
<1> QED BY <1>1, <1>2, <1>3, <1>4, <1>5, <1>6 DEF SweepStep

\* Every step keeps the types.
LEMMA TypeCorrectNext == TypeOK /\ [Next]_vars => TypeOK'
<1> SUFFICES ASSUME TypeOK, [Next]_vars PROVE TypeOK'
  OBVIOUS
<1>1. ASSUME NEW n \in Nodes, DeleteNode(n) PROVE TypeOK'
  BY <1>1 DEF DeleteNode, TypeOK, Quiet
<1>2. CASE Restart
  <2>1. faults' \in 0..MaxFaults
    BY <1>2, AccountingAssumption DEF Restart, Fault, TypeOK
  <2> QED BY <1>2, <2>1, Resting, ListsUsers DEF Restart, TypeOK
<1>3. CASE Tick
  <2>1. today' \in Instants
    BY <1>3, AccountingAssumption DEF Tick, TypeOK, Instants
  <2> QED BY <1>3, <2>1 DEF Tick, TypeOK, Quiet
<1>4. CASE UNCHANGED vars
  BY <1>4 DEF vars, TypeOK
<1> QED BY <1>1, <1>2, <1>3, <1>4, ReportStepTypes, EditStepTypes, SweepStepTypes DEF Next

\* Rows, processes and counters keep their types; in particular no reset day past
\* 31 reaches the table.
THEOREM TypeCorrect == Spec => []TypeOK
BY TypeCorrectInit, TypeCorrectNext, PTL DEF Spec

-----------------------------------------------------------------------------
\* The marks for "no row" and "no instant" are neither.
LEMMA Marks == Absent \notin Row /\ Absent \notin Schedule /\ Null \notin Instants /\ Instants \subseteq Int
<1>1. Instants \subseteq Int /\ Null \notin Instants
  BY AccountingAssumption DEF Instants
<1>2. Row \subseteq [limit : Limits, used : Nat, day : 0..31, last : Int \cup {Null}]
  BY <1>1 DEF Row, Days
<1>3. Schedule \subseteq [day : 0..31, last : Int \cup {Null}]
  BY <1>1 DEF Schedule, Days
<1> QED BY <1>1, <1>2, <1>3, AccountingAssumption

\* An UPDATE makes no row and loses none.
LEMMA SetRowKeeps ==
    ASSUME TypeOK, NEW u \in Users, NEW r, Exists(u) => r \in Row, SetRow(u, r)
    PROVE  /\ \A v \in Users : Exists(v) <=> Exists(v)'
           /\ \A v \in Users \ {u} : row'[v] = row[v]
           /\ Exists(u) => row'[u] = r
BY Marks DEF TypeOK, SetRow, Exists

\* What a step may do to the rows that exist and to the traffic table.
LEMMA Frame ==
    ASSUME TypeOK, [Next]_vars
    PROVE  \/ UNCHANGED <<ledger, nodes>> /\ \A u \in Users : Exists(u) => Exists(u)'
           \/ \E n \in Nodes : ReportAdds(n) \/ DeleteNode(n)
           \/ \E e \in Editors, u \in Users : DeleteUser(e, u)
<1> DEFINE Kept == UNCHANGED <<ledger, nodes>> /\ \A u \in Users : Exists(u) => Exists(u)'
<1>1. UNCHANGED <<row, ledger, nodes>> => Kept
  BY DEF Exists
<1>2. ASSUME NEW n \in Nodes, ReportStep(n) PROVE Kept \/ ReportAdds(n)
  BY <1>1, <1>2 DEF ReportStep, ReportReads, ReportRefused, ReportTells, ReportFails
<1>3. ASSUME NEW e \in Editors, EditStep(e)
      PROVE  Kept \/ \E u \in Users : DeleteUser(e, u)
  <2>1. ASSUME NEW u \in Users, NEW l \in Limits, NEW d \in Typed, CreateUser(e, u, l, d) PROVE Kept
    BY <2>1 DEF CreateUser, Exists, TypeOK
  <2>2. ASSUME NEW u \in Users, ResetUserTraffic(e, u) PROVE Kept
    BY <2>2, RowShape, SetRowKeeps DEF ResetUserTraffic
  <2>3. CASE EditWrites(e)
    <3>1. edit[e].user \in Users /\ edit[e].limit \in Limits /\ edit[e].day \in Days
      BY DEF TypeOK, Edits
    <3>2. [row[edit[e].user] EXCEPT !.limit = edit[e].limit, !.day = edit[e].day] # Absent
      <4>1. Exists(edit[e].user)
        BY <2>3 DEF EditWrites
      <4>2. [row[edit[e].user] EXCEPT !.limit = edit[e].limit, !.day = edit[e].day] \in Row
        BY <3>1, <4>1, RowShape
      <4> QED BY <4>2, Marks
    <3> QED BY <2>3, <3>1, <3>2 DEF EditWrites, Exists, TypeOK
  <2>4. CASE EditTouches(e)
    <3>1. edit[e].user \in Users
      BY DEF TypeOK, Edits
    <3> QED BY <2>4, <3>1, RowShape, SetRowKeeps DEF EditTouches
  <2>5. CASE EditRefused(e) \/ EditTells(e) \/ EditFails(e)
    BY <1>1, <2>5 DEF EditRefused, EditTells, EditFails
  <2>6. ASSUME NEW u \in Users, NEW l \in Limits, NEW d \in Typed, EditReads(e, u, l, d) PROVE Kept
    BY <1>1, <2>6 DEF EditReads
  <2> QED BY <1>3, <2>1, <2>2, <2>3, <2>4, <2>5, <2>6 DEF EditStep
<1>4. CASE SweepStep \/ SweepFails
  <2>1. CASE SweepReads \/ SweepLooks \/ SweepEnds \/ SweepFails
    BY <1>1, <2>1 DEF SweepReads, SweepLooks, SweepEnds, SweepFails
  <2>2. ASSUME NEW u \in Users, SweepTouches(u) PROVE Kept
    BY <2>2, RowShape, SetRowKeeps DEF SweepTouches
  <2>3. ASSUME NEW u \in Users, SweepZeroes(u) PROVE Kept
    BY <2>3, RowShape, SetRowKeeps DEF SweepZeroes
  <2> QED BY <1>4, <2>1, <2>2, <2>3 DEF SweepStep
<1>5. CASE Restart \/ Tick \/ UNCHANGED vars
  BY <1>1, <1>5 DEF Restart, Tick, vars
<1> QED BY <1>2, <1>3, <1>4, <1>5 DEF Next

\* A deletion takes the traffic with it, whatever was being handled meanwhile.
THEOREM LedgerIsOwned == Spec => []LedgerOwned
<1>1. Init => LedgerOwned
  BY DEF Init, LedgerOwned
<1>2. TypeOK /\ LedgerOwned /\ [Next]_vars => LedgerOwned'
  <2> SUFFICES ASSUME TypeOK, LedgerOwned, [Next]_vars,
                      NEW u \in Users, NEW n \in Nodes, ~Exists(u)' \/ n \notin nodes'
               PROVE  ledger'[u][n] = 0
    BY DEF LedgerOwned
  <2>1. CASE UNCHANGED <<ledger, nodes>> /\ \A v \in Users : Exists(v) => Exists(v)'
    BY <2>1 DEF LedgerOwned
  <2>2. ASSUME NEW k \in Nodes, ReportAdds(k) PROVE ledger'[u][n] = 0
    <3>1. Exists(u) => Exists(u)'
      BY <2>2, RowShape, Marks DEF ReportAdds, Present, Exists, TypeOK
    <3>2. ~Exists(u) \/ n \notin nodes
      BY <2>2, <3>1 DEF ReportAdds
    <3>3. u \notin report[k].users \/ k # n
      BY <2>2, <3>2 DEF ReportAdds, Present
    <3> QED BY <2>2, <3>2, <3>3 DEF ReportAdds, LedgerOwned, TypeOK
  <2>3. ASSUME NEW k \in Nodes, DeleteNode(k) PROVE ledger'[u][n] = 0
    BY <2>3 DEF DeleteNode, LedgerOwned, Exists, TypeOK
  <2>4. ASSUME NEW e \in Editors, NEW v \in Users, DeleteUser(e, v) PROVE ledger'[u][n] = 0
    BY <2>4 DEF DeleteUser, LedgerOwned, Exists, TypeOK
  <2> QED BY <2>1, <2>2, <2>3, <2>4, Frame
<1> QED BY <1>1, <1>2, TypeCorrect, PTL DEF Spec

-----------------------------------------------------------------------------
\* Which processes have an unfinished notification for u.
Due(u) ==
    \/ \E n \in Nodes : report[n].pc = "tell" /\ u \in report[n].users
    \/ \E e \in Editors : edit[e].pc \in {"touch", "tell"} /\ u = edit[e].user
    \/ u \in sweep.done
    \/ u \in unsaid

\* Right after a push nobody is misrepresented.
LEMMA PushedAfterPush == UsersChanged => ChangesPushed'
BY DEF UsersChanged, ChangesPushed, Listed, Present, Exists

\* A user whose row a step leaves alone, and whose notification it leaves due,
\* stays accounted for.
LEMMA PushedAlone ==
    ASSUME ChangesPushed, NEW u \in Users, row'[u] = row[u], Quiet, Due(u) => Due(u)'
    PROVE  (u \in Listed <=> u \in told)' \/ Due(u)'
<1>1. (u \in Listed)' <=> u \in Listed
  BY DEF Listed, Present, Exists
<1>2. (u \in Listed <=> u \in told) \/ Due(u)
  BY DEF ChangesPushed, Due
<1> QED BY <1>1, <1>2 DEF Quiet

\* The same for one whose row changes in what does not matter here.
LEMMA PushedSame ==
    ASSUME ChangesPushed, NEW u \in Users, (u \in Listed)' <=> u \in Listed, told' = told,
           Due(u) => Due(u)'
    PROVE  (u \in Listed <=> u \in told)' \/ Due(u)'
<1>1. (u \in Listed <=> u \in told) \/ Due(u)
  BY DEF ChangesPushed, Due
<1> QED BY <1>1

\* A change of who is under the limit is pushed, is about to be, or belongs to an
\* operation that failed.  The invariant is inductive as it stands.
THEOREM ChangesArePushed == Spec => []ChangesPushed
<1>1. Init => ChangesPushed
  BY DEF Init, ChangesPushed
<1>2. TypeOK /\ ChangesPushed /\ [Next]_vars => ChangesPushed'
  <2> SUFFICES ASSUME TypeOK, ChangesPushed, [Next]_vars PROVE ChangesPushed'
    OBVIOUS
  <2> DEFINE Fine(u) == (u \in Listed <=> u \in told)' \/ Due(u)'
  <2>0. (\A u \in Users : Fine(u)) => ChangesPushed'
    BY DEF ChangesPushed, Due
  <2>1. ASSUME NEW n \in Nodes, ReportStep(n) PROVE ChangesPushed'
    <3>1. ASSUME NEW S \in SUBSET Users, ReportReads(n, S) PROVE \A u \in Users : Fine(u)
      <4>1. \A u \in Users : Due(u) => Due(u)'
        BY <3>1 DEF ReportReads, Due, Quiet, TypeOK
      <4> QED BY <3>1, <4>1, PushedAlone DEF ReportReads
    <3>2. CASE ReportAdds(n)
      <4>1. \A u \in Users : Due(u) => Due(u)'
        BY <3>2 DEF ReportAdds, Due, Quiet, TypeOK
      <4>2. \A u \in report[n].users : Due(u)'
        BY <3>2 DEF ReportAdds, Due, TypeOK, Reports
      <4>3. \A u \in Users \ report[n].users : row'[u] = row[u]
        BY <3>2 DEF ReportAdds
      <4>4. Quiet
        BY <3>2 DEF ReportAdds
      <4> QED BY <2>0, <4>1, <4>2, <4>3, <4>4, PushedAlone
    <3>3. CASE ReportRefused(n) \/ ReportFails(n)
      <4>1. \A u \in Users : Due(u) => Due(u)'
        BY <3>3 DEF ReportRefused, ReportFails, Due, Quiet, TypeOK
      <4>2. Quiet /\ row' = row
        BY <3>3 DEF ReportRefused, ReportFails
      <4> QED BY <2>0, <4>1, <4>2, PushedAlone
    <3>4. CASE ReportTells(n)
      BY <3>4, PushedAfterPush DEF ReportTells
    <3> QED BY <2>0, <2>1, <3>1, <3>2, <3>3, <3>4 DEF ReportStep
  <2>2. ASSUME NEW e \in Editors, EditStep(e) PROVE ChangesPushed'
    <3>1. ASSUME NEW v \in Users, Telling(e, v), Quiet, UNCHANGED <<report, sweep>>,
                 \A u \in Users \ {v} : row'[u] = row[u],
                 edit[e].pc \in {"idle", "write"} \/ edit[e].user = v
          PROVE  ChangesPushed'
      <4>1. edit' = [edit EXCEPT ![e] = edit'[e]] /\ edit'[e].pc = "tell" /\ edit'[e].user = v
        BY <3>1, Resting DEF Telling, TypeOK, Edits
      <4>2. Due(v)'
        BY <4>1 DEF Due
      <4>3. \A u \in Users \ {v} : Due(u) => Due(u)'
        BY <3>1, <4>1 DEF Due, Quiet, TypeOK
      <4> QED BY <2>0, <3>1, <4>2, <4>3, PushedAlone
    <3>2. ASSUME NEW v \in Users, NEW l \in Limits, NEW d \in Typed,
                 CreateUser(e, v, l, d) PROVE ChangesPushed'
      BY <3>1, <3>2 DEF CreateUser, TypeOK
    <3>3. ASSUME NEW v \in Users, DeleteUser(e, v) \/ ResetUserTraffic(e, v) PROVE ChangesPushed'
      BY <3>1, <3>3 DEF DeleteUser, ResetUserTraffic, SetRow, TypeOK
    <3>4. ASSUME NEW v \in Users, NEW l \in Limits, NEW d \in Typed, EditReads(e, v, l, d)
          PROVE  ChangesPushed'
      <4>1. \A u \in Users : Due(u) => Due(u)'
        BY <3>4 DEF EditReads, Due, Quiet, TypeOK
      <4>2. Quiet /\ row' = row
        BY <3>4 DEF EditReads
      <4> QED BY <2>0, <4>1, <4>2, PushedAlone
    <3>5. CASE EditWrites(e)
      <4>1. edit[e].user \in Users /\ edit[e] \in Edits
        BY DEF TypeOK, Edits
      <4>2. Quiet /\ UNCHANGED <<report, sweep>> /\ \A u \in Users \ {edit[e].user} : row'[u] = row[u]
        BY <3>5 DEF EditWrites, TypeOK
      <4>3. CASE ~edit[e].on
        <5>1. Telling(e, edit[e].user)
          BY <3>5, <4>3 DEF EditWrites
        <5> QED BY <3>1, <4>1, <4>2, <5>1
      <4>4. CASE edit[e].on
        <5>1. edit' = [edit EXCEPT ![e].pc = "touch"]
          BY <3>5, <4>4 DEF EditWrites
        <5>2. edit'[e].pc = "touch" /\ edit'[e].user = edit[e].user
          BY <4>1, <5>1 DEF TypeOK, Edits
        <5> PICK v \in Users : v = edit[e].user
          BY <4>1
        <5>3. Due(v)'
          BY <5>2 DEF Due
        <5>4. \A u \in Users : Due(u) => Due(u)'
          BY <4>2, <5>1, <5>2 DEF Due, Quiet, TypeOK
        <5>5. \A u \in Users \ {v} : Fine(u)
          BY <4>2, <5>4, PushedAlone
        <5> QED BY <2>0, <5>3, <5>5
      <4> QED BY <4>3, <4>4
    <3>6. CASE EditTouches(e)
      <4>1. edit[e].user \in Users
        BY DEF TypeOK, Edits
      <4>2. /\ Telling(e, edit[e].user) /\ Quiet /\ UNCHANGED <<report, sweep>>
            /\ \A u \in Users \ {edit[e].user} : row'[u] = row[u]
        BY <3>6, <4>1 DEF EditTouches, SetRow, TypeOK
      <4> QED BY <3>1, <4>1, <4>2
    <3>7. CASE EditRefused(e)
      <4>1. \A u \in Users : Due(u) => Due(u)'
        BY <3>7 DEF EditRefused, Due, Quiet, TypeOK
      <4>2. Quiet /\ row' = row
        BY <3>7 DEF EditRefused
      <4> QED BY <2>0, <4>1, <4>2, PushedAlone
    <3>8. CASE EditFails(e)
      <4>1. \A u \in Users : Due(u) => Due(u)'
        BY <3>8 DEF EditFails, Due, TypeOK, Edits
      <4>2. \A u \in Users : (u \in Listed)' <=> u \in Listed
        BY <3>8 DEF EditFails, Listed, Present, Exists
      <4>3. told' = told
        BY <3>8 DEF EditFails
      <4> QED BY <2>0, <4>1, <4>2, <4>3, PushedSame
    <3>9. CASE EditTells(e)
      BY <3>9, PushedAfterPush DEF EditTells
    <3> QED BY <2>2, <3>2, <3>3, <3>4, <3>5, <3>6, <3>7, <3>8, <3>9 DEF EditStep
  <2>3. CASE SweepStep \/ SweepFails
    <3>1. CASE SweepReads \/ SweepLooks
      <4>1. sweep'.done = sweep.done
        BY <3>1 DEF SweepReads, SweepLooks, TypeOK, Sweeps
      <4>2. \A u \in Users : Due(u) => Due(u)'
        BY <3>1, <4>1 DEF SweepReads, SweepLooks, Due, Quiet
      <4>3. Quiet /\ row' = row
        BY <3>1 DEF SweepReads, SweepLooks
      <4> QED BY <2>0, <4>2, <4>3, PushedAlone
    <3>2. ASSUME NEW v \in Users, SweepTouches(v) PROVE ChangesPushed'
      <4>1. sweep'.done = sweep.done
        BY <3>2 DEF SweepTouches, TypeOK, Sweeps
      <4>2. \A u \in Users : Due(u) => Due(u)'
        BY <3>2, <4>1 DEF SweepTouches, Due, Quiet
      <4>3. \A u \in Users : (u \in Listed)' <=> u \in Listed
        <5>1. \A u \in Users \ {v} : row'[u] = row[u]
          BY <3>2 DEF SweepTouches, SetRow, TypeOK
        <5>2. Exists(v) => row'[v] = Touched(v) /\ Exists(v)'
          BY <3>2, RowShape, SetRowKeeps DEF SweepTouches
        <5>3. ~Exists(v) => ~Exists(v)'
          BY <3>2 DEF SweepTouches, SetRow, TypeOK, Exists
        <5>4. Exists(v) => Touched(v).limit = row[v].limit /\ Touched(v).used = row[v].used
          BY DEF Touched, Exists, TypeOK, Row
        <5> QED BY <5>1, <5>2, <5>3, <5>4 DEF Listed, Present, Exists, Active
      <4>4. told' = told
        BY <3>2 DEF SweepTouches, Quiet
      <4> QED BY <2>0, <4>2, <4>3, <4>4, PushedSame
    <3>3. ASSUME NEW v \in Users, SweepZeroes(v) PROVE ChangesPushed'
      <4>1. sweep'.done = sweep.done \cup {v}
        BY <3>3 DEF SweepZeroes, TypeOK, Sweeps
      <4>2. \A u \in Users : u = v \/ Due(u) => Due(u)'
        BY <3>3, <4>1 DEF SweepZeroes, Due, Quiet
      <4>3. Quiet /\ \A u \in Users \ {v} : row'[u] = row[u]
        BY <3>3 DEF SweepZeroes, SetRow, TypeOK
      <4> QED BY <2>0, <4>2, <4>3, PushedAlone
    <3>4. CASE SweepEnds
      <4>1. CASE sweep.done # {}
        BY <3>4, <4>1, PushedAfterPush DEF SweepEnds
      <4>2. CASE sweep.done = {}
        <5>1. Quiet /\ row' = row
          BY <3>4, <4>2 DEF SweepEnds
        <5>2. \A u \in Users : Due(u) => Due(u)'
          BY <3>4, <4>2, <5>1 DEF SweepEnds, Due, Quiet
        <5> QED BY <2>0, <5>1, <5>2, PushedAlone
      <4> QED BY <4>1, <4>2
    <3>5. CASE SweepFails
      <4>1. \A u \in Users : Due(u) => Due(u)'
        BY <3>5 DEF SweepFails, Due
      <4>2. \A u \in Users : (u \in Listed)' <=> u \in Listed
        BY <3>5 DEF SweepFails, Listed, Present, Exists
      <4>3. told' = told
        BY <3>5 DEF SweepFails
      <4> QED BY <2>0, <4>1, <4>2, <4>3, PushedSame
    <3> QED BY <2>3, <3>1, <3>2, <3>3, <3>4, <3>5 DEF SweepStep
  <2>4. CASE Restart
    BY <2>4, PushedAfterPush DEF Restart
  <2>5. CASE Tick \/ UNCHANGED vars \/ \E n \in Nodes : DeleteNode(n)
    <3>1. Quiet /\ row' = row /\ UNCHANGED <<report, edit, sweep>>
      BY <2>5 DEF Tick, vars, DeleteNode, Quiet
    <3>2. \A u \in Users : Due(u) => Due(u)'
      BY <3>1 DEF Due, Quiet
    <3> QED BY <2>0, <3>1, <3>2, PushedAlone
  <2> QED BY <2>1, <2>2, <2>3, <2>4, <2>5 DEF Next
<1> QED BY <1>1, <1>2, TypeCorrect, PTL DEF Spec

-----------------------------------------------------------------------------
\* A scheduled reset is an instant.
LEMMA LastResetIsInstant ==
    ASSUME NEW day \in 1..31, NEW now \in Dates
    PROVE  LastScheduledReset(day, now) \in Int
BY MonthFound, InMonth DEF LastScheduledReset

\* What the schedule remembers: the stamp of a row is not before its last
\* scheduled reset, and neither is the stamp the sweep read.
StampsFollow ==
    \A u \in Users : swept[u] # Null =>
        /\ Exists(u)
        /\ row[u].last # Null /\ swept[u] <= row[u].last
        /\ swept[u] <= today
        /\ sweep.pc = "read" /\ sweep.rows[u] # Absent =>
              sweep.rows[u].last # Null /\ swept[u] <= sweep.rows[u].last
        /\ sweep.pc = "loop" /\ u \in sweep.todo =>
              swept[u] < LastScheduledReset(sweep.rows[u].day, sweep.at)

\* A step that lets the stamps only grow, and leaves the sweep and its history
\* alone, keeps them in order.
LEMMA StampsGrow ==
    ASSUME TypeOK, StampsFollow, UNCHANGED <<sweep, swept>>, today <= today', today' \in Int,
           \A u \in Users : swept[u] # Null => /\ Exists(u)' /\ row'[u].last # Null
                                               /\ row'[u].last = row[u].last \/ row'[u].last = today
    PROVE  StampsFollow'
<1> SUFFICES ASSUME NEW u \in Users, swept[u] # Null
             PROVE  /\ Exists(u)'
                    /\ row'[u].last # Null /\ swept[u] <= row'[u].last
                    /\ swept[u] <= today'
                    /\ sweep.pc = "read" /\ sweep.rows[u] # Absent =>
                          sweep.rows[u].last # Null /\ swept[u] <= sweep.rows[u].last
                    /\ sweep.pc = "loop" /\ u \in sweep.todo =>
                          swept[u] < LastScheduledReset(sweep.rows[u].day, sweep.at)
  BY DEF StampsFollow
<1>1. swept[u] \in Int /\ today \in Int
  BY Marks DEF TypeOK
<1> QED BY <1>1 DEF StampsFollow

\* Every step keeps the stamps in order.
LEMMA StampsFollowNext == TypeOK /\ StampsFollow /\ [Next]_vars => StampsFollow'
<1> SUFFICES ASSUME TypeOK, StampsFollow, [Next]_vars PROVE StampsFollow'
  OBVIOUS
<1> DEFINE Same == UNCHANGED <<row, sweep, swept>>
<1>1. today \in Int /\ today' \in Int /\ (today' = today \/ today' = today + 1 => today <= today')
  <2>1. today' \in Instants
    BY TypeCorrectNext DEF TypeOK
  <2> QED BY <2>1, Marks DEF TypeOK
<1>2. Same /\ today <= today' => StampsFollow'
  BY <1>1, StampsGrow DEF StampsFollow, Exists
<1>3. \A u \in Users : Exists(u) => Touched(u).last = today /\ Zeroed(u).last = today
  BY DEF TypeOK, Exists, Touched, Zeroed, Row
<1>4. today # Null
  BY <1>1, AccountingAssumption
<1>5. ASSUME NEW n \in Nodes, ReportStep(n) PROVE StampsFollow'
  <2>1. CASE ReportAdds(n)
    <3>1. \A u \in Users : Exists(u) => Exists(u)' /\ row'[u].last = row[u].last
      <4> SUFFICES ASSUME NEW u \in Users, Exists(u) PROVE Exists(u)' /\ row'[u].last = row[u].last
        OBVIOUS
      <4>1. row[u] \in Row /\ [row[u] EXCEPT !.used = @ + 1] # Absent
        BY RowShape, Marks
      <4> QED BY <2>1, <4>1 DEF ReportAdds, Exists, Row
    <3> QED BY <1>1, <2>1, <3>1, StampsGrow DEF ReportAdds, StampsFollow
  <2>2. CASE ~ReportAdds(n)
    BY <1>1, <1>2, <1>5, <2>2
    DEF ReportStep, ReportReads, ReportRefused, ReportTells, ReportFails
  <2> QED BY <2>1, <2>2
<1>6. ASSUME NEW u \in Users, SetRow(u, Touched(u)) \/ SetRow(u, Zeroed(u)), UNCHANGED <<today, sweep, swept>>
      PROVE  StampsFollow'
  <2>1. \A v \in Users : Exists(v) => Exists(v)' /\ (row'[v].last = row[v].last \/ row'[v].last = today)
    BY <1>3, <1>6, RowShape, SetRowKeeps
  <2> QED BY <1>1, <1>4, <1>6, <2>1, StampsGrow DEF StampsFollow
<1>7. ASSUME NEW e \in Editors, EditStep(e) PROVE StampsFollow'
  <2>1. ASSUME NEW u \in Users, NEW l \in Limits, NEW d \in Typed, CreateUser(e, u, l, d)
        PROVE  StampsFollow'
    <3>1. \A v \in Users \ {u} : row'[v] = row[v] /\ swept'[v] = swept[v]
      BY <2>1 DEF CreateUser, TypeOK
    <3>2. swept'[u] = Null /\ UNCHANGED <<today, sweep>>
      BY <2>1 DEF CreateUser, TypeOK
    <3> QED BY <3>1, <3>2 DEF StampsFollow, Exists
  <2>2. ASSUME NEW u \in Users, DeleteUser(e, u) PROVE StampsFollow'
    <3>1. \A v \in Users \ {u} : row'[v] = row[v] /\ swept'[v] = swept[v]
      BY <2>2 DEF DeleteUser, TypeOK
    <3>2. swept'[u] = Null /\ UNCHANGED <<today, sweep>>
      BY <2>2 DEF DeleteUser, TypeOK
    <3> QED BY <3>1, <3>2 DEF StampsFollow, Exists
  <2>3. ASSUME NEW u \in Users, ResetUserTraffic(e, u) PROVE StampsFollow'
    BY <1>6, <2>3 DEF ResetUserTraffic
  <2>4. CASE EditWrites(e)
    <3>1. edit[e].user \in Users /\ edit[e].limit \in Limits /\ edit[e].day \in Days
      BY DEF TypeOK, Edits
    <3>2. Exists(edit[e].user)
      BY <2>4 DEF EditWrites
    <3> DEFINE r == [row[edit[e].user] EXCEPT !.limit = edit[e].limit, !.day = edit[e].day]
    <3>3. r \in Row /\ row[edit[e].user] \in Row
      BY <3>1, <3>2, RowShape
    <3>4. r # Absent /\ r.last = row[edit[e].user].last
      BY <3>3, Marks DEF Row
    <3>5. \A v \in Users : Exists(v) => Exists(v)' /\ row'[v].last = row[v].last
      BY <2>4, <3>1, <3>4 DEF EditWrites, Exists, TypeOK
    <3> QED BY <1>1, <2>4, <3>5, StampsGrow DEF EditWrites, StampsFollow
  <2>5. CASE EditTouches(e)
    <3>1. edit[e].user \in Users
      BY DEF TypeOK, Edits
    <3> QED BY <1>6, <2>5, <3>1 DEF EditTouches
  <2>6. CASE EditRefused(e) \/ EditTells(e) \/ EditFails(e)
    BY <1>1, <1>2, <2>6 DEF EditRefused, EditTells, EditFails
  <2>7. ASSUME NEW u \in Users, NEW l \in Limits, NEW d \in Typed, EditReads(e, u, l, d)
        PROVE  StampsFollow'
    BY <1>1, <1>2, <2>7 DEF EditReads
  <2> QED BY <1>7, <2>1, <2>2, <2>3, <2>4, <2>5, <2>6, <2>7 DEF EditStep
<1>8. CASE SweepReads
  <2>1. /\ sweep'.pc = "read" /\ sweep'.rows = [u \in Users |-> ScheduleOf(u)]
        /\ UNCHANGED <<row, swept, today>>
    BY <1>8 DEF SweepReads, TypeOK, Sweeps
  <2> QED BY <2>1 DEF StampsFollow, ScheduleOf, Exists
<1>9. CASE SweepLooks
  <2>1. /\ sweep'.pc = "loop" /\ sweep'.at = today /\ sweep'.rows = sweep.rows /\ sweep.pc = "read"
        /\ \A u \in sweep'.todo : /\ sweep.rows[u] # Absent
                                  /\ Unstamped(sweep.rows[u]) \/ ResetDue(sweep.rows[u], today)
        /\ UNCHANGED <<row, swept, today>>
    BY <1>9 DEF SweepLooks, TypeOK, Sweeps
  <2> SUFFICES ASSUME NEW u \in Users, swept[u] # Null, u \in sweep'.todo
               PROVE  swept[u] < LastScheduledReset(sweep.rows[u].day, today)
    BY <2>1 DEF StampsFollow, Exists
  <2>2. sweep.rows[u].last # Null /\ swept[u] <= sweep.rows[u].last
    BY <2>1 DEF StampsFollow
  <2>3. /\ sweep.rows[u].last < LastScheduledReset(sweep.rows[u].day, today)
        /\ sweep.rows[u].day # 0
    BY <2>1, <2>2 DEF Unstamped, ResetDue
  <2>4. sweep.rows[u] \in Schedule
    BY <2>1 DEF TypeOK, Sweeps
  <2>5. /\ sweep.rows[u].last \in Int /\ swept[u] \in Int
        /\ LastScheduledReset(sweep.rows[u].day, today) \in Int
    <3>1. sweep.rows[u].day \in 1..31 /\ today \in Dates
      BY <2>3, <2>4, AccountingAssumption DEF Schedule, Days, TypeOK, Instants
    <3> QED BY <2>2, <2>4, <3>1, LastResetIsInstant, Marks DEF Schedule, TypeOK
  <2> QED BY <2>2, <2>3, <2>5
<1>10. ASSUME NEW u \in Users, SweepTouches(u) PROVE StampsFollow'
  <2>1. /\ sweep'.pc = sweep.pc /\ sweep'.at = sweep.at /\ sweep'.rows = sweep.rows
        /\ sweep'.todo \subseteq sweep.todo /\ UNCHANGED <<swept, today>>
    BY <1>10 DEF SweepTouches, TypeOK, Sweeps
  <2>2. \A v \in Users : Exists(v) => Exists(v)' /\ (row'[v].last = row[v].last \/ row'[v].last = today)
    BY <1>3, <1>10, RowShape, SetRowKeeps DEF SweepTouches
  <2> QED BY <1>4, <2>1, <2>2 DEF StampsFollow
<1>11. ASSUME NEW u \in Users, SweepZeroes(u) PROVE StampsFollow'
  <2>1. /\ sweep'.pc = sweep.pc /\ sweep.pc = "loop" /\ sweep'.at = sweep.at /\ sweep'.rows = sweep.rows
        /\ sweep'.todo = sweep.todo \ {u} /\ UNCHANGED today
        /\ swept' = [swept EXCEPT ![u] = IF Exists(u) THEN today ELSE @]
    BY <1>11 DEF SweepZeroes, TypeOK, Sweeps
  <2>2. \A v \in Users \ {u} : (Exists(v) => Exists(v)' /\ row'[v].last = row[v].last) /\ swept'[v] = swept[v]
    BY <1>11, <2>1, RowShape, SetRowKeeps DEF SweepZeroes, TypeOK
  <2>3. Exists(u) => Exists(u)' /\ row'[u].last = today /\ swept'[u] = today
    <3> SUFFICES ASSUME Exists(u) PROVE Exists(u)' /\ row'[u].last = today /\ swept'[u] = today
      OBVIOUS
    <3>1. SetRow(u, Zeroed(u)) /\ Zeroed(u) \in Row
      BY <1>11, RowShape DEF SweepZeroes
    <3>2. Exists(u)' /\ row'[u] = Zeroed(u)
      BY <3>1, SetRowKeeps
    <3>3. swept'[u] = today
      BY <2>1 DEF TypeOK
    <3> QED BY <1>3, <3>2, <3>3
  <2>4. ~Exists(u) => swept'[u] = Null
    BY <2>1 DEF StampsFollow, TypeOK
  <2> QED BY <1>1, <1>4, <2>1, <2>2, <2>3, <2>4 DEF StampsFollow
<1>12. CASE SweepEnds \/ SweepFails \/ Restart
  <2>1. sweep'.pc = "idle" /\ UNCHANGED <<row, swept, today>>
    BY <1>12 DEF SweepEnds, SweepFails, Restart, NoSweep
  <2> QED BY <2>1 DEF StampsFollow, Exists
<1>13. CASE Tick \/ UNCHANGED vars \/ \E n \in Nodes : DeleteNode(n)
  BY <1>1, <1>2, <1>13 DEF Tick, vars, DeleteNode
<1> QED BY <1>5, <1>7, <1>8, <1>9, <1>10, <1>11, <1>12, <1>13 DEF Next, SweepStep

\* The schedule zeroes a user twice only with one of the user's reset days in
\* between, whatever happens between the reading and the writing of a sweep.
THEOREM ResetOncePerCycle == Spec => OncePerCycle
<1>1. Init => StampsFollow
  BY DEF Init, StampsFollow
<1>2. TypeOK /\ StampsFollow /\ [Next]_vars =>
        [\A u \in Users : SweepZeroes(u) /\ Exists(u) /\ swept[u] # Null =>
            swept[u] < LastScheduledReset(sweep.rows[u].day, sweep.at)]_vars
  BY DEF StampsFollow, SweepZeroes
<1> QED BY <1>1, <1>2, TypeCorrect, StampsFollowNext, PTL DEF Spec, OncePerCycle

-----------------------------------------------------------------------------
\* What a step may do to the counter and the traffic of a user who stays.
Followed(u) ==
    \/ \E N \in SUBSET Nodes :
          /\ row'[u].used = row[u].used + Cardinality(N)
          /\ \A n \in N : ledger'[u][n] = ledger[u][n] + 1
          /\ \A n \in Nodes \ N : ledger'[u][n] \in {0, ledger[u][n]}
    \/ /\ SweepZeroes(u) \/ \E e \in Editors : ResetUserTraffic(e, u)
       /\ row'[u].used = 0
       /\ ledger'[u] = ledger[u]

\* A step that leaves the counter alone follows the ledger if it adds nothing there.
LEMMA FollowedAlone ==
    ASSUME TypeOK, NEW u \in Users, Exists(u), row'[u].used = row[u].used,
           \A n \in Nodes : ledger'[u][n] \in {0, ledger[u][n]}
    PROVE  Followed(u)
<1>1. row[u].used + Cardinality({}) = row[u].used
  <2>1. row[u].used \in Nat
    BY DEF TypeOK, Exists, Row
  <2> QED BY <2>1, FS_EmptySet
<1> QED BY <1>1 DEF Followed

\* So does a reset, which zeroes the counter and leaves the ledger alone.
LEMMA FollowedZero ==
    ASSUME NEW u \in Users, row'[u].used = 0, ledger' = ledger,
           SweepZeroes(u) \/ \E e \in Editors : ResetUserTraffic(e, u)
    PROVE  Followed(u)
BY DEF Followed

\* The counter and the traffic table move together in every step; a reset is the only
\* other thing that changes a counter, whatever an edit or a sweep has read before.
THEOREM CountersFollow == Spec => CounterFollowsLedger
<1>1. TypeOK /\ [Next]_vars => [\A u \in Present : row'[u] # Absent => Followed(u)]_vars
  <2> SUFFICES ASSUME TypeOK, Next, NEW u \in Users, Exists(u), Exists(u)' PROVE Followed(u)
    BY DEF Present, Exists
  <2>0. row[u] \in Row
    BY DEF TypeOK, Exists
  <2>1. UNCHANGED <<row, ledger>> => Followed(u)
    BY FollowedAlone DEF TypeOK
  <2>2. ASSUME NEW n \in Nodes, ReportAdds(n) PROVE Followed(u)
    <3>1. CASE u \in report[n].users
      <4>1. row'[u].used = row[u].used + Cardinality({n})
        <5>1. row'[u] = [row[u] EXCEPT !.used = @ + 1]
          BY <2>2, <3>1 DEF ReportAdds
        <5>2. row'[u].used = row[u].used + 1
          BY <2>0, <5>1 DEF Row
        <5>3. Cardinality({n}) = 1
          BY FS_Singleton
        <5> QED BY <5>2, <5>3
      <4>2. ledger'[u] = [ledger[u] EXCEPT ![n] = @ + 1]
        BY <2>2, <3>1 DEF ReportAdds
      <4>3. /\ \A k \in {n} : ledger'[u][k] = ledger[u][k] + 1
            /\ \A k \in Nodes \ {n} : ledger'[u][k] \in {0, ledger[u][k]}
        BY <4>2 DEF TypeOK
      <4> QED BY <4>1, <4>3 DEF Followed
    <3>2. CASE u \notin report[n].users
      BY <2>2, <3>2, FollowedAlone DEF ReportAdds, TypeOK
    <3> QED BY <3>1, <3>2
  <2>3. ASSUME NEW n \in Nodes, DeleteNode(n) PROVE Followed(u)
    BY <2>3, FollowedAlone DEF DeleteNode, TypeOK
  <2>4. ASSUME NEW e \in Editors, EditStep(e) PROVE Followed(u)
    <3>1. ASSUME NEW v \in Users, NEW l \in Limits, NEW d \in Typed, CreateUser(e, v, l, d)
          PROVE  Followed(u)
      BY <3>1, FollowedAlone DEF CreateUser, Exists, TypeOK
    <3>2. ASSUME NEW v \in Users, DeleteUser(e, v) PROVE Followed(u)
      BY <3>2, FollowedAlone DEF DeleteUser, Exists, TypeOK
    <3>3. ASSUME NEW v \in Users, ResetUserTraffic(e, v) PROVE Followed(u)
      <4>1. row'[u] = IF u = v THEN Zeroed(u) ELSE row[u]
        BY <3>3, RowShape, SetRowKeeps DEF ResetUserTraffic
      <4>2. Zeroed(u).used = 0
        BY <2>0 DEF Zeroed, Row
      <4>3. ledger' = ledger
        BY <3>3 DEF ResetUserTraffic
      <4>4. CASE u = v
        BY <3>3, <4>1, <4>2, <4>3, <4>4, FollowedZero
      <4>5. CASE u # v
        BY <4>1, <4>3, <4>5, FollowedAlone DEF TypeOK
      <4> QED BY <4>4, <4>5
    <3>4. CASE EditWrites(e)
      <4>1. row'[u].used = row[u].used
        BY <2>0, <3>4 DEF EditWrites, TypeOK, Row
      <4> QED BY <3>4, <4>1, FollowedAlone DEF EditWrites, TypeOK
    <3>5. CASE EditTouches(e)
      <4>1. edit[e].user \in Users
        BY DEF TypeOK, Edits
      <4>2. row'[u] = IF u = edit[e].user THEN Touched(u) ELSE row[u]
        BY <3>5, <4>1, RowShape, SetRowKeeps DEF EditTouches
      <4>3. Touched(u).used = row[u].used
        BY <2>0 DEF Touched, Row
      <4> QED BY <3>5, <4>2, <4>3, FollowedAlone DEF EditTouches, TypeOK
    <3>6. CASE EditRefused(e) \/ EditTells(e) \/ EditFails(e)
      BY <2>1, <3>6 DEF EditRefused, EditTells, EditFails
    <3>7. ASSUME NEW v \in Users, NEW l \in Limits, NEW d \in Typed, EditReads(e, v, l, d)
          PROVE  Followed(u)
      BY <2>1, <3>7 DEF EditReads
    <3> QED BY <2>4, <3>1, <3>2, <3>3, <3>4, <3>5, <3>6, <3>7 DEF EditStep
  <2>5. ASSUME NEW v \in Users, SweepTouches(v) PROVE Followed(u)
    <3>1. row'[u] = IF u = v THEN Touched(u) ELSE row[u]
      BY <2>5, RowShape, SetRowKeeps DEF SweepTouches
    <3>2. Touched(u).used = row[u].used
      BY <2>0 DEF Touched, Row
    <3> QED BY <2>5, <3>1, <3>2, FollowedAlone DEF SweepTouches, TypeOK
  <2>6. ASSUME NEW v \in Users, SweepZeroes(v) PROVE Followed(u)
    <3>1. row'[u] = IF u = v THEN Zeroed(u) ELSE row[u]
      BY <2>6, RowShape, SetRowKeeps DEF SweepZeroes
    <3>2. Zeroed(u).used = 0
      BY <2>0 DEF Zeroed, Row
    <3>3. ledger' = ledger
      BY <2>6 DEF SweepZeroes
    <3>4. CASE u = v
      BY <2>6, <3>1, <3>2, <3>3, <3>4, FollowedZero
    <3>5. CASE u # v
      BY <3>1, <3>3, <3>5, FollowedAlone DEF TypeOK
    <3> QED BY <3>4, <3>5
  <2>7. ASSUME UNCHANGED <<row, ledger>> PROVE Followed(u)
    BY <2>1, <2>7
  <2>8. ASSUME NEW n \in Nodes, ReportStep(n), ~ReportAdds(n) PROVE Followed(u)
    BY <2>1, <2>8 DEF ReportStep, ReportReads, ReportRefused, ReportTells, ReportFails
  <2>9. CASE SweepReads \/ SweepLooks \/ SweepEnds \/ SweepFails \/ Restart \/ Tick
    BY <2>1, <2>9 DEF SweepReads, SweepLooks, SweepEnds, SweepFails, Restart, Tick
  <2> QED BY <2>2, <2>3, <2>4, <2>5, <2>6, <2>8, <2>9 DEF Next, SweepStep
<1> QED BY <1>1, TypeCorrect, PTL DEF Spec, CounterFollowsLedger, Followed

-----------------------------------------------------------------------------
\* Around every day the clock shows, the resets of every schedule are adjacent.
THEOREM CalendarIsRight == Spec => []CalendarAgrees
<1>1. TypeOK => CalendarAgrees
  <2> SUFFICES ASSUME TypeOK, NEW t \in Typed, ClampResetDay(t) # 0
               PROVE  Adjacent(ClampResetDay(t), today)
    BY DEF CalendarAgrees
  <2>1. ClampResetDay(t) \in 1..31
    BY Clamped DEF Days
  <2>2. today \in Dates
    BY AccountingAssumption DEF TypeOK, Instants
  <2> QED BY <2>1, <2>2, ResetsAdjacent
<1> QED BY <1>1, TypeCorrect, PTL

\* The sweep's test of a row is the promise: due exactly when a reset of that day has
\* come since the last one, in whatever month.
THEOREM DueIsRight == Spec => []DueOnTheDay
<1>1. TypeOK => DueOnTheDay
  <2> SUFFICES ASSUME TypeOK, NEW u \in Present, row[u].day # 0, row[u].last # Null
               PROVE  ResetDue(row[u], today)
                        <=> \E m \in Months : /\ row[u].last < ScheduledInMonth(m, row[u].day)
                                             /\ ScheduledInMonth(m, row[u].day) <= today
    BY DEF DueOnTheDay
  <2> DEFINE day == row[u].day
             at(m) == ScheduledInMonth(m, day)
             last == LastScheduledReset(day, today)
  <2>1. day \in 1..31 /\ row[u].last \in Int /\ today \in Int /\ today \in Dates
    <3>1. row[u] \in Row
      BY RowShape DEF Present, Exists
    <3> QED BY <3>1, Marks, AccountingAssumption DEF Row, Days, TypeOK, Instants
  <2> HIDE DEF day
  <2>2. Adjacent(day, today)
    BY <2>1, ResetsAdjacent
  <2>3. \A m \in Months : at(m) \in Int
    BY <2>1, InMonth
  <2>4. \E m \in Months : last = at(m)
    BY <2>1, MonthFound DEF LastScheduledReset
  <2>5. ResetDue(row[u], today) <=> row[u].last < last
    BY DEF ResetDue, day
  <2>6. ASSUME row[u].last < last
        PROVE  \E m \in Months : row[u].last < at(m) /\ at(m) <= today
    BY <2>2, <2>4, <2>6 DEF Adjacent
  <2>7. ASSUME NEW m \in Months, row[u].last < at(m), at(m) <= today
        PROVE  row[u].last < last
    <3>1. at(m) <= last
      <4> DEFINE next == NextScheduledReset(day, today)
      <4>1. at(m) < next
        <5>1. next \in Int
          BY <2>1, <2>3, MonthFound DEF NextScheduledReset
        <5> QED BY <2>1, <2>2, <2>3, <2>7, <5>1 DEF Adjacent
      <4> QED BY <2>2, <2>3, <2>4, <4>1 DEF Adjacent
    <3> QED BY <2>1, <2>3, <2>4, <2>7, <3>1
  <2>8. (row[u].last < last) <=> \E m \in Months : row[u].last < at(m) /\ at(m) <= today
    BY <2>6, <2>7
  <2> QED BY <2>5, <2>8 DEF day
<1> QED BY <1>1, TypeCorrect, PTL
=============================================================================
