----------------------------- MODULE Accounting -----------------------------
(***************************************************************************)
(* Traffic counters: reports from nodes, edits and deletions of users,     *)
(* resets by hand and by schedule (internal/service/traffic.go, reset.go,  *)
(* service.go over internal/store).                                        *)
(*                                                                         *)
(* A step is one SQL statement or transaction, or one notification: the    *)
(* pool holds one connection, so statements do not overlap, but nothing    *)
(* keeps those of two requests, a report and the sweep from interleaving.  *)
(* Of User.Active only the limit is kept, and a report adds one unit.      *)
(***************************************************************************)
EXTENDS Calendar, FiniteSets

CONSTANTS
    Users, Nodes,
    Editors,              \* request handlers of the web interface
    Limits,               \* traffic_limit; 0 is none
    Typed,                \* reset days typed into forms
    FirstDate, LastDate,  \* the days the clock runs over
    MaxTotal,             \* bound on the traffic of a user on a node
    MaxFaults,            \* bound on failed writes and restarts
    Absent, Null

ASSUME AccountingAssumption ==
    /\ FirstDate \in Int /\ LastDate \in Int /\ FirstDate .. LastDate \subseteq Dates
    /\ FirstDate <= LastDate
    /\ Users # {} /\ Limits # {} /\ Limits \subseteq Nat
    /\ Typed \subseteq Int
    /\ MaxFaults \in Nat /\ MaxTotal \in Nat
    /\ Null \notin Int
    /\ Absent \notin [limit : Limits, used : Nat, day : 0..31, last : Int \cup {Null}]
    /\ Absent \notin [day : 0..31, last : Int \cup {Null}]

Instants == FirstDate .. LastDate

\* reset_day: 0 is never.
Days == 0..31

Row == [limit : Limits, used : Nat, day : Days, last : Instants \cup {Null}]

VARIABLES
    today,   \* the clock
    row,     \* row[u]: the users table, or Absent
    ledger,  \* ledger[u][n]: the traffic table, summed over the days
    nodes,   \* the nodes that exist
    report,  \* report[n]: RecordTraffic for node n
    edit,    \* edit[e]: a request
    sweep,   \* RunDueResets
    told,    \* whom the last push called active
    unsaid,  \* history: users changed by an operation that failed before it notified
    swept,   \* history: when the schedule last zeroed u
    faults

vars == <<today, row, ledger, nodes, report, edit, sweep, told, unsaid, swept, faults>>

Exists(u) == row[u] # Absent
Present == {u \in Users : Exists(u)}

\* User.Active, as far as traffic goes.
Active(r) == r.limit = 0 \/ r.used < r.limit

\* The users a push would list.
Listed == {u \in Present : Active(row[u])}

Reports == [pc : {"idle", "read", "tell"}, users : SUBSET Users]
Edits == [pc : {"idle", "write", "touch", "tell"}, user : Users, limit : Limits, day : Days, on : BOOLEAN]
\* What the sweep looks at in a row.
Schedule == [day : Days, last : Instants \cup {Null}]
ScheduleOf(u) == IF Exists(u) THEN [day |-> row[u].day, last |-> row[u].last] ELSE Absent

Sweeps == [pc : {"idle", "read", "loop"}, rows : [Users -> Schedule \cup {Absent}], at : Instants,
           todo : SUBSET Users, done : SUBSET Users]

TypeOK ==
    /\ today \in Instants
    /\ row \in [Users -> Row \cup {Absent}]
    /\ ledger \in [Users -> [Nodes -> Nat]]
    /\ nodes \subseteq Nodes
    /\ report \in [Nodes -> Reports]
    /\ edit \in [Editors -> Edits]
    /\ sweep \in Sweeps
    /\ told \subseteq Users /\ unsaid \subseteq Users
    /\ swept \in [Users -> Instants \cup {Null}]
    /\ faults \in 0..MaxFaults

NoReport == [pc |-> "idle", users |-> {}]
NoEdit == [pc |-> "idle", user |-> CHOOSE u \in Users : TRUE, limit |-> CHOOSE l \in Limits : TRUE,
           day |-> 0, on |-> FALSE]
NoSweep == [pc |-> "idle", rows |-> [u \in Users |-> Absent], at |-> FirstDate, todo |-> {}, done |-> {}]

\* A row the panel finds when it starts: the last reset is NULL if the row is from
\* before the column was added, or if an edit was cut short before it set it.
OldRows == [limit : Limits, used : {0}, day : {ClampResetDay(d) : d \in Typed}, last : {Null, FirstDate}]

Init ==
    /\ today = FirstDate
    /\ row \in [Users -> OldRows \cup {Absent}]
    /\ ledger = [u \in Users |-> [n \in Nodes |-> 0]]
    /\ nodes = Nodes
    /\ report = [n \in Nodes |-> NoReport]
    /\ edit = [e \in Editors |-> NoEdit]
    /\ sweep = NoSweep
    /\ told = Listed
    /\ unsaid = {}
    /\ swept = [u \in Users |-> Null]
    /\ faults = 0

\* Service.notify.UsersChanged, followed by the push it brings about.
UsersChanged ==
    /\ told' = {u \in Users : row'[u] # Absent /\ Active(row'[u])}
    /\ unsaid' = {}

Quiet == UNCHANGED <<told, unsaid>>

\* An UPDATE of one user; of a row that is gone it changes nothing.
SetRow(u, r) == row' = [row EXCEPT ![u] = IF @ = Absent THEN Absent ELSE r]

Zeroed(u) == [row[u] EXCEPT !.used = 0, !.last = today]
Touched(u) == [row[u] EXCEPT !.last = today]

-----------------------------------------------------------------------------
(***************************************************************************)
(* Reports.                                                                *)
(***************************************************************************)

\* nodeUserIDs, and the filtering of the report: S is what is left to add.
ReportReads(n, S) ==
    /\ report[n].pc = "idle"
    /\ n \in nodes
    /\ S \subseteq Present /\ S # {}
    /\ \A u \in S : ledger[u][n] < MaxTotal
    /\ report' = [report EXCEPT ![n] = [pc |-> "read", users |-> S]]
    /\ Quiet
    /\ UNCHANGED <<today, row, ledger, nodes, edit, sweep, swept, faults>>

\* Mutant of ReportAdds: the rows are not tied to users and nodes.
ReportAddsUnchecked(n) ==
    /\ report[n].pc = "read"
    /\ ledger' = [u \in Users |->
          IF u \in report[n].users THEN [ledger[u] EXCEPT ![n] = @ + 1] ELSE ledger[u]]
    /\ row' = [u \in Users |->
          IF u \in report[n].users /\ Exists(u) THEN [row[u] EXCEPT !.used = @ + 1] ELSE row[u]]
    /\ report' = [report EXCEPT ![n].pc = "tell"]
    /\ Quiet
    /\ UNCHANGED <<today, nodes, edit, sweep, swept, faults>>

\* AddTraffic: one transaction, which the foreign keys refuse as a whole when a
\* user or the node is gone.
ReportAdds(n) ==
    /\ report[n].pc = "read"
    /\ n \in nodes /\ report[n].users \subseteq Present
    /\ ledger' = [u \in Users |->
          IF u \in report[n].users THEN [ledger[u] EXCEPT ![n] = @ + 1] ELSE ledger[u]]
    /\ row' = [u \in Users |->
          IF u \in report[n].users THEN [row[u] EXCEPT !.used = @ + 1] ELSE row[u]]
    /\ report' = [report EXCEPT ![n].pc = "tell"]
    /\ Quiet
    /\ UNCHANGED <<today, nodes, edit, sweep, swept, faults>>

ReportRefused(n) ==
    /\ report[n].pc = "read"
    /\ n \notin nodes \/ ~(report[n].users \subseteq Present)
    /\ report' = [report EXCEPT ![n] = NoReport]
    /\ Quiet
    /\ UNCHANGED <<today, row, ledger, nodes, edit, sweep, swept, faults>>

ReportTells(n) ==
    /\ report[n].pc = "tell"
    /\ report' = [report EXCEPT ![n] = NoReport]
    /\ UNCHANGED <<today, row, ledger, nodes, edit, sweep, swept, faults>>
    /\ UsersChanged

-----------------------------------------------------------------------------
(***************************************************************************)
(* Requests.  Each ends by notifying.                                      *)
(***************************************************************************)

Telling(e, u) == edit' = [edit EXCEPT ![e] = [NoEdit EXCEPT !.pc = "tell", !.user = u]]

\* CreateUser stamps last_reset_at whether or not there is a schedule.
CreateUser(e, u, l, d) ==
    /\ edit[e].pc = "idle"
    /\ ~Exists(u)
    /\ row' = [row EXCEPT ![u] = [limit |-> l, used |-> 0, day |-> ClampResetDay(d), last |-> today]]
    /\ swept' = [swept EXCEPT ![u] = Null]
    /\ Telling(e, u)
    /\ Quiet
    /\ UNCHANGED <<today, ledger, nodes, report, sweep, faults>>

DeleteUser(e, u) ==
    /\ edit[e].pc = "idle"
    /\ Exists(u)
    /\ row' = [row EXCEPT ![u] = Absent]
    /\ ledger' = [ledger EXCEPT ![u] = [n \in Nodes |-> 0]]
    /\ swept' = [swept EXCEPT ![u] = Null]
    /\ Telling(e, u)
    /\ Quiet
    /\ UNCHANGED <<today, nodes, report, sweep, faults>>

\* By hand.
ResetUserTraffic(e, u) ==
    /\ edit[e].pc = "idle"
    /\ SetRow(u, Zeroed(u))
    /\ Telling(e, u)
    /\ Quiet
    /\ UNCHANGED <<today, ledger, nodes, report, sweep, swept, faults>>

\* UpdateUser reads the row it is about to overwrite, to see whether a schedule
\* is being switched on.  l and d come from the form, or from a row read before.
EditReads(e, u, l, d) ==
    /\ edit[e].pc = "idle"
    /\ Exists(u)
    /\ edit' = [edit EXCEPT ![e] = [pc |-> "write", user |-> u, limit |-> l, day |-> ClampResetDay(d),
                                    on |-> row[u].day = 0 /\ ClampResetDay(d) > 0]]
    /\ Quiet
    /\ UNCHANGED <<today, row, ledger, nodes, report, sweep, swept, faults>>

\* Mutant of EditWrites: the row is written whole, with the counter as it was before
\* the last reports.
EditWritesCounter(e) ==
    LET u == edit[e].user
    IN  /\ edit[e].pc = "write"
        /\ Exists(u)
        /\ \E old \in 0..row[u].used :
              row' = [row EXCEPT ![u] = [@ EXCEPT !.limit = edit[e].limit, !.day = edit[e].day, !.used = old]]
        /\ IF edit[e].on THEN edit' = [edit EXCEPT ![e].pc = "touch"] ELSE Telling(e, u)
        /\ Quiet
        /\ UNCHANGED <<today, ledger, nodes, report, sweep, swept, faults>>

EditWrites(e) ==
    LET u == edit[e].user
    IN  /\ edit[e].pc = "write"
        /\ Exists(u)
        /\ row' = [row EXCEPT ![u] = [@ EXCEPT !.limit = edit[e].limit, !.day = edit[e].day]]
        /\ IF edit[e].on THEN edit' = [edit EXCEPT ![e].pc = "touch"] ELSE Telling(e, u)
        /\ Quiet
        /\ UNCHANGED <<today, ledger, nodes, report, sweep, swept, faults>>

\* The user was deleted meanwhile: ErrNotFound.
EditRefused(e) ==
    /\ edit[e].pc = "write"
    /\ ~Exists(edit[e].user)
    /\ edit' = [edit EXCEPT ![e] = NoEdit]
    /\ Quiet
    /\ UNCHANGED <<today, row, ledger, nodes, report, sweep, swept, faults>>

\* Mutant of EditTouches: the request ends without notifying.
EditTouchesQuietly(e) ==
    /\ edit[e].pc = "touch"
    /\ SetRow(edit[e].user, Touched(edit[e].user))
    /\ edit' = [edit EXCEPT ![e] = NoEdit]
    /\ Quiet
    /\ UNCHANGED <<today, ledger, nodes, report, sweep, swept, faults>>

\* TouchUserReset: the cycle starts now.
EditTouches(e) ==
    /\ edit[e].pc = "touch"
    /\ SetRow(edit[e].user, Touched(edit[e].user))
    /\ Telling(e, edit[e].user)
    /\ Quiet
    /\ UNCHANGED <<today, ledger, nodes, report, sweep, swept, faults>>

EditTells(e) ==
    /\ edit[e].pc = "tell"
    /\ edit' = [edit EXCEPT ![e] = NoEdit]
    /\ UNCHANGED <<today, row, ledger, nodes, report, sweep, swept, faults>>
    /\ UsersChanged

\* The traffic of a node goes with it; the counters stay.
DeleteNode(n) ==
    /\ n \in nodes
    /\ nodes' = nodes \ {n}
    /\ ledger' = [u \in Users |-> [ledger[u] EXCEPT ![n] = 0]]
    /\ Quiet
    /\ UNCHANGED <<today, row, report, edit, sweep, swept, faults>>

-----------------------------------------------------------------------------
(***************************************************************************)
(* The sweep: at startup and every hour, in one goroutine.                 *)
(***************************************************************************)

SweepReads ==
    /\ sweep.pc = "idle"
    /\ sweep' = [sweep EXCEPT !.pc = "read", !.rows = [u \in Users |-> ScheduleOf(u)]]
    /\ Quiet
    /\ UNCHANGED <<today, row, ledger, nodes, report, edit, swept, faults>>

\* resetDue.  A schedule without a start point is not overdue.
ResetDue(r, now) == r.day # 0 /\ r.last # Null /\ r.last < LastScheduledReset(r.day, now)

\* A schedule that gets a start point instead.
Unstamped(r) == r.day # 0 /\ r.last = Null

\* Mutant of SweepLooks: a schedule without a start point is left as it is.
SweepLooksDueOnly ==
    /\ sweep.pc = "read"
    /\ sweep' = [sweep EXCEPT !.pc = "loop", !.at = today,
          !.todo = {u \in Users : sweep.rows[u] # Absent /\ ResetDue(sweep.rows[u], today)}]
    /\ Quiet
    /\ UNCHANGED <<today, row, ledger, nodes, report, edit, swept, faults>>

SweepLooks ==
    /\ sweep.pc = "read"
    /\ sweep' = [sweep EXCEPT !.pc = "loop", !.at = today,
          !.todo = {u \in Users : sweep.rows[u] # Absent
                                    /\ (Unstamped(sweep.rows[u]) \/ ResetDue(sweep.rows[u], today))}]
    /\ Quiet
    /\ UNCHANGED <<today, row, ledger, nodes, report, edit, swept, faults>>

SweepTouches(u) ==
    /\ sweep.pc = "loop" /\ u \in sweep.todo
    /\ Unstamped(sweep.rows[u])
    /\ SetRow(u, Touched(u))
    /\ sweep' = [sweep EXCEPT !.todo = @ \ {u}]
    /\ Quiet
    /\ UNCHANGED <<today, ledger, nodes, report, edit, swept, faults>>

\* Mutant of SweepZeroes: the reset does not stamp the cycle.
SweepZeroesUnstamped(u) ==
    /\ sweep.pc = "loop" /\ u \in sweep.todo
    /\ ~Unstamped(sweep.rows[u])
    /\ SetRow(u, [row[u] EXCEPT !.used = 0])
    /\ swept' = [swept EXCEPT ![u] = IF Exists(u) THEN today ELSE @]
    /\ sweep' = [sweep EXCEPT !.todo = @ \ {u}, !.done = @ \cup {u}]
    /\ Quiet
    /\ UNCHANGED <<today, ledger, nodes, report, edit, faults>>

SweepZeroes(u) ==
    /\ sweep.pc = "loop" /\ u \in sweep.todo
    /\ ~Unstamped(sweep.rows[u])
    /\ SetRow(u, Zeroed(u))
    /\ swept' = [swept EXCEPT ![u] = IF Exists(u) THEN today ELSE @]
    /\ sweep' = [sweep EXCEPT !.todo = @ \ {u}, !.done = @ \cup {u}]
    /\ Quiet
    /\ UNCHANGED <<today, ledger, nodes, report, edit, faults>>

\* Mutant of SweepEnds: the nodes are not told.
SweepEndsQuietly ==
    /\ sweep.pc = "loop" /\ sweep.todo = {}
    /\ sweep' = NoSweep
    /\ UNCHANGED <<today, row, ledger, nodes, report, edit, swept, faults>>
    /\ Quiet

SweepEnds ==
    /\ sweep.pc = "loop" /\ sweep.todo = {}
    /\ sweep' = NoSweep
    /\ UNCHANGED <<today, row, ledger, nodes, report, edit, swept, faults>>
    /\ IF sweep.done # {} THEN UsersChanged ELSE Quiet

-----------------------------------------------------------------------------
(***************************************************************************)
(* Faults: a statement that fails ends its operation with an error, without *)
(* notifying; the process may stop and start between any two steps.        *)
(***************************************************************************)

Fault == faults < MaxFaults /\ faults' = faults + 1

ReportFails(n) ==
    /\ report[n].pc = "read"
    /\ Fault
    /\ report' = [report EXCEPT ![n] = NoReport]
    /\ Quiet
    /\ UNCHANGED <<today, row, ledger, nodes, edit, sweep, swept>>

EditFails(e) ==
    /\ edit[e].pc \in {"write", "touch"}
    /\ Fault
    /\ edit' = [edit EXCEPT ![e] = NoEdit]
    /\ unsaid' = IF edit[e].pc = "touch" THEN unsaid \cup {edit[e].user} ELSE unsaid
    /\ UNCHANGED <<today, row, ledger, nodes, report, sweep, told, swept>>

SweepFails ==
    /\ sweep.pc = "loop" /\ sweep.todo # {}
    /\ Fault
    /\ sweep' = NoSweep
    /\ unsaid' = unsaid \cup sweep.done
    /\ UNCHANGED <<today, row, ledger, nodes, report, edit, told, swept>>

\* The nodes reconnect, and hello sends each its list.
Restart ==
    /\ Fault
    /\ report' = [n \in Nodes |-> NoReport]
    /\ edit' = [e \in Editors |-> NoEdit]
    /\ sweep' = NoSweep
    /\ UNCHANGED <<today, row, ledger, nodes, swept>>
    /\ UsersChanged

Tick ==
    /\ today < LastDate
    /\ today' = today + 1
    /\ Quiet
    /\ UNCHANGED <<row, ledger, nodes, report, edit, sweep, swept, faults>>

-----------------------------------------------------------------------------
ReportStep(n) ==
    \/ \E S \in SUBSET Users : ReportReads(n, S)
    \/ ReportAdds(n) \/ ReportRefused(n) \/ ReportTells(n) \/ ReportFails(n)

EditStep(e) ==
    \/ \E u \in Users :
          \/ \E l \in Limits, d \in Typed : CreateUser(e, u, l, d) \/ EditReads(e, u, l, d)
          \/ DeleteUser(e, u) \/ ResetUserTraffic(e, u)
    \/ EditWrites(e) \/ EditRefused(e) \/ EditTouches(e) \/ EditTells(e) \/ EditFails(e)

SweepStep ==
    \/ SweepReads \/ SweepLooks \/ SweepEnds
    \/ \E u \in Users : SweepTouches(u) \/ SweepZeroes(u)

Next ==
    \/ \E n \in Nodes : ReportStep(n) \/ DeleteNode(n)
    \/ \E e \in Editors : EditStep(e)
    \/ SweepStep \/ SweepFails
    \/ Restart
    \/ Tick

Spec == Init /\ [][Next]_vars

\* The sweep's goroutine runs for as long as the process does (main.go:225-242).
FairSpec == Spec /\ WF_vars(SweepStep)

-----------------------------------------------------------------------------
(***************************************************************************)
(* Properties.                                                             *)
(***************************************************************************)

\* The reset instants of every schedule are adjacent around today, on a calendar
\* with months shorter than the reset day.  (reset.go:27-67)
CalendarAgrees == \A d \in {ClampResetDay(t) : t \in Typed} \ {0} : Adjacent(d, today)

\* A user is due exactly when one of the resets on its day, in any month, has come
\* since its last one: looking at this month and the one before misses none and
\* invents none, whichever day an edit set and however long the panel was off.
\* (reset.go:83-105)
DueOnTheDay ==
    \A u \in Present : row[u].day # 0 /\ row[u].last # Null =>
        (ResetDue(row[u], today)
            <=> \E m \in Months : /\ row[u].last < ScheduledInMonth(m, row[u].day)
                                 /\ ScheduledInMonth(m, row[u].day) <= today)

\* The traffic table holds rows of existing users and nodes only, whatever was
\* deleted while a report was being handled: a user who takes over a deleted
\* user's id starts from nothing.  (traffic.go:20-24, store/traffic.go:12-38)
LedgerOwned ==
    \A u \in Users, n \in Nodes : (~Exists(u) \/ n \notin nodes) => ledger[u][n] = 0

\* The counter and the traffic table move together: what a step adds to one it adds
\* to the other.  Otherwise the counter changes only by a reset, the operator's or the
\* schedule's, which leaves the table alone: not by an edit or the start of a cycle,
\* however old the row they go by ("a stale value in the form cannot reset someone's
\* accumulated usage", service.go:112-114; store/traffic.go:3-38, users.go:93-106).
CounterFollowsLedger ==
    [][\A u \in Present : row'[u] # Absent =>
          \/ \E N \in SUBSET Nodes :
                /\ row'[u].used = row[u].used + Cardinality(N)
                /\ \A n \in N : ledger'[u][n] = ledger[u][n] + 1
                /\ \A n \in Nodes \ N : ledger'[u][n] \in {0, ledger[u][n]}
          \/ /\ SweepZeroes(u) \/ \E e \in Editors : ResetUserTraffic(e, u)
             /\ row'[u].used = 0
             /\ ledger'[u] = ledger[u]]_vars

\* The schedule zeroes a counter once per cycle: when it does so again, a reset
\* day has passed since, through restarts, failed sweeps and resets by hand.
\* (reset.go:83-94)
OncePerCycle ==
    [][\A u \in Users : SweepZeroes(u) /\ Exists(u) /\ swept[u] # Null =>
          swept[u] < LastScheduledReset(sweep.rows[u].day, sweep.at)]_vars

\* A change that brings a user under or over the limit is pushed: the nodes' lists
\* are right, or the operation that changed the user has yet to notify, or it
\* failed.  (traffic.go:67-72, reset.go:120-125)
ChangesPushed ==
    \A u \in Users :
        \/ u \in Listed <=> u \in told
        \/ \E n \in Nodes : report[n].pc = "tell" /\ u \in report[n].users
        \/ \E e \in Editors : edit[e].pc \in {"touch", "tell"} /\ u = edit[e].user
        \/ u \in sweep.done
        \/ u \in unsaid

\* A user whose reset day has passed is reset, and a schedule without a start
\* point gets one, also when the panel was off on the day.  (reset.go:88-90)
EventuallyReset ==
    \A u \in Users :
        (Exists(u) /\ (Unstamped(row[u]) \/ ResetDue(row[u], today)))
            ~> ~(Exists(u) /\ (Unstamped(row[u]) \/ ResetDue(row[u], today)))

\* "Switching a schedule on must not retroactively wipe usage" (users.go:144): no
\* scheduled reset comes from a schedule that is just being switched on.
SwitchingOnKeepsUsage ==
    [][\A u \in Users, e \in Editors :
          SweepZeroes(u) => ~(edit[e].pc = "touch" /\ edit[e].user = u)]_vars
=============================================================================
