------------------------------ MODULE Calendar ------------------------------
(***************************************************************************)
(* The calendar of scheduled resets (internal/service/reset.go).           *)
(*                                                                         *)
(* An instant is a number of days: resets fall at midnight and are only    *)
(* ever compared with "at or before" and "strictly after", so the hour     *)
(* does not matter.  The calendar itself (Go's package time) is a          *)
(* parameter: months of any length, one after the other.                   *)
(***************************************************************************)
EXTENDS Integers

CONSTANTS
    Years,
    FirstDay,  \* FirstDay[m]: the instant month m begins
    Length     \* Length[m]: how many days it has

Months == Years \X (1..12)

Before(m, k) == m[1] < k[1] \/ (m[1] = k[1] /\ m[2] < k[2])

ASSUME CalendarAssumption ==
    /\ Years \subseteq Int
    /\ FirstDay \in [Months -> Int]
    /\ Length \in [Months -> Nat \ {0}]
    /\ \A m, k \in Months : Before(m, k) => FirstDay[m] + Length[m] <= FirstDay[k]

\* Mutant of MonthBefore: the year is not taken back with the month.
MonthBeforeSameYear(m) == IF m[2] - 1 < 1 THEN <<m[1], 12>> ELSE <<m[1], m[2] - 1>>

MonthBefore(m) == IF m[2] - 1 < 1 THEN <<m[1] - 1, 12>> ELSE <<m[1], m[2] - 1>>
MonthAfter(m) == IF m[2] + 1 > 12 THEN <<m[1] + 1, 1>> ELSE <<m[1], m[2] + 1>>

DaysOf(m) == FirstDay[m] .. FirstDay[m] + Length[m] - 1

\* The instants with a month on either side in the calendar.
Dates == UNION {DaysOf(m) : m \in {k \in Months : {MonthBefore(k), MonthAfter(k)} \subseteq Months}}

MonthOf(now) ==
    CHOOSE m \in Months : now \in DaysOf(m) /\ {MonthBefore(m), MonthAfter(m)} \subseteq Months

\* Mutant of ClampResetDay: a day past the end of any month is kept.
ClampResetDayBelow(day) == IF day < 1 THEN 0 ELSE day

\* A number typed into a form: out of range is 0, never.
ClampResetDay(day) == IF day < 1 \/ day > 31 THEN 0 ELSE day

ScheduledInMonth(m, day) ==
    LET last == Length[m]
    IN  FirstDay[m] + (IF day > last THEN last ELSE day) - 1

LastScheduledReset(day, now) ==
    LET m == MonthOf(now)
        c == ScheduledInMonth(m, day)
    IN  IF c <= now THEN c ELSE ScheduledInMonth(MonthBefore(m), day)

NextScheduledReset(day, now) ==
    LET m == MonthOf(now)
        c == ScheduledInMonth(m, day)
    IN  IF c > now THEN c ELSE ScheduledInMonth(MonthAfter(m), day)

-----------------------------------------------------------------------------
\* Every month has its reset, in that month; and the last and the next are the
\* ones on either side of now, with none between them: no month is skipped,
\* February and the turn of the year included.  (reset.go:27-67: "February is not
\* a month to skip")
Adjacent(day, now) ==
    LET last == LastScheduledReset(day, now)
        next == NextScheduledReset(day, now)
    IN  /\ \A m \in Months : ScheduledInMonth(m, day) \in DaysOf(m)
        /\ last <= now
        /\ now < next
        /\ \A m \in Months : ~(last < ScheduledInMonth(m, day) /\ ScheduledInMonth(m, day) < next)
=============================================================================
