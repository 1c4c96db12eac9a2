--------------------------- MODULE CalendarProofs ---------------------------
(* What the reset calendar computes, for every calendar, day and instant. *)
EXTENDS Calendar, TLAPS

\* A day that was clamped is one a schedule can use, or 0.
LEMMA ClampedDay == ASSUME NEW day \in Int PROVE ClampResetDay(day) \in 0..31
  BY DEF ClampResetDay

\* The month found for an instant has the instant in it, and neighbours.
LEMMA MonthFound ==
    ASSUME NEW now \in Dates
    PROVE  /\ MonthOf(now) \in Months
           /\ MonthBefore(MonthOf(now)) \in Months /\ MonthAfter(MonthOf(now)) \in Months
           /\ now \in DaysOf(MonthOf(now))
<1>1. \E m \in Months : {MonthBefore(m), MonthAfter(m)} \subseteq Months /\ now \in DaysOf(m)
  BY DEF Dates
<1> QED BY <1>1 DEF MonthOf

\* The neighbours of a month are the next ones in order: nothing lies between.
LEMMA Neighbours ==
    ASSUME NEW m \in Months, MonthBefore(m) \in Months, MonthAfter(m) \in Months
    PROVE  /\ Before(MonthBefore(m), m) /\ Before(m, MonthAfter(m))
           /\ \A k \in Months : k = m \/ k = MonthBefore(m) \/ k = MonthAfter(m)
                                  \/ Before(k, MonthBefore(m)) \/ Before(MonthAfter(m), k)
<1>1. \A k \in Months : k = <<k[1], k[2]>> /\ k[1] \in Int /\ k[2] \in 1..12
  <2> TAKE k \in Months
  <2>1. PICK y \in Years, i \in 1..12 : k = <<y, i>>
    BY DEF Months
  <2> QED BY <2>1, CalendarAssumption
<1> QED BY <1>1 DEF MonthBefore, MonthAfter, Before

\* A month's reset falls in that month, however short it is.
LEMMA InMonth ==
    ASSUME NEW day \in 1..31, NEW m \in Months
    PROVE  /\ ScheduledInMonth(m, day) \in DaysOf(m)
           /\ ScheduledInMonth(m, day) \in Int
           /\ FirstDay[m] \in Int /\ Length[m] \in Nat \ {0}
           /\ FirstDay[m] <= ScheduledInMonth(m, day)
           /\ ScheduledInMonth(m, day) < FirstDay[m] + Length[m]
BY CalendarAssumption DEF ScheduledInMonth, DaysOf

\* The resets of two months are in the order of the months.
LEMMA Ordered ==
    ASSUME NEW day \in 1..31, NEW m \in Months, NEW k \in Months, Before(m, k)
    PROVE  ScheduledInMonth(m, day) < ScheduledInMonth(k, day)
<1>1. FirstDay[m] + Length[m] <= FirstDay[k]
  BY CalendarAssumption
<1> QED BY <1>1, InMonth

\* The last and the next scheduled reset are adjacent, on any calendar: no month
\* is skipped or hit twice, whatever its length.  (reset.go:27-67)
THEOREM ResetsAdjacent ==
    ASSUME NEW day \in 1..31, NEW now \in Dates
    PROVE  Adjacent(day, now)
<1> DEFINE m == MonthOf(now)
           at(k) == ScheduledInMonth(k, day)
<1>1. /\ m \in Months /\ MonthBefore(m) \in Months /\ MonthAfter(m) \in Months
      /\ now \in DaysOf(m)
  BY MonthFound
<1> HIDE DEF m
<1>2. /\ at(MonthBefore(m)) < FirstDay[m] /\ FirstDay[m] <= now
      /\ now < FirstDay[m] + Length[m] /\ FirstDay[m] + Length[m] <= at(MonthAfter(m))
      /\ now \in Int
  <2>1. /\ FirstDay[MonthBefore(m)] + Length[MonthBefore(m)] <= FirstDay[m]
        /\ FirstDay[m] + Length[m] <= FirstDay[MonthAfter(m)]
    BY <1>1, Neighbours, CalendarAssumption
  <2>2. FirstDay[m] \in Int /\ Length[m] \in Nat
    BY <1>1, CalendarAssumption
  <2>3. FirstDay[m] <= now /\ now < FirstDay[m] + Length[m] /\ now \in Int
    BY <1>1, <2>2 DEF DaysOf
  <2> QED BY <1>1, <2>1, <2>2, <2>3, InMonth
<1>3. \A k \in Months : at(k) \in Int
  BY InMonth
<1>4. \A k \in Months : \/ k = m \/ at(k) <= at(MonthBefore(m)) \/ at(MonthAfter(m)) <= at(k)
  BY <1>1, <1>3, Neighbours, Ordered
<1>5. CASE at(m) <= now
  <2>1. LastScheduledReset(day, now) = at(m) /\ NextScheduledReset(day, now) = at(MonthAfter(m))
    <3>1. ~(at(m) > now)
      BY <1>1, <1>2, <1>3, <1>5
    <3> QED BY <1>5, <3>1 DEF LastScheduledReset, NextScheduledReset, m
  <2>2. at(m) < at(MonthAfter(m)) /\ now < at(MonthAfter(m)) /\ at(MonthBefore(m)) < at(m)
    BY <1>1, <1>2, <1>3, <1>5, InMonth
  <2>3. \A k \in Months : ~(at(m) < at(k) /\ at(k) < at(MonthAfter(m)))
    BY <1>1, <1>3, <1>4, <2>2
  <2> QED BY <1>5, <2>1, <2>2, <2>3, InMonth DEF Adjacent
<1>6. CASE ~(at(m) <= now)
  <2>1. LastScheduledReset(day, now) = at(MonthBefore(m)) /\ NextScheduledReset(day, now) = at(m)
    <3>1. at(m) > now
      BY <1>1, <1>2, <1>3, <1>6
    <3> QED BY <1>6, <3>1 DEF LastScheduledReset, NextScheduledReset, m
  <2>2. at(MonthBefore(m)) <= now /\ now < at(m) /\ at(m) < at(MonthAfter(m))
    BY <1>1, <1>2, <1>3, <1>6, InMonth
  <2>3. \A k \in Months : ~(at(MonthBefore(m)) < at(k) /\ at(k) < at(m))
    BY <1>1, <1>3, <1>4, <2>2
  <2> QED BY <1>6, <2>1, <2>2, <2>3, InMonth DEF Adjacent
<1> QED BY <1>5, <1>6

\* The last and the next reset are resets of some month.
LEMMA ResetsOfMonths ==
    ASSUME NEW day \in 1..31, NEW now \in Dates
    PROVE  /\ \E m \in Months : LastScheduledReset(day, now) = ScheduledInMonth(m, day)
           /\ \E m \in Months : NextScheduledReset(day, now) = ScheduledInMonth(m, day)
           /\ LastScheduledReset(day, now) \in Int /\ NextScheduledReset(day, now) \in Int
           /\ now \in Int
<1>1. /\ MonthOf(now) \in Months
      /\ MonthBefore(MonthOf(now)) \in Months /\ MonthAfter(MonthOf(now)) \in Months
  BY MonthFound
<1>2. /\ \E m \in Months : LastScheduledReset(day, now) = ScheduledInMonth(m, day)
      /\ \E m \in Months : NextScheduledReset(day, now) = ScheduledInMonth(m, day)
  BY <1>1 DEF LastScheduledReset, NextScheduledReset
<1>3. now \in Int
  BY <1>1, MonthFound, CalendarAssumption DEF DaysOf
<1> QED BY <1>2, <1>3, InMonth

\* Cycles neither overlap nor leave a gap: an instant between the last and the next
\* reset of another has the same two around it.  A reset is therefore due once from
\* the last one to the next, whenever in between the sweep looks.  (reset.go:46-67)
THEOREM CyclesTile ==
    ASSUME NEW day \in 1..31, NEW now \in Dates, NEW then \in Dates,
           LastScheduledReset(day, now) <= then, then < NextScheduledReset(day, now)
    PROVE  /\ LastScheduledReset(day, then) = LastScheduledReset(day, now)
           /\ NextScheduledReset(day, then) = NextScheduledReset(day, now)
<1> DEFINE L(t) == LastScheduledReset(day, t)
           N(t) == NextScheduledReset(day, t)
<1>1. \A t \in {now, then} :
         /\ L(t) \in Int /\ N(t) \in Int /\ t \in Int /\ L(t) <= t /\ t < N(t)
         /\ \E m \in Months : L(t) = ScheduledInMonth(m, day)
         /\ \E m \in Months : N(t) = ScheduledInMonth(m, day)
  BY ResetsAdjacent, ResetsOfMonths DEF Adjacent
<1>2. ASSUME NEW t \in {now, then}, NEW r \in {L(now), L(then), N(now), N(then)}
      PROVE  ~(L(t) < r /\ r < N(t))
  <2>1. \E m \in Months : r = ScheduledInMonth(m, day)
    BY <1>1
  <2> QED BY <2>1, ResetsAdjacent DEF Adjacent
<1> HIDE DEF L, N
<1>3. L(now) <= then /\ then < N(now)
  BY DEF L, N
<1>4. L(then) = L(now)
  BY <1>1, <1>2, <1>3
<1>5. N(then) = N(now)
  BY <1>1, <1>2, <1>3
<1> QED BY <1>4, <1>5 DEF L, N
=============================================================================
