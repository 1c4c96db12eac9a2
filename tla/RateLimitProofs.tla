--------------------------- MODULE RateLimitProofs --------------------------
(***************************************************************************)
(* A limiter with any number of callers, addresses and tokens keeps its    *)
(* promise, provided a caller is not held up for as long as Ttl allows.    *)
(*                                                                         *)
(* The argument: a bucket stands for the attempts let through.  Attempt i  *)
(* of s and its successors are paid for at the time Owed(s, i); a bucket of *)
(* credit c at time l would be full at l + Full - c, and that is the latest *)
(* of these times.  A bucket that is not there stands for attempts that were *)
(* all paid for before any caller still waiting read its clock.            *)
(***************************************************************************)
EXTENDS RateLimit, SequenceTheorems, TLAPS

Owed(s, i) == s[i] + Per * (Len(s) - i + 1)

Fits(s, l, c) ==
    /\ c <= Full
    /\ \A i \in DOMAIN s : s[i] <= l + Delay /\ Owed(s, i) <= l + Full - c
    /\ \E i \in DOMAIN s : Owed(s, i) = l + Full - c

Timely ==
    /\ clock <= MaxTime
    /\ \A p \in Callers : key[p] # NoKey =>
          now[p] \in 0..MaxTime /\ now[p] <= clock /\ clock <= now[p] + Delay
    /\ \A k \in Keys : \A i \in DOMAIN granted[k] : granted[k][i] <= clock

BucketsFit == \A k \in known : Fits(granted[k], last[k], credit[k])

ForgottenPaid ==
    \A k \in Keys \ known : \A i \in DOMAIN granted[k] : Owed(granted[k], i) <= clock - Delay

IInv == LimiterTypeOK /\ Timely /\ Conforms /\ BucketsFit /\ ForgottenPaid

-----------------------------------------------------------------------------
\* A bucket holds a token at least.
LEMMA FullBounds == Full \in Nat /\ Per <= Full
  <1>1. Burst >= 1 /\ Per >= 1 /\ Burst \in Nat /\ Per \in Nat
    BY LimiterAssumption
  <1>2. PICK b \in Nat : Burst = b + 1
    <2>1. Burst - 1 \in Nat /\ Burst = (Burst - 1) + 1
      BY <1>1
    <2> QED BY <2>1
  <1>3. b * Per \in Nat
    BY <1>1
  <1>4. Burst * Per = b * Per + Per
    BY <1>1, <1>2
  <1> QED BY <1>1, <1>3, <1>4 DEF Full

\* What is owed is a time.
LEMMA OwedType ==
    ASSUME NEW s \in Seq(Nat), NEW i \in DOMAIN s
    PROVE  Owed(s, i) \in Int
  <1>1. s[i] \in Nat /\ Len(s) \in Nat /\ i \in Nat
    OBVIOUS
  <1>2. Per \in Nat
    BY LimiterAssumption
  <1> QED BY <1>1, <1>2 DEF Owed

\* One attempt more moves every payment back by Per.
LEMMA OwedAppend ==
    ASSUME NEW s \in Seq(Nat), NEW t \in Nat
    PROVE  /\ DOMAIN Append(s, t) = 1..(Len(s) + 1)
           /\ Append(s, t) \in Seq(Nat)
           /\ \A i \in DOMAIN s : /\ i \in DOMAIN Append(s, t)
                                  /\ Append(s, t)[i] = s[i]
                                  /\ Owed(Append(s, t), i) = Owed(s, i) + Per
           /\ Append(s, t)[Len(s) + 1] = t
           /\ Owed(Append(s, t), Len(s) + 1) = t + Per
  <1> DEFINE a == Append(s, t)
  <1>1. Len(s) \in Nat /\ DOMAIN s = 1..Len(s) /\ Len(a) = Len(s) + 1 /\ DOMAIN a = 1..(Len(s) + 1)
        /\ a \in Seq(Nat)
    OBVIOUS
  <1>2. a[Len(s) + 1] = t /\ \A i \in DOMAIN s : i \in DOMAIN a /\ a[i] = s[i]
    BY <1>1
  <1>3. Per \in Nat
    BY LimiterAssumption
  <1>4. ASSUME NEW x \in Int PROVE Per * (x + 1) = Per * x + Per
    BY <1>3
  <1>5. ASSUME NEW i \in DOMAIN s PROVE Owed(a, i) = Owed(s, i) + Per
    <2>1. Len(s) - i + 1 \in Int /\ Len(a) - i + 1 = (Len(s) - i + 1) + 1
      BY <1>1
    <2>2. Per * (Len(a) - i + 1) = Per * (Len(s) - i + 1) + Per
      BY <1>4, <2>1
    <2>3. s[i] \in Nat /\ Per * (Len(s) - i + 1) \in Int
      BY <1>3, <2>1
    <2>4. Owed(a, i) = a[i] + Per * (Len(a) - i + 1) /\ Owed(s, i) = s[i] + Per * (Len(s) - i + 1)
      BY DEF Owed
    <2>5. a[i] = s[i]
      BY <1>2
    <2> HIDE DEF a
    <2> QED BY <1>3, <2>2, <2>3, <2>4, <2>5
  <1>6. Owed(a, Len(s) + 1) = t + Per
    <2>1. Len(a) - (Len(s) + 1) + 1 = 1
      BY <1>1
    <2>2. Per * 1 = Per
      BY <1>3
    <2> QED BY <1>2, <2>1, <2>2 DEF Owed
  <1> QED BY <1>1, <1>2, <1>5, <1>6

\* What conforming to the promise means for one attempt more.
LEMMA ConformingAppend ==
    ASSUME NEW s \in Seq(Nat), NEW t \in Nat, Promise!Conforming(s)
    PROVE  Promise!Conforming(Append(s, t))
             <=> \A i \in DOMAIN s : Owed(s, i) + Per <= Full + t
  <1> DEFINE a == Append(s, t)
  <1>1. Len(s) \in Nat /\ DOMAIN s = 1..Len(s) /\ DOMAIN a = 1..(Len(s) + 1)
    OBVIOUS
  <1>2. /\ a[Len(s) + 1] = t
        /\ \A i \in DOMAIN s : a[i] = s[i] /\ Owed(a, i) = Owed(s, i) + Per
    BY OwedAppend
  <1>3. Per \in Nat /\ Full \in Nat /\ Per <= Full
    BY LimiterAssumption, FullBounds
  <1>4. ASSUME NEW i \in DOMAIN s
        PROVE  (((Len(s) + 1) - i + 1) * Per <= Full + a[Len(s) + 1] - a[i])
                 <=> (Owed(s, i) + Per <= Full + t)
    <2>1. i \in Nat /\ s[i] \in Nat /\ a[i] = s[i]
      BY <1>1, <1>2
    <2>2. ((Len(s) + 1) - i + 1) * Per = Per * (Len(s) - i + 1) + Per
      BY <1>1, <1>3, <2>1
    <2>3. Per * (Len(s) - i + 1) \in Int
      BY <1>1, <1>3, <2>1
    <2>4. Owed(s, i) = s[i] + Per * (Len(s) - i + 1)
      BY DEF Owed
    <2> DEFINE u == ((Len(s) + 1) - i + 1) * Per
               w == Per * (Len(s) - i + 1)
    <2>5. u = w + Per /\ w \in Int /\ Owed(s, i) = s[i] + w
      BY <2>2, <2>3, <2>4
    <2>6. a[Len(s) + 1] = t /\ a[i] = s[i]
      BY <1>2
    <2> HIDE DEF a, u, w
    <2>7. ASSUME NEW F \in Nat, NEW P \in Nat, NEW x \in Nat, NEW y \in Int
          PROVE  (y + P <= F + t - x) <=> ((x + y) + P <= F + t)
      OBVIOUS
    <2>8. (w + Per <= Full + t - s[i]) <=> ((s[i] + w) + Per <= Full + t)
      BY <1>3, <2>1, <2>5, <2>7
    <2> QED BY <2>5, <2>6, <2>8 DEF u
  <1>5. ASSUME Promise!Conforming(a), NEW i \in DOMAIN s
        PROVE  Owed(s, i) + Per <= Full + t
    <2>1. i \in DOMAIN a /\ Len(s) + 1 \in DOMAIN a /\ i <= Len(s) + 1
      BY <1>1
    <2>2. ((Len(s) + 1) - i + 1) * Per <= Full + a[Len(s) + 1] - a[i]
      BY <1>5, <2>1 DEF Promise!Conforming
    <2> QED BY <1>4, <2>2
  <1>6. ASSUME \A i \in DOMAIN s : Owed(s, i) + Per <= Full + t,
               NEW i \in DOMAIN a, NEW j \in DOMAIN a, i <= j
        PROVE  (j - i + 1) * Per <= Full + a[j] - a[i]
    <2>1. CASE j \in DOMAIN s
      <3>1. i \in DOMAIN s
        BY <1>1, <1>6, <2>1
      <3> QED BY <1>2, <1>6, <2>1, <3>1 DEF Promise!Conforming
    <2>2. CASE j = Len(s) + 1 /\ i \in DOMAIN s
      BY <1>4, <1>6, <2>2
    <2>3. CASE j = Len(s) + 1 /\ i = Len(s) + 1
      <3>1. (j - i + 1) * Per = Per
        BY <1>1, <1>3, <2>3
      <3> QED BY <1>2, <1>3, <2>3, <3>1
    <2> QED BY <1>1, <1>6, <2>1, <2>2, <2>3
  <1> QED BY <1>5, <1>6 DEF Promise!Conforming

-----------------------------------------------------------------------------
(***************************************************************************)
(* One call.                                                               *)
(***************************************************************************)

\* A bucket that is swept, or was, stands for attempts that are paid for.
LEMMA SweptIsPaid ==
    ASSUME IInv, NEW p \in Callers, key[p] # NoKey, NEW k \in Swept(now[p]),
           NEW i \in DOMAIN granted[k]
    PROVE  Owed(granted[k], i) <= now[p] - Delay
  <1> DEFINE s == granted[k]
             t == now[p]
  <1>1. k \in known /\ k \in Keys /\ t - last[k] > Ttl
    BY DEF Swept, IInv, LimiterTypeOK
  <1>2. /\ s \in Seq(Nat) /\ last[k] \in Nat /\ t \in Nat
        /\ Per \in Nat /\ Delay \in Nat /\ Ttl \in Nat /\ Full \in Nat
    BY <1>1, LimiterAssumption, FullBounds DEF IInv, LimiterTypeOK
  <1>3. Full + 2 * Delay <= Ttl
    BY LimiterAssumption
  <1>4. Len(s) \in Nat /\ DOMAIN s = 1..Len(s) /\ i \in Nat /\ i <= Len(s) /\ Len(s) \in DOMAIN s
        /\ s[i] \in Nat /\ s[Len(s)] \in Nat
    BY <1>2
  <1>5. (Len(s) - i + 1) * Per <= Full + s[Len(s)] - s[i]
    BY <1>1, <1>4 DEF IInv, Conforms, Promise!Conforming
  <1>6. s[Len(s)] <= last[k] + Delay
    BY <1>1, <1>4 DEF IInv, BucketsFit, Fits
  <1>7. Owed(s, i) = s[i] + (Len(s) - i + 1) * Per
    BY <1>2, <1>4 DEF Owed
  <1> DEFINE w == (Len(s) - i + 1) * Per
  <1>8. w \in Int /\ w <= Full + s[Len(s)] - s[i] /\ Owed(s, i) = s[i] + w
    BY <1>2, <1>4, <1>5, <1>7
  <1> HIDE DEF w
  <1>9. Owed(s, i) <= Full + s[Len(s)]
    BY <1>2, <1>4, <1>8
  <1> HIDE DEF s, t
  <1>10. Owed(s, i) \in Int
    BY <1>4, <1>8
  <1>11. Owed(s, i) <= t - Delay
    BY <1>1, <1>2, <1>3, <1>4, <1>6, <1>9, <1>10
  <1> QED BY <1>11 DEF s, t

\* An address without a bucket has nothing left to pay when p asks for it.
LEMMA NewIsPaid ==
    ASSUME IInv, NEW p \in Callers, key[p] # NoKey,
           NEW k \in Keys, k \notin known \ Swept(now[p]), NEW i \in DOMAIN granted[k]
    PROVE  Owed(granted[k], i) <= now[p]
  <1>1. now[p] \in Nat /\ Delay \in Nat /\ clock \in Nat /\ granted[k] \in Seq(Nat)
        /\ clock <= now[p] + Delay
    BY LimiterAssumption DEF IInv, LimiterTypeOK, Timely
  <1>2. Owed(granted[k], i) \in Int
    BY <1>1, OwedType
  <1>3. CASE k \in Swept(now[p])
    <2>1. Owed(granted[k], i) <= now[p] - Delay
      BY <1>3, SweptIsPaid
    <2> QED BY <1>1, <1>2, <2>1
  <1>4. CASE k \notin known
    <2>1. Owed(granted[k], i) <= clock - Delay
      BY <1>4 DEF IInv, ForgottenPaid
    <2> QED BY <1>1, <1>2, <2>1
  <1> QED BY <1>3, <1>4

\* Spending from a new bucket, when all that came before is paid for.
LEMMA NewBucketSpend ==
    ASSUME NEW s \in Seq(Nat), NEW t \in Nat, Promise!Conforming(s),
           \A i \in DOMAIN s : s[i] <= t + Delay /\ Owed(s, i) <= t
    PROVE  Promise!Conforming(Append(s, t)) /\ Fits(Append(s, t), t, Full - Per)
  <1> DEFINE a == Append(s, t)
  <1>1. Per \in Nat /\ Full \in Nat /\ Per <= Full /\ Delay \in Nat
    BY LimiterAssumption, FullBounds
  <1>2. Promise!Conforming(a) <=> \A i \in DOMAIN s : Owed(s, i) + Per <= Full + t
    BY ConformingAppend
  <1>3. /\ DOMAIN a = 1..(Len(s) + 1) /\ Len(s) \in Nat /\ DOMAIN s = 1..Len(s)
        /\ \A i \in DOMAIN s : i \in DOMAIN a /\ a[i] = s[i] /\ Owed(a, i) = Owed(s, i) + Per
        /\ a[Len(s) + 1] = t /\ Owed(a, Len(s) + 1) = t + Per
    BY OwedAppend
  <1>4. ASSUME NEW i \in DOMAIN s
        PROVE  Owed(s, i) + Per <= Full + t /\ Owed(s, i) + Per <= t + Per
    <2>1. Owed(s, i) \in Int /\ Owed(s, i) <= t
      BY OwedType
    <2> QED BY <1>1, <2>1
  <1> HIDE DEF a
  <1>5. t + Full - (Full - Per) = t + Per /\ Full - Per <= Full /\ t <= t + Delay /\ t + Per <= t + Per
    BY <1>1
  <1>6. ASSUME NEW i \in DOMAIN a
        PROVE  a[i] <= t + Delay /\ Owed(a, i) <= t + Per
    <2>1. CASE i \in DOMAIN s
      BY <1>3, <1>4, <2>1
    <2>2. CASE i = Len(s) + 1
      BY <1>3, <1>5, <2>2
    <2> QED BY <1>3, <2>1, <2>2
  <1>7. Len(s) + 1 \in DOMAIN a
    BY <1>3
  <1>8. Fits(a, t, Full - Per)
    BY <1>3, <1>5, <1>6, <1>7 DEF Fits
  <1> QED BY <1>2, <1>4, <1>8 DEF a

\* Spending from a bucket that fits: there is a token exactly when one attempt
\* more conforms, and the bucket fits afterwards.
LEMMA BucketSpend ==
    ASSUME NEW s \in Seq(Nat), NEW t \in Nat, NEW l \in Nat, NEW b \in Int,
           Promise!Conforming(s), Fits(s, l, b),
           \A i \in DOMAIN s : s[i] <= t + Delay,
           NEW c \in Int, c = Lesser(Full, b + t - l)
    PROVE  /\ (c >= Per) <=> Promise!Conforming(Append(s, t))
           /\ c >= Per => Fits(Append(s, t), t, c - Per)
           /\ ~(c >= Per) => Fits(s, t, c)
  <1> DEFINE a == Append(s, t)
             d == l + Full - b
             r == b + t - l
  <1>1. Per \in Nat /\ Full \in Nat /\ Per <= Full /\ Delay \in Nat
    BY LimiterAssumption, FullBounds
  <1>2. d \in Int /\ r \in Int /\ d = t + Full - r
    BY <1>1
  <1>3. Promise!Conforming(a) <=> \A i \in DOMAIN s : Owed(s, i) + Per <= Full + t
    BY ConformingAppend
  <1>4. /\ DOMAIN a = 1..(Len(s) + 1) /\ Len(s) \in Nat /\ DOMAIN s = 1..Len(s)
        /\ \A i \in DOMAIN s : i \in DOMAIN a /\ a[i] = s[i] /\ Owed(a, i) = Owed(s, i) + Per
        /\ a[Len(s) + 1] = t /\ Owed(a, Len(s) + 1) = t + Per
    BY OwedAppend
  <1>5. /\ b <= Full
        /\ \A i \in DOMAIN s : Owed(s, i) <= d
        /\ \E i \in DOMAIN s : Owed(s, i) = d
    BY DEF Fits
  <1>6. \A i \in DOMAIN s : Owed(s, i) \in Int
    BY OwedType
  <1>7. PICK e \in DOMAIN s : Owed(s, e) = d
    BY <1>5
  <1>8. c = Lesser(Full, r)
    OBVIOUS
  <1> HIDE DEF a, d, r
  <1>9. c <= Full /\ c <= r /\ (c = Full \/ c = r)
    BY <1>1, <1>2, <1>8 DEF Lesser
  <1>10. (c >= Per) <=> (d + Per <= Full + t)
    BY <1>1, <1>2, <1>9
  <1>11. (d + Per <= Full + t) <=> Promise!Conforming(a)
    <2>1. ASSUME d + Per <= Full + t, NEW i \in DOMAIN s
          PROVE  Owed(s, i) + Per <= Full + t
      <3>1. Owed(s, i) \in Int /\ Owed(s, i) <= d
        BY <1>5, <1>6
      <3> QED BY <1>1, <1>2, <2>1, <3>1
    <2>2. ASSUME \A i \in DOMAIN s : Owed(s, i) + Per <= Full + t
          PROVE  d + Per <= Full + t
      BY <1>7, <2>2
    <2> QED BY <1>3, <2>1, <2>2
  <1>12. ASSUME ~(c >= Per) PROVE Fits(s, t, c)
    <2>1. c = r
      BY <1>1, <1>9, <1>12
    <2>2. t + Full - c = d
      BY <1>1, <1>2, <2>1
    <2> QED BY <1>5, <1>9, <2>2 DEF Fits
  <1>13. ASSUME c >= Per PROVE Fits(a, t, c - Per)
    <2> DEFINE f == t + Full - (c - Per)
    <2>0. f = t + Full - (c - Per) /\ r \in Int /\ c \in Int
      BY <1>2
    <2> HIDE DEF f
    <2>1. f \in Int /\ c - Per <= Full
      <3>1. f = t + Full - (c - Per) /\ c <= Full /\ Per \in Nat /\ Full \in Nat
        BY <1>1, <1>9, <2>0
      <3> QED BY <3>1, SMTT(30)
    <2>2. d + Per <= f /\ t + Per <= f /\ (d + Per = f \/ t + Per = f)
      <3>1. CASE c = Full
        <4>1. t + Per = f
          BY <1>1, <2>0, <3>1
        <4>2. Full <= r
          BY <1>9, <3>1
        <4>3. d + Per <= f
          BY <1>1, <1>2, <2>0, <4>1, <4>2
        <4> QED BY <1>1, <2>1, <4>1, <4>3
      <3>2. CASE c = r
        <4>0. d = t + Full - c
          BY <1>2, <3>2
        <4>1. d + Per = f
          BY <1>1, <2>0, <4>0
        <4>2. t + Per <= f
          BY <1>1, <1>9, <2>0, <2>1
        <4> QED BY <1>1, <2>1, <4>1, <4>2
      <3> QED BY <1>9, <3>1, <3>2
    <2>3. ASSUME NEW i \in DOMAIN a
          PROVE  a[i] <= t + Delay /\ Owed(a, i) <= f
      <3>1. CASE i \in DOMAIN s
        <4>1. Owed(s, i) \in Int /\ Owed(s, i) <= d
          BY <1>5, <1>6, <3>1
        <4>2. Owed(s, i) + Per <= f
          BY <1>1, <1>2, <2>1, <2>2, <4>1
        <4> QED BY <1>4, <3>1, <4>2
      <3>2. CASE i = Len(s) + 1
        <4>1. t <= t + Delay
          BY <1>1
        <4> QED BY <1>4, <2>2, <3>2, <4>1
      <3> QED BY <1>4, <3>1, <3>2
    <2>4. \E i \in DOMAIN a : Owed(a, i) = f
      <3>1. CASE d + Per = f
        <4>1. e \in DOMAIN a /\ Owed(a, e) = f
          BY <1>4, <1>7, <3>1
        <4> QED BY <4>1
      <3>2. CASE t + Per = f
        <4>1. Len(s) + 1 \in DOMAIN a /\ Owed(a, Len(s) + 1) = f
          BY <1>4, <3>2
        <4> QED BY <4>1
      <3> QED BY <2>2, <3>1, <3>2
    <2> QED BY <2>1, <2>3, <2>4 DEF Fits, f
  <1> QED BY <1>10, <1>11, <1>12, <1>13 DEF a

\* What Allow does to the bucket of the address that is asked for.
LEMMA AllowIsFair ==
    ASSUME IInv, NEW p \in Callers, NEW k \in Keys, key[p] = k
    PROVE  /\ Refilled(k, now[p]) \in Int
           /\ (Refilled(k, now[p]) >= Per) <=> Promise!Conforming(Append(granted[k], now[p]))
           /\ Refilled(k, now[p]) >= Per => Fits(Append(granted[k], now[p]), now[p], Refilled(k, now[p]) - Per)
           /\ ~(Refilled(k, now[p]) >= Per) => Fits(granted[k], now[p], Refilled(k, now[p]))
  <1>1. /\ now[p] \in Nat /\ granted[k] \in Seq(Nat) /\ clock \in Nat /\ clock <= now[p] + Delay
        /\ credit[k] \in Int /\ last[k] \in Nat /\ key[p] # NoKey
        /\ Promise!Conforming(granted[k])
    BY LimiterAssumption DEF IInv, LimiterTypeOK, Timely, Conforms
  <1>2. Per \in Nat /\ Full \in Nat /\ Per <= Full /\ Delay \in Nat
    BY LimiterAssumption, FullBounds
  <1>3. ASSUME NEW i \in DOMAIN granted[k] PROVE granted[k][i] <= now[p] + Delay
    <2>1. granted[k][i] \in Nat /\ granted[k][i] <= clock
      BY <1>1 DEF IInv, Timely
    <2>2. ASSUME NEW x \in Nat, NEW y \in Nat, NEW z \in Nat, NEW D \in Nat, x <= y, y <= z + D
          PROVE  x <= z + D
      BY <2>2
    <2> QED BY <1>1, <1>2, <2>1, <2>2
  <1>4. CASE k \notin known \ Swept(now[p])
    <2>1. Refilled(k, now[p]) = Full
      BY <1>4 DEF Refilled
    <2>2. \A i \in DOMAIN granted[k] : Owed(granted[k], i) <= now[p]
      BY <1>1, <1>4, NewIsPaid
    <2>3. Promise!Conforming(Append(granted[k], now[p])) /\ Fits(Append(granted[k], now[p]), now[p], Full - Per)
      BY <1>1, <1>3, <2>2, NewBucketSpend
    <2>4. Full \in Int /\ Full >= Per
      BY <1>2
    <2> QED BY <2>1, <2>3, <2>4
  <1>5. CASE k \in known \ Swept(now[p])
    <2>1. Refilled(k, now[p]) = Lesser(Full, credit[k] + now[p] - last[k])
      BY <1>5 DEF Refilled
    <2> DEFINE r == credit[k] + now[p] - last[k]
    <2>2. r \in Int /\ Full \in Int
      BY <1>1, <1>2
    <2> HIDE DEF r
    <2>3. Refilled(k, now[p]) \in Int
      <3>1. Refilled(k, now[p]) = Lesser(Full, r)
        BY <2>1 DEF r
      <3> QED BY <2>2, <3>1 DEF Lesser
    <2>4. Fits(granted[k], last[k], credit[k])
      BY <1>5 DEF IInv, BucketsFit
    <2> QED BY <1>1, <1>3, <2>1, <2>3, <2>4, BucketSpend
  <1> QED BY <1>4, <1>5

-----------------------------------------------------------------------------
(***************************************************************************)
(* The invariant.                                                          *)
(***************************************************************************)

LEMMA InitIInv == LimiterInit => IInv
  <1> SUFFICES ASSUME LimiterInit PROVE IInv
    OBVIOUS
  <1>1. \A k \in Keys : granted[k] = <<>> /\ DOMAIN granted[k] = {}
    BY DEF LimiterInit
  <1>2. Ttl \in Nat /\ MaxTime \in Nat
    BY LimiterAssumption
  <1>3. LimiterTypeOK
    <2>1. -(Ttl + 1) \in Int
      BY <1>2
    <2>2. \A k \in Keys : credit[k] <= Full
      BY FullBounds DEF LimiterInit
    <2> QED BY <2>1, <2>2 DEF LimiterInit, LimiterTypeOK
  <1>4. Timely
    BY <1>1, <1>2 DEF LimiterInit, Timely
  <1>5. Conforms
    BY <1>1 DEF Conforms, Promise!Conforming
  <1>6. BucketsFit
    BY DEF BucketsFit, LimiterInit
  <1>7. ForgottenPaid
    BY <1>1 DEF ForgottenPaid
  <1> QED BY <1>3, <1>4, <1>5, <1>6, <1>7 DEF IInv

\* A caller that waits for the lock is waited for.
LEMMA TickIInv == IInv /\ Tick => IInv'
  <1> SUFFICES ASSUME IInv, Tick PROVE IInv'
    OBVIOUS
  <1> USE DEF Tick, bucketVars
  <1>1. clock \in Nat /\ clock' = clock + 1 /\ clock' \in Nat /\ clock <= clock' /\ Delay \in Nat
        /\ MaxTime \in Nat /\ clock' <= MaxTime
    BY LimiterAssumption DEF IInv, LimiterTypeOK
  <1>2. LimiterTypeOK'
    BY <1>1 DEF IInv, LimiterTypeOK
  <1>3. ASSUME NEW p \in Callers, key[p] # NoKey
        PROVE  now[p] <= clock' /\ clock' <= now[p] + Delay
    <2>1. now[p] \in Nat /\ clock < now[p] + Delay /\ now[p] <= clock
      BY <1>3 DEF IInv, LimiterTypeOK, Timely
    <2> QED BY <1>1, <2>1
  <1>4. ASSUME NEW k \in Keys, NEW i \in DOMAIN granted[k]
        PROVE  granted[k][i] <= clock'
    <2>1. granted[k] \in Seq(Nat) /\ granted[k][i] \in Nat /\ granted[k][i] <= clock
      BY DEF IInv, LimiterTypeOK, Timely
    <2> QED BY <1>1, <2>1
  <1>5. Timely'
    BY <1>1, <1>3, <1>4 DEF IInv, Timely
  <1>6. Conforms' /\ BucketsFit'
    BY DEF IInv, Conforms, BucketsFit, Fits, Owed, Promise!Conforming
  <1>7. ForgottenPaid'
    <2> SUFFICES ASSUME NEW k \in Keys \ known, NEW i \in DOMAIN granted[k]
                 PROVE  Owed(granted[k], i) <= clock' - Delay
      BY DEF ForgottenPaid, Owed
    <2>1. Owed(granted[k], i) \in Int
      BY OwedType DEF IInv, LimiterTypeOK
    <2>2. Owed(granted[k], i) <= clock - Delay
      BY DEF IInv, ForgottenPaid
    <2> QED BY <1>1, <2>1, <2>2
  <1> QED BY <1>2, <1>5, <1>6, <1>7 DEF IInv

LEMMA ReadClockIInv ==
    ASSUME IInv, NEW p \in Callers, NEW k \in Keys, ReadClock(p, k)
    PROVE  IInv'
  <1> USE DEF ReadClock, bucketVars
  <1>1. LimiterTypeOK'
    BY DEF IInv, LimiterTypeOK
  <1>2. clock \in Nat /\ clock \in 0..MaxTime /\ clock <= clock + Delay /\ clock <= clock
    BY LimiterAssumption DEF IInv, LimiterTypeOK, Timely
  <1>3. ASSUME NEW q \in Callers, key'[q] # NoKey
        PROVE  now'[q] \in 0..MaxTime /\ now'[q] <= clock /\ clock <= now'[q] + Delay
    <2>1. CASE q = p
      BY <1>2, <2>1 DEF IInv, LimiterTypeOK
    <2>2. CASE q # p
      BY <1>3, <2>2 DEF IInv, LimiterTypeOK, Timely
    <2> QED BY <2>1, <2>2
  <1>4. Timely'
    BY <1>3 DEF IInv, Timely
  <1>5. Conforms' /\ BucketsFit' /\ ForgottenPaid'
    BY DEF IInv, Conforms, BucketsFit, ForgottenPaid, Fits, Owed, Promise!Conforming
  <1> QED BY <1>1, <1>4, <1>5 DEF IInv

LEMMA ReturnsIInv ==
    ASSUME IInv, NEW p \in Callers, Returns(p)
    PROVE  IInv'
  <1> USE DEF Returns, bucketVars
  <1>1. LimiterTypeOK'
    BY DEF IInv, LimiterTypeOK
  <1>2. Timely' /\ Conforms' /\ BucketsFit' /\ ForgottenPaid'
    BY DEF IInv, Timely, Conforms, BucketsFit, ForgottenPaid, Fits, Owed, Promise!Conforming
  <1> QED BY <1>1, <1>2 DEF IInv

LEMMA RestartIInv == LimiterRestarts => IInv'
  <1> SUFFICES ASSUME LimiterRestarts PROVE IInv'
    OBVIOUS
  <1>1. \A k \in Keys : granted'[k] = <<>> /\ DOMAIN granted'[k] = {}
    BY DEF LimiterRestarts
  <1>2. Ttl \in Nat /\ MaxTime \in Nat
    BY LimiterAssumption
  <1>3. LimiterTypeOK'
    <2>1. -(Ttl + 1) \in Int
      BY <1>2
    <2>2. \A k \in Keys : credit'[k] <= Full
      BY FullBounds DEF LimiterRestarts
    <2> QED BY <2>1, <2>2 DEF LimiterRestarts, LimiterTypeOK
  <1>4. Timely'
    BY <1>1, <1>2 DEF LimiterRestarts, Timely
  <1>5. Conforms'
    BY <1>1 DEF Conforms, Promise!Conforming
  <1>6. BucketsFit'
    BY DEF BucketsFit, LimiterRestarts
  <1>7. ForgottenPaid'
    BY <1>1 DEF ForgottenPaid
  <1> QED BY <1>3, <1>4, <1>5, <1>6, <1>7 DEF IInv

LEMMA AllowIInv ==
    ASSUME IInv, NEW p \in Callers, Allow(p)
    PROVE  IInv'
  <1> DEFINE k == key[p]
             t == now[p]
             c == Refilled(k, t)
  <1>1. k \in Keys /\ t \in Nat /\ t <= clock /\ clock \in Nat /\ clock' = clock
        /\ Per \in Nat /\ Delay \in Nat /\ granted[k] \in Seq(Nat)
    BY LimiterAssumption DEF Allow, IInv, LimiterTypeOK, Timely
  <1>2. /\ c \in Int
        /\ (c >= Per) <=> Promise!Conforming(Append(granted[k], t))
        /\ c >= Per => Fits(Append(granted[k], t), t, c - Per)
        /\ ~(c >= Per) => Fits(granted[k], t, c)
    BY <1>1, AllowIsFair
  <1>3. /\ known' = (known \ Swept(t)) \cup {k}
        /\ sweep' = IF t - sweep > Ttl THEN t ELSE sweep
        /\ credit' = [j \in Keys |-> IF j = k THEN IF c >= Per THEN c - Per ELSE c
                                     ELSE IF j \in Swept(t) THEN 0 ELSE credit[j]]
        /\ last' = [j \in Keys |-> IF j = k THEN t ELSE IF j \in Swept(t) THEN 0 ELSE last[j]]
        /\ granted' = IF c >= Per THEN [granted EXCEPT ![k] = Append(@, t)] ELSE granted
        /\ answer' = [answer EXCEPT ![p] = IF c >= Per THEN "yes" ELSE "no"]
        /\ key' = [key EXCEPT ![p] = NoKey]
        /\ now' = [now EXCEPT ![p] = 0]
    BY DEF Allow
  <1> HIDE DEF c, k, t
  <1>4. granted' \in [Keys -> Seq(Nat)] /\ (\A j \in Keys : j # k => granted'[j] = granted[j])
        /\ granted'[k] = IF c >= Per THEN Append(granted[k], t) ELSE granted[k]
    BY <1>1, <1>3 DEF IInv, LimiterTypeOK
  <1>5. LimiterTypeOK'
    <2>1. (IF c >= Per THEN c - Per ELSE c) \in Int
      BY <1>1, <1>2
    <2>2. credit' \in [Keys -> Int] /\ \A j \in Keys : credit'[j] <= Full
      <3>1. credit' \in [Keys -> Int]
        BY <1>3, <2>1 DEF IInv, LimiterTypeOK
      <3>2. (IF c >= Per THEN c - Per ELSE c) <= Full
        BY <1>2 DEF Fits
      <3>3. 0 <= Full
        BY FullBounds
      <3> QED BY <1>3, <3>1, <3>2, <3>3 DEF IInv, LimiterTypeOK
    <2>3. last' \in [Keys -> Nat]
      BY <1>1, <1>3 DEF IInv, LimiterTypeOK
    <2>4. sweep' \in Int /\ known' \in SUBSET Keys
      BY <1>1, <1>3 DEF IInv, LimiterTypeOK
    <2>5. key' \in [Callers -> Keys \cup {NoKey}] /\ now' \in [Callers -> Nat]
          /\ answer' \in [Callers -> {"none", "yes", "no"}]
      BY <1>3 DEF IInv, LimiterTypeOK
    <2> QED BY <1>1, <1>4, <2>2, <2>3, <2>4, <2>5 DEF LimiterTypeOK
  <1>6. Timely'
    <2>1. ASSUME NEW q \in Callers, key'[q] # NoKey
          PROVE  now'[q] \in 0..MaxTime /\ now'[q] <= clock /\ clock <= now'[q] + Delay
      <3>1. q # p
        BY <1>3, <2>1 DEF IInv, LimiterTypeOK
      <3> QED BY <1>3, <2>1, <3>1 DEF IInv, LimiterTypeOK, Timely
    <2>2. ASSUME NEW j \in Keys, NEW i \in DOMAIN granted'[j]
          PROVE  granted'[j][i] <= clock
      <3>1. CASE granted'[j] = granted[j]
        BY <2>2, <3>1 DEF IInv, Timely
      <3>2. CASE j = k /\ granted'[j] = Append(granted[k], t)
        <4>1. CASE i \in DOMAIN granted[k]
          BY <1>1, <3>2, <4>1, OwedAppend DEF IInv, Timely
        <4>2. CASE i = Len(granted[k]) + 1
          BY <1>1, <3>2, <4>2, OwedAppend
        <4>3. Len(granted[k]) \in Nat /\ DOMAIN granted[k] = 1..Len(granted[k])
              /\ i \in 1..(Len(granted[k]) + 1)
          <5>1. DOMAIN Append(granted[k], t) = 1..(Len(granted[k]) + 1)
            BY <1>1, OwedAppend
          <5> QED BY <1>1, <2>2, <3>2, <5>1
        <4> QED BY <4>1, <4>2, <4>3
      <3> QED BY <1>4, <3>1, <3>2
    <2> QED BY <1>1, <2>1, <2>2 DEF IInv, Timely
  <1>7. Conforms'
    <2> SUFFICES ASSUME NEW j \in Keys PROVE Promise!Conforming(granted'[j])
      BY DEF Conforms, Promise!Conforming
    <2>1. CASE granted'[j] = granted[j]
      BY <2>1 DEF IInv, Conforms
    <2>2. CASE j = k /\ c >= Per
      BY <1>2, <1>4, <2>2
    <2> QED BY <1>4, <2>1, <2>2
  <1>8. BucketsFit'
    <2> SUFFICES ASSUME NEW j \in known' PROVE Fits(granted'[j], last'[j], credit'[j])
      BY DEF BucketsFit, Fits, Owed
    <2>1. j \in Keys
      BY <1>5 DEF LimiterTypeOK
    <2>2. CASE j = k
      BY <1>1, <1>2, <1>3, <1>4, <2>2
    <2>3. CASE j # k
      <3>1. j \in known \ Swept(t)
        BY <1>3, <2>3
      <3>2. granted'[j] = granted[j] /\ last'[j] = last[j] /\ credit'[j] = credit[j]
        BY <1>3, <1>4, <2>1, <2>3, <3>1
      <3> QED BY <3>1, <3>2 DEF IInv, BucketsFit
    <2> QED BY <2>2, <2>3
  <1>9. ForgottenPaid'
    <2> SUFFICES ASSUME NEW j \in Keys \ known', NEW i \in DOMAIN granted'[j]
                 PROVE  Owed(granted'[j], i) <= clock - Delay
      BY <1>1 DEF ForgottenPaid, Owed
    <2>1. j # k /\ granted'[j] = granted[j]
      BY <1>3, <1>4
    <2>2. Owed(granted[j], i) \in Int
      BY <2>1, OwedType DEF IInv, LimiterTypeOK
    <2>3. CASE j \notin known
      BY <2>1, <2>3 DEF IInv, ForgottenPaid
    <2>4. CASE j \in Swept(t)
      <3>1. key[p] # NoKey
        BY DEF Allow
      <3>2. Owed(granted[j], i) <= t - Delay
        BY <2>1, <2>4, <3>1, SweptIsPaid DEF t
      <3> QED BY <1>1, <2>1, <2>2, <3>2
    <2> QED BY <1>3, <2>1, <2>3, <2>4
  <1> QED BY <1>5, <1>6, <1>7, <1>8, <1>9 DEF IInv

LEMMA StepIInv == IInv /\ [LimiterNext]_limiterVars => IInv'
  <1> SUFFICES ASSUME IInv, [LimiterNext]_limiterVars PROVE IInv'
    OBVIOUS
  <1>1. CASE Tick
    BY <1>1, TickIInv
  <1>2. ASSUME NEW p \in Callers, Allow(p) PROVE IInv'
    BY <1>2, AllowIInv
  <1>3. ASSUME NEW p \in Callers, Returns(p) PROVE IInv'
    BY <1>3, ReturnsIInv
  <1>4. ASSUME NEW p \in Callers, NEW k \in Keys, ReadClock(p, k) PROVE IInv'
    BY <1>4, ReadClockIInv
  <1>5. CASE LimiterRestarts
    BY <1>5, RestartIInv
  <1>6. CASE UNCHANGED limiterVars
    <2> USE <1>6 DEF limiterVars, bucketVars
    <2>1. LimiterTypeOK'
      BY DEF IInv, LimiterTypeOK
    <2>2. Timely' /\ Conforms'
      BY DEF IInv, Timely, Conforms, Promise!Conforming
    <2>3. BucketsFit' /\ ForgottenPaid'
      BY DEF IInv, BucketsFit, ForgottenPaid, Fits, Owed
    <2> QED BY <2>1, <2>2, <2>3 DEF IInv
  <1> QED BY <1>1, <1>2, <1>3, <1>4, <1>5, <1>6 DEF LimiterNext

-----------------------------------------------------------------------------
(***************************************************************************)
(* The promise.                                                            *)
(***************************************************************************)

LEMMA InitRefines == LimiterInit => Promise!ThrottleInit
  BY DEF LimiterInit, Promise!ThrottleInit

\* Every step of the limiter is one of the throttle, or none: Allow gives the
\* answer of one that remembers every attempt, the other calls are the same, and
\* the passing of time is nothing to a throttle.
LEMMA StepRefines ==
    IInv /\ [LimiterNext]_limiterVars => [Promise!ThrottleNext]_(Promise!throttleVars)
  <1> SUFFICES ASSUME IInv, [LimiterNext]_limiterVars
               PROVE  [Promise!ThrottleNext]_(Promise!throttleVars)
    OBVIOUS
  <1>1. CASE Tick
    BY <1>1 DEF Tick, Promise!throttleVars
  <1>2. ASSUME NEW p \in Callers, Allow(p)
        PROVE  Promise!IsAnswered(p)
    <2>1. key[p] \in Keys /\ key[p] # NoKey
      BY <1>2 DEF Allow, IInv, LimiterTypeOK
    <2>2. (Refilled(key[p], now[p]) >= Per)
            <=> Promise!Conforming(Append(granted[key[p]], now[p]))
      BY <2>1, AllowIsFair
    <2>3. /\ granted' = IF Refilled(key[p], now[p]) >= Per
                        THEN [granted EXCEPT ![key[p]] = Append(@, now[p])] ELSE granted
          /\ answer' = [answer EXCEPT ![p] = IF Refilled(key[p], now[p]) >= Per THEN "yes" ELSE "no"]
          /\ key' = [key EXCEPT ![p] = NoKey]
          /\ now' = [now EXCEPT ![p] = 0]
      BY <1>2 DEF Allow
    <2>4. [granted EXCEPT ![key[p]] = Append(@, now[p])]
            = [granted EXCEPT ![key[p]] = Append(granted[key[p]], now[p])]
      BY <2>1 DEF IInv, LimiterTypeOK
    <2> QED BY <2>1, <2>2, <2>3, <2>4 DEF Promise!IsAnswered
  <1>3. ASSUME NEW p \in Callers, Returns(p)
        PROVE  Promise!Leaves(p)
    BY <1>3 DEF Returns, Promise!Leaves
  <1>4. ASSUME NEW p \in Callers, NEW k \in Keys, ReadClock(p, k)
        PROVE  clock \in 0..MaxTime /\ Promise!Asks(p, k, clock)
    <2>1. clock \in 0..MaxTime
      BY LimiterAssumption DEF IInv, LimiterTypeOK, Timely
    <2> QED BY <1>4, <2>1 DEF ReadClock, Promise!Asks
  <1>5. CASE LimiterRestarts
    BY <1>5 DEF LimiterRestarts, Promise!Forgets, Promise!ThrottleNext
  <1>6. CASE UNCHANGED limiterVars
    BY <1>6 DEF limiterVars, Promise!throttleVars
  <1>7. ASSUME NEW p \in Callers, Allow(p) \/ Returns(p) \/ \E k \in Keys : ReadClock(p, k)
        PROVE  Promise!ThrottleNext
    BY <1>2, <1>3, <1>4, <1>7 DEF Promise!ThrottleNext
  <1> QED BY <1>1, <1>5, <1>6, <1>7 DEF LimiterNext, Promise!ThrottleNext

\* The types of the limiter, for any number of callers and addresses.
THEOREM LimiterTypes == LimiterSpec => []LimiterTypeOK
  <1>1. IInv => LimiterTypeOK
    BY DEF IInv
  <1> QED BY InitIInv, StepIInv, <1>1, PTL DEF LimiterSpec

\* No address is ever let through more often than burst and refill allow, through
\* sweeps, new buckets and calls served out of order (Allow, ratelimit.go:54-85).
THEOREM LimiterConforms == LimiterSpec => []Conforms
  <1>1. IInv => Conforms
    BY DEF IInv
  <1> QED BY InitIInv, StepIInv, <1>1, PTL DEF LimiterSpec

\* The limiter implements the throttle that remembers every attempt: forgetting an
\* idle bucket, and serving calls out of order, never changes an answer.
THEOREM LimiterKeepsPromise == LimiterSpec => KeepsPromise
  <1> QED BY InitIInv, StepIInv, InitRefines, StepRefines, PTL
          DEF LimiterSpec, KeepsPromise, Promise!ThrottleSpec
=============================================================================
