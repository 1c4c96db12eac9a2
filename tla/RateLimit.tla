------------------------------ MODULE RateLimit -----------------------------
(***************************************************************************)
(* internal/ratelimit: a token bucket per client address, with a sweep of  *)
(* idle buckets inside the call that asks.  A caller reads the clock before *)
(* it has the lock, so calls may be served out of the order of their times. *)
(*                                                                         *)
(* Time is counted in ticks, and a bucket in ticks as well: one token of    *)
(* the code is Per of credit, so that a tick adds one.                     *)
(***************************************************************************)
EXTENDS Integers, Sequences

CONSTANTS
    Callers,    \* requests that may be inside the limiter at one time
    Keys,       \* client addresses
    NoKey,      \* the address of a caller that is not asking
    Per,        \* ticks in which a token is refilled
    Burst,      \* tokens a bucket holds
    Ttl,        \* ticks after which an idle bucket is forgotten
    Delay,      \* ticks a caller may spend between the clock and the lock
    MaxTime     \* bound: the clock

Full == Burst * Per

\* A caller is never held up for as long as a bucket lives: 600 s against the
\* 180 s of hub.New(3, minute) and the 50 s of web.New(10, 5 s).
ASSUME LimiterAssumption ==
    /\ Per \in Nat \ {0}
    /\ Burst \in Nat \ {0}
    /\ Ttl \in Nat
    /\ Delay \in Nat
    /\ Full + 2 * Delay <= Ttl
    /\ MaxTime \in Nat
    /\ NoKey \notin Keys

VARIABLES
    clock,
    key,        \* key[p]: the address p asks for, NoKey when it is not asking
    now,        \* now[p]: the time p read
    known,      \* addresses that have a bucket
    credit,     \* bucket.tokens, in ticks
    last,       \* bucket.last
    sweep,      \* Limiter.sweep
    granted,    \* history: times of the attempts let through, by address
    answer      \* answer[p]: what Allow has told p, "none" before and after

bucketVars == <<known, credit, last, sweep>>
limiterVars == <<clock, key, now, bucketVars, granted, answer>>

Lesser(a, b) == IF a <= b THEN a ELSE b

LimiterTypeOK ==
    /\ clock \in Nat
    /\ key \in [Callers -> Keys \cup {NoKey}]
    /\ now \in [Callers -> Nat]
    /\ known \in SUBSET Keys
    /\ credit \in [Keys -> Int] /\ \A k \in Keys : credit[k] <= Full
    /\ last \in [Keys -> Nat]
    /\ sweep \in Int
    /\ granted \in [Keys -> Seq(Nat)]
    /\ answer \in [Callers -> {"none", "yes", "no"}]

\* The zero time of a new Limiter is longer ago than any ttl.
LimiterInit ==
    /\ clock = 0
    /\ key = [p \in Callers |-> NoKey]
    /\ now = [p \in Callers |-> 0]
    /\ known = {}
    /\ credit = [k \in Keys |-> 0]
    /\ last = [k \in Keys |-> 0]
    /\ sweep = -(Ttl + 1)
    /\ granted = [k \in Keys |-> <<>>]
    /\ answer = [p \in Callers |-> "none"]

\* Time passes, but not past the delay of somebody who waits for the lock.
Tick ==
    /\ clock < MaxTime
    /\ \A p \in Callers : key[p] # NoKey => clock < now[p] + Delay
    /\ clock' = clock + 1
    /\ UNCHANGED <<key, now, bucketVars, granted, answer>>

\* The caller evaluates time.Now() and ClientIP, and goes for the lock.
ReadClock(p, k) ==
    /\ key[p] = NoKey
    /\ answer[p] = "none"
    /\ key' = [key EXCEPT ![p] = k]
    /\ now' = [now EXCEPT ![p] = clock]
    /\ UNCHANGED <<clock, bucketVars, granted, answer>>

\* Mutant of Swept: every bucket is forgotten, idle or not.
SweptAll(t) == IF t - sweep > Ttl THEN known ELSE {}

\* Idle buckets, if it is time to look for them.
Swept(t) == IF t - sweep > Ttl THEN {k \in known : t - last[k] > Ttl} ELSE {}

\* Mutant of Refilled: the refill is not capped at the burst.
RefilledUncapped(k, t) ==
    IF k \in known \ Swept(t) THEN credit[k] + t - last[k] ELSE Full

\* Mutant of Refilled: only whole tokens are refilled, the rest of the time is lost.
RefilledWhole(k, t) ==
    IF k \in known \ Swept(t) THEN Lesser(Full, credit[k] + Per * ((t - last[k]) \div Per)) ELSE Full

\* The credit of k at time t; a new bucket is full.
Refilled(k, t) ==
    IF k \in known \ Swept(t) THEN Lesser(Full, credit[k] + t - last[k]) ELSE Full

\* Allow, under the lock: sweep, find or make the bucket, refill, spend.
Allow(p) ==
    /\ key[p] # NoKey
    /\ LET t == now[p]
           k == key[p]
           ok == Refilled(k, t) >= Per
       IN  /\ known' = (known \ Swept(t)) \cup {k}
           /\ sweep' = IF t - sweep > Ttl THEN t ELSE sweep
           /\ credit' = [j \in Keys |-> IF j = k THEN IF ok THEN Refilled(k, t) - Per ELSE Refilled(k, t)
                                        ELSE IF j \in Swept(t) THEN 0 ELSE credit[j]]
           /\ last' = [j \in Keys |-> IF j = k THEN t ELSE IF j \in Swept(t) THEN 0 ELSE last[j]]
           /\ granted' = IF ok THEN [granted EXCEPT ![k] = Append(@, t)] ELSE granted
           /\ answer' = [answer EXCEPT ![p] = IF ok THEN "yes" ELSE "no"]
    /\ key' = [key EXCEPT ![p] = NoKey]
    /\ now' = [now EXCEPT ![p] = 0]
    /\ UNCHANGED clock

\* The caller has its answer.
Returns(p) ==
    /\ answer[p] # "none"
    /\ answer' = [answer EXCEPT ![p] = "none"]
    /\ UNCHANGED <<clock, key, now, bucketVars, granted>>

\* Another process, with no buckets, and a clock of its own.
LimiterRestarts ==
    /\ key' = [p \in Callers |-> NoKey]
    /\ now' = [p \in Callers |-> 0]
    /\ known' = {}
    /\ credit' = [k \in Keys |-> 0]
    /\ last' = [k \in Keys |-> 0]
    /\ sweep' = -(Ttl + 1)
    /\ granted' = [k \in Keys |-> <<>>]
    /\ answer' = [p \in Callers |-> "none"]
    /\ clock' = 0

LimiterNext ==
    \/ Tick
    \/ \E p \in Callers : Allow(p) \/ Returns(p) \/ \E k \in Keys : ReadClock(p, k)
    \/ LimiterRestarts

LimiterSpec == LimiterInit /\ [][LimiterNext]_limiterVars

-----------------------------------------------------------------------------
Promise == INSTANCE Throttle WITH Times <- 0..MaxTime

\* No stretch of attempts let through for an address is longer than the burst
\* and the refill between its first and its last allow, through sweeps, buckets
\* made anew and calls served out of order.  (Allow, ratelimit.go:54-85)
Conforms == \A k \in Keys : Promise!Conforming(granted[k])

\* The limiter is exactly as strict as it says: it answers every attempt as one
\* would that remembers every attempt for ever.  A sweep hands out no tokens, and
\* a refusal is never owed to anything but the attempts let through.
KeepsPromise == Promise!ThrottleSpec
=============================================================================
