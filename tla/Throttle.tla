------------------------------ MODULE Throttle ------------------------------
(***************************************************************************)
(* What a limiter promises the handlers that ask it, whatever it remembers *)
(* and forgets: an attempt is let through if, and only if, the attempts    *)
(* let through for its address stay within the burst and the refill.  The  *)
(* state is the calls and the history of the answers; there is no bucket.  *)
(***************************************************************************)
EXTENDS Integers, Sequences

CONSTANTS
    Callers,    \* requests that may be asking at one time
    Keys,       \* client addresses
    NoKey,      \* the address of a caller that is not asking
    Times,      \* readings of the clock
    Per,        \* time in which one attempt is earned
    Full        \* time in which the whole burst is earned

VARIABLES
    key,        \* key[p]: the address p asks for
    now,        \* now[p]: the time it says it is
    granted,    \* granted[k]: the times at which attempts of k were let through
    answer      \* answer[p]: what p has been told, "none" before and after

throttleVars == <<key, now, granted, answer>>

\* n attempts, from the i-th to the j-th, cost n * Per; the bucket holds Full and
\* earns what passes between them.  (The times need not be sorted: two requests
\* may take the lock in the other order than they read the clock.)
Conforming(s) ==
    \A i, j \in DOMAIN s : i <= j => (j - i + 1) * Per <= Full + s[j] - s[i]

Asks(p, k, t) ==
    /\ key[p] = NoKey
    /\ answer[p] = "none"
    /\ key' = [key EXCEPT ![p] = k]
    /\ now' = [now EXCEPT ![p] = t]
    /\ UNCHANGED <<granted, answer>>

\* Let through, or refused, on the attempts of its address alone.
IsAnswered(p) ==
    /\ key[p] # NoKey
    /\ LET s == Append(granted[key[p]], now[p])
       IN  IF Conforming(s)
           THEN /\ granted' = [granted EXCEPT ![key[p]] = s]
                /\ answer' = [answer EXCEPT ![p] = "yes"]
           ELSE /\ answer' = [answer EXCEPT ![p] = "no"]
                /\ UNCHANGED granted
    /\ key' = [key EXCEPT ![p] = NoKey]
    /\ now' = [now EXCEPT ![p] = 0]

Leaves(p) ==
    /\ answer[p] # "none"
    /\ answer' = [answer EXCEPT ![p] = "none"]
    /\ UNCHANGED <<key, now, granted>>

ThrottleInit ==
    /\ key = [p \in Callers |-> NoKey]
    /\ now = [p \in Callers |-> 0]
    /\ granted = [k \in Keys |-> <<>>]
    /\ answer = [p \in Callers |-> "none"]

\* The limiter lives in the memory of one process.
Forgets ==
    /\ key' = [p \in Callers |-> NoKey]
    /\ now' = [p \in Callers |-> 0]
    /\ granted' = [k \in Keys |-> <<>>]
    /\ answer' = [p \in Callers |-> "none"]

ThrottleNext ==
    \/ \E p \in Callers :
          \/ \E k \in Keys, t \in Times : Asks(p, k, t)
          \/ IsAnswered(p)
          \/ Leaves(p)
    \/ Forgets

ThrottleSpec == ThrottleInit /\ [][ThrottleNext]_throttleVars
=============================================================================
