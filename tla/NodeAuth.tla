------------------------------ MODULE NodeAuth ------------------------------
(***************************************************************************)
(* The handshake of a node: Hub.Handler and Service.AuthenticateNode, each  *)
(* statement a step, against the operations that change a node's row.       *)
(*                                                                         *)
(* A token is found by the index on token_sha, or, for a row that predates  *)
(* the column, by comparing its bcrypt hash with every such row.  The scan  *)
(* is throttled by a limiter (RateLimit) of which this module is the user,  *)
(* and a row it finds is given its index.  Ids are those of SQLite: a new   *)
(* row takes the id after the largest there is.                             *)
(***************************************************************************)
EXTENDS RateLimit, FiniteSets

CONSTANTS
    MaxNode,    \* bound: ids of nodes are 1..MaxNode
    Live,       \* bound: the nodes that are operated on
    Tokens,     \* join tokens
    Presented,  \* bound: the tokens somebody dials with
    OldToken,   \* OldToken[n]: token of node n, which predates token_sha
    NoToken     \* no row (token_hash), NULL (token_sha), no handshake

NodeIds == 1..MaxNode

ASSUME AuthAssumption ==
    /\ MaxNode \in Nat \ {0}
    /\ Live \subseteq NodeIds
    /\ Presented \subseteq Tokens
    /\ OldToken \in [NodeIds -> Tokens]
    /\ \A m, n \in NodeIds : OldToken[m] = OldToken[n] => m = n
    /\ NoToken \notin Tokens

VARIABLES
    hash,       \* nodes.token_hash, by the token it is the hash of
    sha,        \* nodes.token_sha
    enabled,    \* nodes.enabled
    used,       \* history: tokens that were given out, or made up by somebody
    pc,         \* pc[p]: the next step of handshake p, or its outcome
    token,      \* token[p]: the bearer token of p
    hit,        \* hit[p]: the node p was found to be, 0 when none
    entitled,   \* history: nodes that were enabled and had p's token, during p
    lapsed,     \* history: there was a moment in p when no node was
    raced,      \* history: another handshake indexed p's row during p
    failed      \* history: a query of p failed

rowVars == <<hash, sha, enabled, used>>
historyVars == <<entitled, lapsed, raced, failed>>
authVars == <<rowVars, pc, token, hit, historyVars>>
vars == <<limiterVars, authVars>>

\* Where a handshake is: between its steps, connected, or refused.
Steps == {"count", "allow", "answer", "scan", "upgrade"}
Outcomes == {"in", "bad", "throttled"}

TypeOK ==
    /\ LimiterTypeOK
    /\ hash \in [NodeIds -> Tokens \cup {NoToken}]
    /\ sha \in [NodeIds -> Tokens \cup {NoToken}]
    /\ enabled \in [NodeIds -> BOOLEAN]
    /\ used \in SUBSET Tokens
    /\ pc \in [Callers -> Steps \cup Outcomes \cup {"idle"}]
    /\ token \in [Callers -> Tokens \cup {NoToken}]
    /\ hit \in [Callers -> NodeIds \cup {0}]
    /\ entitled \in [Callers -> SUBSET NodeIds]
    /\ lapsed \in [Callers -> BOOLEAN]
    /\ raced \in [Callers -> BOOLEAN]
    /\ failed \in [Callers -> BOOLEAN]

Init ==
    /\ LimiterInit
    /\ hash = OldToken
    /\ sha = [n \in NodeIds |-> NoToken]
    /\ enabled \in [NodeIds -> BOOLEAN]
    /\ used = {OldToken[n] : n \in NodeIds}
    /\ pc = [p \in Callers |-> "idle"]
    /\ token = [p \in Callers |-> NoToken]
    /\ hit = [p \in Callers |-> 0]
    /\ entitled = [p \in Callers |-> {}]
    /\ lapsed = [p \in Callers |-> FALSE]
    /\ raced = [p \in Callers |-> FALSE]
    /\ failed = [p \in Callers |-> FALSE]

Rows == {n \in NodeIds : hash[n] # NoToken}
Holders(t) == {n \in Rows : enabled[n] /\ hash[n] = t}
Unindexed == {n \in Rows : enabled[n] /\ sha[n] = NoToken}

-----------------------------------------------------------------------------
(***************************************************************************)
(* The operator.                                                           *)
(***************************************************************************)

\* What a change of the rows means to the handshakes that are under way.
Witnessed ==
    /\ UNCHANGED <<limiterVars, pc, token, hit, raced, failed>>
    /\ entitled' = [p \in Callers |-> IF pc[p] \in Steps THEN entitled[p] \cup Holders(token[p])'
                                      ELSE entitled[p]]
    /\ lapsed' = [p \in Callers |-> lapsed[p] \/ (pc[p] \in Steps /\ Holders(token[p])' = {})]

\* 32 random bytes are new to everybody.
Mint(t) == t \notin used /\ used' = used \cup {t}

\* CreateNode: the row has its index from the start.
CreateNode(n, t) ==
    /\ Mint(t)
    /\ \A m \in Rows : m < n
    /\ n = 1 \/ n - 1 \in Rows
    /\ hash' = [hash EXCEPT ![n] = t]
    /\ sha' = [sha EXCEPT ![n] = t]
    /\ enabled' = [enabled EXCEPT ![n] = TRUE]
    /\ Witnessed

RotateNodeToken(n, t) ==
    /\ Mint(t)
    /\ n \in Rows
    /\ hash' = [hash EXCEPT ![n] = t]
    /\ sha' = [sha EXCEPT ![n] = t]
    /\ UNCHANGED enabled
    /\ Witnessed

\* UpdateNode writes the name, the address, the country and this.
ToggleNode(n) ==
    /\ n \in Rows
    /\ enabled' = [enabled EXCEPT ![n] = ~@]
    /\ UNCHANGED <<hash, sha, used>>
    /\ Witnessed

DeleteNode(n) ==
    /\ n \in Rows
    /\ hash' = [hash EXCEPT ![n] = NoToken]
    /\ sha' = [sha EXCEPT ![n] = NoToken]
    /\ enabled' = [enabled EXCEPT ![n] = TRUE]
    /\ UNCHANGED used
    /\ Witnessed

-----------------------------------------------------------------------------
(***************************************************************************)
(* The handshake.                                                          *)
(***************************************************************************)

Goto(p, l) == pc' = [pc EXCEPT ![p] = l]

\* Somebody dials, with a token that is a node's, was one, or never will be.
Dials(p, t) ==
    /\ pc[p] = "idle"
    /\ used' = used \cup {t}
    /\ token' = [token EXCEPT ![p] = t]
    /\ entitled' = [entitled EXCEPT ![p] = Holders(t)]
    /\ lapsed' = [lapsed EXCEPT ![p] = Holders(t) = {}]
    /\ UNCHANGED <<limiterVars, hash, sha, enabled, raced>>

\* NodeByTokenSHA finds one row, or none.
LooksUp(p, t) ==
    /\ Dials(p, t)
    /\ \/ /\ \A n \in Rows : sha[n] # t
          /\ Goto(p, "count")
          /\ UNCHANGED hit
       \/ \E n \in Rows :
             /\ sha[n] = t
             /\ Goto(p, IF enabled[n] THEN "in" ELSE "bad")
             /\ hit' = [hit EXCEPT ![p] = IF enabled[n] THEN n ELSE 0]
    /\ UNCHANGED failed

\* A query returns an error.  Handler answers it, as every error but the
\* limiter's, with the answer of a bad token.
Errs(p) ==
    /\ Goto(p, "bad")
    /\ failed' = [failed EXCEPT ![p] = TRUE]
    /\ UNCHANGED hit

\* The query is NodeByTokenSHA,
LookupFails(p, t) == Dials(p, t) /\ Errs(p)

\* or NodesMissingTokenSHA, or Nodes.
QueryFails(p) ==
    /\ pc[p] \in {"count", "scan"}
    /\ Errs(p)
    /\ UNCHANGED <<limiterVars, rowVars, token, entitled, lapsed, raced>>

\* NodesMissingTokenSHA finds that there is nothing to scan.
CountsNone(p) ==
    /\ pc[p] = "count"
    /\ Unindexed = {}
    /\ Goto(p, "bad")
    /\ UNCHANGED <<limiterVars, rowVars, token, hit, historyVars>>

\* There is, and allowSlow asks the limiter on behalf of the peer's address k.
CountsSome(p, k) ==
    /\ pc[p] = "count"
    /\ Unindexed # {}
    /\ ReadClock(p, k)
    /\ Goto(p, "allow")
    /\ UNCHANGED <<rowVars, token, hit, historyVars>>

\* Under the lock of the limiter.
Waits(p) ==
    /\ pc[p] = "allow"
    /\ Allow(p)
    /\ Goto(p, "answer")
    /\ UNCHANGED <<rowVars, token, hit, historyVars>>

\* Mutant of HearsLimiter: a throttled node is told that its token is wrong.
HearsLimiterAsBad(p) ==
    /\ pc[p] = "answer"
    /\ Goto(p, IF answer[p] = "yes" THEN "scan" ELSE "bad")
    /\ Returns(p)
    /\ UNCHANGED <<rowVars, token, hit, historyVars>>

HearsLimiter(p) ==
    /\ pc[p] = "answer"
    /\ Goto(p, IF answer[p] = "yes" THEN "scan" ELSE "throttled")
    /\ Returns(p)
    /\ UNCHANGED <<rowVars, token, hit, historyVars>>

\* Nodes, and the comparison with every row that is enabled and has no index.
Scans(p) ==
    /\ pc[p] = "scan"
    /\ LET found == {n \in Unindexed : hash[n] = token[p]}
       IN  \/ /\ found = {}
              /\ Goto(p, "bad")
              /\ UNCHANGED hit
           \/ \E n \in found :
                 /\ Goto(p, "upgrade")
                 /\ hit' = [hit EXCEPT ![p] = n]
    /\ UNCHANGED <<limiterVars, rowVars, token, historyVars>>

\* Mutant of Upgrades: SetNodeTokenSHA without its IS NULL.
UpgradesAnyRow(p) ==
    /\ pc[p] = "upgrade"
    /\ sha' = IF hit[p] \in Rows THEN [sha EXCEPT ![hit[p]] = token[p]] ELSE sha
    /\ raced' = [q \in Callers |-> raced[q] \/ (q # p /\ pc[q] \in Steps /\ token[q] = token[p])]
    /\ Goto(p, "in")
    /\ UNCHANGED <<limiterVars, hash, enabled, used, token, hit, entitled, lapsed, failed>>

\* SetNodeTokenSHA, which does nothing if the row has got an index since, or is
\* gone, and whose failure is ignored.
Upgrades(p) ==
    /\ pc[p] = "upgrade"
    /\ LET free == hit[p] \in Rows /\ sha[hit[p]] = NoToken
       IN  \/ /\ free
              /\ sha' = [sha EXCEPT ![hit[p]] = token[p]]
              /\ raced' = [q \in Callers |-> raced[q] \/ (q # p /\ pc[q] \in Steps /\ token[q] = token[p])]
           \/ UNCHANGED <<sha, raced>>
    /\ Goto(p, "in")
    /\ UNCHANGED <<limiterVars, hash, enabled, used, token, hit, entitled, lapsed, failed>>

\* The refused request is over; so is the connection, once the peer closes it.
Ends(p) ==
    /\ pc[p] \in Outcomes
    /\ Goto(p, "idle")
    /\ token' = [token EXCEPT ![p] = NoToken]
    /\ hit' = [hit EXCEPT ![p] = 0]
    /\ entitled' = [entitled EXCEPT ![p] = {}]
    /\ lapsed' = [lapsed EXCEPT ![p] = FALSE]
    /\ raced' = [raced EXCEPT ![p] = FALSE]
    /\ failed' = [failed EXCEPT ![p] = FALSE]
    /\ UNCHANGED <<limiterVars, rowVars>>

\* The process stops and starts: the rows are left, and what was ever used.
Restart ==
    /\ LimiterRestarts
    /\ pc' = [p \in Callers |-> "idle"]
    /\ token' = [p \in Callers |-> NoToken]
    /\ hit' = [p \in Callers |-> 0]
    /\ entitled' = [p \in Callers |-> {}]
    /\ lapsed' = [p \in Callers |-> FALSE]
    /\ raced' = [p \in Callers |-> FALSE]
    /\ failed' = [p \in Callers |-> FALSE]
    /\ UNCHANGED rowVars

TimePasses == Tick /\ UNCHANGED authVars

OperatorStep ==
    \E n \in Live :
        \/ ToggleNode(n) \/ DeleteNode(n)
        \/ \E t \in Tokens : CreateNode(n, t) \/ RotateNodeToken(n, t)

HandshakeStep(p) ==
    \/ \E t \in Presented : LooksUp(p, t) \/ LookupFails(p, t)
    \/ CountsNone(p) \/ Waits(p) \/ HearsLimiter(p) \/ Scans(p) \/ Upgrades(p)
    \/ \E k \in Keys : CountsSome(p, k)
    \/ QueryFails(p) \/ Ends(p)

Next ==
    \/ OperatorStep
    \/ \E p \in Callers : HandshakeStep(p)
    \/ TimePasses
    \/ Restart

Spec == Init /\ [][Next]_vars

-----------------------------------------------------------------------------
(***************************************************************************)
(* Properties.                                                             *)
(***************************************************************************)

\* A handshake gets in as node n only if at some moment of it n was enabled and
\* the token was n's: a token that was rotated out, or whose node was disabled or
\* deleted, before the handshake began gets nobody in, even when a scan that
\* found it then finishes late and goes on to index it.
\* (AuthenticateNode, auth.go:160-209; SetNodeTokenSHA, nodes.go:144-148)
AdmittedWhenEntitled ==
    \A p \in Callers : pc[p] = "in" => hit[p] \in entitled[p]

\* A token is called bad for one of three causes: at some moment of the handshake no
\* enabled node had it; another handshake with this very token indexed the row while
\* this one was past the index; or one of its own queries failed, which the node
\* cannot tell from a bad token (hub.go:99-107).  The limiter is never the cause:
\* "a node that is merely being throttled should back off, not conclude its
\* credential is wrong".  (AuthenticateNode, auth.go:160-209; authn_test.go:161-162)
RefusedForCause ==
    \A p \in Callers : pc[p] = "bad" => lapsed[p] \/ raced[p] \/ failed[p]
=============================================================================
