--------------------------- MODULE NodeAuthProofs ---------------------------
(***************************************************************************)
(* The handshake, for any number of nodes, tokens and connections, with the *)
(* limiter's promise carried over from RateLimit.                          *)
(*                                                                         *)
(* The argument: a token is some row's for as long as that row's token_hash *)
(* is, a row's index is its hash or nothing, and no two rows share a hash,  *)
(* because tokens are new when they are made.  So a handshake that misses   *)
(* the index misses only rows without one, until somebody indexes the row.  *)
(***************************************************************************)
EXTENDS NodeAuth, RateLimitProofs

AuthTypes ==
    /\ hash \in [NodeIds -> Tokens \cup {NoToken}]
    /\ sha \in [NodeIds -> Tokens \cup {NoToken}]
    /\ enabled \in [NodeIds -> BOOLEAN]
    /\ used \in SUBSET Tokens
    /\ pc \in [Callers -> Steps \cup Outcomes \cup {"idle"}]
    /\ token \in [Callers -> Tokens \cup {NoToken}]
    /\ hit \in [Callers -> NodeIds \cup {0}]
    /\ entitled \in [Callers -> SUBSET NodeIds]
    /\ lapsed \in [Callers -> BOOLEAN]
    /\ raced \in [Callers -> BOOLEAN]
    /\ failed \in [Callers -> BOOLEAN]

\* Rows: the index is the hash or nothing, a hash has one row and is not new.
RowsAgree ==
    /\ \A n \in NodeIds : sha[n] # NoToken => sha[n] = hash[n]
    /\ \A m, n \in Rows : hash[m] = hash[n] => m = n
    /\ \A n \in Rows : hash[n] \in used

\* The history of a handshake under way includes the present.
Witnesses ==
    \A p \in Callers : pc[p] \in Steps =>
        /\ token[p] \in used
        /\ Holders(token[p]) \subseteq entitled[p]
        /\ Holders(token[p]) = {} => lapsed[p]

\* The scan found a row with the token, and the row is indexed by it or by nobody.
Found ==
    \A p \in Callers :
        /\ pc[p] \in {"upgrade", "in"} => hit[p] \in entitled[p]
        /\ pc[p] = "upgrade" /\ hit[p] \in Rows /\ sha[hit[p]] = NoToken
             => hash[hit[p]] = token[p]

\* Past the index, the row of the token has none, or there is a reason.
Missed ==
    \A p \in Callers : pc[p] \in {"count", "allow", "answer", "scan"} =>
        \/ lapsed[p]
        \/ raced[p]
        \/ \A n \in Holders(token[p]) : sha[n] = NoToken

AuthInv == AuthTypes /\ RowsAgree /\ Witnesses /\ Found /\ Missed /\ RefusedForCause

-----------------------------------------------------------------------------
\* The handshakes leave the limiter's steps as they are.
LEMMA LimiterSteps == [Next]_vars => [LimiterNext]_limiterVars
  <1> SUFFICES ASSUME [Next]_vars PROVE [LimiterNext]_limiterVars
    OBVIOUS
  <1>1. CASE OperatorStep
    BY <1>1 DEF OperatorStep, ToggleNode, DeleteNode, CreateNode, RotateNodeToken, Witnessed
  <1>2. ASSUME NEW p \in Callers, HandshakeStep(p) PROVE [LimiterNext]_limiterVars
    <2>1. CASE \E t \in Presented : LooksUp(p, t) \/ LookupFails(p, t)
      BY <2>1 DEF LooksUp, LookupFails, Dials
    <2>2. CASE CountsNone(p) \/ Scans(p) \/ Upgrades(p) \/ QueryFails(p) \/ Ends(p)
      BY <2>2 DEF CountsNone, Scans, Upgrades, QueryFails, Ends
    <2>3. CASE Waits(p) \/ HearsLimiter(p) \/ \E k \in Keys : CountsSome(p, k)
      BY <2>3 DEF Waits, HearsLimiter, CountsSome, LimiterNext
    <2> QED BY <1>2, <2>1, <2>2, <2>3 DEF HandshakeStep
  <1>3. CASE TimePasses \/ Restart
    BY <1>3 DEF TimePasses, Restart, LimiterNext
  <1>4. CASE UNCHANGED vars
    BY <1>4 DEF vars
  <1> QED BY <1>1, <1>2, <1>3, <1>4 DEF Next

LEMMA InitAuthInv == Init => AuthInv
  <1> SUFFICES ASSUME Init PROVE AuthInv
    OBVIOUS
  <1> USE DEF Init
  <1>1. /\ OldToken \in [NodeIds -> Tokens]
        /\ \A m, n \in NodeIds : OldToken[m] = OldToken[n] => m = n
    BY AuthAssumption
  <1>2. AuthTypes
    BY <1>1 DEF AuthTypes
  <1>3. RowsAgree
    BY <1>1 DEF RowsAgree, Rows
  <1>4. Witnesses /\ Found /\ Missed /\ RefusedForCause
    BY DEF Witnesses, Found, Missed, RefusedForCause, Steps
  <1> QED BY <1>2, <1>3, <1>4 DEF AuthInv

-----------------------------------------------------------------------------
(***************************************************************************)
(* The operator.                                                           *)
(***************************************************************************)

\* Whatever the operator does to the rows, handshakes under way witness it.
LEMMA WitnessedKeeps ==
    ASSUME AuthInv, Witnessed, used \subseteq used'
    PROVE  Witnesses' /\ RefusedForCause'
           /\ \A p \in Callers : entitled[p] \subseteq entitled'[p] /\ (lapsed[p] => lapsed'[p])
  <1> USE DEF AuthInv, AuthTypes, Witnessed
  <1>1. \A p \in Callers : entitled[p] \subseteq entitled'[p] /\ (lapsed[p] => lapsed'[p])
    OBVIOUS
  <1>2. RefusedForCause'
    BY <1>1 DEF RefusedForCause
  <1>3. ASSUME NEW p \in Callers, pc'[p] \in Steps
        PROVE  /\ token'[p] \in used'
               /\ Holders(token[p])' \subseteq entitled'[p]
               /\ Holders(token[p])' = {} => lapsed'[p]
    BY <1>3 DEF Witnesses
  <1>4. Witnesses'
    BY <1>3 DEF Witnesses
  <1> QED BY <1>1, <1>2, <1>4

\* A new token: nobody dialled with it, and no row had it.
LEMMA MintedKeeps ==
    ASSUME AuthInv, NEW n \in NodeIds, NEW t \in Tokens, Mint(t), Witnessed,
           hash' = [hash EXCEPT ![n] = t], sha' = [sha EXCEPT ![n] = t],
           enabled' \in [NodeIds -> BOOLEAN],
           \A m \in NodeIds : m # n => enabled'[m] = enabled[m]
    PROVE  AuthInv'
  <1>1. Witnesses' /\ RefusedForCause'
        /\ \A p \in Callers : entitled[p] \subseteq entitled'[p] /\ (lapsed[p] => lapsed'[p])
    BY WitnessedKeeps DEF Mint
  <1> USE DEF AuthInv, AuthTypes
  <1>2. AuthTypes'
    <2>1. entitled' \in [Callers -> SUBSET NodeIds] /\ lapsed' \in [Callers -> BOOLEAN]
      BY DEF Witnessed, Holders, Rows
    <2> QED BY <2>1 DEF Witnessed, Mint
  <1>3. t # NoToken /\ t \notin used
    BY AuthAssumption DEF Mint
  <1>4. RowsAgree'
    <2>1. \A m \in NodeIds : m # n => hash'[m] = hash[m] /\ sha'[m] = sha[m]
      OBVIOUS
    <2>2. hash'[n] = t /\ sha'[n] = t /\ used' = used \cup {t}
      BY DEF Mint
    <2>3. \A m \in Rows' : m \in NodeIds /\ (m # n => m \in Rows)
      BY <2>1 DEF Rows
    <2> QED BY <1>3, <2>1, <2>2, <2>3 DEF RowsAgree
  <1>5. ASSUME NEW p \in Callers, pc[p] \in Steps, NEW m \in Holders(token[p])'
        PROVE  m # n /\ m \in Holders(token[p]) /\ sha'[m] = sha[m]
    <2>1. token[p] \in used /\ token'[p] = token[p]
      BY <1>5 DEF Witnesses, Witnessed
    <2> QED BY <1>3, <1>5, <2>1 DEF Holders, Rows
  <1>6. Missed'
    <2> SUFFICES ASSUME NEW p \in Callers, pc'[p] \in {"count", "allow", "answer", "scan"}
                 PROVE  \/ lapsed'[p]
                        \/ raced'[p]
                        \/ \A m \in Holders(token[p])' : sha'[m] = NoToken
      BY DEF Missed
    <2>1. pc[p] \in {"count", "allow", "answer", "scan"} /\ pc[p] \in Steps /\ raced' = raced
      BY DEF Witnessed, Steps
    <2> QED BY <1>1, <1>5, <2>1 DEF Missed
  <1>7. Found'
    <2> SUFFICES ASSUME NEW p \in Callers
                 PROVE  /\ pc'[p] \in {"upgrade", "in"} => hit'[p] \in entitled'[p]
                        /\ pc'[p] = "upgrade" /\ hit'[p] \in Rows' /\ sha'[hit'[p]] = NoToken
                             => hash'[hit'[p]] = token'[p]
      BY DEF Found
    <2>1. pc' = pc /\ hit' = hit /\ token' = token
      BY DEF Witnessed
    <2>2. ASSUME hit[p] \in Rows', sha'[hit[p]] = NoToken
          PROVE  hit[p] # n /\ hit[p] \in Rows /\ sha[hit[p]] = NoToken /\ hash'[hit[p]] = hash[hit[p]]
      BY <1>3, <2>2 DEF Rows
    <2> QED BY <1>1, <2>1, <2>2 DEF Found
  <1> QED BY <1>1, <1>2, <1>4, <1>6, <1>7

LEMMA CreateKeeps ==
    ASSUME AuthInv, NEW n \in NodeIds, NEW t \in Tokens, CreateNode(n, t)
    PROVE  AuthInv'
  <1>1. enabled' \in [NodeIds -> BOOLEAN] /\ \A m \in NodeIds : m # n => enabled'[m] = enabled[m]
    BY DEF CreateNode, AuthInv, AuthTypes
  <1> QED BY <1>1, MintedKeeps DEF CreateNode

LEMMA RotateKeeps ==
    ASSUME AuthInv, NEW n \in NodeIds, NEW t \in Tokens, RotateNodeToken(n, t)
    PROVE  AuthInv'
  <1>1. enabled' \in [NodeIds -> BOOLEAN] /\ \A m \in NodeIds : m # n => enabled'[m] = enabled[m]
    BY DEF RotateNodeToken, AuthInv, AuthTypes
  <1> QED BY <1>1, MintedKeeps DEF RotateNodeToken

\* A row that is enabled again was not there for a handshake that missed it: the
\* handshake has a moment to point to.
LEMMA ToggleKeeps ==
    ASSUME AuthInv, NEW n \in NodeIds, ToggleNode(n)
    PROVE  AuthInv'
  <1>0. Witnessed /\ hash' = hash /\ sha' = sha /\ used' = used /\ Rows' = Rows
        /\ enabled' = [enabled EXCEPT ![n] = ~@] /\ n \in Rows
    BY DEF ToggleNode, Rows
  <1>1. Witnesses' /\ RefusedForCause'
        /\ \A p \in Callers : entitled[p] \subseteq entitled'[p] /\ (lapsed[p] => lapsed'[p])
    BY <1>0, WitnessedKeeps
  <1> USE DEF AuthInv, AuthTypes
  <1>2. AuthTypes'
    <2>1. entitled' \in [Callers -> SUBSET NodeIds] /\ lapsed' \in [Callers -> BOOLEAN]
      BY <1>0 DEF Witnessed, Holders, Rows
    <2>2. enabled' \in [NodeIds -> BOOLEAN]
      BY <1>0
    <2> QED BY <1>0, <2>1, <2>2 DEF Witnessed
  <1>3. RowsAgree'
    BY <1>0 DEF RowsAgree
  <1>4. Found'
    BY <1>0, <1>1 DEF Found, Witnessed
  <1>5. Missed'
    <2> SUFFICES ASSUME NEW p \in Callers, pc'[p] \in {"count", "allow", "answer", "scan"}
                 PROVE  \/ lapsed'[p]
                        \/ raced'[p]
                        \/ \A m \in Holders(token[p])' : sha'[m] = NoToken
      BY DEF Missed
    <2>1. pc[p] \in {"count", "allow", "answer", "scan"} /\ pc[p] \in Steps /\ raced' = raced
          /\ token' = token
      BY <1>0 DEF Witnessed, Steps
    <2>2. CASE lapsed[p] \/ raced[p]
      BY <1>1, <2>1, <2>2
    <2>3. CASE ~lapsed[p] /\ ~raced[p]
      <3>1. PICK h \in Holders(token[p]) : TRUE
        BY <2>1, <2>3 DEF Witnesses
      <3>2. \A m \in Holders(token[p])' : m = h
        BY <1>0, <2>1, <3>1 DEF Holders, RowsAgree
      <3> QED BY <1>0, <2>1, <2>3, <3>1, <3>2 DEF Missed
    <2> QED BY <2>2, <2>3
  <1> QED BY <1>1, <1>2, <1>3, <1>4, <1>5

LEMMA DeleteKeeps ==
    ASSUME AuthInv, NEW n \in NodeIds, DeleteNode(n)
    PROVE  AuthInv'
  <1>0. Witnessed /\ used' = used
        /\ hash' = [hash EXCEPT ![n] = NoToken] /\ sha' = [sha EXCEPT ![n] = NoToken]
        /\ enabled' = [enabled EXCEPT ![n] = TRUE]
    BY DEF DeleteNode
  <1>1. Witnesses' /\ RefusedForCause'
        /\ \A p \in Callers : entitled[p] \subseteq entitled'[p] /\ (lapsed[p] => lapsed'[p])
    BY <1>0, WitnessedKeeps
  <1> USE DEF AuthInv, AuthTypes
  <1>2. AuthTypes'
    <2>1. entitled' \in [Callers -> SUBSET NodeIds] /\ lapsed' \in [Callers -> BOOLEAN]
      BY <1>0 DEF Witnessed, Holders, Rows
    <2>2. enabled' \in [NodeIds -> BOOLEAN] /\ hash' \in [NodeIds -> Tokens \cup {NoToken}]
          /\ sha' \in [NodeIds -> Tokens \cup {NoToken}]
      BY <1>0
    <2> QED BY <1>0, <2>1, <2>2 DEF Witnessed
  <1>3. ASSUME NEW m \in NodeIds
        PROVE  /\ m \in Rows' => m # n /\ m \in Rows
               /\ m # n => hash'[m] = hash[m] /\ sha'[m] = sha[m] /\ enabled'[m] = enabled[m]
    BY <1>0 DEF Rows
  <1>4. Rows' \subseteq NodeIds /\ sha'[n] = NoToken
    BY <1>0 DEF Rows
  <1>5. RowsAgree'
    BY <1>0, <1>3, <1>4 DEF RowsAgree
  <1>6. Found'
    <2> SUFFICES ASSUME NEW p \in Callers
                 PROVE  /\ pc'[p] \in {"upgrade", "in"} => hit'[p] \in entitled'[p]
                        /\ pc'[p] = "upgrade" /\ hit'[p] \in Rows' /\ sha'[hit'[p]] = NoToken
                             => hash'[hit'[p]] = token'[p]
      BY DEF Found
    <2>1. pc' = pc /\ hit' = hit /\ token' = token
      BY <1>0 DEF Witnessed
    <2> QED BY <1>1, <1>3, <1>4, <2>1 DEF Found
  <1>7. Missed'
    <2> SUFFICES ASSUME NEW p \in Callers, pc'[p] \in {"count", "allow", "answer", "scan"}
                 PROVE  \/ lapsed'[p]
                        \/ raced'[p]
                        \/ \A m \in Holders(token[p])' : sha'[m] = NoToken
      BY DEF Missed
    <2>1. pc[p] \in {"count", "allow", "answer", "scan"} /\ pc[p] \in Steps /\ raced' = raced
          /\ token' = token
      BY <1>0 DEF Witnessed, Steps
    <2>2. ASSUME NEW m \in Holders(token[p])' PROVE m \in Holders(token[p]) /\ sha'[m] = sha[m]
      BY <1>3, <1>4, <2>1 DEF Holders
    <2> QED BY <1>1, <2>1, <2>2 DEF Missed
  <1> QED BY <1>1, <1>2, <1>5, <1>6, <1>7

-----------------------------------------------------------------------------
(***************************************************************************)
(* The handshake.                                                          *)
(***************************************************************************)

\* Of a handshake that begins, whatever comes of its first query.
LEMMA DialsKeeps ==
    ASSUME AuthInv, NEW p \in Callers, NEW t \in Presented, Dials(p, t),
           NEW l \in {"count", "in", "bad"}, Goto(p, l)
    PROVE  /\ t \in Tokens /\ t # NoToken
           /\ token' \in [Callers -> Tokens \cup {NoToken}] /\ used' \in SUBSET Tokens
           /\ entitled' \in [Callers -> SUBSET NodeIds] /\ lapsed' \in [Callers -> BOOLEAN]
           /\ hash' = hash /\ sha' = sha /\ enabled' = enabled /\ raced' = raced
           /\ Rows' = Rows /\ \A u : Holders(u)' = Holders(u)
           /\ pc'[p] = l /\ token'[p] = t
           /\ entitled'[p] = Holders(t) /\ lapsed'[p] = (Holders(t) = {})
           /\ \A q \in Callers : q # p => /\ token'[q] = token[q] /\ entitled'[q] = entitled[q]
                                          /\ lapsed'[q] = lapsed[q] /\ pc'[q] = pc[q]
           /\ RowsAgree' /\ Witnesses'
  <1>0. t \in Tokens /\ t # NoToken
    BY AuthAssumption
  <1>1. /\ pc[p] = "idle" /\ used' = used \cup {t} /\ token' = [token EXCEPT ![p] = t]
        /\ entitled' = [entitled EXCEPT ![p] = Holders(t)]
        /\ lapsed' = [lapsed EXCEPT ![p] = Holders(t) = {}]
        /\ hash' = hash /\ sha' = sha /\ enabled' = enabled /\ raced' = raced
        /\ Rows' = Rows /\ \A u : Holders(u)' = Holders(u)
        /\ pc' = [pc EXCEPT ![p] = l]
    BY DEF Dials, Goto, Rows, Holders
  <1> USE DEF AuthInv
  <1>2. Holders(t) \in SUBSET NodeIds /\ (Holders(t) = {}) \in BOOLEAN
    BY DEF Holders, Rows
  <1>3. /\ token' \in [Callers -> Tokens \cup {NoToken}] /\ used' \in SUBSET Tokens
        /\ entitled' \in [Callers -> SUBSET NodeIds] /\ lapsed' \in [Callers -> BOOLEAN]
    BY <1>0, <1>1, <1>2 DEF AuthTypes
  <1>4. /\ pc'[p] = l /\ token'[p] = t
        /\ entitled'[p] = Holders(t) /\ lapsed'[p] = (Holders(t) = {})
        /\ \A q \in Callers : q # p => /\ token'[q] = token[q] /\ entitled'[q] = entitled[q]
                                       /\ lapsed'[q] = lapsed[q] /\ pc'[q] = pc[q]
    BY <1>1 DEF AuthTypes
  <1>5. RowsAgree'
    BY <1>1 DEF RowsAgree
  <1>6. Witnesses'
    <2> SUFFICES ASSUME NEW q \in Callers, pc'[q] \in Steps
                 PROVE  /\ token'[q] \in used'
                        /\ Holders(token[q])' \subseteq entitled'[q]
                        /\ Holders(token[q])' = {} => lapsed'[q]
      BY DEF Witnesses
    <2>0. Holders(token[q])' = Holders(token'[q])
      <3>1. hash' = hash /\ enabled' = enabled
        BY <1>1
      <3> QED BY <3>1 DEF Holders, Rows
    <2>1. CASE q = p
      <3>1. Holders(token[q])' = Holders(t) /\ token'[q] = t
        BY <1>4, <2>0, <2>1
      <3>2. t \in used' /\ entitled'[q] = Holders(t)
        BY <1>1, <1>4, <2>1
      <3>3. Holders(t) = {} => lapsed'[q]
        BY <1>4, <2>1
      <3> QED BY <3>1, <3>2, <3>3
    <2>2. CASE q # p
      BY <1>1, <1>4, <2>0, <2>2 DEF Witnesses
    <2> QED BY <2>1, <2>2
  <1> QED BY <1>0, <1>1, <1>3, <1>4, <1>5, <1>6

LEMMA LooksUpKeeps ==
    ASSUME AuthInv, NEW p \in Callers, NEW t \in Presented, LooksUp(p, t)
    PROVE  AuthInv'
  <1>0. Dials(p, t) /\ failed' = failed
    BY DEF LooksUp
  <1>1. \/ /\ \A n \in Rows : sha[n] # t
           /\ Goto(p, "count") /\ hit' = hit
        \/ \E n \in Rows : /\ sha[n] = t /\ enabled[n]
                           /\ Goto(p, "in") /\ hit' = [hit EXCEPT ![p] = n]
        \/ \E n \in Rows : /\ sha[n] = t /\ ~enabled[n]
                           /\ Goto(p, "bad") /\ hit' = [hit EXCEPT ![p] = 0]
    BY DEF LooksUp
  <1>2. PICK l \in {"count", "in", "bad"} : Goto(p, l)
    BY <1>1
  <1> USE DEF AuthInv
  <1>3. pc' \in [Callers -> Steps \cup Outcomes \cup {"idle"}] /\ hit' \in [Callers -> NodeIds \cup {0}]
        /\ \A q \in Callers : q # p => hit'[q] = hit[q]
    BY <1>1 DEF Goto, AuthTypes, Rows, Steps, Outcomes
  <1>4. /\ t \in Tokens /\ t # NoToken
        /\ token' \in [Callers -> Tokens \cup {NoToken}] /\ used' \in SUBSET Tokens
        /\ entitled' \in [Callers -> SUBSET NodeIds] /\ lapsed' \in [Callers -> BOOLEAN]
        /\ hash' = hash /\ sha' = sha /\ enabled' = enabled /\ raced' = raced
        /\ Rows' = Rows /\ \A u : Holders(u)' = Holders(u)
        /\ pc'[p] = l /\ token'[p] = t
        /\ entitled'[p] = Holders(t) /\ lapsed'[p] = (Holders(t) = {})
        /\ \A q \in Callers : q # p => /\ token'[q] = token[q] /\ entitled'[q] = entitled[q]
                                       /\ lapsed'[q] = lapsed[q] /\ pc'[q] = pc[q]
        /\ RowsAgree' /\ Witnesses'
    BY <1>0, <1>2, <1>3, DialsKeeps
  <1>5. AuthTypes'
    BY <1>0, <1>3, <1>4 DEF AuthTypes
  <1>6. Found'
    <2>1. ASSUME pc'[p] = "in" PROVE hit'[p] \in Holders(t)
      BY <1>1, <1>4, <2>1 DEF AuthTypes, RowsAgree, Holders, Rows, Goto
    <2> QED BY <1>3, <1>4, <2>1 DEF Found
  <1>7. Missed'
    <2>1. ASSUME pc'[p] = "count", NEW n \in Holders(t) PROVE sha'[n] = NoToken
      <3>1. \A m \in Rows : sha[m] # t
        BY <1>1, <2>1 DEF AuthTypes, Goto
      <3> QED BY <1>4, <2>1, <3>1 DEF RowsAgree, Holders, Rows
    <2> QED BY <1>4, <2>1 DEF Missed
  <1>8. RefusedForCause'
    <2>1. ASSUME pc'[p] = "bad" PROVE Holders(t) = {}
      <3>1. PICK n \in Rows : sha[n] = t /\ ~enabled[n]
        BY <1>1, <2>1 DEF AuthTypes, Goto
      <3> QED BY <1>4, <3>1 DEF RowsAgree, Holders, Rows
    <2> QED BY <1>0, <1>4, <2>1 DEF RefusedForCause
  <1> QED BY <1>4, <1>5, <1>6, <1>7, <1>8

\* The first query fails: the refusal is the failure's.
LEMMA LookupFailsKeeps ==
    ASSUME AuthInv, NEW p \in Callers, NEW t \in Presented, LookupFails(p, t)
    PROVE  AuthInv'
  <1>1. Dials(p, t) /\ Goto(p, "bad") /\ failed' = [failed EXCEPT ![p] = TRUE] /\ hit' = hit
    BY DEF LookupFails, Errs
  <1> USE DEF AuthInv
  <1>2. pc' \in [Callers -> Steps \cup Outcomes \cup {"idle"}] /\ failed' \in [Callers -> BOOLEAN]
        /\ failed'[p] /\ \A q \in Callers : q # p => failed'[q] = failed[q]
    BY <1>1 DEF Goto, AuthTypes, Outcomes
  <1>3. /\ token' \in [Callers -> Tokens \cup {NoToken}] /\ used' \in SUBSET Tokens
        /\ entitled' \in [Callers -> SUBSET NodeIds] /\ lapsed' \in [Callers -> BOOLEAN]
        /\ hash' = hash /\ sha' = sha /\ enabled' = enabled /\ raced' = raced
        /\ Rows' = Rows /\ (\A u : Holders(u)' = Holders(u)) /\ pc'[p] = "bad"
        /\ \A q \in Callers : q # p => /\ token'[q] = token[q] /\ entitled'[q] = entitled[q]
                                       /\ lapsed'[q] = lapsed[q] /\ pc'[q] = pc[q]
        /\ RowsAgree' /\ Witnesses'
    BY <1>1, <1>2, DialsKeeps
  <1>4. AuthTypes'
    BY <1>1, <1>2, <1>3 DEF AuthTypes
  <1>5. Found' /\ Missed' /\ RefusedForCause'
    BY <1>1, <1>2, <1>3 DEF Found, Missed, RefusedForCause
  <1> QED BY <1>3, <1>4, <1>5

\* A later one does.
LEMMA QueryFailsKeeps ==
    ASSUME AuthInv, NEW p \in Callers, QueryFails(p)
    PROVE  AuthInv'
  <1> USE DEF AuthInv, QueryFails, Errs, rowVars
  <1>1. /\ pc'[p] = "bad" /\ failed'[p]
        /\ \A q \in Callers : q # p => pc'[q] = pc[q] /\ failed'[q] = failed[q]
    BY DEF Goto, AuthTypes
  <1>2. AuthTypes'
    BY DEF AuthTypes, Goto, Outcomes
  <1>3. RowsAgree' /\ Witnesses' /\ Found' /\ Missed' /\ RefusedForCause'
    BY <1>1 DEF RowsAgree, Witnesses, Found, Missed, RefusedForCause, Holders, Rows, Steps
  <1> QED BY <1>2, <1>3

\* The steps that only move a handshake on, the count and the limiter.
LEMMA MovesKeep ==
    ASSUME AuthInv, NEW p \in Callers, NEW l \in {"allow", "answer", "scan", "throttled"},
           pc[p] \in {"count", "allow", "answer"}, Goto(p, l),
           UNCHANGED <<rowVars, token, hit, historyVars>>
    PROVE  AuthInv'
  <1> USE DEF AuthInv, rowVars, historyVars
  <1>1. pc'[p] = l /\ (\A q \in Callers : q # p => pc'[q] = pc[q]) /\ pc[p] \in Steps
    BY DEF Goto, AuthTypes, Steps
  <1>2. AuthTypes'
    BY DEF AuthTypes, Goto, Steps, Outcomes
  <1>3. RowsAgree' /\ Witnesses' /\ Found' /\ Missed' /\ RefusedForCause'
    BY <1>1 DEF RowsAgree, Witnesses, Found, Missed, RefusedForCause, Holders, Rows
  <1> QED BY <1>2, <1>3

\* Nothing is left to scan for, so there is a reason to refuse.
LEMMA RefusalKeeps ==
    ASSUME AuthInv, NEW p \in Callers, pc[p] \in {"count", "scan"}, Goto(p, "bad"),
           {n \in Unindexed : hash[n] = token[p]} = {},
           UNCHANGED <<rowVars, token, hit, historyVars>>
    PROVE  AuthInv'
  <1> USE DEF AuthInv, rowVars, historyVars
  <1>1. pc'[p] = "bad" /\ (\A q \in Callers : q # p => pc'[q] = pc[q]) /\ pc[p] \in Steps
    BY DEF Goto, AuthTypes, Steps
  <1>2. AuthTypes'
    BY DEF AuthTypes, Goto, Steps, Outcomes
  <1>3. RowsAgree' /\ Witnesses' /\ Found' /\ Missed'
    BY <1>1 DEF RowsAgree, Witnesses, Found, Missed, Holders, Rows, Steps
  <1>4. lapsed[p] \/ raced[p]
    <2> SUFFICES ASSUME ~lapsed[p], ~raced[p] PROVE FALSE
      OBVIOUS
    <2>1. PICK n \in Holders(token[p]) : sha[n] = NoToken
      BY <1>1 DEF Witnesses, Missed
    <2>2. n \in Unindexed /\ hash[n] = token[p]
      BY <2>1 DEF Holders, Unindexed
    <2> QED BY <2>2
  <1>5. RefusedForCause'
    BY <1>1, <1>4 DEF RefusedForCause
  <1> QED BY <1>2, <1>3, <1>5

LEMMA ScansKeeps ==
    ASSUME AuthInv, NEW p \in Callers, Scans(p)
    PROVE  AuthInv'
  <1> USE DEF AuthInv, rowVars, historyVars
  <1>1. CASE {n \in Unindexed : hash[n] = token[p]} = {}
    BY <1>1, RefusalKeeps DEF Scans
  <1>2. CASE {n \in Unindexed : hash[n] = token[p]} # {}
    <2>1. PICK n \in Unindexed : hash[n] = token[p] /\ Goto(p, "upgrade") /\ hit' = [hit EXCEPT ![p] = n]
      BY <1>2 DEF Scans
    <2>2. pc[p] = "scan" /\ UNCHANGED <<rowVars, token, historyVars>> /\ n \in NodeIds
      BY DEF Scans, Unindexed, Rows
    <2>3. /\ pc'[p] = "upgrade" /\ hit'[p] = n /\ pc[p] \in Steps
          /\ \A q \in Callers : q # p => pc'[q] = pc[q] /\ hit'[q] = hit[q]
      BY <2>1, <2>2 DEF Goto, AuthTypes, Steps
    <2>4. AuthTypes'
      BY <2>1, <2>2 DEF AuthTypes, Goto, Steps
    <2>5. RowsAgree' /\ Witnesses' /\ Missed' /\ RefusedForCause'
      BY <2>2, <2>3 DEF RowsAgree, Witnesses, Missed, RefusedForCause, Holders, Rows
    <2>6. n \in entitled[p]
      BY <2>1, <2>3 DEF Witnesses, Holders, Unindexed
    <2>7. Found'
      BY <2>1, <2>2, <2>3, <2>6 DEF Found, Rows
    <2> QED BY <2>4, <2>5, <2>7
  <1> QED BY <1>1, <1>2

\* An index that is given is the right one, and who misses it is excused.
LEMMA UpgradesKeeps ==
    ASSUME AuthInv, NEW p \in Callers, Upgrades(p)
    PROVE  AuthInv'
  <1> USE DEF AuthInv
  <1>1. /\ pc[p] = "upgrade" /\ Goto(p, "in") /\ hash' = hash /\ enabled' = enabled /\ used' = used
        /\ token' = token /\ hit' = hit /\ entitled' = entitled /\ lapsed' = lapsed
        /\ failed' = failed /\ Rows' = Rows /\ (\A u : Holders(u)' = Holders(u))
    BY DEF Upgrades, Rows, Holders
  <1>2. pc'[p] = "in" /\ (\A q \in Callers : q # p => pc'[q] = pc[q]) /\ pc[p] \in Steps
        /\ pc' \in [Callers -> Steps \cup Outcomes \cup {"idle"}]
    BY <1>1 DEF Goto, AuthTypes, Steps, Outcomes
  <1>3. CASE UNCHANGED <<sha, raced>>
    <2>1. AuthTypes'
      BY <1>1, <1>2, <1>3 DEF AuthTypes
    <2>2. RowsAgree' /\ Witnesses' /\ Found' /\ Missed' /\ RefusedForCause'
      BY <1>1, <1>2, <1>3 DEF RowsAgree, Witnesses, Found, Missed, RefusedForCause
    <2> QED BY <2>1, <2>2
  <1>4. CASE /\ hit[p] \in Rows /\ sha[hit[p]] = NoToken
             /\ sha' = [sha EXCEPT ![hit[p]] = token[p]]
             /\ raced' = [q \in Callers |-> raced[q] \/ (q # p /\ pc[q] \in Steps /\ token[q] = token[p])]
    <2> DEFINE h == hit[p]
    <2>1. h \in NodeIds /\ hash[h] = token[p] /\ token[p] \in Tokens
      BY <1>1, <1>2, <1>4 DEF Found, Witnesses, Rows, AuthTypes
    <2>2. sha'[h] = token[p] /\ \A n \in NodeIds : n # h => sha'[n] = sha[n]
      BY <1>4, <2>1 DEF AuthTypes
    <2>3. AuthTypes'
      <3>1. sha' \in [NodeIds -> Tokens \cup {NoToken}] /\ raced' \in [Callers -> BOOLEAN]
        BY <1>4, <2>1 DEF AuthTypes
      <3> QED BY <1>1, <1>2, <3>1 DEF AuthTypes
    <2>4. RowsAgree'
      BY <1>1, <2>1, <2>2 DEF RowsAgree
    <2>5. Witnesses'
      BY <1>1, <1>2 DEF Witnesses
    <2>6. Found'
      <3> SUFFICES ASSUME NEW q \in Callers
                   PROVE  /\ pc'[q] \in {"upgrade", "in"} => hit[q] \in entitled[q]
                          /\ pc'[q] = "upgrade" /\ hit[q] \in Rows /\ sha'[hit[q]] = NoToken
                               => hash[hit[q]] = token[q]
        BY <1>1 DEF Found
      <3>1. pc'[q] \in {"upgrade", "in"} => pc[q] \in {"upgrade", "in"}
        BY <1>1, <1>2
      <3>2. ASSUME hit[q] \in Rows, sha'[hit[q]] = NoToken
            PROVE  sha[hit[q]] = NoToken
        BY <1>4, <2>1, <2>2, <3>2 DEF Rows
      <3>3. pc'[q] = "upgrade" => pc[q] = "upgrade"
        BY <1>2
      <3> QED BY <3>1, <3>2, <3>3 DEF Found
    <2>7. ASSUME NEW q \in Callers PROVE raced[q] => raced'[q]
      BY <1>4
    <2>8. Missed'
      <3> SUFFICES ASSUME NEW q \in Callers, pc'[q] \in {"count", "allow", "answer", "scan"},
                          ~raced'[q], ~lapsed[q], NEW n \in Holders(token[q])
                   PROVE  sha'[n] = NoToken
        BY <1>1 DEF Missed
      <3>1. q # p /\ pc[q] = pc'[q] /\ pc[q] \in Steps
        BY <1>2 DEF Steps
      <3>2. sha[n] = NoToken
        BY <2>7, <3>1 DEF Missed
      <3>3. n # h
        BY <1>4, <2>1, <3>1 DEF Holders
      <3> QED BY <2>2, <3>2, <3>3 DEF Holders, Rows
    <2>9. RefusedForCause'
      BY <1>1, <1>2, <2>7 DEF RefusedForCause
    <2> QED BY <2>3, <2>4, <2>5, <2>6, <2>8, <2>9
  <1> QED BY <1>3, <1>4 DEF Upgrades

LEMMA EndsKeeps ==
    ASSUME AuthInv, NEW p \in Callers, Ends(p)
    PROVE  AuthInv'
  <1> USE DEF AuthInv, Ends, Goto, rowVars
  <1>1. AuthTypes'
    BY DEF AuthTypes
  <1>2. /\ pc'[p] = "idle"
        /\ \A q \in Callers : q # p => /\ pc'[q] = pc[q] /\ token'[q] = token[q] /\ hit'[q] = hit[q]
                                       /\ entitled'[q] = entitled[q] /\ lapsed'[q] = lapsed[q]
                                       /\ raced'[q] = raced[q] /\ failed'[q] = failed[q]
    BY DEF AuthTypes
  <1>3. Rows' = Rows /\ \A u : Holders(u)' = Holders(u)
    BY DEF Rows, Holders
  <1>4. RowsAgree'
    BY <1>3 DEF RowsAgree
  <1>5. Witnesses' /\ Found' /\ Missed' /\ RefusedForCause'
    BY <1>2, <1>3 DEF Witnesses, Found, Missed, RefusedForCause, Steps
  <1> QED BY <1>1, <1>4, <1>5

LEMMA StepAuthInv == AuthInv /\ [Next]_vars => AuthInv'
  <1> SUFFICES ASSUME AuthInv, [Next]_vars PROVE AuthInv'
    OBVIOUS
  <1>1. CASE OperatorStep
    <2>1. Live \subseteq NodeIds
      BY AuthAssumption
    <2> QED BY <1>1, <2>1, ToggleKeeps, DeleteKeeps, CreateKeeps, RotateKeeps DEF OperatorStep
  <1>2. ASSUME NEW p \in Callers, HandshakeStep(p) PROVE AuthInv'
    <2>1. CASE \E t \in Presented : LooksUp(p, t) \/ LookupFails(p, t)
      BY <2>1, LooksUpKeeps, LookupFailsKeeps
    <2>2. CASE CountsNone(p)
      BY <2>2, RefusalKeeps DEF CountsNone
    <2>3. CASE \E k \in Keys : CountsSome(p, k)
      BY <2>3, MovesKeep DEF CountsSome
    <2>4. CASE Waits(p)
      BY <2>4, MovesKeep DEF Waits
    <2>5. CASE HearsLimiter(p)
      BY <2>5, MovesKeep DEF HearsLimiter
    <2>6. CASE Scans(p)
      BY <2>6, ScansKeeps
    <2>7. CASE Upgrades(p)
      BY <2>7, UpgradesKeeps
    <2>8. CASE QueryFails(p) \/ Ends(p)
      BY <2>8, QueryFailsKeeps, EndsKeeps
    <2> QED BY <1>2, <2>1, <2>2, <2>3, <2>4, <2>5, <2>6, <2>7, <2>8 DEF HandshakeStep
  <1>3. CASE Restart
    <2> USE <1>3 DEF AuthInv, Restart, rowVars
    <2>1. AuthTypes'
      BY DEF AuthTypes
    <2>2. RowsAgree'
      BY DEF RowsAgree, Rows
    <2>3. Witnesses' /\ Found' /\ Missed' /\ RefusedForCause'
      BY DEF Witnesses, Found, Missed, RefusedForCause, Steps
    <2> QED BY <2>1, <2>2, <2>3
  <1>4. CASE TimePasses \/ UNCHANGED vars
    <2>1. UNCHANGED authVars
      BY <1>4 DEF TimePasses, vars
    <2> USE <2>1 DEF AuthInv, authVars, rowVars, historyVars
    <2>2. AuthTypes'
      BY DEF AuthTypes
    <2>3. RowsAgree' /\ Witnesses' /\ Found' /\ Missed' /\ RefusedForCause'
      BY DEF RowsAgree, Witnesses, Found, Missed, RefusedForCause, Holders, Rows
    <2> QED BY <2>2, <2>3
  <1> QED BY <1>1, <1>2, <1>3, <1>4 DEF Next

-----------------------------------------------------------------------------
(***************************************************************************)
(* The results.                                                            *)
(***************************************************************************)

\* The limiter inside the handshakes is a limiter.
LEMMA LimiterWithin == Spec => LimiterSpec
  <1>1. Init => LimiterInit
    BY DEF Init
  <1> QED BY <1>1, LimiterSteps, PTL DEF Spec, LimiterSpec

LEMMA AuthInvariant == Spec => []AuthInv
  BY InitAuthInv, StepAuthInv, PTL DEF Spec

\* The types, for any number of nodes, tokens and handshakes.
THEOREM Types == Spec => []TypeOK
  <1>1. AuthInv /\ LimiterTypeOK => TypeOK
    BY DEF AuthInv, AuthTypes, TypeOK
  <1> QED BY <1>1, AuthInvariant, LimiterWithin, LimiterTypes, PTL

\* Nobody gets in with a token that was not an enabled node's at some moment of the
\* handshake (AuthenticateNode, auth.go:160-209).
THEOREM Admitted == Spec => []AdmittedWhenEntitled
  <1>1. AuthInv => AdmittedWhenEntitled
    BY DEF AuthInv, Found, AdmittedWhenEntitled
  <1> QED BY <1>1, AuthInvariant, PTL

\* A node is told that its token is bad when there was a moment of the handshake at
\* which it was, when the index was given under its eyes, or when a query of the
\* handshake failed, which has the same answer; never because it is throttled
\* (auth.go:160-209, hub.go:96-107).
THEOREM Refused == Spec => []RefusedForCause
  <1>1. AuthInv => RefusedForCause
    BY DEF AuthInv
  <1> QED BY <1>1, AuthInvariant, PTL

\* Whatever handshakes, scans and changes of the rows go on around it, the limiter
\* lets no address have more slow scans than its budget (allowSlow, hub.go:97).
THEOREM HandshakesConform == Spec => []Conforms
  BY LimiterWithin, LimiterConforms, PTL

\* And it refuses none that the budget allows: handshakes are throttled as the
\* abstract limiter throttles (allowSlow, hub.go:97).
THEOREM HandshakesThrottled == Spec => KeepsPromise
  BY LimiterWithin, LimiterKeepsPromise, PTL
=============================================================================
