----------------------------- MODULE HubProofs -----------------------------
(***************************************************************************)
(* What is proved of the hub for any set of nodes, connections, writers    *)
(* and flush goroutines and any number of changes.                         *)
(***************************************************************************)
EXTENDS Hub, TLAPS

\* The panel starts with well-typed variables.
LEMMA TypeCorrectInit == Init => TypeOK
<1> SUFFICES ASSUME Init PROVE TypeOK
  OBVIOUS
<1>1. /\ ver \in [Nodes -> [Kinds -> Nat]]
      /\ pendUsers \in BOOLEAN /\ pendConfig \in SUBSET Nodes
      /\ pendTimer \in {"nil", "armed", "fired"} /\ orphans \in Nat /\ started \in Nat
  BY DEF Init
<1>2. /\ owedUsers \in [Writers -> BOOLEAN]
      /\ owedConfig \in [Writers -> SUBSET Nodes]
      /\ helloed \in [Conns -> BOOLEAN]
      /\ takenUsers \in [Flushers -> BOOLEAN]
  BY Zenon DEF Init
<1>3. /\ conns \in [Nodes -> Conns \cup {NoConn}]
      /\ state \in [Conns -> {"unused", "accepted", "open", "closed", "gone"}]
      /\ peer \in [Conns -> {"up", "silent"}]
      /\ phase \in [Flushers -> {"idle", "taken", "pushing"}]
      /\ takenConfig \in [Flushers -> SUBSET Nodes]
      /\ todo \in [Flushers -> SUBSET Conns]
  BY DEF Init
<1>4. /\ target \in [Pushers -> Conns \cup {NoConn}]
      /\ want \in [Pushers -> SUBSET Kinds]
      /\ got \in [Pushers -> Nat \cup {NotRead}]
      /\ held \in [Conns -> [Kinds -> Nat \cup {NotRead}]]
      /\ overtaken \in [Conns -> SUBSET Kinds]
      /\ missed \in [Conns -> SUBSET Kinds]
  BY DEF Init
<1>. QED
  BY <1>1, <1>2, <1>3, <1>4 DEF TypeOK

\* The variables have the types the code gives them, in every reachable state.
THEOREM TypeCorrect == Spec => []TypeOK
<1>1. Init => TypeOK
  BY TypeCorrectInit
<1>2. TypeOK /\ [Next]_vars => TypeOK'
  <2> SUFFICES ASSUME TypeOK, [Next]_vars
               PROVE  TypeOK'
    OBVIOUS
  <2> USE HubAssumption DEF TypeOK, dbVars, pendVars, connVars, flushVars, pushVars, outVars
  <2>1. ASSUME NEW w \in Writers, CommitUsers(w)
        PROVE  TypeOK'
    BY <2>1 DEF CommitUsers, Bump
  <2>2. ASSUME NEW w \in Writers, NEW N \in SUBSET Nodes, CommitConfig(w, N)
        PROVE  TypeOK'
    BY <2>2 DEF CommitConfig, Bump
  <2>3. ASSUME NEW w \in Writers, UsersChanged(w)
        PROVE  TypeOK'
    BY <2>3 DEF UsersChanged, Schedule
  <2>4. ASSUME NEW w \in Writers, NEW n \in Nodes, ConfigChanged(w, n)
        PROVE  TypeOK'
    BY <2>4 DEF ConfigChanged, Schedule
  <2>5. CASE TimerFires
    BY <2>5 DEF TimerFires
  <2>6. ASSUME NEW f \in Flushers, FlushTakes(f)
        PROVE  TypeOK'
    <3>1. takenUsers' \in [Flushers -> BOOLEAN]
      BY <2>6, Zenon DEF FlushTakes
    <3>2. /\ takenConfig' \in [Flushers -> SUBSET Nodes]
          /\ phase' \in [Flushers -> {"idle", "taken", "pushing"}]
      BY <2>6 DEF FlushTakes
    <3>3. orphans' \in Nat /\ started' \in Nat /\ pendTimer' = "nil"
      BY <2>6 DEF FlushTakes
    <3>. QED
      BY <2>6, <3>1, <3>2, <3>3 DEF FlushTakes
  <2>7. ASSUME NEW f \in Flushers, FlushSnapshots(f)
        PROVE  TypeOK'
    BY <2>7 DEF FlushSnapshots
  <2>8. ASSUME NEW f \in Flushers, NEW c \in Conns, FlushVisits(f, c)
        PROVE  TypeOK'
    <3>1. Wanted(f, c) \in SUBSET Kinds
      BY DEF Wanted, Kinds
    <3>2. todo' \in [Flushers -> SUBSET Conns]
      BY <2>8 DEF FlushVisits
    <3>3. /\ target' \in [Pushers -> Conns \cup {NoConn}]
          /\ want' \in [Pushers -> SUBSET Kinds]
          /\ got' \in [Pushers -> Nat \cup {NotRead}]
      <4>1. CASE UNCHANGED pushVars
        BY <4>1
      <4>2. CASE /\ target' = [target EXCEPT ![f] = c]
                 /\ want' = [want EXCEPT ![f] = Wanted(f, c)]
                 /\ UNCHANGED got
        BY <4>2, <3>1
      <4>. QED
        BY <2>8, <4>1, <4>2 DEF FlushVisits
    <3>. QED
      BY <2>8, <3>2, <3>3 DEF FlushVisits
  <2>9. ASSUME NEW f \in Flushers, FlushReturns(f)
        PROVE  TypeOK'
    BY <2>9 DEF FlushReturns
  <2>10. ASSUME NEW p \in Pushers, Read(p)
         PROVE  TypeOK'
    BY <2>10 DEF Read, NextKind, Kinds
  <2>11. ASSUME NEW p \in Pushers, ReadFails(p)
         PROVE  TypeOK'
    BY <2>11 DEF ReadFails, Miss, Return
  <2>12. ASSUME NEW p \in Pushers, Write(p)
         PROVE  TypeOK'
    <3> DEFINE c == target[p]
               k == NextKind(p)
    <3>1. c \in Conns /\ k \in Kinds /\ got[p] \in Nat \cup {NotRead}
      BY <2>12 DEF Write, NextKind, Kinds
    <3>2. held' = [held EXCEPT ![c][k] = got[p]]
      BY <2>12 DEF Write
    <3>3. held' \in [Conns -> [Kinds -> Nat \cup {NotRead}]]
      BY <3>1, <3>2
    <3>4. overtaken' \in [Conns -> SUBSET Kinds] /\ missed' \in [Conns -> SUBSET Kinds]
      BY <2>12, <3>1 DEF Write
    <3>5. /\ target' \in [Pushers -> Conns \cup {NoConn}]
          /\ want' \in [Pushers -> SUBSET Kinds]
          /\ got' \in [Pushers -> Nat \cup {NotRead}]
      <4>1. CASE want[p] = {k}
        BY <2>12, <4>1 DEF Write, Return
      <4>2. CASE want[p] # {k}
        <5>1. /\ want' = [want EXCEPT ![p] = want[p] \ {k}]
              /\ got' = [got EXCEPT ![p] = NotRead]
              /\ target' = target
          BY <2>12, <4>2 DEF Write
        <5>2. want[p] \ {k} \in SUBSET Kinds
          OBVIOUS
        <5>. QED
          BY <5>1, <5>2
      <4>. QED
        BY <4>1, <4>2
    <3>. QED
      BY <2>12, <3>3, <3>4, <3>5 DEF Write
  <2>13. ASSUME NEW p \in Pushers, WriteFails(p)
         PROVE  TypeOK'
    BY <2>13 DEF WriteFails, Return
  <2>14. ASSUME NEW p \in Pushers, WriteTimesOut(p)
         PROVE  TypeOK'
    BY <2>14 DEF WriteTimesOut, Return
  <2>15. ASSUME NEW f \in Flushers, BudgetSpent(f)
         PROVE  TypeOK'
    BY <2>15 DEF BudgetSpent, Miss, Return, Pushers
  <2>16. ASSUME NEW c \in Conns, Accept(c)
         PROVE  TypeOK'
    BY <2>16 DEF Accept
  <2>17. ASSUME NEW c \in Conns, Serve(c)
         PROVE  TypeOK'
    BY <2>17 DEF Serve
  <2>18. ASSUME NEW c \in Conns, Hello(c)
         PROVE  TypeOK'
    BY <2>18 DEF Hello, Pushers
  <2>19. ASSUME NEW c \in Conns, PeerCloses(c) \/ GoesSilent(c) \/ KeepaliveExpires(c)
         PROVE  TypeOK'
    BY <2>19 DEF PeerCloses, GoesSilent, KeepaliveExpires
  <2>20. ASSUME NEW c \in Conns, ServeReturns(c)
         PROVE  TypeOK'
    BY <2>20 DEF ServeReturns, Forget, NotRead
  <2>21. CASE Restart
    BY <2>21 DEF Restart, Forget, NotRead
  <2>22. CASE UNCHANGED vars
    BY <2>22 DEF vars
  <2>. QED
    BY <2>1, <2>2, <2>3, <2>4, <2>5, <2>6, <2>7, <2>8, <2>9, <2>10, <2>11, <2>12, <2>13,
       <2>14, <2>15, <2>16, <2>17, <2>18, <2>19, <2>20, <2>21, <2>22
       DEF Next, FlushStep, PushStep, ServeStep
<1>3. QED
  BY <1>1, <1>2, PTL DEF Spec

-----------------------------------------------------------------------------
(***************************************************************************)
(* The connection table.                                                   *)
(***************************************************************************)

\* The panel starts with an empty table.
LEMMA TableCorrectInit == Init => OneConnectionPerNode
  BY HubAssumption DEF Init, OneConnectionPerNode

\* An open connection is the registered one, and a registered one has not been
\* torn down: no interleaving of handshakes, replacements, failures and late
\* teardowns leaves a shadow connection or evicts a live one.
THEOREM TableCorrect == Spec => []OneConnectionPerNode
<1>1. Init => OneConnectionPerNode
  BY TableCorrectInit
<1>2. TypeOK /\ OneConnectionPerNode /\ [Next]_vars => OneConnectionPerNode'
  <2> SUFFICES ASSUME TypeOK, OneConnectionPerNode, [Next]_vars
               PROVE  OneConnectionPerNode'
    OBVIOUS
  <2> USE HubAssumption DEF TypeOK, OneConnectionPerNode
  <2>1. CASE UNCHANGED <<conns, state>>
    BY <2>1
  <2>2. ASSUME NEW w \in Writers,
               \/ CommitUsers(w)
               \/ \E N \in SUBSET Nodes : CommitConfig(w, N)
               \/ UsersChanged(w)
               \/ \E n \in Nodes : ConfigChanged(w, n)
        PROVE  UNCHANGED <<conns, state>>
    BY <2>2 DEF CommitUsers, CommitConfig, UsersChanged, ConfigChanged, connVars
  <2>3. ASSUME NEW f \in Flushers, FlushStep(f) \/ BudgetSpent(f)
        PROVE  UNCHANGED <<conns, state>>
    BY <2>3 DEF FlushStep, FlushTakes, FlushSnapshots, FlushVisits, FlushReturns,
                BudgetSpent, connVars
  <2>4. ASSUME NEW p \in Pushers, Read(p) \/ ReadFails(p) \/ Write(p) \/ WriteFails(p)
        PROVE  UNCHANGED <<conns, state>>
    BY <2>4 DEF Read, ReadFails, Write, WriteFails, connVars
  <2>5. ASSUME NEW p \in Pushers, WriteTimesOut(p)
        PROVE  OneConnectionPerNode'
    BY <2>5 DEF WriteTimesOut
  <2>6. ASSUME NEW c \in Conns, Accept(c)
        PROVE  OneConnectionPerNode'
    BY <2>6 DEF Accept
  <2>7. ASSUME NEW c \in Conns, Serve(c)
        PROVE  OneConnectionPerNode'
    BY <2>7 DEF Serve
  <2>8. ASSUME NEW c \in Conns, Hello(c) \/ GoesSilent(c)
        PROVE  UNCHANGED <<conns, state>>
    BY <2>8 DEF Hello, GoesSilent
  <2>9. ASSUME NEW c \in Conns, PeerCloses(c) \/ KeepaliveExpires(c)
        PROVE  OneConnectionPerNode'
    BY <2>9 DEF PeerCloses, KeepaliveExpires
  <2>10. ASSUME NEW c \in Conns, ServeReturns(c)
         PROVE  OneConnectionPerNode'
    BY <2>10 DEF ServeReturns
  <2>11. CASE Restart
    BY <2>11 DEF Restart
  <2>12. CASE TimerFires \/ UNCHANGED vars
    BY <2>12, <2>1 DEF TimerFires, vars, connVars
  <2>. QED
    BY <2>1, <2>2, <2>3, <2>4, <2>5, <2>6, <2>7, <2>8, <2>9, <2>10, <2>11, <2>12
       DEF Next, PushStep, ServeStep
<1>3. QED
  BY <1>1, <1>2, TypeCorrect, PTL DEF Spec

-----------------------------------------------------------------------------
(***************************************************************************)
(* The timer.                                                              *)
(***************************************************************************)

\* A raised flag always has a timer or a started flush that will take it, also
\* when a timer is reset after it has fired and when flush drops its pointer.
THEOREM FlagsAreTaken == Spec => []FlagsWillBeTaken
<1>1. Init => FlagsWillBeTaken
  BY DEF Init, FlagsWillBeTaken
<1>2. TypeOK /\ FlagsWillBeTaken /\ [Next]_vars => FlagsWillBeTaken'
  <2> SUFFICES ASSUME TypeOK, FlagsWillBeTaken, [Next]_vars
               PROVE  FlagsWillBeTaken'
    OBVIOUS
  <2> USE DEF FlagsWillBeTaken
  <2>1. CASE UNCHANGED pendVars
    BY <2>1 DEF pendVars
  <2>2. ASSUME NEW N, Schedule(N)
        PROVE  FlagsWillBeTaken'
    BY <2>2 DEF Schedule
  <2>3. CASE TimerFires
    BY <2>3 DEF TimerFires, TypeOK
  <2>4. ASSUME NEW f \in Flushers, FlushTakes(f)
        PROVE  FlagsWillBeTaken'
    BY <2>4 DEF FlushTakes
  <2>5. CASE Restart
    BY <2>5 DEF Restart
  <2>6. ASSUME NEW w \in Writers,
               \/ CommitUsers(w)
               \/ \E N \in SUBSET Nodes : CommitConfig(w, N)
               \/ UsersChanged(w)
               \/ \E n \in Nodes : ConfigChanged(w, n)
        PROVE  UNCHANGED pendVars \/ \E N : Schedule(N)
    BY <2>6 DEF CommitUsers, CommitConfig, UsersChanged, ConfigChanged
  <2>7. ASSUME NEW f \in Flushers, (FlushStep(f) /\ ~FlushTakes(f)) \/ BudgetSpent(f)
        PROVE  UNCHANGED pendVars
    BY <2>7 DEF FlushStep, FlushSnapshots, FlushVisits, FlushReturns, BudgetSpent
  <2>8. ASSUME NEW p \in Pushers, PushStep(p)
        PROVE  UNCHANGED pendVars
    BY <2>8 DEF PushStep, Read, ReadFails, Write, WriteFails, WriteTimesOut
  <2>9. ASSUME NEW c \in Conns,
               \/ Accept(c) \/ ServeStep(c) \/ Hello(c) \/ PeerCloses(c)
               \/ GoesSilent(c) \/ KeepaliveExpires(c)
        PROVE  UNCHANGED pendVars
    BY <2>9 DEF Accept, ServeStep, Serve, ServeReturns, Hello, PeerCloses, GoesSilent,
                KeepaliveExpires
  <2>10. CASE UNCHANGED vars
    BY <2>1, <2>10 DEF vars
  <2>. QED
    BY <2>1, <2>2, <2>3, <2>4, <2>5, <2>6, <2>7, <2>8, <2>9, <2>10 DEF Next
<1>3. QED
  BY <1>1, <1>2, TypeCorrect, PTL DEF Spec

-----------------------------------------------------------------------------
(***************************************************************************)
(* What holds of pushes and connections besides, and the refinement needs: *)
(* what a pushTo that is not running looks like, that hello is dispatched  *)
(* at most once and only on a connection that serve has registered, that   *)
(* what was read is no newer than the database, that nothing is written to *)
(* a connection before it is open, and that the connection registered for  *)
(* a node is one of that node.                                             *)
(***************************************************************************)
PushShape ==
    \A p \in Pushers : IF target[p] = NoConn THEN want[p] = {} /\ got[p] = NotRead
                                             ELSE want[p] # {}

HelloShape ==
    \A c \in Conns : /\ target[c] # NoConn => helloed[c]
                     /\ state[c] \in {"unused", "accepted"} => ~helloed[c]

ReadShape ==
    \A p \in Pushers : got[p] # NotRead => got[p] \in 0..ver[NodeOf[target[p]]][NextKind(p)]

FreshShape ==
    \A c \in Conns : state[c] \in {"unused", "accepted"} =>
        held[c] = [k \in Kinds |-> NotRead] /\ overtaken[c] = {} /\ missed[c] = {}

TableShape == \A n \in Nodes : conns[n] # NoConn => NodeOf[conns[n]] = n

HubInv ==
    /\ TypeOK /\ OneConnectionPerNode
    /\ PushShape /\ HelloShape /\ ReadShape /\ FreshShape /\ TableShape

\* The message pushTo is at is one of those it still wants to write.
LEMMA NextKindWanted ==
    ASSUME TypeOK, PushShape, NEW p \in Pushers, target[p] # NoConn
    PROVE  NextKind(p) \in want[p] /\ NextKind(p) \in Kinds
<1>1. want[p] # {} /\ want[p] \subseteq Kinds
  BY DEF TypeOK, PushShape
<1>2. PICK k \in want[p] : k \in {"config", "users"}
  BY <1>1 DEF Kinds
<1>3. CASE "config" \in want[p]
  BY <1>3 DEF NextKind, Kinds
<1>4. CASE "config" \notin want[p]
  BY <1>2, <1>4 DEF NextKind, Kinds
<1>. QED
  BY <1>3, <1>4

\* The two shapes are inductive with the types.
LEMMA ShapesStep ==
    ASSUME TypeOK, PushShape, HelloShape, [Next]_vars
    PROVE  PushShape' /\ HelloShape'
<1> USE HubAssumption DEF PushShape, HelloShape
<1>1. CASE UNCHANGED <<target, want, got, helloed, state>>
  BY <1>1 DEF Pushers
<1>2. ASSUME NEW w \in Writers,
             \/ CommitUsers(w)
             \/ \E N \in SUBSET Nodes : CommitConfig(w, N)
             \/ UsersChanged(w)
             \/ \E n \in Nodes : ConfigChanged(w, n)
      PROVE  UNCHANGED <<target, want, got, helloed, state>>
  BY <1>2 DEF CommitUsers, CommitConfig, UsersChanged, ConfigChanged, pushVars, connVars
<1>3. ASSUME NEW f \in Flushers, FlushTakes(f) \/ FlushSnapshots(f) \/ FlushReturns(f)
      PROVE  UNCHANGED <<target, want, got, helloed, state>>
  BY <1>3 DEF FlushTakes, FlushSnapshots, FlushReturns, pushVars, connVars
<1>4. ASSUME NEW f \in Flushers, NEW c \in Conns, FlushVisits(f, c)
      PROVE  PushShape' /\ HelloShape'
  <2>1. CASE UNCHANGED pushVars
    BY <1>4, <2>1, <1>1 DEF FlushVisits, pushVars, connVars
  <2>2. CASE /\ Wanted(f, c) # {}
             /\ target' = [target EXCEPT ![f] = c]
             /\ want' = [want EXCEPT ![f] = Wanted(f, c)]
             /\ UNCHANGED got
    <3>1. f \notin Conns /\ f \in Pushers
      BY DEF Pushers
    <3>2. PushShape'
      BY <2>2, <3>1 DEF TypeOK
    <3>3. HelloShape'
      BY <1>4, <2>2, <3>1 DEF FlushVisits, connVars, TypeOK, Pushers
    <3>. QED
      BY <3>2, <3>3
  <2>. QED
    BY <1>4, <2>1, <2>2 DEF FlushVisits
<1>5. ASSUME NEW p \in Pushers, Return(p), UNCHANGED helloed,
             UNCHANGED state \/ \E c \in Conns : state' = [state EXCEPT ![c] = "closed"]
      PROVE  PushShape' /\ HelloShape'
  BY <1>5 DEF Return, TypeOK, Pushers
<1>6. ASSUME NEW p \in Pushers, Read(p)
      PROVE  PushShape' /\ HelloShape'
  BY <1>6 DEF Read, TypeOK, Pushers, connVars
<1>7. ASSUME NEW p \in Pushers, Write(p)
      PROVE  PushShape' /\ HelloShape'
  <2>1. CASE want[p] = {NextKind(p)}
    BY <1>5, <1>7, <2>1 DEF Write, connVars
  <2>2. CASE want[p] # {NextKind(p)}
    <3>1. want[p] \ {NextKind(p)} # {}
      BY <1>7, <2>2, NextKindWanted DEF Write
    <3>2. /\ want' = [want EXCEPT ![p] = want[p] \ {NextKind(p)}]
          /\ got' = [got EXCEPT ![p] = NotRead]
          /\ target' = target /\ target[p] # NoConn
          /\ UNCHANGED <<helloed, state>>
      BY <1>7, <2>2 DEF Write, connVars
    <3>. QED
      BY <3>1, <3>2 DEF TypeOK, Pushers
  <2>. QED
    BY <2>1, <2>2
<1>8. ASSUME NEW p \in Pushers, ReadFails(p) \/ WriteFails(p) \/ WriteTimesOut(p)
      PROVE  PushShape' /\ HelloShape'
  BY <1>5, <1>8 DEF ReadFails, WriteFails, WriteTimesOut, connVars, TypeOK
<1>9. ASSUME NEW f \in Flushers, BudgetSpent(f)
      PROVE  PushShape' /\ HelloShape'
  BY <1>5, <1>9 DEF BudgetSpent, connVars, Pushers
<1>10. ASSUME NEW c \in Conns, Accept(c) \/ Serve(c) \/ PeerCloses(c) \/ KeepaliveExpires(c)
       PROVE  PushShape' /\ HelloShape'
  BY <1>10 DEF Accept, Serve, PeerCloses, KeepaliveExpires, pushVars, TypeOK, Pushers
<1>11. ASSUME NEW c \in Conns, Hello(c)
       PROVE  PushShape' /\ HelloShape'
  BY <1>11 DEF Hello, TypeOK, Pushers, Kinds
<1>12. ASSUME NEW c \in Conns, ServeReturns(c)
       PROVE  PushShape' /\ HelloShape'
  BY <1>12 DEF ServeReturns, Forget, pushVars, TypeOK, Pushers
<1>13. CASE Restart
  BY <1>13 DEF Restart, Forget, TypeOK, Pushers
<1>14. ASSUME NEW c \in Conns, GoesSilent(c)
       PROVE  UNCHANGED <<target, want, got, helloed, state>>
  BY <1>14 DEF GoesSilent, pushVars
<1>15. CASE TimerFires \/ UNCHANGED vars
  BY <1>1, <1>15 DEF TimerFires, vars, pushVars, connVars
<1>. QED
  BY <1>1, <1>2, <1>3, <1>4, <1>6, <1>7, <1>8, <1>9, <1>10, <1>11, <1>12, <1>13, <1>14, <1>15
     DEF Next, FlushStep, PushStep, ServeStep

\* A version that was read is one the database had, and it only moves on.
LEMMA ReadShapeStep ==
    ASSUME TypeOK, PushShape, HelloShape, ReadShape, [Next]_vars
    PROVE  ReadShape'
<1> USE HubAssumption DEF TypeOK, ReadShape, PushShape
<1>1. CASE UNCHANGED <<ver, target, want, got>>
  BY <1>1 DEF NextKind
<1>2. ASSUME NEW N \in SUBSET Nodes, NEW K \in SUBSET Kinds, Bump(N, K), UNCHANGED pushVars
      PROVE  ReadShape'
  <2> SUFFICES ASSUME NEW p \in Pushers, got'[p] # NotRead
               PROVE  got'[p] \in 0..ver'[NodeOf[target'[p]]][NextKind(p)']
    OBVIOUS
  <2>1. got[p] # NotRead /\ target[p] # NoConn /\ target'[p] = target[p] /\ got'[p] = got[p]
        /\ NextKind(p)' = NextKind(p)
    BY <1>2 DEF pushVars, NextKind
  <2>2. NodeOf[target[p]] \in Nodes /\ NextKind(p) \in Kinds
    BY <2>1 DEF NextKind, Kinds
  <2>3. ver'[NodeOf[target[p]]][NextKind(p)] \in Nat
        /\ ver[NodeOf[target[p]]][NextKind(p)] <= ver'[NodeOf[target[p]]][NextKind(p)]
    BY <1>2, <2>2 DEF Bump
  <2> QED BY <2>1, <2>2, <2>3
<1>3. ASSUME NEW w \in Writers,
             \/ CommitUsers(w)
             \/ \E N \in SUBSET Nodes : CommitConfig(w, N)
             \/ UsersChanged(w)
             \/ \E n \in Nodes : ConfigChanged(w, n)
      PROVE  ReadShape'
  <2>1. CASE CommitUsers(w)
    BY <1>2, <2>1 DEF CommitUsers, Kinds
  <2>2. CASE \E N \in SUBSET Nodes : CommitConfig(w, N)
    BY <1>2, <2>2 DEF CommitConfig
  <2>3. CASE UsersChanged(w) \/ \E n \in Nodes : ConfigChanged(w, n)
    BY <1>1, <2>3 DEF UsersChanged, ConfigChanged, pushVars
  <2> QED BY <1>3, <2>1, <2>2, <2>3
<1>4. ASSUME NEW p \in Pushers, Return(p), UNCHANGED ver
      PROVE  ReadShape'
  BY <1>4 DEF Return, NextKind
<1>5. ASSUME NEW f \in Flushers, FlushStep(f)
      PROVE  ReadShape'
  <2>1. CASE FlushTakes(f) \/ FlushSnapshots(f) \/ FlushReturns(f)
    BY <1>1, <2>1 DEF FlushTakes, FlushSnapshots, FlushReturns, pushVars, dbVars
  <2>2. ASSUME NEW c \in Conns, FlushVisits(f, c)
        PROVE  ReadShape'
    BY <2>2 DEF FlushVisits, pushVars, dbVars, NextKind, Pushers
  <2> QED BY <1>5, <2>1, <2>2 DEF FlushStep
<1>6. ASSUME NEW p \in Pushers, Read(p)
      PROVE  ReadShape'
  <2>1. NodeOf[target[p]] \in Nodes /\ NextKind(p) \in Kinds
    BY <1>6 DEF Read, NextKind, Kinds
  <2> QED BY <1>6, <2>1 DEF Read, dbVars, NextKind
<1>7. ASSUME NEW p \in Pushers, Write(p)
      PROVE  ReadShape'
  <2>1. CASE want[p] = {NextKind(p)}
    BY <1>4, <1>7, <2>1 DEF Write, dbVars
  <2>2. CASE want[p] # {NextKind(p)}
    BY <1>7, <2>2 DEF Write, dbVars, NextKind
  <2> QED BY <2>1, <2>2
<1>8. ASSUME NEW p \in Pushers, ReadFails(p) \/ WriteFails(p) \/ WriteTimesOut(p)
      PROVE  ReadShape'
  BY <1>4, <1>8 DEF ReadFails, WriteFails, WriteTimesOut, dbVars
<1>9. ASSUME NEW f \in Flushers, BudgetSpent(f)
      PROVE  ReadShape'
  BY <1>4, <1>9 DEF BudgetSpent, Pushers, dbVars
<1>10. ASSUME NEW c \in Conns, Hello(c)
       PROVE  ReadShape'
  <2>1. target[c] = NoConn /\ got[c] = NotRead /\ c \in Pushers
    BY <1>10 DEF Hello, HelloShape, Pushers
  <2> QED BY <1>10, <2>1 DEF Hello, dbVars, NextKind
<1>11. ASSUME NEW c \in Conns,
              Accept(c) \/ ServeStep(c) \/ PeerCloses(c) \/ GoesSilent(c) \/ KeepaliveExpires(c)
       PROVE  ReadShape'
  BY <1>1, <1>11 DEF Accept, ServeStep, Serve, ServeReturns, PeerCloses, GoesSilent, KeepaliveExpires,
     dbVars, pushVars
<1>12. CASE Restart
  BY <1>12 DEF Restart
<1>13. CASE TimerFires \/ UNCHANGED vars
  BY <1>1, <1>13 DEF TimerFires, vars, dbVars, pushVars
<1> QED BY <1>3, <1>5, <1>6, <1>7, <1>8, <1>9, <1>10, <1>11, <1>12, <1>13 DEF Next, PushStep

\* Nothing was ever written to a connection that is not open yet, nor missed.
LEMMA FreshShapeStep ==
    ASSUME TypeOK, FreshShape, [Next]_vars
    PROVE  FreshShape'
<1> USE HubAssumption DEF TypeOK, FreshShape
<1>1. CASE UNCHANGED <<state, held, overtaken, missed>>
  BY <1>1
<1>2. ASSUME NEW w \in Writers,
             \/ CommitUsers(w)
             \/ \E N \in SUBSET Nodes : CommitConfig(w, N)
             \/ UsersChanged(w)
             \/ \E n \in Nodes : ConfigChanged(w, n)
      PROVE  FreshShape'
  <2>1. ASSUME NEW N, NEW K, Bump(N, K), UNCHANGED state
        PROVE  FreshShape'
    BY <2>1 DEF Bump
  <2>2. CASE CommitUsers(w) \/ \E N \in SUBSET Nodes : CommitConfig(w, N)
    BY <2>1, <2>2 DEF CommitUsers, CommitConfig, connVars
  <2>3. CASE UsersChanged(w) \/ \E n \in Nodes : ConfigChanged(w, n)
    BY <1>1, <2>3 DEF UsersChanged, ConfigChanged, connVars, outVars
  <2> QED BY <1>2, <2>2, <2>3
<1>3. ASSUME NEW f \in Flushers, FlushStep(f)
      PROVE  FreshShape'
  BY <1>1, <1>3 DEF FlushStep, FlushTakes, FlushSnapshots, FlushVisits, FlushReturns, connVars, outVars
<1>4. ASSUME NEW p \in Pushers, Read(p) \/ WriteFails(p)
      PROVE  FreshShape'
  BY <1>1, <1>4 DEF Read, WriteFails, connVars, outVars
<1>5. ASSUME NEW p \in Pushers, Miss(p), UNCHANGED <<state, held, overtaken>>
      PROVE  FreshShape'
  BY <1>5 DEF Miss
<1>6. ASSUME NEW p \in Pushers, Write(p)
      PROVE  FreshShape'
  BY <1>6 DEF Write, connVars
<1>7. ASSUME NEW p \in Pushers, WriteTimesOut(p)
      PROVE  FreshShape'
  BY <1>7 DEF WriteTimesOut, outVars
<1>8. ASSUME NEW c \in Conns,
             Accept(c) \/ Serve(c) \/ Hello(c) \/ PeerCloses(c) \/ GoesSilent(c) \/ KeepaliveExpires(c)
      PROVE  FreshShape'
  BY <1>8 DEF Accept, Serve, Hello, PeerCloses, GoesSilent, KeepaliveExpires, outVars
<1>9. ASSUME NEW c \in Conns, ServeReturns(c)
      PROVE  FreshShape'
  BY <1>9 DEF ServeReturns, Forget
<1>10. CASE Restart
  BY <1>10 DEF Restart, Forget
<1>11. CASE TimerFires \/ UNCHANGED vars
  BY <1>1, <1>11 DEF TimerFires, vars, connVars, outVars
<1> QED BY <1>2, <1>3, <1>4, <1>5, <1>6, <1>7, <1>8, <1>9, <1>10, <1>11
        DEF Next, PushStep, ServeStep, ReadFails, BudgetSpent, connVars, Pushers

\* Only serve fills the table, under the node the connection authenticated as.
LEMMA TableShapeStep ==
    ASSUME TypeOK, TableShape, [Next]_vars
    PROVE  TableShape'
<1> USE HubAssumption DEF TypeOK, TableShape
<1>1. ASSUME NEW c \in Conns, ServeStep(c)
      PROVE  TableShape'
  BY <1>1 DEF ServeStep, Serve, ServeReturns
<1>2. CASE Restart
  BY <1>2 DEF Restart
<1>3. ASSUME NEW w \in Writers,
             \/ CommitUsers(w)
             \/ \E N \in SUBSET Nodes : CommitConfig(w, N)
             \/ UsersChanged(w)
             \/ \E n \in Nodes : ConfigChanged(w, n)
      PROVE  UNCHANGED conns
  BY <1>3 DEF CommitUsers, CommitConfig, UsersChanged, ConfigChanged, connVars
<1>4. ASSUME NEW f \in Flushers, FlushStep(f) \/ BudgetSpent(f)
      PROVE  UNCHANGED conns
  BY <1>4 DEF FlushStep, FlushTakes, FlushSnapshots, FlushVisits, FlushReturns, BudgetSpent, connVars
<1>5. ASSUME NEW p \in Pushers, PushStep(p)
      PROVE  UNCHANGED conns
  BY <1>5 DEF PushStep, Read, ReadFails, Write, WriteFails, WriteTimesOut, connVars
<1>6. ASSUME NEW c \in Conns,
             Accept(c) \/ Hello(c) \/ PeerCloses(c) \/ GoesSilent(c) \/ KeepaliveExpires(c)
      PROVE  UNCHANGED conns
  BY <1>6 DEF Accept, Hello, PeerCloses, GoesSilent, KeepaliveExpires
<1>7. CASE TimerFires \/ UNCHANGED vars
  BY <1>7 DEF TimerFires, vars, connVars
<1> QED BY <1>1, <1>2, <1>3, <1>4, <1>5, <1>6, <1>7 DEF Next

\* The invariant the refinement rests on.
LEMMA HubInvariant == Spec => []HubInv
<1>1. Init => HubInv
  <2> SUFFICES ASSUME Init PROVE PushShape /\ HelloShape /\ ReadShape /\ FreshShape /\ TableShape
    BY TypeCorrectInit, TableCorrectInit DEF HubInv
  <2> QED BY DEF Init, PushShape, HelloShape, ReadShape, FreshShape, TableShape, Pushers
<1>2. TypeOK' /\ OneConnectionPerNode' /\ HubInv /\ [Next]_vars => HubInv'
  BY ShapesStep, ReadShapeStep, FreshShapeStep, TableShapeStep DEF HubInv
<1> QED BY <1>1, <1>2, TypeCorrect, TableCorrect, PTL DEF Spec

-----------------------------------------------------------------------------
(***************************************************************************)
(* The hub delivers as Delivery promises.  First the steps that the nodes  *)
(* do not see: what is due is handed on, from the handler to the flags, to *)
(* a flush, to a pushTo, and is due all the way.                           *)
(***************************************************************************)
LEMMA Quiet ==
    ASSUME UNCHANGED ver,
           \A c \in Conns : state'[c] = "open" <=> state[c] = "open",
           \A c \in Conns : state[c] = "open" =>
               /\ held'[c] = held[c] /\ overtaken'[c] = overtaken[c] /\ missed'[c] = missed[c]
               /\ \A k \in Kinds : Due(c, k)' <=> Due(c, k)
    PROVE  UNCHANGED Promise!deliveryVars
<1>1. Open' = Open
  BY DEF Open
<1>2. View' = View
  BY DEF View
<1>3. Dirty' = Dirty
  BY DEF Dirty
<1>4. Lapsed' = Lapsed
  BY DEF Lapsed
<1> QED BY <1>1, <1>2, <1>3, <1>4 DEF Promise!deliveryVars

\* What is due stays so when nothing moves that it is due for.
LEMMA DueUnchanged ==
    ASSUME NEW c \in Conns, NEW k \in Kinds, helloed'[c] = helloed[c],
           UNCHANGED <<dbVars, pendUsers, pendConfig, flushVars, pushVars>>
    PROVE  Due(c, k)' <=> Due(c, k)
  BY DEF Due, Pushing, FlushDue, FlagDue, HandlerDue, Wanted, NextKind, dbVars, flushVars, pushVars

\* A handler notifies: what it owed is flagged.
LEMMA NotifyQuiet ==
    ASSUME HubInv, NEW w \in Writers, UsersChanged(w) \/ \E n \in Nodes : ConfigChanged(w, n)
    PROVE  UNCHANGED Promise!deliveryVars
<1> USE HubAssumption DEF HubInv, TypeOK
<1>1. UNCHANGED <<ver, connVars, flushVars, pushVars, outVars>>
  BY DEF UsersChanged, ConfigChanged
<1>2. ASSUME NEW c \in Conns, NEW k \in Kinds
      PROVE  Due(c, k)' <=> Due(c, k)
  <2>1. /\ \A p \in Pushers : Pushing(p, c, k)' <=> Pushing(p, c, k)
        /\ \A f \in Flushers : FlushDue(f, c, k)' <=> FlushDue(f, c, k)
        /\ helloed' = helloed
    BY <1>1 DEF Pushing, FlushDue, Wanted, NextKind, connVars, flushVars, pushVars
  <2>2. \A v \in Writers : v # w => (HandlerDue(v, c, k)' <=> HandlerDue(v, c, k))
    BY DEF UsersChanged, ConfigChanged, HandlerDue
  <2>3. FlagDue(c, k) => FlagDue(c, k)'
    BY DEF UsersChanged, ConfigChanged, Schedule, FlagDue
  <2>4. HandlerDue(w, c, k)' => HandlerDue(w, c, k)
    <3>1. CASE UsersChanged(w)
      BY <3>1 DEF UsersChanged, HandlerDue
    <3>2. ASSUME NEW n \in Nodes, ConfigChanged(w, n)
          PROVE  HandlerDue(w, c, k)' => HandlerDue(w, c, k)
      <4>1. owedConfig'[w] = owedConfig[w] \ {n} /\ owedUsers' = owedUsers
        BY <3>2 DEF ConfigChanged
      <4> QED BY <4>1 DEF HandlerDue
    <3> QED BY <3>1, <3>2
  <2>5. HandlerDue(w, c, k) => HandlerDue(w, c, k)' \/ FlagDue(c, k)'
    BY DEF UsersChanged, ConfigChanged, Schedule, HandlerDue, FlagDue
  <2>6. FlagDue(c, k)' => FlagDue(c, k) \/ HandlerDue(w, c, k)
    BY DEF UsersChanged, ConfigChanged, Schedule, HandlerDue, FlagDue
  <2> QED BY <2>1, <2>2, <2>3, <2>4, <2>5, <2>6 DEF Due
<1> QED BY <1>1, <1>2, Quiet DEF connVars, outVars

\* flush takes the flags before it lists the connections: what a flag was due
\* to is due to the flush, then to the list, then to a pushTo.
LEMMA FlushQuiet ==
    ASSUME HubInv, NEW f \in Flushers, FlushStep(f)
    PROVE  UNCHANGED Promise!deliveryVars
<1> USE HubAssumption DEF HubInv, TypeOK
<1>1. UNCHANGED <<dbVars, connVars, outVars>>
  BY DEF FlushStep, FlushTakes, FlushSnapshots, FlushVisits, FlushReturns
<1>2. ASSUME NEW c \in Conns, NEW k \in Kinds, state[c] = "open"
      PROVE  Due(c, k)' <=> Due(c, k)
  <2>1. CASE FlushTakes(f)
    <3>1. \A g \in Flushers : g # f => (FlushDue(g, c, k)' <=> FlushDue(g, c, k))
      BY <2>1 DEF FlushTakes, FlushDue, Wanted
    <3>2. ~FlushDue(f, c, k) /\ ~FlagDue(c, k)'
      BY <2>1 DEF FlushTakes, FlushDue, FlagDue, Kinds
    <3>3. FlushDue(f, c, k)' <=> FlagDue(c, k)
      BY <2>1 DEF FlushTakes, FlushDue, FlagDue, Wanted, Kinds
    <3> QED BY <2>1, <3>1, <3>2, <3>3 DEF FlushTakes, Due, Pushing, HandlerDue, NextKind,
            dbVars, connVars, pushVars
  <2>2. CASE FlushSnapshots(f)
    <3>1. \A g \in Flushers : FlushDue(g, c, k)' <=> FlushDue(g, c, k)
      BY <1>2, <2>2 DEF FlushSnapshots, FlushDue, Wanted, OneConnectionPerNode
    <3> QED BY <2>2, <3>1 DEF FlushSnapshots, Due, Pushing, FlagDue, HandlerDue, NextKind,
            dbVars, pendVars, connVars, pushVars
  <2>3. ASSUME NEW d \in Conns, FlushVisits(f, d)
        PROVE  Due(c, k)' <=> Due(c, k)
    <3>1. \A g \in Flushers : g # f \/ d # c => (FlushDue(g, c, k)' <=> FlushDue(g, c, k))
      BY <2>3 DEF FlushVisits, FlushDue, Wanted
    <3>2. \A p \in Pushers : p # f \/ d # c => (Pushing(p, c, k)' <=> Pushing(p, c, k))
      BY <2>3 DEF FlushVisits, Pushing, NextKind, dbVars, pushVars
    <3>3. d = c => ~FlushDue(f, c, k)' /\ ~Pushing(f, c, k) /\ (FlushDue(f, c, k) <=> Pushing(f, c, k)')
      BY <2>3 DEF FlushVisits, FlushDue, Pushing, PushShape, Pushers, pushVars
    <3> QED BY <2>3, <3>1, <3>2, <3>3 DEF FlushVisits, Due, FlagDue, HandlerDue, Pushers,
            dbVars, pendVars, connVars
  <2>4. CASE FlushReturns(f)
    <3>1. \A g \in Flushers : FlushDue(g, c, k)' <=> FlushDue(g, c, k)
      BY <2>4 DEF FlushReturns, FlushDue, Wanted
    <3> QED BY <2>4, <3>1 DEF FlushReturns, Due, Pushing, FlagDue, HandlerDue, NextKind,
            dbVars, pendVars, connVars, pushVars
  <2> QED BY <2>1, <2>2, <2>3, <2>4 DEF FlushStep
<1> QED BY <1>1, <1>2, Quiet DEF dbVars, connVars, outVars

\* Reading the database changes nothing, nor does failing to write to a
\* connection that is no longer open.
LEMMA ReadQuiet ==
    ASSUME HubInv, NEW p \in Pushers, Read(p) \/ WriteFails(p)
    PROVE  UNCHANGED Promise!deliveryVars
<1> USE DEF HubInv, TypeOK
<1>1. UNCHANGED <<dbVars, pendVars, connVars, flushVars, outVars>>
  BY DEF Read, WriteFails
<1>2. ASSUME NEW c \in Conns, NEW k \in Kinds, state[c] = "open"
      PROVE  Due(c, k)' <=> Due(c, k)
  <2>1. \A q \in Pushers : q # p => (Pushing(q, c, k)' <=> Pushing(q, c, k))
    BY <1>1 DEF Read, WriteFails, Return, Pushing, NextKind, dbVars
  <2>2. Pushing(p, c, k)' <=> Pushing(p, c, k)
    <3>1. CASE Read(p)
      BY <3>1 DEF Read, Pushing, NextKind, dbVars
    <3>2. CASE WriteFails(p)
      <4>1. target[p] # c
        BY <1>2, <3>2 DEF WriteFails
      <4>2. target'[p] # c
        BY <3>2, HubAssumption DEF WriteFails, Return
      <4> QED BY <4>1, <4>2 DEF Pushing
    <3> QED BY <3>1, <3>2
  <2> QED BY <1>1, <2>1, <2>2 DEF Due, FlushDue, FlagDue, HandlerDue, Wanted,
          dbVars, pendVars, connVars, flushVars
<1> QED BY <1>1, <1>2, Quiet DEF dbVars, connVars, outVars

\* A handshake, a hello, a loss of the peer and a late teardown: an open
\* connection is due everything until its own hello, and its hello pushes it.
LEMMA ConnQuiet ==
    ASSUME HubInv, NEW d \in Conns,
           Accept(d) \/ Hello(d) \/ GoesSilent(d) \/ ServeReturns(d)
    PROVE  UNCHANGED Promise!deliveryVars
<1> USE HubAssumption DEF HubInv, TypeOK
<1>1. UNCHANGED <<dbVars, pendVars, flushVars>>
  BY DEF Accept, Hello, GoesSilent, ServeReturns
<1>2. \A c \in Conns : state'[c] = "open" <=> state[c] = "open"
  BY DEF Accept, Hello, GoesSilent, ServeReturns
<1>3. \A c \in Conns : state[c] = "open" =>
          held'[c] = held[c] /\ overtaken'[c] = overtaken[c] /\ missed'[c] = missed[c]
  BY DEF Accept, Hello, GoesSilent, ServeReturns, Forget, outVars
<1>4. ASSUME NEW c \in Conns, NEW k \in Kinds, state[c] = "open"
      PROVE  Due(c, k)' <=> Due(c, k)
  <2>1. CASE Hello(d) /\ c = d
    <3>1. target[d] = NoConn /\ got[d] = NotRead /\ d \in Pushers
      BY <2>1 DEF Hello, HelloShape, PushShape, Pushers
    <3>2. Pushing(d, d, k)' /\ ~helloed[d]
      BY <2>1, <3>1 DEF Hello, Pushing
    <3> QED BY <2>1, <3>1, <3>2 DEF Due
  <2>2. CASE Hello(d) /\ c # d
    <3>1. target[d] = NoConn /\ d \in Pushers
      BY <2>2 DEF Hello, HelloShape, Pushers
    <3>2. \A q \in Pushers : Pushing(q, c, k)' <=> Pushing(q, c, k)
      BY <2>2, <3>1 DEF Hello, Pushing, NextKind, dbVars
    <3>3. helloed'[c] = helloed[c]
      BY <2>2 DEF Hello
    <3> QED BY <1>1, <3>2, <3>3 DEF Due, FlushDue, FlagDue, HandlerDue, Wanted,
            dbVars, pendVars, flushVars
  <2>3. CASE ~Hello(d)
    <3>1. helloed'[c] = helloed[c] /\ UNCHANGED pushVars
      BY <1>4, <2>3 DEF Accept, GoesSilent, ServeReturns, Forget
    <3> QED BY <1>1, <3>1, DueUnchanged DEF pendVars
  <2> QED BY <2>1, <2>2, <2>3
<1> QED BY <1>1, <1>2, <1>3, <1>4, Quiet DEF dbVars

\* The timer only starts a goroutine.
LEMMA TimerQuiet ==
    ASSUME TimerFires \/ UNCHANGED vars
    PROVE  UNCHANGED Promise!deliveryVars
<1>1. UNCHANGED <<dbVars, pendUsers, pendConfig, connVars, flushVars, pushVars, outVars>>
  BY DEF TimerFires, vars, pendVars
<1> QED BY <1>1, DueUnchanged, Quiet DEF dbVars, connVars, outVars

(***************************************************************************)
(* Then the steps that the nodes see.                                      *)
(***************************************************************************)

\* A commit: the handler owes a notification from the very step on.
LEMMA BumpChanges ==
    ASSUME HubInv, NEW w \in Writers, NEW N \in SUBSET Nodes, NEW K \in SUBSET Kinds,
           Bump(N, K),
           UNCHANGED <<pendVars, connVars, flushVars, pushVars>>,
           Idle(w),
           \A v \in Writers : v # w => owedUsers'[v] = owedUsers[v] /\ owedConfig'[v] = owedConfig[v],
           \A c \in Conns, k \in K : NodeOf[c] \in N => HandlerDue(w, c, k)'
    PROVE  Promise!Change
<1> USE HubAssumption DEF HubInv, TypeOK
<1>1. /\ ver' \in [Nodes -> [Kinds -> Nat]]
      /\ \A n \in Nodes, k \in Kinds : ver'[n][k] >= ver[n][k]
      /\ \A c \in Conns, k \in Kinds :
             ver'[NodeOf[c]][k] # ver[NodeOf[c]][k] <=> NodeOf[c] \in N /\ k \in K
  BY DEF Bump
<1>2. Open' = Open /\ \A c \in Conns : state'[c] = "open" <=> c \in Open
  BY DEF Open, connVars
<1>3. View' = View
  BY <1>2 DEF View, Bump, connVars
<1>4. /\ Dirty' \in [Conns -> SUBSET Kinds]
      /\ \A c \in Conns : c \notin Open => Dirty'[c] = {}
  BY <1>2 DEF Dirty
<1>5. ASSUME NEW c \in Conns, c \in Open, NEW k \in Kinds,
             k \in Dirty[c] \/ ver'[NodeOf[c]][k] # ver[NodeOf[c]][k]
      PROVE  k \in Dirty'[c]
  <2>1. CASE NodeOf[c] \in N /\ k \in K
    <3>1. Due(c, k)'
      BY <2>1 DEF Due
    <3> QED BY <1>2, <1>5, <3>1 DEF Dirty
  <2>2. CASE ~(NodeOf[c] \in N /\ k \in K)
    <3>1. Due(c, k) /\ ver'[NodeOf[c]][k] = ver[NodeOf[c]][k]
      BY <1>1, <1>5, <2>2 DEF Dirty
    <3>2. /\ \A p \in Pushers : Pushing(p, c, k) => Pushing(p, c, k)'
          /\ \A f \in Flushers : FlushDue(f, c, k) => FlushDue(f, c, k)'
          /\ FlagDue(c, k) => FlagDue(c, k)'
          /\ helloed' = helloed
      BY <3>1 DEF Pushing, FlushDue, FlagDue, Wanted, NextKind,
         pendVars, connVars, flushVars, pushVars
    <3>3. \A v \in Writers : HandlerDue(v, c, k) => HandlerDue(v, c, k)'
      BY DEF Idle, HandlerDue
    <3>4. Due(c, k)'
      BY <3>1, <3>2, <3>3 DEF Due
    <3> QED BY <1>2, <1>5, <3>4 DEF Dirty
  <2> QED BY <2>1, <2>2
<1>6. \A c \in Conns : Lapsed'[c] = Lapsed[c] \ Promise!Changed(c)
  <2> TAKE c \in Conns
  <2>1. CASE c \notin Open
    <3>1. Lapsed[c] = {} /\ Lapsed'[c] = {}
      BY <1>2, <2>1 DEF Lapsed, Open
    <3> QED BY <3>1
  <2>2. CASE c \in Open
    <3>1. Lapsed[c] = overtaken[c] \cup missed[c] /\ Lapsed'[c] = overtaken'[c] \cup missed'[c]
      BY <1>2, <2>2 DEF Lapsed, Open
    <3>2. CASE NodeOf[c] \in N
      <4>1. overtaken'[c] = overtaken[c] \ K /\ missed'[c] = missed[c] \ K
        BY <3>2 DEF Bump
      <4>2. Promise!Changed(c) = K
        BY <1>1, <3>2 DEF Promise!Changed
      <4> QED BY <3>1, <4>1, <4>2
    <3>3. CASE NodeOf[c] \notin N
      <4>1. overtaken'[c] = overtaken[c] /\ missed'[c] = missed[c]
        BY <3>3 DEF Bump
      <4>2. Promise!Changed(c) = {}
        BY <1>1, <3>3 DEF Promise!Changed
      <4> QED BY <3>1, <4>1, <4>2
    <3> QED BY <3>2, <3>3
  <2> QED BY <2>1, <2>2
<1>7. Lapsed' = [c \in Conns |-> Lapsed[c] \ Promise!Changed(c)]
  BY <1>6 DEF Lapsed
<1>8. \A c \in Conns : IF c \in Open THEN Dirty[c] \cup Promise!Changed(c) \subseteq Dirty'[c]
                                     ELSE Dirty'[c] = {}
  BY <1>4, <1>5 DEF Promise!Changed, Dirty
<1> QED BY <1>1, <1>2, <1>3, <1>4, <1>7, <1>8 DEF Promise!Change

LEMMA CommitChanges ==
    ASSUME HubInv, NEW w \in Writers,
           CommitUsers(w) \/ \E N \in SUBSET Nodes : CommitConfig(w, N)
    PROVE  Promise!Change
<1>1. CASE CommitUsers(w)
  <2>1. \A c \in Conns, k \in {"users"} : NodeOf[c] \in Nodes => HandlerDue(w, c, k)'
    BY <1>1 DEF CommitUsers, HandlerDue, HubInv, TypeOK
  <2>2. /\ Bump(Nodes, {"users"}) /\ Idle(w)
        /\ UNCHANGED <<pendVars, connVars, flushVars, pushVars>>
        /\ \A v \in Writers : v # w => owedUsers'[v] = owedUsers[v] /\ owedConfig'[v] = owedConfig[v]
    BY <1>1 DEF CommitUsers, HubInv, TypeOK
  <2>3. {"users"} \in SUBSET Kinds /\ Nodes \in SUBSET Nodes
    BY DEF Kinds
  <2> QED BY <2>1, <2>2, <2>3, BumpChanges
<1>2. ASSUME NEW N \in SUBSET Nodes, CommitConfig(w, N)
      PROVE  Promise!Change
  <2>1. \A c \in Conns, k \in Kinds : NodeOf[c] \in N => HandlerDue(w, c, k)'
    BY <1>2 DEF CommitConfig, HandlerDue, HubInv, TypeOK
  <2>2. /\ Bump(N, Kinds) /\ Idle(w)
        /\ UNCHANGED <<pendVars, connVars, flushVars, pushVars>>
        /\ \A v \in Writers : v # w => owedUsers'[v] = owedUsers[v] /\ owedConfig'[v] = owedConfig[v]
    BY <1>2 DEF CommitConfig, HubInv, TypeOK
  <2> QED BY <2>1, <2>2, BumpChanges
<1> QED BY <1>1, <1>2

\* The connections D close, and nothing else moves.
LEMMA ClosingCloses ==
    ASSUME NEW D \in SUBSET Conns, UNCHANGED ver,
           \A c \in Conns : state'[c] = "open" <=> state[c] = "open" /\ c \notin D,
           \A c \in Conns : state'[c] = "open" =>
               /\ held'[c] = held[c] /\ overtaken'[c] = overtaken[c] /\ missed'[c] = missed[c]
               /\ \A k \in Kinds : Due(c, k)' <=> Due(c, k)
    PROVE  Promise!Closes(D)
<1>1. Open' = Open \ D
  BY DEF Open
<1>2. View' = Promise!Without(View, D, Promise!Blank)
  BY DEF View, Promise!Without, Promise!Blank
<1>3. Dirty' = Promise!Without(Dirty, D, {})
  <2>1. \A c \in Conns : Dirty'[c] = IF c \in D THEN {} ELSE Dirty[c]
    <3> TAKE c \in Conns
    <3>1. CASE state'[c] = "open"
      BY <3>1 DEF Dirty
    <3>2. CASE state'[c] # "open"
      <4>1. Dirty'[c] = {} /\ (c \notin D => Dirty[c] = {})
        BY <3>2 DEF Dirty
      <4> QED BY <4>1
    <3> QED BY <3>1, <3>2
  <2> QED BY <2>1 DEF Dirty, Promise!Without
<1>4. Lapsed' = Promise!Without(Lapsed, D, {})
  BY DEF Lapsed, Promise!Without
<1> QED BY <1>1, <1>2, <1>3, <1>4 DEF Promise!Closes

\* A connection closes under a push, under its read loop, or under keepalive.
LEMMA LossCloses ==
    ASSUME HubInv, NEW d \in Conns, state[d] = "open",
           \/ PeerCloses(d) \/ KeepaliveExpires(d)
           \/ \E p \in Pushers : WriteTimesOut(p) /\ target[p] = d
    PROVE  Promise!Closes({d})
<1> USE HubAssumption DEF HubInv, TypeOK
<1>1. /\ state' = [state EXCEPT ![d] = "closed"] /\ helloed' = helloed
      /\ UNCHANGED <<dbVars, pendVars, flushVars, outVars>>
  BY DEF PeerCloses, KeepaliveExpires, WriteTimesOut
<1>2. ASSUME NEW c \in Conns, c # d, NEW k \in Kinds
      PROVE  Due(c, k)' <=> Due(c, k)
  <2>1. CASE UNCHANGED pushVars
    BY <1>1, <2>1, DueUnchanged DEF pendVars
  <2>2. ASSUME NEW p \in Pushers, WriteTimesOut(p), target[p] = d
        PROVE  Due(c, k)' <=> Due(c, k)
    <3>1. \A q \in Pushers : Pushing(q, c, k)' <=> Pushing(q, c, k)
      BY <1>2, <2>2 DEF WriteTimesOut, Return, Pushing, NextKind, dbVars
    <3> QED BY <1>1, <3>1 DEF Due, FlushDue, FlagDue, HandlerDue, Wanted, dbVars, pendVars, flushVars
  <2> QED BY <2>1, <2>2 DEF PeerCloses, KeepaliveExpires
<1>3. \A c \in Conns : state'[c] = "open" <=> state[c] = "open" /\ c \notin {d}
  BY <1>1
<1>4. UNCHANGED <<ver, held, overtaken, missed>> /\ {d} \in SUBSET Conns
  BY <1>1 DEF dbVars, outVars
<1> HIDE DEF HubInv, TypeOK
<1> QED BY <1>2, <1>3, <1>4, ClosingCloses

\* A restart closes them all.
LEMMA RestartCloses ==
    ASSUME HubInv, Restart
    PROVE  Promise!Closes(Conns)
<1>1. /\ UNCHANGED ver
      /\ \A c \in Conns : state'[c] # "open"
  BY DEF Restart
<1> QED BY <1>1, ClosingCloses

\* serve registers a connection, and closes the one it replaces.
LEMMA ServeOpens ==
    ASSUME HubInv, NEW c \in Conns, Serve(c)
    PROVE  Promise!Opens(c)
<1> USE HubAssumption DEF HubInv, TypeOK
<1> DEFINE D == {d \in Open : NodeOf[d] = NodeOf[c]}
<1>1. /\ state[c] = "accepted" /\ c \notin Open /\ ~helloed[c] /\ D \in SUBSET Conns /\ c \notin D
      /\ UNCHANGED <<helloed, dbVars, pendVars, flushVars, pushVars, outVars>>
  BY DEF Serve, HelloShape, Open
<1>2. \A d \in Conns : state'[d] = "open" <=> d = c \/ (state[d] = "open" /\ d \notin D)
  <2> TAKE d \in Conns
  <2>1. d \in D => d = conns[NodeOf[c]]
    BY DEF OneConnectionPerNode, Open
  <2>2. d = conns[NodeOf[c]] /\ state[d] = "open" => d \in D
    BY DEF TableShape, Open
  <2> QED BY <1>1, <2>1, <2>2 DEF Serve, Open
<1>3. \A d \in Conns, k \in Kinds : Due(d, k)' <=> Due(d, k)
  BY <1>1, DueUnchanged DEF pendVars
<1>4. Open' = (Open \ D) \cup {c}
  BY <1>2 DEF Open
<1>5. View' = Promise!Without(View, D, Promise!Blank)
  <2>1. \A d \in Conns : View'[d] = IF d \in D THEN Promise!Blank ELSE View[d]
    BY <1>1, <1>2 DEF View, FreshShape, Promise!Blank, outVars
  <2> QED BY <2>1 DEF View, Promise!Without
<1>6. Dirty' = [Promise!Without(Dirty, D, {}) EXCEPT ![c] = Kinds]
  <2>1. ASSUME NEW d \in Conns
        PROVE  Dirty'[d] = IF d = c THEN Kinds ELSE IF d \in D THEN {} ELSE Dirty[d]
    <3>1. CASE d = c
      <4>1. \A k \in Kinds : Due(c, k)'
        BY <1>1 DEF Due
      <4>2. state'[c] = "open"
        BY <1>2
      <4> QED BY <3>1, <4>1, <4>2 DEF Dirty
    <3>2. CASE d # c /\ state'[d] = "open"
      <4>1. state[d] = "open" /\ d \notin D
        BY <1>2, <3>2
      <4> QED BY <1>3, <3>2, <4>1 DEF Dirty
    <3>3. CASE d # c /\ state'[d] # "open"
      <4>1. Dirty'[d] = {} /\ (d \notin D => Dirty[d] = {})
        BY <1>2, <3>3 DEF Dirty
      <4> QED BY <3>3, <4>1
    <3> QED BY <3>1, <3>2, <3>3
  <2> QED BY <2>1 DEF Dirty, Promise!Without
<1>7. Lapsed' = Promise!Without(Lapsed, D, {})
  <2>1. \A d \in Conns : Lapsed'[d] = IF d \in D THEN {} ELSE Lapsed[d]
    BY <1>1, <1>2 DEF Lapsed, FreshShape, outVars
  <2> QED BY <2>1 DEF Lapsed, Promise!Without
<1> QED BY <1>1, <1>4, <1>5, <1>6, <1>7 DEF Promise!Opens, dbVars

\* A write is of the version in the database, which is what was due, or of an
\* older one, and then it was not due, and another push is.
LEMMA WriteWrites ==
    ASSUME HubInv, NEW p \in Pushers, Write(p)
    PROVE  \E c \in Conns, k \in Kinds :
               \/ Promise!Writes(c, k)
               \/ \E v \in 0..ver[NodeOf[c]][k] - 1 : Promise!WritesOld(c, k, v)
<1> USE HubAssumption DEF HubInv, TypeOK
<1> DEFINE c == target[p]
           k == NextKind(p)
<1>1. /\ c \in Conns /\ k \in Kinds /\ k \in want[p] /\ state[c] = "open" /\ got[p] # NotRead
      /\ UNCHANGED <<dbVars, pendVars, connVars, flushVars>>
  BY NextKindWanted DEF Write
<1>2. got[p] \in 0..ver[NodeOf[c]][k]
  BY <1>1 DEF ReadShape
<1> HIDE DEF c, k
<1>3. /\ held' = [held EXCEPT ![c][k] = got[p]]
      /\ overtaken' = [overtaken EXCEPT ![c] =
             IF got[p] = ver[NodeOf[c]][k] THEN overtaken[c] \ {k}
             ELSE IF held[c][k] = ver[NodeOf[c]][k] THEN overtaken[c] \cup {k} ELSE overtaken[c]]
      /\ missed' = [missed EXCEPT ![c] =
             IF got[p] = ver[NodeOf[c]][k] THEN missed[c] \ {k} ELSE missed[c]]
  BY DEF Write, c, k
<1>4. ASSUME NEW d \in Conns, NEW l \in Kinds
      PROVE  /\ Due(d, l)' => Due(d, l)
             /\ Due(d, l) /\ ~(d = c /\ l = k /\ got[p] = ver[NodeOf[c]][k]) => Due(d, l)'
  <2>1. \A q \in Pushers : q # p => (Pushing(q, d, l)' <=> Pushing(q, d, l))
    BY <1>1 DEF Write, Return, Pushing, NextKind, dbVars
  <2>2. Pushing(p, d, l)' <=> d = c /\ l # k /\ l \in want[p]
    <3>1. CASE want[p] = {k}
      <4>1. target'[p] = NoConn
        BY <3>1 DEF Write, Return, k
      <4> QED BY <3>1, <4>1 DEF Pushing
    <3>2. CASE want[p] # {k}
      <4>1. /\ target'[p] = c
            /\ want'[p] = want[p] \ {k}
            /\ got'[p] = NotRead
        BY <3>2 DEF Write, c, k
      <4> QED BY <4>1 DEF Pushing
    <3> QED BY <3>1, <3>2
  <2>3. Pushing(p, d, l) <=> d = c /\ l \in want[p] /\ (l # k \/ got[p] = ver[NodeOf[c]][k])
    BY <1>1 DEF Pushing, c, k
  <2>4. /\ \A f \in Flushers : FlushDue(f, d, l)' <=> FlushDue(f, d, l)
        /\ \A w \in Writers : HandlerDue(w, d, l)' <=> HandlerDue(w, d, l)
        /\ FlagDue(d, l)' <=> FlagDue(d, l)
        /\ helloed' = helloed
    BY <1>1 DEF FlushDue, FlagDue, HandlerDue, Wanted, dbVars, pendVars, connVars, flushVars
  <2> QED BY <2>1, <2>2, <2>3, <2>4 DEF Due
<1>5. /\ Open' = Open /\ c \in Open
      /\ UNCHANGED ver
  BY <1>1 DEF Open, connVars, dbVars
<1>6. View' = [View EXCEPT ![c][k] = got[p]]
  <2>1. \A d \in Conns : View'[d] = IF d = c THEN [View[c] EXCEPT ![k] = got[p]] ELSE View[d]
    BY <1>1, <1>3 DEF View, connVars
  <2> QED BY <2>1 DEF View
<1>7. Lapsed' = [Lapsed EXCEPT ![c] = overtaken'[c] \cup missed'[c]]
  BY <1>1, <1>3 DEF Lapsed, connVars
<1>8. View[c][k] = held[c][k] /\ Lapsed[c] = overtaken[c] \cup missed[c]
  BY <1>1 DEF View, Lapsed
<1>9. \A d \in Conns : d # c => Dirty'[d] = Dirty[d]
  BY <1>1, <1>4 DEF Dirty, connVars
<1>10. CASE got[p] = ver[NodeOf[c]][k]
  <2>1. Dirty'[c] \in {Dirty[c], Dirty[c] \ {k}}
    BY <1>1, <1>4 DEF Dirty, connVars
  <2>2. Dirty' \in {Dirty, [Dirty EXCEPT ![c] = Dirty[c] \ {k}]}
    <3>1. Dirty \in [Conns -> SUBSET Kinds] /\ Dirty' \in [Conns -> SUBSET Kinds]
      BY DEF Dirty
    <3>2. ASSUME Dirty'[c] = Dirty[c] PROVE Dirty' = Dirty
      BY <1>9, <3>1, <3>2
    <3>3. ASSUME Dirty'[c] = Dirty[c] \ {k} PROVE Dirty' = [Dirty EXCEPT ![c] = Dirty[c] \ {k}]
      BY <1>9, <3>1, <3>3
    <3> QED BY <2>1, <3>2, <3>3
  <2>3. overtaken'[c] \cup missed'[c] = Lapsed[c] \ {k}
    BY <1>1, <1>3, <1>8, <1>10
  <2> QED BY <1>1, <1>5, <1>6, <1>7, <1>10, <2>2, <2>3 DEF Promise!Writes
<1>11. CASE got[p] # ver[NodeOf[c]][k]
  <2>1. got[p] \in 0..ver[NodeOf[c]][k] - 1
    <3>1. ver[NodeOf[c]][k] \in Nat
      BY <1>1
    <3> HIDE DEF HubInv, TypeOK
    <3> QED BY <1>2, <1>11, <3>1
  <2>2. Dirty'[c] = Dirty[c]
    BY <1>1, <1>4, <1>11 DEF Dirty, connVars
  <2>3. Dirty' = Dirty
    BY <1>9, <2>2 DEF Dirty
  <2>4. overtaken'[c] \cup missed'[c] = IF Promise!Current(c, k) THEN Lapsed[c] \cup {k} ELSE Lapsed[c]
    BY <1>1, <1>3, <1>8, <1>11 DEF Promise!Current
  <2> QED BY <1>1, <1>5, <1>6, <1>7, <2>1, <2>3, <2>4 DEF Promise!WritesOld
<1> QED BY <1>10, <1>11

\* A push that gives up leaves a stale version, which was not due by it, or
\* records what is missed.
LEMMA MissGivesUp ==
    ASSUME HubInv, NEW p \in Pushers, target[p] # NoConn, Miss(p), Return(p),
           UNCHANGED <<held, overtaken, dbVars, pendVars, connVars, flushVars>>
    PROVE  UNCHANGED Promise!deliveryVars
           \/ \E c \in Conns, K \in SUBSET Kinds : Promise!GivesUp(c, K)
<1> USE HubAssumption DEF HubInv, TypeOK
<1> DEFINE c == target[p]
           K == want[p] \ (IF got[p] \in {NotRead, ver[NodeOf[c]][NextKind(p)]} THEN {} ELSE {NextKind(p)})
<1>1. /\ c \in Conns /\ K \in SUBSET Kinds
      /\ missed' = [missed EXCEPT ![c] = IF state[c] = "open" THEN missed[c] \cup K ELSE missed[c]]
  BY DEF Miss
<1>2. ASSUME NEW d \in Conns, NEW l \in Kinds
      PROVE  /\ Due(d, l)' => Due(d, l)
             /\ Due(d, l) /\ ~(d = c /\ l \in K) => Due(d, l)'
  <2>1. \A q \in Pushers : q # p => (Pushing(q, d, l)' <=> Pushing(q, d, l))
    BY DEF Return, Pushing, NextKind, dbVars
  <2>2. ~Pushing(p, d, l)' /\ (Pushing(p, d, l) => d = c /\ l \in K)
    BY DEF Return, Pushing
  <2>3. /\ \A f \in Flushers : FlushDue(f, d, l)' <=> FlushDue(f, d, l)
        /\ \A w \in Writers : HandlerDue(w, d, l)' <=> HandlerDue(w, d, l)
        /\ FlagDue(d, l)' <=> FlagDue(d, l)
        /\ helloed' = helloed
    BY DEF FlushDue, FlagDue, HandlerDue, Wanted, dbVars, pendVars, connVars, flushVars
  <2> QED BY <2>1, <2>2, <2>3 DEF Due
<1> HIDE DEF c, K
<1>3. /\ Open' = Open /\ View' = View
      /\ UNCHANGED ver
  BY DEF Open, View, connVars, dbVars
<1>4. CASE state[c] # "open"
  <2>1. UNCHANGED <<state, missed, overtaken>>
    BY <1>1, <1>4 DEF connVars
  <2>2. Dirty' = Dirty
    BY <1>2, <1>4, <2>1 DEF Dirty
  <2>3. Lapsed' = Lapsed
    BY <2>1 DEF Lapsed
  <2> QED BY <1>3, <2>2, <2>3 DEF Promise!deliveryVars
<1>5. CASE state[c] = "open"
  <2>1. /\ Dirty' \in [Conns -> SUBSET Kinds]
        /\ \A d \in Conns : /\ Dirty[d] \ (IF d = c THEN K ELSE {}) \subseteq Dirty'[d]
                            /\ Dirty'[d] \subseteq Dirty[d]
    BY <1>2 DEF Dirty, connVars
  <2>2. Lapsed' = [Lapsed EXCEPT ![c] = Lapsed[c] \cup K]
    BY <1>1, <1>5 DEF Lapsed, connVars
  <2>3. c \in Open
    BY <1>1, <1>5 DEF Open
  <2>4. Promise!GivesUp(c, K)
    <3> HIDE DEF HubInv, TypeOK
    <3> QED BY <1>3, <2>1, <2>2, <2>3 DEF Promise!GivesUp
  <2> QED BY <1>1, <2>4
<1> QED BY <1>4, <1>5

LEMMA DeliveryStarts == Init => Promise!DeliveryInit
<1> SUFFICES ASSUME Init PROVE Promise!DeliveryInit
  OBVIOUS
<1>1. ver = [n \in Nodes |-> [k \in Kinds |-> 0]] /\ \A c \in Conns : state[c] = "unused"
  BY DEF Init
<1>2. Open = {}
  BY <1>1 DEF Open
<1>3. View = [c \in Conns |-> Promise!Blank]
  BY <1>1 DEF View, Promise!Blank
<1>4. Dirty = [c \in Conns |-> {}]
  BY <1>1 DEF Dirty
<1>5. Lapsed = [c \in Conns |-> {}]
  BY <1>1 DEF Lapsed
<1> QED BY <1>1, <1>2, <1>3, <1>4, <1>5 DEF Promise!DeliveryInit

LEMMA DeliverySteps == HubInv /\ [Next]_vars => [Promise!DeliveryNext]_(Promise!deliveryVars)
<1> SUFFICES ASSUME HubInv, [Next]_vars
             PROVE  Promise!DeliveryNext \/ UNCHANGED Promise!deliveryVars
  OBVIOUS
<1>1. ASSUME NEW w \in Writers,
             \/ CommitUsers(w)
             \/ \E N \in SUBSET Nodes : CommitConfig(w, N)
      PROVE  Promise!DeliveryNext
  BY <1>1, CommitChanges DEF Promise!DeliveryNext
<1>2. ASSUME NEW w \in Writers, UsersChanged(w) \/ \E n \in Nodes : ConfigChanged(w, n)
      PROVE  UNCHANGED Promise!deliveryVars
  BY <1>2, NotifyQuiet
<1>3. ASSUME NEW f \in Flushers, FlushStep(f)
      PROVE  UNCHANGED Promise!deliveryVars
  BY <1>3, FlushQuiet
<1>4. ASSUME NEW p \in Pushers, ReadFails(p) \/ (p \in Flushers /\ BudgetSpent(p))
      PROVE  Promise!DeliveryNext \/ UNCHANGED Promise!deliveryVars
  <2>1. /\ target[p] # NoConn /\ Miss(p) /\ Return(p)
        /\ UNCHANGED <<held, overtaken, dbVars, pendVars, connVars, flushVars>>
    BY <1>4 DEF ReadFails, BudgetSpent
  <2> QED BY <2>1, MissGivesUp DEF Promise!DeliveryNext
<1>5. ASSUME NEW p \in Pushers, Read(p) \/ WriteFails(p)
      PROVE  UNCHANGED Promise!deliveryVars
  BY <1>5, ReadQuiet
<1>6. ASSUME NEW p \in Pushers, Write(p)
      PROVE  Promise!DeliveryNext
  BY <1>6, WriteWrites DEF Promise!DeliveryNext
<1>7. ASSUME NEW d \in Conns, state[d] = "open",
             \/ PeerCloses(d) \/ KeepaliveExpires(d)
             \/ \E p \in Pushers : WriteTimesOut(p) /\ target[p] = d
      PROVE  Promise!DeliveryNext
  BY <1>7, LossCloses DEF Promise!DeliveryNext
<1>8. ASSUME NEW p \in Pushers, WriteTimesOut(p)
      PROVE  Promise!DeliveryNext
  <2>1. target[p] \in Conns /\ state[target[p]] = "open"
    BY <1>8 DEF WriteTimesOut, HubInv, TypeOK
  <2> QED BY <1>7, <1>8, <2>1
<1>9. ASSUME NEW c \in Conns, PeerCloses(c) \/ KeepaliveExpires(c)
      PROVE  Promise!DeliveryNext
  BY <1>7, <1>9 DEF PeerCloses, KeepaliveExpires
<1>10. ASSUME NEW c \in Conns, Accept(c) \/ Hello(c) \/ GoesSilent(c) \/ ServeReturns(c)
       PROVE  UNCHANGED Promise!deliveryVars
  BY <1>10, ConnQuiet
<1>11. ASSUME NEW c \in Conns, Serve(c)
       PROVE  Promise!DeliveryNext
  BY <1>11, ServeOpens DEF Promise!DeliveryNext
<1>12. CASE Restart
  BY <1>12, RestartCloses DEF Promise!DeliveryNext
<1>13. CASE TimerFires \/ UNCHANGED vars
  BY <1>13, TimerQuiet
<1> QED BY <1>1, <1>2, <1>3, <1>4, <1>5, <1>6, <1>8, <1>9, <1>10, <1>11, <1>12, <1>13
        DEF Next, PushStep, ServeStep, Pushers

\* Commits, notifications, timers, flushes, hellos, failures and reconnects are,
\* to the nodes, one bit per message of each connection: for any number of nodes,
\* connections, handlers, flush goroutines and changes, no interleaving takes a
\* bit down but by writing the message as the database has it then, giving it up,
\* or closing the connection.
THEOREM HubDelivers == Spec => DeliversAsPromised
<1>1. Init => Promise!DeliveryInit
  BY DeliveryStarts
<1>2. HubInv /\ [Next]_vars => [Promise!DeliveryNext]_(Promise!deliveryVars)
  BY DeliverySteps
<1> QED BY <1>1, <1>2, HubInvariant, PTL DEF Spec, DeliversAsPromised, Promise!DeliverySpec

-----------------------------------------------------------------------------
(***************************************************************************)
(* No change is lost, because none is lost in Delivery.                    *)
(***************************************************************************)

LEMMA DeliveryTypes == TypeOK => Promise!DeliveryTypeOK
<1> SUFFICES ASSUME TypeOK PROVE Promise!DeliveryTypeOK
  OBVIOUS
<1>1. Open \in SUBSET Conns
  BY DEF Open
<1>2. View \in [Conns -> [Kinds -> Nat \cup {NotRead}]]
  <2>1. [k \in Kinds |-> NotRead] \in [Kinds -> Nat \cup {NotRead}]
    OBVIOUS
  <2> QED BY <2>1 DEF View, TypeOK
<1>3. Dirty \in [Conns -> SUBSET Kinds]
  BY DEF Dirty
<1>4. Lapsed \in [Conns -> SUBSET Kinds]
  BY DEF Lapsed, TypeOK
<1>5. ver \in [Nodes -> [Kinds -> Nat]]
  BY DEF TypeOK
<1> QED BY <1>1, <1>2, <1>3, <1>4, <1>5 DEF Promise!DeliveryTypeOK

LEMMA InStepInit == Promise!DeliveryInit => Promise!InStep
  BY DEF Promise!DeliveryInit, Promise!InStep

LEMMA InStepNext ==
    ASSUME Promise!DeliveryTypeOK, Promise!InStep, [Promise!DeliveryNext]_(Promise!deliveryVars)
    PROVE  Promise!InStep'
<1> USE HubAssumption DEF Promise!DeliveryTypeOK, Promise!InStep, Promise!Current
<1>1. CASE UNCHANGED Promise!deliveryVars
  BY <1>1 DEF Promise!deliveryVars
<1>2. CASE Promise!Change
  BY <1>2 DEF Promise!Change, Promise!Changed
<1>3. ASSUME NEW D \in SUBSET Conns, Promise!Closes(D)
      PROVE  Promise!InStep'
  BY <1>3 DEF Promise!Closes, Promise!Without
<1>4. ASSUME NEW c \in Conns, Promise!Opens(c)
      PROVE  Promise!InStep'
  BY <1>4 DEF Promise!Opens, Promise!Without
<1>5. ASSUME NEW c \in Conns, NEW k \in Kinds, Promise!Writes(c, k)
      PROVE  Promise!InStep'
  BY <1>5 DEF Promise!Writes
<1>6. ASSUME NEW c \in Conns, NEW k \in Kinds, NEW v, Promise!WritesOld(c, k, v)
      PROVE  Promise!InStep'
  BY <1>6 DEF Promise!WritesOld
<1>7. ASSUME NEW c \in Conns, NEW K \in SUBSET Kinds, Promise!GivesUp(c, K)
      PROVE  Promise!InStep'
  BY <1>7 DEF Promise!GivesUp
<1> QED BY <1>1, <1>2, <1>3, <1>4, <1>5, <1>6, <1>7 DEF Promise!DeliveryNext

LEMMA InStepMeans == Promise!InStep => NoChangeLost
<1> SUFFICES ASSUME Promise!InStep, NEW c \in Conns, NEW k \in Kinds, state[c] = "open"
             PROVE  Accounted(c, k)
  BY DEF NoChangeLost
<1>1. c \in Open /\ View[c] = held[c] /\ Lapsed[c] = overtaken[c] \cup missed[c]
      /\ (k \in Dirty[c] <=> Due(c, k))
  BY DEF Open, View, Lapsed, Dirty
<1> QED BY <1>1 DEF Promise!InStep, Promise!Current, Accounted

\* No change is lost between a commit and the nodes that are connected, for any
\* number of nodes, reconnects, concurrent pushes, failures and restarts.
THEOREM ChangesDelivered == Spec => []NoChangeLost
<1>1. Init => Promise!InStep
  BY DeliveryStarts, InStepInit
<1>2. HubInv /\ Promise!InStep /\ [Next]_vars => Promise!InStep'
  BY DeliveryTypes, DeliverySteps, InStepNext DEF HubInv
<1> QED BY <1>1, <1>2, HubInvariant, InStepMeans, PTL DEF Spec

-----------------------------------------------------------------------------
(***************************************************************************)
(* Pushes that take turns.  A node can be left with an older message       *)
(* (Converged fails); what it takes is that two pushes to it overlap.      *)
(***************************************************************************)

\* One push at a time is under way to c.
InTurn(c) == \A p, q \in Pushers : target[p] = c /\ target[q] = c => p = q

\* Whoever is about to write to c has read nothing older than c was last written.
TurnInv(c) ==
    /\ overtaken[c] = {}
    /\ \A k \in Kinds : held[c][k] <= ver[NodeOf[c]][k]
    /\ \A p \in Pushers : target[p] = c /\ got[p] # NotRead => held[c][NextKind(p)] <= got[p]

\* Versions are numbers.
LEMMA Versions ==
    ASSUME TypeOK, NEW c \in Conns
    PROVE  \A k \in Kinds : ver[NodeOf[c]][k] \in Nat /\ held[c][k] \in Nat \cup {-1}
  BY HubAssumption DEF TypeOK, NotRead

\* A step that writes nothing to c, and reads nothing for it.
LEMMA TurnKept ==
    ASSUME HubInv, NEW c \in Conns, TurnInv(c),
           overtaken'[c] \subseteq overtaken[c],
           \A k \in Kinds : held'[c][k] \in {held[c][k], NotRead},
           \A k \in Kinds : ver'[NodeOf[c]][k] \in Nat /\ ver'[NodeOf[c]][k] >= ver[NodeOf[c]][k],
           \A p \in Pushers :
               \/ target'[p] # c \/ got'[p] = NotRead
               \/ target'[p] = target[p] /\ want'[p] = want[p] /\ got'[p] = got[p]
    PROVE  TurnInv(c)'
<1>1. TypeOK /\ \A k \in Kinds : held[c][k] <= ver[NodeOf[c]][k]
  BY DEF HubInv, TurnInv
<1>2. \A k \in Kinds : held'[c][k] <= ver'[NodeOf[c]][k]
  <2> TAKE k \in Kinds
  <2>1. ver[NodeOf[c]][k] \in Nat /\ held[c][k] \in Nat \cup {-1} /\ held'[c][k] \in {held[c][k], -1}
    BY <1>1, Versions DEF NotRead
  <2>2. /\ ver'[NodeOf[c]][k] \in Nat /\ ver'[NodeOf[c]][k] >= ver[NodeOf[c]][k]
        /\ held[c][k] <= ver[NodeOf[c]][k]
    BY <1>1
  <2> QED BY <2>1, <2>2
<1>3. ASSUME NEW p \in Pushers, target'[p] = c, got'[p] # NotRead
      PROVE  held'[c][NextKind(p)'] <= got'[p]
  <2>1. target[p] = c /\ got'[p] = got[p] /\ NextKind(p)' = NextKind(p) /\ got[p] \in Nat
    BY <1>1, <1>3 DEF NextKind, TypeOK
  <2>2. held[c][NextKind(p)] <= got[p] /\ NextKind(p) \in Kinds
    BY <1>3, <2>1 DEF NextKind, Kinds, TurnInv
  <2>3. /\ held'[c][NextKind(p)] \in {held[c][NextKind(p)], -1}
        /\ held[c][NextKind(p)] \in Nat \cup {-1}
    BY <1>1, <2>2, Versions DEF NotRead
  <2> QED BY <2>1, <2>2, <2>3
<1>4. overtaken'[c] = {}
  BY DEF TurnInv
<1> QED BY <1>2, <1>3, <1>4 DEF TurnInv

\* One that does not change the database either.
LEMMA TurnQuiet ==
    ASSUME HubInv, NEW c \in Conns, TurnInv(c),
           UNCHANGED ver, overtaken'[c] \subseteq overtaken[c],
           \A k \in Kinds : held'[c][k] \in {held[c][k], NotRead},
           \A p \in Pushers :
               \/ target'[p] # c \/ got'[p] = NotRead
               \/ target'[p] = target[p] /\ want'[p] = want[p] /\ got'[p] = got[p]
    PROVE  TurnInv(c)'
<1>1. \A k \in Kinds : ver'[NodeOf[c]][k] \in Nat /\ ver'[NodeOf[c]][k] >= ver[NodeOf[c]][k]
  <2> TAKE k \in Kinds
  <2>1. ver[NodeOf[c]][k] \in Nat /\ ver'[NodeOf[c]][k] = ver[NodeOf[c]][k]
    BY Versions DEF HubInv
  <2> QED BY <2>1
<1> QED BY <1>1, TurnKept

\* What a push reads is no older than anything its connection was written before.
LEMMA TurnRead ==
    ASSUME HubInv, NEW c \in Conns, TurnInv(c), NEW p \in Pushers, Read(p)
    PROVE  TurnInv(c)'
<1> USE HubAssumption DEF HubInv, TypeOK, TurnInv
<1>1. UNCHANGED <<ver, held, overtaken, target, want>>
  BY DEF Read, dbVars, outVars
<1>2. \A q \in Pushers : NextKind(q)' = NextKind(q)
  BY <1>1 DEF NextKind
<1>3. \A q \in Pushers : q # p => got'[q] = got[q]
  BY DEF Read
<1>4. target[p] = c => /\ got'[p] = ver[NodeOf[c]][NextKind(p)]
                       /\ held[c][NextKind(p)] <= ver[NodeOf[c]][NextKind(p)]
  BY NextKindWanted DEF Read
<1> QED BY <1>1, <1>2, <1>3, <1>4

\* A push that is alone on its connection writes nothing older than was written.
LEMMA TurnWrite ==
    ASSUME HubInv, NEW c \in Conns, TurnInv(c), InTurn(c), NEW p \in Pushers, Write(p)
    PROVE  TurnInv(c)'
<1> USE HubAssumption DEF HubInv, TypeOK
<1> DEFINE k == NextKind(p)
<1>1. /\ UNCHANGED ver /\ k \in Kinds
      /\ held' = [held EXCEPT ![target[p]][k] = got[p]]
      /\ got'[p] = NotRead
      /\ \A q \in Pushers : q # p => target'[q] = target[q] /\ want'[q] = want[q] /\ got'[q] = got[q]
  BY NextKindWanted DEF Write, Return, dbVars
<1>2. CASE target[p] # c
  <2>1. held'[c] = held[c] /\ overtaken'[c] = overtaken[c]
    BY <1>1, <1>2 DEF Write
  <2>2. \A q \in Pushers : target'[q] = c => q # p \/ got'[q] = NotRead
    BY <1>1
  <2> QED BY <1>1, <2>1, <2>2, TurnQuiet
<1>3. CASE target[p] = c
  <2>1. got[p] \in 0..ver[NodeOf[c]][k] /\ held[c][k] <= got[p] /\ ver[NodeOf[c]][k] \in Nat
    <3>1. got[p] # NotRead
      BY DEF Write
    <3>2. got[p] \in 0..ver[NodeOf[c]][k] /\ held[c][k] <= got[p]
      BY <1>3, <3>1 DEF ReadShape, TurnInv
    <3> QED BY <1>1, <3>2, Versions
  <2> HIDE DEF k
  <2>2. overtaken'[c] = {}
    <3>1. overtaken'[c] = IF got[p] = ver[NodeOf[c]][k] THEN overtaken[c] \ {k}
                          ELSE IF held[c][k] = ver[NodeOf[c]][k] THEN overtaken[c] \cup {k}
                          ELSE overtaken[c]
      BY <1>3 DEF Write, k
    <3>2. held[c][k] = ver[NodeOf[c]][k] => got[p] = ver[NodeOf[c]][k]
      <4> HIDE DEF HubInv, TypeOK
      <4> QED BY <2>1
    <3> QED BY <3>1, <3>2 DEF TurnInv
  <2>3. \A l \in Kinds : held'[c][l] = IF l = k THEN got[p] ELSE held[c][l]
    BY <1>1, <1>3
  <2>4. \A l \in Kinds : held'[c][l] <= ver'[NodeOf[c]][l]
    BY <1>1, <2>1, <2>3 DEF TurnInv
  <2>5. \A q \in Pushers : target'[q] = c => q = p \/ target[q] = c
    BY <1>1
  <2>6. \A q \in Pushers : target'[q] = c => q = p
    BY <1>3, <2>5 DEF InTurn
  <2> QED BY <1>1, <2>2, <2>4, <2>6 DEF TurnInv
<1> QED BY <1>2, <1>3

\* Every step keeps TurnInv of a connection whose pushes take turns.
LEMMA TurnStep ==
    ASSUME HubInv, NEW c \in Conns, TurnInv(c), InTurn(c), [Next]_vars
    PROVE  TurnInv(c)'
<1> USE HubAssumption DEF HubInv, TypeOK
<1>1. CASE UNCHANGED <<ver, held, overtaken, pushVars>>
  BY <1>1, TurnQuiet DEF pushVars
<1>2. ASSUME NEW N, NEW K, Bump(N, K), UNCHANGED pushVars
      PROVE  TurnInv(c)'
  <2>1. \A k \in Kinds : ver'[NodeOf[c]][k] \in Nat /\ ver'[NodeOf[c]][k] >= ver[NodeOf[c]][k]
    BY <1>2 DEF Bump
  <2>2. overtaken'[c] \subseteq overtaken[c] /\ held' = held
    BY <1>2 DEF Bump
  <2> QED BY <1>2, <2>1, <2>2, TurnKept DEF pushVars
<1>3. ASSUME NEW w \in Writers,
             \/ CommitUsers(w)
             \/ \E N \in SUBSET Nodes : CommitConfig(w, N)
             \/ UsersChanged(w)
             \/ \E n \in Nodes : ConfigChanged(w, n)
      PROVE  TurnInv(c)'
  BY <1>1, <1>2, <1>3 DEF CommitUsers, CommitConfig, UsersChanged, ConfigChanged, outVars
<1>4. ASSUME NEW p \in Pushers, Return(p), UNCHANGED <<ver, held, overtaken>>
      PROVE  TurnInv(c)'
  <2>1. \A q \in Pushers : \/ got'[q] = NotRead
                           \/ target'[q] = target[q] /\ want'[q] = want[q] /\ got'[q] = got[q]
    BY <1>4 DEF Return
  <2> QED BY <1>4, <2>1, TurnQuiet
<1>5. ASSUME NEW f \in Flushers, FlushStep(f)
      PROVE  TurnInv(c)'
  <2>1. ASSUME NEW d \in Conns, FlushVisits(f, d)
        PROVE  TurnInv(c)'
    <3>1. got'[f] = NotRead /\ f \in Pushers
      BY <2>1 DEF FlushVisits, PushShape, Pushers, pushVars
    <3>2. \A q \in Pushers : q # f => target'[q] = target[q] /\ want'[q] = want[q] /\ got'[q] = got[q]
      BY <2>1 DEF FlushVisits, pushVars
    <3>3. UNCHANGED <<ver, held, overtaken>>
      BY <2>1 DEF FlushVisits, dbVars, outVars
    <3> QED BY <3>1, <3>2, <3>3, TurnQuiet
  <2> QED BY <1>1, <1>5, <2>1 DEF FlushStep, FlushTakes, FlushSnapshots, FlushReturns, dbVars, outVars
<1>6. ASSUME NEW d \in Conns, Hello(d)
      PROVE  TurnInv(c)'
  <2>1. got'[d] = NotRead /\ d \in Pushers
    BY <1>6 DEF Hello, HelloShape, PushShape, Pushers
  <2>2. \A q \in Pushers : q # d => target'[q] = target[q] /\ want'[q] = want[q] /\ got'[q] = got[q]
    BY <1>6 DEF Hello
  <2>3. UNCHANGED <<ver, held, overtaken>>
    BY <1>6 DEF Hello, dbVars, outVars
  <2> QED BY <2>1, <2>2, <2>3, TurnQuiet
<1>7. ASSUME NEW D, Forget(D), UNCHANGED ver,
             \A p \in Pushers : got'[p] = NotRead \/ UNCHANGED pushVars
      PROVE  TurnInv(c)'
  <2>1. overtaken'[c] \subseteq overtaken[c] /\ \A k \in Kinds : held'[c][k] \in {held[c][k], NotRead}
    BY <1>7 DEF Forget
  <2> QED BY <1>7, <2>1, TurnQuiet DEF pushVars
<1>8. ASSUME NEW d \in Conns, ServeReturns(d)
      PROVE  TurnInv(c)'
  BY <1>7, <1>8 DEF ServeReturns, dbVars
<1>9. CASE Restart
  BY <1>7, <1>9 DEF Restart
<1>10. ASSUME NEW d \in Conns,
              Accept(d) \/ Serve(d) \/ PeerCloses(d) \/ GoesSilent(d) \/ KeepaliveExpires(d)
       PROVE  TurnInv(c)'
  BY <1>1, <1>10 DEF Accept, Serve, PeerCloses, GoesSilent, KeepaliveExpires, dbVars, outVars
<1>11. CASE TimerFires \/ UNCHANGED vars
  BY <1>1, <1>11 DEF TimerFires, vars, dbVars, outVars
<1>12. ASSUME NEW p \in Pushers, PushStep(p) \/ (p \in Flushers /\ BudgetSpent(p))
       PROVE  TurnInv(c)'
  <2>1. CASE Read(p) \/ Write(p)
    BY <2>1, TurnRead, TurnWrite
  <2>2. CASE ReadFails(p) \/ WriteFails(p) \/ WriteTimesOut(p) \/ BudgetSpent(p)
    BY <1>4, <2>2 DEF ReadFails, WriteFails, WriteTimesOut, BudgetSpent, dbVars, outVars
  <2> QED BY <1>12, <2>1, <2>2 DEF PushStep
<1> QED BY <1>3, <1>5, <1>6, <1>8, <1>9, <1>10, <1>11, <1>12 DEF Next, ServeStep, Pushers

\* "A node that missed a message converges as soon as it receives the next one"
\* (proto.go:63-65) is true of every connection on which pushes take turns, with
\* any failures, restarts and delays: that two overlap (pushTo, hub.go:355-385) is the
\* only way for a node to end up with an older message.
THEOREM TurnsConverge ==
    Spec => \A c \in Conns : []InTurn(c) => [](Settled(c) => held[c] = ver[NodeOf[c]])
<1>1. ASSUME NEW c \in Conns
      PROVE  Spec => ([]InTurn(c) => [](Settled(c) => held[c] = ver[NodeOf[c]]))
  <2>1. Init => TurnInv(c)
    BY HubAssumption DEF Init, TurnInv, NotRead
  <2>2. HubInv /\ InTurn(c) /\ TurnInv(c) /\ [Next]_vars => TurnInv(c)'
    BY TurnStep
  <2>3. HubInv /\ NoChangeLost /\ TurnInv(c) => (Settled(c) => held[c] = ver[NodeOf[c]])
    <3> SUFFICES ASSUME HubInv, NoChangeLost, TurnInv(c), Settled(c)
                 PROVE  held[c] = ver[NodeOf[c]]
      OBVIOUS
    <3>1. \A k \in Kinds : held[c][k] = ver[NodeOf[c]][k]
      BY DEF NoChangeLost, Accounted, Settled, TurnInv
    <3>2. DOMAIN held[c] = Kinds /\ DOMAIN ver[NodeOf[c]] = Kinds
      BY HubAssumption DEF HubInv, TypeOK
    <3>3. /\ held[c] = [k \in Kinds |-> held[c][k]]
          /\ ver[NodeOf[c]] = [k \in Kinds |-> ver[NodeOf[c]][k]]
      BY HubAssumption DEF HubInv, TypeOK
    <3> QED BY <3>1, <3>3
  <2> QED BY <2>1, <2>2, <2>3, HubInvariant, ChangesDelivered, PTL DEF Spec
<1> QED BY <1>1
=============================================================================
