-------------------------------- MODULE Hub --------------------------------
(***************************************************************************)
(* The panel's end of the node control channel (internal/hub/hub.go): the  *)
(* table of connections, the coalescing of change notifications, and the   *)
(* pushes that flush goroutines and hello handlers make side by side.      *)
(*                                                                         *)
(* What a node is sent is abstracted to versions.  ver[n][k] counts the    *)
(* committed changes of the database that alter message k ("config" or     *)
(* "users") of node n; a push reads a version in one step and writes it to *)
(* the connection in a later one, exactly as pushTo does.                  *)
(*                                                                         *)
(* held, overtaken and missed are history variables: no guard reads them.  *)
(***************************************************************************)
EXTENDS Integers, FiniteSets

CONSTANTS
    Nodes,      \* rows of the nodes table
    Conns,      \* websocket connections, one value per handshake
    NodeOf,     \* the node a connection authenticated as (conn.nodeID)
    NoConn,     \* no connection (an absent map entry, an idle goroutine)
    Flushers,   \* goroutines that may be inside flush at one time
    Writers,    \* request handlers and loops that change the database
    MaxVersion  \* bound: changes of each message of one node

Kinds == {"config", "users"}

ASSUME HubAssumption ==
    /\ NodeOf \in [Conns -> Nodes]
    /\ NoConn \notin Conns
    /\ Conns \cap Flushers = {}
    /\ NoConn \notin Flushers
    /\ MaxVersion \in [Kinds -> Nat]

Pushers == Conns \cup Flushers  \* a connection's own goroutine answers hello
NotRead == -1

VARIABLES
    ver,         \* ver[n][k]: version of message k of node n in the database
    owedUsers,   \* owedUsers[w]: w committed, and has yet to call UsersChanged
    owedConfig,  \* owedConfig[w]: nodes w has yet to call ConfigChanged for
    pendUsers, pendConfig,
    pendTimer,   \* the timer pendTimer points at: "nil", "armed" or "fired"
    orphans,     \* armed timers pendTimer no longer points at
    started,     \* flush goroutines that have not yet taken pendMu
    conns,       \* Hub.conns: conns[n] is the registered connection of n
    state,       \* state[c]: how far serve has come with c
    peer,        \* peer[c]: "up", or "silent" when nothing comes back any more
    helloed,     \* helloed[c]: hello has been dispatched on c
    phase,       \* phase[f]: where flush goroutine f is
    takenUsers, takenConfig,  \* the flags f took
    todo,        \* todo[f]: connections f has yet to visit
    target,      \* target[p]: the connection p is inside pushTo for
    want,        \* want[p]: messages of that pushTo not yet written
    got,         \* got[p]: version read for the next message, or NotRead
    held,        \* held[c][k]: version last written to c
    overtaken,   \* overtaken[c]: messages written current, and an older one since
    missed       \* missed[c]: messages whose current version failed to be pushed

dbVars   == <<ver, owedUsers, owedConfig>>
pendVars == <<pendUsers, pendConfig, pendTimer, orphans, started>>
connVars == <<conns, state, peer, helloed>>
flushVars == <<phase, takenUsers, takenConfig, todo>>
pushVars == <<target, want, got>>
outVars  == <<held, overtaken, missed>>
vars == <<dbVars, pendVars, connVars, flushVars, pushVars, outVars>>

TypeOK ==
    /\ ver \in [Nodes -> [Kinds -> Nat]]
    /\ owedUsers \in [Writers -> BOOLEAN]
    /\ owedConfig \in [Writers -> SUBSET Nodes]
    /\ pendUsers \in BOOLEAN
    /\ pendConfig \in SUBSET Nodes
    /\ pendTimer \in {"nil", "armed", "fired"}
    /\ orphans \in Nat
    /\ started \in Nat
    /\ conns \in [Nodes -> Conns \cup {NoConn}]
    /\ state \in [Conns -> {"unused", "accepted", "open", "closed", "gone"}]
    /\ peer \in [Conns -> {"up", "silent"}]
    /\ helloed \in [Conns -> BOOLEAN]
    /\ phase \in [Flushers -> {"idle", "taken", "pushing"}]
    /\ takenUsers \in [Flushers -> BOOLEAN]
    /\ takenConfig \in [Flushers -> SUBSET Nodes]
    /\ todo \in [Flushers -> SUBSET Conns]
    /\ target \in [Pushers -> Conns \cup {NoConn}]
    /\ want \in [Pushers -> SUBSET Kinds]
    /\ got \in [Pushers -> Nat \cup {NotRead}]
    /\ held \in [Conns -> [Kinds -> Nat \cup {NotRead}]]
    /\ overtaken \in [Conns -> SUBSET Kinds]
    /\ missed \in [Conns -> SUBSET Kinds]

Init ==
    /\ ver = [n \in Nodes |-> [k \in Kinds |-> 0]]
    /\ owedUsers = [w \in Writers |-> FALSE]
    /\ owedConfig = [w \in Writers |-> {}]
    /\ pendUsers = FALSE
    /\ pendConfig = {}
    /\ pendTimer = "nil"
    /\ orphans = 0
    /\ started = 0
    /\ conns = [n \in Nodes |-> NoConn]
    /\ state = [c \in Conns |-> "unused"]
    /\ peer = [c \in Conns |-> "up"]
    /\ helloed = [c \in Conns |-> FALSE]
    /\ phase = [f \in Flushers |-> "idle"]
    /\ takenUsers = [f \in Flushers |-> FALSE]
    /\ takenConfig = [f \in Flushers |-> {}]
    /\ todo = [f \in Flushers |-> {}]
    /\ target = [p \in Pushers |-> NoConn]
    /\ want = [p \in Pushers |-> {}]
    /\ got = [p \in Pushers |-> NotRead]
    /\ held = [c \in Conns |-> [k \in Kinds |-> NotRead]]
    /\ overtaken = [c \in Conns |-> {}]
    /\ missed = [c \in Conns |-> {}]

-----------------------------------------------------------------------------
(***************************************************************************)
(* The service: a handler commits, and only then calls the Notifier.       *)
(***************************************************************************)

\* The database moves on: the messages K of the nodes N change.
Bump(N, K) ==
    /\ ver' = [n \in Nodes |-> [k \in Kinds |->
                 IF n \in N /\ k \in K THEN ver[n][k] + 1 ELSE ver[n][k]]]
    /\ missed' = [c \in Conns |-> IF NodeOf[c] \in N THEN missed[c] \ K ELSE missed[c]]
    /\ overtaken' = [c \in Conns |-> IF NodeOf[c] \in N THEN overtaken[c] \ K ELSE overtaken[c]]
    /\ UNCHANGED held

Idle(w) == ~owedUsers[w] /\ owedConfig[w] = {}

\* A change of users, access or traffic: every node's user list may differ.
CommitUsers(w) ==
    /\ Idle(w)
    /\ \A n \in Nodes : ver[n]["users"] < MaxVersion["users"]
    /\ Bump(Nodes, {"users"})
    /\ owedUsers' = [owedUsers EXCEPT ![w] = TRUE]
    /\ UNCHANGED <<owedConfig, pendVars, connVars, flushVars, pushVars>>

\* A change of nodes, inbounds, relays or policy, felt by the nodes N.
CommitConfig(w, N) ==
    /\ Idle(w)
    /\ N # {}
    /\ \A n \in N, k \in Kinds : ver[n][k] < MaxVersion[k]
    /\ Bump(N, Kinds)
    /\ owedConfig' = [owedConfig EXCEPT ![w] = N]
    /\ UNCHANGED <<owedUsers, pendVars, connVars, flushVars, pushVars>>

\* schedule(nodeID, users): both callers pass users = true.
Schedule(N) ==
    /\ pendUsers' = TRUE
    /\ pendConfig' = pendConfig \cup N
    /\ pendTimer' = "armed"     \* AfterFunc, or Reset, which re-arms a fired timer
    /\ UNCHANGED <<orphans, started>>

UsersChanged(w) ==
    /\ owedUsers[w]
    /\ owedUsers' = [owedUsers EXCEPT ![w] = FALSE]
    /\ Schedule({})
    /\ UNCHANGED <<ver, owedConfig, connVars, flushVars, pushVars, outVars>>

ConfigChanged(w, n) ==
    /\ n \in owedConfig[w]
    /\ owedConfig' = [owedConfig EXCEPT ![w] = @ \ {n}]
    /\ Schedule({n})
    /\ UNCHANGED <<ver, owedUsers, connVars, flushVars, pushVars, outVars>>

-----------------------------------------------------------------------------
(***************************************************************************)
(* The timer and flush.                                                    *)
(***************************************************************************)

\* Mutant of TimerFires: a timer that is not armed fires as well.
TimerFiresAnyway ==
    /\ \/ pendTimer = "armed" /\ pendTimer' = "fired" /\ UNCHANGED orphans
       \/ orphans' = orphans - 1 /\ UNCHANGED pendTimer
    /\ started' = started + 1
    /\ UNCHANGED <<pendUsers, pendConfig, dbVars, connVars, flushVars, pushVars, outVars>>

\* A timer expires and its goroutine starts, but does not hold pendMu yet.
TimerFires ==
    /\ \/ pendTimer = "armed" /\ pendTimer' = "fired" /\ UNCHANGED orphans
       \/ orphans > 0 /\ orphans' = orphans - 1 /\ UNCHANGED pendTimer
    /\ started' = started + 1
    /\ UNCHANGED <<pendUsers, pendConfig, dbVars, connVars, flushVars, pushVars, outVars>>

\* Mutant of FlushTakes: pendUsers is not reset.
FlushTakesKeeping(f) ==
    /\ started > 0
    /\ phase[f] = "idle"
    /\ started' = started - 1
    /\ takenUsers' = [takenUsers EXCEPT ![f] = pendUsers]
    /\ takenConfig' = [takenConfig EXCEPT ![f] = pendConfig]
    /\ pendConfig' = {}
    /\ orphans' = IF pendTimer = "armed" THEN orphans + 1 ELSE orphans
    /\ pendTimer' = "nil"
    /\ phase' = [phase EXCEPT ![f] = "taken"]
    /\ UNCHANGED <<pendUsers, todo, dbVars, connVars, pushVars, outVars>>

\* Mutant of FlushTakes: pendConfig is cleared before it is copied.
FlushTakesCleared(f) ==
    /\ started > 0
    /\ phase[f] = "idle"
    /\ started' = started - 1
    /\ takenUsers' = [takenUsers EXCEPT ![f] = pendUsers]
    /\ takenConfig' = [takenConfig EXCEPT ![f] = {}]
    /\ pendUsers' = FALSE
    /\ pendConfig' = {}
    /\ orphans' = IF pendTimer = "armed" THEN orphans + 1 ELSE orphans
    /\ pendTimer' = "nil"
    /\ phase' = [phase EXCEPT ![f] = "taken"]
    /\ UNCHANGED <<todo, dbVars, connVars, pushVars, outVars>>

\* flush takes and clears the flags.  A timer re-armed since it fired is let go.
FlushTakes(f) ==
    /\ started > 0
    /\ phase[f] = "idle"
    /\ started' = started - 1
    /\ takenUsers' = [takenUsers EXCEPT ![f] = pendUsers]
    /\ takenConfig' = [takenConfig EXCEPT ![f] = pendConfig]
    /\ pendUsers' = FALSE
    /\ pendConfig' = {}
    /\ orphans' = IF pendTimer = "armed" THEN orphans + 1 ELSE orphans
    /\ pendTimer' = "nil"
    /\ phase' = [phase EXCEPT ![f] = "taken"]
    /\ UNCHANGED <<todo, dbVars, connVars, pushVars, outVars>>

\* flush copies the connection table, under the other lock.
FlushSnapshots(f) ==
    /\ phase[f] = "taken"
    /\ todo' = [todo EXCEPT ![f] = {c \in Conns : conns[NodeOf[c]] = c}]
    /\ phase' = [phase EXCEPT ![f] = "pushing"]
    /\ UNCHANGED <<takenUsers, takenConfig, dbVars, pendVars, connVars, pushVars, outVars>>

\* What flush f asks pushTo to write to connection c.
Wanted(f, c) ==
    (IF NodeOf[c] \in takenConfig[f] THEN {"config"} ELSE {})
      \cup (IF takenUsers[f] THEN {"users"} ELSE {})

\* The loop moves to a connection (map order: any); nothing wanted, it skips it.
FlushVisits(f, c) ==
    /\ phase[f] = "pushing"
    /\ target[f] = NoConn
    /\ c \in todo[f]
    /\ todo' = [todo EXCEPT ![f] = @ \ {c}]
    /\ \/ /\ Wanted(f, c) = {}
          /\ UNCHANGED pushVars
       \/ /\ Wanted(f, c) # {}
          /\ target' = [target EXCEPT ![f] = c]
          /\ want' = [want EXCEPT ![f] = Wanted(f, c)]
          /\ UNCHANGED got
    /\ UNCHANGED <<phase, takenUsers, takenConfig, dbVars, pendVars, connVars, outVars>>

FlushReturns(f) ==
    /\ phase[f] = "pushing"
    /\ todo[f] = {}
    /\ target[f] = NoConn
    /\ phase' = [phase EXCEPT ![f] = "idle"]
    /\ takenUsers' = [takenUsers EXCEPT ![f] = FALSE]
    /\ takenConfig' = [takenConfig EXCEPT ![f] = {}]
    /\ UNCHANGED <<todo, dbVars, pendVars, connVars, pushVars, outVars>>

-----------------------------------------------------------------------------
(***************************************************************************)
(* pushTo: config before users; each message is read, then written.        *)
(***************************************************************************)

NextKind(p) == IF "config" \in want[p] THEN "config" ELSE "users"

\* pushTo returns, with or without an error.
Return(p) ==
    /\ target' = [target EXCEPT ![p] = NoConn]
    /\ want' = [want EXCEPT ![p] = {}]
    /\ got' = [got EXCEPT ![p] = NotRead]

\* p gives up on what it has not written, with the connection still open.  A
\* stale version it had read is no loss: the change since has a push of its own.
Miss(p) ==
    LET c == target[p]
        stale == IF got[p] \in {NotRead, ver[NodeOf[c]][NextKind(p)]} THEN {} ELSE {NextKind(p)}
    IN missed' = [missed EXCEPT ![c] = IF state[c] = "open" THEN @ \cup (want[p] \ stale) ELSE @]

\* NodeConfig or NodeUsers reads the database.
Read(p) ==
    /\ target[p] # NoConn
    /\ got[p] = NotRead
    /\ got' = [got EXCEPT ![p] = ver[NodeOf[target[p]]][NextKind(p)]]
    /\ UNCHANGED <<target, want, dbVars, pendVars, connVars, flushVars, outVars>>

\* The read fails: what is left is logged, and not tried again.
ReadFails(p) ==
    /\ target[p] # NoConn
    /\ got[p] = NotRead
    /\ Miss(p)
    /\ Return(p)
    /\ UNCHANGED <<held, overtaken, dbVars, pendVars, connVars, flushVars>>

\* The frame is written under writeMu; the channel delivers in order.
Write(p) ==
    /\ target[p] # NoConn
    /\ got[p] # NotRead
    /\ state[target[p]] = "open"
    /\ LET c == target[p]
           k == NextKind(p)
       IN  /\ held' = [held EXCEPT ![c][k] = got[p]]
           /\ overtaken' = [overtaken EXCEPT ![c] =
                   IF got[p] = ver[NodeOf[c]][k] THEN @ \ {k}
                   ELSE IF held[c][k] = ver[NodeOf[c]][k] THEN @ \cup {k} ELSE @]
           /\ missed' = [missed EXCEPT ![c] = IF got[p] = ver[NodeOf[c]][k] THEN @ \ {k} ELSE @]
           /\ IF want[p] = {k}
              THEN Return(p)
              ELSE /\ want' = [want EXCEPT ![p] = @ \ {k}]
                   /\ got' = [got EXCEPT ![p] = NotRead]
                   /\ UNCHANGED target
    /\ UNCHANGED <<dbVars, pendVars, connVars, flushVars>>

\* The connection is no longer open: the write returns an error.
WriteFails(p) ==
    /\ target[p] # NoConn
    /\ got[p] # NotRead
    /\ state[target[p]] # "open"
    /\ Return(p)
    /\ UNCHANGED <<dbVars, pendVars, connVars, flushVars, outVars>>

\* Ten seconds pass inside the write: the websocket library closes it.
WriteTimesOut(p) ==
    /\ target[p] # NoConn
    /\ got[p] # NotRead
    /\ state[target[p]] = "open"
    /\ state' = [state EXCEPT ![target[p]] = "closed"]
    /\ Return(p)
    /\ UNCHANGED <<conns, peer, helloed, dbVars, pendVars, flushVars, outVars>>

\* The 30 s that one flush has for all its nodes are spent before the write
\* begins: it fails and the connection stays open.
BudgetSpent(f) ==
    /\ target[f] # NoConn
    /\ got[f] # NotRead
    /\ Miss(f)
    /\ Return(f)
    /\ UNCHANGED <<held, overtaken, dbVars, pendVars, connVars, flushVars>>

-----------------------------------------------------------------------------
(***************************************************************************)
(* Connections: Handler and serve, keepalive, and the node (external).     *)
(***************************************************************************)

\* A node dials and authenticates.  It has given up its earlier connections,
\* which the panel has not noticed.
Accept(c) ==
    /\ state[c] = "unused"
    /\ state' = [state EXCEPT ![c] = "accepted"]
    /\ peer' = [d \in Conns |-> IF NodeOf[d] = NodeOf[c] /\ state[d] \in {"accepted", "open"}
                                THEN "silent" ELSE peer[d]]
    /\ UNCHANGED <<conns, helloed, dbVars, pendVars, flushVars, pushVars, outVars>>

\* serve registers c under Hub.mu and closes the connection it replaces.
Serve(c) ==
    /\ state[c] = "accepted"
    /\ conns' = [conns EXCEPT ![NodeOf[c]] = c]
    /\ state' = [d \in Conns |-> IF d = c THEN "open"
                                 ELSE IF d = conns[NodeOf[c]] THEN "closed"
                                 ELSE state[d]]
    /\ UNCHANGED <<peer, helloed, dbVars, pendVars, flushVars, pushVars, outVars>>

\* Mutant of Hello: a reconnecting node gets its configuration and no users.
HelloConfigOnly(c) ==
    /\ state[c] = "open"
    /\ peer[c] = "up"
    /\ ~helloed[c]
    /\ helloed' = [helloed EXCEPT ![c] = TRUE]
    /\ target' = [target EXCEPT ![c] = c]
    /\ want' = [want EXCEPT ![c] = {"config"}]
    /\ UNCHANGED <<got, conns, state, peer, dbVars, pendVars, flushVars, outVars>>

\* The node's hello is dispatched on the read loop, which pushes everything.
Hello(c) ==
    /\ state[c] = "open"
    /\ peer[c] = "up"
    /\ ~helloed[c]
    /\ helloed' = [helloed EXCEPT ![c] = TRUE]
    /\ target' = [target EXCEPT ![c] = c]
    /\ want' = [want EXCEPT ![c] = Kinds]
    /\ UNCHANGED <<got, conns, state, peer, dbVars, pendVars, flushVars, outVars>>

\* A read error other than silence: the peer closed, or the stream broke.
PeerCloses(c) ==
    /\ state[c] = "open"
    /\ state' = [state EXCEPT ![c] = "closed"]
    /\ UNCHANGED <<conns, peer, helloed, dbVars, pendVars, flushVars, pushVars, outVars>>

\* The peer goes away without a word.
GoesSilent(c) ==
    /\ state[c] = "open"
    /\ peer[c] = "up"
    /\ peer' = [peer EXCEPT ![c] = "silent"]
    /\ UNCHANGED <<conns, state, helloed, dbVars, pendVars, flushVars, pushVars, outVars>>

\* Mutant of KeepaliveExpires: the silence is logged, and keepalive returns.
KeepaliveOnlyLogs(c) ==
    /\ state[c] = "open"
    /\ peer[c] = "silent"
    /\ UNCHANGED vars

\* keepalive: nothing was read for longer than pongTimeout.
KeepaliveExpires(c) ==
    /\ state[c] = "open"
    /\ peer[c] = "silent"
    /\ state' = [state EXCEPT ![c] = "closed"]
    /\ UNCHANGED <<conns, peer, helloed, dbVars, pendVars, flushVars, pushVars, outVars>>

\* The conn records of D are garbage: what they said is of no more use.
Forget(D) ==
    /\ peer' = [c \in Conns |-> IF c \in D THEN "up" ELSE peer[c]]
    /\ helloed' = [c \in Conns |-> IF c \in D THEN FALSE ELSE helloed[c]]
    /\ held' = [c \in Conns |-> IF c \in D THEN [k \in Kinds |-> NotRead] ELSE held[c]]
    /\ overtaken' = [c \in Conns |-> IF c \in D THEN {} ELSE overtaken[c]]
    /\ missed' = [c \in Conns |-> IF c \in D THEN {} ELSE missed[c]]

\* Mutant of ServeReturns: the table entry is deleted whoever it is.
ServeReturnsDeleting(c) ==
    /\ state[c] = "closed"
    /\ target[c] = NoConn
    /\ state' = [state EXCEPT ![c] = "gone"]
    /\ conns' = [conns EXCEPT ![NodeOf[c]] = NoConn]
    /\ Forget({c})
    /\ UNCHANGED <<dbVars, pendVars, flushVars, pushVars>>

\* serve returns once its read loop is not inside dispatch, and takes the
\* connection out of the table unless a newer one has its place.
ServeReturns(c) ==
    /\ state[c] = "closed"
    /\ target[c] = NoConn
    /\ state' = [state EXCEPT ![c] = "gone"]
    /\ conns' = IF conns[NodeOf[c]] = c THEN [conns EXCEPT ![NodeOf[c]] = NoConn] ELSE conns
    /\ Forget({c})
    /\ UNCHANGED <<dbVars, pendVars, flushVars, pushVars>>

\* The process stops and starts again: the database is all that is left.
Restart ==
    /\ \E c \in Conns : state[c] \in {"accepted", "open", "closed"}
    /\ owedUsers' = [w \in Writers |-> FALSE]
    /\ owedConfig' = [w \in Writers |-> {}]
    /\ pendUsers' = FALSE
    /\ pendConfig' = {}
    /\ pendTimer' = "nil"
    /\ orphans' = 0
    /\ started' = 0
    /\ conns' = [n \in Nodes |-> NoConn]
    /\ state' = [c \in Conns |-> IF state[c] = "unused" THEN "unused" ELSE "gone"]
    /\ phase' = [f \in Flushers |-> "idle"]
    /\ takenUsers' = [f \in Flushers |-> FALSE]
    /\ takenConfig' = [f \in Flushers |-> {}]
    /\ todo' = [f \in Flushers |-> {}]
    /\ target' = [p \in Pushers |-> NoConn]
    /\ want' = [p \in Pushers |-> {}]
    /\ got' = [p \in Pushers |-> NotRead]
    /\ Forget(Conns)
    /\ UNCHANGED ver

-----------------------------------------------------------------------------
\* One step of flush goroutine f, of push p, of the serve goroutine of c.
FlushStep(f) == \/ FlushTakes(f) \/ FlushSnapshots(f) \/ FlushReturns(f)
                \/ \E c \in Conns : FlushVisits(f, c)
PushStep(p) == Read(p) \/ ReadFails(p) \/ Write(p) \/ WriteFails(p) \/ WriteTimesOut(p)
ServeStep(c) == Serve(c) \/ ServeReturns(c)

Next ==
    \/ \E w \in Writers :
          \/ CommitUsers(w)
          \/ \E N \in SUBSET Nodes : CommitConfig(w, N)
          \/ UsersChanged(w)
          \/ \E n \in Nodes : ConfigChanged(w, n)
    \/ TimerFires
    \/ \E f \in Flushers : FlushStep(f) \/ BudgetSpent(f)
    \/ \E p \in Pushers : PushStep(p)
    \/ \E c \in Conns :
          \/ Accept(c) \/ ServeStep(c) \/ Hello(c) \/ PeerCloses(c)
          \/ GoesSilent(c) \/ KeepaliveExpires(c)
    \/ Restart

\* Goroutines are scheduled, timers expire, writes end (each has a deadline),
\* and a node that is up says hello.  Changes, failures and dials are free.
Fairness ==
    /\ WF_vars(TimerFires)
    /\ \A w \in Writers : WF_vars(UsersChanged(w) \/ \E n \in Nodes : ConfigChanged(w, n))
    /\ \A f \in Flushers : WF_vars(FlushStep(f))
    /\ \A p \in Pushers : WF_vars(PushStep(p))
    /\ \A c \in Conns : /\ WF_vars(ServeStep(c))
                        /\ WF_vars(Hello(c))
                        /\ WF_vars(KeepaliveExpires(c))

Spec == Init /\ [][Next]_vars /\ Fairness

-----------------------------------------------------------------------------
(***************************************************************************)
(* Properties.                                                             *)
(***************************************************************************)

\* The connection table is the truth about connections: an open connection is
\* the one registered for its node (a reconnect leaves no shadow, and the late
\* teardown of the old side never evicts its successor), and a connection in
\* the table has not been torn down.  (serve, hub.go:157-172)
OneConnectionPerNode ==
    \A c \in Conns :
        /\ state[c] = "open" => conns[NodeOf[c]] = c
        /\ conns[NodeOf[c]] = c => state[c] \in {"open", "closed"}

\* A raised flag is always going to be taken: its timer is armed, or the
\* goroutine the timer started is on its way to pendMu.
FlagsWillBeTaken ==
    (pendUsers \/ pendConfig # {}) => (pendTimer = "armed" \/ started > 0)

\* Why message k of connection c may differ from the database for now: push p
\* has yet to read it, or is about to write the current version; flush f has
\* yet to come to c; a flag is up; the handler w has yet to raise it.
Pushing(p, c, k) ==
    /\ target[p] = c
    /\ k \in want[p]
    /\ got[p] = NotRead \/ k # NextKind(p) \/ got[p] = ver[NodeOf[c]][k]

FlushDue(f, c, k) ==
    /\ phase[f] = "taken" \/ (phase[f] = "pushing" /\ c \in todo[f])
    /\ k \in Wanted(f, c)

FlagDue(c, k) == IF k = "users" THEN pendUsers ELSE NodeOf[c] \in pendConfig

HandlerDue(w, c, k) ==
    IF k = "users" THEN owedUsers[w] \/ owedConfig[w] # {} ELSE NodeOf[c] \in owedConfig[w]

Due(c, k) ==
    \/ ~helloed[c]
    \/ \E p \in Pushers : Pushing(p, c, k)
    \/ \E f \in Flushers : FlushDue(f, c, k)
    \/ FlagDue(c, k)
    \/ \E w \in Writers : HandlerDue(w, c, k)

Accounted(c, k) ==
    \/ held[c][k] = ver[NodeOf[c]][k]
    \/ k \in overtaken[c] \cup missed[c]
    \/ Due(c, k)

\* No change is lost between the database and a connected node: the open
\* connection was last written what the database says, or somebody is still due
\* to read that or to write it; the exceptions are a push of
\* this very version that failed and was logged, and a node that got it and was
\* then written an older one.  It needs the flags to be cleared before the
\* connections are listed, hello to push after registering, and a handler to
\* notify after committing.  (hub.go:147-161, 241-246, 389-443)
NoChangeLost ==
    \A c \in Conns, k \in Kinds : state[c] = "open" => Accounted(c, k)

\* What all this comes to for the nodes: the connections they have, what was last
\* written to each, what is still due, and what will not come.
Open == {c \in Conns : state[c] = "open"}
View == [c \in Conns |-> IF state[c] = "open" THEN held[c] ELSE [k \in Kinds |-> NotRead]]
Dirty == [c \in Conns |-> {k \in Kinds : state[c] = "open" /\ Due(c, k)}]
Lapsed == [c \in Conns |-> IF state[c] = "open" THEN overtaken[c] \cup missed[c] ELSE {}]

Promise == INSTANCE Delivery WITH
    Messages <- Kinds, Nothing <- NotRead,
    db <- ver, live <- Open, view <- View, dirty <- Dirty, lapsed <- Lapsed

\* Writers, flags, timers, flush goroutines and pushes are, together, a bit per
\* message of each connection: up with a change, or with the connection itself,
\* and down in no step but one that writes the message as the database has it
\* then, gives it up, or closes the connection; and nothing but an open
\* connection is ever written to.  (hub.go:147-172, 241-246, 350-443)
DeliversAsPromised == Promise!DeliverySpec

\* Nothing is left to be done for c.
Settled(c) ==
    /\ state[c] = "open"
    /\ missed[c] = {}
    /\ \A k \in Kinds : ~Due(c, k)
    /\ \A p \in Pushers : target[p] # c

\* "A node that missed a message converges as soon as it receives the next
\* one" (proto.go:63-65): when nothing is left to be done for a connection,
\* the last thing written to it is what the database says now.
Converged ==
    \A c \in Conns : Settled(c) => held[c] = ver[NodeOf[c]]

\* A connection whose peer went silent does not stay in the table: keepalive
\* closes it, or something else did.  (keepalive, hub.go:192-213)
SilentConnectionDropped ==
    \A c \in Conns :
        (state[c] = "open" /\ peer[c] = "silent") ~> (conns[NodeOf[c]] # c)

\* Once changes stop, every connection still open has been written the newest
\* version of each message, but for failed pushes.  (hub.go:389-443)
EventuallyDelivered ==
    \A c \in Conns :
        (state[c] = "open") ~>
            \/ state[c] # "open"
            \/ \A k \in Kinds : \/ k \in overtaken[c] \cup missed[c]
                                \/ held[c][k] = ver[NodeOf[c]][k]
=============================================================================
