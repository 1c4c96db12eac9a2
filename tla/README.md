# skysbx panel: verification project

TLA+ models of the panel (the control plane for sing-box nodes, a Go program),
TLC configurations that check them on small instances, and theorems about them
proved with TLAPS. Paths below are relative to the repository's root; every
definition that models code is mapped to its lines in `PROJECT.json` under `map`.

Contents: 1 inventory of the system, 2 what is modelled where, 3 what the runs
check, 4 findings, 5 what is proved, 6 abstractions and what is left out, 7 plan.

## 1. Inventory

One process (`cmd/panel`), one SQLite database, any number of nodes that each
keep one websocket to the panel, and administrators with browsers.

| Component | State it keeps | Operations |
|---|---|---|
| `internal/hub` | `conns` (node id to connection), a connection's hello flag and last reports; the pending flags `pendUsers`, `pendConfig`, `pendTimer` | handshake, `serve`, `keepalive`, `dispatch` (hello, stats, online, state), `UsersChanged`, `ConfigChanged`, `flush`, `pushTo` |
| `internal/service` | none of its own: reads and writes the store, then notifies | create, update, delete of nodes, inbounds, users; access; relays; policy; traffic reports; scheduled resets; activity; administrator; node tokens |
| `internal/store` | SQLite: `nodes`, `inbounds`, `users`, `user_inbounds`, `traffic`, `settings`, `user_activity`; foreign keys with cascades; a pool of one connection | one statement or one transaction per method |
| `internal/sub` | none | builds a subscription out of rows |
| `internal/web` | session generation (a setting), signed cookies, CSRF token, the setup window, rate limiters | handlers: form in, service call, page out; certificate export |
| `internal/ratelimit` | a bucket per key, swept lazily | `Allow` |
| `internal/singbox` | none | JSON types |
| `cmd/panel` | goroutines: HTTP, the hourly sweep for resets, pruning | start and stop |
| `deploy/`, `skysbx.sh` | files on a host | installation |
| the node (another repository) | its running sing-box | reports; applies what it is pushed |

How they interact. A handler of `web` calls `service`, which writes through
`store` and then calls the `Notifier`, which is the hub: `UsersChanged` and
`ConfigChanged` raise flags under `pendMu` and arm a 100 ms timer. The timer's
goroutine (`flush`) takes the flags, lists connections under `Hub.mu`, and calls
`pushTo` for each, which asks `service` for the node's configuration and users
and writes them. A node's `hello` is answered with `pushTo` too, from the
goroutine that reads that connection. A node's `stats` message ends in
`service.RecordTraffic`, which may call `UsersChanged` in turn. The sweep of
`main` calls `RunDueResets` once at the start and every hour.

What is hard about each, and what makes it correct:

* **hub.** Writers, flush goroutines, hello handlers, handshakes and the
  keepalive run side by side, and connections close at any moment. Correct
  means: one live connection per node; a raised flag is always going to be
  taken; a committed change reaches every open connection or its failure is
  logged; a dead peer leaves the table; what the node was last written is what
  the database says.
* **service and sub: nodes, inbounds, relays, access.** A row is referred to
  by others (an inbound by its relay node, by a user's restriction), and what a
  node is sent is derived from several rows of several nodes. Correct means: no
  dangling reference; the configuration of a relay, the configuration of its
  origin, the user lists and the subscription agree with each other although
  they are derived by different code; whoever's configuration or list an
  operation changes is told, whichever row the operation was about.
* **service: traffic and resets.** Counters are added to by reports, zeroed by
  hand and by the schedule, and read into edits, with single statements of these
  interleaving and a restart possible between any two. Correct means: counter
  and traffic table move together; one reset per cycle and user; a user who
  crosses the limit is pushed; nothing recorded for a row that is gone; the
  reset days of a schedule are one per month on any calendar.
* **web and service: sessions, setup, the administrator.** Read-modify-write of the
  generation counter, which is cached in memory; first-run setups that race for one
  account and for one deadline; a command line that writes the same settings from
  another process. Correct means: setup is claimed once, inside one window; the name
  and the password are of one account; a cookie that was logged out stays out.
* **service and web: edits of nodes and inbounds.** Whole rows are read, changed and
  written back, a rename of a node renames its inbounds in a second transaction, and
  the notifications at the end are decided from what was read at the beginning. Two
  requests may overlap anywhere, either may fail or be cut off. Correct means: the tag
  and the port of a row are those of the object the node is sent; tags follow the name
  of the node; every node whose configuration changed is told after it did.
* **service and hub: node tokens.** A handshake looks an index up, counts the rows
  without one, asks the limiter, scans and upgrades, while the operator rotates tokens
  and disables and deletes nodes. Correct means: nobody gets in as a node whose token
  he did not have during the handshake; nobody is told that a good token is bad.
* **ratelimit.** Buckets are made, refilled, and forgotten when idle, by callers that
  read the clock before they have the lock. Correct means: no address ever gets more
  than the burst and the refill, and none is refused what it is owed.
* **store: migrations, singbox: types, deploy scripts.** Sequential, run before
  anything else is up, or outside the program.

`PROJECT.json` lists the hazards of the code one by one, each at the line where
it bites, with the properties that cover it or the reason why none does.

## 2. Modules

| Module | Models | Used by |
|---|---|---|
| `Delivery` | what the hub promises a connected node: a bit for every message | `Hub`, `HubProofs` |
| `Hub` | `internal/hub/hub.go`: connections, notifications, pushes; implements `Delivery` | `MCHub`, `HubProofs` |
| `Registry` | nodes, inbounds, relays, users' status, access and policy; what a node is sent and a subscription says | `MCRegistry`, `RegistryProofs` |
| `Calendar` | the date arithmetic of `service/reset.go` | `Accounting`, `CalendarProofs` |
| `Accounting` | traffic reports, edits, deletions and resets, by statement | `MCAccounting`, `AccountingProofs` |
| `Session` | `service/auth.go` and the sessions of `internal/web`: setup, login, logout, `-set-admin` | `MCSession`, `SessionProofs` |
| `Throttle` | what a limiter promises: an answer to every attempt, by the attempts let through so far | `RateLimit` |
| `RateLimit` | `internal/ratelimit`: buckets and their sweep; implements `Throttle` | `NodeAuth`, `RateLimitProofs` |
| `NodeAuth` | `Hub.Handler` and `AuthenticateNode` against the operations on a node's row, with the limiter they ask | `MCNodeAuth`, `NodeAuthProofs` |
| `Edits` | the operations on nodes and inbounds by statement: `UpdateNode` with its retag, `EditInbound`, `SetInboundEnabled`, `CreateInbound`, `DeleteInbound` | `MCEdits`, `EditsProofs` |
| `MC*` | instances for TLC | the runs |
| `*Proofs` | theorems and proofs | |

`Hub` and `Registry` are each other's complement. `Registry` says, for each
operation, which nodes are *told* (the arguments of `ConfigChanged` and
`UsersChanged`) and proves that these are all whose data changed. `Hub` takes
"message k of node n changed, and its handler will notify" as given, with the
message abstracted to a version number, and shows what becomes of the
notification. `Accounting` takes two of `Registry`'s steps (a user crosses the
limit; the counter is reset) apart into the statements they consist of, and `Edits`
does so with those on nodes and inbounds. `NodeAuth` is what comes before `Hub`'s
`Accept`; it is composed with `RateLimit`, whose state it contains and whose steps it
takes as its own.

### 2.1 Delivery and Hub

State: the database's version `ver[n][k]` of each message; what each writer has
yet to notify (`owedUsers`, `owedConfig`); `pendUsers`, `pendConfig`, `pendTimer`
as in the code, with armed timers the pointer was moved away from in `orphans` and
timers that have fired but whose goroutine has not taken the lock in `started`;
`conns` as in the code; per connection how far `serve` has come (`state`), whether
the peer answers (`peer`) and whether hello came; per flush goroutine its flags and
the connections left to visit; per `pushTo` the version read and not yet written.

| Actions | Code |
|---|---|
| `CommitUsers`, `CommitConfig`, `UsersChanged`, `ConfigChanged` | a service method: the commit, then the notification(s), each its own step |
| `Schedule`, `TimerFires` | `Hub.schedule`, `time.AfterFunc` |
| `FlushTakes`, `FlushSnapshots`, `FlushVisits`, `FlushReturns`, `BudgetSpent` | `Hub.flush`: the section under `pendMu`, the section under `Hub.mu`, one connection after another, the shared 30 s |
| `Read`, `ReadFails`, `Write`, `WriteFails`, `WriteTimesOut` | `Hub.pushTo`: each message is read in one step and written in a later one |
| `Accept`, `Serve`, `Hello`, `PeerCloses`, `KeepaliveExpires`, `ServeReturns` | `Handler`, `serve`, `dispatch`, `keepalive` |
| `GoesSilent`, `Restart` | the network; the process |

`held`, `overtaken` and `missed` are history variables: what was last written to a
connection, whether it was older than what had been written before, and which
pushes failed. A message that is written as it is now has not been missed any more. No
guard reads them.

`Delivery` is the abstract specification. It has no writers, flags, timers or
goroutines: a connection that is `live` has, for every message, what it was last
written (`view`) and a bit (`dirty`). A bit goes up when the message changes and, with
all others, when the connection opens; a step that lowers one writes the message as it
is in the database at that moment (`Writes`), gives it up (`GivesUp`) or closes the
connection (`Closes`). An older version may be written too (`WritesOld`), and lowers
nothing. `lapsed` remembers what was given up, or written current and then older.

`DeliversAsPromised` is the refinement: `INSTANCE Delivery` with the database's versions
as they are, the open connections for `live`, what they hold for `view`, and for `dirty`
whatever somebody still owes the connection (`Due`: a handler that has committed, a flag,
a flush that has not come to the connection, a push that has not written the message,
or a hello not yet dispatched). Handing a debt from one of these to the next is a
stutter of `Delivery`, so a debt that fell between two of them is a step it does not have.

### 2.2 Registry

State: the tables `nodes`, `inbounds`, `users` (only whether `User.Active`),
`user_inbounds`, the policy setting, and `told`, the notification of the last
step. One action per service method, guards from its validation (`CheckRelay`,
the refusal to delete a node that relays), the cascades of the schema included.
`NodeConfig` and `NodeUsers` are `service/node_push.go` and `relay.go`; `Build` is
`internal/sub`. An operation is one step, since the properties compare the state before
with the state after it; interleavings inside an operation belong to `Edits`. `Next` is an
`Operation` of the panel or the one thing that happens without it, `Expire`; the properties about
user lists speak of operations only, so that a quiet operation is not taken for the passing of time.

### 2.3 Calendar and Accounting

`Calendar` takes a calendar as constants (`FirstDay`, `Length` of each month) and
translates `scheduledInMonth`, `LastScheduledReset` and `NextScheduledReset`.
Resets fall on midnights, and every comparison of the code is between an instant
and such a midnight, so an instant is the number of its day.

`Accounting` makes each SQL statement, each transaction and each notification a
step: the pool has one connection, so statements do not overlap, and nothing else
orders two requests. `report[n]` is `RecordTraffic` on behalf of node n, `edit[e]` a
request of the web interface (an edit has three steps that matter: the row it read,
the write, the start of the cycle), `sweep` is `RunDueResets` with the rows it read.
`Fault` actions are a statement that fails and a restart, between any two steps.
`told` is the list of users the last push called active. `unsaid` holds the users
an operation changed before it failed; `swept` when the schedule last
zeroed a counter. Both are history variables.

### 2.4 Session

State: the four settings that matter (`adminUser`, `adminHash`, `deadline`,
`generation`, with `None` or 0 for a key that is absent), `sessionGen` in memory, how
far each request has come and what it has read, the runs of `-set-admin`, the
generations of the cookies handed out. A cookie is valid when its generation is
`sessionGen` (`sessions.user`). The keys of the signatures are in the database and
survive a restart, so they are left out.

| Actions | Code |
|---|---|
| `SetupBegins`, `SetupLooks`, `SetupOpens`, `SetupEnds`, `SetupClaims` | `getSetup` and `postSetup`: `AdminExists`, `setupOpen` (the read, then the transaction that sets the deadline), the end of the request, `CreateAdmin` |
| `LoginBegins`, `LoginChecks`, `Issue` | `postLogin`, `CheckAdmin` with its two reads, `sessions.issue` |
| `LogoutReads`, `LogoutWrites`, `LogoutCaches`, `LogoutFails` | `postLogout`: the two halves of `bumpSessionGeneration`, and the copy to memory |
| `SetAdminUser`, `SetAdminHash`, `SetAdminFails` | `SetAdmin` from the command line, which may end between its writes |
| `Restart`, `Tick` | `New` reads the generation again; the clock |

`before`, `revoked`, `overlapped`, `claims`, `torn` and `opened` are history variables.

### 2.5 Throttle and RateLimit

`Throttle` is the abstract specification. Its state is who asks, and the times at which
attempts were let through. An attempt is let through if, and only if, afterwards no
stretch of attempts of that address is longer than the burst and the refill between its
first and its last (`Conforming`). There are no buckets and nothing is forgotten.

`RateLimit` is the code. Time is a number of ticks and one token of a bucket is `Per`
ticks of credit, so that the floating-point `tokens` becomes a whole number; a tick adds
one. `ReadClock` is the caller's `time.Now()`, `Allow` the section under the lock
(sweep, find or make the bucket, refill, spend), so calls may be served in another
order than they read the clock, and `now - last` may be negative, as in the code.
`credit` may become negative that way too. `Delay` is how long a caller may be kept from
the lock; `LimiterAssumption` asks that the burst's refill and twice that delay fit in
the lifetime of an idle bucket. With the code's numbers that is 180 s or 50 s against
600 s, which leaves a delay of three minutes and a half at least.

`KeepsPromise` is the refinement: `INSTANCE Throttle` with the same calls and answers,
and the burst as `Full`.

### 2.6 NodeAuth

State: of each row of `nodes` the token its hash is of, the token its index is of, and
whether it is enabled; per handshake its token, the node it found and where it is.

| Actions | Code |
|---|---|
| `CreateNode`, `RotateNodeToken`, `ToggleNode`, `DeleteNode` | the operator: one statement each |
| `LooksUp` | `NodeByTokenSHA`, and the answer if it finds a row |
| `LookupFails`, `QueryFails` | that query, or one of the next two, returns an error, which `Handler` answers with the 401 of a bad token |
| `CountsNone`, `CountsSome` | `NodesMissingTokenSHA`; `allowSlow` reads the clock |
| `Waits`, `HearsLimiter` | `Limiter.Allow` and what becomes of its answer |
| `Scans`, `Upgrades` | `Nodes` with the comparisons; `SetNodeTokenSHA`, whose failure is ignored |
| `Ends`, `Restart` | the refused request is over, or the connection closes; the process stops |

`entitled`, `lapsed`, `raced` and `failed` are history variables: the nodes that were enabled and
had the token at some moment of the handshake, whether there was a moment when none
was, whether another handshake with the same token indexed the row meanwhile, and whether
a query of the handshake failed. Ids
are given as SQLite does (one more than the largest), so a deleted node's may come back.

### 2.7 Edits

State: `node` and `inbound`, the two tables, with the object a node is sent (`conf`) next
to the columns it repeats; per request the next statement, the row it has read, the
row it is to write, and for a rename the inbounds it found and the tags it gives them.

| Actions | Code |
|---|---|
| `OpensNode`, `ReadsPrev`, `WritesNode` | `updateNode` and `toggleNode`; the two statements of `UpdateNode` |
| `ReadsRows`, `ReadsTaken`, `Retags` | `retagNodeInbounds`: its two queries and its transaction |
| `TellsNode`, `TellsHosts` | `ConfigChanged`; `notifyRelayHostsOf`, which queries again |
| `OpensEdit`, `Saves`, `TellsEdit` | `EditInbound`: the read, `UpdateInbound`, and the notifications |
| `OpensSwitch`, `Rereads`, `OpensDelete`, `Deletes`, `OpensCreate`, `Inserts`, `TellsBoth` | `SetInboundEnabled`, `DeleteInbound`, `CreateInbound` |
| `Fails`, `Restart` | any statement ends the request with an error; the process stops |

`Config(n)` is what the node is sent, from its own rows and from those it relays.
`stale` (history) holds the nodes whose `Config` changed since they were last told;
`overwritten` and `cut` (history) mark the two things that excuse a promise: a write that went by
rows that had changed since they were read, and a request that ended between its
write and what should have followed.

## 3. Runs

All runs finish in about three minutes or less with two workers.

| Run | Instance | Shows |
|---|---|---|
| `hub` | 1 node, 2 connections of it, 1 flush goroutine, 1 writer, 1 change each of users and configuration | `FlagsWillBeTaken`, `NoChangeLost`, `OneConnectionPerNode`, that the hub implements `Delivery` (`DeliversAsPromised`) and, under fairness, `SilentConnectionDropped`, `EventuallyDelivered`, all across a reconnect |
| `hub_overtake` | as small as the case allows | finding: `Converged` fails |
| `registry` | 2 nodes, 2 inbounds, an external host, 1 user, 2 ports, 2 addresses, 2 policies | `References`, `SubscriptionServed`, `ConfigChangesTold`, `RelayKept`, `UserListsTold` |
| `registry_told` | 2 nodes, 2 inbounds, 1 user | finding: `UserListChangesTold` fails |
| `registry_loop` | 2 nodes, 1 inbound, 1 port | finding: `NoSelfForward` fails |
| `accounting` | 1 user and node, 2 request handlers, the sweep; limit 0 or 1; typed reset days 0 and 2; 3 days at the beginning of a year; 1 unit of traffic; 1 fault | `LedgerOwned`, `ChangesPushed`, `CounterFollowsLedger`, `OncePerCycle` while a user is edited, reset, deleted and created anew by two requests at once |
| `accounting_sweep` | 2 users, no requests, the last 2 days of a year and the first 2 of the next, typed reset days 0, 2, 32, the sweep fair | `CalendarAgrees`, `DueOnTheDay`; `ChangesPushed` and `OncePerCycle` for a sweep interrupted between users; `EventuallyReset` |
| `accounting_switch` | 5-day months, 3 days | finding: `SwitchingOnKeepsUsage` fails |
| `session` | 2 requests, 2 runs of `-set-admin`, 2 accounts, a window of 1 on a clock of 0 to 2, generations to 2 | `ClaimedOnce`, `OneSetupWindow`, `LoggedOutStaysOut`, `OnlyLogoutEndsSessions` |
| `session_boot` | the same | finding: `SetupWindowFromBoot` fails |
| `node_auth` | 2 handshakes from 1 address; 2 nodes from before the index, one of them operated on; 3 tokens; a burst of 1 refilled in 2 ticks, a lifetime of 4, a delay of 1, 5 ticks | `AdmittedWhenEntitled`, `RefusedForCause`, `Conforms`, and that the limiter implements `Throttle` (`KeepsPromise`) |
| `edits` | 2 requests at a time, 3 in all, 2 nodes, 2 inbounds, 3 names of which two have one slug, 2 addresses, 2 ports | `TagsAgree`, `RowsAgree`, `EveryChangeTold`, `TagsFollowName` |

`TypeOK` is checked once per module, in `hub`, `registry`, `accounting_sweep`,
`session`, `node_auth` (with the limiter's) and `edits`.

### Bounds, and why they are enough for the questions asked

* *Hub.* One writer, one flush goroutine and the hello handler are the pushers; two
  connections of one node are the old and the new side of a reconnect. They are not
  reused, so TLC stops when both are gone, which is why deadlock is not checked
  (`CHECK_DEADLOCK FALSE`). A change bumps the configuration, the users or both, so a
  push writes one before the other. Flushes that overlap, several nodes and any number of changes
  are beyond this instance and within the theorems, which have `DeliversAsPromised`,
  `NoChangeLost`, `FlagsWillBeTaken` and `OneConnectionPerNode` for all of them; the two liveness
  properties are known for the instance only.
* *Registry.* Two inbounds on two nodes give relays in both directions at once and
  conflicts of ports; the external host is the third place an inbound can be reached
  at. Two addresses and ports are equal or not. A move from one relay to another
  needs a third node and is covered by the theorems. `told` is written by every
  action and read by none, so it is left out of the view; the action properties
  read its new value, which TLC evaluates on every step.
* *Accounting.* Months of two days and of one in turn make reset day 2 exist in
  every second month only, as 31 does; 0 is "never", and 32 is a typing error, which
  the code turns into "never"; the clock of `accounting`
  shows January 1 and 2 and the one day of February, so two resets of day 2 come on consecutive
  days. That of `accounting_sweep` shows November 2, December, and January 1 and 2: a panel that is off
  from November to January 1 finds that the reset of December was missed, which is the case in
  which the code looks at the month before, in the year before. One unit of traffic against a limit of one makes a user cross the
  limit in one report and come back by a reset or an edit. Two request handlers
  against each other, the sweep and a report: an edit whose user is deleted before it
  writes, an id that passes to another user. The theorems of section 5 hold for all of these numbers.
* *Session.* Two requests are a race (for the claim, for the deadline, a login in a
  logout); with two of `-set-admin` they are four processes on the settings. A clock
  of 0 to 2 with a window of 1 has an instant before, at and after the end of the first
  window, and room for a second one that must not open. Two generations are two
  logouts, the second of which must not bring back what the first revoked.
* *NodeAuth.* Two handshakes race each other for the limiter, for the scan and for the
  index. One node is old and left alone, so there is always something to scan for; the
  other is old too, dials, and is rotated, switched, deleted and made anew under its id.
  The tokens presented are its first one and the next one. A lifetime of 4 is the
  smallest `LimiterAssumption` allows (2 for the burst, 2 for the delay twice), so that
  five ticks see a bucket made, emptied, refilled, swept and made again.
* *Edits.* Three requests are what it takes to create an inbound, and then to rename
  its node while something else happens to it. Two slugs on two nodes collide, are
  exchanged and are kept by a change of name that has the same slug; two inbounds take
  a number from each other. Every start of a request has its parameters chosen freely.
  The first table is of two nodes with different names and addresses.

`MaxVersion`, `MaxTotal`, `MaxFaults`, `MaxTime`, `MaxGeneration`, `MaxRequests`,
`MaxNode` and `MaxInbound` are the only caps on counters, and each is in the guard of
the step that counts. `Live`, `Presented` and `Starts` narrow down what `NodeAuth` and `Edits` enumerate.

### Fairness

* *Hub.* Weak fairness of the timer (the runtime fires it), of each handler that
  has committed and is about to notify, of each flush and push (reads are local and each
  write has a deadline, `hub.go:350-352`; fairness is of the disjunction of success and
  failure, so it never promises that a write succeeds), of `serve`, of the
  keepalive (a ticker with a timeout, `hub.go:192-213`), and of hello from a node
  that is connected and answers. No fairness of commits, dials, failures or
  restarts. `EventuallyDelivered` therefore says: somebody's turn always comes, as
  long as the changes do not go on for ever, which the bound on versions stands
  for. The debounce itself could be put off for ever by a stream of changes; an
  untimed model cannot show that (see the hazard at `hub.go:411`).
* *Accounting.* Weak fairness of the sweep: its goroutine runs as long as the
  process does (`cmd/panel/main.go:225-242`); the same ticker starts it again after
  a failure. Faults are bounded, so the sweep is eventually left alone.

## 4. Findings

Five runs expect a violation; each property states what a comment or document of
the repository says, and the finding in `PROJECT.json` quotes it.

1. `hub_overtake`: a `pushTo` that reads the users before a change and is slow to
   write can write after the flush of that change. The node is left with the older
   list and nothing pending until the next change or reconnect. What *does* hold is
   `NoChangeLost`: the newer list was written too, before the older one. And the theorem
   `TurnsConverge` says that overlapping is all there is to it: on a connection to which one push is
   under way at a time, a node that is owed nothing has what the database says.
2. `registry_told`: deleting a node removes, by cascade, the rows that restrict
   users to its inbounds. A user with no rows left may use every inbound, so the
   lists of other nodes change, and `UsersChanged` is not called (unless a relay
   happens to be told). What does hold is `UserListsTold`: no other operation of the panel changes a
   list quietly, whether it adds users or takes them away, and the users this one adds are those who
   were restricted to the deleted node and to nothing else.
3. `registry_loop`: the check that a relay does not forward to itself is made when
   the relay is set; an address changed afterwards is not looked at.
4. `accounting_switch`: switching a schedule on writes the day and starts the cycle
   in two statements; a sweep in between zeroes the counter.
5. `session_boot`: the deadline of the first-run setup is written by the first request
   for `/setup`, not at the first boot as three comments say: nothing calls `setupOpen`
   before. What does hold is `OneSetupWindow`: there is one window, whenever it starts.

Four more are too plain to need a run.

* A new user's cycle starts at the creation, and the next reset day may be the next
  day; then the user is reset, contrary to the example in `store/users.go:42-44`.
* Rotating a node's token (`service.go:293`) changes the row and nothing else: the
  connection that was authenticated by the old token stays, although the page says
  that the node goes offline (`templates/nodes.html:123`). Deleting a node leaves its
  connection as well.
* A handshake that misses the index, while another one with the same token upgrades the
  row, finds nothing left to scan and is told that its token is bad
  (`auth.go:180-186`). The node dials again and gets in by the index. `RefusedForCause` makes this
  exception (`raced`).
* A handshake whose database query fails (`auth.go:173-174`, `180-183`, `191-194`) is answered
  401 "unauthorized", word for word the answer to a bad token: `Handler` tells only
  `ErrTooManyAttempts` apart (`hub.go:99-107`). A node cannot know that its token is good.
  `RefusedForCause` names it as a cause (`failed`); what it says of the limiter, that throttling never
  ends in that answer, holds.

In addition `ChangesPushed` has an explicit exception, `unsaid`: when a sweep fails
on one user, `RunDueResets` returns before it notifies (`reset.go:117`), and the
users it had reset stay off the nodes' lists until the next push. An edit that fails
between its statements does the same. The property says that these are the only ways.
Likewise `LoggedOutStaysOut` excepts overlapping logouts, where an older generation can
be written last, and memory and table can part until the next logout; the comment of
`bumpSessionGeneration` (`server.go:67-70`) accepts a lost update there. `ClaimedOnce`
excepts `torn`: `SetAdmin` writes two settings in two statements (`auth.go:53-56`), so
one that is cut short, or two that interleave, leave the name of one account with the
password of another until it is run again. Three properties of `Edits` except `overwritten`
and two of them `cut`: a retag writes back the port it read, so an edit of the port in
between leaves the row and the object it was made for apart; a request whose
statement fails after its first write tells nobody. What they say is that nothing else goes wrong, and
`TagsAgree` has no exception at all. `overwritten` in turn is due to requests that are under way at
the same time and to nothing else: the theorem `TurnsLoseNothing` has the three properties without it
as long as requests take turns.

## 5. Proofs

Each theorem about a component is of the form `Spec => []Inv`, `Spec => [][A]_vars`, or
`Spec => Abstract!Spec` (two refinements), for every value of the constants under the
module's named assumption. Two have a condition on the behaviour, `Spec => ([]C => []P)`: what a
known fault leaves intact as long as the interleaving behind it does not occur. Those on
`Calendar` are about its operators.

| Theorem | Says |
|---|---|
| `HubProofs!TypeCorrect` | `TypeOK` |
| `HubProofs!TableCorrect` | `OneConnectionPerNode` |
| `HubProofs!FlagsAreTaken` | `FlagsWillBeTaken` |
| `HubProofs!HubDelivers` | `DeliversAsPromised`: the hub implements `Delivery` |
| `HubProofs!ChangesDelivered` | `NoChangeLost`, as a corollary |
| `HubProofs!TurnsConverge` | if pushes to a connection take turns, its node is left with nothing older than the database |
| `RegistryProofs!TypeCorrect`, `ReferencesHold` | `TypeOK`, `References` |
| `RegistryProofs!SubscriptionsAreServed` | `SubscriptionServed` |
| `RegistryProofs!ConfigTold`, `RelaysKept`, `UserListsAreTold` | the action properties |
| `CalendarProofs!ResetsAdjacent` | last and next reset are adjacent, one per month |
| `CalendarProofs!CyclesTile` | an instant between the two has the same two around it: cycles neither overlap nor leave a gap |
| `AccountingProofs!TypeCorrect`, `CalendarIsRight`, `DueIsRight` | `TypeOK`, `CalendarAgrees`, `DueOnTheDay` |
| `AccountingProofs!LedgerIsOwned`, `ChangesArePushed` | `LedgerOwned`, `ChangesPushed` |
| `AccountingProofs!CountersFollow`, `ResetOncePerCycle` | the action properties |
| `SessionProofs!TypeCorrect`, `AccountIsWhole` | `TypeOK`, `ClaimedOnce` |
| `SessionProofs!SetupHasOneWindow`, `LogoutHolds` | `OneSetupWindow`, `LoggedOutStaysOut` |
| `SessionProofs!SessionsLast` | `OnlyLogoutEndsSessions` |
| `RateLimitProofs!LimiterConforms`, `LimiterKeepsPromise` | the limiter alone: `Conforms`; it implements `Throttle` |
| `NodeAuthProofs!Types` | `TypeOK` |
| `NodeAuthProofs!HandshakesConform`, `HandshakesThrottled` | `Conforms` and `KeepsPromise` of the limiter in use |
| `NodeAuthProofs!Admitted`, `Refused` | `AdmittedWhenEntitled`, `RefusedForCause` |
| `EditsProofs!EditsTyped`, `TagsStayInStep`, `RowsStayInStep` | `TypeOK`, `TagsAgree`, `RowsAgree` |
| `EditsProofs!ChangesAreTold`, `TagsFollow` | `EveryChangeTold`, `TagsFollowName` |
| `EditsProofs!TurnsLoseNothing` | `RowsAgree`, `EveryChangeTold` and `TagsFollowName` without the excuse `overwritten`, if requests take turns |

Assumptions. `HubAssumption`: connections have a node and are not flush goroutines.
`RegistryAssumption`: the values for "no row" and "empty" are no rows and no ids.
`CalendarAssumption`: months have a positive length and do not overlap, in order; nothing about
how long they are. `AccountingAssumption`: the clock's days lie on the calendar.
`SessionAssumption`: the bounds are natural numbers and the value for "absent" is no
account and no number. `LimiterAssumption` is that of section 2.5. `AuthAssumption`:
old tokens are different. `EditsAssumption`: every name has a slug, and the nodes of the
first table have different names. TLC evaluates all of them in the runs.

Arguments.

* *Hub.* `OneConnectionPerNode` is inductive with the type: `serve` registers and
  closes the old side in one section, teardown deletes only its own entry.
  `FlagsWillBeTaken` is inductive with the type: `Schedule` arms or re-arms a
  timer whatever state it finds it in, a timer that fires starts a flush, and only
  `FlushTakes` clears the flags. The refinement is not a matter of types: a hello
  dispatched before `serve` registered the connection, or a `pushTo` that has ended and
  still wants a message, would break the chain of debts; a message read that is
  newer than the database, a connection written to before it is open, or an entry of the table
  under another node, would make steps that `Delivery` does not have. `HubInv` excludes
  them (`HelloShape`, `PushShape`, `ReadShape`, `FreshShape`, `TableShape`). Then every action is
  one of six kinds. It hands a debt to the next in the chain writer, flag, flush, push,
  and `Dirty` stays as it is (`NotifyQuiet`, `FlushQuiet`, `ReadQuiet`, `ConnQuiet`, `TimerQuiet`);
  it commits (`CommitChanges`), closes (`ClosingCloses`, `LossCloses`, `RestartCloses`) or opens
  (`ServeOpens`); it writes what it read, which is the current version or an older one
  (`WriteWrites`); or it misses (`MissGivesUp`). `NoChangeLost` follows on the level of
  `Delivery`, where `InStep` is inductive with the type alone. `TurnsConverge` adds
  `TurnInv`: nothing was overtaken, and a push about to write has read nothing older than what
  the connection was last written; with one push at a time nobody writes between its
  read and its write. The condition stands for an order the code does not enforce, so
  it is no property of a run.
* *Registry.* `TypeOK` includes that an inbound is reached at one of three places
  (`InboundRow`), which is what the guards of `ResolveRelay` give. `References` with
  `TypeOK` is inductive. The action properties follow
  from both: for each action, the configuration of a node is a function of rows the
  action changes only for the nodes it tells; the relays of a node's inbounds are
  the only other nodes that depend on its row. `SubscriptionServed` follows from the
  first two without an induction of its own: `Build` and `NodeConfig` ask the same of the rows.
  `UserListsTold` is of the same kind; its one case of substance is the deletion of a node, where a user's
  restriction is what is left of it outside the node, and is empty just for `OnlyOn`.
* *Accounting.* `LedgerOwned` and `ChangesPushed` are inductive with `TypeOK`.
  `OncePerCycle` needs `StampsFollow`: once the schedule has zeroed a counter, the
  row's stamp and the stamp a running sweep has read are no earlier than that, and a
  user the sweep still has to visit was last zeroed before the reset day the sweep found
  passed. `CounterFollowsLedger` needs the type only: a report adds to both tables in one transaction, an
  edit and the start of a cycle write other columns, and two steps zero. `DueOnTheDay` needs no induction: the last
  reset by the two months the code looks at is the latest one of all months that has passed
  (`ResetsAdjacent`), so a reset since the row's stamp exists exactly when that one is.
* *Session.* `ClaimInv` adds to `ClaimedOnce` that a claim leaves an administrator
  (so nobody claims after it), and that a `-set-admin` between its two writes is the
  only one there and has the name it wrote. `WindowInv`: the deadline is the end of the
  window that was opened, and whoever is at the form looked before it. `LogoutInv`,
  while no two logouts have overlapped: memory agrees with the table except between a
  logout's write and its copy, where it is behind, and no cookie is ahead of memory;
  the copy therefore takes memory past every cookie there was. `OnlyLogoutEndsSessions` follows from the same
  invariant: a restart reads the table, which differs from memory only while some logout is
  between its two halves.
* *RateLimit.* The i-th of n attempts and its successors are paid for at the time
  `Owed(s, i) = s[i] + Per * (n - i + 1)`. A bucket of credit c that was last used at l
  would be full at `l + Full - c`, and `Fits` says that this is the latest of the times
  owed: an upper bound, so that the bucket lets through only what conforms, and a bound that is reached,
  so that it refuses nothing that does. For a bucket that is gone, or was never made,
  `ForgottenPaid` says that everything was paid for before any caller still waiting read
  its clock, hence a new bucket is a full one. This is where the lifetime against burst and delay comes in.
  With the two, every `Allow` is an `IsAnswered` of `Throttle`, and the rest are `Asks`,
  `Leaves`, `Forgets` and stutters.
* *NodeAuth.* Tokens are new when they are made, so a hash has one row, and an index
  is the hash of its row or nothing (`RowsAgree`). `Found`: the row a scan hit is the
  token's still, or has an index and is not upgraded, or is gone. `Missed`: past the
  lookup, the rows of the token have no index, or there was a moment without a row,
  or somebody indexed it; a query that fails sets `failed` in the step that refuses. The steps of `NodeAuth` are steps of
  `RateLimit` or leave it alone, so the limiter's theorems carry over.
* *Edits.* `EditInv` says that whatever is out of step has a request under way that
  will see to it. Every node in `stale` has a request that is going to tell it
  (`Announces`: the node of an edit that switched or retagged, the present hosts of its
  inbounds, the nodes in `Concerned`), and every inbound named after an old name has a
  rename that is going to catch it (`Renames`). A step hands the duty on to the
  request's next statement; a request that gives it up, by failing or by writing over rows that
  have changed, sets `cut` or `overwritten`. `Bases` ties what a request
  is to write to what it read, `Shapes` says what kind of row it holds. For
  `TurnsLoseNothing`, what a request has read is what the tables say (`UpToDate`) at each of its
  statements, since nobody else has begun when it takes a step.
* *Calendar.* `ResetsAdjacent` by cases on whether this month's reset has passed;
  the neighbouring month's is in that month, whatever its length. `CyclesTile` from it: the
  four resets around two instants are resets of some month, and none lies between the last and
  the next of either.

Left to TLC, because the prover does not reach it: the liveness properties
(`SilentConnectionDropped`, `EventuallyDelivered`, `EventuallyReset`), with anything
about fairness and `ENABLED`; induction over data; recursive operators, of which the
models have none. Every invariant, every action property and every refinement the passing runs
check is a theorem.

## 6. Abstractions, and what is not modelled

* *Messages* are versions (`Hub`), their content is `Registry`'s. The node's
  behaviour is only what the protocol shows of it.
* *Time* is a day number (`Accounting`) or absent (`Hub`: any timer may fire at any
  point after it is armed). Daylight saving, midnights that do not exist
  are ignored. The hour is not needed: the code compares instants with midnights only.
* *Names, tags, credentials, configurations* are values that are equal or not. A
  tag is the parity of renames (`Registry`) or the slug of a name and a number (`Edits`). A report names users by row (the code resolves
  names when the report arrives; see the hazard at `traffic.go:49`).
* *The hub's caches for display* (last state, online users) are written and shown,
  and decide nothing.
* *One report adds one unit*; amounts are 64-bit in the code and sums far from
  overflow.
* `Hub.mu` held during a close handshake is not modelled: the wait is bounded by
  the websocket library.
* *A password and its hash* are one value, with its user name an account (`Session`).
  Signatures, cookie expiry and CSRF tokens are left out: the
  generation is what can go wrong over several steps. `postLogin` asks a limiter before
  anything else, which is `RateLimit` with other numbers. `Server.sessionGen` is a plain
  64-bit field that handlers access without a lock; the model takes each access as
  one step, in one order for all.
* *Edits* has inbounds of one protocol, the case in which derived tags collide, and of an inbound's
  object the tag and the port. The relay's port and the external host are left out (they
  are compared like the relay itself), and nodes are neither created nor deleted
  there: `Registry` has these. `CreateInbound`'s reads are one step. An inbound made under an
  id that was deleted, and then overwritten by an edit that had read the old row, may relay through
  its own node, since `UpdateInbound` writes every column but `node_id`; `RowsAgree` counts
  it as overwritten.
* *A limiter's time* is discrete, and a clock that jumps is not modelled (Go's monotonic
  clock does not). The key of a bucket, `ClientIP`, is a value.
* Not modelled: migrations, templates, formatting, charts, subscription formats,
  certificate issue, installation scripts (pure I/O, text, or outside the process).
* Not modelled: the activity digest. `RecordActivity` takes the larger of two numbers in one
  statement per user, nothing reads it back to decide anything, and pruning deletes by
  age: there is no order of steps to get wrong.
* Not modelled: the building of an inbound's object (`inbound.go`, a function of one
  form and of random bytes) and the routing rules a policy expands to (`policy.go`).
* Not modelled yet: the certificate export; see the plan.

## 7. Plan

Order, most important first; 1 to 7 are done.

1. `Hub`: notifications and pushes, with proofs.
2. `Registry`: derived data and who is told, with proofs.
3. `Calendar`, `Accounting`: counters and schedules, with proofs.
4. `Session`: the administrator's account, setup, login and logout, with proofs.
5. `Throttle`, `RateLimit`, `NodeAuth`: the limiter as an implementation of one that
   forgets nothing, and the handshakes that use it, with proofs.
6. `Edits`: overlapping edits of nodes and inbounds by statement, with proofs.
7. `Delivery`: what a connected node is promised, and `Hub` as an implementation of it, with proofs.
8. The certificate export (`web/acme.go`): a key and a certificate, loaded and renamed in
   turn, against a renewal in between and a stop between the two; property: after an
   export that nothing disturbed the pair matches.
9. `Registry` over `Delivery`: the two meet in `told`, and a composition would have the node's view
   follow the rows themselves.

Runs are few by intent: one for each distinct question, so a later module takes the
place of a narrower run where it answers the same question.
