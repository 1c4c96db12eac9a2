------------------------------ MODULE Session ------------------------------
(***************************************************************************)
(* The administrator's account and sessions (internal/service/auth.go and  *)
(* internal/web: server.go, session.go, handlers_auth.go): first-run setup *)
(* and its window, the -set-admin command, login, and logout by raising    *)
(* the session generation.                                                 *)
(*                                                                         *)
(* A step of a request is one statement on the settings table or one access *)
(* to Server.sessionGen; requests run side by side, and -set-admin is a    *)
(* process of its own on the same database.                                *)
(*                                                                         *)
(* Passwords and their hashes are identified.  A request that ends without *)
(* a change (a redirect, a refused login) leaves no trace but its end.     *)
(***************************************************************************)
EXTENDS Integers, FiniteSets

CONSTANTS
    Requests,       \* requests the panel may serve at one time
    Shells,         \* runs of the panel with -set-admin
    Accounts,       \* a user name with its password
    Window,         \* setupWindow
    MaxTime,        \* bound on the clock
    MaxGeneration,  \* bound on the generation
    None

ASSUME SessionAssumption ==
    /\ Window \in Nat /\ MaxTime \in Nat /\ MaxGeneration \in Nat
    /\ Requests # {} /\ Accounts # {}
    /\ None \notin Accounts \cup Nat

VARIABLES
    clock,               \* since the panel first started
    adminUser, adminHash, deadline, generation,  \* the settings table
    sessionGen,          \* Server.sessionGen, the generation in memory
    request,             \* request[r]: how far it is, and what it has read
    shell,               \* shell[x]: a run of -set-admin
    cookies,             \* generations of the cookies handed out
    before,              \* history: before[r]: cookies older than the logout r
    revoked,             \* history: cookies older than a logout that succeeded
    overlapped,          \* history: two logouts have been under way at one time
    claims,              \* history: how many requests were told they had claimed
    torn,                \* history: -set-admin was cut short, or a claim came in between
    opened               \* history: the time of the request that set the deadline

settings == <<adminUser, adminHash, deadline, generation>>
setupHistory == <<claims, torn, opened>>
logoutHistory == <<before, revoked, overlapped>>
vars == <<clock, settings, sessionGen, request, shell, cookies, logoutHistory, setupHistory>>

Steps == {"idle", "window", "open", "form", "hash", "issue", "bump", "cache"}

\* now: the time.Now() of the request; user: what CheckAdmin read; gen: the
\* generation bumpSessionGeneration read or wrote.
Request == [pc : Steps, now : 0..MaxTime, user : Accounts \cup {None}, gen : Nat]
NoRequest == [pc |-> "idle", now |-> 0, user |-> None, gen |-> 0]

Shell == [pc : {"ready", "hash", "done"}, account : Accounts]

TypeOK ==
    /\ clock \in 0..MaxTime
    /\ adminUser \in Accounts \cup {None}
    /\ adminHash \in Accounts \cup {None}
    /\ deadline \in Nat \cup {None}
    /\ generation \in Nat
    /\ sessionGen \in Nat
    /\ request \in [Requests -> Request]
    /\ shell \in [Shells -> Shell]
    /\ cookies \subseteq Nat
    /\ before \in [Requests -> SUBSET Nat]
    /\ revoked \subseteq Nat
    /\ overlapped \in BOOLEAN
    /\ claims \in Nat
    /\ torn \in BOOLEAN
    /\ opened \in 0..MaxTime \cup {None}

\* An empty database.
Init ==
    /\ clock = 0
    /\ adminUser = None /\ adminHash = None /\ deadline = None
    /\ generation = 0
    /\ sessionGen = 0
    /\ request = [r \in Requests |-> NoRequest]
    /\ shell \in [Shells -> {s \in Shell : s.pc = "ready"}]
    /\ cookies = {}
    /\ before = [r \in Requests |-> {}]
    /\ revoked = {}
    /\ overlapped = FALSE
    /\ claims = 0
    /\ torn = FALSE
    /\ opened = None

At(r, pc) == request[r].pc = pc
Ends(r) == request' = [request EXCEPT ![r] = NoRequest]
AdminExists == adminHash # None

-----------------------------------------------------------------------------
(***************************************************************************)
(* Setup (getSetup, postSetup, setupOpen, CreateAdmin).                    *)
(***************************************************************************)

\* AdminExists; if there is one the request is redirected.
SetupBegins(r) ==
    /\ At(r, "idle")
    /\ ~AdminExists
    /\ request' = [request EXCEPT ![r].pc = "window"]
    /\ UNCHANGED <<clock, settings, sessionGen, shell, cookies, logoutHistory, setupHistory>>

\* setupOpen, called with time.Now(), reads the deadline.
SetupLooks(r) ==
    /\ At(r, "window")
    /\ \/ /\ deadline = None
          /\ request' = [request EXCEPT ![r].pc = "open", ![r].now = clock]
       \/ /\ deadline # None /\ clock <= deadline
          /\ request' = [request EXCEPT ![r].pc = "form", ![r].now = clock]
       \/ /\ deadline # None /\ clock > deadline
          /\ Ends(r)
    /\ UNCHANGED <<clock, settings, sessionGen, shell, cookies, logoutHistory, setupHistory>>

\* Mutant of SetupOpens: the deadline is written whether or not there is one.
SetupOpensAnyway(r) ==
    /\ At(r, "open")
    /\ deadline' = request[r].now + Window
    /\ opened' = IF opened = None THEN request[r].now ELSE opened
    /\ request' = [request EXCEPT ![r].pc = "form"]
    /\ UNCHANGED <<clock, adminUser, adminHash, generation, sessionGen, shell, cookies, logoutHistory, claims, torn>>

\* setupOpen claims the deadline; whoever comes second goes by the first one's.
SetupOpens(r) ==
    /\ At(r, "open")
    /\ \/ /\ deadline = None
          /\ deadline' = request[r].now + Window
          /\ opened' = request[r].now
          /\ request' = [request EXCEPT ![r].pc = "form"]
       \/ /\ deadline # None /\ request[r].now <= deadline
          /\ request' = [request EXCEPT ![r].pc = "form"]
          /\ UNCHANGED <<deadline, opened>>
       \/ /\ deadline # None /\ request[r].now > deadline
          /\ Ends(r)
          /\ UNCHANGED <<deadline, opened>>
    /\ UNCHANGED <<clock, adminUser, adminHash, generation, sessionGen, shell, cookies, logoutHistory, claims, torn>>

\* getSetup shows the form, postSetup refuses what was typed, or a statement fails.
SetupEnds(r) ==
    /\ request[r].pc \in {"window", "open", "form"}
    /\ Ends(r)
    /\ UNCHANGED <<clock, settings, sessionGen, shell, cookies, logoutHistory, setupHistory>>

Claim(r, a) ==
    /\ adminUser' = a /\ adminHash' = a
    /\ claims' = claims + 1
    /\ torn' = (torn \/ \E x \in Shells : shell[x].pc = "hash")
    /\ request' = [request EXCEPT ![r].pc = "issue"]

\* Mutant of SetupClaims: the write does not look again.
SetupClaimsUnchecked(r, a) ==
    /\ At(r, "form")
    /\ Claim(r, a)
    /\ UNCHANGED <<clock, deadline, generation, sessionGen, shell, cookies, logoutHistory, opened>>

\* CreateAdmin: both settings in one transaction, if there is no administrator.
SetupClaims(r, a) ==
    /\ At(r, "form")
    /\ IF AdminExists THEN Ends(r) /\ UNCHANGED <<adminUser, adminHash, claims, torn>> ELSE Claim(r, a)
    /\ UNCHANGED <<clock, deadline, generation, sessionGen, shell, cookies, logoutHistory, opened>>

-----------------------------------------------------------------------------
(***************************************************************************)
(* Sessions: login, logout, and the cookie either setup or login ends with. *)
(***************************************************************************)

\* CheckAdmin reads the name, then the hash, and compares both.
LoginBegins(r) ==
    /\ At(r, "idle")
    /\ request' = [request EXCEPT ![r].pc = "hash", ![r].user = adminUser]
    /\ UNCHANGED <<clock, settings, sessionGen, shell, cookies, logoutHistory, setupHistory>>

\* user and password: what was typed.
LoginChecks(r, user, password) ==
    /\ At(r, "hash")
    /\ IF AdminExists /\ request[r].user = user /\ adminHash = password
       THEN request' = [request EXCEPT ![r].pc = "issue", ![r].user = None]
       ELSE Ends(r)
    /\ UNCHANGED <<clock, settings, sessionGen, shell, cookies, logoutHistory, setupHistory>>

\* sessions.issue, with the generation in memory.
Issue(r) ==
    /\ At(r, "issue")
    /\ cookies' = cookies \cup {sessionGen}
    /\ Ends(r)
    /\ UNCHANGED <<clock, settings, sessionGen, shell, logoutHistory, setupHistory>>

LoggingOut == {r \in Requests : request[r].pc \in {"bump", "cache"}}

\* bumpSessionGeneration reads the generation ...
LogoutReads(r) ==
    /\ At(r, "idle")
    /\ generation < MaxGeneration
    /\ request' = [request EXCEPT ![r].pc = "bump", ![r].gen = generation]
    /\ before' = [before EXCEPT ![r] = cookies]
    /\ overlapped' = (overlapped \/ LoggingOut # {})
    /\ UNCHANGED <<clock, settings, sessionGen, shell, cookies, revoked, setupHistory>>

\* Mutant of LogoutWrites: the new generation is kept in memory only.
LogoutWritesNothing(r) ==
    /\ At(r, "bump")
    /\ request' = [request EXCEPT ![r].pc = "cache", ![r].gen = @ + 1]
    /\ UNCHANGED <<clock, settings, sessionGen, shell, cookies, logoutHistory, setupHistory>>

\* ... and writes the next one, which postLogout then copies to memory.
LogoutWrites(r) ==
    /\ At(r, "bump")
    /\ generation' = request[r].gen + 1
    /\ request' = [request EXCEPT ![r].pc = "cache", ![r].gen = @ + 1]
    /\ UNCHANGED <<clock, adminUser, adminHash, deadline, sessionGen, shell, cookies, logoutHistory, setupHistory>>

LogoutCaches(r) ==
    /\ At(r, "cache")
    /\ sessionGen' = request[r].gen
    /\ revoked' = revoked \cup before[r]
    /\ before' = [before EXCEPT ![r] = {}]
    /\ Ends(r)
    /\ UNCHANGED <<clock, settings, shell, cookies, overlapped, setupHistory>>

\* The statement fails: a line in the log, and nobody is logged out.
LogoutFails(r) ==
    /\ At(r, "bump")
    /\ before' = [before EXCEPT ![r] = {}]
    /\ Ends(r)
    /\ UNCHANGED <<clock, settings, sessionGen, shell, cookies, revoked, overlapped, setupHistory>>

-----------------------------------------------------------------------------
(***************************************************************************)
(* -set-admin (SetAdmin), restarts, and the clock.                         *)
(***************************************************************************)

SetAdminUser(x) ==
    /\ shell[x].pc = "ready"
    /\ adminUser' = shell[x].account
    /\ shell' = [shell EXCEPT ![x].pc = "hash"]
    /\ torn' = (torn \/ \E y \in Shells : shell[y].pc = "hash")
    /\ UNCHANGED <<clock, adminHash, deadline, generation, sessionGen, request, cookies, logoutHistory, claims, opened>>

SetAdminHash(x) ==
    /\ shell[x].pc = "hash"
    /\ adminHash' = shell[x].account
    /\ shell' = [shell EXCEPT ![x].pc = "done"]
    /\ UNCHANGED <<clock, adminUser, deadline, generation, sessionGen, request, cookies, logoutHistory, setupHistory>>

SetAdminFails(x) ==
    /\ shell[x].pc = "hash"
    /\ shell' = [shell EXCEPT ![x].pc = "done"]
    /\ torn' = TRUE
    /\ UNCHANGED <<clock, settings, sessionGen, request, cookies, logoutHistory, claims, opened>>

\* Mutant of Restart: an empty setting is not read as generation 0.
RestartReadsNothing ==
    /\ sessionGen' = IF generation = 0 THEN None ELSE generation
    /\ request' = [r \in Requests |-> NoRequest]
    /\ before' = [r \in Requests |-> {}]
    /\ UNCHANGED <<clock, settings, shell, cookies, revoked, overlapped, setupHistory>>

\* Mutant of Restart: the generation in memory starts from nothing.
RestartFromZero ==
    /\ sessionGen' = 0
    /\ request' = [r \in Requests |-> NoRequest]
    /\ before' = [r \in Requests |-> {}]
    /\ UNCHANGED <<clock, settings, shell, cookies, revoked, overlapped, setupHistory>>

\* The keys are in the database, so the browsers' cookies outlive the process.
Restart ==
    /\ sessionGen' = generation
    /\ request' = [r \in Requests |-> NoRequest]
    /\ before' = [r \in Requests |-> {}]
    /\ UNCHANGED <<clock, settings, shell, cookies, revoked, overlapped, setupHistory>>

Tick ==
    /\ clock < MaxTime
    /\ clock' = clock + 1
    /\ UNCHANGED <<settings, sessionGen, request, shell, cookies, logoutHistory, setupHistory>>

-----------------------------------------------------------------------------
SetupStep(r) ==
    \/ SetupBegins(r) \/ SetupLooks(r) \/ SetupOpens(r) \/ SetupEnds(r)
    \/ \E a \in Accounts : SetupClaims(r, a)

LoginStep(r) == LoginBegins(r) \/ Issue(r) \/ \E user, password \in Accounts : LoginChecks(r, user, password)

LogoutStep(r) == LogoutReads(r) \/ LogoutWrites(r) \/ LogoutCaches(r) \/ LogoutFails(r)

Next ==
    \/ \E r \in Requests : SetupStep(r) \/ LoginStep(r) \/ LogoutStep(r)
    \/ \E x \in Shells : SetAdminUser(x) \/ SetAdminHash(x) \/ SetAdminFails(x)
    \/ Restart
    \/ Tick

Spec == Init /\ [][Next]_vars

-----------------------------------------------------------------------------
(***************************************************************************)
(* Properties.                                                             *)
(***************************************************************************)

\* Of all the requests that race for the first-run setup one at most is told it
\* has the account, and the name and the password that are stored are of one
\* account, unless -set-admin is between its two writes, was cut short there, or
\* had a claim or another -set-admin come in between.
\* (service/auth.go:59-74, store.go:138-168)
ClaimedOnce ==
    /\ claims <= 1
    /\ adminUser = adminHash \/ torn \/ \E x \in Shells : shell[x].pc = "hash"

\* Setup is open for one window, the one of the first request to set a deadline:
\* no request gets to claim that looked after its end, whatever requests race to
\* set the deadline and however often the panel restarts.  (server.go:83-116)
OneSetupWindow ==
    \A r \in Requests :
        At(r, "form") => opened # None /\ request[r].now <= opened + Window

\* "a bumped generation invalidates every cookie issued before it, whether the
\* browser still holds them or not" (session.go:31-33): a cookie handed out
\* before a logout that went through is never valid again, through restarts,
\* failed logouts and new logins, as long as no two logouts overlap.
LoggedOutStaysOut == overlapped \/ sessionGen \notin revoked

\* "restarts do not log everyone out" (server.go:156): nothing but a logout that has
\* been written makes the cookies of now invalid.  A login, a failed logout, the
\* setup and -set-admin do not, nor does a restart, unless it comes between the two
\* halves of a logout and so completes it, or logouts have overlapped.
OnlyLogoutEndsSessions ==
    [][sessionGen' # sessionGen => overlapped \/ \E r \in Requests : At(r, "cache")]_vars

\* "The setup form is only available within a bounded window after the panel's
\* first boot." (handlers_auth.go:31-32; DESIGN.md:684)
SetupWindowFromBoot ==
    \A r \in Requests : At(r, "form") => request[r].now <= Window
=============================================================================
