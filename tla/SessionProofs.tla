--------------------------- MODULE SessionProofs ---------------------------
(* Theorems about Session, for any number of requests and of -set-admin runs. *)
EXTENDS Session, TLAPS

\* A request that starts anew has the type of one.
LEMMA RestingRequest == NoRequest \in Request
BY SessionAssumption DEF NoRequest, Request, Steps

\* The initial state has the types.
LEMMA TypeCorrectInit == Init => TypeOK
<1> SUFFICES ASSUME Init PROVE TypeOK
  OBVIOUS
<1>1. request \in [Requests -> Request] /\ before \in [Requests -> SUBSET Nat]
  BY RestingRequest DEF Init
<1>2. shell \in [Shells -> Shell]
  BY DEF Init
<1>3. clock \in 0..MaxTime /\ generation \in Nat /\ sessionGen \in Nat /\ claims \in Nat
  BY SessionAssumption DEF Init
<1> QED BY <1>1, <1>2, <1>3 DEF Init, TypeOK

\* Setup keeps the types.
LEMMA SetupStepTypes == ASSUME TypeOK, NEW r \in Requests, SetupStep(r) PROVE TypeOK'
<1> USE RestingRequest DEF TypeOK, Ends
<1>0. request[r] \in Request
  OBVIOUS
<1>1. CASE SetupBegins(r)
  BY <1>1 DEF SetupBegins, settings, logoutHistory, setupHistory, Request, Steps
<1>2. CASE SetupLooks(r)
  BY <1>2 DEF SetupLooks, settings, logoutHistory, setupHistory, Request, Steps
<1>3. CASE SetupOpens(r)
  <2>1. request[r].now \in 0..MaxTime /\ request[r].now + Window \in Nat
    BY <1>0, SessionAssumption DEF Request
  <2> QED BY <1>3, <2>1 DEF SetupOpens, logoutHistory, Request, Steps
<1>4. CASE SetupEnds(r)
  BY <1>4 DEF SetupEnds, settings, logoutHistory, setupHistory
<1>5. ASSUME NEW a \in Accounts, SetupClaims(r, a) PROVE TypeOK'
  <2>1. CASE AdminExists
    BY <1>5, <2>1 DEF SetupClaims, logoutHistory
  <2>2. CASE ~AdminExists
    <3>1. /\ adminUser' = a /\ adminHash' = a /\ claims' = claims + 1
          /\ request' = [request EXCEPT ![r].pc = "issue"]
          /\ torn' = (torn \/ \E x \in Shells : shell[x].pc = "hash")
          /\ UNCHANGED <<clock, deadline, generation, sessionGen, shell, cookies, opened>>
          /\ UNCHANGED logoutHistory
      BY <1>5, <2>2 DEF SetupClaims, Claim
    <3>2. torn' \in BOOLEAN
      BY <3>1
    <3>3. request' \in [Requests -> Request]
      BY <3>1 DEF Request, Steps
    <3> QED BY <3>1, <3>2, <3>3 DEF logoutHistory
  <2> QED BY <2>1, <2>2
<1> QED BY <1>1, <1>2, <1>3, <1>4, <1>5 DEF SetupStep

\* Login and logout keep the types.
LEMMA SessionStepTypes ==
    ASSUME TypeOK, NEW r \in Requests, LoginStep(r) \/ LogoutStep(r) PROVE TypeOK'
<1> USE RestingRequest DEF TypeOK, Ends, settings, logoutHistory, setupHistory
<1>0. request[r] \in Request
  OBVIOUS
<1>1. CASE LoginBegins(r)
  BY <1>1 DEF LoginBegins, Request, Steps
<1>2. ASSUME NEW user \in Accounts, NEW password \in Accounts, LoginChecks(r, user, password)
      PROVE  TypeOK'
  BY <1>2 DEF LoginChecks, Request, Steps
<1>3. CASE Issue(r)
  BY <1>3 DEF Issue
<1>4. CASE LogoutReads(r)
  BY <1>4 DEF LogoutReads, Request, Steps
<1>5. CASE LogoutWrites(r)
  <2>1. request[r].gen \in Nat /\ request[r].gen + 1 \in Nat
    BY <1>0 DEF Request
  <2> QED BY <1>5, <2>1 DEF LogoutWrites, Request, Steps
<1>6. CASE LogoutCaches(r)
  BY <1>6 DEF LogoutCaches, Request
<1>7. CASE LogoutFails(r)
  BY <1>7 DEF LogoutFails
<1> QED BY <1>1, <1>2, <1>3, <1>4, <1>5, <1>6, <1>7 DEF LoginStep, LogoutStep

\* Every variable keeps its type.
THEOREM TypeCorrect == Spec => []TypeOK
<1>1. TypeOK /\ [Next]_vars => TypeOK'
  <2> SUFFICES ASSUME TypeOK, [Next]_vars PROVE TypeOK'
    OBVIOUS
  <2> USE DEF settings, logoutHistory, setupHistory
  <2>1. ASSUME NEW x \in Shells, SetAdminUser(x) \/ SetAdminHash(x) \/ SetAdminFails(x)
        PROVE  TypeOK'
    BY <2>1 DEF SetAdminUser, SetAdminHash, SetAdminFails, Shell, TypeOK
  <2>2. CASE Restart
    BY <2>2, RestingRequest DEF Restart, TypeOK
  <2>3. CASE Tick
    BY <2>3, SessionAssumption DEF Tick, TypeOK
  <2>4. CASE UNCHANGED vars
    BY <2>4 DEF vars, TypeOK
  <2> QED BY <2>1, <2>2, <2>3, <2>4, SetupStepTypes, SessionStepTypes DEF Next
<1> QED BY <1>1, TypeCorrectInit, PTL DEF Spec

-----------------------------------------------------------------------------
(***************************************************************************)
(* One claim.  Until something tears the account, a -set-admin that is     *)
(* between its writes is alone, and has the name it wrote.                 *)
(***************************************************************************)
ClaimInv ==
    /\ ClaimedOnce
    /\ claims > 0 => AdminExists
    /\ torn \/ \A x \in Shells : shell[x].pc = "hash" =>
                  /\ adminUser = shell[x].account
                  /\ \A y \in Shells : shell[y].pc = "hash" => y = x

\* Nothing outside the account changes what ClaimInv is about.
LEMMA ClaimInvKept ==
    ASSUME ClaimInv, UNCHANGED <<adminUser, adminHash, claims, torn, shell>>
    PROVE  ClaimInv'
BY DEF ClaimInv, ClaimedOnce, AdminExists

\* The first-run setup is claimed at most once, and the account is whole.
THEOREM AccountIsWhole == Spec => []ClaimedOnce
<1>1. Init => ClaimInv
  BY DEF Init, ClaimInv, ClaimedOnce
<1>2. TypeOK /\ ClaimInv /\ [Next]_vars => ClaimInv'
  <2> SUFFICES ASSUME TypeOK, ClaimInv, [Next]_vars PROVE ClaimInv'
    OBVIOUS
  <2> USE DEF settings, logoutHistory, setupHistory
  <2>1. ASSUME NEW r \in Requests, NEW a \in Accounts, SetupClaims(r, a) PROVE ClaimInv'
    <3>1. CASE AdminExists
      BY <2>1, <3>1, ClaimInvKept DEF SetupClaims
    <3>2. CASE ~AdminExists
      <4>1. claims = 0
        BY <3>2 DEF ClaimInv, TypeOK
      <4>2. claims' = 1 /\ AdminExists' /\ adminUser' = adminHash'
        BY <2>1, <3>2, <4>1, SessionAssumption DEF SetupClaims, Claim, AdminExists
      <4>3. shell' = shell /\ torn' = (torn \/ \E x \in Shells : shell[x].pc = "hash")
        BY <2>1, <3>2 DEF SetupClaims, Claim
      <4>4. ClaimedOnce' /\ (claims > 0 => AdminExists)'
        BY <4>2 DEF ClaimedOnce
      <4>5. torn' \/ \A x \in Shells : shell'[x].pc # "hash"
        BY <4>3
      <4> QED BY <4>4, <4>5 DEF ClaimInv
    <3> QED BY <3>1, <3>2
  <2>2. ASSUME NEW x \in Shells, SetAdminUser(x) PROVE ClaimInv'
    <3>1. /\ shell' = [shell EXCEPT ![x].pc = "hash"] /\ adminUser' = shell[x].account
          /\ torn' = (torn \/ \E y \in Shells : shell[y].pc = "hash")
          /\ claims' = claims /\ adminHash' = adminHash
      BY <2>2 DEF SetAdminUser
    <3>2. shell'[x].pc = "hash" /\ shell'[x].account = shell[x].account
      BY <3>1 DEF TypeOK, Shell
    <3>3. \A y \in Shells : y # x => shell'[y] = shell[y]
      BY <3>1 DEF TypeOK
    <3> QED BY <3>1, <3>2, <3>3 DEF ClaimInv, ClaimedOnce, AdminExists
  <2>3. ASSUME NEW x \in Shells, SetAdminHash(x) PROVE ClaimInv'
    <3>1. /\ shell' = [shell EXCEPT ![x].pc = "done"] /\ adminHash' = shell[x].account
          /\ shell[x].pc = "hash" /\ UNCHANGED <<torn, claims, adminUser>>
      BY <2>3 DEF SetAdminHash
    <3>2. shell'[x].pc = "done" /\ shell[x].account \in Accounts
      BY <3>1 DEF TypeOK, Shell
    <3>3. \A y \in Shells : y # x => shell'[y] = shell[y]
      BY <3>1 DEF TypeOK
    <3>4. AdminExists'
      BY <3>1, <3>2, SessionAssumption DEF AdminExists
    <3>5. torn \/ adminUser' = adminHash'
      BY <3>1 DEF ClaimInv
    <3> QED BY <3>1, <3>2, <3>3, <3>4, <3>5 DEF ClaimInv, ClaimedOnce
  <2>4. ASSUME NEW x \in Shells, SetAdminFails(x) PROVE ClaimInv'
    BY <2>4 DEF SetAdminFails, ClaimInv, ClaimedOnce, AdminExists
  <2>5. CASE UNCHANGED <<adminUser, adminHash, claims, torn, shell>>
    BY <2>5, ClaimInvKept
  <2>6. ASSUME NEW r \in Requests,
               SetupBegins(r) \/ SetupLooks(r) \/ SetupOpens(r) \/ SetupEnds(r)
                 \/ LoginStep(r) \/ LogoutStep(r)
        PROVE  UNCHANGED <<adminUser, adminHash, claims, torn, shell>>
    BY <2>6 DEF SetupBegins, SetupLooks, SetupOpens, SetupEnds, LoginStep, LoginBegins,
                LoginChecks, Issue, LogoutStep, LogoutReads, LogoutWrites, LogoutCaches, LogoutFails
  <2>7. Restart \/ Tick \/ UNCHANGED vars => UNCHANGED <<adminUser, adminHash, claims, torn, shell>>
    BY DEF Restart, Tick, vars
  <2> QED BY <2>1, <2>2, <2>3, <2>4, <2>5, <2>6, <2>7 DEF Next, SetupStep
<1>3. ClaimInv => ClaimedOnce
  BY DEF ClaimInv
<1> QED BY <1>1, <1>2, <1>3, TypeCorrect, PTL DEF Spec

-----------------------------------------------------------------------------
(***************************************************************************)
(* One window.  The deadline is the end of the window that was opened, and *)
(* a request gets to the form by a deadline that is set.                   *)
(***************************************************************************)
WindowInv ==
    /\ opened = None <=> deadline = None
    /\ deadline # None => deadline = opened + Window
    /\ \A r \in Requests : At(r, "form") => deadline # None /\ request[r].now <= deadline

\* A step that leaves the deadline alone and takes nobody to the form.
LEMMA WindowInvKept ==
    ASSUME WindowInv, UNCHANGED <<deadline, opened>>,
           \A q \in Requests : request'[q] = request[q] \/ request'[q].pc # "form"
    PROVE  WindowInv'
BY DEF WindowInv, At

\* Nobody gets to claim the setup who looked after the end of its one window.
THEOREM SetupHasOneWindow == Spec => []OneSetupWindow
<1>1. Init => WindowInv
  BY DEF Init, WindowInv, At, NoRequest
<1>2. TypeOK /\ WindowInv /\ [Next]_vars => WindowInv'
  <2> SUFFICES ASSUME TypeOK, WindowInv, [Next]_vars PROVE WindowInv'
    OBVIOUS
  <2> USE DEF settings, logoutHistory, setupHistory
  <2>0. request \in [Requests -> Request]
    BY DEF TypeOK
  <2>1. ASSUME NEW r \in Requests, SetupLooks(r) PROVE WindowInv'
    <3>1. \A q \in Requests : q # r => request'[q] = request[q]
      BY <2>0, <2>1 DEF SetupLooks, Ends
    <3>2. request'[r].pc = "form" => deadline # None /\ request'[r].now <= deadline
      BY <2>0, <2>1 DEF SetupLooks, Ends, Request, NoRequest
    <3>3. UNCHANGED <<deadline, opened>>
      BY <2>1 DEF SetupLooks
    <3> QED BY <3>1, <3>2, <3>3 DEF WindowInv, At
  <2>2. ASSUME NEW r \in Requests, SetupOpens(r) PROVE WindowInv'
    <3>1. \A q \in Requests : q # r => request'[q] = request[q]
      BY <2>0, <2>2 DEF SetupOpens, Ends
    <3>2. CASE deadline = None
      <4>1. /\ deadline' = request[r].now + Window /\ opened' = request[r].now
            /\ request'[r].now = request[r].now
        BY <2>0, <2>2, <3>2 DEF SetupOpens, Request
      <4>2. request[r].now \in Nat /\ Window \in Nat
        BY <2>0, SessionAssumption DEF Request
      <4>3. deadline' # None /\ opened' # None /\ request'[r].now <= deadline'
        BY <4>1, <4>2, SessionAssumption
      <4>4. \A q \in Requests : ~At(q, "form")
        BY <3>2 DEF WindowInv
      <4> QED BY <3>1, <4>1, <4>3, <4>4 DEF WindowInv, At
    <3>3. CASE deadline # None
      <4>1. request'[r].pc = "form" => request'[r].now <= deadline
        BY <2>0, <2>2, <3>3 DEF SetupOpens, Ends, Request, NoRequest
      <4>2. UNCHANGED <<deadline, opened>>
        BY <2>2, <3>3 DEF SetupOpens
      <4> QED BY <3>1, <3>3, <4>1, <4>2 DEF WindowInv, At
    <3> QED BY <3>2, <3>3
  <2>3. ASSUME NEW r \in Requests,
               \/ SetupBegins(r) \/ SetupEnds(r) \/ (\E a \in Accounts : SetupClaims(r, a))
               \/ LoginStep(r) \/ LogoutStep(r)
        PROVE  /\ UNCHANGED <<deadline, opened>>
               /\ \A q \in Requests : request'[q] = request[q] \/ request'[q].pc # "form"
    BY <2>0, <2>3 DEF SetupBegins, SetupEnds, SetupClaims, Claim, LoginStep, LoginBegins, LoginChecks,
                Issue, LogoutStep, LogoutReads, LogoutWrites, LogoutCaches, LogoutFails,
                At, Ends, NoRequest, Request
  <2>4. ASSUME NEW x \in Shells, SetAdminUser(x) \/ SetAdminHash(x) \/ SetAdminFails(x)
        PROVE  UNCHANGED <<deadline, opened, request>>
    BY <2>4 DEF SetAdminUser, SetAdminHash, SetAdminFails
  <2>5. CASE Restart
    BY <2>5, WindowInvKept DEF Restart, NoRequest
  <2>6. CASE Tick \/ UNCHANGED vars
    BY <2>6, WindowInvKept DEF Tick, vars
  <2> QED BY <2>1, <2>2, <2>3, <2>4, <2>5, <2>6, WindowInvKept DEF Next, SetupStep
<1>3. WindowInv => OneSetupWindow
  BY DEF WindowInv, OneSetupWindow
<1> QED BY <1>1, <1>2, <1>3, TypeCorrect, PTL DEF Spec

-----------------------------------------------------------------------------
(***************************************************************************)
(* Logout.  While no two have been under way at one time, the generation   *)
(* in memory is that of the table, except between the write and the copy,  *)
(* where it is behind; and no cookie is ahead of it.                       *)
(***************************************************************************)
LogoutInv ==
    overlapped \/
        /\ \A q, s \in LoggingOut : q = s
        /\ \A q \in LoggingOut : request[q].gen = generation
        /\ \A q \in Requests : At(q, "cache") => sessionGen < generation
        /\ (\A q \in Requests : ~At(q, "cache")) => sessionGen = generation
        /\ \A g \in cookies : g <= sessionGen
        /\ \A q \in Requests : \A g \in before[q] : g <= sessionGen
        /\ \A g \in revoked : g < sessionGen

\* A step of something else than a logout, which may hand out a cookie of now.
LEMMA LogoutInvKept ==
    ASSUME TypeOK, LogoutInv,
           UNCHANGED <<generation, sessionGen, before, revoked, overlapped>>,
           cookies' \subseteq cookies \cup {sessionGen},
           \A q \in Requests :
               \/ request'[q] = request[q]
               \/ {request[q].pc, request'[q].pc} \cap {"bump", "cache"} = {}
    PROVE  LogoutInv'
<1> SUFFICES ASSUME ~overlapped PROVE LogoutInv'
  BY DEF LogoutInv
<1>1. LoggingOut' = LoggingOut
  BY DEF LoggingOut
<1>2. \A q \in LoggingOut : request'[q] = request[q]
  BY DEF LoggingOut
<1>3. \A q \in Requests : request'[q].pc = "cache" <=> request[q].pc = "cache"
  OBVIOUS
<1>4. \A g \in cookies' : g <= sessionGen
  <2>1. sessionGen \in Nat
    BY DEF TypeOK
  <2>2. \A g \in cookies : g <= sessionGen
    BY DEF LogoutInv
  <2> QED BY <2>1, <2>2
<1>5. /\ \A q, s \in LoggingOut' : q = s
      /\ \A q \in LoggingOut' : request'[q].gen = generation'
  BY <1>1, <1>2 DEF LogoutInv
<1>6. /\ \A q \in Requests : At(q, "cache")' => sessionGen' < generation'
      /\ (\A q \in Requests : ~At(q, "cache")') => sessionGen' = generation'
  BY <1>3 DEF LogoutInv, At
<1>7. /\ \A g \in cookies' : g <= sessionGen'
      /\ \A q \in Requests : \A g \in before'[q] : g <= sessionGen'
      /\ \A g \in revoked' : g < sessionGen'
  BY <1>4 DEF LogoutInv
<1> QED BY <1>5, <1>6, <1>7 DEF LogoutInv

\* The steps of a logout.
LEMMA LogoutStepKept == ASSUME TypeOK, LogoutInv, NEW r \in Requests, LogoutStep(r) PROVE LogoutInv'
<1> USE DEF settings, logoutHistory, setupHistory
<1>0. /\ request \in [Requests -> Request] /\ before \in [Requests -> SUBSET Nat]
      /\ generation \in Nat /\ sessionGen \in Nat
  BY DEF TypeOK
<1>1. overlapped => LogoutInv'
  BY DEF LogoutStep, LogoutReads, LogoutWrites, LogoutCaches, LogoutFails, LogoutInv
<1> SUFFICES ASSUME ~overlapped PROVE LogoutInv'
  BY <1>1
<1>2. \A q \in Requests : q # r => request'[q] = request[q]
  BY <1>0 DEF LogoutStep, LogoutReads, LogoutWrites, LogoutCaches, LogoutFails, Ends
<1>3. CASE LogoutReads(r)
  <2>1. CASE LoggingOut # {}
    BY <1>3, <2>1 DEF LogoutReads, LogoutInv
  <2>2. CASE LoggingOut = {}
    <3>1. request'[r].pc = "bump" /\ request'[r].gen = generation
      BY <1>0, <1>3 DEF LogoutReads, Request
    <3>2. LoggingOut' = {r}
      BY <1>2, <2>2, <3>1 DEF LoggingOut
    <3>3. \A q \in Requests : ~At(q, "cache") /\ ~At(q, "cache")'
      BY <1>2, <2>2, <3>1 DEF At, LoggingOut
    <3>4. \A q \in Requests : before'[q] \subseteq before[q] \cup cookies
      BY <1>0, <1>3 DEF LogoutReads
    <3>5. UNCHANGED <<generation, sessionGen, cookies, revoked>>
      BY <1>3 DEF LogoutReads
    <3> QED BY <3>1, <3>2, <3>3, <3>4, <3>5 DEF LogoutInv
  <2> QED BY <2>1, <2>2
<1>4. ASSUME ~LogoutReads(r) PROVE LoggingOut = {r}
  BY <1>4 DEF LogoutStep, LogoutWrites, LogoutCaches, LogoutFails, At, LoggingOut, LogoutInv
<1>5. CASE LogoutWrites(r)
  <2>1. LoggingOut = {r} /\ At(r, "bump")
    BY <1>5 DEF LogoutWrites, At, LoggingOut, LogoutInv
  <2>2. request[r].gen = generation /\ sessionGen = generation
    BY <2>1 DEF LogoutInv, LoggingOut, At
  <2>3. generation' = generation + 1
    BY <1>5, <2>2 DEF LogoutWrites
  <2>4. request'[r].pc = "cache" /\ request'[r].gen = generation + 1
    BY <1>0, <1>5, <2>2 DEF LogoutWrites, Request
  <2>5. LoggingOut' = {r}
    BY <1>2, <2>1, <2>4 DEF LoggingOut
  <2>6. UNCHANGED <<sessionGen, cookies, before, revoked, overlapped>>
    BY <1>5 DEF LogoutWrites
  <2>7. At(r, "cache")' /\ sessionGen' < generation'
    BY <1>0, <2>2, <2>3, <2>4, <2>6 DEF At
  <2> QED BY <2>3, <2>4, <2>5, <2>6, <2>7 DEF LogoutInv
<1>6. CASE LogoutCaches(r) \/ LogoutFails(r)
  <2>1. LoggingOut = {r}
    BY <1>6 DEF LogoutCaches, LogoutFails, At, LoggingOut, LogoutInv
  <2>2. request'[r].pc = "idle" /\ LoggingOut' = {}
    BY <1>0, <1>2, <1>6, <2>1 DEF LogoutCaches, LogoutFails, Ends, NoRequest, LoggingOut
  <2>3. \A q \in Requests : ~At(q, "cache")'
    BY <2>2 DEF At, LoggingOut
  <2>4. before' = [before EXCEPT ![r] = {}] /\ UNCHANGED <<generation, cookies, overlapped>>
    BY <1>6 DEF LogoutCaches, LogoutFails
  <2>5. CASE LogoutFails(r)
    <3>1. sessionGen = generation /\ UNCHANGED <<sessionGen, revoked>>
      BY <2>1, <2>5 DEF LogoutFails, LogoutInv, At, LoggingOut
    <3> QED BY <1>0, <2>2, <2>3, <2>4, <3>1 DEF LogoutInv
  <2>6. CASE LogoutCaches(r)
    <3>1. sessionGen' = generation /\ sessionGen < generation
      BY <2>1, <2>6 DEF LogoutCaches, LogoutInv
    <3>2. \A g \in cookies \cup before[r] \cup revoked : g \in Nat /\ g < generation
      BY <1>0, <3>1 DEF LogoutInv, TypeOK
    <3>3. \A q \in Requests : \A g \in before'[q] : g < generation
      BY <1>0, <2>4, <3>1 DEF LogoutInv
    <3>4. revoked' = revoked \cup before[r]
      BY <2>6 DEF LogoutCaches
    <3> QED BY <1>0, <2>2, <2>3, <2>4, <3>1, <3>2, <3>3, <3>4 DEF LogoutInv
  <2> QED BY <1>6, <2>5, <2>6
<1> QED BY <1>3, <1>5, <1>6 DEF LogoutStep

\* LogoutInv is an invariant.
LEMMA LogoutInvariant == Spec => []LogoutInv
<1>1. Init => LogoutInv
  BY DEF Init, LogoutInv, LoggingOut, At, NoRequest
<1>2. TypeOK /\ LogoutInv /\ [Next]_vars => LogoutInv'
  <2> SUFFICES ASSUME TypeOK, LogoutInv, [Next]_vars PROVE LogoutInv'
    OBVIOUS
  <2> USE DEF settings, logoutHistory, setupHistory
  <2>0. request \in [Requests -> Request]
    BY DEF TypeOK
  <2>1. ASSUME NEW r \in Requests, SetupStep(r) \/ LoginStep(r) PROVE LogoutInv'
    <3>1. \A q \in Requests :
            \/ request'[q] = request[q]
            \/ {request[q].pc, request'[q].pc} \cap {"bump", "cache"} = {}
      BY <2>0, <2>1 DEF SetupStep, SetupBegins, SetupLooks, SetupOpens, SetupEnds, SetupClaims,
            Claim, LoginStep, LoginBegins, LoginChecks, Issue, At, Ends, NoRequest, Request
    <3>2. /\ UNCHANGED <<generation, sessionGen, before, revoked, overlapped>>
          /\ cookies' \subseteq cookies \cup {sessionGen}
      BY <2>1 DEF SetupStep, SetupBegins, SetupLooks, SetupOpens, SetupEnds, SetupClaims,
            LoginStep, LoginBegins, LoginChecks, Issue
    <3> QED BY <3>1, <3>2, LogoutInvKept
  <2>2. ASSUME NEW x \in Shells, SetAdminUser(x) \/ SetAdminHash(x) \/ SetAdminFails(x)
        PROVE  UNCHANGED <<generation, sessionGen, before, revoked, overlapped, cookies, request>>
    BY <2>2 DEF SetAdminUser, SetAdminHash, SetAdminFails
  <2>3. CASE Restart
    <3>1. \A q \in Requests : request'[q].pc = "idle" /\ before'[q] = {}
      BY <2>3 DEF Restart, NoRequest
    <3>2. sessionGen' = generation /\ UNCHANGED <<generation, cookies, revoked, overlapped>>
      BY <2>3 DEF Restart
    <3>3. overlapped \/ sessionGen <= generation
      BY DEF LogoutInv, TypeOK
    <3>4. LoggingOut' = {} /\ \A q \in Requests : ~At(q, "cache")'
      BY <3>1 DEF LoggingOut, At
    <3>5. \/ overlapped
          \/ (\A g \in cookies : g <= generation) /\ (\A g \in revoked : g < generation)
      BY <3>3 DEF LogoutInv, TypeOK
    <3>6. \/ overlapped'
          \/ (\A g \in cookies' : g <= sessionGen') /\ (\A g \in revoked' : g < sessionGen')
      BY <3>2, <3>5
    <3>7. \A q \in Requests : \A g \in before'[q] : g <= sessionGen'
      BY <3>1
    <3> QED BY <3>2, <3>4, <3>6, <3>7 DEF LogoutInv
  <2>4. CASE Tick \/ UNCHANGED vars
    BY <2>4, LogoutInvKept DEF Tick, vars
  <2> QED BY <2>1, <2>2, <2>3, <2>4, LogoutInvKept, LogoutStepKept DEF Next
<1> QED BY <1>1, <1>2, TypeCorrect, PTL DEF Spec

\* A cookie older than a logout that went through is never valid again.
THEOREM LogoutHolds == Spec => []LoggedOutStaysOut
<1>1. TypeOK /\ LogoutInv => LoggedOutStaysOut
  BY DEF LogoutInv, LoggedOutStaysOut, TypeOK
<1> QED BY <1>1, TypeCorrect, LogoutInvariant, PTL

\* Nothing but a logout that has been written makes the cookies of now invalid; in
\* particular a restart, which reads the generation back, does not.
THEOREM SessionsLast == Spec => OnlyLogoutEndsSessions
<1>1. LogoutInv /\ [Next]_vars
        => (sessionGen' # sessionGen => overlapped \/ \E r \in Requests : At(r, "cache"))
  <2> SUFFICES ASSUME LogoutInv, Next, sessionGen' # sessionGen, ~overlapped
               PROVE  \E r \in Requests : At(r, "cache")
    BY DEF vars
  <2> USE DEF settings, logoutHistory, setupHistory
  <2>1. ASSUME NEW r \in Requests, SetupStep(r) \/ LoginStep(r) PROVE FALSE
    BY <2>1 DEF SetupStep, SetupBegins, SetupLooks, SetupOpens, SetupEnds, SetupClaims,
          LoginStep, LoginBegins, LoginChecks, Issue
  <2>2. ASSUME NEW r \in Requests, LogoutStep(r) PROVE At(r, "cache")
    BY <2>2 DEF LogoutStep, LogoutReads, LogoutWrites, LogoutCaches, LogoutFails
  <2>3. ASSUME NEW x \in Shells, SetAdminUser(x) \/ SetAdminHash(x) \/ SetAdminFails(x)
        PROVE  FALSE
    BY <2>3 DEF SetAdminUser, SetAdminHash, SetAdminFails
  <2>4. CASE Restart
    BY <2>4 DEF Restart, LogoutInv
  <2>5. ~Tick
    BY DEF Tick
  <2> QED BY <2>1, <2>2, <2>3, <2>4, <2>5 DEF Next
<1> QED BY <1>1, LogoutInvariant, PTL DEF Spec, OnlyLogoutEndsSessions
=============================================================================
