------------------------ MODULE GatewayServiceProofs ------------------------
(***************************************************************************)
(* The pipeline implements WriteService, for every number of handlers,     *)
(* users, tokens and reloads, where every write is a restricted one.       *)
(*                                                                         *)
(* The mutexes (LockInv) and the decisions on the way (AuthInv) give the   *)
(* window between preflight and forward in which no update that words the  *)
(* user alike changes it; with it each step of a handler, and each late    *)
(* write, is a step of the service or none.                                *)
(***************************************************************************)
EXTENDS GatewayProofs, GatewayService

\* Where the client still waits and nothing was forwarded, and where it has its
\* answer.
Open == {"loaded", "admitted", "authenticated", "metered", "lock", "preflight"}
Done == {"idle", "unlock", "releaseKey", "releaseGlobal"}

\* An unanswered request has no answer yet and was applied exactly when it is
\* being verified.
Progress ==
    \A r \in Requests : pc[r] \in Open \cup {"forward", "verify"} =>
        resp[r] = "none" /\ committed[r] = (pc[r] = "verify")

\* Only what a handler has read can change behind it.
Undisturbed == \A r \in Requests : disturbed[r] => pc[r] \in {"forward", "unlock"}

ServiceInv == SlotInv /\ LockInv /\ AuthInv /\ Progress /\ Undisturbed /\ UpdateWindow

-----------------------------------------------------------------------------
\* Under ServiceAssumption every request is a restricted write.
LEMMA AllRestricted ==
    ASSUME SlotInv, NEW r \in Requests
    PROVE  /\ inp[r].route \in RestrictedWriteRoutes /\ IsWrite(inp[r])
           /\ inp[r] \in Inputs /\ inp[r].user \in Users
           /\ Cfg(r) \in Configs /\ Cfg(r).writes /\ ~Cfg(r).unsafeReport
           /\ Enforced(r) /\ ~Public(r) /\ RestrictedWrite(r)
           /\ RouteOf(r) = effectiveRoute(Cfg(r), inp[r].route)
<1>1. inp[r] \in Inputs /\ Cfg(r) \in Configs
  BY DEF SlotInv, TypeOK, HandlerTypeOK, Loaded, Cfg
<1>2. inp[r].route \in RestrictedWriteRoutes /\ Cfg(r).writes /\ ~Cfg(r).unsafeReport
  BY <1>1, ServiceAssumption
<1>3. inp[r].user \in Users
  BY <1>1, GatewayAssumption DEF Request
<1>4. RouteOf(r).support = "policy-enforced"
  BY <1>2, WriteRoute DEF RouteOf
<1>5. Enforced(r) /\ ~Public(r)
  BY <1>4 DEF Enforced, Public
<1>6. RestrictedWrite(r)
  BY <1>2, <1>5, RouteName DEF RestrictedWrite, isRestrictedWrite, RouteOf
<1>7. effectiveRoute(Cfg(r), inp[r].route).support # "public-subscription"
  <2>1. inp[r].route \notin SafeReadRoutes
    BY <1>2 DEF SafeReadRoutes, RestrictedWriteRoutes, UserWriteRoutes,
       UserActionRoutes, HwidWriteRoutes, NodeWriteRoutes
  <2>2. isRestrictedWrite(Catalog(inp[r].route))
    BY <1>2 DEF isRestrictedWrite, Catalog
  <2>3. effectiveRoute(Cfg(r), inp[r].route) =
          [Catalog(inp[r].route) EXCEPT !.support = "policy-enforced",
                                        !.scopes = restrictedWriteScopes(inp[r].route)]
    BY <1>2, <2>1, <2>2 DEF effectiveRoute
  <2>4. effectiveRoute(Cfg(r), inp[r].route).support = "policy-enforced"
    BY <2>3 DEF Catalog
  <2>5. QED
    BY <2>4
<1>8. RouteOf(r) = effectiveRoute(Cfg(r), inp[r].route)
  BY <1>7 DEF RouteOf, authenticatedRoute
<1>9. QED
  BY <1>1, <1>2, <1>3, <1>5, <1>6, <1>8 DEF IsWrite

-----------------------------------------------------------------------------
(* A handler step is one of seven, as far as clients and the panel can tell. *)

Calmed(r) == disturbed' = [disturbed EXCEPT ![r] = FALSE]

Silent(r) ==
    /\ \/ pc[r] \in Open /\ pc'[r] \in Open
       \/ pc[r] \in Done /\ pc'[r] \in Done \ {"unlock"}
    /\ IF pc[r] = "unlock" THEN Calmed(r) ELSE UNCHANGED disturbed
    /\ UNCHANGED <<resp, committed, users, late>>

Passes(r) ==
    /\ pc[r] = "preflight" /\ pc'[r] = "forward"
    /\ Preflighted(r) => preflightUser(r)
    /\ UNCHANGED <<resp, committed, disturbed, users, late>>

Refused(r) ==
    /\ pc[r] \in Open \cup {"forward"} /\ pc'[r] \in Done
    /\ \E a \in Service!Refusals : resp' = [resp EXCEPT ![r] = a]
    /\ Calmed(r)
    /\ UNCHANGED <<committed, users, late>>

GivenUp(r) ==
    /\ pc[r] = "forward" /\ pc'[r] = "unlock"
    /\ resp' = [resp EXCEPT ![r] = "502"]
    /\ late[r] = NoWrite
    /\ late' = [late EXCEPT ![r] = inp[r]]
    /\ Calmed(r)
    /\ UNCHANGED <<committed, users>>

Writes(r) ==
    /\ pc[r] = "forward"
    /\ Applicable(inp[r])
    /\ users' = Effect(inp[r])
    /\ committed' = [committed EXCEPT ![r] = TRUE]
    /\ disturbed' = [q \in Requests |-> q # r /\ q \in Disturbed(inp[r], TRUE)]
    /\ UNCHANGED late

Lost(r) ==
    /\ Writes(r)
    /\ pc'[r] = "unlock"
    /\ resp' = [resp EXCEPT ![r] = "502"]

Applied(r) ==
    /\ Writes(r)
    /\ pc'[r] = "verify"
    /\ resp' = [resp EXCEPT ![r] = "none"]

Judged(r) ==
    /\ pc[r] = "verify" /\ pc'[r] = "unlock"
    /\ \/ Verified(r) /\ resp' = [resp EXCEPT ![r] = "ok"]
       \/ inp[r].route \notin NodeWriteRoutes /\ resp' = [resp EXCEPT ![r] = "denied"]
    /\ Calmed(r)
    /\ UNCHANGED <<committed, users, late>>

ServiceStep(r) ==
    \/ Silent(r) \/ Passes(r) \/ Refused(r) \/ GivenUp(r)
    \/ Lost(r) \/ Applied(r) \/ Judged(r)

\* Every step of a handler is one of them.
LEMMA ServiceKinds ==
    ASSUME SlotInv, NEW r \in Requests, Handle(r) \/ lockResource(r)
    PROVE  MoveTo(r, pc'[r]) /\ ServiceStep(r)
<1>0. MoveTo(r, pc'[r])
  BY HandlerKinds DEF Stay, TakeGlobal, TakeKey, DropKey, DropGlobal, MoveTo,
     SlotInv, TypeOK, HandlerTypeOK
<1>a. pc \in [Requests -> Steps]
  BY DEF SlotInv, TypeOK, HandlerTypeOK
<1>b. RestrictedWrite(r) /\ ~Public(r) /\ IsWrite(inp[r]) /\ FirstRelease(r) = "unlock"
  BY AllRestricted DEF FirstRelease
<1>c. ~AuthFacade(r) /\ ~PanelReadFacade(r)
  BY AllRestricted DEF AuthFacade, PanelReadFacade, RestrictedWriteRoutes, UserWriteRoutes,
     UserActionRoutes, HwidWriteRoutes, NodeWriteRoutes
<1>d. AuthError(r) \in Service!Refusals
  BY DEF AuthError, Service!Refusals
<1> USE DEF Advance, Reply, Open, Done, Calmed, panelVars, Service!Refusals
<1> SUFFICES ServiceStep(r)
  BY <1>0
<1>1. CASE AcquireGlobal(r)
  BY <1>a, <1>1 DEF AcquireGlobal, ServiceStep, Silent, Refused
<1>2. CASE Malformed(r)
  BY <1>a, <1>2 DEF Malformed, ServiceStep, Refused
<1>3. CASE PanelAuthFacade(r)
  BY <1>c, <1>3 DEF PanelAuthFacade
<1>4. CASE GuardAndAuthenticate(r)
  BY <1>a, <1>d, <1>4 DEF GuardAndAuthenticate, ServiceStep, Silent, Refused
<1>5. CASE AcquireKey(r)
  BY <1>a, <1>5 DEF AcquireKey, ServiceStep, Silent, Refused
<1>6. CASE RateLimited(r)
  BY <1>a, <1>6 DEF RateLimited, ServiceStep, Refused
<1>7. CASE DecidePolicy(r)
  BY <1>a, <1>b, <1>c, <1>7 DEF DecidePolicy, ServiceStep, Silent, Refused
<1>8. CASE lockResource(r)
  BY <1>a, <1>8 DEF lockResource, ServiceStep, Silent
<1>9. CASE PreflightDenied(r)
  BY <1>a, <1>b, <1>9 DEF PreflightDenied, ServiceStep, Refused
<1>10. CASE Preflight(r)
  BY <1>a, <1>b, <1>10 DEF Preflight, ServiceStep, Passes, Refused
<1>11. CASE ForwardFails(r)
  <2>1. CASE Commit(r)
    BY <1>a, <1>b, <1>11, <2>1 DEF ForwardFails, Commit, ServiceStep, Lost, Writes
  <2>2. CASE ~Commit(r)
    BY <1>a, <1>b, <1>11, <2>2 DEF ForwardFails, ServiceStep, Refused, GivenUp
  <2>3. QED
    BY <2>1, <2>2
<1>12. CASE ForwardRefused(r)
  BY <1>a, <1>b, <1>12 DEF ForwardRefused, ServiceStep, Refused
<1>13. CASE ForwardRead(r)
  BY <1>b, <1>13 DEF ForwardRead
<1>14. CASE ForwardWrite(r)
  BY <1>a, <1>b, <1>14 DEF ForwardWrite, Commit, ServiceStep, Applied, Writes
<1>15. CASE PostWriteVerify(r)
  BY <1>a, <1>15 DEF PostWriteVerify, ServiceStep, Judged
<1>16. CASE Unlock(r)
  BY <1>a, <1>16 DEF Unlock, ServiceStep, Silent
<1>17. CASE ReleaseKey(r)
  BY <1>a, <1>17 DEF ReleaseKey, ServiceStep, Silent
<1>18. CASE ReleaseGlobal(r)
  BY <1>a, <1>18 DEF ReleaseGlobal, ServiceStep, Silent
<1>19. QED
  BY <1>1, <1>2, <1>3, <1>4, <1>5, <1>6, <1>7, <1>8, <1>9, <1>10, <1>11, <1>12, <1>13,
     <1>14, <1>15, <1>16, <1>17, <1>18 DEF Handle
-----------------------------------------------------------------------------
(* The window between a handler's reads of the user and its use of them. *)

\* A write that neither updates nor deletes the user of a handler leaves the
\* user alone: the panel creates no user that exists.
LEMMA EffectElsewhere ==
    ASSUME SlotInv, NEW in \in Inputs, NEW r \in Requests, Applicable(in), users' = Effect(in),
           users[inp[r].user] # Absent,
           in.route \in {"user.update", "user.delete"} => in.user # inp[r].user
    PROVE  users'[inp[r].user] = users[inp[r].user]
<1>1. in.user \in Users /\ inp[r].user \in Users /\ users \in [Users -> UserRecord \cup {Absent}]
  BY AllRestricted, GatewayAssumption DEF SlotInv, TypeOK, Request
<1>2. in.route = "user.create" => in.user # inp[r].user
  BY DEF Applicable, NodeWriteRoutes
<1>3. QED
  BY <1>1, <1>2 DEF Effect

\* A write of another handler misses the user of an update that holds its
\* mutex, or disturbs it: another update that words this user alike would hold
\* the same mutex.
LEMMA WriteElsewhere ==
    ASSUME SlotInv, LockInv, NEW q \in Requests, NEW r \in Requests, q # r, Writes(q),
           inp[r].route = "user.update", HoldsLock(r), users[inp[r].user] # Absent,
           ~Disturbs(inp[q], TRUE, r)
    PROVE  users'[inp[r].user] = users[inp[r].user]
<1>1. inp[q] \in Inputs /\ Applicable(inp[q]) /\ users' = Effect(inp[q]) /\ HoldsLock(q)
  BY AllRestricted DEF Writes, HoldsLock
<1>2. SUFFICES ASSUME inp[q].route \in {"user.update", "user.delete"},
                      inp[q].user = inp[r].user
               PROVE  FALSE
  BY <1>1, EffectElsewhere
<1>3. inp[q].route = inp[r].route /\ inp[q].text = inp[r].text
  BY <1>2 DEF Disturbs
<1>4. SameTarget(q, r)
  BY <1>2, <1>3 DEF SameTarget, NodeWriteRoutes
<1>5. QED
  BY <1>1, <1>4, SameTargetSameKey DEF LockInv, KeysDistinct

\* Ownership is a function of the loaded state, the request and the user.
LEMMA OwnershipStable ==
    ASSUME NEW r, cfgOf'[gen'[r]] = cfgOf[gen[r]], inp'[r] = inp[r],
           users'[inp[r].user] = users[inp[r].user]
    PROVE  preflightUser(r)' = preflightUser(r)
<1>1. Policy(r)' = Policy(r)
  BY DerivedStable
<1>2. QED
  BY <1>1 DEF preflightUser, OwnedBy

\* Where the handler is in the window.
InWindow(r) ==
    /\ inp[r].route = "user.update"
    /\ pc[r] = "forward" \/ (pc[r] = "unlock" /\ resp[r] = "ok")
    /\ ~disturbed[r]

\* UpdateWindow without the condition that every request meets.
LEMMA WindowForm ==
    ASSUME SlotInv
    PROVE  UpdateWindow <=> \A r \in Requests : InWindow(r) => preflightUser(r)
BY AllRestricted DEF UpdateWindow, InWindow

\* A handler in the window holds its mutex.
LEMMA WindowLocked ==
    ASSUME SlotInv, NEW r \in Requests, InWindow(r)
    PROVE  HoldsLock(r)
BY AllRestricted DEF InWindow, HoldsLock

\* From the window of every handler to UpdateWindow.
LEMMA WindowNext ==
    ASSUME \A q \in Requests : InWindow(q)' => preflightUser(q)'
    PROVE  UpdateWindow'
<1>1. \A q \in Requests :
         /\ inp'[q].route = "user.update"
         /\ pc'[q] = "forward" \/ (pc'[q] = "unlock" /\ resp'[q] = "ok")
         /\ ~disturbed'[q]
         => InWindow(q)'
  BY DEF InWindow
<1>2. QED
  BY <1>1 DEF UpdateWindow

\* A write of one handler marks the others whose user it disturbs.
LEMMA WriteMarks ==
    ASSUME NEW r \in Requests, NEW q \in Requests, q # r, Writes(r)
    PROVE  disturbed'[q] = (q \in Disturbed(inp[r], TRUE))
<1> DEFINE D == Disturbed(inp[r], TRUE)
<1>1. disturbed' = [x \in Requests |-> x # r /\ x \in D]
  BY DEF Writes
<1> HIDE DEF D
<1>2. disturbed'[q] = (q # r /\ q \in D)
  BY <1>1, Zenon
<1>3. (q # r /\ q \in D) = (q \in D)
  OBVIOUS
<1>4. disturbed'[q] = (q \in D)
  BY <1>2, <1>3
<1>5. QED
  BY <1>4 DEF D

\* A step of one handler keeps the window of every handler.
LEMMA HandlerWindow ==
    ASSUME ServiceInv, NEW r \in Requests, MoveTo(r, pc'[r]), ServiceStep(r)
    PROVE  Progress' /\ Undisturbed' /\ UpdateWindow'
<1>1. /\ pc' = [pc EXCEPT ![r] = pc'[r]] /\ pc \in [Requests -> Steps] /\ resp \in [Requests -> Answers]
      /\ committed \in [Requests -> BOOLEAN] /\ disturbed \in [Requests -> BOOLEAN]
      /\ UNCHANGED <<cfgOf, gen, inp>>
  BY DEF MoveTo, ServiceInv, SlotInv, TypeOK, HandlerTypeOK
<1>2. \A q \in Requests : q # r =>
         pc'[q] = pc[q] /\ resp'[q] = resp[q] /\ committed'[q] = committed[q]
  BY <1>1 DEF ServiceStep, Silent, Passes, Refused, GivenUp, Lost, Applied, Writes, Judged
<1>3. Progress'
  <2>1. pc'[r] \in Open \cup {"forward", "verify"} =>
           resp'[r] = "none" /\ committed'[r] = (pc'[r] = "verify")
    BY <1>1 DEF ServiceInv, Progress, ServiceStep, Silent, Passes, Refused, GivenUp, Lost, Applied,
       Writes, Judged, Open, Done
  <2>2. QED
    BY <1>2, <2>1 DEF ServiceInv, Progress
<1>4. \A q \in Requests : q # r =>
         \/ disturbed'[q] = disturbed[q] /\ UNCHANGED users
         \/ Writes(r) /\ disturbed'[q] = (q \in Disturbed(inp[r], TRUE))
  <2>1. CASE Lost(r) \/ Applied(r)
    BY <2>1, WriteMarks DEF Lost, Applied
  <2>2. ASSUME Calmed(r) \/ UNCHANGED disturbed, NEW q \in Requests, q # r
        PROVE  disturbed'[q] = disturbed[q]
    BY <1>1, <2>2, Zenon DEF Calmed
  <2>3. CASE Silent(r) \/ Passes(r)
    BY <2>2, <2>3 DEF Silent, Passes
  <2>4. CASE Refused(r) \/ GivenUp(r) \/ Judged(r)
    BY <2>2, <2>4 DEF Refused, GivenUp, Judged
  <2>5. QED
    BY <2>1, <2>3, <2>4 DEF ServiceStep
<1>5. Undisturbed'
  <2>1. disturbed'[r] => pc'[r] \in {"forward", "unlock"}
    <3>0. disturbed[r] => pc[r] \in {"forward", "unlock"}
      BY DEF ServiceInv, Undisturbed
    <3>1. CASE Silent(r) \/ Passes(r)
      BY <1>1, <3>0, <3>1 DEF Silent, Passes, Calmed, Open, Done
    <3>2. CASE Refused(r) \/ GivenUp(r) \/ Judged(r)
      BY <1>1, <3>2 DEF Refused, GivenUp, Judged, Calmed
    <3>3. CASE Lost(r) \/ Applied(r)
      BY <3>3 DEF Lost, Applied, Writes
    <3>4. QED
      BY <3>1, <3>2, <3>3 DEF ServiceStep
  <2>2. \A q \in Requests : q # r /\ disturbed'[q] => pc[q] \in {"forward", "unlock"}
    BY <1>4 DEF ServiceInv, Undisturbed, Disturbed
  <2>3. QED
    BY <1>2, <2>1, <2>2 DEF Undisturbed
<1>6. ASSUME NEW q \in Requests, InWindow(q)' PROVE preflightUser(q)'
  <2>0. \A x \in Requests : InWindow(x) => preflightUser(x)
    BY WindowForm DEF ServiceInv
  <2>1. CASE q # r
    <3>0. pc[q] \in {"forward", "unlock"} /\ ~disturbed'[q]
      BY <1>2, <1>6, <2>1 DEF InWindow
    <3>1. ~disturbed[q]
      BY <1>4, <2>1, <3>0 DEF Disturbed
    <3>2. InWindow(q)
      BY <1>1, <1>2, <1>6, <2>1, <3>1 DEF InWindow
    <3>3. preflightUser(q) /\ HoldsLock(q) /\ users[inp[q].user] # Absent
      BY <2>0, <3>2, WindowLocked DEF ServiceInv, preflightUser, OwnedBy
    <3>4. users'[inp[q].user] = users[inp[q].user]
      <4>1. CASE Writes(r) /\ disturbed'[q] = (q \in Disturbed(inp[r], TRUE))
        <5>1. ~Disturbs(inp[r], TRUE, q)
          BY <3>0, <4>1 DEF Disturbed
        <5>2. QED
          BY <2>1, <3>2, <3>3, <4>1, <5>1, WriteElsewhere DEF ServiceInv, InWindow
      <4>2. CASE UNCHANGED users
        BY <4>2
      <4>3. QED
        BY <1>4, <2>1, <4>1, <4>2
    <3>5. QED
      BY <1>1, <3>3, <3>4, OwnershipStable
  <2>2. CASE q = r
    <3>1. preflightUser(r) /\ UNCHANGED users
      <4>1. inp[r].route = "user.update"
            /\ (pc'[r] = "forward" \/ (pc'[r] = "unlock" /\ resp'[r] = "ok"))
        BY <1>1, <1>6, <2>2 DEF InWindow
      <4>2. Preflighted(r)
        BY <4>1, AllRestricted DEF ServiceInv, Preflighted, UserWriteRoutes
      <4>3. Verified(r) => preflightUser(r)
        BY <4>1 DEF Verified, NodeWriteRoutes
      <4>4. CASE Passes(r)
        BY <4>2, <4>4 DEF Passes
      <4>5. CASE Judged(r)
        BY <1>1, <4>1, <4>3, <4>5 DEF Judged
      <4>6. CASE Silent(r)
        BY <4>1, <4>6 DEF Silent, Open, Done
      <4>7. CASE Refused(r) \/ GivenUp(r) \/ Lost(r) \/ Applied(r)
        BY <1>1, <4>1, <4>7 DEF Refused, GivenUp, Lost, Applied, Done, Service!Refusals
      <4>8. QED
        BY <4>4, <4>5, <4>6, <4>7 DEF ServiceStep
    <3>2. QED
      BY <1>1, <2>2, <3>1, OwnershipStable
  <2>3. QED
    BY <2>1, <2>2
<1>7. QED
  BY <1>3, <1>5, <1>6, WindowNext

\* A write applied late keeps the window of every handler it does not disturb.
LEMMA LateWindow ==
    ASSUME ServiceInv, NEW r \in Requests, LateWrite(r)
    PROVE  Progress' /\ Undisturbed' /\ UpdateWindow'
<1>1. /\ UNCHANGED <<pc, gen, inp, resp, committed, cfgOf>>
      /\ \A q \in Requests : disturbed'[q] = (q \in Disturbed(late[r], FALSE))
      /\ late[r] \in Inputs /\ Applicable(late[r]) /\ users' = Effect(late[r])
  BY DEF LateWrite, runtimeVars, ServiceInv, SlotInv, TypeOK
<1>2. Progress'
  BY <1>1 DEF ServiceInv, Progress
<1>3. Undisturbed'
  BY <1>1 DEF ServiceInv, Undisturbed, Disturbed
<1>4. ASSUME NEW q \in Requests, InWindow(q)' PROVE preflightUser(q)'
  <2>1. pc[q] \in {"forward", "unlock"} /\ ~disturbed[q] /\ ~Disturbs(late[r], FALSE, q)
    BY <1>1, <1>4 DEF InWindow, Disturbed
  <2>2. InWindow(q)
    BY <1>1, <1>4, <2>1 DEF InWindow
  <2>3. preflightUser(q)
    BY <2>2, WindowForm DEF ServiceInv
  <2>4. users'[inp[q].user] = users[inp[q].user]
    <3>1. late[r].route \in {"user.update", "user.delete"} => late[r].user # inp[q].user
      BY <2>1 DEF Disturbs
    <3>2. users[inp[q].user] # Absent
      BY <2>3 DEF preflightUser, OwnedBy
    <3>3. QED
      BY <1>1, <3>1, <3>2, EffectElsewhere DEF ServiceInv
  <2>5. QED
    BY <1>1, <2>3, <2>4, OwnershipStable
<1>5. QED
  BY <1>2, <1>3, <1>4, WindowNext

\* So does every other step: no request in its window arrives, and a reload
\* leaves the states it loaded alone.
LEMMA OutsideWindow ==
    ASSUME ServiceInv, users' = users,
           \A r \in Requests :
              \/ /\ pc[r] = "idle" /\ pc'[r] = "loaded" /\ disturbed'[r] = disturbed[r]
                 /\ resp'[r] = "none" /\ committed'[r] = FALSE
              \/ /\ pc'[r] = pc[r] /\ gen'[r] = gen[r] /\ inp'[r] = inp[r]
                 /\ resp'[r] = resp[r] /\ committed'[r] = committed[r]
                 /\ disturbed'[r] = disturbed[r]
                 /\ cfgOf'[gen[r]] = cfgOf[gen[r]]
    PROVE  Progress' /\ Undisturbed' /\ UpdateWindow'
<1>1. Progress'
  BY DEF ServiceInv, Progress
<1>2. Undisturbed'
  BY DEF ServiceInv, Undisturbed
<1>3. ASSUME NEW r \in Requests, InWindow(r)' PROVE preflightUser(r)'
  <2>1. pc'[r] = pc[r] /\ gen'[r] = gen[r] /\ inp'[r] = inp[r] /\ resp'[r] = resp[r]
        /\ cfgOf'[gen[r]] = cfgOf[gen[r]] /\ disturbed'[r] = disturbed[r]
    BY <1>3 DEF InWindow
  <2>2. preflightUser(r)
    BY <1>3, <2>1, WindowForm DEF InWindow, ServiceInv
  <2>3. QED
    BY <2>1, <2>2, OwnershipStable
<1>4. QED
  BY <1>1, <1>2, <1>3, WindowNext

\* A reload gives its configuration a number no handler has loaded.
LEMMA ReloadElsewhere ==
    ASSUME SlotInv, NEW c, Reload(c)
    PROVE  \A r \in Requests : cfgOf'[gen[r]] = cfgOf[gen[r]]
<1>1. \A r \in Requests : gen[r] \in Generations /\ gen[r] # nextGen + 1
  BY DEF SlotInv, TypeOK, RuntimeTypeOK, HandlerTypeOK, Loaded, Generations
<1>2. cfgOf \in [Generations -> Configs \cup {NoConfig}]
  BY DEF SlotInv, TypeOK, RuntimeTypeOK
<1>3. QED
  BY <1>1, <1>2 DEF Reload

\* ServiceInv is inductive.
LEMMA ServiceInvStep ==
    ASSUME ServiceInv, [Next]_vars
    PROVE  ServiceInv'
<1>0. SlotInv' /\ LockInv' /\ AuthInv'
  BY SlotStep, LockStep, AuthStep DEF ServiceInv
<1> DEFINE Goal == Progress' /\ Undisturbed' /\ UpdateWindow'
<1> SUFFICES Goal
  BY <1>0 DEF ServiceInv
<1>t. /\ pc \in [Requests -> Steps] /\ gen \in [Requests -> Generations] /\ inp \in [Requests -> Inputs]
      /\ resp \in [Requests -> Answers] /\ committed \in [Requests -> BOOLEAN]
  BY DEF ServiceInv, SlotInv, TypeOK, HandlerTypeOK
<1>1. ASSUME NEW r \in Requests, Handle(r) \/ lockResource(r) PROVE Goal
  <2>1. MoveTo(r, pc'[r]) /\ ServiceStep(r)
    BY <1>1, ServiceKinds DEF ServiceInv
  <2>2. QED
    BY <2>1, HandlerWindow
<1>2. ASSUME NEW r \in Requests, NEW in \in Inputs, Arrive(r, in) PROVE Goal
  BY <1>t, <1>2, OutsideWindow DEF Arrive, runtimeVars, panelVars
<1>3. ASSUME NEW c \in Configs, Reload(c) PROVE Goal
  BY <1>3, ReloadElsewhere, OutsideWindow DEF Reload, handlerVars, panelVars, ServiceInv
<1>4. CASE ReloadRejected
  BY <1>4, OutsideWindow DEF ReloadRejected, handlerVars, panelVars
<1>5. ASSUME NEW g \in Generations, detectVersion(g) PROVE Goal
  BY <1>5, OutsideWindow DEF detectVersion, handlerVars, panelVars
<1>6. CASE Serve
  BY <1>6, OutsideWindow DEF Serve, handlerVars, panelVars
<1>7. ASSUME NEW r \in Requests, LateWrite(r) PROVE Goal
  BY <1>7, LateWindow
<1>8. CASE UNCHANGED vars
  BY <1>8, OutsideWindow DEF vars, runtimeVars, handlerVars, panelVars
<1>9. QED
  BY <1>1, <1>2, <1>3, <1>4, <1>5, <1>6, <1>7, <1>8 DEF Next

\* ServiceInv holds initially.
LEMMA ServiceInvInit == Init => ServiceInv
<1>1. Init => Progress /\ Undisturbed /\ UpdateWindow
  BY DEF Init, Progress, Undisturbed, UpdateWindow, Open
<1>2. QED
  BY <1>1, SlotInit, LockInit, AuthInit DEF ServiceInv

\* ServiceInv holds in every behaviour.
LEMMA ServiceInvariance == Spec => []ServiceInv
  BY ServiceInvInit, ServiceInvStep, PTL DEF Spec

\* What preflight and verification find out about the user of an update is
\* still true when the update is forwarded and when its success is answered,
\* however many handlers write to however many users in between, unless one of
\* the writes the mutex does not keep apart hit the user.
THEOREM OwnershipWindow == Spec => []UpdateWindow
<1>1. ServiceInv => UpdateWindow
  BY DEF ServiceInv
<1>2. QED
  BY <1>1, ServiceInvariance, PTL

-----------------------------------------------------------------------------
(* The refinement. *)

\* The variables of the service, as the handlers implement them.
States == [r \in Requests |-> ServiceState(r)]
Seen   == [r \in Requests |-> ServiceSeen(r)]
Terms  == [r \in Requests |-> Cfg(r)]

\* How they change when one handler moves; what it changes of what others have
\* seen is left open.
LEMMA MappedStep ==
    ASSUME ServiceInv, NEW r \in Requests, MoveTo(r, pc'[r]), ServiceStep(r)
    PROVE  /\ States' = [States EXCEPT ![r] = ServiceState(r)']
           /\ Terms' = Terms
           /\ cfgOf'[cur'] = cfgOf[cur] /\ inp' = inp
           /\ \A q \in Requests : Preflighted(q)' = Preflighted(q)
           /\ \A q \in Requests : q # r => pc'[q] = pc[q]
<1>1. /\ pc' = [pc EXCEPT ![r] = pc'[r]] /\ pc \in [Requests -> Steps] /\ resp \in [Requests -> Answers]
      /\ committed \in [Requests -> BOOLEAN]
      /\ UNCHANGED <<cfgOf, cur, gen, inp>>
  BY DEF MoveTo, ServiceInv, SlotInv, TypeOK, HandlerTypeOK
<1>2. \A q \in Requests : q # r => pc'[q] = pc[q] /\ committed'[q] = committed[q]
  BY <1>1 DEF ServiceStep, Silent, Passes, Refused, GivenUp, Lost, Applied, Writes, Judged
<1>3. \A q \in Requests : q # r => ServiceState(q)' = ServiceState(q)
  BY <1>2 DEF ServiceState
<1>4. \A q \in Requests : Cfg(q)' = Cfg(q)
  BY <1>1 DEF Cfg
<1>5. \A q \in Requests : Preflighted(q)' = Preflighted(q)
  BY <1>1, <1>4 DEF Preflighted, Enforced, RouteOf
<1>6. Terms' = Terms
  BY <1>4 DEF Terms
<1>7. States' = [States EXCEPT ![r] = ServiceState(r)']
  BY <1>3 DEF States
<1>8. QED
  BY <1>1, <1>2, <1>5, <1>6, <1>7

\* A step that disturbs nobody changes only what its handler has seen.
LEMMA SeenKept ==
    ASSUME NEW r \in Requests,
           \A q \in Requests : q # r =>
              pc'[q] = pc[q] /\ Preflighted(q)' = Preflighted(q) /\ disturbed'[q] = disturbed[q]
    PROVE  Seen' = [Seen EXCEPT ![r] = ServiceSeen(r)']
<1>1. \A q \in Requests : q # r => ServiceSeen(q)' = ServiceSeen(q)
  BY DEF ServiceSeen
<1>2. QED
  BY <1>1 DEF Seen

\* A write changes what others have seen as the service says.
LEMMA SeenDisturbed ==
    ASSUME NEW in, in.route # "user.delete", NEW inTime \in BOOLEAN, NEW q \in Requests,
           pc'[q] = pc[q], Preflighted(q)' = Preflighted(q),
           disturbed'[q] = (q \in Disturbed(in, inTime))
    PROVE  ServiceSeen(q)' = Service!SeenAfter(in, inTime)[q]
<1>1. Disturbs(in, inTime, q) = Service!Disturbs(in, inTime, q)
  BY DEF Disturbs, Service!Disturbs
<1>2. pc[q] = "forward" => disturbed'[q] = (disturbed[q] \/ Service!Disturbs(in, inTime, q))
  BY <1>1 DEF Disturbed
<1>3. Service!SeenAfter(in, inTime)[q] =
         IF ServiceSeen(q) = "owned" /\ Service!Disturbs(in, inTime, q) THEN "disturbed" ELSE ServiceSeen(q)
  BY DEF Service!SeenAfter
<1>4. QED
  BY <1>2, <1>3 DEF ServiceSeen

\* The service reads credentials, routes, scopes and constraints as the proxy
\* does: both use the definitions of RoutePolicy.
LEMMA SameRoutes ==
    /\ Service!UserWriteRoutes = UserWriteRoutes /\ Service!NodeWriteRoutes = NodeWriteRoutes
    /\ Service!RestrictedWriteRoutes = RestrictedWriteRoutes
    /\ Service!SafeReadRoutes = SafeReadRoutes
    /\ Service!UserActionRoutes = UserActionRoutes /\ Service!HwidWriteRoutes = HwidWriteRoutes
    /\ Service!UserFields = UserFields /\ Service!Absent = Absent /\ Service!NoToken = NoToken
    /\ Service!NoWrite = NoWrite
BY DEF UserWriteRoutes, NodeWriteRoutes, RestrictedWriteRoutes, SafeReadRoutes, UserActionRoutes,
   HwidWriteRoutes, UserFields, Absent, NoToken,
   Service!UserWriteRoutes, Service!NodeWriteRoutes, Service!RestrictedWriteRoutes,
   Service!SafeReadRoutes, Service!UserActionRoutes, Service!HwidWriteRoutes,
   Service!UserFields, Service!Absent, Service!NoToken, NoWrite, Service!NoWrite

\* Credentials resolve to the same tokens.
LEMMA SameCredentials ==
    ASSUME NEW cfg, NEW auth
    PROVE  Service!resolveRequestCredential(cfg, auth) = resolveRequestCredential(cfg, auth)
<1>1. ASSUME NEW cred PROVE Service!FindCredential(cfg, cred) = FindCredential(cfg, cred)
  BY SameRoutes DEF FindCredential, Service!FindCredential
<1>2. ASSUME NEW actor
      PROVE  Service!ResolveTelegramActorCredential(cfg, actor) = ResolveTelegramActorCredential(cfg, actor)
  BY <1>1, SameRoutes DEF ResolveTelegramActorCredential, Service!ResolveTelegramActorCredential,
     NoCred, Service!NoCred
<1>3. QED
  BY <1>1, <1>2, SameRoutes DEF resolveRequestCredential, Service!resolveRequestCredential

\* The scope decision on the route a request gets is the same.
LEMMA SameScopes ==
    ASSUME NEW tok, NEW cfg, NEW name
    PROVE  Service!Decide(tok, Service!effectiveRoute(cfg, name)) <=> Decide(tok, effectiveRoute(cfg, name))
<1>1. Service!Catalog(name) = Catalog(name)
  BY SameRoutes DEF Catalog, Service!Catalog
<1>2. Service!restrictedWriteScopes(name) = restrictedWriteScopes(name)
  BY SameRoutes DEF restrictedWriteScopes, Service!restrictedWriteScopes
<1>3. Service!effectiveRoute(cfg, name) = effectiveRoute(cfg, name)
  BY <1>1, <1>2, SameRoutes DEF effectiveRoute, Service!effectiveRoute,
     isRestrictedWrite, Service!isRestrictedWrite
<1>4. QED
  BY <1>3 DEF Decide, Service!Decide, hasPrivilegedScope, Service!hasPrivilegedScope

\* So are ownership, the body and node checks and what a write stores.
LEMMA SameConstraints ==
    ASSUME NEW tok, NEW c, NEW u, NEW body, NEW node, NEW text, NEW list
    PROVE  /\ Service!OwnsUser(c, u) <=> OwnsUser(c, u)
           /\ Service!validateUserConstraints(c, body) <=> validateUserConstraints(c, body)
           /\ Service!Allowlisted(list, node, text) <=> Allowlisted(list, node, text)
           /\ Service!requireAllowedUUIDOrAll(tok, node, text) <=> requireAllowedUUIDOrAll(tok, node, text)
           /\ Service!CreateFrom(body) = CreateFrom(body)
           /\ Service!ApplyBody(u, body) = ApplyBody(u, body)
<1>1. Service!OwnsUser(c, u) <=> OwnsUser(c, u)
  BY SameRoutes DEF OwnsUser, OwnsField, Service!OwnsUser, Service!OwnsField
<1>2. Service!validateUserConstraints(c, body) <=> validateUserConstraints(c, body)
  BY DEF validateUserConstraints, ValidField, Service!validateUserConstraints, Service!ValidField
<1>3. /\ Service!Allowlisted(list, node, text) <=> Allowlisted(list, node, text)
      /\ Service!requireAllowedUUIDOrAll(tok, node, text) <=> requireAllowedUUIDOrAll(tok, node, text)
  BY DEF requireAllowedUUIDOrAll, Service!requireAllowedUUIDOrAll, Allowlisted, Service!Allowlisted
<1>4. Service!CreateFrom(body) = CreateFrom(body)
  BY SameRoutes DEF CreateFrom, Service!CreateFrom
<1>5. Service!ApplyBody(u, body) = ApplyBody(u, body)
  BY SameRoutes DEF ApplyBody, Service!ApplyBody
<1>6. QED
  BY <1>1, <1>2, <1>3, <1>4, <1>5

\* What the service says of a request is what its handler finds.
LEMMA SameTerms ==
    ASSUME NEW r \in Requests
    PROVE  /\ Service!Token(r) = TokenOf(r)
           /\ Service!Policy(r) = Policy(r)
           /\ Service!Owns(r) <=> preflightUser(r)
<1>1. Service!Token(r) = TokenOf(r)
  BY SameCredentials DEF Service!Token, TokenOf
<1>2. Service!Policy(r) = Policy(r)
  BY <1>1 DEF Service!Policy, Policy
<1>3. QED
  BY <1>1, <1>2, SameRoutes, SameConstraints DEF Service!Owns, preflightUser, OwnedBy

\* A handler that forwards may apply its write: the scope decision, the body
\* and node checks are those of its state, and ownership is in its window.
LEMMA ForwardMayApply ==
    ASSUME ServiceInv, NEW r \in Requests, pc[r] = "forward"
    PROVE  Service!MayApply(r)
<1>1. /\ inp[r].route \in RestrictedWriteRoutes /\ ~Cfg(r).unsafeReport
      /\ Enforced(r) /\ ~Public(r) /\ RestrictedWrite(r)
      /\ RouteOf(r) = effectiveRoute(Cfg(r), inp[r].route)
  BY AllRestricted DEF ServiceInv
<1>2. TokenOf(r) # NoToken /\ Permitted(r) /\ Checked(r)
  BY <1>1 DEF ServiceInv, AuthInv, Cleared
<1>3. Service!InScope(r)
  BY <1>1, <1>2, SameTerms, SameScopes, SameRoutes DEF Service!InScope, Permitted
<1>4. inp[r].route \in {"user.create", "user.update"} => Service!ValidBody(r)
  BY <1>1, <1>2, SameTerms, SameConstraints DEF Service!ValidBody, Checked, validateBodyPolicy
<1>5. inp[r].route = "user.update" /\ Seen[r] = "owned" => Service!Owns(r)
  BY <1>1, SameTerms DEF ServiceInv, UpdateWindow, Seen, ServiceSeen
<1>6. inp[r].route = "post.nodes" => Service!Policy(r).allowAllNodes
  BY <1>1, <1>2, SameTerms DEF Checked, validateBodyPolicy
<1>7. inp[r].route \in NodeWriteRoutes \ {"post.nodes"} =>
         Service!requireAllowedUUIDOrAll(Service!Policy(r), inp[r].node, inp[r].text)
  BY <1>1, <1>2, SameTerms, SameConstraints DEF Checked, validateBodyPolicy, NodeActionAllowed,
     NodeWriteRoutes
<1>8. inp[r].route \in UserWriteRoutes \ {"user.create"} => Seen[r] # "no"
  BY <1>1 DEF Seen, ServiceSeen, Preflighted
<1>9. inp[r].text \notin Extras
  BY <1>1, <1>2 DEF Checked, validateBodyPolicy
<1>10. QED
  BY <1>1, <1>3, <1>4, <1>5, <1>6, <1>7, <1>8, <1>9, SameRoutes DEF Service!MayApply, Seen

\* The panel's own rules and effects are those of the service.
LEMMA SameEffect ==
    ASSUME NEW in \in Inputs, Applicable(in)
    PROVE  Service!PanelAccepts(in) /\ Effect(in) = Service!Written(in) /\ in.route # "user.delete"
<1>1. in.route \in RestrictedWriteRoutes
  BY ServiceAssumption
<1>2. in.route \in UserWriteRoutes => in.route \notin NodeWriteRoutes
  BY DEF UserWriteRoutes, UserActionRoutes, HwidWriteRoutes, NodeWriteRoutes
<1>3. in.route # "user.delete"
  BY <1>1 DEF RestrictedWriteRoutes, UserWriteRoutes, UserActionRoutes, HwidWriteRoutes,
     NodeWriteRoutes
<1>4. Service!PanelAccepts(in)
  BY <1>2, SameRoutes DEF Service!PanelAccepts, Applicable
<1>5. Effect(in) = Service!Written(in)
  BY <1>3, SameConstraints DEF Service!Written, Effect
<1>6. QED
  BY <1>3, <1>4, <1>5

\* Each of the seven kinds of handler steps is a step of the service, or none.
LEMMA HandlerRefines ==
    ASSUME ServiceInv, NEW r \in Requests, MoveTo(r, pc'[r]), ServiceStep(r)
    PROVE  Service!Next \/ UNCHANGED Service!vars
<1>1. /\ States' = [States EXCEPT ![r] = ServiceState(r)']
      /\ Terms' = Terms
      /\ cfgOf'[cur'] = cfgOf[cur] /\ inp' = inp
      /\ \A q \in Requests : Preflighted(q)' = Preflighted(q)
      /\ \A q \in Requests : q # r => pc'[q] = pc[q]
  BY MappedStep
<1>2. /\ States[r] = ServiceState(r)
      /\ Seen[r] = ServiceSeen(r)
      /\ DOMAIN States = Requests /\ DOMAIN Seen = Requests
      /\ States = [q \in Requests |-> States[q]] /\ Seen = [q \in Requests |-> Seen[q]]
  BY DEF States, Seen
<1>3. /\ resp \in [Requests -> Answers] /\ committed \in [Requests -> BOOLEAN]
      /\ disturbed \in [Requests -> BOOLEAN]
      /\ pc[r] \in Open \cup {"forward", "verify"} =>
            resp[r] = "none" /\ committed[r] = (pc[r] = "verify")
  BY DEF ServiceInv, SlotInv, TypeOK, HandlerTypeOK, Progress
<1>4. /\ pc[r] \in Open \cup {"forward"} => ServiceState(r) = "open"
      /\ pc[r] = "verify" => ServiceState(r) = "applied"
      /\ pc[r] \in Done => ServiceState(r) = "idle"
      /\ pc'[r] \in Done => ServiceState(r)' = "idle"
  BY <1>3 DEF ServiceState, Open, Done
<1>a. /\ pc[r] # "forward" => ServiceSeen(r) = "no"
      /\ pc'[r] # "forward" => ServiceSeen(r)' = "no"
  BY DEF ServiceSeen
<1>b. ASSUME Calmed(r) \/ UNCHANGED disturbed
      PROVE  Seen' = [Seen EXCEPT ![r] = ServiceSeen(r)']
  <2>1. \A q \in Requests : q # r => disturbed'[q] = disturbed[q]
    BY <1>3, <1>b DEF Calmed
  <2>2. QED
    BY <1>1, <2>1, SeenKept
<1>5. CASE Silent(r)
  <2>1. ServiceState(r)' = ServiceState(r)
    BY <1>3, <1>5 DEF Silent, ServiceState, Open, Done
  <2>2. pc[r] # "forward" /\ pc'[r] # "forward" /\ (Calmed(r) \/ UNCHANGED disturbed)
    BY <1>5 DEF Silent, Open, Done
  <2>a. States' = States
    BY <1>1, <1>2, <2>1
  <2>b. ServiceSeen(r)' = "no" /\ Seen[r] = "no"
    BY <1>2, <1>a, <2>2
  <2>c. Seen' = [Seen EXCEPT ![r] = ServiceSeen(r)']
    BY <1>b, <2>2
  <2>3. States' = States /\ Seen' = Seen
    BY <1>2, <2>a, <2>b, <2>c
  <2>4. UNCHANGED Service!vars
    BY <1>1, <1>5, <2>3 DEF Silent, Service!vars, States, Seen, Terms
  <2>5. QED
    BY <2>4
<1>6. CASE Passes(r)
  <2>1. ServiceState(r)' = ServiceState(r) /\ ServiceState(r) = "open"
    BY <1>3, <1>6 DEF Passes, ServiceState, Open
  <2>2. States' = States
    BY <1>1, <1>2, <2>1
  <2>a. Seen' = [Seen EXCEPT ![r] = ServiceSeen(r)']
    BY <1>6, <1>b DEF Passes
  <2>b. ~disturbed'[r]
    BY <1>6 DEF Passes, ServiceInv, Undisturbed
  <2>3. CASE Preflighted(r)
    <3>1. ServiceSeen(r)' = "owned"
      BY <1>1, <1>6, <2>3, <2>b DEF Passes, ServiceSeen
    <3>2. Service!Owns(r)
      BY <1>6, <2>3, SameTerms DEF Passes
    <3>3. Service!Observe(r)
      BY <1>1, <1>2, <1>6, <2>1, <2>2, <2>a, <3>1, <3>2 DEF Passes, Service!Observe, States, Seen, Terms
    <3>4. QED
      BY <3>3 DEF Service!Next
  <2>4. CASE ~Preflighted(r)
    <3>1. ServiceSeen(r)' = "no" /\ ServiceSeen(r) = "no"
      BY <1>1, <2>4 DEF ServiceSeen
    <3>2. Seen' = Seen
      BY <1>2, <2>a, <3>1
    <3>3. QED
      BY <1>1, <1>6, <2>2, <3>2 DEF Passes, Service!vars, States, Seen, Terms
  <2>5. QED
    BY <2>3, <2>4
<1>7. CASE Refused(r)
  <2>1. PICK a \in Service!Refusals : resp' = [resp EXCEPT ![r] = a]
    BY <1>7 DEF Refused
  <2>2. ServiceState(r) = "open" /\ ServiceState(r)' = "idle" /\ pc'[r] # "forward"
    BY <1>4, <1>7 DEF Refused, Done
  <2>3. States' = [States EXCEPT ![r] = "idle"] /\ Seen' = [Seen EXCEPT ![r] = "no"]
    BY <1>1, <1>7, <1>a, <1>b, <2>2 DEF Refused
  <2>4. Service!Refuse(r, a)
    BY <1>1, <1>2, <1>7, <2>1, <2>2, <2>3 DEF Refused, Service!Refuse, Service!Close, States, Seen, Terms
  <2>5. QED
    BY <2>1, <2>4 DEF Service!Next
<1>8. CASE GivenUp(r)
  <2>1. ServiceState(r) = "open" /\ ServiceState(r)' = "idle" /\ pc'[r] # "forward"
    BY <1>4, <1>8 DEF GivenUp, Done
  <2>2. States' = [States EXCEPT ![r] = "idle"] /\ Seen' = [Seen EXCEPT ![r] = "no"]
    BY <1>1, <1>8, <1>a, <1>b, <2>1 DEF GivenUp
  <2>3. Service!MayApply(r)
    BY <1>8, ForwardMayApply DEF GivenUp
  <2>4. late[r] = Service!NoWrite
    BY <1>8, SameRoutes DEF GivenUp
  <2>5. Service!Abandon(r)
    BY <1>1, <1>2, <1>8, <2>1, <2>2, <2>3, <2>4
       DEF GivenUp, Service!Abandon, Service!Close, States, Seen, Terms
  <2>6. QED
    BY <2>5 DEF Service!Next
<1>9. ASSUME Writes(r), pc'[r] # "forward" PROVE Service!Apply(r)
  <2>1. inp[r] \in Inputs
    BY AllRestricted DEF ServiceInv
  <2>2. /\ Service!MayApply(r) /\ Service!PanelAccepts(inp[r]) /\ users' = Service!Written(inp[r])
        /\ inp[r].route # "user.delete"
    BY <1>9, <2>1, ForwardMayApply, SameEffect DEF Writes
  <2>3. ServiceState(r) = "open"
    BY <1>4, <1>9 DEF Writes
  <2>4. \A q \in Requests : q # r => ServiceSeen(q)' = Service!SeenAfter(inp[r], TRUE)[q]
    <3>1. \A q \in Requests : q # r => disturbed'[q] = (q \in Disturbed(inp[r], TRUE))
      BY <1>9, WriteMarks
    <3>2. QED
      BY <1>1, <2>2, <3>1, SeenDisturbed
  <2>5. DOMAIN Service!SeenAfter(inp[r], TRUE) = Requests
        /\ Service!SeenAfter(inp[r], TRUE) = [q \in Requests |-> Service!SeenAfter(inp[r], TRUE)[q]]
    BY DEF Service!SeenAfter
  <2>6. Seen' = [Service!SeenAfter(inp[r], TRUE) EXCEPT ![r] = "no"]
    BY <1>9, <1>a, <2>4, <2>5 DEF Seen
  <2>7. QED
    BY <1>1, <1>2, <1>9, <2>2, <2>3, <2>6 DEF Writes, Service!Apply, States, Terms, Seen
<1>10. CASE Lost(r)
  <2>1. Service!Apply(r)
    BY <1>9, <1>10 DEF Lost
  <2>2. ServiceState(r)' = "idle"
    BY <1>4, <1>10 DEF Lost, Done
  <2>3. States' = [States EXCEPT ![r] = "idle"]
    BY <1>1, <2>2
  <2>4. Service!Close(r, "502")
    BY <1>10, <2>3 DEF Lost, Service!Close, States
  <2>5. QED
    BY <2>1, <2>4 DEF Service!Next, Service!ApplyUnknown
<1>11. CASE Applied(r)
  <2>1. Service!Apply(r)
    BY <1>9, <1>11 DEF Applied
  <2>2. committed'[r] /\ pc[r] = "forward" /\ pc'[r] = "verify"
    BY <1>3, <1>11 DEF Applied, Writes
  <2>3. ServiceState(r)' = "applied"
    BY <2>2 DEF ServiceState
  <2>4. States' = [States EXCEPT ![r] = "applied"]
    BY <1>1, <1>2, <2>3
  <2>5. resp' = resp
    BY <1>3, <1>11, <2>2 DEF Applied
  <2>6. Service!ApplyKnown(r)
    BY <2>1, <2>4, <2>5 DEF Service!ApplyKnown, States
  <2>7. QED
    BY <2>6 DEF Service!Next
<1>12. CASE Judged(r)
  <2>1. ServiceState(r) = "applied" /\ ServiceState(r)' = "idle"
        /\ pc[r] # "forward" /\ pc'[r] # "forward"
    BY <1>4, <1>12 DEF Judged, Done
  <2>2. States' = [States EXCEPT ![r] = "idle"] /\ Seen' = Seen
    BY <1>1, <1>2, <1>12, <1>a, <1>b, <2>1 DEF Judged
  <2>3. inp[r].route \notin NodeWriteRoutes => inp[r].route \in UserWriteRoutes
    BY AllRestricted DEF ServiceInv, RestrictedWriteRoutes
  <2>4. Verified(r) => Service!Confirmed(r)
    BY SameTerms, SameRoutes, SameConstraints DEF Verified, Service!Confirmed
  <2>5. \/ Service!Confirmed(r) /\ Service!Close(r, "ok")
        \/ inp[r].route \in UserWriteRoutes /\ Service!Close(r, "denied")
    BY <1>12, <2>2, <2>3, <2>4 DEF Judged, Service!Close, States
  <2>6. Service!Confirm(r)
    BY <1>1, <1>2, <1>12, <2>1, <2>2, <2>5, SameRoutes DEF Judged, Service!Confirm, States, Seen, Terms
  <2>7. QED
    BY <2>6 DEF Service!Next
<1>13. QED
  BY <1>5, <1>6, <1>7, <1>8, <1>10, <1>11, <1>12 DEF ServiceStep

\* Every step of the proxy is a step of the service, or none.
LEMMA StepRefines ==
    ASSUME ServiceInv, [Next]_vars
    PROVE  [Service!Next]_(Service!vars)
<1> SUFFICES Service!Next \/ UNCHANGED Service!vars
  OBVIOUS
<1>t. /\ pc \in [Requests -> Steps] /\ gen \in [Requests -> Generations] /\ inp \in [Requests -> Inputs]
      /\ resp \in [Requests -> Answers] /\ committed \in [Requests -> BOOLEAN]
      /\ cfgOf \in [Generations -> Configs \cup {NoConfig}]
      /\ nextGen \in Generations /\ cur \in Generations /\ nextGen \in Nat
  BY GatewayAssumption DEF ServiceInv, SlotInv, TypeOK, HandlerTypeOK, RuntimeTypeOK, Generations
<1>1. ASSUME NEW r \in Requests, Handle(r) \/ lockResource(r)
      PROVE  Service!Next \/ UNCHANGED Service!vars
  BY <1>1, ServiceKinds, HandlerRefines DEF ServiceInv
<1>2. ASSUME NEW r \in Requests, NEW in \in Inputs, Arrive(r, in)
      PROVE  Service!Next \/ UNCHANGED Service!vars
  <2>1. /\ pc[r] = "idle" /\ pc'[r] = "loaded" /\ ~committed'[r] /\ gen'[r] = cur
        /\ \A q \in Requests : q # r => /\ pc'[q] = pc[q] /\ committed'[q] = committed[q]
                                        /\ gen'[q] = gen[q] /\ inp'[q] = inp[q]
        /\ UNCHANGED <<cur, cfgOf, disturbed, users, late>>
        /\ inp' = [inp EXCEPT ![r] = in] /\ resp' = [resp EXCEPT ![r] = "none"]
    BY <1>t, <1>2 DEF Arrive, runtimeVars, panelVars
  <2>2. States' = [States EXCEPT ![r] = "open"] /\ States[r] = "idle"
    BY <2>1 DEF States, ServiceState
  <2>3. Terms' = [Terms EXCEPT ![r] = cfgOf[cur]]
    BY <2>1 DEF Terms, Cfg
  <2>4. \A q \in Requests : q # r => Preflighted(q)' = Preflighted(q)
    BY <2>1 DEF Preflighted, Enforced, RouteOf, Cfg
  <2>5. Seen' = Seen
    BY <2>1, <2>4 DEF Seen, ServiceSeen
  <2>6. Service!Submit(r, in)
    BY <2>1, <2>2, <2>3, <2>5 DEF Service!Submit, States, Terms, Seen
  <2>7. QED
    BY <2>6 DEF Service!Next
<1>3. ASSUME UNCHANGED <<pc, gen, inp, committed>>,
             \A r \in Requests : cfgOf'[gen[r]] = cfgOf[gen[r]]
      PROVE  /\ States' = States /\ Terms' = Terms
             /\ \A q \in Requests : Preflighted(q)' = Preflighted(q)
  <2>1. \A q \in Requests : ServiceState(q)' = ServiceState(q)
    BY <1>3 DEF ServiceState
  <2>2. \A q \in Requests : Cfg(q)' = Cfg(q)
    BY <1>3 DEF Cfg
  <2>3. \A q \in Requests : Preflighted(q)' = Preflighted(q)
    BY <1>3, <2>2 DEF Preflighted, Enforced, RouteOf
  <2>4. QED
    BY <2>1, <2>2, <2>3 DEF States, Terms
<1>4. ASSUME UNCHANGED <<handlerVars, panelVars>>,
             \A r \in Requests : cfgOf'[gen[r]] = cfgOf[gen[r]]
      PROVE  States' = States /\ Terms' = Terms /\ Seen' = Seen
  <2>1. /\ States' = States /\ Terms' = Terms
        /\ \A q \in Requests : Preflighted(q)' = Preflighted(q)
    BY <1>3, <1>4 DEF handlerVars
  <2>2. Seen' = Seen
    BY <1>4, <2>1 DEF handlerVars, Seen, ServiceSeen
  <2>3. QED
    BY <2>1, <2>2
<1>5. ASSUME NEW c \in Configs, Reload(c)
      PROVE  Service!Next \/ UNCHANGED Service!vars
  <2>1. States' = States /\ Terms' = Terms /\ Seen' = Seen
    BY <1>4, <1>5, ReloadElsewhere DEF Reload, ServiceInv
  <2>2. nextGen + 1 \in Generations
    BY <1>t, <1>5, GatewayAssumption DEF Reload, Generations
  <2>3. cfgOf'[cur'] = c
    BY <1>t, <1>5, <2>2 DEF Reload
  <2>4. Service!Reload(c)
    BY <1>5, <2>1, <2>3 DEF Service!Reload, States, Terms, Seen, Reload, handlerVars, panelVars
  <2>5. QED
    BY <2>4 DEF Service!Next
<1>6. ASSUME NEW r \in Requests, LateWrite(r)
      PROVE  Service!Next \/ UNCHANGED Service!vars
  <2>1. /\ UNCHANGED <<pc, gen, inp, resp, committed, cur, cfgOf>>
        /\ \A q \in Requests : disturbed'[q] = (q \in Disturbed(late[r], FALSE))
        /\ late[r] \in Inputs /\ Applicable(late[r]) /\ users' = Effect(late[r])
        /\ late[r] # NoWrite /\ late' = [late EXCEPT ![r] = NoWrite]
    BY <1>6 DEF LateWrite, runtimeVars, ServiceInv, SlotInv, TypeOK
  <2>2. /\ States' = States /\ Terms' = Terms
        /\ \A q \in Requests : Preflighted(q)' = Preflighted(q)
    BY <1>3, <2>1
  <2>3. /\ Service!PanelAccepts(late[r]) /\ users' = Service!Written(late[r])
        /\ late[r].route # "user.delete"
    BY <2>1, SameEffect
  <2>4. \A q \in Requests : ServiceSeen(q)' = Service!SeenAfter(late[r], FALSE)[q]
    BY <2>1, <2>2, <2>3, SeenDisturbed
  <2>5. Seen' = Service!SeenAfter(late[r], FALSE)
    BY <2>4 DEF Seen, Service!SeenAfter
  <2>6. Service!ApplyLate(r)
    BY <2>1, <2>2, <2>3, <2>5, SameRoutes DEF Service!ApplyLate, States, Terms, Seen
  <2>7. QED
    BY <2>6 DEF Service!Next
<1>7. ASSUME UNCHANGED <<cur, cfgOf, handlerVars, panelVars>>
      PROVE  UNCHANGED Service!vars
  <2>1. States' = States /\ Terms' = Terms /\ Seen' = Seen
    BY <1>4, <1>7 DEF handlerVars
  <2>2. QED
    BY <1>7, <2>1 DEF Service!vars, States, Terms, Seen, handlerVars, panelVars
<1>8. CASE ReloadRejected \/ Serve \/ \E g \in Generations : detectVersion(g)
  BY <1>7, <1>8 DEF ReloadRejected, Serve, detectVersion
<1>9. CASE UNCHANGED vars
  BY <1>7, <1>9 DEF vars, runtimeVars
<1>10. QED
  BY <1>1, <1>2, <1>5, <1>6, <1>8, <1>9 DEF Next

\* The proxy starts as the service does.
LEMMA InitRefines == Init => Service!Init
<1> SUFFICES ASSUME Init PROVE Service!Init
  OBVIOUS
<1>1. PICK c \in Configs : cfgOf = [g \in Generations |-> IF g = 1 THEN c ELSE NoConfig]
  BY DEF Init
<1>2. 1 \in Generations
  BY GatewayAssumption DEF Generations
<1>3. cfgOf[cur] = c /\ \A r \in Requests : Cfg(r) = c
  BY <1>1, <1>2 DEF Init, Cfg
<1>4. Terms = [r \in Requests |-> cfgOf[cur]]
  BY <1>3 DEF Terms
<1>5. States = [r \in Requests |-> "idle"]
  BY DEF Init, States, ServiceState
<1>6. Seen = [r \in Requests |-> "no"]
  BY DEF Init, Seen, ServiceSeen
<1>7. inp \in [Requests -> Inputs]
  BY DEF Init
<1>8. QED
  BY <1>3, <1>4, <1>5, <1>6, <1>7, SameRoutes DEF Init, Service!Init, States, Terms, Seen

\* The pipeline implements WriteService: with any number of handlers, reloads
\* and panel failures, clients and the panel see restricted writes that are
\* checked and applied in one step, but for what WriteService leaves open: an
\* update whose user one of the named other writes has changed, and a write that
\* is answered 502 and applied later.
THEOREM WritesAreAtomic == Spec => AtomicWrites
  BY InitRefines, StepRefines, ServiceInvariance, PTL DEF Spec, AtomicWrites, Service!Spec


=============================================================================
