--------------------------- MODULE GatewayProofs ---------------------------
(***************************************************************************)
(* Proofs about Gateway, for every number of handlers, tokens, users,      *)
(* configurations and reloads: the types and the accounting of the slots,  *)
(* the exclusion by the resource mutexes, and that no write reaches the    *)
(* panel unauthorised.                                                     *)
(***************************************************************************)
EXTENDS Gateway, FiniteSetTheorems, TLAPS

GlobalSteps == Steps \ {"idle", "loaded"}
KeySteps    == {"metered", "lock", "preflight", "forward", "verify", "unlock", "releaseKey"}

\* The state a handler loaded exists and keeps its configuration; before Serve
\* a state has the probe of its reload at most.
Loaded ==
    /\ cfgOf[cur] \in Configs
    /\ \A r \in Requests : gen[r] <= nextGen /\ cfgOf[gen[r]] \in Configs
    /\ ~served => \A g \in Generations : probes[g] \in 0..1

\* Past authentication a handler has a token or a client address.
Keyed == \A r \in Requests : pc[r] \in KeySteps \cup {"authenticated"} => KeyOf(r) \in Keys

\* The inductive invariant behind type correctness and slot accounting: the
\* counters stay naturals because every release has its acquisition.
SlotInv == TypeOK /\ Loaded /\ Keyed /\ SlotsBalanced

-----------------------------------------------------------------------------
(* A handler step is one of five kinds, as far as the slots are concerned. *)

MoveTo(r, s) ==
    /\ s \in Steps
    /\ pc' = [pc EXCEPT ![r] = s]
    /\ UNCHANGED <<cur, nextGen, cfgOf, versionOK, probes, matched, served, gen, inp>>

Stay(r) ==
    /\ MoveTo(r, pc'[r])
    /\ (pc'[r] \in GlobalSteps) = (pc[r] \in GlobalSteps)
    /\ (pc'[r] \in KeySteps) = (pc[r] \in KeySteps)
    /\ pc'[r] = "authenticated" => KeyOf(r) \in Keys
    /\ UNCHANGED limitVars

TakeGlobal(r) ==
    /\ pc[r] = "loaded"
    /\ MoveTo(r, "admitted")
    /\ globalHeld[gen[r]] < Cfg(r).global
    /\ globalHeld' = [globalHeld EXCEPT ![gen[r]] = @ + 1]
    /\ UNCHANGED keyHeld

TakeKey(r) ==
    /\ pc[r] = "authenticated"
    /\ MoveTo(r, "metered")
    /\ keyHeld[gen[r]][KeyOf(r)] < KeyLimit(r)
    /\ keyHeld' = [keyHeld EXCEPT ![gen[r]][KeyOf(r)] = @ + 1]
    /\ UNCHANGED globalHeld

DropKey(r) ==
    /\ pc[r] = "releaseKey"
    /\ MoveTo(r, "releaseGlobal")
    /\ keyHeld' = [keyHeld EXCEPT ![gen[r]][KeyOf(r)] = @ - 1]
    /\ UNCHANGED globalHeld

DropGlobal(r) ==
    /\ pc[r] = "releaseGlobal"
    /\ MoveTo(r, "idle")
    /\ globalHeld' = [globalHeld EXCEPT ![gen[r]] = @ - 1]
    /\ UNCHANGED keyHeld

\* Credentials resolve to a token of the configuration or to none.
LEMMA ResolvedToken ==
    ASSUME NEW cfg, NEW auth
    PROVE  resolveRequestCredential(cfg, auth) \in Tokens \cup {NoToken}
<1>1. ASSUME NEW cred PROVE FindCredential(cfg, cred) \in Tokens \cup {NoToken}
    BY DEF FindCredential
<1>2. QED
    BY <1>1 DEF resolveRequestCredential, ResolveTelegramActorCredential

\* What a handler derives from its state and its request does not change while
\* neither does.
LEMMA DerivedStable ==
    ASSUME NEW r, cfgOf'[gen'[r]] = cfgOf[gen[r]], inp'[r] = inp[r]
    PROVE  /\ KeyOf(r)' = KeyOf(r)
           /\ RestrictedWrite(r)' = RestrictedWrite(r)
           /\ lockKey(r)' = lockKey(r)
           /\ Policy(r)' = Policy(r)
           /\ Cfg(r)' = Cfg(r)
<1>1. Cfg(r)' = Cfg(r)
    BY DEF Cfg
<1>2. RouteOf(r)' = RouteOf(r) /\ TokenOf(r)' = TokenOf(r)
    BY <1>1 DEF RouteOf, TokenOf
<1>3. QED
    BY <1>1, <1>2 DEF KeyOf, Public, Enforced, RestrictedWrite, lockKey, Policy

\* Every handler step is one of the five kinds.
LEMMA HandlerKinds ==
    ASSUME TypeOK, NEW r \in Requests, Handle(r) \/ lockResource(r)
    PROVE  Stay(r) \/ TakeGlobal(r) \/ TakeKey(r) \/ DropKey(r) \/ DropGlobal(r)
<1> USE DEF MoveTo, Advance, Reply, runtimeVars, limitVars, Steps, GlobalSteps, KeySteps
<1>0. FirstRelease(r) \in {"unlock", "releaseKey"} /\ pc \in [Requests -> Steps]
    BY DEF FirstRelease, TypeOK, HandlerTypeOK
<1>1. CASE AcquireGlobal(r)
    BY <1>0, <1>1 DEF AcquireGlobal, Stay, TakeGlobal
<1>2. CASE Malformed(r)
    BY <1>0, <1>2 DEF Malformed, Stay
<1>3. CASE PanelAuthFacade(r)
    BY <1>0, <1>3 DEF PanelAuthFacade, Stay
<1>4. CASE GuardAndAuthenticate(r)
    <2>1. Public(r) => KeyOf(r) \in Keys
        BY GatewayAssumption DEF TypeOK, HandlerTypeOK, KeyOf, Keys, Request
    <2>2. TokenOf(r) # NoToken /\ ~Public(r) => KeyOf(r) \in Keys
        BY ResolvedToken DEF KeyOf, Keys, TokenOf
    <2>3. QED
        BY <1>0, <1>4, <2>1, <2>2 DEF GuardAndAuthenticate, Stay
<1>5. CASE AcquireKey(r)
    BY <1>0, <1>5 DEF AcquireKey, Stay, TakeKey
<1>6. CASE RateLimited(r)
    BY <1>0, <1>6 DEF RateLimited, Stay
<1>7. CASE DecidePolicy(r)
    BY <1>0, <1>7 DEF DecidePolicy, Stay
<1>8. CASE lockResource(r)
    BY <1>0, <1>8 DEF lockResource, Stay
<1>9. CASE PreflightDenied(r)
    BY <1>0, <1>9 DEF PreflightDenied, Stay
<1>10. CASE Preflight(r)
    BY <1>0, <1>10 DEF Preflight, Stay
<1>11. CASE ForwardFails(r)
    BY <1>0, <1>11 DEF ForwardFails, Commit, Stay
<1>12. CASE ForwardRefused(r)
    BY <1>0, <1>12 DEF ForwardRefused, Stay
<1>13. CASE ForwardRead(r)
    BY <1>0, <1>13 DEF ForwardRead, Stay
<1>14. CASE ForwardWrite(r)
    BY <1>0, <1>14 DEF ForwardWrite, Commit, Stay
<1>15. CASE PostWriteVerify(r)
    BY <1>0, <1>15 DEF PostWriteVerify, Stay
<1>16. CASE Unlock(r)
    BY <1>0, <1>16 DEF Unlock, Stay
<1>17. CASE ReleaseKey(r)
    BY <1>17 DEF ReleaseKey, DropKey
<1>18. CASE ReleaseGlobal(r)
    BY <1>18 DEF ReleaseGlobal, DropGlobal
<1>19. QED
    BY <1>1, <1>2, <1>3, <1>4, <1>5, <1>6, <1>7, <1>8, <1>9, <1>10, <1>11,
       <1>12, <1>13, <1>14, <1>15, <1>16, <1>17, <1>18 DEF Handle

-----------------------------------------------------------------------------
(* Type correctness of what is not a counter. *)

\* What the panel stores has the shape of a user.
LEMMA EffectType ==
    ASSUME TypeOK, NEW in \in Inputs, Applicable(in)
    PROVE  Effect(in) \in [Users -> UserRecord \cup {Absent}]
<1>1. in.user \in Users /\ in.body \in Bodies
    BY GatewayAssumption DEF Request
<1>2. CreateFrom(in.body) \in UserRecord
    BY <1>1 DEF CreateFrom, Bodies, UserRecord
<1>3. users[in.user] \in UserRecord => ApplyBody(users[in.user], in.body) \in UserRecord
    BY <1>1 DEF ApplyBody, Bodies, UserRecord
<1>4. in.route = "user.update" => users[in.user] \in UserRecord
    BY <1>1 DEF TypeOK, Applicable, NodeWriteRoutes
<1>5. QED
    BY <1>1, <1>2, <1>3, <1>4 DEF TypeOK, Effect

\* lockKey gives a member of LockKeys.
LEMMA LockKeyType ==
    ASSUME TypeOK, NEW r \in Requests
    PROVE  lockKey(r) \in LockKeys
<1>1. inp[r] \in Request
    BY GatewayAssumption DEF TypeOK, HandlerTypeOK
<1>2. /\ inp[r].route \in RouteNames /\ inp[r].user \in Users /\ inp[r].node \in Nodes
      /\ inp[r].text \in Texts /\ Plain \in Texts
    BY <1>1, GatewayAssumption DEF Request
<1>3. CreateFrom(inp[r].body)["username"] \in SUBSET Values
    BY <1>1 DEF Request, Bodies, UserRecord, UserFields, CreateFrom
<1>4. QED
    BY <1>2, <1>3 DEF lockKey, LockKeys

\* All of TypeOK but the counters.
Shapes ==
    /\ RuntimeTypeOK
    /\ HandlerTypeOK
    /\ locks \subseteq LockKeys
    /\ users \in [Users -> UserRecord \cup {Absent}]
    /\ late \in [Requests -> Inputs \cup {NoWrite}]

\* A handler step keeps every type but that of the slots.
LEMMA HandlerShapes ==
    ASSUME TypeOK, NEW r \in Requests, Handle(r) \/ lockResource(r)
    PROVE  Shapes'
<1>1. MoveTo(r, pc'[r])
    BY HandlerKinds DEF Stay, TakeGlobal, TakeKey, DropKey, DropGlobal, MoveTo,
       TypeOK, HandlerTypeOK
<1>2. RuntimeTypeOK'
    BY <1>1 DEF MoveTo, TypeOK, RuntimeTypeOK
<1>3. pc' \in [Requests -> Steps] /\ gen' \in [Requests -> Generations]
        /\ inp' \in [Requests -> Inputs]
    BY <1>1 DEF MoveTo, TypeOK, HandlerTypeOK
<1>4. resp' \in [Requests -> Answers] /\ committed' \in [Requests -> BOOLEAN]
    BY DEF TypeOK, HandlerTypeOK, Answers, AuthError, Handle, Advance, Reply, AcquireGlobal,
       Malformed, PanelAuthFacade, GuardAndAuthenticate, AcquireKey, RateLimited,
       DecidePolicy, lockResource, PreflightDenied, Preflight, ForwardFails,
       Commit, ForwardRefused, ForwardRead, ForwardWrite, PostWriteVerify, Unlock,
       ReleaseKey, ReleaseGlobal
<1>5. locks' \subseteq LockKeys
    BY LockKeyType DEF TypeOK, Handle, AcquireGlobal,
       Malformed, PanelAuthFacade, GuardAndAuthenticate, AcquireKey, RateLimited,
       DecidePolicy, lockResource, PreflightDenied, Preflight, ForwardFails,
       Commit, ForwardRefused, ForwardRead, ForwardWrite, PostWriteVerify, Unlock,
       ReleaseKey, ReleaseGlobal
<1>6. users' = users \/ (Applicable(inp[r]) /\ users' = Effect(inp[r]))
    BY DEF Handle, panelVars, AcquireGlobal,
       Malformed, PanelAuthFacade, GuardAndAuthenticate, AcquireKey, RateLimited,
       DecidePolicy, lockResource, PreflightDenied, Preflight, ForwardFails,
       Commit, ForwardRefused, ForwardRead, ForwardWrite, PostWriteVerify, Unlock,
       ReleaseKey, ReleaseGlobal
<1>7. users' \in [Users -> UserRecord \cup {Absent}]
    BY <1>6, EffectType DEF TypeOK, HandlerTypeOK
<1>8. disturbed' \in [Requests -> BOOLEAN] /\ late' \in [Requests -> Inputs \cup {NoWrite}]
    BY DEF TypeOK, HandlerTypeOK, Handle, Advance, Reply, panelVars, AcquireGlobal,
       Malformed, PanelAuthFacade, GuardAndAuthenticate, AcquireKey, RateLimited,
       DecidePolicy, lockResource, PreflightDenied, Preflight, ForwardFails,
       Commit, ForwardRefused, ForwardRead, ForwardWrite, PostWriteVerify, Unlock,
       ReleaseKey, ReleaseGlobal
<1>9. QED
    BY <1>2, <1>3, <1>4, <1>5, <1>7, <1>8 DEF Shapes, HandlerTypeOK

\* So does every step.
LEMMA NextShapes ==
    ASSUME SlotInv, [Next]_vars
    PROVE  Shapes'
<1> USE DEF SlotInv, TypeOK, RuntimeTypeOK, HandlerTypeOK, Shapes, Generations
<1>1. CASE \E r \in Requests : Handle(r) \/ lockResource(r)
    BY <1>1, HandlerShapes
<1>2. CASE \E r \in Requests, in \in Inputs : Arrive(r, in)
    BY <1>2 DEF Arrive, runtimeVars, limitVars, panelVars, Steps, Answers
<1>3. CASE \E c \in Configs : Reload(c)
    BY <1>3, GatewayAssumption DEF Reload, handlerVars, panelVars, Config
<1>4. CASE ReloadRejected
    BY <1>4, GatewayAssumption DEF ReloadRejected, handlerVars, panelVars
<1>5. ASSUME NEW g \in Generations, detectVersion(g) PROVE Shapes'
    <2>0. probes[g] \in 0..2 /\ probes[g] > 0 /\ probes' = [probes EXCEPT ![g] = probes[g] - 1]
        BY <1>5 DEF detectVersion
    <2>1. probes' \in [Generations -> 0..2]
        <3>1. probes[g] - 1 \in 0..2
            BY <2>0
        <3>2. QED
            BY <2>0, <3>1
    <2>2. versionOK' \in [Generations -> BOOLEAN]
        BY <1>5 DEF detectVersion
    <2>3. matched' \subseteq Generations
        <3>1. matched' = matched \/ matched' = matched \cup {g}
            BY <1>5 DEF detectVersion
        <3>2. QED
            BY <3>1
    <2>4. QED
        BY <1>5, <2>1, <2>2, <2>3 DEF detectVersion, handlerVars, panelVars
<1>6. CASE Serve
    <2>1. probes[cur] + 1 \in 0..2
        BY <1>6 DEF Serve, Loaded
    <2>2. probes' \in [Generations -> 0..2]
        BY <1>6, <2>1 DEF Serve
    <2>3. QED
        BY <1>6, <2>2 DEF Serve, handlerVars, panelVars
<1>7. ASSUME NEW r \in Requests, LateWrite(r) PROVE Shapes'
    <2>1. late[r] \in Inputs
        BY <1>7 DEF LateWrite
    <2>2. users' \in [Users -> UserRecord \cup {Absent}]
        BY <1>7, <2>1, EffectType DEF LateWrite
    <2>3. QED
        BY <1>7, <2>2 DEF LateWrite, runtimeVars
<1>8. CASE UNCHANGED vars
    BY <1>8 DEF vars, runtimeVars, handlerVars, panelVars
<1>9. QED
    BY <1>1, <1>2, <1>3, <1>4, <1>5, <1>6, <1>7, <1>8 DEF Next

-----------------------------------------------------------------------------
(* Slot accounting. *)

LEMMA HoldersFinite ==
    ASSUME NEW g, NEW k
    PROVE  /\ IsFiniteSet(GlobalHolders(g)) /\ Cardinality(GlobalHolders(g)) \in Nat
           /\ IsFiniteSet(KeyHolders(g, k)) /\ Cardinality(KeyHolders(g, k)) \in Nat
<1>1. GlobalHolders(g) \in SUBSET Requests /\ KeyHolders(g, k) \in SUBSET Requests
    BY DEF GlobalHolders, KeyHolders
<1>2. QED
    BY <1>1, GatewayAssumption, FS_Subset, FS_CardinalityType

\* Who holds what, in terms of the steps.
LEMMA HoldsBySteps ==
    ASSUME TypeOK, NEW r \in Requests
    PROVE  /\ HoldsGlobal(r) = (pc[r] \in GlobalSteps)
           /\ HoldsKey(r) = (pc[r] \in KeySteps)
BY DEF HoldsGlobal, HoldsKey, GlobalSteps, KeySteps, TypeOK, HandlerTypeOK

\* The same in the next state.
LEMMA HoldsByStepsNext ==
    ASSUME Shapes', NEW r \in Requests
    PROVE  /\ HoldsGlobal(r)' = (pc'[r] \in GlobalSteps)
           /\ HoldsKey(r)' = (pc'[r] \in KeySteps)
BY DEF HoldsGlobal, HoldsKey, GlobalSteps, KeySteps, Shapes, HandlerTypeOK

\* A handler step moves one handler and keeps every derived value.
LEMMA OneMoves ==
    ASSUME TypeOK, NEW r \in Requests, MoveTo(r, pc'[r])
    PROVE  /\ \A q \in Requests : KeyOf(q)' = KeyOf(q) /\ gen'[q] = gen[q]
           /\ \A q \in Requests : q # r => pc'[q] = pc[q]
           /\ cfgOf' = cfgOf
<1>1. \A q \in Requests : cfgOf'[gen'[q]] = cfgOf[gen[q]] /\ inp'[q] = inp[q]
    BY DEF MoveTo
<1>2. QED
    BY <1>1, DerivedStable DEF MoveTo, TypeOK, HandlerTypeOK

\* The holders of a global slot change by the moving handler only.
LEMMA GlobalHoldersStep ==
    ASSUME TypeOK, Shapes', NEW r \in Requests, MoveTo(r, pc'[r]), NEW g \in Generations
    PROVE  GlobalHolders(g)' =
             IF gen[r] # g THEN GlobalHolders(g)
             ELSE IF pc'[r] \in GlobalSteps THEN GlobalHolders(g) \cup {r}
             ELSE GlobalHolders(g) \ {r}
<1>1. \A q \in Requests : q # r => HoldsGlobal(q)' = HoldsGlobal(q)
    BY OneMoves DEF HoldsGlobal
<1>2. \A q \in Requests : gen'[q] = gen[q]
    BY OneMoves
<1>3. HoldsGlobal(r)' = (pc'[r] \in GlobalSteps)
    BY HoldsByStepsNext
<1>4. QED
    BY <1>1, <1>2, <1>3 DEF GlobalHolders

\* When one handler moves, only it can enter or leave the holders of a key.
LEMMA KeyHoldersStep ==
    ASSUME TypeOK, Shapes', NEW r \in Requests, MoveTo(r, pc'[r]), NEW g \in Generations,
           NEW k \in Keys
    PROVE  KeyHolders(g, k)' =
             IF gen[r] # g \/ KeyOf(r) # k THEN KeyHolders(g, k)
             ELSE IF pc'[r] \in KeySteps THEN KeyHolders(g, k) \cup {r}
             ELSE KeyHolders(g, k) \ {r}
<1>1. \A q \in Requests : q # r => HoldsKey(q)' = HoldsKey(q)
    BY OneMoves DEF HoldsKey
<1>2. \A q \in Requests : gen'[q] = gen[q] /\ KeyOf(q)' = KeyOf(q)
    BY OneMoves
<1>3. HoldsKey(r)' = (pc'[r] \in KeySteps)
    BY HoldsByStepsNext
<1>4. QED
    BY <1>1, <1>2, <1>3 DEF KeyHolders

\* Counters and limits survive a handler step of each kind.
LEMMA HandlerSlots ==
    ASSUME SlotInv, Shapes', NEW r \in Requests, Handle(r) \/ lockResource(r)
    PROVE  SlotInv'
<1> USE DEF SlotInv
<1>1. MoveTo(r, pc'[r])
    BY HandlerKinds DEF Stay, TakeGlobal, TakeKey, DropKey, DropGlobal, MoveTo,
       TypeOK, HandlerTypeOK
<1>2. Loaded'
    BY <1>1 DEF Loaded, MoveTo
<1>3. /\ gen[r] \in Generations /\ Cfg(r) \in Configs /\ cfgOf' = cfgOf
      /\ (r \in GlobalHolders(gen[r])) = (pc[r] \in GlobalSteps)
      /\ (r \in KeyHolders(gen[r], KeyOf(r))) = (pc[r] \in KeySteps)
    <2>1. gen[r] \in Generations /\ Cfg(r) \in Configs /\ cfgOf' = cfgOf
        BY <1>1 DEF TypeOK, HandlerTypeOK, Loaded, Cfg, MoveTo
    <2>2. HoldsGlobal(r) = (pc[r] \in GlobalSteps) /\ HoldsKey(r) = (pc[r] \in KeySteps)
        BY HoldsBySteps
    <2>3. QED
        BY <2>1, <2>2 DEF GlobalHolders, KeyHolders, HoldsGlobal, HoldsKey
<1>4. pc[r] \in KeySteps \cup {"authenticated"} => KeyOf(r) \in Keys
    BY DEF Keyed
<1>5. Keyed'
    <2>1. pc'[r] \in KeySteps \cup {"authenticated"} => KeyOf(r) \in Keys
        <3>1. CASE Stay(r)
            BY <1>4, <3>1 DEF Stay
        <3>2. CASE TakeGlobal(r) \/ DropKey(r) \/ DropGlobal(r)
            BY <3>2 DEF TakeGlobal, DropKey, DropGlobal, MoveTo, KeySteps, TypeOK, HandlerTypeOK
        <3>3. CASE TakeKey(r)
            BY <1>4, <3>3 DEF TakeKey
        <3>4. QED
            BY <3>1, <3>2, <3>3, HandlerKinds
    <2>2. QED
        BY <1>1, <2>1, OneMoves DEF Keyed
<1>6. \A g \in Generations : globalHeld'[g] = Cardinality(GlobalHolders(g)')
    <2> SUFFICES ASSUME NEW g \in Generations
                 PROVE  globalHeld'[g] = Cardinality(GlobalHolders(g)')
        OBVIOUS
    <2>1. globalHeld[g] = Cardinality(GlobalHolders(g)) /\ globalHeld \in [Generations -> Nat]
        BY DEF SlotsBalanced, TypeOK, LimitTypeOK
    <2>2. GlobalHolders(g)' = IF gen[r] # g THEN GlobalHolders(g)
                              ELSE IF pc'[r] \in GlobalSteps THEN GlobalHolders(g) \cup {r}
                              ELSE GlobalHolders(g) \ {r}
        BY <1>1, GlobalHoldersStep
    <2>3. IsFiniteSet(GlobalHolders(g)) /\ Cardinality(GlobalHolders(g)) \in Nat
        BY HoldersFinite
    <2>4. CASE Stay(r) \/ TakeKey(r) \/ DropKey(r)
        <3>1. (pc'[r] \in GlobalSteps) = (pc[r] \in GlobalSteps) /\ globalHeld' = globalHeld
            BY <2>4 DEF Stay, TakeKey, DropKey, MoveTo, GlobalSteps, Steps, limitVars, TypeOK, HandlerTypeOK
        <3>2. GlobalHolders(g)' = GlobalHolders(g)
            BY <3>1, <2>2, <1>3
        <3>3. QED
            BY <3>1, <3>2, <2>1
    <2>5. CASE TakeGlobal(r)
        <3>1. pc'[r] \in GlobalSteps /\ pc[r] \notin GlobalSteps
            BY <2>5 DEF TakeGlobal, MoveTo, GlobalSteps, Steps, TypeOK, HandlerTypeOK
        <3>2. CASE gen[r] = g
            <4>1. r \notin GlobalHolders(g) /\ GlobalHolders(g)' = GlobalHolders(g) \cup {r}
                BY <3>1, <3>2, <2>2, <1>3
            <4>2. Cardinality(GlobalHolders(g)') = Cardinality(GlobalHolders(g)) + 1
                BY <4>1, <2>3, FS_AddElement
            <4>3. globalHeld'[g] = globalHeld[g] + 1
                BY <3>2, <2>1, <2>5 DEF TakeGlobal
            <4>4. QED
                BY <4>2, <4>3, <2>1
        <3>3. CASE gen[r] # g
            BY <3>3, <2>1, <2>2, <2>5 DEF TakeGlobal
        <3>4. QED
            BY <3>2, <3>3
    <2>6. CASE DropGlobal(r)
        <3>1. pc'[r] \notin GlobalSteps /\ pc[r] \in GlobalSteps
            BY <2>6 DEF DropGlobal, MoveTo, GlobalSteps, Steps, TypeOK, HandlerTypeOK
        <3>2. CASE gen[r] = g
            <4>1. r \in GlobalHolders(g) /\ GlobalHolders(g)' = GlobalHolders(g) \ {r}
                BY <3>1, <3>2, <2>2, <1>3
            <4>2. Cardinality(GlobalHolders(g)') = Cardinality(GlobalHolders(g)) - 1
                BY <4>1, <2>3, FS_RemoveElement
            <4>3. globalHeld'[g] = globalHeld[g] - 1
                BY <3>2, <2>1, <2>6 DEF DropGlobal
            <4>4. QED
                BY <4>2, <4>3, <2>1
        <3>3. CASE gen[r] # g
            BY <3>3, <2>1, <2>2, <2>6 DEF DropGlobal
        <3>4. QED
            BY <3>2, <3>3
    <2>7. QED
        BY <2>4, <2>5, <2>6, HandlerKinds
<1>7. \A g \in Generations, k \in Keys : keyHeld'[g][k] = Cardinality(KeyHolders(g, k)')
    <2> SUFFICES ASSUME NEW g \in Generations, NEW k \in Keys
                 PROVE  keyHeld'[g][k] = Cardinality(KeyHolders(g, k)')
        OBVIOUS
    <2>1. keyHeld[g][k] = Cardinality(KeyHolders(g, k)) /\ keyHeld \in [Generations -> [Keys -> Nat]]
        BY DEF SlotsBalanced, TypeOK, LimitTypeOK
    <2>2. KeyHolders(g, k)' = IF gen[r] # g \/ KeyOf(r) # k THEN KeyHolders(g, k)
                              ELSE IF pc'[r] \in KeySteps THEN KeyHolders(g, k) \cup {r}
                              ELSE KeyHolders(g, k) \ {r}
        BY <1>1, KeyHoldersStep
    <2>3. IsFiniteSet(KeyHolders(g, k)) /\ Cardinality(KeyHolders(g, k)) \in Nat
        BY HoldersFinite
    <2>4. CASE Stay(r) \/ TakeGlobal(r) \/ DropGlobal(r)
        <3>1. (pc'[r] \in KeySteps) = (pc[r] \in KeySteps) /\ keyHeld' = keyHeld
            BY <2>4 DEF Stay, TakeGlobal, DropGlobal, MoveTo, KeySteps, limitVars, TypeOK, HandlerTypeOK
        <3>2. KeyHolders(g, k)' = KeyHolders(g, k)
            BY <3>1, <2>2, <1>3
        <3>3. QED
            BY <3>1, <3>2, <2>1
    <2>5. CASE TakeKey(r)
        <3>1. pc'[r] \in KeySteps /\ pc[r] \notin KeySteps
            BY <2>5 DEF TakeKey, MoveTo, KeySteps, TypeOK, HandlerTypeOK
        <3>2. CASE gen[r] = g /\ KeyOf(r) = k
            <4>1. r \notin KeyHolders(g, k) /\ KeyHolders(g, k)' = KeyHolders(g, k) \cup {r}
                BY <3>1, <3>2, <2>2, <1>3
            <4>2. Cardinality(KeyHolders(g, k)') = Cardinality(KeyHolders(g, k)) + 1
                BY <4>1, <2>3, FS_AddElement
            <4>3. keyHeld'[g][k] = keyHeld[g][k] + 1
                BY <3>2, <2>1, <2>5 DEF TakeKey
            <4>4. QED
                BY <4>2, <4>3, <2>1
        <3>3. CASE ~(gen[r] = g /\ KeyOf(r) = k)
            BY <3>3, <2>1, <2>2, <2>5 DEF TakeKey
        <3>4. QED
            BY <3>2, <3>3
    <2>6. CASE DropKey(r)
        <3>1. pc'[r] \notin KeySteps /\ pc[r] \in KeySteps
            BY <2>6 DEF DropKey, MoveTo, KeySteps, TypeOK, HandlerTypeOK
        <3>2. CASE gen[r] = g /\ KeyOf(r) = k
            <4>1. r \in KeyHolders(g, k) /\ KeyHolders(g, k)' = KeyHolders(g, k) \ {r}
                BY <3>1, <3>2, <2>2, <1>3
            <4>2. Cardinality(KeyHolders(g, k)') = Cardinality(KeyHolders(g, k)) - 1
                BY <4>1, <2>3, FS_RemoveElement
            <4>3. keyHeld'[g][k] = keyHeld[g][k] - 1
                BY <3>2, <2>1, <2>6 DEF DropKey
            <4>4. QED
                BY <4>2, <4>3, <2>1
        <3>3. CASE ~(gen[r] = g /\ KeyOf(r) = k)
            BY <3>3, <2>1, <2>2, <2>6 DEF DropKey
        <3>4. QED
            BY <3>2, <3>3
    <2>7. QED
        BY <2>4, <2>5, <2>6, HandlerKinds
<1>8. /\ globalHeld' \in [Generations -> Nat]
      /\ keyHeld' \in [Generations -> [Keys -> Nat]]
    <2>1. globalHeld' = [g \in Generations |-> globalHeld'[g]]
        <3>1. CASE Stay(r) \/ TakeKey(r) \/ DropKey(r)
            BY <3>1 DEF Stay, TakeKey, DropKey, limitVars, TypeOK, LimitTypeOK
        <3>2. CASE TakeGlobal(r)
            BY <3>2 DEF TakeGlobal, TypeOK, LimitTypeOK
        <3>3. CASE DropGlobal(r)
            BY <3>3 DEF DropGlobal, TypeOK, LimitTypeOK
        <3>4. QED
            BY <3>1, <3>2, <3>3, HandlerKinds
    <2>2. keyHeld' = [g \in Generations |-> [k \in Keys |-> keyHeld'[g][k]]]
        <3>1. CASE Stay(r) \/ TakeGlobal(r) \/ DropGlobal(r)
            BY <3>1 DEF Stay, TakeGlobal, DropGlobal, limitVars, TypeOK, LimitTypeOK
        <3>2. CASE TakeKey(r)
            BY <3>2 DEF TakeKey, TypeOK, LimitTypeOK
        <3>3. CASE DropKey(r)
            BY <3>3 DEF DropKey, TypeOK, LimitTypeOK
        <3>4. QED
            BY <3>1, <3>2, <3>3, HandlerKinds
    <2>3. \A g \in Generations : Cardinality(GlobalHolders(g)') \in Nat
        <3>1. \A g \in Generations : GlobalHolders(g)' \in SUBSET Requests
            BY DEF GlobalHolders
        <3>2. QED
            BY <3>1, GatewayAssumption, FS_Subset, FS_CardinalityType
    <2>4. \A g \in Generations, k \in Keys : Cardinality(KeyHolders(g, k)') \in Nat
        <3>1. \A g \in Generations, k \in Keys : KeyHolders(g, k)' \in SUBSET Requests
            BY DEF KeyHolders
        <3>2. QED
            BY <3>1, GatewayAssumption, FS_Subset, FS_CardinalityType
    <2>5. \A g \in Generations : globalHeld'[g] \in Nat
        BY <1>6, <2>3
    <2>6. \A g \in Generations, k \in Keys : keyHeld'[g][k] \in Nat
        BY <1>7, <2>4
    <2>7. QED
        BY <2>1, <2>2, <2>5, <2>6
<1>9. \A g \in Generations : cfgOf'[g] \in Configs =>
          /\ globalHeld'[g] <= cfgOf'[g].global
          /\ \A t \in Tokens : keyHeld'[g][t] <= cfgOf'[g].perToken
          /\ \A ip \in IPs : keyHeld'[g][ip] <= cfgOf'[g].perIP
    <2> SUFFICES ASSUME NEW g \in Generations, cfgOf[g] \in Configs
                 PROVE  /\ globalHeld'[g] <= cfgOf[g].global
                        /\ \A t \in Tokens : keyHeld'[g][t] <= cfgOf[g].perToken
                        /\ \A ip \in IPs : keyHeld'[g][ip] <= cfgOf[g].perIP
        BY <1>3
    <2> DEFINE G == cfgOf[g].global
               T == cfgOf[g].perToken
               P == cfgOf[g].perIP
               L == IF Public(r) THEN cfgOf[g].perIP ELSE cfgOf[g].perToken
    <2>1. G \in Nat /\ T \in Nat /\ P \in Nat
        BY GatewayAssumption DEF Config
    <2>2. /\ globalHeld[g] <= G /\ \A t \in Tokens : keyHeld[g][t] <= T
          /\ \A ip \in IPs : keyHeld[g][ip] <= P
        BY DEF SlotsBalanced
    <2>3. globalHeld \in [Generations -> Nat] /\ keyHeld \in [Generations -> [Keys -> Nat]]
        BY DEF TypeOK, LimitTypeOK
    <2>4. Tokens \subseteq Keys /\ IPs \subseteq Keys
        BY DEF Keys
    <2>5. gen[r] = g => Cfg(r) = cfgOf[g] /\ KeyLimit(r) = L
        BY DEF Cfg, KeyLimit
    <2> HIDE DEF G, T, P, L
    <2>6. CASE Stay(r)
        BY <2>2, <2>6 DEF Stay, limitVars, G, T, P
    <2>7. CASE TakeGlobal(r)
        <3>1. gen[r] = g => globalHeld[g] < G
            BY <2>5, <2>7 DEF TakeGlobal, G
        <3>2. globalHeld'[g] <= G
            BY <3>1, <2>1, <2>2, <2>3, <2>7 DEF TakeGlobal
        <3>3. QED
            BY <3>2, <2>2, <2>7 DEF TakeGlobal, G, T, P
    <2>8. CASE DropGlobal(r)
        <3>1. globalHeld'[g] <= G
            BY <2>1, <2>2, <2>3, <2>8 DEF DropGlobal
        <3>2. QED
            BY <3>1, <2>2, <2>8 DEF DropGlobal, G, T, P
    <2>9. CASE TakeKey(r)
        <3>1. gen[r] = g => keyHeld[g][KeyOf(r)] < L
            BY <2>5, <2>9 DEF TakeKey
        <3>2. L = IF Public(r) THEN P ELSE T
            BY DEF L, P, T
        <3>3. IF Public(r) THEN KeyOf(r) \in IPs ELSE KeyOf(r) \in Tokens
            <4>1. KeyOf(r) \in Keys
                BY <1>4, <2>9 DEF TakeKey
            <4>2. inp[r].ip \in IPs
                BY GatewayAssumption DEF TypeOK, HandlerTypeOK, Request
            <4>3. TokenOf(r) \in Tokens \cup {NoToken}
                BY ResolvedToken DEF TokenOf
            <4>4. QED
                BY <4>1, <4>2, <4>3, GatewayAssumption DEF KeyOf, Keys
        <3>7. \A k \in Keys : keyHeld'[g][k] = IF gen[r] = g /\ k = KeyOf(r)
                                             THEN keyHeld[g][k] + 1 ELSE keyHeld[g][k]
            BY <2>3, <2>9 DEF TakeKey
        <3>4. ASSUME NEW t \in Tokens PROVE keyHeld'[g][t] <= T
            <4>1. gen[r] = g /\ t = KeyOf(r) => L = T
                BY <3>2, <3>3, GatewayAssumption
            <4>2. keyHeld[g][t] \in Nat /\ keyHeld[g][t] <= T /\ t \in Keys
                BY <2>2, <2>3, <2>4
            <4>3. QED
                BY <4>1, <4>2, <3>1, <3>7, <2>1
        <3>5. ASSUME NEW ip \in IPs PROVE keyHeld'[g][ip] <= P
            <4>1. gen[r] = g /\ ip = KeyOf(r) => L = P
                BY <3>2, <3>3, GatewayAssumption
            <4>2. keyHeld[g][ip] \in Nat /\ keyHeld[g][ip] <= P /\ ip \in Keys
                BY <2>2, <2>3, <2>4
            <4>3. QED
                BY <4>1, <4>2, <3>1, <3>7, <2>1
        <3>6. QED
            BY <3>4, <3>5, <2>2, <2>9 DEF TakeKey, G, T, P
    <2>10. CASE DropKey(r)
        <3>1. \A k \in Keys : keyHeld'[g][k] <= keyHeld[g][k] /\ keyHeld'[g][k] \in Int
            BY <2>3, <2>10 DEF DropKey
        <3>2. QED
            BY <3>1, <2>1, <2>2, <2>3, <2>4, <2>10 DEF DropKey, G, T, P
    <2>11. QED
        BY <2>6, <2>7, <2>8, <2>9, <2>10, HandlerKinds
<1>10. QED
    BY <1>2, <1>5, <1>6, <1>7, <1>8, <1>9 DEF Shapes, TypeOK, LimitTypeOK, SlotsBalanced

\* Arrivals, reloads and version probes leave every held slot where it is.
LEMMA RuntimeSlots ==
    ASSUME SlotInv, Shapes', UNCHANGED limitVars,
           \A r \in Requests : \/ pc'[r] \in {"idle", "loaded"} /\ pc[r] \in {"idle", "loaded"}
                               \/ /\ pc'[r] = pc[r] /\ gen'[r] = gen[r] /\ inp'[r] = inp[r]
                                  /\ cfgOf'[gen[r]] = cfgOf[gen[r]],
           \A g \in Generations : cfgOf'[g] = cfgOf[g] \/ g = nextGen + 1,
           Loaded'
    PROVE  SlotInv'
<1> USE DEF SlotInv
<1>1. \A r \in Requests :
         \/ ~HoldsGlobal(r) /\ ~HoldsGlobal(r)' /\ ~HoldsKey(r) /\ ~HoldsKey(r)'
         \/ /\ HoldsGlobal(r)' = HoldsGlobal(r) /\ HoldsKey(r)' = HoldsKey(r)
            /\ KeyOf(r)' = KeyOf(r) /\ gen'[r] = gen[r] /\ pc'[r] = pc[r]
    BY DerivedStable DEF HoldsGlobal, HoldsKey
<1>2. \A g : GlobalHolders(g)' = GlobalHolders(g) /\ \A k : KeyHolders(g, k)' = KeyHolders(g, k)
    BY <1>1 DEF GlobalHolders, KeyHolders
<1>3. Keyed'
    BY <1>1 DEF Keyed, KeySteps, HoldsKey, HoldsGlobal
<1>4. LimitTypeOK'
    BY DEF TypeOK, LimitTypeOK, limitVars
<1>5. SlotsBalanced'
    <2>1. ASSUME NEW g \in Generations
          PROVE  /\ globalHeld'[g] = Cardinality(GlobalHolders(g)')
                 /\ \A k \in Keys : keyHeld'[g][k] = Cardinality(KeyHolders(g, k)')
        BY <1>2 DEF SlotsBalanced, limitVars
    <2>2. ASSUME NEW g \in Generations, cfgOf'[g] \in Configs
          PROVE  /\ globalHeld'[g] <= cfgOf'[g].global
                 /\ \A t \in Tokens : keyHeld'[g][t] <= cfgOf'[g].perToken
                 /\ \A ip \in IPs : keyHeld'[g][ip] <= cfgOf'[g].perIP
        <3>1. CASE cfgOf'[g] = cfgOf[g]
            BY <2>2, <3>1 DEF SlotsBalanced, limitVars
        <3>2. CASE g = nextGen + 1
            <4>1. \A r \in Requests : gen[r] # g
                BY <3>2 DEF Loaded, TypeOK, RuntimeTypeOK, HandlerTypeOK, Generations
            <4>2. GlobalHolders(g) = {} /\ \A k : KeyHolders(g, k) = {}
                BY <4>1 DEF GlobalHolders, KeyHolders
            <4>3. globalHeld'[g] = 0 /\ \A k \in Keys : keyHeld'[g][k] = 0
                <5>1. Cardinality({}) = 0
                    BY FS_EmptySet
                <5>2. GlobalHolders(g)' = {} /\ \A k \in Keys : KeyHolders(g, k)' = {}
                    BY <4>2, <1>2
                <5>3. /\ Cardinality(GlobalHolders(g)') = 0
                      /\ \A k \in Keys : Cardinality(KeyHolders(g, k)') = 0
                    BY <5>1, <5>2, Zenon
                <5>4. QED
                    BY <5>3, <2>1
            <4>4. cfgOf'[g].global \in Nat /\ cfgOf'[g].perToken \in Nat /\ cfgOf'[g].perIP \in Nat
                BY <2>2, GatewayAssumption DEF Config
            <4>5. QED
                BY <4>3, <4>4 DEF Keys
        <3>3. QED
            BY <3>1, <3>2
    <2>3. QED
        BY <2>1, <2>2 DEF SlotsBalanced
<1>6. QED
    BY <1>3, <1>4, <1>5 DEF Shapes, TypeOK

\* No step of the system leaves the invariant.
LEMMA SlotStep ==
    ASSUME SlotInv, [Next]_vars
    PROVE  SlotInv'
<1>0. Shapes'
    BY NextShapes
<1> USE DEF SlotInv, TypeOK, RuntimeTypeOK, HandlerTypeOK
<1>1. CASE \E r \in Requests : Handle(r) \/ lockResource(r)
    BY <1>0, <1>1, HandlerSlots
<1>2. ASSUME NEW r \in Requests, NEW in \in Inputs, Arrive(r, in) PROVE SlotInv'
    <2>1. Loaded'
        BY <1>2 DEF Arrive, runtimeVars, Loaded
    <2>2. QED
        BY <1>0, <1>2, <2>1, RuntimeSlots DEF Arrive, runtimeVars, limitVars
<1>3. ASSUME NEW c \in Configs, Reload(c) PROVE SlotInv'
    <2>1. nextGen' = nextGen + 1 /\ nextGen' \in Generations /\ nextGen \in Nat
        BY <1>3, GatewayAssumption DEF Reload, Generations
    <2>2. \A g \in Generations : g # nextGen + 1 => cfgOf'[g] = cfgOf[g]
        BY <1>3, <2>1 DEF Reload
    <2>3. \A r \in Requests : gen[r] \in Generations /\ gen[r] # nextGen + 1
        BY <2>1 DEF Loaded, Generations
    <2>4. Loaded'
        BY <1>3, <2>1, <2>2, <2>3 DEF Reload, handlerVars, Loaded, Generations
    <2>5. QED
        BY <1>0, <1>3, <2>2, <2>3, <2>4, RuntimeSlots DEF Reload, handlerVars, limitVars
<1>4. CASE ReloadRejected
    <2>1. Loaded'
        BY <1>4 DEF ReloadRejected, handlerVars, Loaded, Generations
    <2>2. QED
        BY <1>0, <1>4, <2>1, RuntimeSlots DEF ReloadRejected, handlerVars, limitVars
<1>5. ASSUME NEW g \in Generations, detectVersion(g) PROVE SlotInv'
    <2>1. Loaded'
        BY <1>5 DEF detectVersion, handlerVars, Loaded
    <2>2. QED
        BY <1>0, <1>5, <2>1, RuntimeSlots DEF detectVersion, handlerVars, limitVars
<1>6. CASE Serve
    <2>1. Loaded'
        BY <1>6 DEF Serve, handlerVars, Loaded
    <2>2. QED
        BY <1>0, <1>6, <2>1, RuntimeSlots DEF Serve, handlerVars, limitVars
<1>7. ASSUME NEW r \in Requests, LateWrite(r) PROVE SlotInv'
    <2>1. Loaded'
        BY <1>7 DEF LateWrite, runtimeVars, Loaded
    <2>2. QED
        BY <1>0, <1>7, <2>1, RuntimeSlots DEF LateWrite, runtimeVars, limitVars
<1>8. CASE UNCHANGED vars
    <2>1. Loaded'
        BY <1>8 DEF vars, runtimeVars, handlerVars, Loaded
    <2>2. QED
        BY <1>0, <1>8, <2>1, RuntimeSlots DEF vars, runtimeVars, handlerVars, limitVars
<1>9. QED
    BY <1>1, <1>2, <1>3, <1>4, <1>5, <1>6, <1>7, <1>8 DEF Next

\* SlotInv holds initially.
LEMMA SlotInit == Init => SlotInv
<1> SUFFICES ASSUME Init PROVE SlotInv
    OBVIOUS
<1>1. 1 \in Generations
    BY GatewayAssumption DEF Generations
<1>2. TypeOK
    <2>1. RuntimeTypeOK
        <3>1. PICK c \in Configs :
                 /\ cfgOf = [g \in Generations |-> IF g = 1 THEN c ELSE NoConfig]
                 /\ versionOK = [g \in Generations |-> g = 1 /\ c.assumeVersion]
            BY DEF Init
        <3>2. cfgOf \in [Generations -> Configs \cup {NoConfig}]
            BY <3>1
        <3>3. versionOK \in [Generations -> BOOLEAN]
            BY <3>1, GatewayAssumption DEF Config
        <3>4. probes \in [Generations -> 0..2]
            BY DEF Init
        <3>5. cur = 1 /\ nextGen = 1 /\ matched = {} /\ served = FALSE
            BY DEF Init
        <3>6. cur <= nextGen
            BY <3>5
        <3>7. QED
            BY <1>1, <3>2, <3>3, <3>4, <3>5, <3>6, Zenon DEF RuntimeTypeOK
    <2>2. LimitTypeOK
        BY DEF Init, LimitTypeOK
    <2>3. HandlerTypeOK
        BY <1>1 DEF Init, HandlerTypeOK, Steps, Answers
    <2>4. QED
        BY <2>1, <2>2, <2>3, GatewayAssumption DEF Init, TypeOK
<1>3. Loaded /\ Keyed
    BY <1>1 DEF Init, Loaded, Keyed, KeySteps
<1>4. \A g : GlobalHolders(g) = {} /\ \A k : KeyHolders(g, k) = {}
    BY DEF Init, GlobalHolders, KeyHolders, HoldsGlobal, HoldsKey
<1>5. \A c \in Configs : c.global \in Nat /\ c.perToken \in Nat /\ c.perIP \in Nat
    BY GatewayAssumption DEF Config
<1>6. SlotsBalanced
    <2>1. Cardinality({}) = 0
        BY FS_EmptySet
    <2>2. \A g \in Generations : globalHeld[g] = 0 /\ \A k \in Keys : keyHeld[g][k] = 0
        BY DEF Init
    <2>3. \A g : Cardinality(GlobalHolders(g)) = 0 /\ \A k : Cardinality(KeyHolders(g, k)) = 0
        BY <1>4, <2>1, Zenon
    <2>4. QED
        BY <1>5, <2>2, <2>3 DEF SlotsBalanced, Keys
<1>7. QED
    BY <1>2, <1>3, <1>6 DEF SlotInv

\* SlotInv holds in every reachable state.
LEMMA SlotInvariance == Spec => []SlotInv
BY SlotInit, SlotStep, PTL DEF Spec

\* Type correctness for every instance: in particular no path of apiHandler,
\* across any number of reloads, releases a semaphore below zero.
THEOREM TypeCorrect == Spec => []TypeOK
<1>1. SlotInv => TypeOK
    BY DEF SlotInv
<1>2. QED
    BY <1>1, SlotInvariance, PTL

\* Slot accounting for every instance: each state's semaphores count exactly the
\* handlers inside it and stay within the sizes of its configuration.
THEOREM SlotAccounting == Spec => []SlotsBalanced
<1>1. SlotInv => SlotsBalanced
    BY DEF SlotInv
<1>2. QED
    BY <1>1, SlotInvariance, PTL

-----------------------------------------------------------------------------
(* The resource mutexes of restricted writes exclude, across any number of
   reloads. *)

\* Only a restricted write waits for, keeps or gives back a mutex.
LockUsers == \A r \in Requests : pc[r] \in {"lock", "verify", "unlock"} => RestrictedWrite(r)

\* The locked keys are exactly those of the handlers between lockResource and
\* their unlock.
LocksOwned ==
    /\ \A r \in Requests : HoldsLock(r) => lockKey(r) \in locks
    /\ \A k \in locks : \E r \in Requests : HoldsLock(r) /\ lockKey(r) = k

\* No two of them have the same key.
KeysDistinct ==
    \A q, r \in Requests : q # r /\ HoldsLock(q) /\ HoldsLock(r) => lockKey(q) # lockKey(r)

LockInv == LockUsers /\ LocksOwned /\ KeysDistinct

-----------------------------------------------------------------------------
\* The name of a route is the one the catalog matched, under any configuration.
LEMMA RouteName ==
    ASSUME NEW cfg, NEW name
    PROVE  authenticatedRoute(cfg, name).name = name
<1>1. effectiveRoute(cfg, name) \in [name : {name}, support : {effectiveRoute(cfg, name).support},
                                     scopes : {effectiveRoute(cfg, name).scopes}]
    BY DEF effectiveRoute, Catalog
<1>2. QED
    BY <1>1 DEF authenticatedRoute

\* A restricted write is a write, and never a public subscription.
LEMMA RestrictedIsWrite ==
    ASSUME NEW r
    PROVE  /\ RestrictedWrite(r) => IsWrite(inp[r]) /\ inp[r].route \in RestrictedWriteRoutes
           /\ RestrictedWrite(r) => ~Public(r)
           /\ RestrictedWrite(r) \in BOOLEAN
BY RouteName DEF RestrictedWrite, RouteOf, isRestrictedWrite, IsWrite, Enforced, Public

\* A handler step that is neither lockResource nor Unlock keeps its hold.
KeepsLock(r) ==
    /\ MoveTo(r, pc'[r])
    /\ HoldsLock(r)' = HoldsLock(r)
    /\ pc'[r] \in {"lock", "verify", "unlock"} => RestrictedWrite(r)
    /\ UNCHANGED locks

\* Every handler step but lockResource and Unlock leaves the locks alone.
LEMMA LockKinds ==
    ASSUME TypeOK, LockUsers, NEW r \in Requests, Handle(r), ~Unlock(r)
    PROVE  KeepsLock(r)
<1> USE DEF MoveTo, Advance, Reply, runtimeVars, limitVars, Steps, KeepsLock
<1>a. /\ FirstRelease(r) = IF RestrictedWrite(r) THEN "unlock" ELSE "releaseKey"
      /\ pc \in [Requests -> Steps]
    BY DEF FirstRelease, TypeOK, HandlerTypeOK
<1>b. /\ RestrictedWrite(r) => IsWrite(inp[r]) /\ ~Public(r)
      /\ RestrictedWrite(r) \in BOOLEAN
    BY RestrictedIsWrite
<1>c. pc[r] \in {"lock", "verify", "unlock"} => RestrictedWrite(r)
    BY DEF LockUsers
<1>d. ASSUME MoveTo(r, pc'[r])
      PROVE  HoldsLock(r)' = (\/ pc'[r] \in {"verify", "unlock"}
                              \/ pc'[r] \in {"preflight", "forward"} /\ RestrictedWrite(r))
    <2>1. RestrictedWrite(r)' = RestrictedWrite(r)
        BY <1>d, DerivedStable DEF MoveTo
    <2>2. QED
        BY <2>1 DEF HoldsLock
<1>e. HoldsLock(r) = (\/ pc[r] \in {"verify", "unlock"}
                      \/ pc[r] \in {"preflight", "forward"} /\ RestrictedWrite(r))
    BY DEF HoldsLock
<1> HIDE DEF KeepsLock
<1>0. ASSUME MoveTo(r, pc'[r]), UNCHANGED locks,
             (\/ pc'[r] \in {"verify", "unlock"}
              \/ pc'[r] \in {"preflight", "forward"} /\ RestrictedWrite(r))
             = (\/ pc[r] \in {"verify", "unlock"}
                \/ pc[r] \in {"preflight", "forward"} /\ RestrictedWrite(r)),
             pc'[r] \in {"lock", "verify", "unlock"} => RestrictedWrite(r)
      PROVE  KeepsLock(r)
    BY <1>0, <1>d, <1>e DEF KeepsLock
<1>1. CASE AcquireGlobal(r)
    BY <1>0, <1>a, <1>b, <1>c, <1>1 DEF AcquireGlobal
<1>2. CASE Malformed(r)
    BY <1>0, <1>a, <1>b, <1>c, <1>2 DEF Malformed
<1>3. CASE PanelAuthFacade(r)
    BY <1>0, <1>a, <1>b, <1>c, <1>3 DEF PanelAuthFacade
<1>4. CASE GuardAndAuthenticate(r)
    BY <1>0, <1>a, <1>b, <1>c, <1>4 DEF GuardAndAuthenticate
<1>5. CASE AcquireKey(r)
    BY <1>0, <1>a, <1>b, <1>c, <1>5 DEF AcquireKey
<1>6. CASE RateLimited(r)
    BY <1>0, <1>a, <1>b, <1>c, <1>6 DEF RateLimited
<1>7. CASE DecidePolicy(r)
    BY <1>0, <1>a, <1>b, <1>c, <1>7 DEF DecidePolicy
<1>8. CASE PreflightDenied(r)
    BY <1>0, <1>a, <1>b, <1>c, <1>8 DEF PreflightDenied
<1>9. CASE Preflight(r)
    BY <1>0, <1>a, <1>b, <1>c, <1>9 DEF Preflight
<1>10. CASE ForwardFails(r)
    BY <1>0, <1>a, <1>b, <1>c, <1>10 DEF ForwardFails, Commit
<1>11. CASE ForwardRefused(r)
    BY <1>0, <1>a, <1>b, <1>c, <1>11 DEF ForwardRefused
<1>12. CASE ForwardRead(r)
    BY <1>0, <1>a, <1>b, <1>c, <1>12 DEF ForwardRead
<1>13. CASE ForwardWrite(r)
    BY <1>0, <1>a, <1>b, <1>c, <1>13 DEF ForwardWrite, Commit
<1>14. CASE PostWriteVerify(r)
    BY <1>0, <1>a, <1>b, <1>c, <1>14 DEF PostWriteVerify
<1>15. CASE ReleaseKey(r)
    BY <1>0, <1>a, <1>b, <1>c, <1>15 DEF ReleaseKey
<1>16. CASE ReleaseGlobal(r)
    BY <1>0, <1>a, <1>b, <1>c, <1>16 DEF ReleaseGlobal
<1>17. QED
    BY <1>1, <1>2, <1>3, <1>4, <1>5, <1>6, <1>7, <1>8, <1>9, <1>10, <1>11, <1>12, <1>13, <1>14, <1>15, <1>16 DEF Handle

\* What every handler but the moving one holds, and every key, is as before.
LEMMA OthersKeep ==
    ASSUME TypeOK, NEW r \in Requests, MoveTo(r, pc'[r])
    PROVE  /\ \A q \in Requests : lockKey(q)' = lockKey(q) /\ RestrictedWrite(q)' = RestrictedWrite(q)
           /\ \A q \in Requests : q # r => pc'[q] = pc[q] /\ HoldsLock(q)' = HoldsLock(q)
<1>1. \A q \in Requests : lockKey(q)' = lockKey(q) /\ RestrictedWrite(q)' = RestrictedWrite(q)
    BY DerivedStable DEF MoveTo
<1>2. \A q \in Requests : q # r => pc'[q] = pc[q]
    BY OneMoves
<1>3. QED
    BY <1>1, <1>2 DEF HoldsLock

\* LockInv survives a step of a handler.
LEMMA HandlerLocks ==
    ASSUME TypeOK, LockInv, NEW r \in Requests, Handle(r) \/ lockResource(r)
    PROVE  LockInv'
<1> USE DEF LockInv
<1>0. MoveTo(r, pc'[r])
    BY HandlerKinds DEF Stay, TakeGlobal, TakeKey, DropKey, DropGlobal, MoveTo,
       TypeOK, HandlerTypeOK
<1>a. /\ \A q \in Requests : lockKey(q)' = lockKey(q) /\ RestrictedWrite(q)' = RestrictedWrite(q)
      /\ \A q \in Requests : q # r => pc'[q] = pc[q] /\ HoldsLock(q)' = HoldsLock(q)
    BY <1>0, OthersKeep
<1>1. CASE KeepsLock(r)
    <2>1. \A q \in Requests : HoldsLock(q)' = HoldsLock(q)
        BY <1>1, <1>a DEF KeepsLock
    <2>2. LockUsers'
        BY <1>1, <1>a DEF LockUsers, KeepsLock
    <2>3. LocksOwned'
        BY <1>1, <1>a, <2>1 DEF LocksOwned, KeepsLock
    <2>4. KeysDistinct'
        BY <1>a, <2>1 DEF KeysDistinct
    <2>5. QED
        BY <2>2, <2>3, <2>4
<1>2. CASE lockResource(r)
    <2>1. /\ pc'[r] = "preflight" /\ pc[r] = "lock" /\ lockKey(r) \notin locks
          /\ locks' = locks \cup {lockKey(r)}
        BY <1>2 DEF lockResource, Advance, TypeOK, HandlerTypeOK
    <2>2. RestrictedWrite(r) /\ HoldsLock(r)' /\ ~HoldsLock(r)
        BY <2>1, <1>a DEF LockUsers, HoldsLock
    <2>3. LockUsers'
        BY <2>1, <1>a DEF LockUsers
    <2>4. LocksOwned'
        BY <2>1, <2>2, <1>a DEF LocksOwned
    <2>5. \A q \in Requests : q # r /\ HoldsLock(q)' => lockKey(q) # lockKey(r)
        BY <2>1, <1>a DEF LocksOwned
    <2>6. KeysDistinct'
        BY <2>5, <1>a DEF KeysDistinct
    <2>7. QED
        BY <2>3, <2>4, <2>6
<1>3. CASE Unlock(r)
    <2>1. pc'[r] = "releaseKey" /\ pc[r] = "unlock" /\ locks' = locks \ {lockKey(r)}
        BY <1>3 DEF Unlock, TypeOK, HandlerTypeOK
    <2>2. HoldsLock(r) /\ ~HoldsLock(r)'
        BY <2>1 DEF HoldsLock
    <2>3. LockUsers'
        BY <2>1, <1>a DEF LockUsers
    <2>4. \A q \in Requests : q # r /\ HoldsLock(q) => lockKey(q) # lockKey(r)
        BY <2>2 DEF KeysDistinct
    <2>5. LocksOwned'
        BY <2>1, <2>2, <2>4, <1>a DEF LocksOwned
    <2>6. KeysDistinct'
        BY <2>2, <1>a DEF KeysDistinct
    <2>7. QED
        BY <2>3, <2>5, <2>6
<1>4. QED
    BY <1>1, <1>2, <1>3, LockKinds

\* Arrivals, reloads and version probes touch no handler that has passed its
\* first step, nor the locks.
LEMMA RuntimeLocks ==
    ASSUME LockInv, locks' = locks,
           \A r \in Requests : \/ pc'[r] \in {"idle", "loaded"} /\ pc[r] \in {"idle", "loaded"}
                               \/ /\ pc'[r] = pc[r] /\ gen'[r] = gen[r] /\ inp'[r] = inp[r]
                                  /\ cfgOf'[gen[r]] = cfgOf[gen[r]]
    PROVE  LockInv'
<1> USE DEF LockInv
<1>1. \A r \in Requests :
         \/ pc'[r] \in {"idle", "loaded"} /\ ~HoldsLock(r) /\ ~HoldsLock(r)'
         \/ /\ pc'[r] = pc[r] /\ HoldsLock(r)' = HoldsLock(r)
            /\ lockKey(r)' = lockKey(r) /\ RestrictedWrite(r)' = RestrictedWrite(r)
    <2> SUFFICES ASSUME NEW r \in Requests
                 PROVE  \/ pc'[r] \in {"idle", "loaded"} /\ ~HoldsLock(r) /\ ~HoldsLock(r)'
                        \/ /\ pc'[r] = pc[r] /\ HoldsLock(r)' = HoldsLock(r)
                           /\ lockKey(r)' = lockKey(r) /\ RestrictedWrite(r)' = RestrictedWrite(r)
        OBVIOUS
    <2>1. CASE pc'[r] \in {"idle", "loaded"} /\ pc[r] \in {"idle", "loaded"}
        BY <2>1 DEF HoldsLock
    <2>2. CASE /\ pc'[r] = pc[r] /\ gen'[r] = gen[r] /\ inp'[r] = inp[r]
               /\ cfgOf'[gen[r]] = cfgOf[gen[r]]
        BY <2>2, DerivedStable DEF HoldsLock
    <2>3. QED
        BY <2>1, <2>2
<1>2. LockUsers'
    BY <1>1 DEF LockUsers
<1>3. LocksOwned'
    BY <1>1 DEF LocksOwned
<1>4. KeysDistinct'
    BY <1>1 DEF KeysDistinct
<1>5. QED
    BY <1>2, <1>3, <1>4

\* LockInv is inductive, given the slot invariant.
LEMMA LockStep ==
    ASSUME SlotInv, LockInv, [Next]_vars
    PROVE  LockInv'
<1> USE DEF SlotInv, TypeOK, RuntimeTypeOK, HandlerTypeOK
<1>1. CASE \E r \in Requests : Handle(r) \/ lockResource(r)
    BY <1>1, HandlerLocks
<1>2. ASSUME NEW r \in Requests, NEW in \in Inputs, Arrive(r, in) PROVE LockInv'
    BY <1>2, RuntimeLocks DEF Arrive, runtimeVars
<1>3. ASSUME NEW c \in Configs, Reload(c) PROVE LockInv'
    <2>1. \A r \in Requests : gen[r] \in Generations /\ gen[r] # nextGen + 1
        BY DEF Loaded, Generations
    <2>2. \A r \in Requests : cfgOf'[gen[r]] = cfgOf[gen[r]]
        BY <1>3, <2>1 DEF Reload
    <2>3. QED
        BY <1>3, <2>2, RuntimeLocks DEF Reload, handlerVars
<1>4. CASE ReloadRejected
    BY <1>4, RuntimeLocks DEF ReloadRejected, handlerVars
<1>5. ASSUME NEW g \in Generations, detectVersion(g) PROVE LockInv'
    BY <1>5, RuntimeLocks DEF detectVersion, handlerVars
<1>6. CASE Serve
    BY <1>6, RuntimeLocks DEF Serve, handlerVars
<1>7. ASSUME NEW r \in Requests, LateWrite(r) PROVE LockInv'
    BY <1>7, RuntimeLocks DEF LateWrite, runtimeVars
<1>8. CASE UNCHANGED vars
    BY <1>8, RuntimeLocks DEF vars, runtimeVars, handlerVars
<1>9. QED
    BY <1>1, <1>2, <1>3, <1>4, <1>5, <1>6, <1>7, <1>8 DEF Next

\* LockInv holds initially.
LEMMA LockInit == Init => LockInv
BY DEF Init, LockInv, LockUsers, LocksOwned, KeysDistinct, HoldsLock

\* Two writes that name one target in the same words have one key.
LEMMA SameTargetSameKey ==
    ASSUME NEW q, NEW r, SameTarget(q, r)
    PROVE  lockKey(q) = lockKey(r)
BY DEF SameTarget, lockKey, NodeWriteRoutes

\* Mutual exclusion for every instance: between lockResource and its unlock a
\* handler is alone with its route and its target as the request words it, and
\* no mutex is left locked.
THEOREM MutualExclusion == Spec => []LockExclusive
<1>1. LockInv => LockExclusive
    BY SameTargetSameKey DEF LockInv, LocksOwned, KeysDistinct, LockExclusive
<1>2. Spec => []LockInv
    BY LockInit, LockStep, SlotInvariance, PTL DEF Spec
<1>3. QED
    BY <1>1, <1>2, PTL

-----------------------------------------------------------------------------
(* Authorisation: the decisions a handler took on its way to "forward" still
   hold when the write is applied, whatever was reloaded or probed in between. *)

\* The version is assumed, or a probe of the handler's own state matched.
VersionCleared(g) == cfgOf[g].assumeVersion \/ g \in matched

Listed(r) ==
    Policy(r).allowedUsers # {} => Allowlisted(Policy(r).allowedUsers, inp[r].user, inp[r].text)

Checked(r) == (Preflighted(r) => Listed(r)) /\ NodeActionAllowed(r) /\ validateBodyPolicy(r)

\* What is established for a handler by the step it has reached.
Cleared(r) ==
    /\ pc[r] \in {"authenticated", "metered", "lock", "preflight", "forward"} =>
          /\ VersionCleared(gen[r])
          /\ Public(r) \/ TokenOf(r) # NoToken
    /\ pc[r] \in {"lock", "preflight", "forward"} => Public(r) \/ Permitted(r)
    /\ pc[r] = "forward" => Public(r) \/ Checked(r)

AuthInv ==
    /\ \A g \in Generations : versionOK[g] => VersionCleared(g)
    /\ \A r \in Requests : Cleared(r)

-----------------------------------------------------------------------------
\* A credential resolves only to an enabled token that lists it.
LEMMA FoundCredential ==
    ASSUME NEW cfg, NEW cred, FindCredential(cfg, cred) # NoToken
    PROVE  /\ FindCredential(cfg, cred) \in Tokens
           /\ ~cfg.tokens[FindCredential(cfg, cred)].disabled
           /\ cred \in cfg.tokens[FindCredential(cfg, cred)].creds
BY DEF FindCredential

\* So does an authenticated request, raw or by a panel session.
LEMMA FoundToken ==
    ASSUME NEW cfg, NEW auth \in Auths, resolveRequestCredential(cfg, auth) # NoToken
    PROVE  LET t == resolveRequestCredential(cfg, auth)
               cred == IF auth.kind = "raw" THEN auth.id ELSE cfg.actors[auth.id]
           IN  t \in Tokens /\ ~cfg.tokens[t].disabled /\ cred \in cfg.tokens[t].creds
<1>1. CASE auth.kind = "raw"
    BY <1>1, FoundCredential DEF resolveRequestCredential
<1>2. CASE auth.kind = "panel"
    BY <1>2, FoundCredential DEF resolveRequestCredential, ResolveTelegramActorCredential
<1>3. QED
    BY <1>1, <1>2 DEF resolveRequestCredential

\* The route a write gets: its restricted form while write safety is on.
LEMMA WriteRoute ==
    ASSUME NEW cfg, NEW name \in RestrictedWriteRoutes \cup {"user.delete"}
    PROVE  LET route == authenticatedRoute(cfg, name) IN
           IF name \in RestrictedWriteRoutes /\ cfg.writes
           THEN route.support = "policy-enforced" /\ route.scopes = restrictedWriteScopes(name)
           ELSE route.support = "privileged" /\ route.scopes = {"remnawave:*"}
<1>1. Catalog(name) = [name |-> name, support |-> "privileged", scopes |-> {"remnawave:*"}]
    BY DEF Catalog, SafeReadRoutes, RestrictedWriteRoutes, UserWriteRoutes,
       UserActionRoutes, HwidWriteRoutes, NodeWriteRoutes
<1>2. name \notin SafeReadRoutes
    BY DEF SafeReadRoutes, RestrictedWriteRoutes, UserWriteRoutes,
       UserActionRoutes, HwidWriteRoutes, NodeWriteRoutes
<1>3. isRestrictedWrite(Catalog(name)) = (name \in RestrictedWriteRoutes)
    BY <1>1 DEF isRestrictedWrite
<1>4. CASE name \in RestrictedWriteRoutes /\ cfg.writes
    <2>1. effectiveRoute(cfg, name) = [Catalog(name) EXCEPT !.support = "policy-enforced",
                                         !.scopes = restrictedWriteScopes(name)]
        BY <1>2, <1>3, <1>4 DEF effectiveRoute
    <2>2. /\ effectiveRoute(cfg, name).support = "policy-enforced"
          /\ effectiveRoute(cfg, name).scopes = restrictedWriteScopes(name)
        BY <1>1, <2>1
    <2>3. QED
        BY <1>4, <2>2 DEF authenticatedRoute
<1>5. CASE ~(name \in RestrictedWriteRoutes /\ cfg.writes)
    <2>1. effectiveRoute(cfg, name) = Catalog(name)
        BY <1>2, <1>3, <1>5 DEF effectiveRoute
    <2>2. QED
        BY <1>1, <1>5, <2>1 DEF authenticatedRoute
<1>6. QED
    BY <1>4, <1>5

\* At "forward" the clearance of a handler amounts to the right to write.
LEMMA ClearedMayWrite ==
    ASSUME SlotInv, NEW r \in Requests, pc[r] = "forward", IsWrite(inp[r]), Cleared(r)
    PROVE  MayWrite(gen[r], inp[r])
<1> DEFINE name == inp[r].route
           t == TokenOf(r)
           restricted == name \in RestrictedWriteRoutes /\ Cfg(r).writes
<1>1. inp[r] \in Request /\ inp[r].auth \in Auths /\ inp[r].body \in Bodies
    BY GatewayAssumption DEF SlotInv, TypeOK, HandlerTypeOK, Request
<1>2. name \in RestrictedWriteRoutes \cup {"user.delete"}
    BY DEF IsWrite
<1>3. IF restricted
      THEN RouteOf(r).support = "policy-enforced" /\ RouteOf(r).scopes = restrictedWriteScopes(name)
      ELSE RouteOf(r).support = "privileged" /\ RouteOf(r).scopes = {"remnawave:*"}
    BY <1>2, WriteRoute DEF RouteOf
<1>4. ~Public(r) /\ Enforced(r) = restricted
    BY <1>3 DEF Public, Enforced
<1>5. t # NoToken /\ VersionCleared(gen[r]) /\ Permitted(r) /\ Checked(r)
    BY <1>4 DEF Cleared
<1>6. LET cred == IF inp[r].auth.kind = "raw" THEN inp[r].auth.id ELSE Cfg(r).actors[inp[r].auth.id]
      IN  t \in Tokens /\ ~Cfg(r).tokens[t].disabled /\ cred \in Cfg(r).tokens[t].creds
    BY <1>1, <1>5, FoundToken DEF TokenOf
<1>7. \/ {"remnawave:*", "privileged:*"} \cap Cfg(r).tokens[t].scopes # {}
      \/ /\ Cfg(r).writes /\ name \in RestrictedWriteRoutes
         /\ restrictedWriteScopes(name) \cap Cfg(r).tokens[t].scopes # {}
      \/ Cfg(r).unsafeReport /\ inp[r].auth.kind = "raw"
    BY <1>3, <1>5 DEF Permitted, Decide, Policy, hasPrivilegedScope
<1>8. restricted => RestrictedWrite(r)
    BY <1>4, RouteName DEF RestrictedWrite, isRestrictedWrite, RouteOf
<1>9. restricted =>
        /\ name \in UserWriteRoutes \ {"user.create"} /\ Policy(r).allowedUsers # {} =>
              inp[r].user \in Policy(r).allowedUsers
        /\ name \in NodeWriteRoutes =>
              \/ Policy(r).allowAllNodes
              \/ name # "post.nodes" /\ inp[r].node \in Policy(r).allowedNodes
        /\ name \in {"user.create", "user.update"} =>
              \A f \in inp[r].body.names :
                 Policy(r).constraints[f] # {} =>
                    inp[r].body.values[f] \subseteq Policy(r).constraints[f]
    <2>1. SUFFICES ASSUME restricted PROVE <1>9!2
        OBVIOUS
    <2>2. name \in UserWriteRoutes \ {"user.create"} /\ Policy(r).allowedUsers # {} =>
             inp[r].user \in Policy(r).allowedUsers
        BY <1>4, <1>5, <2>1 DEF Checked, Listed, Allowlisted, Preflighted
    <2>3. name \in NodeWriteRoutes =>
             \/ Policy(r).allowAllNodes
             \/ name # "post.nodes" /\ inp[r].node \in Policy(r).allowedNodes
        BY <1>5, <1>8, <2>1 DEF Checked, NodeActionAllowed, validateBodyPolicy, NodeWriteRoutes,
           requireAllowedUUIDOrAll, Allowlisted
    <2>4. name \in {"user.create", "user.update"} =>
             validateUserConstraints(Policy(r).constraints, inp[r].body)
        BY <1>5, <1>8, <2>1 DEF Checked, validateBodyPolicy
    <2>5. QED
        BY <2>2, <2>3, <2>4 DEF validateUserConstraints, ValidField
<1>10. Cfg(r).assumeVersion \/ gen[r] \in matched
    BY <1>5 DEF VersionCleared, Cfg
<1>11. QED
    BY <1>6, <1>7, <1>9, <1>10 DEF MayWrite, Policy, Cfg

-----------------------------------------------------------------------------
\* A decision is a function of the loaded configuration and of the request.
LEMMA DecisionsStable ==
    ASSUME NEW r, cfgOf'[gen'[r]] = cfgOf[gen[r]], inp'[r] = inp[r]
    PROVE  /\ Public(r)' = Public(r) /\ TokenOf(r)' = TokenOf(r)
           /\ Permitted(r)' = Permitted(r) /\ Checked(r)' = Checked(r)
<1>1. Cfg(r)' = Cfg(r) /\ Policy(r)' = Policy(r) /\ RestrictedWrite(r)' = RestrictedWrite(r)
    BY DerivedStable
<1>2. RouteOf(r)' = RouteOf(r) /\ TokenOf(r)' = TokenOf(r)
    BY <1>1 DEF RouteOf, TokenOf
<1>3. Enforced(r)' = Enforced(r)
    BY <1>2 DEF Enforced
<1>4. QED
    BY <1>1, <1>2, <1>3 DEF Public, Permitted, Checked, Preflighted, Listed,
       NodeActionAllowed, validateBodyPolicy

\* Who does not move, and whose state keeps its configuration, stays cleared.
LEMMA StaysCleared ==
    ASSUME NEW q, Cleared(q), pc'[q] = pc[q], gen'[q] = gen[q], inp'[q] = inp[q],
           cfgOf'[gen[q]] = cfgOf[gen[q]], VersionCleared(gen[q]) => VersionCleared(gen[q])'
    PROVE  Cleared(q)'
<1>1. /\ Public(q)' = Public(q) /\ TokenOf(q)' = TokenOf(q)
      /\ Permitted(q)' = Permitted(q) /\ Checked(q)' = Checked(q)
    BY DecisionsStable
<1>2. QED
    BY <1>1 DEF Cleared

\* A step of a handler leaves it cleared for the step it goes to.
LEMMA HandlerCleared ==
    ASSUME TypeOK, AuthInv, NEW r \in Requests, Handle(r) \/ lockResource(r)
    PROVE  Cleared(r)'
<1>a. /\ pc \in [Requests -> Steps] /\ gen[r] \in Generations /\ Cleared(r)
      /\ versionOK[gen[r]] => VersionCleared(gen[r])
      /\ FirstRelease(r) \in {"unlock", "releaseKey"}
    BY DEF TypeOK, HandlerTypeOK, AuthInv, FirstRelease
<1>0. MoveTo(r, pc'[r])
    BY HandlerKinds DEF Stay, TakeGlobal, TakeKey, DropKey, DropGlobal, MoveTo,
       TypeOK, HandlerTypeOK
<1>b. ASSUME pc'[r] \in {"authenticated", "metered", "lock", "preflight", "forward"} =>
                /\ VersionCleared(gen[r])
                /\ Public(r) \/ TokenOf(r) # NoToken,
             pc'[r] \in {"lock", "preflight", "forward"} => Public(r) \/ Permitted(r),
             pc'[r] = "forward" => Public(r) \/ Checked(r)
      PROVE  Cleared(r)'
    <2>1. /\ Public(r)' = Public(r) /\ TokenOf(r)' = TokenOf(r)
          /\ Permitted(r)' = Permitted(r) /\ Checked(r)' = Checked(r)
        BY <1>0, DecisionsStable DEF MoveTo
    <2>2. VersionCleared(gen[r]) => VersionCleared(gen[r])'
        BY <1>0 DEF VersionCleared, MoveTo
    <2>3. QED
        BY <1>b, <2>1, <2>2 DEF Cleared
<1>1. CASE AcquireGlobal(r)
    BY <1>a, <1>b, <1>1 DEF AcquireGlobal, Advance, Reply
<1>2. CASE Malformed(r)
    BY <1>a, <1>b, <1>2 DEF Malformed, Advance, Reply
<1>3. CASE PanelAuthFacade(r)
    BY <1>a, <1>b, <1>3 DEF PanelAuthFacade, Advance, Reply
<1>4. CASE GuardAndAuthenticate(r)
    BY <1>a, <1>b, <1>4 DEF GuardAndAuthenticate, Advance, Reply, Cleared
<1>5. CASE AcquireKey(r)
    BY <1>a, <1>b, <1>5 DEF AcquireKey, Advance, Reply, Cleared
<1>6. CASE RateLimited(r)
    BY <1>a, <1>b, <1>6 DEF RateLimited, Advance, Reply
<1>7. CASE DecidePolicy(r)
    BY <1>a, <1>b, <1>7 DEF DecidePolicy, Advance, Reply, Cleared
<1>8. CASE lockResource(r)
    BY <1>a, <1>b, <1>8 DEF lockResource, Advance, Reply, Cleared
<1>9. CASE PreflightDenied(r)
    BY <1>a, <1>b, <1>9 DEF PreflightDenied, Advance, Reply
<1>10. CASE Preflight(r)
    BY <1>a, <1>b, <1>10 DEF Preflight, Advance, Reply, Cleared, Checked, Listed, preflightUser
<1>11. CASE ForwardFails(r)
    BY <1>a, <1>b, <1>11 DEF ForwardFails, Commit
<1>12. CASE ForwardRefused(r)
    BY <1>a, <1>b, <1>12 DEF ForwardRefused, Advance, Reply
<1>13. CASE ForwardRead(r)
    BY <1>a, <1>b, <1>13 DEF ForwardRead, Advance, Reply
<1>14. CASE ForwardWrite(r)
    BY <1>a, <1>b, <1>14 DEF ForwardWrite, Commit
<1>15. CASE PostWriteVerify(r)
    BY <1>a, <1>b, <1>15 DEF PostWriteVerify, Advance, Reply
<1>16. CASE Unlock(r)
    BY <1>a, <1>b, <1>16 DEF Unlock
<1>17. CASE ReleaseKey(r)
    BY <1>a, <1>b, <1>17 DEF ReleaseKey, Advance, Reply
<1>18. CASE ReleaseGlobal(r)
    BY <1>a, <1>b, <1>18 DEF ReleaseGlobal, Advance, Reply
<1>19. QED
    BY <1>1, <1>2, <1>3, <1>4, <1>5, <1>6, <1>7, <1>8, <1>9, <1>10, <1>11, <1>12, <1>13, <1>14, <1>15, <1>16, <1>17, <1>18 DEF Handle

\* AuthInv is inductive, given the slot invariant.
LEMMA AuthStep ==
    ASSUME SlotInv, AuthInv, [Next]_vars
    PROVE  AuthInv'
<1> USE DEF SlotInv, TypeOK, RuntimeTypeOK, HandlerTypeOK
<1>1. ASSUME NEW r \in Requests, Handle(r) \/ lockResource(r) PROVE AuthInv'
    <2>0. MoveTo(r, pc'[r])
        BY <1>1, HandlerKinds DEF Stay, TakeGlobal, TakeKey, DropKey, DropGlobal, MoveTo
    <2>1. \A g \in Generations : VersionCleared(g)' = VersionCleared(g)
        BY <2>0 DEF VersionCleared, MoveTo
    <2>2. \A q \in Requests : q # r => Cleared(q)'
        BY <2>0, <2>1, StaysCleared DEF MoveTo, AuthInv
    <2>3. QED
        BY <1>1, <2>0, <2>1, <2>2, HandlerCleared DEF AuthInv, MoveTo
<1>2. ASSUME NEW r \in Requests, NEW in \in Inputs, Arrive(r, in) PROVE AuthInv'
    <2>1. \A g \in Generations : VersionCleared(g)' = VersionCleared(g)
        BY <1>2 DEF VersionCleared, Arrive, runtimeVars
    <2>2. \A q \in Requests : q # r => Cleared(q)'
        BY <1>2, <2>1, StaysCleared DEF Arrive, AuthInv, runtimeVars
    <2>3. Cleared(r)'
        BY <1>2 DEF Arrive, Cleared
    <2>4. QED
        BY <1>2, <2>1, <2>2, <2>3 DEF AuthInv, Arrive, runtimeVars
<1>3. ASSUME NEW c \in Configs, Reload(c) PROVE AuthInv'
    <2>1. \A r \in Requests : gen[r] \in Generations /\ gen[r] # nextGen + 1
        BY DEF Loaded, Generations
    <2>2. \A g \in Generations : g # nextGen + 1 =>
             VersionCleared(g)' = VersionCleared(g) /\ versionOK'[g] = versionOK[g]
        BY <1>3 DEF VersionCleared, Reload
    <2>3. \A r \in Requests : Cleared(r)'
        BY <1>3, <2>1, <2>2, StaysCleared DEF Reload, handlerVars, AuthInv
    <2>4. \A g \in Generations : g = nextGen + 1 /\ versionOK'[g] => VersionCleared(g)'
        BY <1>3 DEF VersionCleared, Reload
    <2>5. QED
        BY <2>2, <2>3, <2>4 DEF AuthInv
<1>4. CASE ReloadRejected
    <2>1. \A g \in Generations : VersionCleared(g)' = VersionCleared(g)
        BY <1>4 DEF VersionCleared, ReloadRejected
    <2>2. QED
        BY <1>4, <2>1, StaysCleared DEF ReloadRejected, handlerVars, AuthInv
<1>5. ASSUME NEW h \in Generations, detectVersion(h) PROVE AuthInv'
    <2>1. \A g \in Generations : VersionCleared(g) => VersionCleared(g)'
        BY <1>5 DEF VersionCleared, detectVersion
    <2>2. versionOK'[h] => VersionCleared(h)'
        BY <1>5 DEF VersionCleared, detectVersion, AuthInv
    <2>3. \A g \in Generations : g # h => versionOK'[g] = versionOK[g]
        BY <1>5 DEF detectVersion
    <2>4. \A r \in Requests : Cleared(r)'
        BY <1>5, <2>1, StaysCleared DEF detectVersion, handlerVars, AuthInv
    <2>5. QED
        BY <2>1, <2>2, <2>3, <2>4 DEF AuthInv
<1>6. CASE Serve
    <2>1. \A g \in Generations : VersionCleared(g)' = VersionCleared(g)
        BY <1>6 DEF VersionCleared, Serve
    <2>2. QED
        BY <1>6, <2>1, StaysCleared DEF Serve, handlerVars, AuthInv
<1>7. ASSUME NEW r \in Requests, LateWrite(r) PROVE AuthInv'
    <2>1. \A g \in Generations : VersionCleared(g)' = VersionCleared(g)
        BY <1>7 DEF VersionCleared, LateWrite, runtimeVars
    <2>2. QED
        BY <1>7, <2>1, StaysCleared DEF LateWrite, runtimeVars, AuthInv
<1>8. CASE UNCHANGED vars
    <2>1. \A g \in Generations : VersionCleared(g)' = VersionCleared(g)
        BY <1>8 DEF VersionCleared, vars, runtimeVars
    <2>2. QED
        BY <1>8, <2>1, StaysCleared DEF vars, runtimeVars, handlerVars, AuthInv
<1>9. QED
    BY <1>1, <1>2, <1>3, <1>4, <1>5, <1>6, <1>7, <1>8 DEF Next

\* AuthInv holds initially.
LEMMA AuthInit == Init => AuthInv
<1> SUFFICES ASSUME Init PROVE AuthInv
    OBVIOUS
<1>1. \A r \in Requests : Cleared(r)
    BY DEF Init, Cleared
<1>2. \A g \in Generations : versionOK[g] => VersionCleared(g)
    BY DEF Init, VersionCleared
<1>3. QED
    BY <1>1, <1>2 DEF AuthInv

\* A write is applied, or given up to the panel, only in the forward step of its
\* own handler.
LEMMA CommitStep ==
    ASSUME TypeOK, [Next]_vars, NEW r \in Requests,
           \/ committed'[r] /\ ~committed[r]
           \/ late'[r] # NoWrite /\ late'[r] # late[r]
    PROVE  pc[r] = "forward" /\ IsWrite(inp[r])
<1>0. /\ committed \in [Requests -> BOOLEAN]
      /\ late \in [Requests -> Inputs \cup {NoWrite}]
    BY DEF TypeOK, HandlerTypeOK
<1>1. ASSUME NEW q \in Requests, ForwardFails(q) \/ ForwardWrite(q)
      PROVE  pc[r] = "forward" /\ IsWrite(inp[r])
    BY <1>0, <1>1 DEF ForwardFails, ForwardWrite, Commit, panelVars
<1>2. ASSUME NEW q \in Requests, NEW in \in Inputs, Arrive(q, in) PROVE FALSE
    BY <1>0, <1>2 DEF Arrive, panelVars
<1>3. ASSUME NEW q \in Requests, LateWrite(q) PROVE FALSE
    BY <1>0, <1>3 DEF LateWrite
<1>4. CASE UNCHANGED <<committed, late>>
    BY <1>4
<1>5. \A q \in Requests : Handle(q) \/ lockResource(q) =>
         ForwardFails(q) \/ ForwardWrite(q) \/ UNCHANGED <<committed, late>>
    BY DEF Handle, Advance, Reply, panelVars, AcquireGlobal, Malformed, PanelAuthFacade,
       GuardAndAuthenticate, AcquireKey, RateLimited, DecidePolicy, lockResource,
       PreflightDenied, Preflight, ForwardRefused, ForwardRead, PostWriteVerify,
       Unlock, ReleaseKey, ReleaseGlobal
<1>6. QED
    BY <1>1, <1>2, <1>3, <1>4, <1>5 DEF Next, vars, handlerVars, panelVars, Reload,
       ReloadRejected, Serve, detectVersion

\* Authorisation of writes for every instance: no interleaving of handlers,
\* reloads and version probes lets a write through, in time or late, that the
\* state its handler loaded does not allow.
THEOREM AuthorisedWrites == Spec => WritesAuthorised
<1>1. Spec => [](SlotInv /\ AuthInv)
    BY AuthInit, AuthStep, SlotInvariance, PTL DEF Spec
<1>2. ASSUME SlotInv, AuthInv, [Next]_vars
      PROVE  [\A r \in Requests :
                 \/ committed'[r] /\ ~committed[r]
                 \/ late'[r] # NoWrite /\ late'[r] # late[r]
                 => MayWrite(gen[r], inp[r])]_vars
    BY <1>2, CommitStep, ClearedMayWrite DEF AuthInv, SlotInv
<1>3. QED
    BY <1>1, <1>2, PTL DEF Spec, WritesAuthorised

-----------------------------------------------------------------------------
(* The verdict on a runtime state is final once its probes are over. *)

\* A generation that was not handed out has no configuration.
Fresh == \A g \in Generations : g > nextGen => cfgOf[g] \notin Configs

\* NoConfig lacks the fields of a configuration.
LEMMA NoConfigIsNone == NoConfig \notin Configs
<1>1. \A c \in Config : DOMAIN c # {"writes"}
    BY DEF Config
<1>2. DOMAIN NoConfig = {"writes"}
    BY DEF NoConfig
<1>3. QED
    BY <1>1, <1>2, GatewayAssumption

\* Handlers, and writes applied late, leave the runtime alone.
LEMMA RuntimeKept ==
    ASSUME SlotInv, NEW r \in Requests,
           Handle(r) \/ lockResource(r) \/ LateWrite(r) \/ \E in \in Inputs : Arrive(r, in)
    PROVE  UNCHANGED <<cur, nextGen, cfgOf, versionOK, probes>>
<1>1. CASE Handle(r) \/ lockResource(r)
    BY <1>1, HandlerKinds DEF Stay, TakeGlobal, TakeKey, DropKey, DropGlobal, MoveTo, SlotInv
<1>2. CASE LateWrite(r) \/ \E in \in Inputs : Arrive(r, in)
    BY <1>2 DEF LateWrite, Arrive, runtimeVars
<1>3. QED
    BY <1>1, <1>2

\* Fresh is inductive: numbers are handed out in order.
LEMMA FreshStep ==
    ASSUME SlotInv, Fresh, [Next]_vars
    PROVE  Fresh'
<1>0. nextGen \in Generations /\ nextGen \in Nat /\ cfgOf \in [Generations -> Configs \cup {NoConfig}]
    BY GatewayAssumption DEF SlotInv, TypeOK, RuntimeTypeOK, Generations
<1>1. ASSUME NEW c \in Configs, Reload(c) PROVE Fresh'
    BY <1>0, <1>1, GatewayAssumption DEF Reload, Fresh, Generations
<1>2. CASE ReloadRejected
    BY <1>0, <1>2, GatewayAssumption DEF ReloadRejected, Fresh, Generations
<1>3. CASE UNCHANGED <<nextGen, cfgOf>>
    BY <1>3 DEF Fresh
<1>4. QED
    BY <1>1, <1>2, <1>3, RuntimeKept DEF Next, vars, runtimeVars, Serve, detectVersion

\* The verdict for every number of reloads and handlers: a probe that ends late
\* judges the state it was started for and no other, and a state is probed by
\* its reload and by the one call of Serve only.
THEOREM OneVerdict == Spec => VerdictFinal
<1>1. Init => Fresh
    BY NoConfigIsNone, GatewayAssumption DEF Init, Fresh, Generations
<1>2. Spec => [](SlotInv /\ Fresh)
    BY <1>1, FreshStep, SlotInvariance, PTL DEF Spec
<1>3. ASSUME SlotInv, Fresh, [Next]_vars
      PROVE  [\A g \in Generations :
                 cfgOf[g] \in Configs /\ probes[g] = 0 /\ (served \/ g # cur) =>
                    versionOK'[g] = versionOK[g] /\ probes'[g] = 0]_vars
    <2> SUFFICES ASSUME NEW g \in Generations, cfgOf[g] \in Configs, probes[g] = 0,
                        served \/ g # cur
                 PROVE  versionOK'[g] = versionOK[g] /\ probes'[g] = 0
        OBVIOUS
    <2>0. nextGen \in Nat
        BY <1>3, GatewayAssumption DEF SlotInv, TypeOK, RuntimeTypeOK, Generations
    <2>1. ASSUME NEW c \in Configs, Reload(c)
          PROVE  versionOK'[g] = versionOK[g] /\ probes'[g] = 0
        <3>1. g # nextGen + 1
            BY <1>3, <2>0 DEF Fresh
        <3>2. QED
            BY <1>3, <2>1, <3>1 DEF Reload, SlotInv, TypeOK, RuntimeTypeOK
    <2>2. ASSUME NEW h \in Generations, detectVersion(h)
          PROVE  versionOK'[g] = versionOK[g] /\ probes'[g] = 0
        <3>1. g # h
            BY <2>2 DEF detectVersion
        <3>2. QED
            BY <1>3, <2>2, <3>1 DEF detectVersion, SlotInv, TypeOK, RuntimeTypeOK
    <2>3. CASE Serve
        BY <1>3, <2>3 DEF Serve, SlotInv, TypeOK, RuntimeTypeOK
    <2>4. CASE UNCHANGED <<versionOK, probes>>
        BY <2>4
    <2>5. QED
        BY <1>3, <2>1, <2>2, <2>3, <2>4, RuntimeKept DEF Next, vars, runtimeVars, ReloadRejected
<1>4. QED
    BY <1>2, <1>3, PTL DEF Spec, VerdictFinal

=============================================================================
