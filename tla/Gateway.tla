------------------------------ MODULE Gateway ------------------------------
(***************************************************************************)
(* The request pipeline of internal/server/server.go: handler goroutines   *)
(* (Requests) that each load one runtime state, pass the concurrency       *)
(* limits, the version guard, authentication and the scope decision, and   *)
(* then read or write users upstream, restricted writes under a mutex      *)
(* between a preflight read and a post-write verification.  A SIGHUP       *)
(* reload swaps the runtime state under them, and probes of the upstream   *)
(* panel's version decide whether a state serves.  A handler whose call to *)
(* the panel times out or is cancelled answers and unlocks; the panel may  *)
(* still apply the write later.                                            *)
(*                                                                         *)
(* A step of a handler is the code between two accesses to state another   *)
(* goroutine or the upstream can change.  What only this request can see   *)
(* (parsing, header and field checks, rate buckets) is decided inside the  *)
(* step, nondeterministically where the model keeps no data for it.        *)
(***************************************************************************)
EXTENDS RoutePolicy, Naturals, FiniteSets

CONSTANTS Requests,   \* handler goroutines
          IPs,        \* client addresses of public subscriptions
          Configs,    \* configurations that pass Load
          Inputs,     \* requests a client may send
          InitialUsers, \* users the panel may hold when the proxy starts
          MaxGen,     \* bound: generations, one per reload attempt
          MaxLate     \* bound: abandoned writes the panel may apply, at a time

Auths == [kind : {"none"}] \cup [kind : {"raw"}, id : Creds]
         \cup [kind : {"panel"}, id : Actors]

Request == [route : RouteNames, auth : Auths, user : Users, node : Nodes, text : Texts,
            body : Bodies, ip : IPs]

Config == [writes : BOOLEAN, publicSubs : BOOLEAN, panel : BOOLEAN,
           unsafeReport : BOOLEAN, assumeVersion : BOOLEAN, rateLimited : BOOLEAN,
           global : Nat \ {0}, perToken : Nat \ {0}, perIP : Nat \ {0},
           tokens : [Tokens -> TokenPolicy], actors : [Actors -> Creds \cup {NoCred}]]

ASSUME GatewayAssumption ==
    /\ IsFiniteSet(Requests)
    /\ Tokens \cap IPs = {}
    /\ NoToken \notin Tokens \cup IPs
    /\ MaxGen \in Nat \ {0}
    /\ MaxLate \in Nat
    /\ Plain \in Texts \ Extras
    /\ \A in \in Inputs : in.text \in Extras => in.route \in BodyTargetRoutes
    /\ InitialUsers \subseteq [Users -> UserRecord \cup {Absent}]
    /\ Inputs \subseteq Request
    /\ Configs \subseteq Config
    /\ \A c \in Configs : Validate(c)

Generations == 1..MaxGen
Keys        == Tokens \cup IPs

NoConfig    == [writes |-> FALSE]

NoWrite     == [route |-> "none"]

VARIABLES
    cur,        \* generation of the runtime state the atomic pointer holds
    nextGen,    \* last generation number handed out
    cfgOf,      \* configuration of each runtime state
    versionOK,  \* version guard of each runtime state
    probes,     \* version detections of each runtime state that still run
    matched,    \* states of which some detection found the expected version
    served,     \* Serve has started the listeners
    globalHeld, \* slots taken in the global semaphore of each state
    keyHeld,    \* slots taken per token and per address in each state
    locks,      \* keys of the resource mutexes that are locked
    pc, gen, inp, \* per handler: next step, loaded state, client request
    resp,       \* per handler: what the client was last answered
    committed,  \* per handler: the upstream applied the forwarded write
    disturbed,  \* per handler: its user changed behind its mutex since it was read
    users,      \* the panel's users
    late        \* per handler: a write it gave up that the panel may still apply

runtimeVars == <<cur, nextGen, cfgOf, versionOK, probes, matched, served>>
limitVars   == <<globalHeld, keyHeld>>
handlerVars == <<pc, gen, inp, resp, committed, disturbed>>
panelVars   == <<users, late>>
vars == <<runtimeVars, limitVars, locks, handlerVars, panelVars>>

Steps == {"idle", "loaded", "admitted", "authenticated", "metered", "lock",
          "preflight", "forward", "verify", "unlock", "releaseKey", "releaseGlobal"}

\* A denial may look like an empty list to a panel session; it is "denied" here.
Answers == {"none", "ok", "local", "400", "401", "denied", "429", "502", "503", "upstream"}

LockKeys == RouteNames \X (Users \cup Nodes \cup SUBSET Values) \X Texts

-----------------------------------------------------------------------------
(* What a handler derives from the state it loaded and the client request. *)

Cfg(r) == cfgOf[gen[r]]

RouteOf(r) == authenticatedRoute(Cfg(r), inp[r].route)

Enforced(r) == RouteOf(r).support = "policy-enforced"

Public(r) == RouteOf(r).support = "public-subscription"

TokenOf(r) == resolveRequestCredential(Cfg(r), inp[r].auth)

Policy(r) == Cfg(r).tokens[TokenOf(r)]

\* The key of the second semaphore: the client address of a public
\* subscription, the token id of everything else.
KeyOf(r) == IF Public(r) THEN inp[r].ip ELSE TokenOf(r)

KeyLimit(r) == IF Public(r) THEN Cfg(r).perIP ELSE Cfg(r).perToken

RestrictedWrite(r) == isRestrictedWrite(RouteOf(r)) /\ Enforced(r)

\* The mutex is keyed by the route and by text of the request: the username for
\* a creation, the user's uuid in the body, with whatever other uuid field the
\* body holds, or the path with the uuid in it.  A uuid in other letters is
\* another key.  A node in the body is not part of the path: all calls of such a
\* route share one mutex.
lockKey(r) ==
    CASE inp[r].route = "user.create" ->
           <<inp[r].route, CreateFrom(inp[r].body)["username"], Plain>>
      [] inp[r].route = "post.nodes.uuid.actions.disable" ->
           <<inp[r].route, inp[r].node, inp[r].text>>
      [] inp[r].route \in {"post.nodes", "patch.nodes"} -> <<inp[r].route, {}, Plain>>
      [] OTHER -> <<inp[r].route, inp[r].user, inp[r].text>>

\* What preflightUser finds when the upstream answers.
OwnedBy(r, u) == users[u] # Absent /\ OwnsUser(Policy(r).constraints, users[u])

preflightUser(r) ==
    /\ Policy(r).allowedUsers # {} =>
          Allowlisted(Policy(r).allowedUsers, inp[r].user, inp[r].text)
    /\ OwnedBy(r, inp[r].user)

Preflighted(r) ==
    Enforced(r) /\ inp[r].route \in {"hwid.list"} \cup (UserWriteRoutes \ {"user.create"})

\* preflight of a node action needs no upstream read.
NodeActionAllowed(r) ==
    RestrictedWrite(r) /\ inp[r].route = "post.nodes.uuid.actions.disable" =>
        requireAllowedUUIDOrAll(Policy(r), inp[r].node, inp[r].text)

\* The body checks of a restricted write; what they say of other fields (types,
\* duplicates, traffic, description) is a 400 any checked body may get.
BodyChecked(r) ==
    RestrictedWrite(r)
    /\ inp[r].route \notin UserActionRoutes \cup {"post.nodes.uuid.actions.disable"}

validateBodyPolicy(r) ==
    RestrictedWrite(r) =>
        /\ inp[r].text \notin Extras
        /\ CASE inp[r].route \in {"user.create", "user.update"} ->
                  validateUserConstraints(Policy(r).constraints, inp[r].body)
             [] inp[r].route = "post.nodes"  -> Policy(r).allowAllNodes
             [] inp[r].route = "patch.nodes" ->
                  requireAllowedUUIDOrAll(Policy(r), inp[r].node, inp[r].text)
             [] OTHER -> TRUE

-----------------------------------------------------------------------------
(* Handler steps. *)

Advance(r, step) ==
    /\ pc' = [pc EXCEPT ![r] = step]
    /\ UNCHANGED <<gen, inp, resp, committed, disturbed>>

\* Answer the client and start running the deferred releases.
Reply(r, answer, step) ==
    /\ pc' = [pc EXCEPT ![r] = step]
    /\ resp' = [resp EXCEPT ![r] = answer]
    /\ disturbed' = [disturbed EXCEPT ![r] = FALSE]
    /\ UNCHANGED <<gen, inp, committed>>

\* The first deferred call of a handler past the token semaphore.
FirstRelease(r) == IF RestrictedWrite(r) THEN "unlock" ELSE "releaseKey"

\* A client connects; its handler loads the current runtime state.
Arrive_StateCaptured(r, in) ==
    /\ served
    /\ pc[r] = "idle"
    /\ pc' = [pc EXCEPT ![r] = "loaded"]
    /\ inp' = [inp EXCEPT ![r] = in]
    /\ resp' = [resp EXCEPT ![r] = "none"]
    /\ committed' = [committed EXCEPT ![r] = FALSE]
    /\ UNCHANGED <<runtimeVars, limitVars, locks, panelVars, gen, disturbed>>

Arrive(r, in) ==
    /\ served
    /\ pc[r] = "idle"
    /\ pc' = [pc EXCEPT ![r] = "loaded"]
    /\ gen' = [gen EXCEPT ![r] = cur]
    /\ inp' = [inp EXCEPT ![r] = in]
    /\ resp' = [resp EXCEPT ![r] = "none"]
    /\ committed' = [committed EXCEPT ![r] = FALSE]
    /\ UNCHANGED <<runtimeVars, limitVars, locks, panelVars, disturbed>>

AcquireGlobal(r) ==
    /\ pc[r] = "loaded"
    /\ \/ /\ globalHeld[gen[r]] < Cfg(r).global
          /\ globalHeld' = [globalHeld EXCEPT ![gen[r]] = @ + 1]
          /\ Advance(r, "admitted")
       \/ /\ globalHeld[gen[r]] >= Cfg(r).global
          /\ Reply(r, "429", "idle")
          /\ UNCHANGED globalHeld
    /\ UNCHANGED <<runtimeVars, keyHeld, locks, panelVars>>

\* Path, route, query, body size or subscription checks refuse the request.
Malformed(r) ==
    /\ pc[r] = "admitted"
    /\ Reply(r, "400", "releaseGlobal")
    /\ UNCHANGED <<runtimeVars, limitVars, locks, panelVars>>

AuthFacade(r) == Cfg(r).panel /\ inp[r].route = "auth.status"

\* /api/auth/ is answered by the panel facade, before the version guard.
PanelAuthFacade(r) ==
    /\ pc[r] = "admitted"
    /\ AuthFacade(r)
    /\ Reply(r, "local", "releaseGlobal")
    /\ UNCHANGED <<runtimeVars, limitVars, locks, panelVars>>

\* 403 for a session whose actor is not mapped any more and for a subscription
\* asked for anonymously, 401 for the rest.
AuthError(r) ==
    IF \/ inp[r].auth.kind = "panel" /\ Cfg(r).panel
       \/ inp[r].auth.kind = "none" /\ inp[r].route = "sub.base"
    THEN "denied" ELSE "401"

\* The version guard, then the public subscription branch or authentication.
GuardAndAuthenticate(r) ==
    /\ pc[r] = "admitted"
    /\ ~AuthFacade(r)
    /\ \/ /\ ~versionOK[gen[r]]
          /\ Reply(r, "503", "releaseGlobal")
       \/ /\ versionOK[gen[r]]
          /\ Public(r) \/ TokenOf(r) # NoToken
          /\ Advance(r, "authenticated")
       \/ /\ versionOK[gen[r]]
          /\ ~Public(r)
          /\ TokenOf(r) = NoToken
          /\ Reply(r, AuthError(r), "releaseGlobal")
    /\ UNCHANGED <<runtimeVars, limitVars, locks, panelVars>>

AcquireKey(r) ==
    /\ pc[r] = "authenticated"
    /\ \/ /\ keyHeld[gen[r]][KeyOf(r)] < KeyLimit(r)
          /\ keyHeld' = [keyHeld EXCEPT ![gen[r]][KeyOf(r)] = @ + 1]
          /\ Advance(r, "metered")
       \/ /\ keyHeld[gen[r]][KeyOf(r)] >= KeyLimit(r)
          /\ Reply(r, "429", "releaseGlobal")
          /\ UNCHANGED keyHeld
    /\ UNCHANGED <<runtimeVars, globalHeld, locks, panelVars>>

RateLimited(r) ==
    /\ pc[r] = "metered"
    /\ Cfg(r).rateLimited
    /\ Reply(r, "429", "releaseKey")
    /\ UNCHANGED <<runtimeVars, limitVars, locks, panelVars>>

\* The unsafe report proxy lets a denied raw token through, never a panel
\* session.
Permitted(r) ==
    \/ Decide(Policy(r), RouteOf(r))
    \/ Cfg(r).unsafeReport /\ inp[r].auth.kind = "raw"

\* The panel facade answers some reads of a permitted session itself.
PanelReadFacade(r) == inp[r].route = "get.tokens" /\ inp[r].auth.kind = "panel"

\* The scope decision.
DecidePolicy(r) ==
    /\ pc[r] = "metered"
    /\ \/ /\ Public(r)
          /\ Advance(r, "forward")
       \/ /\ ~Public(r)
          /\ ~Permitted(r)
          /\ Reply(r, "denied", "releaseKey")
       \/ /\ ~Public(r)
          /\ Permitted(r)
          /\ PanelReadFacade(r)
          /\ Reply(r, "local", "releaseKey")
       \/ /\ ~Public(r)
          /\ Permitted(r)
          /\ ~PanelReadFacade(r)
          /\ Advance(r, IF RestrictedWrite(r) THEN "lock" ELSE "preflight")
    /\ UNCHANGED <<runtimeVars, limitVars, locks, panelVars>>

\* lockResource blocks until the mutex is free; a handler holds one at most.
lockResource_NewMutex(r) ==
    /\ pc[r] = "lock"
    /\ locks' = locks \cup {lockKey(r)}
    /\ Advance(r, "preflight")
    /\ UNCHANGED <<runtimeVars, limitVars, panelVars>>

lockResource(r) ==
    /\ pc[r] = "lock"
    /\ lockKey(r) \notin locks
    /\ locks' = locks \cup {lockKey(r)}
    /\ Advance(r, "preflight")
    /\ UNCHANGED <<runtimeVars, limitVars, panelVars>>

\* Preflight of the target user, then the body checks; the preflight read may
\* also fail on its way.
PreflightDenied(r) ==
    /\ pc[r] = "preflight"
    /\ Preflighted(r) \/ ~NodeActionAllowed(r)
    /\ Reply(r, "denied", FirstRelease(r))
    /\ UNCHANGED <<runtimeVars, limitVars, locks, panelVars>>

Preflight(r) ==
    /\ pc[r] = "preflight"
    /\ Preflighted(r) => preflightUser(r)
    /\ NodeActionAllowed(r)
    /\ \/ /\ validateBodyPolicy(r)
          /\ Advance(r, "forward")
       \/ /\ BodyChecked(r)
          /\ Reply(r, "400", FirstRelease(r))
    /\ UNCHANGED <<runtimeVars, limitVars, locks, panelVars>>

\* The panel's own rules: a creation needs a fresh user, every other request
\* about a user an existing one.
Applicable(in) ==
    in.route \notin NodeWriteRoutes =>
        (in.route = "user.create") = (users[in.user] = Absent)

Effect(in) ==
    CASE in.route = "user.create" -> [users EXCEPT ![in.user] = CreateFrom(in.body)]
      [] in.route = "user.update" -> [users EXCEPT ![in.user] = ApplyBody(@, in.body)]
      [] in.route = "user.delete" -> [users EXCEPT ![in.user] = Absent]
      [] OTHER -> users

IsWrite(in) == in.route \in RestrictedWriteRoutes \cup {"user.delete"}

\* What a write does to handlers in the middle of theirs: it changes their user
\* and neither its route, nor its words for the user, nor the mutex are theirs.
Disturbs(in, locked, q) ==
    /\ in.route \in {"user.update", "user.delete"}
    /\ in.user = inp[q].user
    /\ ~(locked /\ in.route = inp[q].route /\ in.text = inp[q].text)

Disturbed(in, locked) ==
    {q \in Requests :
        disturbed[q] \/ (pc[q] \in {"forward", "unlock"} /\ Disturbs(in, locked, q))}

\* The panel applies the write of a handler that still waits for its answer.
Commit(r) ==
    /\ IsWrite(inp[r])
    /\ Applicable(inp[r])
    /\ users' = Effect(inp[r])
    /\ committed' = [committed EXCEPT ![r] = TRUE]
    /\ disturbed' = [q \in Requests |-> q # r /\ q \in Disturbed(inp[r], RestrictedWrite(r))]
    /\ UNCHANGED late

\* No answer.  The panel was not reached; or it applied the write and the answer
\* was cut off or too large; or the handler gave up, because no response header
\* came in time or the client went away, on a write the panel may still apply.
ForwardFails(r) ==
    /\ pc[r] = "forward"
    /\ pc' = [pc EXCEPT ![r] = FirstRelease(r)]
    /\ resp' = [resp EXCEPT ![r] = "502"]
    /\ \/ Commit(r)
       \/ /\ disturbed' = [disturbed EXCEPT ![r] = FALSE]
          /\ UNCHANGED <<panelVars, committed>>
       \/ /\ IsWrite(inp[r])
          /\ late[r] = NoWrite
          /\ Cardinality({q \in Requests : late[q] # NoWrite}) < MaxLate
          /\ late' = [late EXCEPT ![r] = inp[r]]
          /\ disturbed' = [disturbed EXCEPT ![r] = FALSE]
          /\ UNCHANGED <<users, committed>>
    /\ UNCHANGED <<runtimeVars, limitVars, locks, gen, inp>>

\* The panel applies a write whose handler has answered 502, whatever the handler
\* does by then.
LateWrite(r) ==
    /\ late[r] # NoWrite
    /\ Applicable(late[r])
    /\ users' = Effect(late[r])
    /\ late' = [late EXCEPT ![r] = NoWrite]
    /\ disturbed' = [q \in Requests |-> q \in Disturbed(late[r], FALSE)]
    /\ UNCHANGED <<runtimeVars, limitVars, locks, pc, gen, inp, resp, committed>>

\* The panel refuses: its status goes to the client unverified.
ForwardRefused(r) ==
    /\ pc[r] = "forward"
    /\ Reply(r, "upstream", FirstRelease(r))
    /\ UNCHANGED <<runtimeVars, limitVars, locks, panelVars>>

\* A read answered with success passes the response policy: a single user must
\* be owned unless the answer holds none, a list is cut down to the owned ones.
ForwardRead(r) ==
    /\ pc[r] = "forward"
    /\ ~IsWrite(inp[r])
    /\ IF /\ Enforced(r) /\ inp[r].route = "user.read.uuid"
          /\ users[inp[r].user] # Absent /\ ~OwnedBy(r, inp[r].user)
       THEN Reply(r, "denied", "releaseKey")
       ELSE Reply(r, "ok", "releaseKey")
    /\ UNCHANGED <<runtimeVars, limitVars, locks, panelVars>>

ForwardWrite(r) ==
    /\ pc[r] = "forward"
    /\ Commit(r)
    /\ pc' = [pc EXCEPT ![r] = IF RestrictedWrite(r) THEN "verify" ELSE "releaseKey"]
    /\ resp' = [resp EXCEPT ![r] = IF RestrictedWrite(r) THEN "none" ELSE "ok"]
    /\ UNCHANGED <<runtimeVars, limitVars, locks, gen, inp>>

\* postWriteVerify: a creation is judged by the user in its answer, any other
\* user write by reading the user again, a node write not at all.
Verified(r) ==
    CASE inp[r].route = "user.create" ->
           OwnsUser(Policy(r).constraints, CreateFrom(inp[r].body))
      [] inp[r].route \in NodeWriteRoutes -> TRUE
      [] OTHER -> preflightUser(r)

PostWriteVerify_Trusting(r) ==
    /\ pc[r] = "verify"
    /\ Reply(r, "ok", "unlock")
    /\ UNCHANGED <<runtimeVars, limitVars, locks, panelVars>>

PostWriteVerify(r) ==
    /\ pc[r] = "verify"
    /\ \/ Verified(r) /\ Reply(r, "ok", "unlock")
       \/ inp[r].route \notin NodeWriteRoutes /\ Reply(r, "denied", "unlock")
    /\ UNCHANGED <<runtimeVars, limitVars, locks, panelVars>>

\* The deferred calls, last registered first.
Unlock_Forgotten(r) ==
    /\ pc[r] = "unlock"
    /\ Advance(r, "releaseKey")
    /\ UNCHANGED <<runtimeVars, limitVars, locks, panelVars>>

Unlock(r) ==
    /\ pc[r] = "unlock"
    /\ locks' = locks \ {lockKey(r)}
    /\ pc' = [pc EXCEPT ![r] = "releaseKey"]
    /\ disturbed' = [disturbed EXCEPT ![r] = FALSE]
    /\ UNCHANGED <<runtimeVars, limitVars, panelVars, gen, inp, resp, committed>>

ReleaseKey_CurrentState(r) ==
    /\ pc[r] = "releaseKey"
    /\ keyHeld' = [keyHeld EXCEPT ![cur][KeyOf(r)] = @ - 1]
    /\ Advance(r, "releaseGlobal")
    /\ UNCHANGED <<runtimeVars, globalHeld, locks, panelVars>>

ReleaseKey(r) ==
    /\ pc[r] = "releaseKey"
    /\ keyHeld' = [keyHeld EXCEPT ![gen[r]][KeyOf(r)] = @ - 1]
    /\ Advance(r, "releaseGlobal")
    /\ UNCHANGED <<runtimeVars, globalHeld, locks, panelVars>>

ReleaseGlobal_CurrentState(r) ==
    /\ pc[r] = "releaseGlobal"
    /\ globalHeld' = [globalHeld EXCEPT ![cur] = @ - 1]
    /\ Advance(r, "idle")
    /\ UNCHANGED <<runtimeVars, keyHeld, locks, panelVars>>

ReleaseGlobal(r) ==
    /\ pc[r] = "releaseGlobal"
    /\ globalHeld' = [globalHeld EXCEPT ![gen[r]] = @ - 1]
    /\ Advance(r, "idle")
    /\ UNCHANGED <<runtimeVars, keyHeld, locks, panelVars>>

-----------------------------------------------------------------------------
(* The runtime: reload on SIGHUP and version detection. *)

\* Serve probes the state it finds, which a reload may have made and probed
\* already, since the signal handler is up before; then requests are accepted.
Serve ==
    /\ ~served
    /\ served' = TRUE
    /\ probes' = IF cfgOf[cur].assumeVersion THEN probes ELSE [probes EXCEPT ![cur] = @ + 1]
    /\ UNCHANGED <<cur, nextGen, cfgOf, versionOK, matched, limitVars, locks, handlerVars, panelVars>>

\* newRuntimeState hands out a generation and builds fresh limits; storing the
\* pointer and starting the detection complete the reload.
Reload_FreshLocks(c) ==
    /\ nextGen < MaxGen
    /\ nextGen' = nextGen + 1
    /\ cur' = nextGen'
    /\ cfgOf' = [cfgOf EXCEPT ![nextGen'] = c]
    /\ versionOK' = [versionOK EXCEPT ![nextGen'] = c.assumeVersion]
    /\ probes' = [probes EXCEPT ![nextGen'] = IF c.assumeVersion THEN 0 ELSE 1]
    /\ locks' = {}
    /\ UNCHANGED <<matched, served, limitVars, handlerVars, panelVars>>

Reload(c) ==
    /\ nextGen < MaxGen
    /\ nextGen' = nextGen + 1
    /\ cur' = nextGen'
    /\ cfgOf' = [cfgOf EXCEPT ![nextGen'] = c]
    /\ versionOK' = [versionOK EXCEPT ![nextGen'] = c.assumeVersion]
    /\ probes' = [probes EXCEPT ![nextGen'] = IF c.assumeVersion THEN 0 ELSE 1]
    /\ UNCHANGED <<matched, served, limitVars, locks, handlerVars, panelVars>>

\* newRuntimeState fails (a CA, certificate or key file that cannot be read):
\* the generation is spent and nothing is swapped.
ReloadRejected ==
    /\ nextGen < MaxGen
    /\ nextGen' = nextGen + 1
    /\ UNCHANGED <<cur, cfgOf, versionOK, probes, matched, served, limitVars, locks,
                   handlerVars, panelVars>>

\* A detection of one state returns: a version opens or closes the guard, a
\* failure leaves it as it is, and neither is retried.
detectVersion_CurrentState(g) ==
    /\ probes[g] > 0
    /\ probes' = [probes EXCEPT ![g] = @ - 1]
    /\ \/ UNCHANGED <<versionOK, matched>>
       \/ \E ok \in BOOLEAN :
             /\ versionOK' = [versionOK EXCEPT ![cur] = ok]
             /\ matched' = IF ok THEN matched \cup {g} ELSE matched
    /\ UNCHANGED <<cur, nextGen, cfgOf, served, limitVars, locks, handlerVars, panelVars>>

detectVersion(g) ==
    /\ probes[g] > 0
    /\ probes' = [probes EXCEPT ![g] = @ - 1]
    /\ \/ UNCHANGED <<versionOK, matched>>
       \/ \E ok \in BOOLEAN :
             /\ versionOK' = [versionOK EXCEPT ![g] = ok]
             /\ matched' = IF ok THEN matched \cup {g} ELSE matched
    /\ UNCHANGED <<cur, nextGen, cfgOf, served, limitVars, locks, handlerVars, panelVars>>

-----------------------------------------------------------------------------
Init ==
    /\ cur = 1
    /\ nextGen = 1
    /\ \E c \in Configs :
          /\ cfgOf = [g \in Generations |-> IF g = 1 THEN c ELSE NoConfig]
          /\ versionOK = [g \in Generations |-> g = 1 /\ c.assumeVersion]
    /\ probes = [g \in Generations |-> 0]
    /\ matched = {}
    /\ served = FALSE
    /\ globalHeld = [g \in Generations |-> 0]
    /\ keyHeld = [g \in Generations |-> [k \in Keys |-> 0]]
    /\ locks = {}
    /\ pc = [r \in Requests |-> "idle"]
    /\ gen = [r \in Requests |-> 1]
    /\ \E in \in Inputs : inp = [r \in Requests |-> in]
    /\ resp = [r \in Requests |-> "none"]
    /\ committed = [r \in Requests |-> FALSE]
    /\ disturbed = [r \in Requests |-> FALSE]
    /\ users \in InitialUsers
    /\ late = [r \in Requests |-> NoWrite]

Handle(r) ==
    \/ AcquireGlobal(r) \/ Malformed(r) \/ PanelAuthFacade(r)
    \/ GuardAndAuthenticate(r) \/ AcquireKey(r) \/ RateLimited(r) \/ DecidePolicy(r)
    \/ PreflightDenied(r) \/ Preflight(r)
    \/ ForwardFails(r) \/ ForwardRefused(r) \/ ForwardRead(r) \/ ForwardWrite(r)
    \/ PostWriteVerify(r) \/ Unlock(r) \/ ReleaseKey(r) \/ ReleaseGlobal(r)

Next ==
    \/ \E r \in Requests :
          Handle(r) \/ lockResource(r) \/ LateWrite(r) \/ \E in \in Inputs : Arrive(r, in)
    \/ \E c \in Configs : Reload(c)
    \/ ReloadRejected \/ Serve
    \/ \E g \in Generations : detectVersion(g)

Spec == Init /\ [][Next]_vars

\* The handler waits for the panel: preflight and verification read the target
\* user, and the request itself is forwarded.
AtUpstream(r) ==
    \/ pc[r] = "preflight" /\ Preflighted(r)
    \/ pc[r] = "forward"
    \/ pc[r] = "verify" /\ inp[r].route \notin {"user.create"} \cup NodeWriteRoutes

\* Go schedules every goroutine, so a handler that does not wait for the panel
\* runs on.  Nothing is assumed of the panel: only the response header has a
\* timeout, a body may stall for ever.  A lock waiter can be passed over, but
\* sync.Mutex hands the lock to a waiter that starves.  A version probe ends
\* after five seconds.
Fairness ==
    /\ \A r \in Requests :
          WF_vars(~AtUpstream(r) /\ Handle(r)) /\ SF_vars(lockResource(r))
    /\ \A g \in Generations : WF_vars(detectVersion(g))

FairSpec == Spec /\ Fairness

-----------------------------------------------------------------------------
(* Properties *)

RuntimeTypeOK ==
    /\ cur \in Generations
    /\ nextGen \in Generations
    /\ cur <= nextGen
    /\ cfgOf \in [Generations -> Configs \cup {NoConfig}]
    /\ versionOK \in [Generations -> BOOLEAN]
    /\ probes \in [Generations -> 0..2]
    /\ matched \subseteq Generations
    /\ served \in BOOLEAN

LimitTypeOK ==
    /\ globalHeld \in [Generations -> Nat]
    /\ keyHeld \in [Generations -> [Keys -> Nat]]

HandlerTypeOK ==
    /\ pc \in [Requests -> Steps]
    /\ gen \in [Requests -> Generations]
    /\ inp \in [Requests -> Inputs]
    /\ resp \in [Requests -> Answers]
    /\ committed \in [Requests -> BOOLEAN]
    /\ disturbed \in [Requests -> BOOLEAN]

\* Every variable has its type; in particular no semaphore of the proxy is ever
\* released below zero (Release would block the handler for ever), and no state
\* has more than two version probes running.
TypeOK ==
    /\ RuntimeTypeOK
    /\ LimitTypeOK
    /\ HandlerTypeOK
    /\ locks \subseteq LockKeys
    /\ users \in [Users -> UserRecord \cup {Absent}]
    /\ late \in [Requests -> Inputs \cup {NoWrite}]

HoldsGlobal(r) == pc[r] \notin {"idle", "loaded"}

HoldsKey(r) == pc[r] \in {"metered", "lock", "preflight", "forward", "verify",
                          "unlock", "releaseKey"}

HoldsLock(r) ==
    \/ pc[r] \in {"verify", "unlock"}
    \/ pc[r] \in {"preflight", "forward"} /\ RestrictedWrite(r)

GlobalHolders(g) == {r \in Requests : HoldsGlobal(r) /\ gen[r] = g}

KeyHolders(g, k) == {r \in Requests : HoldsKey(r) /\ gen[r] = g /\ KeyOf(r) = k}

\* Every path of apiHandler gives back exactly the slots it took: at any
\* moment the semaphores of a state hold one slot per handler that is inside,
\* under the state the handler loaded, however often the configuration was
\* reloaded in between, and never more than the configured size.
SlotsBalanced ==
    \A g \in Generations :
        /\ globalHeld[g] = Cardinality(GlobalHolders(g))
        /\ \A k \in Keys : keyHeld[g][k] = Cardinality(KeyHolders(g, k))
        /\ cfgOf[g] \in Configs =>
              /\ globalHeld[g] <= cfgOf[g].global
              /\ \A t \in Tokens : keyHeld[g][t] <= cfgOf[g].perToken
              /\ \A ip \in IPs : keyHeld[g][ip] <= cfgOf[g].perIP

\* Two restricted writes of the same route name the same thing in the same words:
\* the same username for a creation, the same user or node for everything else.
SameTarget(q, r) ==
    /\ inp[q].route = inp[r].route
    /\ CASE inp[q].route = "user.create" ->
              CreateFrom(inp[q].body)["username"] = CreateFrom(inp[r].body)["username"]
         [] inp[q].route \in NodeWriteRoutes ->
              inp[q].node = inp[r].node /\ inp[q].text = inp[r].text
         [] OTHER -> inp[q].user = inp[r].user /\ inp[q].text = inp[r].text

\* Between lockResource and its deferred unlock a handler is alone with its
\* route and its target as the request words it, whatever generations the
\* handlers run under (the lock table outlives a reload), and no mutex stays
\* locked without such a handler.  The words count: a uuid in other letters, or
\* a body with one more uuid field, gets past the mutex of the same user.
LockExclusive ==
    /\ \A k \in locks : \E r \in Requests : HoldsLock(r) /\ lockKey(r) = k
    /\ \A q, r \in Requests :
          q # r /\ HoldsLock(q) /\ HoldsLock(r) => ~SameTarget(q, r)

\* What preflight established still holds when the update is forwarded, and
\* what the verification established still holds when the client has its
\* success: the token owns the user, unless the user was changed meanwhile by a
\* write that does not come through this mutex: one that a handler gave up and
\* the panel applied late, one that names the user in other words, a deletion,
\* or a write under a configuration without write safety.
UpdateWindow ==
    \A r \in Requests :
        /\ inp[r].route = "user.update" /\ RestrictedWrite(r)
        /\ pc[r] = "forward" \/ (pc[r] = "unlock" /\ resp[r] = "ok")
        /\ ~disturbed[r]
        => preflightUser(r)

\* What the state of generation g says of a write, in terms of the policy only.
MayWrite(g, in) ==
    LET cfg == cfgOf[g]
        cred == IF in.auth.kind = "raw" THEN in.auth.id ELSE cfg.actors[in.auth.id]
    IN  /\ cfg.assumeVersion \/ g \in matched
        /\ \E t \in Tokens :
              LET tok == cfg.tokens[t] IN
              /\ ~tok.disabled /\ cred \in tok.creds
              /\ \/ {"remnawave:*", "privileged:*"} \cap tok.scopes # {}
                 \/ /\ cfg.writes /\ in.route \in RestrictedWriteRoutes
                    /\ restrictedWriteScopes(in.route) \cap tok.scopes # {}
                 \/ cfg.unsafeReport /\ in.auth.kind = "raw"
              /\ cfg.writes /\ in.route \in RestrictedWriteRoutes =>
                   /\ in.route \in UserWriteRoutes \ {"user.create"} /\ tok.allowedUsers # {} =>
                         in.user \in tok.allowedUsers
                   /\ in.route \in NodeWriteRoutes =>
                         \/ tok.allowAllNodes
                         \/ in.route # "post.nodes" /\ in.node \in tok.allowedNodes
                   /\ in.route \in {"user.create", "user.update"} =>
                         \A f \in in.body.names :
                            tok.constraints[f] # {} => in.body.values[f] \subseteq tok.constraints[f]

\* A write is applied upstream, or given up while the panel may still apply it,
\* only for a credential that is enabled in the configuration its handler loaded,
\* whose token has the privileged scope, or a scope of the route while restricted
\* writes are on, or is a raw one under the unsafe report proxy; only after a
\* version probe of that same state matched or the version is assumed; and a
\* restricted write touches only users of the allowlist, gives constrained
\* attributes only accepted values, and touches only nodes of the allowlist.
WritesAuthorised ==
    [][\A r \in Requests :
          \/ committed'[r] /\ ~committed[r]
          \/ late'[r] # NoWrite /\ late'[r] # late[r]
          => MayWrite(gen[r], inp[r])]_vars

\* A runtime state is judged by its own probes: the one of the reload that made
\* it and the one of Serve, if Serve finds it in force.  When they are over, or
\* there are none because the version is assumed, neither a reload nor the late
\* probe of another state opens or closes its guard again, and no further probe
\* starts.
VerdictFinal ==
    [][\A g \in Generations :
          cfgOf[g] \in Configs /\ probes[g] = 0 /\ (served \/ g # cur) =>
             versionOK'[g] = versionOK[g] /\ probes'[g] = 0]_vars

\* docs/policy.md: "When enabled, RemnaGuard uses per-resource in-memory locks".
\* Two restricted writes on one user would then never overlap.
PerResourceLocks ==
    \A q, r \in Requests :
        /\ q # r /\ HoldsLock(q) /\ HoldsLock(r)
        /\ {inp[q].route, inp[r].route} \subseteq UserWriteRoutes \ {"user.create"}
        => inp[q].user # inp[r].user

\* The handler waits for the panel, or for a write to the same target by the
\* same route that does; all creations and updates of nodes share one mutex.
Blocked(r) ==
    \/ AtUpstream(r)
    \/ /\ pc[r] = "lock"
       /\ \E q \in Requests :
             /\ AtUpstream(q) /\ HoldsLock(q)
             /\ inp[q].route = inp[r].route
             /\ SameTarget(q, r) \/ inp[r].route \in {"post.nodes", "patch.nodes"}

\* Every request that reaches the proxy is answered and gives everything back,
\* unless the panel never completes its answer to this request or to the one
\* that holds the same mutex: a stalled call delays no request but those that
\* write to the same target by the same route, and no mutex is left behind.
Answered == \A r \in Requests : pc[r] = "loaded" ~> (pc[r] = "idle" \/ []Blocked(r))

\* A replaced runtime state is left behind for good: from some moment on the
\* only handlers that still work under it are those the panel holds up, so a
\* policy withdrawn by a reload stops acting.
OldStatesDrain ==
    \A g \in Generations \ {MaxGen} :
        cur > g ~> [](\A r \in Requests : pc[r] # "idle" /\ gen[r] = g => Blocked(r))

=============================================================================
