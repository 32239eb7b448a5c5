---------------------------- MODULE WriteService ----------------------------
(***************************************************************************)
(* What the proxy promises of restricted writes, without handlers, slots,  *)
(* mutexes or generations.  A client submits a write under the             *)
(* configuration in force; the write is applied to the panel's users in    *)
(* one step, or not at all, and the client is answered.                    *)
(*                                                                         *)
(* A write to an existing user is applied only after the token was found   *)
(* to own the user.  An update is an atomic check-and-write, applied only  *)
(* to a user the token owns at that very moment, unless the user was       *)
(* changed since by another kind of write, by an update that words the     *)
(* user otherwise, or by an abandoned one.  Success is answered only for a *)
(* write that was applied and whose target the token then owns.  Of the    *)
(* other answers only 502 and denied leave it open whether the write was   *)
(* applied, and only 502 whether it still will be: once, and later.        *)
(***************************************************************************)
EXTENDS RoutePolicy

CONSTANTS Requests, Configs, Inputs, InitialUsers

VARIABLES
    users,      \* the panel's users
    config,     \* configuration in force
    op, terms,  \* per request: what was asked, and under which configuration
    state,      \* per request: "idle", "open" or "applied"
    seen,       \* per request: "no", "owned" when its token was found to own the
                \* target, "disturbed" when the target has changed since
    answer,     \* per request: what the client was last answered
    late        \* per request: an abandoned write that may still be applied

vars == <<users, config, op, terms, state, seen, answer, late>>

NoWrite == [route |-> "none"]

Refusals == {"400", "401", "denied", "429", "502", "503", "upstream"}

-----------------------------------------------------------------------------
Token(r) == resolveRequestCredential(terms[r], op[r].auth)

Policy(r) == terms[r].tokens[Token(r)]

Owns(r) ==
    /\ Policy(r).allowedUsers # {} =>
          Allowlisted(Policy(r).allowedUsers, op[r].user, op[r].text)
    /\ users[op[r].user] # Absent
    /\ OwnsUser(Policy(r).constraints, users[op[r].user])

InScope(r) ==
    /\ Token(r) # NoToken
    /\ Decide(Policy(r), effectiveRoute(terms[r], op[r].route))

ValidBody(r) == validateUserConstraints(Policy(r).constraints, op[r].body)

MayApply(r) ==
    /\ InScope(r)
    /\ op[r].text \notin Extras
    /\ op[r].route \in UserWriteRoutes \ {"user.create"} => seen[r] # "no"
    /\ CASE op[r].route = "user.create" -> ValidBody(r)
         [] op[r].route = "user.update" -> ValidBody(r) /\ (seen[r] = "owned" => Owns(r))
         [] op[r].route = "post.nodes"  -> Policy(r).allowAllNodes
         [] op[r].route \in NodeWriteRoutes \ {"post.nodes"} ->
              requireAllowedUUIDOrAll(Policy(r), op[r].node, op[r].text)
         [] OTHER -> TRUE

\* A creation needs a fresh user, other user writes an existing one.
PanelAccepts(in) ==
    in.route \in UserWriteRoutes =>
        (in.route = "user.create") = (users[in.user] = Absent)

Written(in) ==
    CASE in.route = "user.create" -> [users EXCEPT ![in.user] = CreateFrom(in.body)]
      [] in.route = "user.update" -> [users EXCEPT ![in.user] = ApplyBody(@, in.body)]
      [] OTHER -> users

\* An update in time is kept apart from the updates that word the same user
\* alike, and from nothing else.
Disturbs(in, inTime, q) ==
    /\ in.route = "user.update"
    /\ in.user = op[q].user
    /\ ~(inTime /\ op[q].route = in.route /\ op[q].text = in.text)

SeenAfter(in, inTime) ==
    [q \in Requests |->
        IF seen[q] = "owned" /\ Disturbs(in, inTime, q) THEN "disturbed" ELSE seen[q]]

Confirmed(r) ==
    CASE op[r].route = "user.create" ->
           OwnsUser(Policy(r).constraints, CreateFrom(op[r].body))
      [] op[r].route \in NodeWriteRoutes -> TRUE
      [] OTHER -> Owns(r)

-----------------------------------------------------------------------------
Submit(r, in) ==
    /\ state[r] = "idle"
    /\ state' = [state EXCEPT ![r] = "open"]
    /\ op' = [op EXCEPT ![r] = in]
    /\ terms' = [terms EXCEPT ![r] = config]
    /\ answer' = [answer EXCEPT ![r] = "none"]
    /\ UNCHANGED <<users, config, seen, late>>

Observe(r) ==
    /\ state[r] = "open"
    /\ Owns(r)
    /\ seen' = [seen EXCEPT ![r] = "owned"]
    /\ UNCHANGED <<users, config, op, terms, state, answer, late>>

Apply(r) ==
    /\ state[r] = "open"
    /\ MayApply(r)
    /\ PanelAccepts(op[r])
    /\ users' = Written(op[r])
    /\ seen' = [SeenAfter(op[r], TRUE) EXCEPT ![r] = "no"]
    /\ UNCHANGED <<config, op, terms, late>>

ApplyKnown(r) ==
    /\ Apply(r)
    /\ state' = [state EXCEPT ![r] = "applied"]
    /\ UNCHANGED answer

Close(r, a) ==
    /\ state' = [state EXCEPT ![r] = "idle"]
    /\ answer' = [answer EXCEPT ![r] = a]

\* Applied, but the panel's answer was lost.
ApplyUnknown(r) == Apply(r) /\ Close(r, "502")

\* Given up, but the panel may have it.
Abandon(r) ==
    /\ state[r] = "open"
    /\ MayApply(r)
    /\ late[r] = NoWrite
    /\ late' = [late EXCEPT ![r] = op[r]]
    /\ seen' = [seen EXCEPT ![r] = "no"]
    /\ Close(r, "502")
    /\ UNCHANGED <<users, config, op, terms>>

ApplyLate(r) ==
    /\ late[r] # NoWrite
    /\ PanelAccepts(late[r])
    /\ users' = Written(late[r])
    /\ seen' = SeenAfter(late[r], FALSE)
    /\ late' = [late EXCEPT ![r] = NoWrite]
    /\ UNCHANGED <<config, op, terms, state, answer>>

Refuse(r, a) ==
    /\ state[r] = "open"
    /\ seen' = [seen EXCEPT ![r] = "no"]
    /\ Close(r, a)
    /\ UNCHANGED <<users, config, op, terms, late>>

Confirm(r) ==
    /\ state[r] = "applied"
    /\ \/ Confirmed(r) /\ Close(r, "ok")
       \/ op[r].route \in UserWriteRoutes /\ Close(r, "denied")
    /\ UNCHANGED <<users, config, op, terms, seen, late>>

Reload(c) ==
    /\ config' = c
    /\ UNCHANGED <<users, op, terms, state, seen, answer, late>>

Init ==
    /\ users \in InitialUsers
    /\ config \in Configs
    /\ op \in [Requests -> Inputs]
    /\ terms = [r \in Requests |-> config]
    /\ state = [r \in Requests |-> "idle"]
    /\ seen = [r \in Requests |-> "no"]
    /\ answer = [r \in Requests |-> "none"]
    /\ late = [r \in Requests |-> NoWrite]

Next ==
    \/ \E r \in Requests :
          \/ \E in \in Inputs : Submit(r, in)
          \/ Observe(r) \/ ApplyKnown(r) \/ ApplyUnknown(r) \/ Confirm(r)
          \/ Abandon(r) \/ ApplyLate(r)
          \/ \E a \in Refusals : Refuse(r, a)
    \/ \E c \in Configs : Reload(c)

Spec == Init /\ [][Next]_vars

=============================================================================
