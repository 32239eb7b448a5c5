---------------------------- MODULE RoutePolicy ----------------------------
(***************************************************************************)
(* The static route catalog, the route a request really gets under a       *)
(* configuration (effectiveRoute), and the scope decision (policy.Decide). *)
(* The 180-odd operations of the catalog fall into the classes below; each *)
(* is represented by the routes named here.                                *)
(***************************************************************************)
EXTENDS UserPolicy

CONSTANTS Tokens,   \* token policy ids
          Nodes,    \* node uuids
          Creds,    \* credential ids
          Actors,   \* Telegram actors of the panel facade
          Texts,    \* ways a request may write the uuid of its target
          Plain,    \* as the panel and the configuration write it
          Extras    \* in a body, together with a field the route does not take

\* The legacy singular spellings (user:write, user:action, subscription:read)
\* are accepted wherever the plural one is, and are left out.
Scopes == {"users:read", "hwid:read", "read:*", "users:create", "users:update",
           "users:write", "users:action", "hwid:write", "nodes:write",
           "subscriptions:read", "remnawave:*", "privileged:*"}

\* The user routes the server treats apart; hwid.list reads the devices of one
\* user, get.nodes is a privileged read, user.delete a privileged write without
\* a restricted form, auth.status is under /api/auth/, get.tokens is a read the
\* panel facade answers itself, sub.base is a public subscription.  The node
\* writes stand for those of hosts, config profiles, templates and squads.
UserActionRoutes == {"user.actions.disable", "user.actions.enable",
                     "user.actions.reset_traffic", "user.actions.revoke"}

HwidWriteRoutes == {"hwid.create", "hwid.delete", "hwid.delete_all"}

\* Routes that name the user in the body, by a uuid or userUuid field.
BodyTargetRoutes == {"user.update"} \cup HwidWriteRoutes

UserWriteRoutes ==
    {"user.create", "user.update"} \cup UserActionRoutes \cup HwidWriteRoutes

NodeWriteRoutes == {"post.nodes", "patch.nodes", "post.nodes.uuid.actions.disable"}

RestrictedWriteRoutes == UserWriteRoutes \cup NodeWriteRoutes

SafeReadRoutes == {"user.read.uuid", "user.list", "hwid.list", "get.nodes"}

RouteNames == RestrictedWriteRoutes \cup SafeReadRoutes
              \cup {"user.delete", "auth.status", "get.tokens", "sub.base"}

-----------------------------------------------------------------------------
\* The catalog of Remnawave 2.8.1: every operation is privileged, then the
\* overrides are applied.
Catalog(name) ==
    [name |-> name,
     support |-> IF name \in SafeReadRoutes \ {"get.nodes"} THEN "policy-enforced"
                 ELSE IF name = "sub.base" THEN "public-subscription"
                 ELSE "privileged",
     scopes |-> CASE name \in {"user.read.uuid", "user.list"} -> {"users:read"}
                  [] name = "hwid.list" -> {"hwid:read"}
                  [] name = "sub.base" -> {}
                  [] OTHER -> {"remnawave:*"}]

isRestrictedWrite(route) == route.name \in RestrictedWriteRoutes

restrictedWriteScopes(name) ==
    CASE name = "user.create"          -> {"users:create"}
      [] name = "user.update"          -> {"users:update", "users:write"}
      [] name \in UserActionRoutes     -> {"users:action", "users:write"}
      [] name \in HwidWriteRoutes      -> {"hwid:write"}
      [] name \in NodeWriteRoutes      -> {"nodes:write"}

\* cfg.writes: enable_restricted_writes and single_writer are both set.
effectiveRoute(cfg, name) ==
    LET route == Catalog(name) IN
    CASE name \in SafeReadRoutes ->
           [route EXCEPT !.support = "policy-enforced",
                         !.scopes  = @ \cup {"read:*"}]
      [] isRestrictedWrite(route) /\ cfg.writes ->
           [route EXCEPT !.support = "policy-enforced",
                         !.scopes  = restrictedWriteScopes(name)]
      [] OTHER -> route

\* With public subscriptions off, an authenticated caller gets a subscription
\* route as an ordinary scoped read.
authenticatedRoute(cfg, name) ==
    LET route == effectiveRoute(cfg, name) IN
    IF route.support = "public-subscription" /\ ~cfg.publicSubs
    THEN [route EXCEPT !.support = "policy-enforced",
                       !.scopes  = {"subscriptions:read"}]
    ELSE route

-----------------------------------------------------------------------------
hasPrivilegedScope(scopes) == scopes \cap {"remnawave:*", "privileged:*"} # {}

\* An allowlist is searched for the text of the uuid.
Allowlisted(list, uuid, text) == uuid \in list /\ text = Plain

\* A token may touch a node: any one, or one of its list.
requireAllowedUUIDOrAll(tok, node, text) ==
    tok.allowAllNodes \/ Allowlisted(tok.allowedNodes, node, text)

Decide(tok, route) ==
    /\ ~tok.disabled
    /\ CASE route.support = "privileged" -> hasPrivilegedScope(tok.scopes)
         [] route.support = "policy-enforced" ->
              \/ route.scopes \cap tok.scopes # {}
              \/ hasPrivilegedScope(tok.scopes)
         [] OTHER -> FALSE

-----------------------------------------------------------------------------
TokenPolicy == [disabled : BOOLEAN, creds : SUBSET Creds, scopes : SUBSET Scopes,
                allowedUsers : SUBSET Users, constraints : Constraints,
                allowedNodes : SUBSET Nodes, allowAllNodes : BOOLEAN]

NoToken == "no token"
NoCred  == "no credential"

\* A credential is found only under an enabled token that lists it as enabled;
\* creds holds the enabled credentials of the token.
FindCredential(cfg, cred) ==
    LET owners == {t \in Tokens : ~cfg.tokens[t].disabled /\ cred \in cfg.tokens[t].creds}
    IN  IF owners = {} THEN NoToken ELSE CHOOSE t \in owners : TRUE

\* An actor that is not mapped, or mapped to a credential that is not found,
\* resolves to no token.
ResolveTelegramActorCredential(cfg, actor) ==
    IF ~cfg.panel \/ cfg.actors[actor] = NoCred THEN NoToken
    ELSE FindCredential(cfg, cfg.actors[actor])

\* A raw token is resolved by its credential, a valid panel session by its actor;
\* a bad secret or session is like a raw credential that no token lists.
resolveRequestCredential(cfg, auth) ==
    CASE auth.kind = "raw"   -> FindCredential(cfg, auth.id)
      [] auth.kind = "panel" -> ResolveTelegramActorCredential(cfg, auth.id)
      [] OTHER               -> NoToken

\* Writable tokens are tied to some users or nodes, and a mapped actor names a
\* credential that is found: what Load refuses otherwise.
hasUserWriteScope(tok) ==
    tok.scopes \cap {"users:create", "users:update", "users:action",
                     "users:write", "hwid:write"} # {}

validateRestrictedWriteAllowlists(tok) ==
    /\ hasUserWriteScope(tok) =>
          tok.allowedUsers # {} \/ hasUserOwnershipConstraint(tok.constraints)
    /\ "nodes:write" \in tok.scopes => tok.allowAllNodes \/ tok.allowedNodes # {}

Validate(cfg) ==
    /\ \A t \in Tokens : validateRestrictedWriteAllowlists(cfg.tokens[t])
    /\ \A s, t \in Tokens :
          s # t => cfg.tokens[s].creds \cap cfg.tokens[t].creds = {}
    /\ cfg.panel =>
          \A a \in Actors : cfg.actors[a] # NoCred =>
             ResolveTelegramActorCredential(cfg, a) # NoToken

=============================================================================
