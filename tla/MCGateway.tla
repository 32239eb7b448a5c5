----------------------------- MODULE MCGateway -----------------------------
(***************************************************************************)
(* Small instances of Gateway: two token policies, one user, one node, and *)
(* a uuid written as it is, in capitals, and with one more uuid field.     *)
(***************************************************************************)
EXTENDS Gateway, TLC

CONSTANTS u1, node1

MCUsers   == {u1}
MCNodes   == {node1}
MCValues  == {"s1", "s2", "e1", "n1"}
MCTokens  == {"narrow", "wide"}
MCCreds   == {"cn", "cw"}
MCActors  == {"actor"}
MCIPs     == {"ip"}
MCTexts   == {"plain", "capitals", "extra"}
MCExtras  == {"extra"}

RequestSymmetry == Permutations(Requests)

Free == [f \in UserFields |-> {}]

\* narrow owns the users of squad s1 with e-mail e1; wide owns both squads.
NarrowConstraints == [Free EXCEPT !["internalSquads"] = {"s1"}, !["email"] = {"e1"}]
WideConstraints   == [Free EXCEPT !["internalSquads"] = {"s1", "s2"}]

Narrow == [disabled |-> FALSE, creds |-> {"cn"},
           scopes |-> {"users:create", "users:update", "users:action", "nodes:write"},
           allowedUsers |-> {}, constraints |-> NarrowConstraints,
           allowedNodes |-> {node1}, allowAllNodes |-> FALSE]
Wide   == [Narrow EXCEPT !.creds = {"cw"}, !.constraints = WideConstraints,
                          !.allowedNodes = {}, !.allowAllNodes = TRUE]

Base == [writes |-> TRUE, publicSubs |-> FALSE, panel |-> FALSE, unsafeReport |-> FALSE,
         assumeVersion |-> TRUE, rateLimited |-> FALSE,
         global |-> 3, perToken |-> 2, perIP |-> 1,
         tokens |-> [t \in MCTokens |-> IF t = "narrow" THEN Narrow ELSE Wide],
         actors |-> [a \in MCActors |-> NoCred]]

RawAuth(cred) == [kind |-> "raw", id |-> cred]
Req(route, auth, body) ==
    [route |-> route, auth |-> auth, user |-> u1, node |-> node1, text |-> "plain",
     body |-> body, ip |-> "ip"]
Worded(text, in) == [in EXCEPT !.text = text]

Body(names, vals) == [names |-> names, values |-> vals]
Empty       == Body({}, Free)
Squad(s)    == Body({"internalSquads"}, [Free EXCEPT !["internalSquads"] = {s}])
NoEmail     == Body({"email"}, Free)
NewUser     == Body({"username", "internalSquads"},
                    [Free EXCEPT !["username"] = {"n1"}, !["internalSquads"] = {"s1"}])

Owned   == [Free EXCEPT !["internalSquads"] = {"s1"}, !["email"] = {"e1"}]

-----------------------------------------------------------------------------
\* Restricted writes of two tokens against one user under one configuration.
WriteConfigs == {Base}
WriteInputs  == {Req("user.update", RawAuth("cn"), NoEmail),
                 Worded("capitals", Req("user.update", RawAuth("cw"), Squad("s2"))),
                 Worded("extra", Req("user.update", RawAuth("cn"), Squad("s1"))),
                 Req("user.create", RawAuth("cn"), NewUser),
                 Req("user.actions.disable", RawAuth("cn"), Empty)}
WriteUsers   == {[u \in MCUsers |-> Owned], [u \in MCUsers |-> Absent]}

-----------------------------------------------------------------------------
\* Reloads between two configurations that differ in what a request may do:
\* the version is probed or assumed, write safety is on or off, a report proxy
\* or public subscriptions are on; the narrow token, reached through the panel,
\* is disabled, and the wide one, privileged, is reached instead.
Privileged == [Wide EXCEPT !.scopes = {"remnawave:*", "users:read"}]
Probed     == [Base EXCEPT !.assumeVersion = FALSE, !.rateLimited = TRUE, !.perToken = 1,
                           !.unsafeReport = TRUE, !.panel = TRUE, !.actors["actor"] = "cn"]
Closed     == [Base EXCEPT !.writes = FALSE, !.publicSubs = TRUE, !.panel = TRUE,
                           !.global = 1,
                           !.tokens["narrow"].disabled = TRUE,
                           !.tokens["wide"] = Privileged,
                           !.actors["actor"] = "cw"]

ReloadConfigs == {Probed, Closed}
PanelAuth     == [kind |-> "panel", id |-> "actor"]
ReloadInputs  == {Req("user.update", RawAuth("cn"), Squad("s1")),
                  Req("user.delete", PanelAuth, Empty),
                  Req("user.read.uuid", RawAuth("cw"), Empty),
                  Req("get.tokens", PanelAuth, Empty),
                  Req("auth.status", [kind |-> "none"], Empty),
                  Req("sub.base", [kind |-> "none"], Empty)}
ReloadUsers   == {[u \in MCUsers |-> Owned]}

\* Two routes that write to one user.
TwoRoutes == {Req("user.update", RawAuth("cn"), Squad("s1")),
              Req("user.actions.disable", RawAuth("cw"), Empty)}

\* Waiters for one mutex across a reload, and a reader.
LiveConfigs == {[Base EXCEPT !.tokens["narrow"].scopes = @ \cup {"users:read"}]}
LiveInputs  == {Req("user.update", RawAuth("cn"), Squad("s1")),
                Req("patch.nodes", RawAuth("cw"), Empty),
                Req("post.nodes.uuid.actions.disable", RawAuth("cn"), Empty),
                Req("user.read.uuid", RawAuth("cn"), Empty)}

=============================================================================
