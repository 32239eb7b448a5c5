----------------------------- MODULE PanelOAuth -----------------------------
(***************************************************************************)
(* The Telegram login of the panel facade: the store of login attempts     *)
(* (panelOAuthStore), the authorize and callback handlers of               *)
(* internal/server/server.go, and the session tokens of                    *)
(* internal/auth/panel_session.go, against reloads and restarts.           *)
(*                                                                         *)
(* A handler loads the runtime state when it starts (apiHandler), and      *)
(* authorize and callback load it a second time; the steps below are cut   *)
(* at these loads, at the mutex of the store and at the exchange with      *)
(* Telegram, so that a reload can fall between any two of them.            *)
(***************************************************************************)
EXTENDS Naturals, FiniteSets

CONSTANTS Handlers,    \* handler goroutines
          Browsers,
          OAuthStates, \* random state values; every authorize draws a fresh one
          Actors,      \* Telegram actors
          Secrets,     \* session signing secrets
          Configs,     \* panel sections of configurations that pass Load
          max,         \* capacity of the store
          Skew,        \* the minute ValidatePanelSession allows for clocks
          MaxTime,     \* bound: clock
          MaxStates    \* bound: runtime states ever built

NoState == "no state"
Nothing == [uid |-> 0]

PanelConfig == [Enabled : BOOLEAN, AuthMaxAge : Nat, TokenTTL : Nat,
                realm : {"a", "b"}, actors : SUBSET Actors]

ASSUME PanelAssumption ==
    /\ max \in Nat \ {0}
    /\ Skew \in Nat /\ MaxTime \in Nat /\ MaxStates \in Nat \ {0}
    /\ Configs \subseteq PanelConfig
    /\ IsFiniteSet(OAuthStates) /\ NoState \notin OAuthStates

\* A runtime state: uid tells it from every other one, generation is the number
\* the code compares, which starts again at 1 after a restart.
RuntimeStates == [uid : 1..MaxStates, generation : 1..MaxStates, cfg : Configs]

\* by and uid only serve the properties: who asked, under which runtime state.
Attempts == [ExpiresAt : Nat, Generation : 1..MaxStates, by : Browsers, uid : 1..MaxStates]

VARIABLES
    now,
    cur, pending,    \* the state the pointer holds; the one a reload is installing
    nextGen, built,  \* the generation counter; runtime states built so far
    secret,          \* the signing secret in the environment of the process
    attempts,        \* the store: a function on the states it holds
    issued,          \* states answered to a browser
    cookie,          \* per browser: the state cookie
    pc, snap, by, sent, tok, at, attempt, \* per handler
    sessions         \* session tokens browsers were given

storeVars   == <<attempts, issued, cookie>>
runtimeVars == <<cur, pending, nextGen, built, secret>>
handlerVars == <<pc, snap, by, sent, tok, at, attempt>>
vars == <<now, storeVars, runtimeVars, handlerVars, sessions>>

-----------------------------------------------------------------------------
(* The store, each operation under its mutex. *)

Restricted(S) == [s \in S |-> attempts[s]]

pruneLocked(t) == Restricted({s \in DOMAIN attempts : t <= attempts[s].ExpiresAt})

put_Unbounded(s, a, t) ==
    attempts' = [x \in DOMAIN pruneLocked(t) \cup {s} |-> IF x = s THEN a ELSE attempts[x]]

put(s, a, t) ==
    /\ Cardinality(DOMAIN pruneLocked(t)) < max
    /\ attempts' = [x \in DOMAIN pruneLocked(t) \cup {s} |-> IF x = s THEN a ELSE attempts[x]]

putRefused(t) ==
    /\ Cardinality(DOMAIN pruneLocked(t)) >= max
    /\ attempts' = pruneLocked(t)

take_Kept(s, t) == attempts' = pruneLocked(t)

take(s, t) == attempts' = Restricted(DOMAIN pruneLocked(t) \ {s})

-----------------------------------------------------------------------------
(* Handlers. *)

Goto(h, step) ==
    /\ pc' = [pc EXCEPT ![h] = step]
    /\ UNCHANGED <<snap, by, sent, tok>>

\* The handler answers and its local values are gone.
Finish(h) ==
    /\ pc' = [pc EXCEPT ![h] = "idle"]
    /\ snap' = [snap EXCEPT ![h] = Nothing]
    /\ by' = [by EXCEPT ![h] = Nothing]
    /\ sent' = [sent EXCEPT ![h] = NoState]
    /\ tok' = [tok EXCEPT ![h] = NoState]
    /\ at' = [at EXCEPT ![h] = 0]
    /\ attempt' = [attempt EXCEPT ![h] = Nothing]

\* apiHandler loads the state; the facade takes /api/auth/ when it is enabled.
Start(h, b, step) ==
    /\ pc[h] = "idle"
    /\ cur.cfg.Enabled
    /\ pc' = [pc EXCEPT ![h] = step]
    /\ snap' = [snap EXCEPT ![h] = cur]
    /\ by' = [by EXCEPT ![h] = b]
    /\ sent' = [sent EXCEPT ![h] = cookie[b]]
    /\ UNCHANGED <<now, storeVars, runtimeVars, at, attempt, sessions>>

\* Bound: a fresh state is left for every authorize under way.
StartAuthorize(h, b) ==
    /\ Cardinality(issued) + Cardinality({g \in Handlers : pc[g] \in {"authorize", "put"}})
          < Cardinality(OAuthStates)
    /\ Start(h, b, "authorize")
    /\ UNCHANGED tok

\* The body of a callback may carry any state a browser was sent.
StartCallback(h, b, s) ==
    /\ Start(h, b, "callback")
    /\ tok' = [tok EXCEPT ![h] = s]

\* authorize draws its random values and loads the state and the clock.
AuthorizeLoad(h) ==
    /\ pc[h] = "authorize"
    /\ at' = [at EXCEPT ![h] = now]
    /\ attempt' = [attempt EXCEPT ![h] =
          [ExpiresAt |-> now + cur.cfg.AuthMaxAge, Generation |-> cur.generation,
           by |-> by[h], uid |-> cur.uid]]
    /\ Goto(h, "put")
    /\ UNCHANGED <<now, storeVars, runtimeVars, sessions>>

\* The answer sets the cookie, unless the browser has gone.
AuthorizePut(h, s) ==
    /\ pc[h] = "put"
    /\ s \notin issued
    /\ \/ /\ put(s, attempt[h], at[h])
          /\ issued' = issued \cup {s}
          /\ cookie' \in {cookie, [cookie EXCEPT ![by[h]] = s]}
       \/ /\ putRefused(at[h])
          /\ UNCHANGED <<issued, cookie>>
    /\ Finish(h)
    /\ UNCHANGED <<now, runtimeVars, sessions>>

CallbackCookie_NotCompared(h) ==
    /\ pc[h] = "callback"
    /\ at' = [at EXCEPT ![h] = now]
    /\ Goto(h, "take")
    /\ UNCHANGED attempt
    /\ UNCHANGED <<now, storeVars, runtimeVars, sessions>>

\* A body without its cookie is refused; otherwise the clock is read.
CallbackCookie(h) ==
    /\ pc[h] = "callback"
    /\ \/ /\ sent[h] # tok[h]
          /\ Finish(h)
       \/ /\ sent[h] = tok[h]
          /\ at' = [at EXCEPT ![h] = now]
          /\ Goto(h, "take")
          /\ UNCHANGED attempt
    /\ UNCHANGED <<now, storeVars, runtimeVars, sessions>>

\* Every answer from here on clears the cookie.
ClearCookie(h) == cookie' = [cookie EXCEPT ![by[h]] = NoState]

CallbackTake_OkIgnored(h) ==
    /\ pc[h] = "take"
    /\ take(tok[h], at[h])
    /\ attempt' = [attempt EXCEPT ![h] =
          IF tok[h] \in DOMAIN pruneLocked(at[h]) THEN attempts[tok[h]]
          ELSE [ExpiresAt |-> 0, Generation |-> 0, by |-> by[h], uid |-> snap[h].uid]]
    /\ Goto(h, "check")
    /\ UNCHANGED <<now, at, issued, cookie, runtimeVars, sessions>>

CallbackTake(h) ==
    /\ pc[h] = "take"
    /\ take(tok[h], at[h])
    /\ \/ /\ tok[h] \in DOMAIN pruneLocked(at[h])
          /\ attempt' = [attempt EXCEPT ![h] = attempts[tok[h]]]
          /\ Goto(h, "check")
          /\ UNCHANGED <<at, cookie>>
       \/ /\ tok[h] \notin DOMAIN pruneLocked(at[h])
          /\ Finish(h)
          /\ ClearCookie(h)
    /\ UNCHANGED <<now, issued, runtimeVars, sessions>>

\* The attempt must belong to the generation that is current now.
CallbackCheck_Skipped(h) ==
    /\ pc[h] = "check"
    /\ Goto(h, "exchange")
    /\ UNCHANGED <<now, at, attempt, storeVars, runtimeVars, sessions>>

CallbackCheck(h) ==
    /\ pc[h] = "check"
    /\ IF at[h] > attempt[h].ExpiresAt \/ attempt[h].Generation # cur.generation
       THEN Finish(h) /\ ClearCookie(h)
       ELSE Goto(h, "exchange") /\ UNCHANGED <<at, attempt, cookie>>
    /\ UNCHANGED <<now, attempts, issued, runtimeVars, sessions>>

\* IssuePanelSession, with the configuration the handler loaded at its start.
Session(h, actor) ==
    [actor |-> actor, IssuedAt |-> now, ExpiresAt |-> now + snap[h].cfg.TokenTTL,
     realm |-> snap[h].cfg.realm, secret |-> secret,
     state |-> tok[h], by |-> by[h], uid |-> snap[h].uid, attempt |-> attempt[h],
     checked |-> at[h]]

\* The exchange with Telegram ends: it fails, or it proves an actor, who gets a
\* session if the configuration maps it.
CallbackExchanged(h, actor) ==
    /\ pc[h] = "exchange"
    /\ \/ /\ actor \in snap[h].cfg.actors
          /\ sessions' = sessions \cup {Session(h, actor)}
       \/ UNCHANGED sessions
    /\ Finish(h)
    /\ ClearCookie(h)
    /\ UNCHANGED <<now, attempts, issued, runtimeVars>>

\* ValidatePanelSession under a configuration and the process's secret, then
\* the actor must still be mapped.
ValidatePanelSession_AnyLifetime(cfg, s, t) ==
    /\ cfg.Enabled /\ cfg.TokenTTL > 0
    /\ s.secret = secret
    /\ s.realm = cfg.realm
    /\ s.IssuedAt <= t + Skew
    /\ s.ExpiresAt > t

ValidatePanelSession(cfg, s, t) ==
    /\ cfg.Enabled /\ cfg.TokenTTL > 0
    /\ s.secret = secret
    /\ s.realm = cfg.realm
    /\ s.IssuedAt <= t + Skew
    /\ s.ExpiresAt > t
    /\ s.ExpiresAt - s.IssuedAt <= cfg.TokenTTL + Skew

-----------------------------------------------------------------------------
(* The runtime. *)

\* Reload builds a state and clears the store before it stores the pointer.
ReloadClear(c) ==
    /\ pending = Nothing
    /\ built < MaxStates
    /\ nextGen' = nextGen + 1
    /\ built' = built + 1
    /\ pending' = [uid |-> built', generation |-> nextGen', cfg |-> c]
    /\ attempts' = Restricted({})
    /\ UNCHANGED <<now, cur, secret, issued, cookie, handlerVars, sessions>>

ReloadStore ==
    /\ pending # Nothing
    /\ cur' = pending
    /\ pending' = Nothing
    /\ UNCHANGED <<now, nextGen, built, secret, storeVars, handlerVars, sessions>>

\* The process stops, perhaps in the middle of anything, and starts again; its
\* environment may hold another secret.
Restart(c, s) ==
    /\ built < MaxStates
    /\ built' = built + 1
    /\ nextGen' = 1
    /\ cur' = [uid |-> built', generation |-> 1, cfg |-> c]
    /\ pending' = Nothing
    /\ secret' = s
    /\ attempts' = Restricted({})
    /\ pc' = [h \in Handlers |-> "idle"]
    /\ snap' = [h \in Handlers |-> Nothing]
    /\ by' = [h \in Handlers |-> Nothing]
    /\ sent' = [h \in Handlers |-> NoState]
    /\ tok' = [h \in Handlers |-> NoState]
    /\ at' = [h \in Handlers |-> 0]
    /\ attempt' = [h \in Handlers |-> Nothing]
    /\ UNCHANGED <<now, issued, cookie, sessions>>

Tick ==
    /\ now < MaxTime
    /\ now' = now + 1
    /\ UNCHANGED <<storeVars, runtimeVars, handlerVars, sessions>>

-----------------------------------------------------------------------------
Init ==
    /\ now = 0
    /\ \E c \in Configs : cur = [uid |-> 1, generation |-> 1, cfg |-> c]
    /\ pending = Nothing
    /\ nextGen = 1
    /\ built = 1
    /\ secret \in Secrets
    /\ attempts = [s \in {} |-> Nothing]
    /\ issued = {}
    /\ cookie = [b \in Browsers |-> NoState]
    /\ pc = [h \in Handlers |-> "idle"]
    /\ snap = [h \in Handlers |-> Nothing]
    /\ by = [h \in Handlers |-> Nothing]
    /\ sent = [h \in Handlers |-> NoState]
    /\ tok = [h \in Handlers |-> NoState]
    /\ at = [h \in Handlers |-> 0]
    /\ attempt = [h \in Handlers |-> Nothing]
    /\ sessions = {}

Step(h) ==
    \/ \E b \in Browsers : StartAuthorize(h, b) \/ \E s \in issued : StartCallback(h, b, s)
    \/ AuthorizeLoad(h)
    \/ \E s \in OAuthStates : AuthorizePut(h, s)
    \/ CallbackCookie(h)
    \/ CallbackTake(h)
    \/ CallbackCheck(h)
    \/ \E actor \in Actors : CallbackExchanged(h, actor)

Next ==
    \/ \E h \in Handlers : Step(h)
    \/ \E c \in Configs : ReloadClear(c) \/ \E s \in Secrets : Restart(c, s)
    \/ ReloadStore
    \/ Tick

Spec == Init /\ [][Next]_vars

-----------------------------------------------------------------------------
(* Properties *)

Sessions == [actor : Actors, IssuedAt : Nat, ExpiresAt : Nat, realm : {"a", "b"},
             secret : Secrets, state : OAuthStates, by : Browsers, uid : 1..MaxStates,
             attempt : Attempts, checked : Nat]

\* Every variable has its type; a handler past the store holds an attempt the
\* store really had, never the zero value of a map miss.
TypeOK ==
    /\ now \in 0..MaxTime
    /\ cur \in RuntimeStates
    /\ pending \in RuntimeStates \cup {Nothing}
    /\ nextGen \in 1..MaxStates /\ built \in 1..MaxStates
    /\ secret \in Secrets
    /\ issued \subseteq OAuthStates
    /\ attempts \in [DOMAIN attempts -> Attempts] /\ DOMAIN attempts \subseteq issued
    /\ cookie \in [Browsers -> OAuthStates \cup {NoState}]
    /\ pc \in [Handlers -> {"idle", "authorize", "put", "callback", "take", "check", "exchange"}]
    /\ snap \in [Handlers -> RuntimeStates \cup {Nothing}]
    /\ by \in [Handlers -> Browsers \cup {Nothing}]
    /\ sent \in [Handlers -> OAuthStates \cup {NoState}]
    /\ tok \in [Handlers -> OAuthStates \cup {NoState}]
    /\ at \in [Handlers -> 0..MaxTime]
    /\ attempt \in [Handlers -> Attempts \cup {Nothing}]
    /\ sessions \subseteq Sessions

\* The store never grows past its capacity, whoever authorises at once.
StoreBounded == Cardinality(DOMAIN attempts) <= max

\* Who consumed a state: handlers past take, and sessions.
Consumers(s) ==
    {h \in Handlers : pc[h] \in {"check", "exchange"} /\ tok[h] = s}
    \cup {x \in sessions : x.state = s}

\* A login attempt is good for one session: callbacks racing with the same
\* state and cookie (a reloaded tab, a repeated request) share one take.
SingleUse ==
    \A s \in OAuthStates :
        /\ Cardinality(Consumers(s)) <= 1
        /\ Consumers(s) # {} => s \notin DOMAIN attempts

\* A login begins and ends under one configuration: the runtime state that
\* authorize recorded is the very one whose actors and lifetimes the session is
\* issued from, although the code only compares generations with the current
\* pointer, between two other loads of it.
OneConfiguration == \A x \in sessions : x.attempt.uid = x.uid

\* A session goes to the browser that began the login.
OwnLogin == \A x \in sessions : x.attempt.by = x.by

\* A session the proxy accepts was issued no longer ago than the accepting
\* configuration's token_ttl and a minute, also when a longer ttl was in force
\* when it was issued or a callback outlived the reload that shortened it.
SessionAge ==
    \A x \in sessions :
        ValidatePanelSession(cur.cfg, x, now) => now < x.IssuedAt + cur.cfg.TokenTTL + Skew

\* docs/deployment.md on rotating the session secret: "Existing browser sessions
\* will expire naturally", that is, not before they are due.
ExpireNaturally ==
    \A x \in sessions :
        x.ExpiresAt > now => ValidatePanelSession(cur.cfg, x, now)

=============================================================================
