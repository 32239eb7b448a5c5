# RemnaGuard in TLA+

RemnaGuard is a policy proxy in front of a Remnawave panel. It authenticates a
caller by a token or a panel session, decides by scopes and constraints what the
caller may do, forwards the request with the panel's own credentials, and checks
what comes back. This directory holds TLA+ models of the parts of it in which
concurrency, reloads, crashes and clocks matter, TLC runs that check them on
small instances, and TLAPS proofs for all instances.

Paths below are relative to `src/`; `server.go` is `internal/server/server.go`.

## 1. Inventory

| Part | State | Operations | Hard because | Correct when |
|---|---|---|---|---|
| Request pipeline (`server.go`, `apiHandler`) | none of its own: one goroutine per request with the runtime state it loaded | limits, version guard, authentication, scope decision, mutex, preflight, body checks, forward, verification, deferred releases | some twenty early returns; the panel and other handlers change users between its steps; a call that times out is over for the handler and not for the panel | every write is authorised by one configuration, every request is answered, everything taken is given back |
| Resource locks (`lockResource`, `lockKey`) | table of mutexes that outlives reloads | lock, deferred unlock | waiters hold concurrency slots; keys are built from the route and from raw text of body or path | one write per route and target, as the request words it, at a time; no lock left behind |
| Concurrency limits (`internal/ratelimit/limit.go`) | global, per token and per address semaphores, new ones for every runtime state | acquire, release | a reload swaps them under running handlers | slots held = handlers inside, within the limits |
| Rate limiter (same file) | buckets per key, new ones for every runtime state | `Allow` | the clock is read before the mutex | the rate holds in the long run |
| Runtime (`NewRuntime`, `Reload`, `detectVersion`; SIGHUP loop in `cmd/remnaguard/main.go`) | atomic pointer to the runtime state, generation counter | start, reload, rejected reload, version probe | handlers of several generations run at once; a probe may end after the next reload, and a state reloaded before the start is probed twice | a late probe opens no other state's guard; old states drain |
| Routes and scopes (`internal/routes`, `internal/policy`, `internal/config`) | static catalog; token policies | `effectiveRoute`, `Decide`, actor resolution | one route is privileged, restricted or public depending on the configuration | part of the pipeline's authorisation |
| User policy (`internal/remnawave/user.go`, body checks in `server.go`) | none | `OwnsUser`, `validateUserConstraints` | two notions of "allowed" that differ on null | part of the pipeline's authorisation |
| Panel login (`server.go` 492-816, `internal/auth/panel_session.go`) | store of login attempts, stateless signed sessions | authorize, callback, issue, validate | the runtime state is loaded three times in one login; reload and restart in between; repeated callbacks | one attempt gives one session, to the browser and under the configuration that began it |
| Deny alerts (`internal/alerts/alerts.go`) | bounded queue, buckets per key, configuration | `Notify`, `record`, `flushDue`, `flushAll`, `send`, `Update`, `Close` | two clocks; reload while a message is under way; a full queue | no denial counted twice or forgotten; cooldown kept |
| Token commands (`cmd/remnaguard/main.go` 169-471) | token files and backups on disk | add, rotate, disable, prune | a command may fail or be killed between any two file operations | files are always complete, errors are undone or can be, printed tokens work |
| Panel user list (`server.go` 957-1051, 1946-2075) | none | scan of upstream pages, filter, page again | the panel's list, with the query's filters and sorting, changes between two pages; page arithmetic in an `int` | nobody missed or repeated without need, and the page is the one asked for |
| Process (`serve` in `main.go`, `Runtime.Serve`, `Load`) | SIGHUP channel of one, two listeners, grace period | reload loop, read files, start and fail to listen, shutdown | signals during a load, files edited while they are read, handlers that never end | the last announced edit comes into force; SIGTERM ends the process and cuts no request early |
| Raw request validation, headers, TLS, digests, audit, metrics, OpenAPI check | stateless or output only | | | not modelled, see section 7 |

How they interact: `apiHandler` loads the runtime state once and calls
everything else with it; the reload replaces that state, clears the store of
login attempts and updates the alert manager; the lock table, the alert manager
and the attempt store belong to the process and outlive reloads; what `deny`
answers goes to the alert manager without waiting for it, which is every refusal
but the 429 of the global limit and the empty lists and denials that
`handlePanelPolicyDeny` gives a panel session; the token commands run in other
processes and reach the proxy only through the next load of the files.

## 2. Modules

| Module | Models | Uses |
|---|---|---|
| `UserPolicy` | constraints, ownership, body checks as operators | |
| `RoutePolicy` | catalog, effective route, scope decision, token resolution, what `Load` accepts | `UserPolicy` |
| `Gateway` | request pipeline, locks, concurrency limits, reload, version probe | `RoutePolicy` |
| `WriteService` | abstract: restricted writes as clients and panel see them | `RoutePolicy` |
| `GatewayService` | refinement mapping from `Gateway` to `WriteService` | `Gateway`, `WriteService` |
| `MCGateway`, `MCGatewayWrites` | constants of the Gateway runs | `Gateway`, `GatewayService` |
| `PanelOAuth`, `MCPanelOAuth` | panel login and sessions | |
| `RateLimit` | fixed-window limiter | |
| `Alerts`, `MCAlerts` | alert manager | |
| `TokenFiles` | token commands | |
| `PanelUserList`, `MCPanelUserList` | page scan, filter and page arithmetic of the user list | |
| `ServeProcess`, `MCServeProcess` | reload loop, listeners, shutdown | |
| `GatewayProofs` | types, slots, mutual exclusion, authorisation and version verdicts of `Gateway`, proved | `Gateway` |
| `GatewayServiceProofs` | the ownership window and the refinement of `WriteService`, proved | `GatewayProofs`, `GatewayService` |
| `PanelOAuthProofs` | all safety properties of the panel login, proved | `PanelOAuth` |
| `RateLimitProofs` | types and long-run rate, proved | `RateLimit` |
| `AlertsProofs` | types, account and rate of alerts, proved | `Alerts` |
| `TokenFilesProofs` | what one editor may rely on, proved | `TokenFiles` |
| `PanelUserListProofs` | what the list shows, proved | `PanelUserList` |
| `ServeProcessProofs` | types and late cuts, proved | `ServeProcess` |

`PROJECT.json` maps every definition to the lines it stands for. Operators named
`X_Something` right before `X` are mutants of `X`: the way a bug would change it.
No specification uses them; they exist to show that each property can fail.

### Gateway

A step of a handler is the code between two accesses to something another
goroutine or the panel can change; a `defer` is a step of its own, in reverse
order. `pc` names the step that comes next, `gen` the runtime state the handler
loaded, `inp` the client's request, `resp` the answer. `late` holds the writes a
handler gave up that the panel may still apply. Two variables are history, which no
guard reads: `committed` says whether the panel applied the forwarded write, and
`disturbed` whether the user of a handler between its read and its use was changed
by a write that does not come through its mutex.

* `Arrive`, `AcquireGlobal`: load the state, take a global slot or answer 429.
* `Malformed`, `PanelAuthFacade`, `GuardAndAuthenticate`: the checks before a
  token is known. Checks the model has no data for (path, query, size) may refuse
  any request. `/api/auth/` is answered before the version guard.
* `AcquireKey`, `RateLimited`, `DecidePolicy`: slot of the token or address, rate,
  scope decision. A public subscription goes through the same steps with its
  address as key.
* `lockResource`, `Preflight`, `PreflightDenied`: mutex of a restricted write,
  ownership read, body checks.
* `ForwardFails`, `ForwardRefused`, `ForwardRead`, `ForwardWrite`: the upstream
  call. `ForwardFails` has three outcomes behind one 502: the panel was not reached;
  it applied the write and the answer was cut off; or the handler gave up, because
  the response header did not come in time (`proxy.go` 51-55) or the client went
  away, which cancels the context of the call (`proxy.go` 93). The handler then
  answers and unlocks, and `LateWrite` is the panel applying the write at any later
  moment, in any state of this and other handlers.
* `PostWriteVerify`, `Unlock`, `ReleaseKey`, `ReleaseGlobal`.
* `Serve`, `Reload`, `ReloadRejected`, `detectVersion`: the runtime. The signal
  handler is installed before `Serve` runs (`main.go` 96 and 110), so reloads may
  come first; `Serve` probes the state it finds, which is then probed a second time,
  and `probes` counts what still runs. Requests arrive after `Serve`.

Data is reduced to what decisions tell apart. An attribute of a user is the set
of its values; a constraint is the set of values it accepts, so that prefixes,
regular expressions and ranges are all the same thing. A route stands for its
class; node writes stand for those of hosts, profiles, templates and squads.
A request has the user or node it means and the `text` in which it says so, because
the code compares and locks by text and the panel may not: `Plain` is the spelling
of configuration and panel, other members of `Texts` are the uuid in other letters,
and those in `Extras` come with a second uuid field, which `lockKey` reads and the
body checks refuse after lock and preflight. `lockKey` is made of route and text,
allowlists know `Plain` only, and the panel takes every text to the same user, the
least favourable of the two ways a panel can treat letter case. A wrong secret or an
invalid session is a credential that no token lists.
Each runtime state has its own semaphores; the lock table is global.

### WriteService and GatewayService

`WriteService` has no handlers, slots, mutexes or generations. A client submits a
write under the configuration in force (`Submit`); the write is applied in one step
or not at all (`ApplyKnown`, `ApplyUnknown` when the answer is lost), and answered
(`Refuse`, `Confirm`); or it is given up with a 502 (`Abandon`) and may be applied
once, later (`ApplyLate`), when nobody checks it again. A write to an existing user
is applied or given up only after the token was seen to own the user (`Observe`). For
an update that is still so in the very step, unless the user was changed since by a
write the mutex does not keep away: an abandoned one, or an update that names the
user in other words (`Disturbs`). For an action nothing more is promised, because
updates take another mutex. Success is answered only for an applied write whose
target the token owns then.

`GatewayService` maps the pipeline onto it: the configuration in force is that of
`cur`, a request's terms are those of the state its handler loaded, a request is
`open` until its handler answers and `applied` once the panel has applied it.
`ServiceAssumption` restricts it to configurations with write safety on and
without the unsafe report proxy, and to restricted writes. With write safety on,
`effectiveRoute` makes these routes restricted for every token, a privileged one
too; with it off the same routes take no mutex, and neither does a deletion ever, so
the promise is not made there.

### PanelUserList

One step per upstream page. `panel` is the list as the query's filters select it and
its sorting orders it, for these go to the panel with every page (`server.go`
1011-1022). Between two steps users enter the list at any place, leave it, change
place in it because an update changed what it is sorted by, or move in or out of the
token's reach (`Enter`, `Leave`, `Move`, `Reassign`, external). `shifted`, `gone` and
`kept` are history. `counts` says whether the panel's answers carry a total; without one the
code takes the length of the page, so that a full first page is also the last.
`Ask`, `ReadPage`, `PageFails` and `Answer` are `handlePanelRestrictedUserList`,
`ListRaw` the list of a raw token, whose page comes from the panel as it is. The
numbers of a query are parsed and multiplied in an `int` of `2 * HalfInts` values
(`HalfInts` is 2^63 in the build), with the wrap-around of the language; a slice with a negative bound panics, which
`net/http` turns into a dropped connection.

### ServeProcess

`Hangup` fills the channel of one, `Receive`, `ReadFile` and `BuildState` are the
loop: one step per file, then validation and `newRuntimeState`. Contents of files
are tokens, and two constants say which combinations load and which of those can
be built. `Listen`, `StartShutdown`, `ListenerFailed`, `DrainApi`, `DrainLocal` are
`Runtime.Serve`; `Begin` and `Finish` are handlers, which are only running or not
here. `told` (history) says that a SIGHUP followed the last edit. The requests of a
reload and their limits are in `Gateway`.

### PanelOAuth

Cut at every load of the runtime pointer, at the store's mutex and at the
exchange with Telegram. `Reload` is two steps, because the store is cleared before
the pointer is replaced. `Restart` may fall anywhere and resets the generation
counter. Attempts and sessions carry history fields (`by`, `uid`, `attempt`,
`checked`) that no action reads. Issuer and audience are one `realm`.

### RateLimit, Alerts, TokenFiles

`RateLimit`: a caller loads its limiter, reads the clock, decides under the mutex.
`Alerts`: the worker decides on messages under the mutex and sends them outside of
it, reading the configuration again. `flushDue` may come at any time the worker
selects. A ticker's exact period is not modelled. Sending may always fail.
`TokenFiles`: one step per file operation that another process or a kill can
separate; `os.WriteFile` of a backup is two (create empty, fill), a synced
temporary file with its rename is one. The restoring rename may fail; the code
ignores its error, and the model marks the command's end `unrestored`. `ok` of a token is what `Load` checks of
it alone.

## 3. Runs

| Run | Instance | Shows |
|---|---|---|
| `gateway_writes` | 2 handlers, 2 tokens, 5 requests in 3 wordings, 1 late write at a time | `LockExclusive`, `UpdateWindow`, `AtomicWrites` |
| `gateway_reload` | 2 handlers, 2 configurations, 6 requests, 1 reload before or after `Serve`, 1 late write at a time | `TypeOK`, `SlotsBalanced`, `LockExclusive`, `WritesAuthorised`, `VerdictFinal` |
| `gateway_live` | 2 handlers, 4 requests, 1 reload, fairness | `Answered`, `OldStatesDrain` |
| `gateway_per_resource` | 2 handlers, 2 requests | violates `PerResourceLocks` |
| `panel_login` | 2 handlers, 2 browsers, store of 1, 3 runtime states, clock to 2 | `StoreBounded`, `SingleUse`, `OneConfiguration`, `OwnLogin`, `SessionAge`, `TypeOK` |
| `panel_secret` | 1 handler, 2 secrets | violates `ExpireNaturally` |
| `rate_limit` | 3 callers, limit 2, window 2, clock to 4, 1 reload | `LongRunRate`, `TypeOK` |
| `alerts` | 2 handlers, 2 keys, queue of 1, 4 denials, clock to 4 | `Accounted`, `AlertRate`, `TypeOK` |
| `panel_list` | 5 users, 3 or 4 in the list at first, pages of 2, scan of 4, 4-bit `int`, 2 changes | `NobodyMissed`, `NobodyTwice`, `PageExact`, `TypeOK` |
| `serve_process` | 2 files, 3 texts, 2 edits, 2 API and 1 local handler, fairness | `LastEditLoads`, `TermEnds`, `CutOnlyLate`, `TypeOK` |
| `token_edits` | 1 editor, 2 files, 2 tokens, 2 credentials, 4 commands | `EditUndone`, `PrintedInForce`, `TypeOK` |
| `token_rollback` | 1 editor, 1 file, 1 command | violates `ValidationRollback` |

What the properties say:

* `LockExclusive`: two handlers between lock and unlock never have the same route
  and the same target in the same words, under whatever states they run, and a
  locked mutex has a handler that will unlock it. Two wordings of one user are two
  mutexes; the property does not hide that, and the next two say what follows.
* `UpdateWindow`: ownership read by preflight still holds when the update is
  forwarded, and ownership read by the verification when the client is told so,
  unless the user was `disturbed` in between: by a write given up and applied late,
  by one that names the user in other words, by a deletion, or by a write under a
  configuration without write safety. Without that condition the property is false of the
  code; TLC shows it for each kind of write the run has.
* `SlotsBalanced`: the semaphores of each runtime state count the handlers inside,
  under the state each of them loaded.
* `WritesAuthorised`: a step in which the panel applies a write, or in which a
  handler gives one up that the panel may still apply, belongs to a credential, token, scope, allowlist and constraint set of the one configuration
  its handler loaded, whose version guard its own probe opened. `MayWrite` says
  so without the pipeline's own operators for tokens and body checks. When a late
  write is applied the policy may have changed again; nothing is claimed of it then.
* `AtomicWrites`: the refinement above, every step of the pipeline being a step of
  the service or a stutter.
* `VerdictFinal`: a runtime state whose version is assumed or whose probes are over
  keeps its guard as it is, whatever other probes and reloads do, and is not probed
  again. A state may have two: that of the reload which made it and that of `Serve`;
  the second to end may revise the first. Failed probes are not repeated, so such a
  state refuses until it is replaced.
* `Answered`, `OldStatesDrain`: section 5.
* `NobodyMissed`: a user owned from the first page to the last that keeps its place
  is listed, as long as every page carries a total, nobody leaves the list or goes to
  a later place in it, and the list has no more users than the scan reads. Each
  condition is needed: who leaves moves the users behind to pages already read, and
  so does who goes from before them to behind them; without a total a full first page
  is taken for the whole list. Users who enter or move forward do no harm to others.
* `NobodyTwice`: nobody is listed twice, as long as nobody enters the list or changes
  place in it meanwhile; either can push a user that was read to the next page.
* `PageExact`: page and total are those of a definition by rank in unbounded
  numbers, for every query whose numbers and whose last element fit an `int`.
  Beyond that the code answers another page or drops the connection, and nothing
  is claimed.
* `LastEditLoads`: a SIGHUP after the last edit brings the files into force although
  signals are merged, and although the loop may be half through the old files. A
  mixture of two versions may be in force before that, if it loads.
* `TermEnds`, `CutOnlyLate`: SIGTERM ends the process even if handlers never end,
  and a request is cut off only after the grace period or by a failed listener. Both
  listeners share the period. `TypeOK` of the module includes that what is in force
  could always be built.
* `OneConfiguration`: the generation test of the callback is enough, although
  it looks at the current pointer and the session is issued from an earlier load,
  and although generation numbers repeat after a restart.
* `SessionAge`: an accepted session is younger than the accepting configuration's
  `token_ttl` and a minute. The minute is the code's allowance.
* `LongRunRate`: at most `limit` calls per started window since the first one.
  The stronger "at most `limit` in any window-long interval" does not hold for a
  fixed window and is not claimed.
* `Accounted`: denials accepted = dropped + queued + counted + in a message under
  way + delivered + given up, per key.
* `AlertRate`: one message per cooldown since the first, one more at shutdown.
* `EditUndone`: a command that ends with an error has left the files that existed as
  it found them. When the restoring rename itself failed, which the code does not
  report apart, the edited file stays and the backup is the one that undoes it.
* `EditUndone`, `PrintedInForce`: for one operator at a time. The commands take no
  lock; two of them at once lose edits, and nothing in the repository promises
  otherwise.

`token_edits` and `token_rollback` do not check deadlock: an operator may stop
issuing commands, and the bound on commands ends the run. Nor does `serve_process`,
whose process exits. Everywhere else deadlock is checked.

### Disagreements with the documentation

* `gateway_per_resource`: `docs/policy.md` line 64 speaks of per-resource locks.
  `lockKey` starts with the route's name, so an update and an action on one user
  take different mutexes and overlap.
* `panel_secret`: `docs/deployment.md` line 151 says that existing sessions expire
  naturally after the secret was rotated. They are refused at once.
* `token_rollback`: the repository's README line 129 promises validation rollback for
  `token add`. Rollback renames a backup, and a new file has none: the invalid
  file stays and the next load fails.

## 4. Bounds

Two handlers suffice for every pairwise race, and one reload gives handlers of two
generations, or a state that both the reload and `Serve` probe. A late write at a time
(`MaxLate`) is enough to hit any step of the other handler and of the next request of
its own; handlers of `gateway_writes` need no second generation, because their one
configuration would be loaded again, and `gateway_reload` has the mutexes across a
reload. The proofs of section 6 cover any number of handlers, generations and late
writes. In `gateway_live` there are none of the last: they change users, and progress
does not depend on users. In the Gateway runs there is one user, so that every
write meets every other; two tokens with different constraints own it or not
depending on what the other wrote. The configurations of `gateway_reload` differ
in everything a decision reads. `MaxGen`, `MaxLate`, `MaxTime`, `MaxStates`, `MaxEvents`,
`MaxChanges` and `MaxEdits` appear in guards only. In `panel_login` three runtime states allow a
restart between a reload and a callback, and the clock reaches past an attempt's
expiry (1) and past the shorter session lifetime. In `rate_limit` the clock covers
two windows, so that a reading of the first window can be used in the third. The queue of one
in `alerts` is full after one denial. In `panel_list` five users make three pages,
one more than the scan reads, so that all three ways to end it happen; two changes
allow a creation and a deletion around one page; the four queries have an offset, a
later page, a product and a sum that wrap around 4 bits, and a number beyond them
that is passed over for the next parameter. Three or four users at first leave one or
two to enter. In `serve_process` two edits fall on both sides of the first read, and
three texts give contents that do not parse, load without building, and mix.
Handlers, browsers, states, users and alert keys are symmetric where a cfg says so;
those runs check invariants and step properties only, never liveness.

## 5. Fairness

`FairSpec` of `Gateway` has weak fairness of every handler that is not waiting for
the panel, and of every version probe: Go schedules each runnable goroutine, and a
probe has a timeout of five seconds. Nothing is assumed of the panel, because
`RoundTrip` bounds only the wait for the response header and a body may stall for
ever. Lock waiters have strong fairness: `sync.Mutex` hands over to a waiter that
has starved for a millisecond. There is no fairness on arrivals and reloads.

`Answered` then says that a request is answered unless it is `Blocked` from some
point on: it waits for the panel itself, or for a mutex whose holder does. So
no lock is left behind, nobody waits in a circle, and a stalled panel call holds up
its own target only. `OldStatesDrain` says the same of a replaced runtime state:
in the end only blocked handlers still use it.

`FairSpec` of `ServeProcess` has weak fairness of the reload loop, of `Serve` and of
the end of the grace period, and none of handlers.

## 6. Proofs

Every safety invariant and every step property of a passing run is proved, and the
refinement with them; only liveness is left to TLC. The proofs hold for every value
of the constants that satisfies the named assumptions of the modules. They ask for
no more than that sets the program holds in memory are finite, that limits, windows,
sizes and cooldowns are positive, that configurations are ones `Load` accepts, and
that names which must not be confused differ: token ids and addresses, API and local
connections, an OAuth state and the absent one (`NoState`). `MaxScan` is a number of
whole pages, as the code's two literals are. Bounds such as `MaxGen`, `MaxLate`, `MaxTime`,
`MaxEvents` and `MaxChanges` are arbitrary naturals there. Two results need more:

* `GatewayServiceProofs` uses `ServiceAssumption`: write safety on, no unsafe report
  proxy, restricted writes only. Late writes and all wordings are included.
* `TokenFilesProofs` states its theorems under `OneEditor`, because the commands take
  no lock. Files, tokens, commands, failures and kills are unrestricted.

Each proof has the same shape: an invariant that holds initially, one lemma per
action that it is kept, and the property as a consequence. Each invariant was
checked by TLC on the instance of its run as well. What had to be
added to the properties, and why:

* `TypeCorrect`, `SlotAccounting` (`GatewayProofs`). `SlotsBalanced` counts by
  `KeyOf`, which is computed from configuration and request. `SlotInv` adds that
  every handler that is not idle loaded a state that was really built (`Loaded`)
  and that its key exists once it is authenticated (`Keyed`). A state not served yet
  has one probe at most, so that `Serve` makes it two. Every handler step is shown to
  be one of five kinds (stay, take or drop a global slot, take or drop a key slot),
  and the holders of a state gain or lose exactly the handler that moved. That a
  semaphore never goes below zero is a consequence of the count, so type
  correctness and accounting are proved together.
* `MutualExclusion` (same module). `LockInv`: only restricted writes are at
  lock, verify or unlock; every locked key has a holder and every holder's key is
  locked; holders have different keys. `RestrictedWrite` and `lockKey` depend only
  on what a handler loaded, so steps of others and reloads leave them alone.
* `AuthorisedWrites` (same module), a step property. `AuthInv`: an open
  version guard means that the state's own probe matched or its version is assumed;
  and a handler is `Cleared`, that is, what the pipeline has checked up to its step
  is still true of the state it loaded. The step that commits, or gives up, is then
  shown to satisfy `MayWrite`.
* `OneVerdict` (same module), a step property. `Fresh`: a generation number that
  was not handed out has no configuration; so a reload never writes to a state that
  somebody loaded, and a probe only to its own.
* `OwnershipWindow` (`GatewayServiceProofs`). `ServiceInv` puts `LockInv`, `AuthInv`
  and `Progress` together, which relates step, answer and commit of an open request.
  A step that changes a user is an update of that user. If it is a late one or in
  other words, `Disturbs` marks the handlers in the window; if it is in the same words,
  it holds the mutex of the route and these words, and no other handler is in the
  window. `Undisturbed` says that only handlers in the window are marked, so that
  every handler begins unmarked.
* `WritesAreAtomic` (same module). Initial states map to initial states, and each
  action of `Gateway` to an action of `WriteService` or to a stutter. Most handler
  steps leave the mapped request alone. `Arrive` is `Submit`, the end of preflight
  of an action is `Observe`, the forward is an `Apply` step, which needs the window
  above, giving up is `Abandon`, `LateWrite` is `ApplyLate`, and the answers are
  `Refuse` or `Confirm`. What `WriteService` calls disturbed is what `disturbed` marks.
* `LongRun`, `LimiterTypes` (`RateLimitProofs`). `RateInv` bounds the calls let
  through by `limit` times the windows that have passed at the start of the open one,
  plus its count. A reopened window starts a window length or more later, so the
  quotient grows by one at least.
* `PanelTypes`, `StoreStaysBounded`, `AttemptUsedOnce`, `LoginUnderOneConfiguration`,
  `SessionToItsBrowser`, `AcceptedSessionsAreYoung` (`PanelOAuthProofs`). The
  properties speak of sessions; `PanelInv` says what a handler knows on the way to
  one. `Numbered`: since the last restart, the identity of a runtime state and its
  generation differ by a constant, so the callback's comparison of generations
  compares states, although the numbers begin anew. `Earlier`: an attempt is not
  younger than the state its callback loaded, and the comparison makes them equal.
  `Consumed`: a state taken from the store has one consumer for ever. `Mine`: a
  browser's cookie holds its own attempt.
* `AlertTypes`, `MessagesKeepToCooldown`, `DenialsAccounted` (`AlertsProofs`).
  `Paced` counts messages up to the stamp of the last one instead of up to now,
  because the cooldown is counted from that stamp, be it an old event's time or the
  clock's. `EventsPast` says that no event is younger than the clock. `OneMessage`:
  the worker's messages have different keys, so what is under way for a key is one
  message or none, and the sum over the outbox can be unfolded.
* `FilesNeverTorn`, `FailedEditsAreUndone`, `PrintedStaysInForce`
  (`TokenFilesProofs`). `Stage` says for each step of a command what the files are,
  compared with those it began with, and that from the copy on the backup it would
  restore is the file as it was, also if an earlier command killed in the same
  second had left a torn one. So the backup undoes the command also when the
  restoring rename fails. `NothingLost`: the edited document still has every
  printed credential but those the command revokes.
* `ListTypes`, `NobodyIsMissed`, `NobodyIsTwice`, `PagesAreExact`
  (`PanelUserListProofs`). While nobody enters or changes place, users move
  towards the head of the list only, so who was read stays below the next page or is
  gone (`ReadBelow`); while nobody leaves or goes to a later place, users that keep
  their place are only pushed away from it, so who was not read stays beyond the next
  page (`UnreadBeyond`). The
  scan stays within its limit because that is a number of whole pages (`Paged`).
  `PagesAreExact` follows from the answer's being that of the list (`Answered`): the
  page computed is the one asked for if nothing wraps around, and there are `b - a`
  positions of rank `a + 1` to `b` (`Window`, by counting along the ranks).
* `ProcessTypes`, `NothingCutEarly` (`ServeProcessProofs`). `Leaving`: a listener
  being shut down accepts nothing, and the local one is shut down only when the API
  has no handler left or the time is over.

Lists are filtered with `Keep`, a definition by position, in the two modules whose
proofs are about it; the prover has none for `SelectSeq`.

Only model-checked: `Answered`, `OldStatesDrain`, `LastEditLoads` and `TermEnds`,
which are liveness under fairness and outside the prover's reach.

## 7. Not modelled

* Raw request validation, header filtering, TLS, digests and signatures: stateless
  functions of one request. Their refusals are nondeterministic steps of `Gateway`.
* Audit log and metrics: written to, never read by a decision. The handlers of the
  local listener read two flags; only that they run is in `ServeProcess`.
* Redaction of squads and subscription page configurations in responses: stateless.
* OpenAPI contract check, `routes` and `policy` commands: reports over static data.
* Most of configuration loading (YAML, URLs, secrets): only what a proof or a run
  needs of an accepted configuration is stated, in `Validate` and `Loads`.
* The text of alerts, and Telegram's OAuth exchange beyond its outcome.

## 8. Plan

Built first, because a mistake there is a write that should not happen: the
pipeline with its policies, then login, limiter, alerts and token commands and the
proofs of the pipeline; then the user list, the abstract service with its
refinement, and the process; then the proofs of all of these. Left, in this order:

1. Step properties worth stating and proving: that an old generation's semaphores
   are touched only by handlers that loaded it, that a login attempt once consumed
   or expired never comes back.
2. A run with two editors of one token file, once the promise to state is settled.
3. Rates with a zero window, which the limiter accepts and which limit nothing.
