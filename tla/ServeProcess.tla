---------------------------- MODULE ServeProcess ----------------------------
(***************************************************************************)
(* The process around the pipeline: serve in cmd/remnaguard/main.go with   *)
(* its loop over SIGHUP, and Runtime.Serve in internal/server/server.go    *)
(* with two listeners, shutdown on SIGTERM and its grace period.           *)
(*                                                                         *)
(* Starts when the first configuration is in force and the signals are     *)
(* registered.  What a reload does to running requests is in Gateway; here *)
(* a handler is only running or not, and one on the API listener may never *)
(* end, since the panel may never complete its answer.                     *)
(***************************************************************************)
EXTENDS Naturals, Sequences

CONSTANTS Files,      \* configuration files, in the order Load reads them
          Texts,      \* what a file may hold
          Loadable,   \* contents of all files that Load accepts
          Buildable,  \* those a runtime state can be built from
          ApiConns, LocalConns,  \* handlers of the two listeners
          MaxEdits    \* bound: edits of a file

FileSet == {Files[i] : i \in DOMAIN Files}

ASSUME ProcessAssumption ==
    /\ Files \in Seq(FileSet) /\ Files # <<>>
    /\ Loadable \subseteq [FileSet -> Texts]
    /\ Buildable \subseteq Loadable /\ Buildable # {}
    /\ ApiConns \cap LocalConns = {}
    /\ MaxEdits \in Nat

Conns == ApiConns \cup LocalConns

VARIABLES
    disk, edits,  \* the files, and edits so far
    told,         \* a SIGHUP was sent since the last edit
    hup,          \* signals in the channel of the loop
    loop,         \* the loop: waiting, reading a file by its number, building
    draft,        \* what the loop has read
    active,       \* contents behind the runtime state in force
    term,         \* SIGTERM or SIGINT came
    serve,        \* Serve: "select", "api", "local", "returned"
    grace,        \* the grace period: "off", "running", "over"
    listener,     \* of each listener: "new", "open", "closed", "failed"
    handler,      \* of each connection: "none", "running", "cut"
    exit          \* exit status of the process

reloadVars   == <<hup, loop, draft, active>>
shutdownVars == <<term, serve, grace, listener, handler, exit>>
vars == <<disk, edits, told, reloadVars, shutdownVars>>

Waiting  == 0
Building == Len(Files) + 1

ConnsOf(l) == IF l = "api" THEN ApiConns ELSE LocalConns

Alive == exit = "none"

-----------------------------------------------------------------------------
(* Operator and operating system. *)

Edit(f, text) ==
    /\ edits < MaxEdits
    /\ edits' = edits + 1
    /\ disk' = [disk EXCEPT ![f] = text]
    /\ told' = FALSE
    /\ UNCHANGED <<reloadVars, shutdownVars>>

\* signal.Notify drops a signal when the channel is full; it holds one.
Hangup_Unbuffered ==
    /\ Alive
    /\ told' = TRUE
    /\ hup' = IF loop = Waiting THEN 1 ELSE hup
    /\ UNCHANGED <<disk, edits, loop, draft, active, shutdownVars>>

Hangup ==
    /\ Alive
    /\ told' = TRUE
    /\ hup' = 1
    /\ UNCHANGED <<disk, edits, loop, draft, active, shutdownVars>>

Terminate ==
    /\ Alive
    /\ term' = TRUE
    /\ UNCHANGED <<disk, edits, told, reloadVars, serve, grace, listener, handler, exit>>

-----------------------------------------------------------------------------
(* The loop over SIGHUP. *)

LoopStep == Alive /\ UNCHANGED <<disk, edits, told, shutdownVars>>

Receive ==
    /\ LoopStep
    /\ loop = Waiting /\ hup = 1
    /\ hup' = 0
    /\ loop' = 1
    /\ UNCHANGED <<draft, active>>

\* Load reads one file after the other.
ReadFile ==
    /\ LoopStep
    /\ loop \in DOMAIN Files
    /\ draft' = [draft EXCEPT ![Files[loop]] = disk[Files[loop]]]
    /\ loop' = loop + 1
    /\ UNCHANGED <<hup, active>>

\* What does not load or cannot be built into a runtime state is rejected.
BuildState_Unbuilt ==
    /\ LoopStep
    /\ loop = Building
    /\ loop' = Waiting
    /\ active' = IF draft \in Loadable THEN draft ELSE active
    /\ UNCHANGED <<hup, draft>>

BuildState ==
    /\ LoopStep
    /\ loop = Building
    /\ loop' = Waiting
    /\ active' = IF draft \in Loadable /\ draft \in Buildable THEN draft ELSE active
    /\ UNCHANGED <<hup, draft>>

ReloadLoop == Receive \/ ReadFile \/ BuildState

-----------------------------------------------------------------------------
(* Listeners and Serve. *)

ServeStep == Alive /\ UNCHANGED <<disk, edits, told, reloadVars, term>>

\* The address is taken, or accepting connections breaks later on.
Listen(l) ==
    /\ ServeStep
    /\ \/ listener[l] = "new" /\ listener' = [listener EXCEPT ![l] = "open"]
       \/ listener[l] \in {"new", "open"} /\ listener' = [listener EXCEPT ![l] = "failed"]
    /\ UNCHANGED <<serve, grace, handler, exit>>

Begin(c, l) ==
    /\ ServeStep
    /\ c \in ConnsOf(l)
    /\ listener[l] = "open"
    /\ handler[c] = "none"
    /\ handler' = [handler EXCEPT ![c] = "running"]
    /\ UNCHANGED <<serve, grace, listener, exit>>

Finish(c) ==
    /\ ServeStep
    /\ handler[c] = "running"
    /\ handler' = [handler EXCEPT ![c] = "none"]
    /\ UNCHANGED <<serve, grace, listener, exit>>

\* Serve returns, main returns, and whatever still runs is gone.
Return(status) ==
    /\ serve' = "returned"
    /\ exit' = status
    /\ handler' = [c \in Conns |-> IF handler[c] = "running" THEN "cut" ELSE handler[c]]

\* Shutdown closes a listener first.
StartShutdown ==
    /\ ServeStep
    /\ serve = "select" /\ term
    /\ serve' = "api"
    /\ grace' = "running"
    /\ listener' = [listener EXCEPT !["api"] = "closed"]
    /\ UNCHANGED <<handler, exit>>

ListenerFailed ==
    /\ ServeStep
    /\ serve = "select"
    /\ \E l \in DOMAIN listener : listener[l] = "failed"
    /\ Return("error")
    /\ UNCHANGED <<grace, listener>>

GraceOver ==
    /\ ServeStep
    /\ grace = "running"
    /\ grace' = "over"
    /\ UNCHANGED <<serve, listener, handler, exit>>

Drained(l) == \A c \in ConnsOf(l) : handler[c] # "running"

\* Shutdown waits for the handlers of its listener or for the deadline.
DrainApi_NoDeadline ==
    /\ ServeStep
    /\ serve = "api"
    /\ Drained("api")
    /\ serve' = "local"
    /\ listener' = [listener EXCEPT !["local"] = "closed"]
    /\ UNCHANGED <<grace, handler, exit>>

DrainApi_NotAwaited ==
    /\ ServeStep
    /\ serve = "api"
    /\ serve' = "local"
    /\ listener' = [listener EXCEPT !["local"] = "closed"]
    /\ UNCHANGED <<grace, handler, exit>>

DrainApi ==
    /\ ServeStep
    /\ serve = "api"
    /\ Drained("api") \/ grace = "over"
    /\ serve' = "local"
    /\ listener' = [listener EXCEPT !["local"] = "closed"]
    /\ UNCHANGED <<grace, handler, exit>>

DrainLocal ==
    /\ ServeStep
    /\ serve = "local"
    /\ Drained("local") \/ grace = "over"
    /\ Return("ok")
    /\ UNCHANGED <<grace, listener>>

Serve == StartShutdown \/ ListenerFailed \/ DrainApi \/ DrainLocal

-----------------------------------------------------------------------------
Init ==
    /\ active \in Buildable
    /\ disk = active
    /\ edits = 0
    /\ told = FALSE
    /\ hup = 0
    /\ loop = Waiting
    /\ draft = active
    /\ term = FALSE
    /\ serve = "select"
    /\ grace = "off"
    /\ listener = [l \in {"api", "local"} |-> "new"]
    /\ handler = [c \in Conns |-> "none"]
    /\ exit = "none"

Next ==
    \/ \E f \in FileSet, text \in Texts : Edit(f, text)
    \/ Hangup \/ Terminate
    \/ ReloadLoop
    \/ \E l \in {"api", "local"} : Listen(l) \/ \E c \in Conns : Begin(c, l)
    \/ \E c \in Conns : Finish(c)
    \/ Serve \/ GraceOver

Spec == Init /\ [][Next]_vars

\* Go schedules the goroutines of the loop and of Serve, and the deadline of
\* the shutdown passes.  No handler of the API need ever end.
Fairness == WF_vars(ReloadLoop) /\ WF_vars(Serve) /\ WF_vars(GraceOver)

FairSpec == Spec /\ Fairness

-----------------------------------------------------------------------------
(* Properties *)

\* Every variable has its type; in particular what is in force always loads as
\* a whole and a runtime state was built from it, also when the files changed
\* while the loop was reading them.
TypeOK ==
    /\ disk \in [FileSet -> Texts]
    /\ edits \in 0..MaxEdits
    /\ told \in BOOLEAN
    /\ hup \in 0..1
    /\ loop \in Waiting..Building
    /\ draft \in [FileSet -> Texts]
    /\ active \in Buildable
    /\ term \in BOOLEAN
    /\ serve \in {"select", "api", "local", "returned"}
    /\ grace \in {"off", "running", "over"}
    /\ listener \in [{"api", "local"} -> {"new", "open", "closed", "failed"}]
    /\ handler \in [Conns -> {"none", "running", "cut"}]
    /\ exit \in {"none", "ok", "error"}

\* A SIGHUP sent after the last edit brings the files into force, if they can
\* be, although signals that come while the loop works are merged into one and
\* although it may be in the middle of reading the files as they were before.
LastEditLoads ==
    told /\ disk \in Buildable ~> (active = disk \/ ~told \/ ~Alive)

\* SIGTERM ends the process, also when a handler never ends.
TermEnds == term ~> ~Alive

\* A request is cut off by the exit only when the grace period was over or a
\* listener had failed, which ends the process at once.
CutOnlyLate ==
    (\E c \in Conns : handler[c] = "cut") =>
        \/ exit = "ok" /\ grace = "over"
        \/ exit = "error" /\ \E l \in DOMAIN listener : listener[l] = "failed"

=============================================================================
