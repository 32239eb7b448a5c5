------------------------- MODULE ServeProcessProofs -------------------------
(***************************************************************************)
(* Proofs about the process around the pipeline, for any number of files,  *)
(* connections and edits.                                                  *)
(***************************************************************************)
EXTENDS ServeProcess, TLAPS

\* Where Serve is on its way out: a listener that is being shut down accepts
\* nothing any more, and the local one is shut down only when the API has no
\* handler left or the time for it is over.
Leaving ==
    /\ exit = "none" <=> serve # "returned"
    /\ Alive => \A c \in Conns : handler[c] # "cut"
    /\ serve \in {"api", "local"} => listener["api"] = "closed"
    /\ serve = "local" => listener["local"] = "closed" /\ (Drained("api") \/ grace = "over")

ProcessInv == TypeOK /\ Leaving /\ CutOnlyLate

-----------------------------------------------------------------------------
\* Load goes from file to file and then to the building of the state.
LEMMA FileSteps ==
    /\ Len(Files) \in Nat /\ DOMAIN Files = 1..Len(Files)
    /\ \A i \in DOMAIN Files : Files[i] \in FileSet
    /\ Waiting \in Waiting..Building /\ 1 \in Waiting..Building
    /\ \A i \in DOMAIN Files : i + 1 \in Waiting..Building
<1>1. Len(Files) \in Nat /\ DOMAIN Files = 1..Len(Files)
  BY ProcessAssumption
<1>2. \A i \in DOMAIN Files : Files[i] \in FileSet
  BY DEF FileSet
<1>3. QED
  BY <1>1, <1>2 DEF Waiting, Building

\* The steps of the operator and of the reload loop.
LEMMA ReloadStep ==
    ASSUME ProcessInv,
           (\E f \in FileSet, text \in Texts : Edit(f, text)) \/ Hangup \/ Terminate \/ ReloadLoop
    PROVE  ProcessInv'
<1> USE DEF ProcessInv
<1>1. UNCHANGED <<serve, grace, listener, handler, exit>>
  BY DEF Edit, Hangup, Terminate, ReloadLoop, Receive, ReadFile, BuildState, LoopStep, shutdownVars
<1>2. Leaving' /\ CutOnlyLate'
  BY <1>1 DEF Leaving, CutOnlyLate, Alive, Drained, ConnsOf
<1>3. CASE \E f \in FileSet, text \in Texts : Edit(f, text)
  <2>1. PICK f \in FileSet, text \in Texts : Edit(f, text)
    BY <1>3
  <2>2. disk' \in [FileSet -> Texts] /\ told' \in BOOLEAN
    BY <2>1 DEF TypeOK, Edit
  <2>3. edits' \in 0..MaxEdits
    BY <2>1, ProcessAssumption DEF TypeOK, Edit
  <2>4. QED
    BY <1>2, <2>1, <2>2, <2>3 DEF TypeOK, Edit, reloadVars, shutdownVars
<1>4. CASE Hangup
  BY <1>2, <1>4 DEF TypeOK, Hangup, shutdownVars
<1>5. CASE Terminate
  BY <1>2, <1>5 DEF TypeOK, Terminate, reloadVars
<1>6. CASE Receive
  BY <1>2, <1>6, FileSteps DEF TypeOK, Receive, LoopStep, shutdownVars
<1>7. CASE ReadFile
  <2>1. Files[loop] \in FileSet /\ loop + 1 \in Waiting..Building
    BY <1>7, FileSteps DEF ReadFile
  <2>2. draft' \in [FileSet -> Texts]
    BY <1>7, <2>1 DEF TypeOK, ReadFile
  <2>3. QED
    BY <1>2, <1>7, <2>1, <2>2 DEF TypeOK, ReadFile, LoopStep, shutdownVars
<1>8. CASE BuildState
  BY <1>2, <1>8, FileSteps DEF TypeOK, BuildState, LoopStep, shutdownVars
<1>9. QED
  BY <1>3, <1>4, <1>5, <1>6, <1>7, <1>8 DEF ReloadLoop

\* Connections come and go, listeners open and fail; one that is closed stays so.
LEMMA ConnStep ==
    ASSUME ProcessInv,
           \/ \E l \in {"api", "local"} : Listen(l) \/ \E c \in Conns : Begin(c, l)
           \/ \E c \in Conns : Finish(c)
    PROVE  ProcessInv'
<1> USE DEF ProcessInv
<1>0. Alive /\ UNCHANGED <<disk, edits, told, reloadVars, term, serve, grace, exit>>
  BY DEF Listen, Begin, Finish, ServeStep
<1>1. CASE \E l \in {"api", "local"} : Listen(l)
  BY <1>0, <1>1 DEF TypeOK, Leaving, CutOnlyLate, Alive, Listen, reloadVars, Drained, ConnsOf
<1>2. ASSUME NEW l \in {"api", "local"}, NEW c \in Conns, Begin(c, l) PROVE ProcessInv'
  <2>1. /\ handler' = [handler EXCEPT ![c] = "running"] /\ listener' = listener
        /\ c \in ConnsOf(l) /\ listener[l] = "open"
    BY <1>2 DEF Begin
  <2>2. TypeOK'
    BY <1>0, <2>1 DEF TypeOK, reloadVars
  <2>3. serve # "local"
    BY <2>1 DEF Leaving
  <2>4. Leaving' /\ CutOnlyLate'
    BY <1>0, <2>1, <2>3 DEF TypeOK, Leaving, CutOnlyLate, Alive
  <2>5. QED
    BY <2>2, <2>4
<1>3. ASSUME NEW c \in Conns, Finish(c) PROVE ProcessInv'
  <2>1. handler' = [handler EXCEPT ![c] = "none"] /\ listener' = listener
    BY <1>3 DEF Finish
  <2>2. TypeOK'
    BY <1>0, <2>1 DEF TypeOK, reloadVars
  <2>3. Leaving' /\ CutOnlyLate'
    BY <1>0, <2>1 DEF TypeOK, Leaving, CutOnlyLate, Alive, Drained, ConnsOf, Conns
  <2>4. QED
    BY <2>2, <2>3
<1>4. QED
  BY <1>1, <1>2, <1>3

\* Serve goes from select over the two shutdowns to its return.
LEMMA ServeInvStep ==
    ASSUME ProcessInv, Serve \/ GraceOver
    PROVE  ProcessInv'
<1> USE DEF ProcessInv
<1>0. Alive /\ UNCHANGED <<disk, edits, told, reloadVars, term>>
  BY DEF Serve, GraceOver, StartShutdown, ListenerFailed, DrainApi, DrainLocal, ServeStep
<1>1. CASE StartShutdown
  BY <1>0, <1>1 DEF TypeOK, Leaving, CutOnlyLate, Alive, StartShutdown, reloadVars
<1>2. CASE GraceOver
  BY <1>0, <1>2 DEF TypeOK, Leaving, CutOnlyLate, Alive, GraceOver, reloadVars, Drained, ConnsOf
<1>3. CASE DrainApi
  BY <1>0, <1>3 DEF TypeOK, Leaving, CutOnlyLate, Alive, DrainApi, reloadVars, Drained, ConnsOf
<1>4. ASSUME NEW status \in {"ok", "error"}, Return(status), UNCHANGED <<grace, listener>>
      PROVE  /\ TypeOK' /\ Leaving'
             /\ \A c \in Conns : handler'[c] = "cut" => handler[c] = "running"
  <2>1. /\ serve' = "returned" /\ exit' = status
        /\ handler' = [c \in Conns |-> IF handler[c] = "running" THEN "cut" ELSE handler[c]]
    BY <1>4 DEF Return
  <2>2. TypeOK'
    BY <1>0, <1>4, <2>1 DEF TypeOK, reloadVars
  <2>3. QED
    BY <1>0, <2>1, <2>2 DEF Leaving, Alive
<1>5. CASE ListenerFailed
  <2>1. TypeOK' /\ Leaving' /\ exit' = "error"
    BY <1>4, <1>5 DEF ListenerFailed, Return
  <2>2. CutOnlyLate'
    BY <1>5, <2>1 DEF ListenerFailed, CutOnlyLate
  <2>3. QED
    BY <2>1, <2>2
<1>6. CASE DrainLocal
  <2>1. /\ TypeOK' /\ Leaving' /\ exit' = "ok" /\ grace' = grace
        /\ \A c \in Conns : handler'[c] = "cut" => handler[c] = "running"
    BY <1>4, <1>6 DEF DrainLocal, Return
  <2>2. grace = "over" \/ (Drained("api") /\ Drained("local"))
    BY <1>6 DEF DrainLocal, Leaving
  <2>3. grace = "over" \/ \A c \in Conns : handler[c] # "running"
    BY <2>2 DEF Drained, ConnsOf, Conns
  <2>4. CutOnlyLate'
    BY <2>1, <2>3 DEF CutOnlyLate
  <2>5. QED
    BY <2>1, <2>4
<1>7. QED
  BY <1>1, <1>2, <1>3, <1>5, <1>6 DEF Serve

\* The invariant holds initially.
LEMMA ProcessInit == Init => ProcessInv
<1> SUFFICES ASSUME Init PROVE ProcessInv
  OBVIOUS
<1>1. active \in [FileSet -> Texts]
  BY ProcessAssumption DEF Init
<1>2. TypeOK
  <2>1. edits \in 0..MaxEdits /\ hup \in 0..1 /\ loop \in Waiting..Building
    BY FileSteps, ProcessAssumption DEF Init
  <2>2. told \in BOOLEAN /\ term \in BOOLEAN
    BY DEF Init
  <2>3. QED
    BY <1>1, <2>1, <2>2 DEF Init, TypeOK
<1>3. QED
  BY <1>2 DEF Init, ProcessInv, Leaving, CutOnlyLate, Alive

\* The invariant holds in every behaviour.
LEMMA ProcessInvariance == Spec => []ProcessInv
<1>1. ASSUME ProcessInv, [Next]_vars PROVE ProcessInv'
  <2>1. CASE UNCHANGED vars
    BY <1>1, <2>1 DEF vars, reloadVars, shutdownVars, ProcessInv, TypeOK, Leaving, CutOnlyLate,
       Alive, Drained, ConnsOf
  <2>2. QED
    BY <1>1, <2>1, ReloadStep, ConnStep, ServeInvStep DEF Next
<1>2. QED
  BY <1>1, ProcessInit, PTL DEF Spec

\* Every variable keeps its type: what is in force always is a configuration
\* that loads as a whole and can be built, whatever the loop read in the middle
\* of whichever edits.
THEOREM ProcessTypes == Spec => []TypeOK
<1>1. ProcessInv => TypeOK
  BY DEF ProcessInv
<1>2. QED
  BY <1>1, ProcessInvariance, PTL

\* With any number of connections on both listeners, a shutdown cuts no request
\* off before the grace period is over.
THEOREM NothingCutEarly == Spec => []CutOnlyLate
<1>1. ProcessInv => CutOnlyLate
  BY DEF ProcessInv
<1>2. QED
  BY <1>1, ProcessInvariance, PTL

=============================================================================
