-------------------------- MODULE PanelOAuthProofs --------------------------
(***************************************************************************)
(* Proofs about the panel login of PanelOAuth, for any number of handlers, *)
(* browsers and login attempts, any capacity of the store and any sequence *)
(* of reloads and restarts.                                                *)
(*                                                                         *)
(* The safety properties speak of sessions only; what makes them inductive *)
(* is what handlers know on the way to a session:                          *)
(*   Held       the local values a handler has at each of its steps;       *)
(*   Numbered   since a restart, uid and generation differ by a constant,  *)
(*              so equal generations are the same runtime state;           *)
(*   Earlier    an attempt is never younger than the runtime state of the  *)
(*              callback that names it, which its check makes equal;       *)
(*   Mine       the state a browser's cookie holds is its own attempt;     *)
(*   Consumed   a state taken from the store has one consumer, forever.    *)
(***************************************************************************)
EXTENDS PanelOAuth, FiniteSetTheorems, TLAPS

Callback == {"callback", "take", "check", "exchange"}
Taken    == {"check", "exchange"}

Held ==
    /\ nextGen <= built
    /\ \A b \in Browsers : cookie[b] \in issued \cup {NoState}
    /\ \A h \in Handlers :
          /\ sent[h] \in issued \cup {NoState}
          /\ pc[h] # "idle" => snap[h] \in RuntimeStates /\ by[h] \in Browsers
          /\ pc[h] \in Taken \cup {"put"} => attempt[h] \in Attempts
          /\ pc[h] \in Callback => tok[h] \in issued
          /\ pc[h] \in {"take", "check", "exchange"} => sent[h] = tok[h]

Numbered ==
    /\ cur.uid + nextGen = cur.generation + built
    /\ pending # Nothing => pending.uid = built /\ pending.generation = nextGen
    /\ \A s \in DOMAIN attempts : attempts[s].uid + nextGen = attempts[s].Generation + built
    /\ \A h \in Handlers : pc[h] \in Taken \cup {"put"} =>
          attempt[h].uid + nextGen = attempt[h].Generation + built

Earlier ==
    /\ cur.uid <= built
    /\ \A s \in DOMAIN attempts : attempts[s].uid <= cur.uid
    /\ \A h \in Handlers :
          /\ pc[h] # "idle" => snap[h].uid <= cur.uid
          /\ pc[h] = "put" => attempt[h].uid <= cur.uid
          /\ pc[h] \in {"callback", "take"} /\ tok[h] \in DOMAIN attempts =>
                attempts[tok[h]].uid <= snap[h].uid
          /\ pc[h] \in Taken => attempt[h].uid <= snap[h].uid
          /\ pc[h] = "exchange" => attempt[h].uid = snap[h].uid

Mine ==
    /\ \A b \in Browsers : cookie[b] \in DOMAIN attempts => attempts[cookie[b]].by = b
    /\ \A h \in Handlers :
          /\ pc[h] \in {"put"} \cup Taken => attempt[h].by = by[h]
          /\ pc[h] \in {"callback", "take"} /\ sent[h] \in DOMAIN attempts =>
                attempts[sent[h]].by = by[h]

Consumed ==
    /\ \A h \in Handlers : pc[h] \in Taken =>
          /\ tok[h] \notin DOMAIN attempts
          /\ \A g \in Handlers : pc[g] \in Taken /\ tok[g] = tok[h] => g = h
          /\ \A x \in sessions : x.state # tok[h]
    /\ \A x \in sessions :
          /\ x.state \in issued \ DOMAIN attempts
          /\ \A y \in sessions : y.state = x.state => y = x

PanelInv ==
    /\ TypeOK /\ StoreBounded
    /\ Held /\ Numbered /\ Earlier /\ Mine /\ Consumed
    /\ OneConfiguration /\ OwnLogin

-----------------------------------------------------------------------------
(* The store. *)

Smaller ==
    /\ DOMAIN attempts' \subseteq DOMAIN attempts
    /\ \A s \in DOMAIN attempts' : attempts'[s] = attempts[s]
    /\ attempts' \in [DOMAIN attempts' -> Attempts]

\* Every operation that adds nothing leaves a part of the store as it was.
LEMMA SmallerStore ==
    ASSUME attempts \in [DOMAIN attempts -> Attempts],
           NEW S, S \subseteq DOMAIN attempts, attempts' = Restricted(S)
    PROVE  Smaller /\ DOMAIN attempts' = S
BY DEF Smaller, Restricted

\* The store stays within its capacity when it only loses attempts.
LEMMA SmallerBounded ==
    ASSUME TypeOK, StoreBounded, Smaller
    PROVE  StoreBounded'
<1>1. IsFiniteSet(DOMAIN attempts)
  BY FS_Subset, PanelAssumption DEF TypeOK
<1>2. /\ Cardinality(DOMAIN attempts') <= Cardinality(DOMAIN attempts)
      /\ Cardinality(DOMAIN attempts') \in Nat /\ Cardinality(DOMAIN attempts) \in Nat
  BY <1>1, FS_Subset, FS_CardinalityType DEF Smaller
<1>3. QED
  BY <1>2, PanelAssumption DEF StoreBounded

\* put, when it does not refuse: one attempt more, of a state never issued.
LEMMA PutStore ==
    ASSUME TypeOK, StoreBounded, NEW s \in OAuthStates, s \notin issued,
           NEW a \in Attempts, NEW t \in Nat, put(s, a, t)
    PROVE  /\ StoreBounded'
           /\ s \in DOMAIN attempts' /\ attempts'[s] = a
           /\ DOMAIN attempts' \subseteq DOMAIN attempts \cup {s}
           /\ \A x \in DOMAIN attempts' \ {s} : attempts'[x] = attempts[x]
           /\ attempts' \in [DOMAIN attempts' -> Attempts]
<1> DEFINE P == DOMAIN pruneLocked(t)
<1>1. P \subseteq DOMAIN attempts
  BY DEF pruneLocked, Restricted
<1>2. /\ DOMAIN attempts' = P \cup {s}
      /\ attempts' = [x \in P \cup {s} |-> IF x = s THEN a ELSE attempts[x]]
  BY DEF put
<1>3. s \notin P
  BY <1>1 DEF TypeOK
<1>4. IsFiniteSet(P)
  BY <1>1, FS_Subset, PanelAssumption DEF TypeOK
<1>5. Cardinality(P \cup {s}) = Cardinality(P) + 1
  BY <1>3, <1>4, FS_AddElement
<1>6. Cardinality(P) < max /\ Cardinality(P) \in Nat
  BY <1>4, FS_CardinalityType DEF put
<1>7. StoreBounded'
  BY <1>2, <1>5, <1>6, PanelAssumption DEF StoreBounded
<1>8. attempts \in [DOMAIN attempts -> Attempts]
  BY DEF TypeOK
<1> HIDE DEF P
<1>9. QED
  BY <1>1, <1>2, <1>3, <1>7, <1>8

-----------------------------------------------------------------------------
(* Steps. *)

\* A handler that ends forgets what it held; nobody else is concerned.
LEMMA Ended ==
    ASSUME TypeOK, NEW h \in Handlers, Finish(h)
    PROVE  /\ pc' \in [Handlers -> {"idle", "authorize", "put", "callback", "take", "check", "exchange"}]
           /\ snap' \in [Handlers -> RuntimeStates \cup {Nothing}]
           /\ by' \in [Handlers -> Browsers \cup {Nothing}]
           /\ sent' \in [Handlers -> OAuthStates \cup {NoState}]
           /\ tok' \in [Handlers -> OAuthStates \cup {NoState}]
           /\ at' \in [Handlers -> 0..MaxTime]
           /\ attempt' \in [Handlers -> Attempts \cup {Nothing}]
           /\ pc'[h] = "idle" /\ sent'[h] = NoState
           /\ \A g \in Handlers \ {h} :
                 /\ pc'[g] = pc[g] /\ snap'[g] = snap[g] /\ by'[g] = by[g]
                 /\ sent'[g] = sent[g] /\ tok'[g] = tok[g] /\ attempt'[g] = attempt[g]
BY PanelAssumption DEF TypeOK, Finish

\* The first steps of a handler: it loads the state, and who calls with what.
LEMMA StartStep ==
    ASSUME PanelInv, NEW h \in Handlers, NEW b \in Browsers,
           StartAuthorize(h, b) \/ \E s \in issued : StartCallback(h, b, s)
    PROVE  PanelInv'
<1>1. /\ TypeOK /\ StoreBounded /\ Held /\ Numbered /\ Earlier /\ Mine /\ Consumed
      /\ OneConfiguration /\ OwnLogin
  BY DEF PanelInv
<1>2. PICK step \in {"authorize", "callback"} :
        /\ Start(h, b, step)
        /\ step = "authorize" => UNCHANGED tok
        /\ step = "callback" => \E s \in issued : tok' = [tok EXCEPT ![h] = s]
  BY DEF StartAuthorize, StartCallback
<1>3. /\ UNCHANGED <<now, storeVars, runtimeVars, at, attempt, sessions>>
      /\ pc' = [pc EXCEPT ![h] = step]
      /\ snap' = [snap EXCEPT ![h] = cur]
      /\ by' = [by EXCEPT ![h] = b]
      /\ sent' = [sent EXCEPT ![h] = cookie[b]]
  BY <1>2 DEF Start
<1>4. tok' \in [Handlers -> OAuthStates \cup {NoState}]
  BY <1>1, <1>2 DEF TypeOK
<1>5. TypeOK'
  BY <1>1, <1>3, <1>4 DEF TypeOK, storeVars, runtimeVars
<1>6. StoreBounded' /\ OneConfiguration' /\ OwnLogin'
  BY <1>1, <1>3 DEF StoreBounded, OneConfiguration, OwnLogin, storeVars
<1>7. Held'
  BY <1>1, <1>2, <1>3 DEF TypeOK, Held, storeVars, runtimeVars, Taken, Callback
<1>8. Numbered'
  BY <1>1, <1>2, <1>3 DEF TypeOK, Numbered, storeVars, runtimeVars, Taken, Callback
<1>9. Earlier'
  BY <1>1, <1>2, <1>3 DEF TypeOK, Earlier, storeVars, runtimeVars, Taken, Callback, RuntimeStates
<1>10. Mine'
  BY <1>1, <1>2, <1>3 DEF TypeOK, Mine, storeVars, runtimeVars, Taken, Callback
<1>11. Consumed'
  BY <1>1, <1>2, <1>3 DEF TypeOK, Consumed, storeVars, runtimeVars, Taken, Callback
<1>12. QED
  BY <1>5, <1>6, <1>7, <1>8, <1>9, <1>10, <1>11 DEF PanelInv

\* authorize loads the state again: the attempt is of the state current then.
LEMMA LoadStep ==
    ASSUME PanelInv, NEW h \in Handlers, AuthorizeLoad(h)
    PROVE  PanelInv'
<1>1. /\ TypeOK /\ StoreBounded /\ Held /\ Numbered /\ Earlier /\ Mine /\ Consumed
      /\ OneConfiguration /\ OwnLogin
  BY DEF PanelInv
<1> DEFINE a == [ExpiresAt |-> now + cur.cfg.AuthMaxAge, Generation |-> cur.generation,
                 by |-> by[h], uid |-> cur.uid]
<1>2. /\ UNCHANGED <<now, storeVars, runtimeVars, sessions, snap, by, sent, tok>>
      /\ pc[h] = "authorize"
      /\ pc' = [pc EXCEPT ![h] = "put"]
      /\ at' = [at EXCEPT ![h] = now]
      /\ attempt' = [attempt EXCEPT ![h] = a]
  BY DEF AuthorizeLoad, Goto
<1>3. cur.cfg.AuthMaxAge \in Nat
  BY <1>1, PanelAssumption DEF TypeOK, RuntimeStates, PanelConfig
<1>4. a \in Attempts
  BY <1>1, <1>2, <1>3 DEF TypeOK, Held, RuntimeStates, Attempts
<1>5. a.uid = cur.uid /\ a.Generation = cur.generation /\ a.by = by[h]
  OBVIOUS
<1> HIDE DEF a
<1>6. TypeOK'
  BY <1>1, <1>2, <1>4 DEF TypeOK, storeVars, runtimeVars
<1>7. StoreBounded' /\ OneConfiguration' /\ OwnLogin'
  BY <1>1, <1>2 DEF StoreBounded, OneConfiguration, OwnLogin, storeVars
<1>8. Held'
  BY <1>1, <1>2, <1>4 DEF TypeOK, Held, storeVars, runtimeVars, Taken, Callback
<1>9. Numbered'
  BY <1>1, <1>2, <1>5 DEF TypeOK, Numbered, storeVars, runtimeVars, Taken, Callback
<1>10. Earlier'
  BY <1>1, <1>2, <1>5 DEF TypeOK, Earlier, storeVars, runtimeVars, Taken, Callback, RuntimeStates
<1>11. Mine'
  BY <1>1, <1>2, <1>5 DEF TypeOK, Mine, storeVars, runtimeVars, Taken, Callback
<1>12. Consumed'
  BY <1>1, <1>2 DEF TypeOK, Consumed, storeVars, runtimeVars, Taken, Callback
<1>13. QED
  BY <1>6, <1>7, <1>8, <1>9, <1>10, <1>11, <1>12 DEF PanelInv

\* A handler that answers without a session: its attempt is refused, its state
\* unknown or stale, or the exchange failed.
LEMMA LeaveStep ==
    ASSUME PanelInv, NEW h \in Handlers, pc[h] # "idle", Finish(h), Smaller,
           cookie' = cookie \/ ClearCookie(h),
           UNCHANGED <<now, issued, runtimeVars, sessions>>
    PROVE  PanelInv'
<1>1. /\ TypeOK /\ StoreBounded /\ Held /\ Numbered /\ Earlier /\ Mine /\ Consumed
      /\ OneConfiguration /\ OwnLogin
  BY DEF PanelInv
<1>2. by[h] \in Browsers
  BY <1>1 DEF Held
<1>3. /\ cookie' \in [Browsers -> OAuthStates \cup {NoState}]
      /\ \A b \in Browsers : cookie'[b] = cookie[b] \/ cookie'[b] = NoState
  BY <1>1, <1>2 DEF TypeOK, ClearCookie
<1>4. /\ pc'[h] = "idle" /\ sent'[h] = NoState
      /\ \A g \in Handlers \ {h} :
            /\ pc'[g] = pc[g] /\ snap'[g] = snap[g] /\ by'[g] = by[g]
            /\ sent'[g] = sent[g] /\ tok'[g] = tok[g] /\ attempt'[g] = attempt[g]
  BY <1>1, Ended
<1>5. TypeOK'
  BY <1>1, <1>3, Ended DEF TypeOK, runtimeVars, Smaller
<1>6. StoreBounded'
  BY <1>1, SmallerBounded
<1>7. NoState \notin DOMAIN attempts'
  BY <1>1, PanelAssumption DEF TypeOK, Smaller
<1>8. Held'
  BY <1>1, <1>3, <1>4 DEF Held, runtimeVars, Taken, Callback
<1>9. Numbered'
  BY <1>1, <1>4 DEF Numbered, runtimeVars, Taken, Smaller
<1>10. Earlier'
  BY <1>1, <1>4 DEF Earlier, runtimeVars, Taken, Smaller
<1>11. Mine'
  BY <1>1, <1>3, <1>4, <1>7 DEF Mine, Taken, Smaller
<1>12. Consumed'
  BY <1>1, <1>4 DEF Consumed, Taken, Smaller
<1>13. OneConfiguration' /\ OwnLogin'
  BY <1>1 DEF OneConfiguration, OwnLogin
<1>14. QED
  BY <1>5, <1>6, <1>8, <1>9, <1>10, <1>11, <1>12, <1>13 DEF PanelInv

\* authorize puts its attempt under a fresh state and answers.
LEMMA PutStep ==
    ASSUME PanelInv, NEW h \in Handlers, NEW s \in OAuthStates, AuthorizePut(h, s)
    PROVE  PanelInv'
<1>1. /\ TypeOK /\ StoreBounded /\ Held /\ Numbered /\ Earlier /\ Mine /\ Consumed
      /\ OneConfiguration /\ OwnLogin
  BY DEF PanelInv
<1>2. /\ pc[h] = "put" /\ s \notin issued /\ Finish(h)
      /\ UNCHANGED <<now, runtimeVars, sessions>>
      /\ attempt[h] \in Attempts /\ by[h] \in Browsers /\ at[h] \in Nat
  BY <1>1, PanelAssumption DEF AuthorizePut, Held, TypeOK
<1>3. CASE putRefused(at[h]) /\ UNCHANGED <<issued, cookie>>
  <2>1. Smaller
    BY <1>1, <1>3, SmallerStore DEF putRefused, pruneLocked, TypeOK, Restricted
  <2>2. QED
    BY <1>2, <1>3, <2>1, LeaveStep
<1>4. CASE /\ put(s, attempt[h], at[h])
           /\ issued' = issued \cup {s}
           /\ cookie' \in {cookie, [cookie EXCEPT ![by[h]] = s]}
  <2>1. /\ StoreBounded'
        /\ s \in DOMAIN attempts' /\ attempts'[s] = attempt[h]
        /\ DOMAIN attempts' \subseteq DOMAIN attempts \cup {s}
        /\ \A x \in DOMAIN attempts' \ {s} : attempts'[x] = attempts[x]
        /\ attempts' \in [DOMAIN attempts' -> Attempts]
    BY <1>1, <1>2, <1>4, PutStore
  <2>2. /\ cookie' \in [Browsers -> OAuthStates \cup {NoState}]
        /\ \A b \in Browsers : cookie'[b] = cookie[b] \/ (b = by[h] /\ cookie'[b] = s)
    BY <1>1, <1>2, <1>4 DEF TypeOK
  <2>3. /\ pc'[h] = "idle" /\ sent'[h] = NoState
        /\ \A g \in Handlers \ {h} :
              /\ pc'[g] = pc[g] /\ snap'[g] = snap[g] /\ by'[g] = by[g]
              /\ sent'[g] = sent[g] /\ tok'[g] = tok[g] /\ attempt'[g] = attempt[g]
    BY <1>1, <1>2, Ended
  <2>4. TypeOK'
    BY <1>1, <1>2, <1>4, <2>1, <2>2, Ended DEF TypeOK, runtimeVars
  <2>5. Held'
    BY <1>1, <1>2, <1>4, <2>2, <2>3 DEF Held, runtimeVars, Taken, Callback
  <2>6. Numbered'
    BY <1>1, <1>2, <2>1, <2>3 DEF Numbered, runtimeVars, Taken
  <2>7. Earlier'
    BY <1>1, <1>2, <2>1, <2>3 DEF Earlier, Held, runtimeVars, Taken, Callback
  <2>8. s # NoState
    BY PanelAssumption
  <2>9. Mine'
    BY <1>1, <1>2, <2>1, <2>2, <2>3, <2>8 DEF Mine, Held, Taken
  <2>10. Consumed'
    BY <1>1, <1>2, <1>4, <2>1, <2>3 DEF Consumed, Held, Taken, Callback
  <2>11. OneConfiguration' /\ OwnLogin'
    BY <1>1, <1>2 DEF OneConfiguration, OwnLogin
  <2>12. QED
    BY <2>1, <2>4, <2>5, <2>6, <2>7, <2>9, <2>10, <2>11 DEF PanelInv
<1>5. QED
  BY <1>3, <1>4 DEF AuthorizePut

\* A handler that goes on with the store, its answer and its locals as they are.
LEMMA GotoStep ==
    ASSUME PanelInv, NEW h \in Handlers, NEW step \in {"take", "exchange"},
           Goto(h, step), UNCHANGED <<now, storeVars, runtimeVars, attempt, sessions>>,
           at' \in [Handlers -> 0..MaxTime],
           \/ step = "take" /\ pc[h] = "callback" /\ sent[h] = tok[h]
           \/ step = "exchange" /\ pc[h] = "check" /\ attempt[h].Generation = cur.generation
    PROVE  PanelInv'
<1>1. /\ TypeOK /\ StoreBounded /\ Held /\ Numbered /\ Earlier /\ Mine /\ Consumed
      /\ OneConfiguration /\ OwnLogin
  BY DEF PanelInv
<1>2. /\ pc' = [pc EXCEPT ![h] = step]
      /\ UNCHANGED <<snap, by, sent, tok>>
  BY DEF Goto
<1>3. TypeOK'
  BY <1>1, <1>2 DEF TypeOK, storeVars, runtimeVars
<1>4. StoreBounded' /\ OneConfiguration' /\ OwnLogin'
  BY <1>1 DEF StoreBounded, OneConfiguration, OwnLogin, storeVars
<1>5. Held'
  BY <1>1, <1>2 DEF TypeOK, Held, storeVars, runtimeVars, Taken, Callback
<1>6. Numbered'
  BY <1>1, <1>2 DEF TypeOK, Numbered, storeVars, runtimeVars, Taken
<1>7. step = "exchange" => attempt[h].uid = snap[h].uid
  <2>1. SUFFICES ASSUME step = "exchange"
                 PROVE  attempt[h].uid = snap[h].uid
    OBVIOUS
  <2>2. /\ attempt[h].uid \in Nat /\ attempt[h].Generation \in Nat /\ snap[h].uid \in Nat
        /\ cur.uid \in Nat /\ cur.generation \in Nat /\ built \in Nat /\ nextGen \in Nat
    BY <1>1, <2>1, PanelAssumption DEF Held, TypeOK, RuntimeStates, Attempts, Taken
  <2>3. attempt[h].uid = cur.uid
    BY <1>1, <2>1, <2>2 DEF Numbered, Taken
  <2>4. attempt[h].uid <= snap[h].uid /\ snap[h].uid <= cur.uid
    BY <1>1, <2>1 DEF Earlier, Taken
  <2>5. QED
    BY <2>2, <2>3, <2>4
<1>8. Earlier'
  BY <1>1, <1>2, <1>7 DEF TypeOK, Earlier, storeVars, runtimeVars, Taken
<1>9. Mine'
  BY <1>1, <1>2 DEF TypeOK, Mine, storeVars, Taken
<1>10. Consumed'
  BY <1>1, <1>2 DEF TypeOK, Consumed, storeVars, Taken
<1>11. QED
  BY <1>3, <1>4, <1>5, <1>6, <1>8, <1>9, <1>10 DEF PanelInv

\* A callback takes the attempt of its state out of the store.
LEMMA TakeStep ==
    ASSUME PanelInv, NEW h \in Handlers, CallbackTake(h)
    PROVE  PanelInv'
<1>1. /\ TypeOK /\ StoreBounded /\ Held /\ Numbered /\ Earlier /\ Mine /\ Consumed
      /\ OneConfiguration /\ OwnLogin
  BY DEF PanelInv
<1> DEFINE P == DOMAIN pruneLocked(at[h])
<1>2. P \subseteq DOMAIN attempts
  BY DEF pruneLocked, Restricted
<1>3. /\ pc[h] = "take"
      /\ attempts' = Restricted(P \ {tok[h]})
      /\ UNCHANGED <<now, issued, runtimeVars, sessions>>
  BY DEF CallbackTake, take
<1>4. Smaller /\ DOMAIN attempts' = P \ {tok[h]}
  BY <1>1, <1>2, <1>3, SmallerStore DEF TypeOK
<1>5. CASE tok[h] \notin P /\ Finish(h) /\ ClearCookie(h)
  BY <1>3, <1>4, <1>5, LeaveStep
<1>6. CASE /\ tok[h] \in P
           /\ attempt' = [attempt EXCEPT ![h] = attempts[tok[h]]]
           /\ Goto(h, "check")
           /\ UNCHANGED <<at, cookie>>
  <2>1. /\ tok[h] \in DOMAIN attempts /\ tok[h] \notin DOMAIN attempts'
        /\ attempts[tok[h]] \in Attempts
    BY <1>1, <1>2, <1>4, <1>6 DEF TypeOK
  <2>2. /\ pc' = [pc EXCEPT ![h] = "check"]
        /\ attempt' = [attempt EXCEPT ![h] = attempts[tok[h]]]
        /\ UNCHANGED <<snap, by, sent, tok, at, cookie>>
    BY <1>6 DEF Goto
  <2> HIDE DEF P
  <2>3. TypeOK'
    BY <1>1, <1>3, <1>4, <2>1, <2>2 DEF TypeOK, runtimeVars, Smaller
  <2>4. StoreBounded' /\ OneConfiguration' /\ OwnLogin'
    BY <1>1, <1>3, <1>4, SmallerBounded DEF OneConfiguration, OwnLogin
  <2>5. /\ pc'[h] = "check" /\ attempt'[h] = attempts[tok[h]]
        /\ \A g \in Handlers : g # h => pc'[g] = pc[g] /\ attempt'[g] = attempt[g]
    BY <1>1, <2>2 DEF TypeOK
  <2>6. /\ UNCHANGED <<cur, pending, nextGen, built, issued, sessions, snap, by, sent, tok, cookie>>
        /\ \A s \in DOMAIN attempts' : s \in DOMAIN attempts /\ attempts'[s] = attempts[s]
    BY <1>3, <1>4, <2>2 DEF runtimeVars, Smaller
  <2>7. Held'
    BY <1>1, <1>3, <2>1, <2>5, <2>6 DEF Held, Taken, Callback
  <2>8. Numbered'
    <3>1. attempts[tok[h]].uid + nextGen = attempts[tok[h]].Generation + built
      BY <1>1, <2>1 DEF Numbered
    <3>2. QED
      BY <1>1, <2>5, <2>6, <3>1 DEF Numbered, Taken
  <2>9. Earlier'
    <3>1. attempts[tok[h]].uid <= snap[h].uid
      BY <1>1, <1>3, <2>1 DEF Earlier
    <3>2. QED
      BY <1>1, <1>3, <2>5, <2>6, <3>1 DEF Earlier, Taken
  <2>10. Mine'
    <3>1. attempts[tok[h]].by = by[h]
      BY <1>1, <1>3, <2>1 DEF Mine, Held
    <3>2. QED
      BY <1>1, <2>5, <2>6, <3>1 DEF Mine, Taken
  <2>11. Consumed'
    <3>1. \A g \in Handlers : pc[g] \in Taken => tok[g] # tok[h]
      BY <1>1, <2>1 DEF Consumed
    <3>2. \A x \in sessions : x.state # tok[h]
      BY <1>1, <2>1 DEF Consumed
    <3>3. QED
      BY <1>1, <2>1, <2>5, <2>6, <3>1, <3>2 DEF Consumed, Taken
  <2>12. QED
    BY <2>3, <2>4, <2>7, <2>8, <2>9, <2>10, <2>11 DEF PanelInv
<1>7. QED
  BY <1>5, <1>6 DEF CallbackTake

\* The cookie is compared, and the attempt's generation: refused or on.
LEMMA CompareStep ==
    ASSUME PanelInv, NEW h \in Handlers, CallbackCookie(h) \/ CallbackCheck(h)
    PROVE  PanelInv'
<1>1. TypeOK
  BY DEF PanelInv
<1>2. attempts' = attempts => Smaller
  BY <1>1 DEF TypeOK, Smaller
<1>3. CASE Finish(h)
  <2>1. /\ pc[h] # "idle" /\ attempts' = attempts
        /\ cookie' = cookie \/ ClearCookie(h)
        /\ UNCHANGED <<now, issued, runtimeVars, sessions>>
    BY <1>1, <1>3 DEF TypeOK, CallbackCookie, CallbackCheck, storeVars, Finish, Goto
  <2>2. QED
    BY <1>2, <1>3, <2>1, LeaveStep
<1>4. CASE CallbackCookie(h) /\ ~Finish(h)
  <2>1. /\ Goto(h, "take") /\ UNCHANGED <<now, storeVars, runtimeVars, attempt, sessions>>
        /\ at' = [at EXCEPT ![h] = now]
        /\ pc[h] = "callback" /\ sent[h] = tok[h]
    BY <1>4 DEF CallbackCookie
  <2>2. at' \in [Handlers -> 0..MaxTime]
    BY <1>1, <2>1 DEF TypeOK
  <2>3. QED
    BY <2>1, <2>2, GotoStep
<1>5. CASE CallbackCheck(h) /\ ~Finish(h)
  <2>1. /\ Goto(h, "exchange") /\ UNCHANGED <<now, storeVars, runtimeVars, attempt, sessions>>
        /\ UNCHANGED at
        /\ pc[h] = "check" /\ attempt[h].Generation = cur.generation
    BY <1>5 DEF CallbackCheck, storeVars
  <2>2. at' \in [Handlers -> 0..MaxTime]
    BY <1>1, <2>1 DEF TypeOK
  <2>3. QED
    BY <2>1, <2>2, GotoStep
<1>6. QED
  BY <1>3, <1>4, <1>5

\* The session a callback issues: typed, of the attempt's state, configuration
\* and browser.
LEMMA SessionFields ==
    ASSUME PanelInv, NEW h \in Handlers, NEW actor \in Actors, pc[h] = "exchange"
    PROVE  /\ Session(h, actor) \in Sessions
           /\ Session(h, actor).state = tok[h]
           /\ Session(h, actor).attempt.uid = Session(h, actor).uid
           /\ Session(h, actor).attempt.by = Session(h, actor).by
<1>1. /\ snap[h] \in RuntimeStates /\ by[h] \in Browsers /\ attempt[h] \in Attempts
      /\ tok[h] \in OAuthStates
  BY DEF PanelInv, TypeOK, Held, Taken, Callback
<1>2. snap[h].cfg \in PanelConfig /\ snap[h].uid \in 1..MaxStates
  BY <1>1, PanelAssumption DEF RuntimeStates
<1>3. snap[h].cfg.TokenTTL \in Nat /\ snap[h].cfg.realm \in {"a", "b"}
  BY <1>2 DEF PanelConfig
<1>4. now \in Nat /\ secret \in Secrets /\ at[h] \in Nat
  BY PanelAssumption DEF PanelInv, TypeOK
<1>5. now + snap[h].cfg.TokenTTL \in Nat
  BY <1>3, <1>4
<1>6. Session(h, actor) \in Sessions
  BY <1>1, <1>2, <1>3, <1>4, <1>5 DEF Session, Sessions
<1>7. attempt[h].uid = snap[h].uid /\ attempt[h].by = by[h]
  BY DEF PanelInv, Earlier, Mine, Taken
<1>8. QED
  BY <1>6, <1>7 DEF Session

\* The exchange ends, with a session or without.
LEMMA ExchangeStep ==
    ASSUME PanelInv, NEW h \in Handlers, NEW actor \in Actors, CallbackExchanged(h, actor)
    PROVE  PanelInv'
<1>1. /\ TypeOK /\ StoreBounded /\ Held /\ Numbered /\ Earlier /\ Mine /\ Consumed
      /\ OneConfiguration /\ OwnLogin
  BY DEF PanelInv
<1>2. /\ pc[h] = "exchange" /\ Finish(h) /\ ClearCookie(h)
      /\ UNCHANGED <<now, attempts, issued, runtimeVars>>
  BY DEF CallbackExchanged
<1>3. Smaller
  BY <1>1, <1>2 DEF TypeOK, Smaller
<1>4. CASE UNCHANGED sessions
  BY <1>2, <1>3, <1>4, LeaveStep
<1>5. CASE sessions' = sessions \cup {Session(h, actor)}
  <2> DEFINE x == Session(h, actor)
  <2>1. /\ x \in Sessions /\ x.state = tok[h]
        /\ x.attempt.uid = x.uid /\ x.attempt.by = x.by
    BY <1>2, SessionFields
  <2>2. sessions' = sessions \cup {x}
    BY <1>5
  <2> HIDE DEF x
  <2>3. by[h] \in Browsers /\ tok[h] \in issued
    BY <1>1, <1>2 DEF Held, Callback
  <2>4. /\ cookie' \in [Browsers -> OAuthStates \cup {NoState}]
        /\ \A b \in Browsers : cookie'[b] = cookie[b] \/ cookie'[b] = NoState
    BY <1>1, <1>2, <2>3 DEF TypeOK, ClearCookie
  <2>5. /\ pc'[h] = "idle" /\ sent'[h] = NoState
        /\ \A g \in Handlers \ {h} :
              /\ pc'[g] = pc[g] /\ snap'[g] = snap[g] /\ by'[g] = by[g]
              /\ sent'[g] = sent[g] /\ tok'[g] = tok[g] /\ attempt'[g] = attempt[g]
    BY <1>1, <1>2, Ended
  <2>6. TypeOK'
    BY <1>1, <1>2, <2>1, <2>2, <2>4, Ended DEF TypeOK, runtimeVars
  <2>7. StoreBounded'
    BY <1>1, <1>3, SmallerBounded
  <2>8. OneConfiguration' /\ OwnLogin'
    BY <1>1, <2>1, <2>2 DEF OneConfiguration, OwnLogin
  <2>9. NoState \notin DOMAIN attempts
    BY <1>1, PanelAssumption DEF TypeOK
  <2>10. Held'
    BY <1>1, <1>2, <2>4, <2>5 DEF Held, runtimeVars, Taken, Callback
  <2>11. Numbered'
    BY <1>1, <1>2, <2>5 DEF Numbered, runtimeVars, Taken
  <2>12. Earlier'
    BY <1>1, <1>2, <2>5 DEF Earlier, runtimeVars, Taken
  <2>13. Mine'
    BY <1>1, <1>2, <2>4, <2>5, <2>9 DEF Mine, Taken
  <2>14. Consumed'
    BY <1>1, <1>2, <2>1, <2>2, <2>3, <2>5 DEF Consumed, Taken
  <2>15. QED
    BY <2>6, <2>7, <2>8, <2>10, <2>11, <2>12, <2>13, <2>14 DEF PanelInv
<1>6. QED
  BY <1>4, <1>5 DEF CallbackExchanged

\* A reload clears the store before it installs the state it built.
LEMMA ReloadStep ==
    ASSUME PanelInv, ReloadStore \/ \E c \in Configs : ReloadClear(c)
    PROVE  PanelInv'
<1>1. /\ TypeOK /\ StoreBounded /\ Held /\ Numbered /\ Earlier /\ Mine /\ Consumed
      /\ OneConfiguration /\ OwnLogin
  BY DEF PanelInv
<1>2. /\ cur.uid \in Nat /\ cur.generation \in Nat /\ built \in Nat /\ nextGen \in Nat
      /\ \A s \in DOMAIN attempts : attempts[s].uid \in Nat /\ attempts[s].Generation \in Nat
      /\ \A h \in Handlers : pc[h] # "idle" => snap[h].uid \in Nat
      /\ \A h \in Handlers : pc[h] \in Taken \cup {"put"} =>
            attempt[h].uid \in Nat /\ attempt[h].Generation \in Nat
  BY <1>1, PanelAssumption DEF TypeOK, Held, RuntimeStates, Attempts
<1>3. CASE ReloadStore
  <2>1. /\ pending # Nothing /\ cur' = pending /\ pending' = Nothing
        /\ pending \in RuntimeStates
        /\ pending.uid = built /\ pending.generation = nextGen
        /\ UNCHANGED <<now, nextGen, built, secret, storeVars, handlerVars, sessions>>
    BY <1>1, <1>3 DEF ReloadStore, TypeOK, Numbered
  <2>2. TypeOK'
    BY <1>1, <2>1 DEF TypeOK, storeVars, handlerVars
  <2>3. StoreBounded' /\ OneConfiguration' /\ OwnLogin'
    BY <1>1, <2>1 DEF StoreBounded, OneConfiguration, OwnLogin, storeVars
  <2>4. Held'
    BY <1>1, <2>1 DEF Held, storeVars, handlerVars
  <2>5. Numbered'
    BY <1>1, <1>2, <2>1 DEF Numbered, storeVars, handlerVars
  <2>6. Earlier'
    BY <1>1, <1>2, <2>1 DEF Earlier, storeVars, handlerVars, Taken
  <2>7. Mine' /\ Consumed'
    BY <1>1, <2>1 DEF Mine, Consumed, storeVars, handlerVars
  <2>8. QED
    BY <2>2, <2>3, <2>4, <2>5, <2>6, <2>7 DEF PanelInv
<1>4. CASE \E c \in Configs : ReloadClear(c)
  <2>1. PICK c \in Configs : ReloadClear(c)
    BY <1>4
  <2>2. /\ built < MaxStates /\ nextGen' = nextGen + 1 /\ built' = built + 1
        /\ pending' = [uid |-> built + 1, generation |-> nextGen + 1, cfg |-> c]
        /\ attempts' = Restricted({})
        /\ UNCHANGED <<now, cur, secret, issued, cookie, handlerVars, sessions>>
    BY <2>1 DEF ReloadClear
  <2>3. Smaller /\ DOMAIN attempts' = {}
    BY <1>1, <2>2, SmallerStore DEF TypeOK
  <2>4. nextGen + 1 \in 1..MaxStates /\ built + 1 \in 1..MaxStates
    BY <1>1, <1>2, <2>2, PanelAssumption DEF TypeOK, Held
  <2>5. pending' \in RuntimeStates
    BY <2>2, <2>4 DEF RuntimeStates
  <2>6. TypeOK'
    BY <1>1, <2>2, <2>3, <2>4, <2>5 DEF TypeOK, handlerVars, Smaller
  <2>7. StoreBounded' /\ OneConfiguration' /\ OwnLogin'
    BY <1>1, <2>2, <2>3, SmallerBounded DEF OneConfiguration, OwnLogin
  <2>8. Held'
    BY <1>1, <1>2, <2>2 DEF Held, handlerVars
  <2>9. Numbered'
    <3>1. cur'.uid + nextGen' = cur'.generation + built'
      BY <1>1, <1>2, <2>2 DEF Numbered
    <3>2. pending'.uid = built' /\ pending'.generation = nextGen'
      BY <2>2
    <3>3. ASSUME NEW h \in Handlers, pc[h] \in Taken \cup {"put"}
          PROVE  attempt[h].uid + nextGen' = attempt[h].Generation + built'
      BY <1>1, <1>2, <2>2, <3>3 DEF Numbered
    <3>4. QED
      BY <2>2, <2>3, <3>1, <3>2, <3>3 DEF Numbered, handlerVars
  <2>10. Earlier'
    BY <1>1, <1>2, <2>2, <2>3 DEF Earlier, handlerVars
  <2>11. Mine' /\ Consumed'
    BY <1>1, <2>2, <2>3 DEF Mine, Consumed, handlerVars
  <2>12. QED
    BY <2>6, <2>7, <2>8, <2>9, <2>10, <2>11 DEF PanelInv
<1>5. QED
  BY <1>3, <1>4

\* A restart forgets the store and the handlers; sessions stay with browsers.
LEMMA RestartStep ==
    ASSUME PanelInv, NEW c \in Configs, NEW k \in Secrets, Restart(c, k)
    PROVE  PanelInv'
<1>1. /\ TypeOK /\ StoreBounded /\ Held /\ Numbered /\ Earlier /\ Mine /\ Consumed
      /\ OneConfiguration /\ OwnLogin
  BY DEF PanelInv
<1>2. /\ built < MaxStates /\ built' = built + 1 /\ nextGen' = 1
      /\ cur' = [uid |-> built + 1, generation |-> 1, cfg |-> c]
      /\ pending' = Nothing /\ attempts' = Restricted({})
      /\ UNCHANGED <<now, issued, cookie, sessions>>
      /\ \A h \in Handlers : pc'[h] = "idle" /\ sent'[h] = NoState
  BY DEF Restart
<1>3. Smaller /\ DOMAIN attempts' = {}
  BY <1>1, <1>2, SmallerStore DEF TypeOK
<1>4. built \in Nat /\ built + 1 \in 1..MaxStates /\ 1 \in 1..MaxStates
  BY <1>1, <1>2, PanelAssumption DEF TypeOK
<1>5. cur' \in RuntimeStates
  BY <1>2, <1>4 DEF RuntimeStates
<1>6. TypeOK'
  BY <1>1, <1>2, <1>3, <1>4, <1>5, PanelAssumption DEF TypeOK, Smaller, Restart
<1>7. StoreBounded' /\ OneConfiguration' /\ OwnLogin'
  BY <1>1, <1>2, <1>3, SmallerBounded DEF OneConfiguration, OwnLogin
<1>8. Held'
  BY <1>1, <1>2, <1>4 DEF Held, Taken, Callback
<1>9. Numbered' /\ Earlier'
  BY <1>2, <1>3, <1>4 DEF Numbered, Earlier, Taken
<1>10. Mine' /\ Consumed'
  BY <1>1, <1>2, <1>3 DEF Mine, Consumed, Taken
<1>11. QED
  BY <1>6, <1>7, <1>8, <1>9, <1>10 DEF PanelInv

\* Every step preserves the invariant.
LEMMA PanelStep == PanelInv /\ [Next]_vars => PanelInv'
<1> SUFFICES ASSUME PanelInv, [Next]_vars PROVE PanelInv'
  OBVIOUS
<1>1. ASSUME NEW h \in Handlers, Step(h) PROVE PanelInv'
  BY <1>1, StartStep, LoadStep, PutStep, CompareStep, TakeStep, ExchangeStep DEF Step
<1>2. ASSUME NEW c \in Configs, NEW k \in Secrets, Restart(c, k) PROVE PanelInv'
  BY <1>2, RestartStep
<1>3. CASE ReloadStore \/ \E c \in Configs : ReloadClear(c)
  BY <1>3, ReloadStep
<1>4. CASE Tick
  <2>1. UNCHANGED <<storeVars, runtimeVars, handlerVars, sessions>>
    BY <1>4 DEF Tick
  <2>2. now' \in 0..MaxTime
    BY <1>4, PanelAssumption DEF Tick, PanelInv, TypeOK
  <2>3. QED
    BY <2>1, <2>2 DEF PanelInv, TypeOK, StoreBounded, OneConfiguration, OwnLogin, Held, Numbered,
       Earlier, Mine, Consumed, storeVars, runtimeVars, handlerVars
<1>5. CASE UNCHANGED vars
  BY <1>5 DEF vars, PanelInv, TypeOK, StoreBounded, OneConfiguration, OwnLogin, Held, Numbered,
     Earlier, Mine, Consumed, storeVars, runtimeVars, handlerVars
<1>6. QED
  BY <1>1, <1>2, <1>3, <1>4, <1>5 DEF Next

\* The process starts with an empty store and idle handlers.
LEMMA PanelInit == Init => PanelInv
<1> SUFFICES ASSUME Init PROVE PanelInv
  OBVIOUS
<1>1. 1 \in 1..MaxStates /\ 0 \in 0..MaxTime /\ Configs \subseteq PanelConfig
  BY PanelAssumption
<1>2. cur \in RuntimeStates /\ cur.uid = 1 /\ cur.generation = 1
  BY <1>1 DEF Init, RuntimeStates
<1>3. DOMAIN attempts = {} /\ attempts \in [DOMAIN attempts -> Attempts]
  BY DEF Init
<1>4. TypeOK
  BY <1>1, <1>2, <1>3 DEF Init, TypeOK
<1>5. StoreBounded
  BY <1>3, FS_EmptySet, PanelAssumption DEF StoreBounded
<1>6. Held /\ Numbered /\ Earlier /\ Mine /\ Consumed
  BY <1>2, <1>3 DEF Init, Held, Numbered, Earlier, Mine, Consumed, Taken, Callback
<1>7. OneConfiguration /\ OwnLogin
  BY DEF Init, OneConfiguration, OwnLogin
<1>8. QED
  BY <1>4, <1>5, <1>6, <1>7 DEF PanelInv

\* The invariant holds in every behaviour.
LEMMA PanelInvariance == Spec => []PanelInv
  BY PanelInit, PanelStep, PTL DEF Spec

-----------------------------------------------------------------------------
(* The theorems. *)

\* Every variable keeps its type; in particular a handler past the store holds
\* an attempt the store really had.
THEOREM PanelTypes == Spec => []TypeOK
<1>1. PanelInv => TypeOK
  BY DEF PanelInv
<1>2. QED
  BY <1>1, PanelInvariance, PTL

\* The store of login attempts never holds more than max of them, however many
\* authorize handlers are between the pruning and the insertion.
THEOREM StoreStaysBounded == Spec => []StoreBounded
<1>1. PanelInv => StoreBounded
  BY DEF PanelInv
<1>2. QED
  BY <1>1, PanelInvariance, PTL

\* One login attempt gives at most one session, whoever repeats its callback
\* and whatever reloads and restarts fall in between.
THEOREM AttemptUsedOnce == Spec => []SingleUse
<1>1. PanelInv => SingleUse
  <2> SUFFICES ASSUME PanelInv, NEW s \in OAuthStates
               PROVE  /\ Cardinality(Consumers(s)) <= 1
                      /\ Consumers(s) # {} => s \notin DOMAIN attempts
    BY DEF SingleUse
  <2>1. \A x, y \in Consumers(s) : x = y
    BY DEF PanelInv, Consumed, Consumers, Taken
  <2>2. Consumers(s) # {} => s \notin DOMAIN attempts
    BY DEF PanelInv, Consumed, Consumers, Taken
  <2>3. CASE Consumers(s) = {}
    BY <2>3, FS_EmptySet
  <2>4. CASE Consumers(s) # {}
    <3>1. PICK x : Consumers(s) = {x}
      BY <2>1, <2>4
    <3>2. Cardinality(Consumers(s)) = 1
      BY <3>1, FS_Singleton
    <3>3. QED
      BY <2>2, <3>2
  <2>5. QED
    BY <2>2, <2>3, <2>4
<1>2. QED
  BY <1>1, PanelInvariance, PTL

\* The configuration a session is issued from is the one its login began under,
\* although callback compares no more than a generation number.
THEOREM LoginUnderOneConfiguration == Spec => []OneConfiguration
<1>1. PanelInv => OneConfiguration
  BY DEF PanelInv
<1>2. QED
  BY <1>1, PanelInvariance, PTL

\* A session is given to the browser that began the login, and to no other.
THEOREM SessionToItsBrowser == Spec => []OwnLogin
<1>1. PanelInv => OwnLogin
  BY DEF PanelInv
<1>2. QED
  BY <1>1, PanelInvariance, PTL

\* A session that is accepted is no older than the lifetime of the accepting
\* configuration and the clock skew.
THEOREM AcceptedSessionsAreYoung == Spec => []SessionAge
<1>1. PanelInv => SessionAge
  <2> SUFFICES ASSUME PanelInv, NEW x \in sessions, ValidatePanelSession(cur.cfg, x, now)
               PROVE  now < x.IssuedAt + cur.cfg.TokenTTL + Skew
    BY DEF SessionAge
  <2>1. x.IssuedAt \in Nat /\ x.ExpiresAt \in Nat /\ now \in Nat /\ Skew \in Nat
    BY PanelAssumption DEF PanelInv, TypeOK, Sessions
  <2>2. cur.cfg.TokenTTL \in Nat
    BY PanelAssumption DEF PanelInv, TypeOK, RuntimeStates, PanelConfig
  <2>3. QED
    BY <2>1, <2>2 DEF ValidatePanelSession
<1>2. QED
  BY <1>1, PanelInvariance, PTL


=============================================================================
