------------------------------ MODULE RateLimit ------------------------------
(***************************************************************************)
(* The fixed-window rate limiter of internal/ratelimit/limit.go as the     *)
(* handlers use it: one limiter per runtime state, callers that read the   *)
(* clock before they queue for its mutex, and reloads that start over with *)
(* empty buckets while earlier callers still hold the limiter they loaded. *)
(***************************************************************************)
EXTENDS Naturals

CONSTANTS Callers,  \* handler goroutines
          Keys,     \* token ids or client addresses
          limit,    \* requests per window (a rate of 0 means no limiter at all)
          window,   \* window length in clock ticks
          MaxTime,  \* bound: clock
          MaxGen    \* bound: runtime states, one per reload

ASSUME RateAssumption ==
    /\ limit \in Nat \ {0}
    /\ window \in Nat \ {0}
    /\ MaxTime \in Nat
    /\ MaxGen \in Nat \ {0}

Generations == 1..MaxGen

\* The zero bucket of a key never seen; a real one has a positive count.
ZeroBucket == [start |-> 0, count |-> 0]

VARIABLES
    now,
    cur,              \* generation of the current runtime state
    buckets,          \* per runtime state and key
    pc, key, gen, at, \* per caller: step, key, loaded state, clock reading
    admitted, first   \* per state and key: calls let through, start of the first window

callerVars == <<pc, key, gen, at>>
vars == <<now, cur, buckets, callerVars, admitted, first>>

-----------------------------------------------------------------------------
\* A handler has loaded its runtime state and reaches the limiter.
Call(c, k) ==
    /\ pc[c] = "idle"
    /\ pc' = [pc EXCEPT ![c] = "call"]
    /\ key' = [key EXCEPT ![c] = k]
    /\ gen' = [gen EXCEPT ![c] = cur]
    /\ UNCHANGED <<now, cur, buckets, at, admitted, first>>

\* Allow reads the clock before it takes the mutex.
ReadClock(c) ==
    /\ pc[c] = "call"
    /\ pc' = [pc EXCEPT ![c] = "locked"]
    /\ at' = [at EXCEPT ![c] = now]
    /\ UNCHANGED <<now, cur, buckets, key, gen, admitted, first>>

\* A window is opened by the first call and by one a window length later; a
\* clock reading older than the window's start belongs to the open window.
Opens_ClockBackwards(b, t) == b.count = 0 \/ t < b.start \/ t >= b.start + window

Opens(b, t) == b.count = 0 \/ t >= b.start + window

\* The bucket after a call, and whether the call is let through.
Allow_OffByOne(b, t) ==
    CASE Opens(b, t)       -> [ok |-> TRUE,  bucket |-> [start |-> t, count |-> 1]]
      [] ~Opens(b, t) /\ b.count > limit -> [ok |-> FALSE, bucket |-> b]
      [] ~Opens(b, t) /\ b.count <= limit  -> [ok |-> TRUE,  bucket |-> [b EXCEPT !.count = @ + 1]]

Allow(b, t) ==
    CASE Opens(b, t)       -> [ok |-> TRUE,  bucket |-> [start |-> t, count |-> 1]]
      [] ~Opens(b, t) /\ b.count >= limit -> [ok |-> FALSE, bucket |-> b]
      [] ~Opens(b, t) /\ b.count < limit  -> [ok |-> TRUE,  bucket |-> [b EXCEPT !.count = @ + 1]]

Decide(c) ==
    LET g == gen[c]
        k == key[c]
        answer == Allow(buckets[g][k], at[c])
    IN  /\ pc[c] = "locked"
        /\ buckets' = [buckets EXCEPT ![g][k] = answer.bucket]
        /\ admitted' = [admitted EXCEPT ![g][k] = IF answer.ok THEN @ + 1 ELSE @]
        /\ first' = [first EXCEPT ![g][k] =
                        IF buckets[g][k].count = 0 THEN at[c] ELSE @]
        /\ pc' = [pc EXCEPT ![c] = "idle"]
        /\ gen' = [gen EXCEPT ![c] = 1]
        /\ at' = [at EXCEPT ![c] = 0]
        /\ UNCHANGED <<now, cur, key>>

\* newLimitState starts with no buckets; the limiter of the old state lives on
\* in the handlers that loaded it.
Reload ==
    /\ cur < MaxGen
    /\ cur' = cur + 1
    /\ UNCHANGED <<now, buckets, callerVars, admitted, first>>

Tick ==
    /\ now < MaxTime
    /\ now' = now + 1
    /\ UNCHANGED <<cur, buckets, callerVars, admitted, first>>

-----------------------------------------------------------------------------
Init ==
    /\ now = 0
    /\ cur = 1
    /\ buckets = [g \in Generations |-> [k \in Keys |-> ZeroBucket]]
    /\ pc = [c \in Callers |-> "idle"]
    /\ key \in [Callers -> Keys]
    /\ gen = [c \in Callers |-> 1]
    /\ at = [c \in Callers |-> 0]
    /\ admitted = [g \in Generations |-> [k \in Keys |-> 0]]
    /\ first = [g \in Generations |-> [k \in Keys |-> 0]]

Next ==
    \/ \E c \in Callers : (\E k \in Keys : Call(c, k)) \/ ReadClock(c) \/ Decide(c)
    \/ Reload
    \/ Tick

Spec == Init /\ [][Next]_vars

-----------------------------------------------------------------------------
(* Properties *)

\* Every variable has its type; no bucket counts past the limit.
TypeOK ==
    /\ now \in 0..MaxTime
    /\ cur \in Generations
    /\ buckets \in [Generations -> [Keys -> [start : 0..MaxTime, count : 0..limit]]]
    /\ pc \in [Callers -> {"idle", "call", "locked"}]
    /\ key \in [Callers -> Keys]
    /\ gen \in [Callers -> Generations]
    /\ at \in [Callers -> 0..MaxTime]
    /\ admitted \in [Generations -> [Keys -> Nat]]
    /\ first \in [Generations -> [Keys -> 0..MaxTime]]

\* The rate holds in the long run: since the first call of a key under one
\* runtime state, at most limit calls per started window length were let
\* through, also when callers decide in another order than they read the clock
\* and a caller decides long after its reading.  Each reload starts one more
\* such account.
LongRunRate ==
    \A g \in Generations, k \in Keys :
        admitted[g][k] <= limit * ((now - first[g][k]) \div window + 1)

=============================================================================
