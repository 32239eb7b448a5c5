--------------------------- MODULE RateLimitProofs ---------------------------
(***************************************************************************)
(* The long-run rate of the limiter, for every limit, window, number of    *)
(* callers and keys, and every interleaving of clock readings and calls.   *)
(***************************************************************************)
EXTENDS RateLimit, TLAPS

\* Full windows that fit between the first start and the current one.
Past(g, k) == (buckets[g][k].start - first[g][k]) \div window

\* Every window but the open one is at least one window length long, and each
\* let at most limit calls through.
Account(g, k) ==
    IF buckets[g][k].count = 0 THEN admitted[g][k] = 0
    ELSE /\ first[g][k] <= buckets[g][k].start
         /\ buckets[g][k].start <= now
         /\ admitted[g][k] <= limit * Past(g, k) + buckets[g][k].count

RateInv ==
    /\ TypeOK
    /\ \A c \in Callers : at[c] <= now
    /\ \A g \in Generations, k \in Keys : first[g][k] <= now /\ Account(g, k)

-----------------------------------------------------------------------------
\* Integer division by a positive window.
LEMMA DivisionSteps ==
    ASSUME NEW w \in Nat \ {0}, NEW a \in Nat, NEW b \in Nat
    PROVE  /\ a \div w \in Nat
           /\ a <= b => a \div w <= b \div w
           /\ a + w <= b => a \div w + 1 <= b \div w
OBVIOUS

\* Multiplication by a natural number.
LEMMA Monotone ==
    ASSUME NEW l \in Nat, NEW a \in Nat, NEW b \in Nat, a <= b
    PROVE  l * a <= l * b /\ l * a \in Nat /\ l * (a + 1) = l * a + l
OBVIOUS

\* The account of a bucket survives a call.
LEMMA AllowAccount ==
    ASSUME NEW b \in [start : 0..MaxTime, count : 0..limit], NEW t \in 0..MaxTime,
           NEW n \in Nat, NEW f \in 0..MaxTime, NEW m \in Nat, t <= m,
           IF b.count = 0 THEN n = 0
           ELSE f <= b.start /\ b.start <= m /\ n <= limit * ((b.start - f) \div window) + b.count
    PROVE  LET a  == Allow(b, t)
               b2 == a.bucket
               n2 == IF a.ok THEN n + 1 ELSE n
               f2 == IF b.count = 0 THEN t ELSE f
           IN  /\ b2 \in [start : 0..MaxTime, count : 0..limit]
               /\ n2 \in Nat /\ f2 \in 0..MaxTime /\ b2.count # 0
               /\ f2 <= b2.start /\ b2.start <= m
               /\ n2 <= limit * ((b2.start - f2) \div window) + b2.count
<1> USE RateAssumption
<1>1. CASE b.count = 0
    <2>1. Allow(b, t) = [ok |-> TRUE, bucket |-> [start |-> t, count |-> 1]]
        BY <1>1 DEF Allow, Opens
    <2>2. (t - t) \div window \in Nat /\ limit * ((t - t) \div window) \in Nat
        BY DivisionSteps, Monotone
    <2>3. QED
        BY <1>1, <2>1, <2>2
<1>2. CASE b.count # 0 /\ Opens(b, t)
    <2>1. Allow(b, t) = [ok |-> TRUE, bucket |-> [start |-> t, count |-> 1]]
        BY <1>2 DEF Allow
    <2>2. b.start + window <= t
        BY <1>2 DEF Opens
    <2> DEFINE d == (b.start - f) \div window
               e == (t - f) \div window
    <2>3. d \in Nat /\ e \in Nat /\ d + 1 <= e
        <3>1. b.start - f \in Nat /\ t - f \in Nat /\ (b.start - f) + window <= t - f
            BY <1>2, <2>2
        <3>2. QED
            BY <3>1, DivisionSteps
    <2>4. limit * (d + 1) <= limit * e /\ limit * (d + 1) = limit * d + limit
          /\ limit * d \in Nat /\ limit * e \in Nat
        BY <2>3, Monotone
    <2> HIDE DEF d, e
    <2>5. n + 1 <= limit * e + 1
        BY <1>2, <2>4 DEF d
    <2>6. QED
        BY <1>2, <2>1, <2>2, <2>5 DEF e
<1>3. CASE b.count # 0 /\ ~Opens(b, t)
    <2>1. Allow(b, t) = IF b.count >= limit THEN [ok |-> FALSE, bucket |-> b]
                        ELSE [ok |-> TRUE, bucket |-> [b EXCEPT !.count = @ + 1]]
        BY <1>3 DEF Allow
    <2> DEFINE x == limit * ((b.start - f) \div window)
    <2>2. x \in Nat
        BY <1>3, DivisionSteps, Monotone
    <2> HIDE DEF x
    <2>3. n <= x + b.count
        BY <1>3 DEF x
    <2>4. CASE b.count >= limit
        BY <1>3, <2>1, <2>4
    <2>5. CASE b.count < limit
        <3>1. /\ Allow(b, t).ok /\ Allow(b, t).bucket.start = b.start
              /\ Allow(b, t).bucket.count = b.count + 1
              /\ Allow(b, t).bucket \in [start : 0..MaxTime, count : 0..limit]
            BY <2>1, <2>5
        <3>2. n + 1 <= x + (b.count + 1)
            BY <2>2, <2>3
        <3>3. QED
            BY <1>3, <3>1, <3>2 DEF x
    <2>6. QED
        BY <2>4, <2>5
<1>4. QED
    BY <1>1, <1>2, <1>3

\* RateInv holds initially.
LEMMA RateInit == Init => RateInv
BY RateAssumption DEF Init, RateInv, TypeOK, Account, ZeroBucket, Generations

\* RateInv is inductive.
LEMMA RateStep ==
    ASSUME RateInv, [Next]_vars
    PROVE  RateInv'
<1> USE RateAssumption DEF RateInv, TypeOK
<1>1. ASSUME NEW c \in Callers, NEW k \in Keys, Call(c, k) PROVE RateInv'
    BY <1>1 DEF Call, Account, Past
<1>2. ASSUME NEW c \in Callers, ReadClock(c) PROVE RateInv'
    BY <1>2 DEF ReadClock, Account, Past
<1>3. ASSUME NEW c \in Callers, Decide(c) PROVE RateInv'
    <2> SUFFICES ASSUME NEW g, NEW k, g = gen[c], k = key[c] PROVE RateInv'
        OBVIOUS
    <2> DEFINE b == buckets[g][k]
               a == Allow(b, at[c])
    <2>1. g \in Generations /\ k \in Keys /\ b \in [start : 0..MaxTime, count : 0..limit]
          /\ at[c] \in 0..MaxTime /\ at[c] <= now /\ now \in Nat
          /\ admitted[g][k] \in Nat /\ first[g][k] \in 0..MaxTime
        OBVIOUS
    <2>2. /\ a.bucket \in [start : 0..MaxTime, count : 0..limit] /\ a.bucket.count # 0
          /\ (IF a.ok THEN admitted[g][k] + 1 ELSE admitted[g][k]) \in Nat
          /\ (IF b.count = 0 THEN at[c] ELSE first[g][k]) \in 0..MaxTime
          /\ (IF b.count = 0 THEN at[c] ELSE first[g][k]) <= a.bucket.start
          /\ a.bucket.start <= now
          /\ (IF a.ok THEN admitted[g][k] + 1 ELSE admitted[g][k]) <=
                limit * ((a.bucket.start - (IF b.count = 0 THEN at[c] ELSE first[g][k])) \div window)
                + a.bucket.count
        <3>1. IF b.count = 0 THEN admitted[g][k] = 0
              ELSE /\ first[g][k] <= b.start /\ b.start <= now
                   /\ admitted[g][k] <= limit * ((b.start - first[g][k]) \div window) + b.count
            BY <2>1 DEF Account, Past
        <3>2. QED
            BY <2>1, <3>1, AllowAccount
    <2>3. /\ buckets' = [buckets EXCEPT ![g][k] = a.bucket]
          /\ admitted' = [admitted EXCEPT ![g][k] = IF a.ok THEN @ + 1 ELSE @]
          /\ first' = [first EXCEPT ![g][k] = IF b.count = 0 THEN at[c] ELSE @]
          /\ pc' = [pc EXCEPT ![c] = "idle"] /\ gen' = [gen EXCEPT ![c] = 1]
          /\ at' = [at EXCEPT ![c] = 0] /\ UNCHANGED <<now, cur, key>>
        BY <1>3 DEF Decide
    <2> HIDE DEF b, a
    <2>4. /\ buckets'[g][k] = a.bucket
          /\ admitted'[g][k] = (IF a.ok THEN admitted[g][k] + 1 ELSE admitted[g][k])
          /\ first'[g][k] = (IF b.count = 0 THEN at[c] ELSE first[g][k])
        BY <2>1, <2>3
    <2>5. \A h \in Generations, j \in Keys : ~(h = g /\ j = k) =>
             /\ buckets'[h][j] = buckets[h][j] /\ admitted'[h][j] = admitted[h][j]
             /\ first'[h][j] = first[h][j]
        BY <2>1, <2>3
    <2>6. TypeOK'
        <3>1. buckets' \in [Generations -> [Keys -> [start : 0..MaxTime, count : 0..limit]]]
            BY <2>1, <2>2, <2>3
        <3>2. admitted' \in [Generations -> [Keys -> Nat]]
            BY <2>1, <2>2, <2>3
        <3>3. first' \in [Generations -> [Keys -> 0..MaxTime]]
            BY <2>1, <2>2, <2>3
        <3>4. /\ pc' \in [Callers -> {"idle", "call", "locked"}] /\ key' \in [Callers -> Keys]
              /\ gen' \in [Callers -> Generations] /\ at' \in [Callers -> 0..MaxTime]
            <4>1. 1 \in Generations /\ 0 \in 0..MaxTime
                BY RateAssumption DEF Generations
            <4>2. QED
                BY <2>3, <4>1
        <3>5. now' \in 0..MaxTime /\ cur' \in Generations
            BY <2>3
        <3> HIDE DEF TypeOK
        <3>6. QED
            BY <3>1, <3>2, <3>3, <3>4, <3>5 DEF TypeOK
    <2>7. \A d \in Callers : at'[d] <= now'
        BY <2>3
    <2>8. first'[g][k] <= now' /\ Account(g, k)'
        <3>1. first'[g][k] <= now'
            BY <2>1, <2>2, <2>3, <2>4
        <3>2. QED
            BY <3>1, <2>2, <2>3, <2>4 DEF Account, Past
    <2>9. ASSUME NEW h \in Generations, NEW j \in Keys, ~(h = g /\ j = k)
          PROVE  first'[h][j] <= now' /\ Account(h, j)'
        BY <2>3, <2>5, <2>9 DEF Account, Past
    <2>10. QED
        BY <2>6, <2>7, <2>8, <2>9
<1>4. CASE Reload
    <2>1. cur' \in Generations
        BY <1>4 DEF Reload, Generations
    <2>2. UNCHANGED <<now, buckets, pc, key, gen, at, admitted, first>>
        BY <1>4 DEF Reload, callerVars
    <2>3. \A g \in Generations, k \in Keys : first[g][k] <= now' /\ Account(g, k)'
        BY <2>2 DEF Account, Past
    <2>4. QED
        BY <2>1, <2>2, <2>3
<1>5. CASE Tick
    BY <1>5 DEF Tick, callerVars, Account, Past
<1>6. CASE UNCHANGED vars
    BY <1>6 DEF vars, callerVars, Account, Past
<1>7. QED
    BY <1>1, <1>2, <1>3, <1>4, <1>5, <1>6 DEF Next

\* The long-run rate for every limit, window and set of callers: however the
\* clock readings of Allow are reordered before its mutex, a key gets at most
\* limit calls per started window under one runtime state.
THEOREM LongRun == Spec => []LongRunRate
<1>1. RateInv => LongRunRate
    <2> SUFFICES ASSUME RateInv, NEW g \in Generations, NEW k \in Keys
                 PROVE  admitted[g][k] <= limit * ((now - first[g][k]) \div window + 1)
        BY DEF LongRunRate
    <2> DEFINE e == (now - first[g][k]) \div window
    <2>1. now \in Nat /\ first[g][k] \in Nat /\ first[g][k] <= now /\ now - first[g][k] \in Nat
          /\ buckets[g][k].start \in Nat /\ buckets[g][k].count \in 0..limit
          /\ admitted[g][k] \in Nat /\ limit \in Nat /\ window \in Nat \ {0}
        BY RateAssumption DEF RateInv, TypeOK
    <2>2. e \in Nat /\ limit * (e + 1) = limit * e + limit /\ limit * e \in Nat
        BY <2>1, DivisionSteps, Monotone
    <2>3. CASE buckets[g][k].count = 0
        BY <2>1, <2>2, <2>3 DEF RateInv, Account
    <2>4. CASE buckets[g][k].count # 0
        <3>1. /\ first[g][k] <= buckets[g][k].start /\ buckets[g][k].start <= now
              /\ admitted[g][k] <= limit * Past(g, k) + buckets[g][k].count
            BY <2>4 DEF RateInv, Account
        <3>2. Past(g, k) \in Nat /\ Past(g, k) <= e
            <4>1. buckets[g][k].start - first[g][k] \in Nat
                  /\ buckets[g][k].start - first[g][k] <= now - first[g][k]
                BY <2>1, <3>1
            <4>2. QED
                BY <2>1, <4>1, DivisionSteps DEF Past
        <3>3. limit * Past(g, k) <= limit * e /\ limit * Past(g, k) \in Nat
            BY <2>1, <2>2, <3>2, Monotone
        <3>4. QED
            BY <2>1, <2>2, <3>1, <3>3
    <2>5. QED
        BY <2>3, <2>4
<1>2. QED
    BY <1>1, RateInit, RateStep, PTL DEF Spec

\* The limiter's buckets, clock readings and generations keep their types: no
\* bucket ever counts more than its limit, whichever runtime state a caller holds.
THEOREM LimiterTypes == Spec => []TypeOK
<1>1. RateInv => TypeOK
    BY DEF RateInv
<1>2. QED
    BY <1>1, RateInit, RateStep, PTL DEF Spec

=============================================================================
