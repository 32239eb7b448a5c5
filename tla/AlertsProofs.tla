---------------------------- MODULE AlertsProofs ----------------------------
(***************************************************************************)
(* Proofs about Alerts, for every set of handlers and keys, every queue    *)
(* size and every set of configurations: the types, the account of the     *)
(* denials and the long-run rate of the messages.                          *)
(*                                                                         *)
(* The rate needs the stamp of a key's last message, which AlertRate does  *)
(* not mention: the cooldown is counted from that stamp, be it the time of *)
(* an old event or of the clock.  The account needs that the worker's      *)
(* messages have different keys, and that none is left when it selects.    *)
(***************************************************************************)
EXTENDS Alerts, FiniteSetTheorems, WellFoundedInduction, TLAPS

-----------------------------------------------------------------------------
(* Facts about the operators of the model. *)

\* A nonempty set of naturals has a least element, and Min is it.
LEMMA Smallest ==
    ASSUME NEW S \in SUBSET Nat, S # {}
    PROVE  Min(S) \in S /\ \A y \in S : Min(S) <= y
<1> DEFINE R == {ss \in Nat \X Nat : ss[1] < ss[2]}
<1>1. IsWellFoundedOn(R, Nat)
    BY NatLessThanWellFounded, Zenon DEF OpToRel
<1>2. \A x, y \in Nat : y < x => <<y, x>> \in R
    OBVIOUS
<1> HIDE DEF R
<1>3. PICK x \in S : \A y \in S : ~ (<<y, x>> \in R)
    BY <1>1, WFMin
<1>4. \A y \in S : x <= y
    <2> TAKE y \in S
    <2>1. ~(y < x) /\ x \in Nat /\ y \in Nat
        BY <1>2, <1>3
    <2>2. QED
        BY <2>1
<1>5. QED
    BY <1>4 DEF Min

\* ShortestCooldown is a cooldown, and none is shorter.
LEMMA CooldownBound ==
    /\ ShortestCooldown \in Nat \ {0}
    /\ \A c \in Configs : c.Cooldown \in Nat \ {0} /\ ShortestCooldown <= c.Cooldown
<1> DEFINE S == {c.Cooldown : c \in Configs}
<1>1. \A c \in Configs : c.Cooldown \in Nat \ {0} /\ c.Cooldown \in S
    BY AlertsAssumption
<1>2. S \in SUBSET Nat /\ S # {} /\ 0 \notin S
    BY AlertsAssumption, <1>1
<1> HIDE DEF S
<1>3. Min(S) \in S /\ \A y \in S : Min(S) <= y
    BY <1>2, Smallest
<1>4. ShortestCooldown = Min(S)
    BY DEF ShortestCooldown, S
<1>5. QED
    BY <1>1, <1>2, <1>3, <1>4

\* The elements of a sequence are of its type.
LEMMA Element ==
    ASSUME NEW T, NEW s \in Seq(T), NEW i \in DOMAIN s
    PROVE  s[i] \in T
OBVIOUS

\* Append adds one element at the end.
LEMMA Appended ==
    ASSUME NEW T, NEW s \in Seq(T), NEW e \in T
    PROVE  /\ Append(s, e) \in Seq(T) /\ Len(Append(s, e)) = Len(s) + 1 /\ Len(s) \in Nat
           /\ DOMAIN s = 1..Len(s) /\ DOMAIN Append(s, e) = 1..(Len(s) + 1)
           /\ Append(s, e)[Len(s) + 1] = e
           /\ \A i \in 1..Len(s) : Append(s, e)[i] = s[i]
OBVIOUS

\* Tail takes the head away and moves the rest by one.
LEMMA Taken ==
    ASSUME NEW T, NEW s \in Seq(T), s # <<>>
    PROVE  /\ Tail(s) \in Seq(T) /\ Len(Tail(s)) = Len(s) - 1 /\ Len(s) \in Nat \ {0}
           /\ DOMAIN s = 1..Len(s) /\ DOMAIN Tail(s) = 1..(Len(s) - 1)
           /\ Head(s) = s[1] /\ Head(s) \in T
           /\ \A i \in 1..(Len(s) - 1) : Tail(s)[i] = s[i + 1]
OBVIOUS

\* Division by a cooldown is monotone, and one more cooldown is one more.
LEMMA Cooldowns ==
    ASSUME NEW w \in Nat \ {0}, NEW a \in Nat, NEW b \in Nat
    PROVE  /\ a \div w \in Nat
           /\ a <= b => a \div w <= b \div w
           /\ a + w <= b => a \div w + 1 <= b \div w
OBVIOUS

-----------------------------------------------------------------------------
(* The inductive invariant. *)

\* A handler's event is of a key and has a time of the clock; so have queued ones.
EventsPast ==
    /\ event \in [Handlers -> [key : AlertKeys \cup {"none"}, CreatedAt : 0..MaxTime]]
    /\ \A h \in Handlers : pc[h] # "idle" => event[h].key \in AlertKeys /\ event[h].CreatedAt \in 1..now
    /\ \A i \in DOMAIN queue : queue[i].CreatedAt <= now

\* A key's messages, against the stamp of its last one; flushAll stamps nothing.
Paced(k) ==
    IF worker \in {"last", "done"}
    THEN began[k] <= now /\ messages[k] <= (now - began[k]) \div ShortestCooldown + 2
    ELSE \/ messages[k] = 0 /\ buckets[k].lastSent = 0 /\ began[k] = 0
         \/ /\ 1 <= began[k] /\ began[k] <= buckets[k].lastSent /\ buckets[k].lastSent <= now
            /\ messages[k] <= (buckets[k].lastSent - began[k]) \div ShortestCooldown + 1

\* The worker's messages have different keys, and it selects with none.
OneMessage ==
    /\ worker \in {"select", "done"} => outbox = {}
    /\ \A m, n \in outbox : m.key = n.key => m = n

AlertsInv == TypeOK /\ EventsPast /\ OneMessage /\ \A k \in AlertKeys : Paced(k)

\* Initially the invariant holds.
LEMMA AlertsStart == Init => AlertsInv
<1> SUFFICES ASSUME Init PROVE AlertsInv
    OBVIOUS
<1>1. TypeOK
    <2>1. now \in 1..MaxTime /\ cfg \in Configs /\ events \in 0..MaxEvents
        BY AlertsAssumption DEF Init
    <2>2. queue \in Seq([key : AlertKeys, CreatedAt : 1..MaxTime]) /\ Len(queue) <= QueueSize
        BY AlertsAssumption DEF Init
    <2>3. buckets \in [AlertKeys -> [count : Nat, lastSent : 0..MaxTime]]
        BY AlertsAssumption DEF Init
    <2>4. pc \in [Handlers -> {"idle", "notify", "enqueue"}]
        BY DEF Init
    <2>5. worker \in {"select", "send", "last", "done"} /\ outbox \subseteq [key : AlertKeys, count : Nat]
          /\ stopped \in BOOLEAN
        BY DEF Init
    <2>6. \A f \in {accepted, dropped, delivered, discarded, messages, began} : f \in [AlertKeys -> Nat]
        BY DEF Init, Zero
    <2>7. QED
        BY <2>1, <2>2, <2>3, <2>4, <2>5, <2>6, Zenon DEF TypeOK
<1>2. EventsPast
    BY AlertsAssumption DEF Init, EventsPast, NoEvent
<1>3. OneMessage /\ \A k \in AlertKeys : Paced(k)
    BY DEF Init, OneMessage, Paced, Zero
<1>4. QED
    BY <1>1, <1>2, <1>3 DEF AlertsInv

\* Deciding on messages, be it for an event of the queue or on the ticker: a key
\* that is due has waited a cooldown since the stamp of its last message.
LEMMA Decided ==
    ASSUME AlertsInv, worker = "select", NEW S \in SUBSET AlertKeys,
           NEW bs \in [AlertKeys -> [count : Nat, lastSent : 0..MaxTime]],
           \A k \in AlertKeys : bs[k].lastSent = buckets[k].lastSent,
           NEW t \in 1..now, \A k \in S : Due(bs[k], t), Decide(S, bs, t), now' = now
    PROVE  /\ buckets' \in [AlertKeys -> [count : Nat, lastSent : 0..MaxTime]]
           /\ messages' \in [AlertKeys -> Nat] /\ began' \in [AlertKeys -> Nat]
           /\ outbox' \subseteq [key : AlertKeys, count : Nat]
           /\ worker' \in {"select", "send"}
           /\ OneMessage' /\ \A k \in AlertKeys : Paced(k)'
<1> DEFINE C == ShortestCooldown
<1>1. /\ now \in 1..MaxTime /\ MaxTime \in Nat /\ cfg \in Configs
      /\ messages \in [AlertKeys -> Nat] /\ began \in [AlertKeys -> Nat]
    BY AlertsAssumption DEF AlertsInv, TypeOK
<1>2. C \in Nat \ {0} /\ cfg.Cooldown \in Nat /\ C <= cfg.Cooldown
    BY <1>1, CooldownBound
<1>3. /\ outbox' = {Message(k, bs[k]) : k \in S}
      /\ worker' = IF S = {} THEN "select" ELSE "send"
      /\ buckets' = [k \in AlertKeys |-> IF k \in S THEN [count |-> 0, lastSent |-> t] ELSE bs[k]]
      /\ messages' = [k \in AlertKeys |-> IF k \in S THEN messages[k] + 1 ELSE messages[k]]
      /\ began' = [k \in AlertKeys |-> IF k \in S /\ messages[k] = 0 THEN t ELSE began[k]]
    BY DEF Decide
<1>4. buckets' \in [AlertKeys -> [count : Nat, lastSent : 0..MaxTime]]
    BY <1>1, <1>3
<1>5. messages' \in [AlertKeys -> Nat] /\ began' \in [AlertKeys -> Nat]
    BY <1>1, <1>3
<1>6. outbox' \subseteq [key : AlertKeys, count : Nat]
    BY <1>3 DEF Message
<1>7. worker' \in {"select", "send"} /\ OneMessage'
    BY <1>3 DEF OneMessage, Message
<1>8. ASSUME NEW k \in AlertKeys
      PROVE  Paced(k)'
    <2>1. /\ messages[k] \in Nat /\ began[k] \in Nat /\ bs[k].lastSent \in Nat
          /\ \/ messages[k] = 0 /\ bs[k].lastSent = 0 /\ began[k] = 0
             \/ /\ 1 <= began[k] /\ began[k] <= bs[k].lastSent /\ bs[k].lastSent <= now
                /\ messages[k] <= (bs[k].lastSent - began[k]) \div C + 1
        BY <1>1 DEF AlertsInv, Paced
    <2>2. CASE k \notin S
        BY <1>3, <1>7, <2>1, <2>2 DEF Paced
    <2>3. CASE k \in S /\ messages[k] = 0
        <3>1. messages'[k] = 1 /\ began'[k] = t /\ buckets'[k].lastSent = t
            BY <1>3, <2>3
        <3>2. (t - t) \div C \in Nat
            BY <1>2
        <3>3. QED
            BY <1>1, <1>7, <3>1, <3>2 DEF Paced
    <2>4. CASE k \in S /\ messages[k] # 0
        <3>1. messages'[k] = messages[k] + 1 /\ began'[k] = began[k] /\ buckets'[k].lastSent = t
            BY <1>3, <2>4
        <3>2. bs[k].lastSent + C <= t
            BY <1>1, <1>2, <2>1, <2>4 DEF Due
        <3>3. /\ bs[k].lastSent - began[k] \in Nat /\ t - began[k] \in Nat
              /\ (bs[k].lastSent - began[k]) + C <= t - began[k]
            <4>1. t \in Nat /\ C \in Nat /\ began[k] <= bs[k].lastSent
                BY <1>1, <1>2, <2>1, <2>4
            <4>2. QED
                BY <2>1, <3>2, <4>1
        <3>4. (bs[k].lastSent - began[k]) \div C + 1 <= (t - began[k]) \div C
              /\ (bs[k].lastSent - began[k]) \div C \in Nat /\ (t - began[k]) \div C \in Nat
            BY <1>2, <3>3, Cooldowns
        <3>5. messages[k] + 1 <= (t - began[k]) \div C + 1
            BY <2>1, <2>4, <3>4
        <3>6. 1 <= began[k] /\ began[k] <= t /\ t <= now
            BY <1>1, <1>2, <2>1, <2>4, <3>2
        <3>7. QED
            BY <1>7, <3>1, <3>5, <3>6 DEF Paced
    <2>5. QED
        BY <2>2, <2>3, <2>4
<1>9. QED
    BY <1>4, <1>5, <1>6, <1>7, <1>8

\* While the clock stands or advances, what depends on the worker's state stays.
LEMMA PacedKept ==
    ASSUME AlertsInv, now' \in {now, now + 1}, now' \in 1..MaxTime,
           UNCHANGED <<buckets, messages, began>>,
           worker' \in {"last", "done"} <=> worker \in {"last", "done"}
    PROVE  \A k \in AlertKeys : Paced(k)'
<1> TAKE k \in AlertKeys
<1>1. /\ now \in Nat /\ now' \in Nat /\ messages[k] \in Nat /\ began[k] \in Nat
      /\ buckets[k].lastSent \in Nat /\ Paced(k) /\ now <= now'
    <2>1. now \in 1..MaxTime /\ MaxTime \in Nat /\ now' \in {now, now + 1}
        BY AlertsAssumption DEF AlertsInv, TypeOK
    <2>2. messages \in [AlertKeys -> Nat] /\ began \in [AlertKeys -> Nat] /\ Paced(k)
        BY DEF AlertsInv, TypeOK
    <2>3. buckets[k] \in [count : Nat, lastSent : 0..MaxTime]
        BY DEF AlertsInv, TypeOK
    <2>4. QED
        BY <2>1, <2>2, <2>3
<1>2. CASE worker \in {"last", "done"}
    <2>1. began[k] <= now /\ messages[k] <= (now - began[k]) \div ShortestCooldown + 2
        BY <1>1, <1>2 DEF Paced
    <2>2. /\ now - began[k] \in Nat /\ now' - began[k] \in Nat
          /\ now - began[k] <= now' - began[k]
        BY <1>1, <2>1
    <2>3. /\ (now - began[k]) \div ShortestCooldown <= (now' - began[k]) \div ShortestCooldown
          /\ (now - began[k]) \div ShortestCooldown \in Nat
          /\ (now' - began[k]) \div ShortestCooldown \in Nat
        BY <2>2, CooldownBound, Cooldowns
    <2>4. began[k] <= now' /\ messages[k] <= (now' - began[k]) \div ShortestCooldown + 2
        BY <1>1, <2>1, <2>3
    <2>5. QED
        BY <1>2, <2>4 DEF Paced, ShortestCooldown
<1>3. CASE worker \notin {"last", "done"}
    BY <1>1, <1>3 DEF Paced, ShortestCooldown
<1>4. QED
    BY <1>2, <1>3

\* The steps of the handlers keep the invariant.
LEMMA HandlerStep ==
    ASSUME AlertsInv, NEW h \in Handlers,
           (\E k \in AlertKeys : Deny(h, k)) \/ NotifyCheck(h) \/ NotifyEnqueue(h)
    PROVE  AlertsInv'
<1> USE AlertsAssumption
<1>1. UNCHANGED <<now, cfg, buckets, workerVars, stopped, delivered, discarded, messages, began>>
    BY DEF Deny, NotifyCheck, NotifyEnqueue, counters
<1>2. TypeOK /\ EventsPast /\ OneMessage
    BY DEF AlertsInv
<1>3. OneMessage'
    BY <1>1, <1>2 DEF OneMessage, workerVars
<1>4. \A k \in AlertKeys : Paced(k)'
    BY <1>1, <1>2, PacedKept DEF workerVars, TypeOK
<1>5. /\ now' \in 1..MaxTime /\ cfg' \in Configs /\ stopped' \in BOOLEAN
      /\ buckets' \in [AlertKeys -> [count : Nat, lastSent : 0..MaxTime]]
      /\ worker' \in {"select", "send", "last", "done"}
      /\ outbox' \subseteq [key : AlertKeys, count : Nat]
      /\ delivered' \in [AlertKeys -> Nat] /\ discarded' \in [AlertKeys -> Nat]
      /\ messages' \in [AlertKeys -> Nat] /\ began' \in [AlertKeys -> Nat]
    BY <1>1, <1>2 DEF TypeOK, workerVars
<1>10. /\ now \in 1..MaxTime /\ MaxTime \in Nat /\ events \in 0..MaxEvents /\ MaxEvents \in Nat
       /\ queue \in Seq([key : AlertKeys, CreatedAt : 1..MaxTime]) /\ Len(queue) <= QueueSize
       /\ pc \in [Handlers -> {"idle", "notify", "enqueue"}]
       /\ accepted \in [AlertKeys -> Nat] /\ dropped \in [AlertKeys -> Nat]
    BY <1>2 DEF TypeOK
<1>11. /\ event \in [Handlers -> [key : AlertKeys \cup {"none"}, CreatedAt : 0..MaxTime]]
       /\ NoEvent \in [key : AlertKeys \cup {"none"}, CreatedAt : 0..MaxTime]
       /\ \A g \in Handlers : pc[g] # "idle" => event[g].key \in AlertKeys /\ event[g].CreatedAt \in 1..now
       /\ \A i \in DOMAIN queue : queue[i].CreatedAt <= now
    BY <1>2, <1>10 DEF EventsPast, NoEvent
<1>6. CASE \E k \in AlertKeys : Deny(h, k)
    <2> PICK k \in AlertKeys : Deny(h, k)
        BY <1>6
    <2>1. /\ events < MaxEvents /\ events' = events + 1
          /\ pc' = [pc EXCEPT ![h] = "notify"]
          /\ event' = [event EXCEPT ![h] = [key |-> k, CreatedAt |-> now]]
          /\ UNCHANGED <<queue, accepted, dropped>>
        BY DEF Deny, counters
    <2>2. EventsPast'
        <3>1. [key |-> k, CreatedAt |-> now] \in [key : AlertKeys \cup {"none"}, CreatedAt : 0..MaxTime]
            BY <1>10
        <3>2. event' \in [Handlers -> [key : AlertKeys \cup {"none"}, CreatedAt : 0..MaxTime]]
            BY <1>11, <2>1, <3>1
        <3>3. ASSUME NEW g \in Handlers, pc'[g] # "idle"
              PROVE  event'[g].key \in AlertKeys /\ event'[g].CreatedAt \in 1..now
            BY <1>10, <1>11, <2>1, <3>3
        <3>4. QED
            BY <1>1, <1>11, <2>1, <3>2, <3>3 DEF EventsPast
    <2>3. TypeOK'
        <3>1. events' \in 0..MaxEvents /\ pc' \in [Handlers -> {"idle", "notify", "enqueue"}]
            BY <1>10, <2>1
        <3>2. QED
            BY <1>5, <1>10, <2>1, <3>1 DEF TypeOK
    <2>4. QED
        BY <1>3, <1>4, <2>2, <2>3 DEF AlertsInv
<1>7. CASE NotifyCheck(h)
    <2>1. /\ pc[h] = "notify" /\ UNCHANGED <<queue, accepted, dropped, events>>
          /\ \/ pc' = [pc EXCEPT ![h] = "enqueue"] /\ event' = event
             \/ pc' = [pc EXCEPT ![h] = "idle"] /\ event' = [event EXCEPT ![h] = NoEvent]
        BY <1>7 DEF NotifyCheck, counters
    <2>2. EventsPast'
        <3>1. event' \in [Handlers -> [key : AlertKeys \cup {"none"}, CreatedAt : 0..MaxTime]]
            BY <1>11, <2>1
        <3>2. \A g \in Handlers : pc'[g] # "idle" => pc[g] # "idle" /\ event'[g] = event[g]
            BY <1>10, <1>11, <2>1
        <3>3. QED
            BY <1>1, <1>11, <2>1, <3>1, <3>2 DEF EventsPast
    <2>3. TypeOK'
        BY <1>2, <1>5, <2>1 DEF TypeOK
    <2>4. QED
        BY <1>3, <1>4, <2>2, <2>3 DEF AlertsInv
<1>8. CASE NotifyEnqueue(h)
    <2>1. /\ pc[h] = "enqueue" /\ pc' = [pc EXCEPT ![h] = "idle"] /\ events' = events
          /\ event' = [event EXCEPT ![h] = NoEvent]
          /\ accepted' = [accepted EXCEPT ![event[h].key] = @ + 1]
          /\ \/ Len(queue) < QueueSize /\ queue' = Append(queue, event[h]) /\ dropped' = dropped
             \/ dropped' = [dropped EXCEPT ![event[h].key] = @ + 1] /\ queue' = queue
        BY <1>8 DEF NotifyEnqueue
    <2>2. event[h] \in [key : AlertKeys, CreatedAt : 1..MaxTime] /\ event[h].CreatedAt <= now
        BY <1>10, <1>11, <2>1
    <2>3. queue' \in Seq([key : AlertKeys, CreatedAt : 1..MaxTime]) /\ Len(queue') <= QueueSize
        <3>1. CASE queue' = queue
            BY <1>10, <3>1
        <3>2. CASE Len(queue) < QueueSize /\ queue' = Append(queue, event[h])
            <4>1. queue' \in Seq([key : AlertKeys, CreatedAt : 1..MaxTime]) /\ Len(queue') = Len(queue) + 1
                BY <1>10, <2>2, <3>2
            <4>2. Len(queue) \in Nat /\ QueueSize \in Nat
                BY <1>10
            <4>3. QED
                BY <3>2, <4>1, <4>2
        <3>3. QED
            BY <2>1, <3>1, <3>2
    <2>4. \A i \in DOMAIN queue' : queue'[i].CreatedAt <= now
        <3>1. CASE queue' = queue
            BY <1>11, <3>1
        <3>2. CASE queue' = Append(queue, event[h])
            <4>1. /\ Len(queue) \in Nat /\ DOMAIN queue = 1..Len(queue)
                  /\ DOMAIN queue' = 1..(Len(queue) + 1) /\ queue'[Len(queue) + 1] = event[h]
                  /\ \A i \in 1..Len(queue) : queue'[i] = queue[i]
                BY <1>10, <2>2, <3>2, Appended
            <4>2. \A i \in DOMAIN queue' : i = Len(queue) + 1 \/ i \in 1..Len(queue)
                BY <4>1
            <4>3. QED
                BY <1>11, <2>2, <4>1, <4>2
        <3>3. QED
            BY <2>1, <3>1, <3>2
    <2>5. EventsPast'
        <3>1. event' \in [Handlers -> [key : AlertKeys \cup {"none"}, CreatedAt : 0..MaxTime]]
            BY <1>11, <2>1
        <3>2. \A g \in Handlers : pc'[g] # "idle" => pc[g] # "idle" /\ event'[g] = event[g]
            BY <1>10, <1>11, <2>1
        <3>3. QED
            BY <1>1, <1>11, <2>4, <3>1, <3>2 DEF EventsPast
    <2>6. accepted' \in [AlertKeys -> Nat] /\ dropped' \in [AlertKeys -> Nat]
        <3>1. event[h].key \in AlertKeys
            BY <2>2
        <3>2. accepted \in [AlertKeys -> Nat] /\ dropped \in [AlertKeys -> Nat]
            BY <1>10
        <3>3. accepted' \in [AlertKeys -> Nat]
            BY <2>1, <3>1, <3>2
        <3>4. dropped' = dropped \/ dropped' = [dropped EXCEPT ![event[h].key] = @ + 1]
            BY <2>1
        <3>5. dropped' \in [AlertKeys -> Nat]
            BY <3>1, <3>2, <3>4
        <3>6. QED
            BY <3>3, <3>5
    <2>7. pc' \in [Handlers -> {"idle", "notify", "enqueue"}] /\ events' \in 0..MaxEvents
        BY <1>10, <2>1
    <2>8. TypeOK'
        BY <1>5, <2>3, <2>6, <2>7, Zenon DEF TypeOK
    <2>9. QED
        BY <1>3, <1>4, <2>5, <2>8 DEF AlertsInv
<1>9. QED
    BY <1>6, <1>7, <1>8

\* The worker's decisions keep the invariant.
LEMMA WorkerStep ==
    ASSUME AlertsInv, record \/ flushDue \/ flushAll \/ \E m \in outbox : send(m)
    PROVE  AlertsInv'
<1> USE AlertsAssumption
<1>1. UNCHANGED <<now, cfg, handlerVars, stopped, accepted, dropped>>
    BY DEF record, flushDue, flushAll, send
<1>2. TypeOK /\ EventsPast /\ OneMessage
    BY DEF AlertsInv
<1>3. /\ now \in 1..MaxTime /\ MaxTime \in Nat
      /\ queue \in Seq([key : AlertKeys, CreatedAt : 1..MaxTime]) /\ Len(queue) <= QueueSize
      /\ buckets \in [AlertKeys -> [count : Nat, lastSent : 0..MaxTime]]
      /\ messages \in [AlertKeys -> Nat] /\ began \in [AlertKeys -> Nat]
      /\ delivered \in [AlertKeys -> Nat] /\ discarded \in [AlertKeys -> Nat]
      /\ outbox \subseteq [key : AlertKeys, count : Nat]
      /\ \A i \in DOMAIN queue : queue[i].CreatedAt <= now
    BY <1>2 DEF TypeOK, EventsPast
<1>4. /\ now' \in 1..MaxTime /\ cfg' \in Configs /\ stopped' \in BOOLEAN
      /\ pc' \in [Handlers -> {"idle", "notify", "enqueue"}] /\ events' \in 0..MaxEvents
      /\ accepted' \in [AlertKeys -> Nat] /\ dropped' \in [AlertKeys -> Nat]
    BY <1>1, <1>2 DEF TypeOK, handlerVars
<1>5. ASSUME queue' = queue
      PROVE  /\ queue' \in Seq([key : AlertKeys, CreatedAt : 1..MaxTime]) /\ Len(queue') <= QueueSize
             /\ EventsPast'
    BY <1>1, <1>2, <1>3, <1>5 DEF EventsPast, handlerVars
<1>6. CASE record
    <2> DEFINE k  == Head(queue).key
               t  == Head(queue).CreatedAt
               bs == [buckets EXCEPT ![k].count = @ + 1]
               S  == IF Due(bs[k], t) THEN {k} ELSE {}
    <2>1. /\ worker = "select" /\ queue # <<>> /\ queue' = Tail(queue) /\ Decide(S, bs, t)
          /\ UNCHANGED <<delivered, discarded>>
        BY <1>6 DEF record
    <2>2. /\ Tail(queue) \in Seq([key : AlertKeys, CreatedAt : 1..MaxTime])
          /\ Len(Tail(queue)) = Len(queue) - 1 /\ Len(queue) \in Nat \ {0}
          /\ DOMAIN queue = 1..Len(queue) /\ DOMAIN Tail(queue) = 1..(Len(queue) - 1)
          /\ Head(queue) = queue[1] /\ Head(queue) \in [key : AlertKeys, CreatedAt : 1..MaxTime]
          /\ \A i \in 1..(Len(queue) - 1) : Tail(queue)[i] = queue[i + 1]
        BY <1>3, <2>1, Taken
    <2>3. k \in AlertKeys /\ t \in 1..now
        <3>1. 1 \in DOMAIN queue
            BY <2>2
        <3>2. queue[1].CreatedAt <= now
            BY <1>3, <3>1
        <3>3. QED
            BY <1>3, <2>2, <3>2
    <2> HIDE DEF k, t
    <2>4. /\ bs \in [AlertKeys -> [count : Nat, lastSent : 0..MaxTime]]
          /\ \A j \in AlertKeys : bs[j].lastSent = buckets[j].lastSent
        <3> DEFINE b == [buckets[k] EXCEPT !.count = @ + 1]
        <3>1. buckets[k] \in [count : Nat, lastSent : 0..MaxTime]
            BY <1>3, <2>3
        <3>2. b \in [count : Nat, lastSent : 0..MaxTime] /\ b.lastSent = buckets[k].lastSent
            BY <3>1
        <3>3. bs = [buckets EXCEPT ![k] = b]
            OBVIOUS
        <3> HIDE DEF b, bs
        <3>4. QED
            BY <1>3, <2>3, <3>2, <3>3
    <2>5. S \in SUBSET AlertKeys /\ \A j \in S : Due(bs[j], t)
        BY <2>3
    <2> HIDE DEF bs, S
    <2>6. /\ buckets' \in [AlertKeys -> [count : Nat, lastSent : 0..MaxTime]]
          /\ messages' \in [AlertKeys -> Nat] /\ began' \in [AlertKeys -> Nat]
          /\ outbox' \subseteq [key : AlertKeys, count : Nat]
          /\ worker' \in {"select", "send"}
          /\ OneMessage' /\ \A j \in AlertKeys : Paced(j)'
        BY <1>1, <2>1, <2>3, <2>4, <2>5, Decided
    <2>7. queue' \in Seq([key : AlertKeys, CreatedAt : 1..MaxTime]) /\ Len(queue') <= QueueSize
        <3>1. Len(queue) - 1 <= QueueSize
            BY <1>3, <2>2
        <3>2. QED
            BY <2>1, <2>2, <3>1
    <2>8. EventsPast'
        <3>1. ASSUME NEW i \in DOMAIN queue' PROVE queue'[i].CreatedAt <= now
            <4>1. i \in 1..(Len(queue) - 1) /\ i + 1 \in DOMAIN queue /\ queue'[i] = queue[i + 1]
                BY <2>1, <2>2
            <4>2. QED
                BY <1>3, <4>1
        <3>2. QED
            BY <1>1, <1>2, <3>1 DEF EventsPast, handlerVars
    <2>9. TypeOK'
        BY <1>3, <1>4, <2>1, <2>6, <2>7 DEF TypeOK
    <2>10. QED
        BY <2>6, <2>8, <2>9 DEF AlertsInv
<1>7. CASE flushDue
    <2> DEFINE S == {k \in AlertKeys : buckets[k].count > 0 /\ Due(buckets[k], now)}
    <2>1. worker = "select" /\ Decide(S, buckets, now) /\ UNCHANGED <<queue, delivered, discarded>>
        BY <1>7 DEF flushDue
    <2>2. now \in 1..now /\ S \in SUBSET AlertKeys /\ \A j \in S : Due(buckets[j], now)
        BY <1>3
    <2> HIDE DEF S
    <2>3. /\ buckets' \in [AlertKeys -> [count : Nat, lastSent : 0..MaxTime]]
          /\ messages' \in [AlertKeys -> Nat] /\ began' \in [AlertKeys -> Nat]
          /\ outbox' \subseteq [key : AlertKeys, count : Nat]
          /\ worker' \in {"select", "send"}
          /\ OneMessage' /\ \A j \in AlertKeys : Paced(j)'
        BY <1>1, <1>3, <2>1, <2>2, Decided
    <2>4. TypeOK'
        BY <1>3, <1>4, <1>5, <2>1, <2>3 DEF TypeOK
    <2>5. QED
        BY <1>5, <2>1, <2>3, <2>4 DEF AlertsInv
<1>8. CASE flushAll
    <2>1. /\ worker = "select" /\ UNCHANGED <<queue, buckets, delivered, discarded>>
          /\ outbox' = {Message(k, buckets[k]) : k \in {x \in AlertKeys : buckets[x].count > 0}}
          /\ worker' = IF outbox' = {} THEN "done" ELSE "last"
          /\ messages' = [k \in AlertKeys |-> messages[k] + IF buckets[k].count > 0 THEN 1 ELSE 0]
          /\ began' = [k \in AlertKeys |-> IF buckets[k].count > 0 /\ messages[k] = 0 THEN now ELSE began[k]]
        BY <1>8 DEF flushAll
    <2>2. OneMessage' /\ outbox' \subseteq [key : AlertKeys, count : Nat] /\ worker' \in {"last", "done"}
        <3>1. worker' \in {"last", "done"} /\ (worker' = "done" => outbox' = {})
            BY <2>1
        <3>2. \A m \in outbox' : \E k \in AlertKeys : m = [key |-> k, count |-> buckets[k].count]
            BY <2>1 DEF Message
        <3>3. outbox' \subseteq [key : AlertKeys, count : Nat]
            BY <1>3, <3>2
        <3>4. \A m, n \in outbox' : m.key = n.key => m = n
            BY <3>2
        <3>5. QED
            BY <3>1, <3>3, <3>4 DEF OneMessage
    <2>3. messages' \in [AlertKeys -> Nat] /\ began' \in [AlertKeys -> Nat]
        <3>1. ASSUME NEW k \in AlertKeys
              PROVE  messages[k] + (IF buckets[k].count > 0 THEN 1 ELSE 0) \in Nat
            <4>1. messages[k] \in Nat
                BY <1>3
            <4>2. QED
                BY <4>1
        <3>2. \A k \in AlertKeys :
                 (IF buckets[k].count > 0 /\ messages[k] = 0 THEN now ELSE began[k]) \in Nat
            BY <1>3
        <3>3. QED
            BY <2>1, <3>1, <3>2
    <2>4. ASSUME NEW k \in AlertKeys
          PROVE  Paced(k)'
        <3>1. /\ messages[k] \in Nat /\ began[k] \in Nat /\ buckets[k].lastSent \in Nat /\ now \in Nat
              /\ \/ messages[k] = 0 /\ buckets[k].lastSent = 0 /\ began[k] = 0
                 \/ /\ 1 <= began[k] /\ began[k] <= buckets[k].lastSent /\ buckets[k].lastSent <= now
                    /\ messages[k] <= (buckets[k].lastSent - began[k]) \div ShortestCooldown + 1
            <4>1. worker \notin {"last", "done"} /\ Paced(k)
                BY <2>1 DEF AlertsInv
            <4>2. buckets[k] \in [count : Nat, lastSent : 0..MaxTime]
                BY <1>3
            <4>3. messages[k] \in Nat /\ began[k] \in Nat /\ buckets[k].lastSent \in Nat /\ now \in Nat
                BY <1>3, <4>2
            <4>4. QED
                BY <4>1, <4>3 DEF Paced
        <3>2. /\ messages'[k] \in Nat /\ messages'[k] <= messages[k] + 1
              /\ began'[k] = began[k] \/ (messages[k] = 0 /\ began'[k] = now)
            <4>1. /\ messages'[k] = messages[k] + (IF buckets[k].count > 0 THEN 1 ELSE 0)
                  /\ began'[k] = IF buckets[k].count > 0 /\ messages[k] = 0 THEN now ELSE began[k]
                BY <2>1
            <4>2. QED
                BY <3>1, <4>1
        <3>3. CASE messages[k] = 0
            <4>1. began'[k] \in Nat /\ began'[k] <= now /\ messages'[k] <= 1
                BY <3>1, <3>2, <3>3
            <4>2. (now - began'[k]) \div ShortestCooldown \in Nat
                <5>1. now - began'[k] \in Nat
                    BY <3>1, <4>1
                <5>2. QED
                    BY <5>1, CooldownBound, Cooldowns
            <4>3. messages'[k] <= (now - began'[k]) \div ShortestCooldown + 2
                BY <3>2, <4>1, <4>2
            <4>4. QED
                BY <1>1, <2>2, <4>1, <4>3 DEF Paced, ShortestCooldown
        <3>4. CASE messages[k] # 0
            <4>1. /\ began[k] <= buckets[k].lastSent /\ buckets[k].lastSent <= now
                  /\ messages[k] <= (buckets[k].lastSent - began[k]) \div ShortestCooldown + 1
                  /\ began'[k] = began[k]
                BY <3>1, <3>2, <3>4
            <4>2. /\ buckets[k].lastSent - began[k] \in Nat /\ now - began[k] \in Nat
                  /\ buckets[k].lastSent - began[k] <= now - began[k] /\ began[k] <= now
                BY <3>1, <4>1
            <4>3. /\ (buckets[k].lastSent - began[k]) \div ShortestCooldown \in Nat
                  /\ (now - began[k]) \div ShortestCooldown \in Nat
                  /\ (buckets[k].lastSent - began[k]) \div ShortestCooldown
                        <= (now - began[k]) \div ShortestCooldown
                BY <4>2, CooldownBound, Cooldowns
            <4>4. messages'[k] <= (now - began[k]) \div ShortestCooldown + 2
                BY <3>1, <3>2, <4>1, <4>3
            <4>5. QED
                BY <1>1, <2>2, <4>1, <4>2, <4>4 DEF Paced, ShortestCooldown
        <3>5. QED
            BY <3>3, <3>4
    <2>5. TypeOK'
        BY <1>3, <1>4, <1>5, <2>1, <2>2, <2>3 DEF TypeOK
    <2>6. QED
        BY <1>5, <2>1, <2>2, <2>4, <2>5 DEF AlertsInv
<1>9. CASE \E m \in outbox : send(m)
    <2> PICK m \in outbox : send(m)
        BY <1>9
    <2>1. /\ worker \in {"send", "last"} /\ outbox' = outbox \ {m}
          /\ worker' = IF outbox # {m} THEN worker
                       ELSE IF worker = "last" THEN "done" ELSE "select"
          /\ UNCHANGED <<queue, buckets, messages, began>>
        BY DEF send
    <2>2. m.key \in AlertKeys /\ m.count \in Nat
        BY <1>3
    <2>3. delivered' \in [AlertKeys -> Nat] /\ discarded' \in [AlertKeys -> Nat]
        <3>1. \/ delivered' = [delivered EXCEPT ![m.key] = @ + m.count] /\ discarded' = discarded
              \/ discarded' = [discarded EXCEPT ![m.key] = @ + m.count] /\ delivered' = delivered
            BY DEF send
        <3>2. delivered[m.key] + m.count \in Nat /\ discarded[m.key] + m.count \in Nat
            <4>1. delivered[m.key] \in Nat /\ discarded[m.key] \in Nat
                BY <1>3, <2>2
            <4>2. QED
                BY <2>2, <4>1
        <3>3. QED
            BY <1>3, <3>1, <3>2
    <2>4. OneMessage'
        BY <1>2, <2>1 DEF OneMessage
    <2>5. \A k \in AlertKeys : Paced(k)'
        BY <1>1, <1>3, <2>1, PacedKept
    <2>6. TypeOK'
        BY <1>3, <1>4, <1>5, <2>1, <2>3 DEF TypeOK
    <2>7. QED
        BY <1>5, <2>1, <2>4, <2>5, <2>6 DEF AlertsInv
<1>10. QED
    BY <1>6, <1>7, <1>8, <1>9

\* Every step keeps the invariant.
LEMMA AlertsStep == AlertsInv /\ [Next]_vars => AlertsInv'
<1> SUFFICES ASSUME AlertsInv, [Next]_vars PROVE AlertsInv'
    OBVIOUS
<1>1. CASE \E h \in Handlers : (\E k \in AlertKeys : Deny(h, k)) \/ NotifyCheck(h) \/ NotifyEnqueue(h)
    BY <1>1, HandlerStep
<1>2. CASE record \/ flushDue \/ flushAll \/ \E m \in outbox : send(m)
    BY <1>2, WorkerStep
<1>3. CASE (\E c \in Configs : Update(c)) \/ Close \/ UNCHANGED vars
    <2>1. /\ cfg' \in Configs /\ stopped' \in BOOLEAN
          /\ UNCHANGED <<now, queue, buckets, handlerVars, workerVars, counters>>
        BY <1>3 DEF Update, Close, vars, AlertsInv, TypeOK
    <2>2. \A k \in AlertKeys : Paced(k)'
        BY <2>1, PacedKept DEF workerVars, counters, AlertsInv, TypeOK
    <2>3. TypeOK'
        BY <2>1 DEF AlertsInv, TypeOK, handlerVars, workerVars, counters
    <2>4. EventsPast' /\ OneMessage'
        BY <2>1 DEF AlertsInv, EventsPast, OneMessage, handlerVars, workerVars
    <2>5. QED
        BY <2>2, <2>3, <2>4 DEF AlertsInv
<1>4. CASE Tick
    <2>1. /\ now < MaxTime /\ now' = now + 1
          /\ UNCHANGED <<cfg, queue, buckets, handlerVars, workerVars, stopped, counters>>
        BY <1>4 DEF Tick
    <2>2. now \in 1..MaxTime /\ now' \in 1..MaxTime /\ MaxTime \in Nat
        BY <2>1, AlertsAssumption DEF AlertsInv, TypeOK
    <2>3. \A k \in AlertKeys : Paced(k)'
        BY <2>1, <2>2, PacedKept DEF workerVars, counters
    <2>4. TypeOK'
        BY <2>1, <2>2 DEF AlertsInv, TypeOK, handlerVars, workerVars, counters
    <2>5. EventsPast'
        <3>1. /\ event' \in [Handlers -> [key : AlertKeys \cup {"none"}, CreatedAt : 0..MaxTime]]
              /\ queue' = queue /\ pc' = pc /\ event' = event
            BY <2>1 DEF AlertsInv, EventsPast, handlerVars
        <3>2. ASSUME NEW h \in Handlers, pc[h] # "idle"
              PROVE  event[h].key \in AlertKeys /\ event[h].CreatedAt \in 1..(now + 1)
            BY <2>2, <3>2 DEF AlertsInv, EventsPast
        <3>3. ASSUME NEW i \in DOMAIN queue
              PROVE  queue[i].CreatedAt <= now + 1
            <4>1. queue[i].CreatedAt \in Nat /\ queue[i].CreatedAt <= now
                <5>1. queue \in Seq([key : AlertKeys, CreatedAt : 1..MaxTime])
                    BY DEF AlertsInv, TypeOK
                <5>2. queue[i] \in [key : AlertKeys, CreatedAt : 1..MaxTime]
                    BY <5>1, Element
                <5>3. QED
                    BY <2>2, <5>2 DEF AlertsInv, EventsPast
            <4>2. QED
                BY <2>2, <4>1
        <3>4. QED
            BY <2>1, <3>1, <3>2, <3>3 DEF EventsPast
    <2>6. OneMessage'
        BY <2>1 DEF AlertsInv, OneMessage, workerVars
    <2>7. QED
        BY <2>3, <2>4, <2>5, <2>6 DEF AlertsInv
<1>5. QED
    BY <1>1, <1>2, <1>3, <1>4 DEF Next

\* The messages of a key keep to its cooldown in the long run, for every
\* configuration set, queue size and interleaving of handlers, worker and reloads:
\* record and flushDue may stamp with times of different clocks, in any order.
THEOREM MessagesKeepToCooldown == Spec => []AlertRate
<1>1. AlertsInv => AlertRate
    <2> SUFFICES ASSUME AlertsInv, NEW k \in AlertKeys
                 PROVE  messages[k] <= (now - began[k]) \div ShortestCooldown + 1
                                       + IF worker \in {"last", "done"} THEN 1 ELSE 0
        BY DEF AlertRate
    <2>1. /\ now \in Nat /\ messages[k] \in Nat /\ began[k] \in Nat
          /\ buckets[k].lastSent \in Nat /\ Paced(k)
        BY AlertsAssumption DEF AlertsInv, TypeOK
    <2>2. CASE worker \in {"last", "done"}
        <3>1. began[k] <= now /\ messages[k] <= (now - began[k]) \div ShortestCooldown + 2
            BY <2>1, <2>2 DEF Paced
        <3>2. now - began[k] \in Nat
            BY <2>1, <3>1
        <3>3. (now - began[k]) \div ShortestCooldown \in Nat
            BY <3>2, CooldownBound, Cooldowns
        <3>4. QED
            BY <2>1, <2>2, <3>1, <3>3
    <2>3. CASE worker \notin {"last", "done"}
        <3>1. CASE messages[k] = 0 /\ buckets[k].lastSent = 0 /\ began[k] = 0
            <4>1. now - began[k] \in Nat
                BY <2>1, <3>1
            <4>2. (now - began[k]) \div ShortestCooldown \in Nat
                BY <4>1, CooldownBound, Cooldowns
            <4>3. QED
                BY <2>3, <3>1, <4>2
        <3>2. CASE /\ 1 <= began[k] /\ began[k] <= buckets[k].lastSent /\ buckets[k].lastSent <= now
                   /\ messages[k] <= (buckets[k].lastSent - began[k]) \div ShortestCooldown + 1
            <4>1. /\ now - began[k] \in Nat /\ buckets[k].lastSent - began[k] \in Nat
                  /\ buckets[k].lastSent - began[k] <= now - began[k]
                BY <2>1, <3>2
            <4>2. /\ (now - began[k]) \div ShortestCooldown \in Nat
                  /\ (buckets[k].lastSent - began[k]) \div ShortestCooldown \in Nat
                  /\ (buckets[k].lastSent - began[k]) \div ShortestCooldown
                        <= (now - began[k]) \div ShortestCooldown
                BY <4>1, CooldownBound, Cooldowns
            <4>3. QED
                BY <2>1, <2>3, <3>2, <4>2
        <3>3. QED
            BY <2>1, <2>3, <3>1, <3>2 DEF Paced
    <2>4. QED
        BY <2>2, <2>3
<1>2. QED
    BY <1>1, AlertsStart, AlertsStep, PTL DEF Spec

\* Every variable of the alerts keeps its type, and the queue never holds more
\* than its channel does: Notify drops instead.
THEOREM AlertTypes == Spec => []TypeOK
<1>1. AlertsInv => TypeOK
    BY DEF AlertsInv
<1>2. QED
    BY <1>1, AlertsStart, AlertsStep, PTL DEF Spec

-----------------------------------------------------------------------------
(* The account of the denials. *)

\* The denials in a set of messages.
SumOf(S) == MapThenSumSet(LAMBDA m : m.count, S)

\* The denials of key k in a set of messages.
SumFor(O, k) == SumOf({m \in O : m.key = k})

\* The events of key k in a queue s.
CountIn(s, k) == Cardinality({i \in DOMAIN s : s[i].key = k})

\* No messages hold no denials.
LEMMA SumOfNone == SumOf({}) = 0
<1> DEFINE D == SUBSET {}
           Iter(f) == [s \in D |-> IF s = {} THEN 0
                        ELSE (CHOOSE x \in s : TRUE).count + f[s \ {CHOOSE x \in s : TRUE}]]
           g == [s \in D |-> 0]
           it == CHOOSE f : f = Iter(f)
<1>1. D = {{}}
    OBVIOUS
<1>2. g = Iter(g)
    BY <1>1
<1>3. it = Iter(it)
    BY <1>2
<1>4. it[{}] = 0
    BY <1>1, <1>3
<1>5. SumOf({}) = it[{}]
    BY DEF SumOf, MapThenSumSet, MapThenFoldSet
<1>6. QED
    BY <1>4, <1>5

\* One message holds its own.
LEMMA SumOfOne ==
    ASSUME NEW y, y.count \in Nat
    PROVE  SumOf({y}) = y.count
<1> DEFINE D == SUBSET {y}
           Iter(f) == [s \in D |-> IF s = {} THEN 0
                        ELSE (CHOOSE x \in s : TRUE).count + f[s \ {CHOOSE x \in s : TRUE}]]
           g == [s \in D |-> IF s = {} THEN 0 ELSE y.count]
           it == CHOOSE f : f = Iter(f)
<1>0. {y} \ {y} = {} /\ {} \in D /\ {y} \in D
    OBVIOUS
<1>1. D = {{}, {y}}
    OBVIOUS
<1>2. (CHOOSE x \in {y} : TRUE) = y
    OBVIOUS
<1>3. g = Iter(g)
    <2>1. \A s \in D : g[s] = Iter(g)[s]
        BY <1>0, <1>1, <1>2
    <2>2. QED
        BY <2>1
<1>4. it = Iter(it)
    BY <1>3
<1>5. it[{y}] = y.count
    <2>1. it[{}] = 0
        BY <1>0, <1>4
    <2>2. it[{y}] = (CHOOSE x \in {y} : TRUE).count + it[{y} \ {CHOOSE x \in {y} : TRUE}]
        BY <1>0, <1>4
    <2>3. it[{y}] = y.count + it[{}]
        BY <1>0, <1>2, <2>2
    <2> HIDE DEF it
    <2>4. QED
        BY <2>1, <2>3
<1>6. SumOf({y}) = it[{y}]
    BY DEF SumOf, MapThenSumSet, MapThenFoldSet
<1>7. QED
    BY <1>5, <1>6

\* A queue counts a natural number of events of a key.
LEMMA CountNat ==
    ASSUME NEW T, NEW s \in Seq(T), NEW k
    PROVE  IsFiniteSet({i \in DOMAIN s : s[i].key = k}) /\ CountIn(s, k) \in Nat
<1>1. Len(s) \in Nat /\ DOMAIN s = 1..Len(s)
    OBVIOUS
<1>2. IsFiniteSet(DOMAIN s)
    BY <1>1, FS_Interval
<1>3. IsFiniteSet({i \in DOMAIN s : s[i].key = k})
    BY <1>2, FS_Subset
<1>4. QED
    BY <1>3, FS_CardinalityType DEF CountIn

\* An event at the end of a queue counts once, for its key.
LEMMA CountAppended ==
    ASSUME NEW T, NEW s \in Seq(T), NEW e \in T, NEW k
    PROVE  CountIn(Append(s, e), k) = CountIn(s, k) + (IF e.key = k THEN 1 ELSE 0)
<1> DEFINE A == {i \in DOMAIN s : s[i].key = k}
           B == {i \in DOMAIN Append(s, e) : Append(s, e)[i].key = k}
           n == Len(s) + 1
<1>1. /\ Len(s) \in Nat /\ DOMAIN s = 1..Len(s) /\ DOMAIN Append(s, e) = 1..n
      /\ Append(s, e)[n] = e /\ \A i \in 1..Len(s) : Append(s, e)[i] = s[i]
    BY Appended
<1>2. n \notin A /\ n \in 1..n /\ \A i \in 1..n : i = n \/ i \in 1..Len(s)
    BY <1>1
<1>3. \A i \in 1..Len(s) : i \in 1..n
    BY <1>1
<1>4. CASE e.key = k
    <2>1. B = A \cup {n}
        BY <1>1, <1>2, <1>3, <1>4
    <2>2. Cardinality(A \cup {n}) = Cardinality(A) + 1
        <3>1. IsFiniteSet(A)
            BY CountNat
        <3> HIDE DEF A
        <3>2. QED
            BY <1>2, <3>1, FS_AddElement
    <2>3. QED
        BY <1>4, <2>1, <2>2 DEF CountIn
<1>5. CASE e.key # k
    <2>1. B = A
        BY <1>1, <1>2, <1>3, <1>5
    <2>2. CountIn(Append(s, e), k) = CountIn(s, k)
        BY <2>1 DEF CountIn
    <2>3. CountIn(s, k) \in Nat
        BY CountNat
    <2>4. QED
        BY <1>5, <2>2, <2>3
<1>6. QED
    BY <1>4, <1>5

\* So does the event at the head, once it is taken.
LEMMA CountTaken ==
    ASSUME NEW T, NEW s \in Seq(T), s # <<>>, NEW k
    PROVE  CountIn(s, k) = CountIn(Tail(s), k) + (IF Head(s).key = k THEN 1 ELSE 0)
<1> DEFINE A == {i \in DOMAIN Tail(s) : Tail(s)[i].key = k}
           B == {i \in DOMAIN s : s[i].key = k}
           M == {i \in 2..Len(s) : s[i].key = k}
           f == [i \in A |-> i + 1]
<1>1. /\ Tail(s) \in Seq(T) /\ Len(s) \in Nat \ {0} /\ DOMAIN s = 1..Len(s)
      /\ DOMAIN Tail(s) = 1..(Len(s) - 1) /\ Head(s) = s[1]
      /\ \A i \in 1..(Len(s) - 1) : Tail(s)[i] = s[i + 1]
    BY Taken
<1>2. IsFiniteSet(A) /\ CountIn(Tail(s), k) \in Nat
    BY <1>1, CountNat
<1>3. f \in Bijection(A, M)
    <2>1. \A i \in A : i \in 1..(Len(s) - 1) /\ i + 1 \in 2..Len(s) /\ s[i + 1].key = k
        BY <1>1
    <2>2. f \in [A -> M]
        BY <2>1
    <2>3. \A i, j \in A : f[i] = f[j] => i = j
        BY <2>1
    <2>4. ASSUME NEW j \in M
          PROVE  \E i \in A : f[i] = j
        <3>1. j - 1 \in 1..(Len(s) - 1) /\ (j - 1) + 1 = j
            BY <1>1
        <3>2. Tail(s)[j - 1] = s[j]
            BY <1>1, <3>1
        <3>3. j - 1 \in A
            BY <1>1, <3>1, <3>2
        <3>4. f[j - 1] = j
            BY <3>1, <3>3
        <3>5. QED
            BY <3>3, <3>4
    <2> HIDE DEF f, A, M
    <2>5. QED
        BY <2>2, <2>3, <2>4 DEF Bijection, Injection, Surjection, IsInjective
<1>4. IsFiniteSet(M) /\ Cardinality(M) = CountIn(Tail(s), k)
    BY <1>2, <1>3, FS_Bijection DEF CountIn, ExistsBijection
<1>5. 1 \notin M /\ 1 \in DOMAIN s /\ \A i \in DOMAIN s : i = 1 \/ i \in 2..Len(s)
    BY <1>1
<1>6. \A i \in 2..Len(s) : i \in DOMAIN s
    BY <1>1
<1>7. CASE Head(s).key = k
    <2>1. B = M \cup {1}
        BY <1>1, <1>5, <1>6, <1>7
    <2>2. Cardinality(M \cup {1}) = Cardinality(M) + 1
        BY <1>4, <1>5, FS_AddElement
    <2>3. QED
        BY <1>4, <1>7, <2>1, <2>2 DEF CountIn
<1>8. CASE Head(s).key # k
    <2>1. B = M
        BY <1>1, <1>5, <1>6, <1>8
    <2>2. CountIn(s, k) = CountIn(Tail(s), k)
        BY <1>4, <2>1 DEF CountIn
    <2>3. QED
        BY <1>2, <1>8, <2>2
<1>9. QED
    BY <1>7, <1>8

\* Of messages with different keys, one holds the denials of a key, or none.
LEMMA SumOfKey ==
    ASSUME NEW O, \A m \in O : m.count \in Nat,
           \A m, n \in O : m.key = n.key => m = n, NEW k
    PROVE  /\ (\A m \in O : m.key # k) => SumFor(O, k) = 0
           /\ \A x \in O : x.key = k => SumFor(O, k) = x.count
           /\ SumFor(O, k) \in Nat
<1>1. ASSUME \A m \in O : m.key # k
      PROVE  SumFor(O, k) = 0
    <2>1. {m \in O : m.key = k} = {}
        BY <1>1
    <2>2. QED
        BY <2>1, SumOfNone DEF SumFor
<1>2. ASSUME NEW x \in O, x.key = k
      PROVE  SumFor(O, k) = x.count /\ x.count \in Nat
    <2>1. {m \in O : m.key = k} = {x}
        BY <1>2
    <2>2. x.count \in Nat
        OBVIOUS
    <2>3. QED
        BY <2>1, <2>2, SumOfOne DEF SumFor
<1>3. QED
    BY <1>1, <1>2

\* What the account of a key adds up, in terms of the queue and the outbox.
LEMMA Terms ==
    ASSUME NEW k
    PROVE  /\ Queued(k) = CountIn(queue, k) /\ Queued(k)' = CountIn(queue', k)
           /\ Sending(k) = SumFor(outbox, k) /\ Sending(k)' = SumFor(outbox', k)
<1>1. Queued(k) = CountIn(queue, k)
    BY DEF Queued, CountIn
<1>2. Queued(k)' = CountIn(queue', k)
    BY DEF Queued, CountIn
<1>3. Sending(k) = SumFor(outbox, k)
    BY DEF Sending, SumFor, SumOf
<1>4. Sending(k)' = SumFor(outbox', k)
    BY DEF Sending, SumFor, SumOf, MapThenSumSet, MapThenFoldSet
<1>5. QED
    BY <1>1, <1>2, <1>3, <1>4

\* The terms are natural numbers.
LEMMA TermTypes ==
    ASSUME AlertsInv, NEW k \in AlertKeys
    PROVE  /\ accepted[k] \in Nat /\ dropped[k] \in Nat /\ delivered[k] \in Nat /\ discarded[k] \in Nat
           /\ buckets[k].count \in Nat /\ Queued(k) \in Nat /\ Counted(k) \in Nat /\ Sending(k) \in Nat
<1>1. accepted[k] \in Nat /\ dropped[k] \in Nat /\ delivered[k] \in Nat /\ discarded[k] \in Nat
    BY DEF AlertsInv, TypeOK
<1>2. buckets[k].count \in Nat
    BY DEF AlertsInv, TypeOK
<1>3. Counted(k) \in Nat
    BY <1>2 DEF Counted
<1>4. Queued(k) \in Nat
    <2>1. queue \in Seq([key : AlertKeys, CreatedAt : 1..MaxTime])
        BY DEF AlertsInv, TypeOK
    <2>2. QED
        BY <2>1, CountNat, Terms
<1>5. Sending(k) \in Nat
    <2>1. (\A m \in outbox : m.count \in Nat) /\ \A m, n \in outbox : m.key = n.key => m = n
        BY DEF AlertsInv, TypeOK, OneMessage
    <2>2. SumFor(outbox, k) \in Nat
        BY <2>1, SumOfKey
    <2>3. QED
        BY <2>2, Terms
<1>6. QED
    BY <1>1, <1>2, <1>3, <1>4, <1>5

\* Messages decided on hold what their buckets counted: nothing is lost between.
LEMMA CountsMove ==
    ASSUME NEW S, NEW bs, \A k \in S : bs[k].count \in Nat,
           outbox' = {Message(k, bs[k]) : k \in S}, NEW k
    PROVE  Sending(k)' = IF k \in S THEN bs[k].count ELSE 0
<1>1. \A m \in outbox' : \E j \in S : m = [key |-> j, count |-> bs[j].count]
    BY DEF Message
<1>2. \A m \in outbox' : m.count \in Nat
    BY <1>1
<1>3. \A m, n \in outbox' : m.key = n.key => m = n
    BY <1>1
<1>4. /\ (\A m \in outbox' : m.key # k) => SumFor(outbox', k) = 0
      /\ \A x \in outbox' : x.key = k => SumFor(outbox', k) = x.count
    BY <1>2, <1>3, SumOfKey
<1>5. CASE k \in S
    <2>1. \E x \in outbox' : x.key = k /\ x.count = bs[k].count
        <3>1. [key |-> k, count |-> bs[k].count] \in outbox'
            BY <1>5 DEF Message
        <3>2. QED
            BY <3>1
    <2>2. SumFor(outbox', k) = bs[k].count
        BY <1>4, <2>1
    <2>3. QED
        BY <1>5, <2>2, Terms
<1>6. CASE k \notin S
    <2>1. \A m \in outbox' : m.key # k
        BY <1>1, <1>6
    <2>2. SumFor(outbox', k) = 0
        BY <1>4, <2>1
    <2>3. QED
        BY <1>6, <2>2, Terms
<1>7. QED
    BY <1>5, <1>6

\* The account of a key before a decision: nothing is under way.
LEMMA BeforeDecision ==
    ASSUME AlertsInv, worker = "select", NEW k \in AlertKeys
    PROVE  Sending(k) = 0 /\ Counted(k) = buckets[k].count
<1>1. outbox = {}
    BY DEF AlertsInv, OneMessage
<1>2. SumFor(outbox, k) = 0
    BY <1>1, SumOfKey
<1>3. Sending(k) = 0
    BY <1>2, Terms
<1>4. QED
    BY <1>3 DEF Counted

\* Every step keeps the account of a key.
LEMMA AccountStep ==
    ASSUME AlertsInv, AlertsInv', Accounted, [Next]_vars
    PROVE  Accounted'
<1> SUFFICES ASSUME NEW k \in AlertKeys
             PROVE  accepted'[k] = dropped'[k] + Queued(k)' + Counted(k)' + Sending(k)'
                                   + delivered'[k] + discarded'[k]
    BY DEF Accounted
<1>1. /\ accepted[k] = dropped[k] + Queued(k) + Counted(k) + Sending(k) + delivered[k] + discarded[k]
      /\ accepted[k] \in Nat /\ dropped[k] \in Nat /\ delivered[k] \in Nat /\ discarded[k] \in Nat
      /\ buckets[k].count \in Nat /\ Queued(k) \in Nat /\ Counted(k) \in Nat /\ Sending(k) \in Nat
    BY TermTypes DEF Accounted
<1>2. /\ queue \in Seq([key : AlertKeys, CreatedAt : 1..MaxTime])
      /\ buckets \in [AlertKeys -> [count : Nat, lastSent : 0..MaxTime]]
      /\ outbox \in SUBSET [key : AlertKeys, count : Nat]
      /\ \A m, n \in outbox : m.key = n.key => m = n
      /\ accepted \in [AlertKeys -> Nat] /\ dropped \in [AlertKeys -> Nat]
      /\ delivered \in [AlertKeys -> Nat] /\ discarded \in [AlertKeys -> Nat]
      /\ EventsPast
    BY DEF AlertsInv, TypeOK, OneMessage
<1>3. CASE /\ UNCHANGED <<queue, buckets, worker, outbox>>
           /\ UNCHANGED <<accepted, dropped, delivered, discarded>>
    <2>1. Queued(k)' = Queued(k) /\ Sending(k)' = Sending(k)
        BY <1>3, Terms
    <2>2. Counted(k)' = Counted(k)
        BY <1>3 DEF Counted
    <2>3. QED
        BY <1>1, <1>3, <2>1, <2>2
<1>4. CASE \E h \in Handlers : NotifyEnqueue(h)
    <2> PICK h \in Handlers : NotifyEnqueue(h)
        BY <1>4
    <2>1. /\ pc[h] = "enqueue" /\ UNCHANGED <<buckets, worker, outbox, delivered, discarded>>
          /\ accepted' = [accepted EXCEPT ![event[h].key] = @ + 1]
          /\ \/ queue' = Append(queue, event[h]) /\ dropped' = dropped
             \/ dropped' = [dropped EXCEPT ![event[h].key] = @ + 1] /\ queue' = queue
        BY DEF NotifyEnqueue, workerVars
    <2>2. event[h] \in [key : AlertKeys, CreatedAt : 1..MaxTime] /\ event[h].key \in AlertKeys
        <3>1. now \in 1..MaxTime /\ MaxTime \in Nat
            BY AlertsAssumption DEF AlertsInv, TypeOK
        <3>2. QED
            BY <1>2, <2>1, <3>1 DEF EventsPast
    <2> DEFINE e == event[h]
               d == IF e.key = k THEN 1 ELSE 0
    <2>8. (e.key = k /\ d = 1) \/ (e.key # k /\ d = 0)
        OBVIOUS
    <2>3. Sending(k)' = Sending(k) /\ Counted(k)' = Counted(k)
        BY <2>1, Terms DEF Counted
    <2> HIDE DEF e, d
    <2>4. accepted'[k] = accepted[k] + d
        <3>1. e.key \in AlertKeys /\ accepted' = [accepted EXCEPT ![e.key] = @ + 1]
            BY <2>1, <2>2 DEF e
        <3>2. QED
            <4>1. CASE e.key = k
                BY <1>1, <1>2, <2>8, <3>1, <4>1
            <4>2. CASE e.key # k
                <5>1. accepted'[k] = accepted[k] /\ d = 0
                    BY <1>2, <2>8, <3>1, <4>2
                <5>2. QED
                    BY <1>1, <5>1
            <4>3. QED
                BY <4>1, <4>2
    <2>5. CASE queue' = Append(queue, event[h]) /\ dropped' = dropped
        <3>1. queue' = Append(queue, e) /\ e \in [key : AlertKeys, CreatedAt : 1..MaxTime]
            BY <2>2, <2>5 DEF e
        <3>2. CountIn(queue', k) = CountIn(queue, k) + d
            <4>1. PICK T : queue \in Seq(T) /\ e \in T
                BY <1>2, <3>1
            <4>2. CountIn(Append(queue, e), k) = CountIn(queue, k) + (IF e.key = k THEN 1 ELSE 0)
                BY <4>1, CountAppended
            <4>3. QED
                BY <3>1, <4>2 DEF d
        <3>3. Queued(k)' = Queued(k) + d
            BY <3>2, Terms
        <3>4. dropped'[k] = dropped[k] /\ delivered'[k] = delivered[k] /\ discarded'[k] = discarded[k]
            BY <2>1, <2>5
        <3>5. d \in Nat
            BY <2>8
        <3>6. QED
            BY <1>1, <2>3, <2>4, <3>3, <3>4, <3>5
    <2>6. CASE dropped' = [dropped EXCEPT ![event[h].key] = @ + 1] /\ queue' = queue
        <3>1. Queued(k)' = Queued(k)
            BY <2>6, Terms
        <3>2. dropped'[k] = dropped[k] + d
            <4>1. e.key \in AlertKeys /\ dropped' = [dropped EXCEPT ![e.key] = @ + 1]
                BY <2>2, <2>6 DEF e
            <4>2. QED
                <5>1. CASE e.key = k
                    BY <1>1, <1>2, <2>8, <4>1, <5>1
                <5>2. CASE e.key # k
                    <6>1. dropped'[k] = dropped[k] /\ d = 0
                        BY <1>2, <2>8, <4>1, <5>2
                    <6>2. QED
                        BY <1>1, <6>1
                <5>3. QED
                    BY <5>1, <5>2
        <3>3. delivered'[k] = delivered[k] /\ discarded'[k] = discarded[k] /\ d \in Nat
            BY <2>1, <2>8
        <3>4. QED
            BY <1>1, <2>3, <2>4, <3>1, <3>2, <3>3
    <2>7. QED
        BY <2>1, <2>5, <2>6
<1>5. CASE record
    <2> DEFINE j  == Head(queue).key
               t  == Head(queue).CreatedAt
               bs == [buckets EXCEPT ![j].count = @ + 1]
               S  == IF Due(bs[j], t) THEN {j} ELSE {}
               d  == IF j = k THEN 1 ELSE 0
    <2>1. /\ worker = "select" /\ queue # <<>> /\ queue' = Tail(queue) /\ Decide(S, bs, t)
          /\ UNCHANGED <<accepted, dropped, delivered, discarded>>
        BY <1>5 DEF record
    <2>2. j \in AlertKeys
        <3>1. Head(queue) \in [key : AlertKeys, CreatedAt : 1..MaxTime]
            BY <1>2, <2>1, Taken
        <3>2. QED
            BY <3>1
    <2>3. Queued(k) = Queued(k)' + d /\ Queued(k)' \in Nat
        <3>1. Tail(queue) \in Seq([key : AlertKeys, CreatedAt : 1..MaxTime])
            BY <1>2, <2>1, Taken
        <3>2. CountIn(queue', k) \in Nat
            BY <2>1, <3>1, CountNat
        <3>3. CountIn(queue, k) = CountIn(queue', k) + d
            BY <1>2, <2>1, CountTaken
        <3>4. QED
            BY <3>2, <3>3, Terms
    <2> HIDE DEF j, t
    <2>4. /\ bs \in [AlertKeys -> [count : Nat, lastSent : 0..MaxTime]]
          /\ bs[k].count = buckets[k].count + d
        <3> DEFINE b == [buckets[j] EXCEPT !.count = @ + 1]
        <3>1. buckets[j] \in [count : Nat, lastSent : 0..MaxTime]
            BY <1>2, <2>2
        <3>2. b \in [count : Nat, lastSent : 0..MaxTime] /\ b.count = buckets[j].count + 1
            BY <3>1
        <3>3. bs = [buckets EXCEPT ![j] = b]
            OBVIOUS
        <3> HIDE DEF b, bs
        <3>4. bs \in [AlertKeys -> [count : Nat, lastSent : 0..MaxTime]]
            BY <1>2, <2>2, <3>2, <3>3
        <3>5. CASE j = k
            BY <1>2, <3>2, <3>3, <3>5
        <3>6. CASE j # k
            <4>1. bs[k] = buckets[k]
                BY <1>2, <3>3, <3>6
            <4>2. d = 0
                BY <3>6
            <4> HIDE DEF d
            <4>3. QED
                BY <1>1, <3>4, <4>1, <4>2
        <3>7. QED
            BY <3>4, <3>5, <3>6
    <2>5. S \in SUBSET AlertKeys /\ d \in Nat
        BY <2>2
    <2> HIDE DEF bs, S, d
    <2>6. Counted(k)' + Sending(k)' = bs[k].count /\ Counted(k)' \in Nat /\ Sending(k)' \in Nat
        <3>1. Sending(k)' = IF k \in S THEN bs[k].count ELSE 0
            <4>1. \A x \in S : bs[x].count \in Nat
                BY <2>4, <2>5
            <4>2. outbox' = {Message(x, bs[x]) : x \in S}
                BY <2>1 DEF Decide
            <4>3. QED
                BY <4>1, <4>2, CountsMove
        <3>2. Counted(k)' = IF k \in S THEN 0 ELSE bs[k].count
            BY <2>1 DEF Decide, Counted
        <3>3. bs[k].count \in Nat
            BY <2>4
        <3>4. QED
            BY <3>1, <3>2, <3>3
    <2>7. Sending(k) = 0 /\ Counted(k) = buckets[k].count
        BY <2>1, BeforeDecision
    <2>8. /\ accepted'[k] = accepted[k] /\ dropped'[k] = dropped[k]
          /\ delivered'[k] = delivered[k] /\ discarded'[k] = discarded[k]
          /\ bs[k].count = buckets[k].count + d /\ d \in Nat
        BY <2>1, <2>4, <2>5
    <2>9. accepted[k] = dropped[k] + (Queued(k)' + d) + buckets[k].count + delivered[k] + discarded[k]
        BY <1>1, <2>3, <2>7
    <2>10. Queued(k)' + (buckets[k].count + d) = (Queued(k)' + d) + buckets[k].count
        BY <1>1, <2>3, <2>7, <2>8
    <2>11. Queued(k)' + Counted(k)' + Sending(k)' = Queued(k)' + (buckets[k].count + d)
        BY <2>3, <2>6, <2>8
    <2>12. QED
        BY <1>1, <2>3, <2>6, <2>7, <2>8, <2>9, <2>10, <2>11
<1>6. CASE flushDue
    <2> DEFINE S == {x \in AlertKeys : buckets[x].count > 0 /\ Due(buckets[x], now)}
    <2>1. /\ worker = "select" /\ queue' = queue /\ Decide(S, buckets, now)
          /\ UNCHANGED <<accepted, dropped, delivered, discarded>>
        BY <1>6 DEF flushDue
    <2>2. S \in SUBSET AlertKeys
        OBVIOUS
    <2> HIDE DEF S
    <2>3. Sending(k)' = IF k \in S THEN buckets[k].count ELSE 0
        <3>1. \A x \in S : buckets[x].count \in Nat
            BY <1>2, <2>2
        <3>2. outbox' = {Message(x, buckets[x]) : x \in S}
            BY <2>1 DEF Decide
        <3>3. QED
            BY <3>1, <3>2, CountsMove
    <2>4. Counted(k)' = IF k \in S THEN 0 ELSE buckets[k].count
        BY <2>1 DEF Decide, Counted
    <2>5. Sending(k) = 0 /\ Counted(k) = buckets[k].count /\ Queued(k)' = Queued(k)
        BY <2>1, BeforeDecision, Terms
    <2>6. QED
        BY <1>1, <2>1, <2>3, <2>4, <2>5
<1>7. CASE flushAll
    <2> DEFINE S == {x \in AlertKeys : buckets[x].count > 0}
    <2>1. /\ worker = "select" /\ queue' = queue /\ UNCHANGED <<accepted, dropped, delivered, discarded>>
          /\ outbox' = {Message(x, buckets[x]) : x \in S}
          /\ worker' \in {"last", "done"}
        BY <1>7 DEF flushAll
    <2>2. S \in SUBSET AlertKeys /\ (k \notin S => buckets[k].count = 0)
        BY <1>1
    <2> HIDE DEF S
    <2>3. Sending(k)' = IF k \in S THEN buckets[k].count ELSE 0
        <3>1. \A x \in S : buckets[x].count \in Nat
            BY <1>2, <2>2
        <3>2. QED
            BY <2>1, <3>1, CountsMove
    <2>4. Counted(k)' = 0
        BY <2>1 DEF Counted
    <2>5. Sending(k) = 0 /\ Counted(k) = buckets[k].count /\ Queued(k)' = Queued(k)
        BY <2>1, BeforeDecision, Terms
    <2>6. QED
        BY <1>1, <2>1, <2>2, <2>3, <2>4, <2>5
<1>8. CASE \E m \in outbox : send(m)
    <2> PICK m \in outbox : send(m)
        BY <1>8
    <2>1. /\ worker \in {"send", "last"} /\ outbox' = outbox \ {m}
          /\ worker' = IF outbox # {m} THEN worker
                       ELSE IF worker = "last" THEN "done" ELSE "select"
          /\ UNCHANGED <<queue, buckets, accepted, dropped>>
          /\ \/ delivered' = [delivered EXCEPT ![m.key] = @ + m.count] /\ discarded' = discarded
             \/ discarded' = [discarded EXCEPT ![m.key] = @ + m.count] /\ delivered' = delivered
        BY DEF send
    <2>2. m.key \in AlertKeys /\ m.count \in Nat
        BY <1>2
    <2>3. Counted(k)' = Counted(k) /\ Queued(k)' = Queued(k)
        BY <2>1, Terms DEF Counted
    <2>4. /\ \A x \in outbox : x.count \in Nat
          /\ \A x \in outbox' : x.count \in Nat
          /\ \A x, y \in outbox' : x.key = y.key => x = y
        BY <1>2, <2>1
    <2>5. CASE m.key = k
        <3>1. Sending(k) = m.count
            <4>1. SumFor(outbox, k) = m.count
                BY <1>2, <2>4, <2>5, SumOfKey
            <4>2. QED
                BY <4>1, Terms
        <3>2. \A x \in outbox' : x.key # k
            BY <1>2, <2>1, <2>5
        <3>3. Sending(k)' = 0
            <4>1. SumFor(outbox', k) = 0
                BY <2>4, <3>2, SumOfKey
            <4>2. QED
                BY <4>1, Terms
        <3>4. \/ delivered'[k] = delivered[k] + m.count /\ discarded'[k] = discarded[k]
              \/ discarded'[k] = discarded[k] + m.count /\ delivered'[k] = delivered[k]
            BY <1>2, <2>1, <2>2, <2>5
        <3>5. QED
            BY <1>1, <2>1, <2>2, <2>3, <3>1, <3>3, <3>4
    <2>6. CASE m.key # k
        <3>1. {x \in outbox' : x.key = k} = {x \in outbox : x.key = k}
            BY <2>1, <2>6
        <3>2. Sending(k)' = Sending(k)
            BY <3>1, Terms DEF SumFor
        <3>3. delivered'[k] = delivered[k] /\ discarded'[k] = discarded[k]
            BY <1>2, <2>1, <2>2, <2>6
        <3>4. QED
            BY <1>1, <2>1, <2>3, <3>2, <3>3
    <2>7. QED
        BY <2>5, <2>6
<1>9. CASE \/ \E h \in Handlers : (\E x \in AlertKeys : Deny(h, x)) \/ NotifyCheck(h)
           \/ \E c \in Configs : Update(c)
           \/ Close \/ Tick \/ UNCHANGED vars
    BY <1>3, <1>9 DEF Deny, NotifyCheck, Update, Close, Tick, vars, workerVars, counters
<1>10. QED
    BY <1>4, <1>5, <1>6, <1>7, <1>8, <1>9 DEF Next

\* Every denial past Notify's checks is accounted for exactly once, whatever
\* handlers, worker, reloads and shutdown do: dropped, queued, counted, in a
\* message under way, or in one that was sent or given up.
THEOREM DenialsAccounted == Spec => []Accounted
<1>1. Init => Accounted
    <2> SUFFICES ASSUME Init, NEW k \in AlertKeys
                 PROVE  accepted[k] = dropped[k] + Queued(k) + Counted(k) + Sending(k)
                                      + delivered[k] + discarded[k]
        BY DEF Accounted
    <2>1. AlertsInv /\ worker = "select"
        BY AlertsStart DEF Init
    <2>2. Sending(k) = 0 /\ Counted(k) = 0
        BY <2>1, BeforeDecision DEF Init
    <2>3. Queued(k) = 0
        <3>1. {i \in DOMAIN queue : queue[i].key = k} = {}
            BY DEF Init
        <3>2. QED
            BY <3>1, FS_EmptySet DEF Queued
    <2>4. QED
        BY <2>2, <2>3 DEF Init, Zero
<1>2. AlertsInv /\ AlertsInv' /\ Accounted /\ [Next]_vars => Accounted'
    BY AccountStep
<1>3. QED
    BY <1>1, <1>2, AlertsStart, AlertsStep, PTL DEF Spec

=============================================================================
