------------------------------- MODULE Alerts -------------------------------
(***************************************************************************)
(* The deny alerts of internal/alerts/alerts.go: handlers that put events  *)
(* into a bounded queue or drop them, one worker that counts them per key  *)
(* and sends a message when the key's cooldown has passed, and reloads     *)
(* that switch alerts on and off under both.                               *)
(*                                                                         *)
(* Times are positive clock ticks, 0 is Go's zero time.  Only the counts   *)
(* of a message matter here; its text, and the first and last times in it, *)
(* are left out.                                                           *)
(***************************************************************************)
EXTENDS Naturals, Sequences, FiniteSets, FiniteSetsExt

CONSTANTS Handlers,   \* handler goroutines that deny requests
          AlertKeys,  \* token, route, reason and status of a denial
          QueueSize,
          Configs,    \* alert sections of configurations that pass Load
          MaxTime,    \* bound: clock
          MaxEvents   \* bound: denials

ASSUME AlertsAssumption ==
    /\ QueueSize \in Nat \ {0}
    /\ MaxTime \in Nat \ {0}
    /\ MaxEvents \in Nat
    /\ Configs # {} /\ Configs \subseteq [on : BOOLEAN, Cooldown : Nat \ {0}]

VARIABLES
    now,
    cfg,                 \* the manager's configuration
    queue,
    buckets,             \* per key: denials counted since, and time of, the last message
    pc, event,           \* per handler
    worker, outbox,      \* the worker: "select", "send", "last" or "done"; messages to send
    stopped,             \* Close was called
    events,              \* denials so far
    accepted, dropped,   \* per key: denials past Notify's checks; of these, dropped
    delivered, discarded,\* per key: denials in messages sent; in messages not sent
    messages, began      \* per key: messages decided on; stamp of the first

counters    == <<accepted, dropped, delivered, discarded, messages, began>>
handlerVars == <<pc, event, events>>
workerVars  == <<worker, outbox>>
vars == <<now, cfg, queue, buckets, handlerVars, workerVars, stopped, counters>>

NoEvent == [key |-> "none", CreatedAt |-> 0]

-----------------------------------------------------------------------------
(* Notify, called by deny. *)

\* deny stamps the event; one that suppressEvent filters out is no event here.
Deny(h, k) ==
    /\ pc[h] = "idle"
    /\ events < MaxEvents
    /\ events' = events + 1
    /\ pc' = [pc EXCEPT ![h] = "notify"]
    /\ event' = [event EXCEPT ![h] = [key |-> k, CreatedAt |-> now]]
    /\ UNCHANGED <<now, cfg, queue, buckets, workerVars, stopped, counters>>

\* The configuration is read under the mutex, which is released before the send.
NotifyCheck(h) ==
    /\ pc[h] = "notify"
    /\ \/ /\ cfg.on
          /\ pc' = [pc EXCEPT ![h] = "enqueue"]
          /\ UNCHANGED event
       \/ /\ ~cfg.on
          /\ pc' = [pc EXCEPT ![h] = "idle"]
          /\ event' = [event EXCEPT ![h] = NoEvent]
    /\ UNCHANGED <<now, cfg, queue, buckets, events, workerVars, stopped, counters>>

\* A full queue never blocks the handler.
NotifyEnqueue_Unbounded(h) ==
    /\ pc[h] = "enqueue"
    /\ pc' = [pc EXCEPT ![h] = "idle"]
    /\ event' = [event EXCEPT ![h] = NoEvent]
    /\ accepted' = [accepted EXCEPT ![event[h].key] = @ + 1]
    /\ queue' = Append(queue, event[h])
    /\ UNCHANGED <<now, cfg, buckets, events, workerVars, stopped,
                   dropped, delivered, discarded, messages, began>>

NotifyEnqueue(h) ==
    /\ pc[h] = "enqueue"
    /\ pc' = [pc EXCEPT ![h] = "idle"]
    /\ event' = [event EXCEPT ![h] = NoEvent]
    /\ accepted' = [accepted EXCEPT ![event[h].key] = @ + 1]
    /\ \/ /\ Len(queue) < QueueSize
          /\ queue' = Append(queue, event[h])
          /\ UNCHANGED dropped
       \/ /\ Len(queue) >= QueueSize
          /\ dropped' = [dropped EXCEPT ![event[h].key] = @ + 1]
          /\ UNCHANGED queue
    /\ UNCHANGED <<now, cfg, buckets, events, workerVars, stopped,
                   delivered, discarded, messages, began>>

-----------------------------------------------------------------------------
(* The worker. *)

\* A key may send when it never did or its cooldown has passed; an event stamped
\* before the last message is never due.
Due_NoCooldown(b, t) == b.count > 0

Due(b, t) == b.lastSent = 0 \/ t >= b.lastSent + cfg.Cooldown

Message(k, b) == [key |-> k, count |-> b.count]

Decide_CountKept(S, bs, t) ==
    /\ outbox' = {Message(k, bs[k]) : k \in S}
    /\ worker' = IF S = {} THEN "select" ELSE "send"
    /\ buckets' = [k \in AlertKeys |-> IF k \in S THEN [bs[k] EXCEPT !.lastSent = t] ELSE bs[k]]
    /\ messages' = [k \in AlertKeys |-> IF k \in S THEN messages[k] + 1 ELSE messages[k]]
    /\ began' = [k \in AlertKeys |-> IF k \in S /\ messages[k] = 0 THEN t ELSE began[k]]

\* The messages of the keys in S are decided on and their buckets start anew,
\* stamped t.
Decide(S, bs, t) ==
    /\ outbox' = {Message(k, bs[k]) : k \in S}
    /\ worker' = IF S = {} THEN "select" ELSE "send"
    /\ buckets' = [k \in AlertKeys |-> IF k \in S THEN [count |-> 0, lastSent |-> t] ELSE bs[k]]
    /\ messages' = [k \in AlertKeys |-> IF k \in S THEN messages[k] + 1 ELSE messages[k]]
    /\ began' = [k \in AlertKeys |-> IF k \in S /\ messages[k] = 0 THEN t ELSE began[k]]

\* record takes the time of the event, however long it was queued.
record ==
    /\ worker = "select"
    /\ queue # <<>>
    /\ queue' = Tail(queue)
    /\ LET k  == Head(queue).key
           t  == Head(queue).CreatedAt
           bs == [buckets EXCEPT ![k].count = @ + 1]
       IN  Decide(IF Due(bs[k], t) THEN {k} ELSE {}, bs, t)
    /\ UNCHANGED <<now, cfg, handlerVars, stopped, accepted, dropped, delivered, discarded>>

\* flushDue, on the ticker, takes the time of the clock.
flushDue ==
    /\ worker = "select"
    /\ Decide({k \in AlertKeys : buckets[k].count > 0 /\ Due(buckets[k], now)}, buckets, now)
    /\ UNCHANGED <<now, cfg, queue, handlerVars, stopped, accepted, dropped, delivered, discarded>>

\* send reads the configuration again: a message decided on while alerts were on
\* is discarded once they are off, and one Telegram does not take is lost.
send(m) ==
    /\ worker \in {"send", "last"}
    /\ m \in outbox
    /\ outbox' = outbox \ {m}
    /\ worker' = IF outbox # {m} THEN worker
                 ELSE IF worker = "last" THEN "done" ELSE "select"
    /\ \/ /\ cfg.on
          /\ delivered' = [delivered EXCEPT ![m.key] = @ + m.count]
          /\ UNCHANGED discarded
       \/ /\ discarded' = [discarded EXCEPT ![m.key] = @ + m.count]
          /\ UNCHANGED delivered
    /\ UNCHANGED <<now, cfg, queue, buckets, handlerVars, stopped,
                   accepted, dropped, messages, began>>

\* flushAll sends what was counted and leaves the queue as it is.
flushAll ==
    /\ worker = "select"
    /\ stopped
    /\ outbox' = {Message(k, buckets[k]) : k \in {x \in AlertKeys : buckets[x].count > 0}}
    /\ worker' = IF outbox' = {} THEN "done" ELSE "last"
    /\ messages' = [k \in AlertKeys |-> messages[k] + IF buckets[k].count > 0 THEN 1 ELSE 0]
    /\ began' = [k \in AlertKeys |-> IF buckets[k].count > 0 /\ messages[k] = 0 THEN now ELSE began[k]]
    /\ UNCHANGED <<now, cfg, queue, buckets, handlerVars, stopped,
                   accepted, dropped, delivered, discarded>>

-----------------------------------------------------------------------------
Update(c) ==
    /\ cfg' = c
    /\ UNCHANGED <<now, queue, buckets, handlerVars, workerVars, stopped, counters>>

Close ==
    /\ ~stopped
    /\ stopped' = TRUE
    /\ UNCHANGED <<now, cfg, queue, buckets, handlerVars, workerVars, counters>>

Tick ==
    /\ now < MaxTime
    /\ now' = now + 1
    /\ UNCHANGED <<cfg, queue, buckets, handlerVars, workerVars, stopped, counters>>

Zero == [k \in AlertKeys |-> 0]

Init ==
    /\ now = 1
    /\ cfg \in Configs
    /\ queue = <<>>
    /\ buckets = [k \in AlertKeys |-> [count |-> 0, lastSent |-> 0]]
    /\ pc = [h \in Handlers |-> "idle"]
    /\ event = [h \in Handlers |-> NoEvent]
    /\ worker = "select"
    /\ outbox = {}
    /\ stopped = FALSE
    /\ events = 0
    /\ accepted = Zero /\ dropped = Zero /\ delivered = Zero /\ discarded = Zero
    /\ messages = Zero /\ began = Zero

Next ==
    \/ \E h \in Handlers : (\E k \in AlertKeys : Deny(h, k)) \/ NotifyCheck(h) \/ NotifyEnqueue(h)
    \/ record
    \/ flushDue
    \/ flushAll
    \/ \E m \in outbox : send(m)
    \/ \E c \in Configs : Update(c)
    \/ Close
    \/ Tick

Spec == Init /\ [][Next]_vars

-----------------------------------------------------------------------------
(* Properties *)

\* Every variable has its type; the queue never outgrows its channel.
TypeOK ==
    /\ now \in 1..MaxTime
    /\ cfg \in Configs
    /\ queue \in Seq([key : AlertKeys, CreatedAt : 1..MaxTime]) /\ Len(queue) <= QueueSize
    /\ buckets \in [AlertKeys -> [count : Nat, lastSent : 0..MaxTime]]
    /\ pc \in [Handlers -> {"idle", "notify", "enqueue"}]
    /\ worker \in {"select", "send", "last", "done"}
    /\ outbox \subseteq [key : AlertKeys, count : Nat]
    /\ stopped \in BOOLEAN
    /\ events \in 0..MaxEvents
    /\ \A f \in {accepted, dropped, delivered, discarded, messages, began} :
          f \in [AlertKeys -> Nat]

Queued(k) == Cardinality({i \in DOMAIN queue : queue[i].key = k})

\* What the worker still owes: after flushAll the counts live on in the outbox.
Counted(k) == IF worker \in {"last", "done"} THEN 0 ELSE buckets[k].count

Sending(k) == MapThenSumSet(LAMBDA m : m.count, {m \in outbox : m.key = k})

\* Every denial past Notify's checks is accounted for exactly once: dropped by a
\* full queue, still queued, counted, in a message under way, or in one that was
\* sent or given up.  The counts in the messages add up, whatever reloads do.
Accounted ==
    \A k \in AlertKeys :
        accepted[k] = dropped[k] + Queued(k) + Counted(k) + Sending(k)
                      + delivered[k] + discarded[k]

ShortestCooldown == Min({c.Cooldown : c \in Configs})

\* A key's messages keep to its cooldown in the long run: no more than one per
\* cooldown since the first, one more at shutdown, although record and flushDue
\* stamp with different clocks and events are recorded out of order.
AlertRate ==
    \A k \in AlertKeys :
        messages[k] <= (now - began[k]) \div ShortestCooldown + 1
                       + IF worker \in {"last", "done"} THEN 1 ELSE 0

=============================================================================
