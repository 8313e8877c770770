------------------------------ MODULE AppQueue ------------------------------
(***************************************************************************)
(* The keyed application queue of the controller and the worker pool that  *)
(* drains it: mrp_controller/controller/appqueue.go.                       *)
(*                                                                         *)
(* Threads: the informer's goroutine (Enqueue), the pool's dequeueLoop,    *)
(* the workers, and whoever calls Stop and SetLengthGauge.  Everything a   *)
(* queue method does while it holds kq.mu is one step.  An application     *)
(* snapshot is a key and a version; the informer's snapshots of one key    *)
(* carry increasing versions.                                              *)
(***************************************************************************)
EXTENDS Integers, Sequences, FiniteSets

CONSTANTS
  Keys,        \* applications, "namespace/name"
  Workers,     \* worker goroutines; the flag controller-workers is at least 1
  MaxVersion,  \* bound on the snapshots of one application
  NoItem       \* "no job": what an idle thread holds

Versions == 1..MaxVersion
Items == [key : Keys, ver : Versions]
None == 0      \* "no version"
NoGauge == -1  \* lengthGauge = nil

ASSUME KeysAssumption == IsFiniteSet(Keys)
ASSUME WorkersAssumption == IsFiniteSet(Workers) /\ Workers # {}
ASSUME MaxVersionAssumption == MaxVersion \in Nat
ASSUME NoItemAssumption == NoItem \notin Items

VARIABLES
  items,       \* the list: a sequence of items, front first
  keyMap,      \* the keys that have an element in the list
  processing,  \* currently handled keys
  pending,     \* pending[k]: the version received during processing, or None
  gauge,       \* the value last written to lengthGauge, or NoGauge
  loop,        \* where dequeueLoop is
  hand,        \* dequeueLoop's variable item
  jobChan,     \* the buffered channel
  chanClosed,  \* close(jobChan) was executed
  wpc,         \* where each worker is
  job,         \* each worker's variable job
  cancelled,   \* the pool's context is done
  latest,      \* history: the newest version enqueued
  handled,     \* history: the newest version whose handler returned
  extra        \* history: items dequeued after Stop

queueVars == <<items, keyMap, processing, pending, gauge>>
poolVars == <<hand, jobChan, chanClosed, wpc, job, cancelled>>
vars == <<queueVars, loop, poolVars, latest, handled, extra>>

LoopStates == {"check", "dequeue", "waiting", "send", "exited", "abandoned"}
WorkerStates == {"receive", "handle", "done", "exited"}

-----------------------------------------------------------------------------
(* The queue's helpers.                                                    *)

Position(q, k) == CHOOSE i \in 1..Len(q) : q[i].key = k

\* Faulty variant: the updated application goes to the back of the list.
PutItemAtBack(q, km, it) == Append(SelectSeq(q, LAMBDA e : e.key # it.key), it)

\* A key that has an element keeps its place, a new key goes to the back.
PutItem(q, km, it) ==
  IF it.key \in km THEN [q EXCEPT ![Position(q, it.key)] = it]
                   ELSE Append(q, it)

\* Faulty variant: no Signal.
NoSignal(l) == l

\* notEmpty.Signal(): wakes dequeueLoop, the only thread that ever waits.  A
\* woken thread takes the mutex again and re-evaluates the loop condition.
Signal(l) == IF l = "waiting" THEN "dequeue" ELSE l

QueueLength(q, pend) == Len(q) + Cardinality({k \in Keys : pend[k] # None})

\* reportQueueLength, the last thing a queue method does.
ReportQueueLength ==
  gauge' = IF gauge = NoGauge THEN NoGauge ELSE QueueLength(items', pending')

\* Faulty variant: the processing set is not consulted.
EnqueueAlways(it, proc, pend) ==
  /\ pending' = pend
  /\ items' = PutItem(items, keyMap, it)
  /\ keyMap' = keyMap \cup {it.key}
  /\ loop' = Signal(loop)
  /\ ReportQueueLength

\* Faulty variant: an update that arrives during processing is only noted
\* when none is pending yet.
EnqueueKeepsFirst(it, proc, pend) ==
  /\ IF it.key \in proc
     THEN /\ pending' = IF pend[it.key] = None
                        THEN [pend EXCEPT ![it.key] = it.ver] ELSE pend
          /\ UNCHANGED <<items, keyMap, loop>>
     ELSE /\ pending' = pend
          /\ items' = PutItem(items, keyMap, it)
          /\ keyMap' = keyMap \cup {it.key}
          /\ loop' = Signal(loop)
  /\ ReportQueueLength

\* enqueueLocked, given the values of processing and pending at the call.
EnqueueLocked(it, proc, pend) ==
  /\ IF it.key \in proc
     THEN /\ pending' = [pend EXCEPT ![it.key] = it.ver]
          /\ UNCHANGED <<items, keyMap, loop>>
     ELSE /\ pending' = pend
          /\ items' = PutItem(items, keyMap, it)
          /\ keyMap' = keyMap \cup {it.key}
          /\ loop' = Signal(loop)
  /\ ReportQueueLength

-----------------------------------------------------------------------------
(* NewKeyedAppQueue and NewWorkerPool.                                     *)

Init ==
  /\ items = <<>>
  /\ keyMap = {}
  /\ processing = {}
  /\ pending = [k \in Keys |-> None]
  /\ gauge = NoGauge
  /\ loop = "check"
  /\ hand = NoItem
  /\ jobChan = <<>>
  /\ chanClosed = FALSE
  /\ wpc = [w \in Workers |-> "receive"]
  /\ job = [w \in Workers |-> NoItem]
  /\ cancelled = FALSE
  /\ latest = [k \in Keys |-> 0]
  /\ handled = [k \in Keys |-> 0]
  /\ extra = 0

-----------------------------------------------------------------------------
(* The informer's goroutine, and the owner of the pool.                    *)

Enqueue(k) ==
  /\ latest[k] < MaxVersion
  /\ latest' = [latest EXCEPT ![k] = @ + 1]
  /\ EnqueueLocked([key |-> k, ver |-> latest[k] + 1], processing, pending)
  /\ UNCHANGED <<processing, poolVars, handled, extra>>

SetLengthGauge ==
  /\ gauge = NoGauge
  /\ gauge' = QueueLength(items, pending)
  /\ UNCHANGED <<items, keyMap, processing, pending, loop, poolVars,
                 latest, handled, extra>>

Stop ==
  /\ ~cancelled
  /\ cancelled' = TRUE
  /\ UNCHANGED <<queueVars, loop, hand, jobChan, chanClosed, wpc, job,
                 latest, handled, extra>>

-----------------------------------------------------------------------------
(* dequeueLoop, with DequeueWait in line.                                  *)

\* Faulty variant: the loop does not look at its context.
LoopUnchecked ==
  /\ loop = "check"
  /\ loop' = "dequeue"
  /\ UNCHANGED <<queueVars, poolVars, latest, handled, extra>>

\* Faulty variant: the loop returns without closing the channel.
LoopNoClose ==
  /\ loop = "check"
  /\ loop' = IF cancelled THEN "exited" ELSE "dequeue"
  /\ UNCHANGED <<queueVars, poolVars, latest, handled, extra>>

\* The select at the top of the loop: a done context closes the channel.
LoopCheck ==
  /\ loop = "check"
  /\ loop' = IF cancelled THEN "exited" ELSE "dequeue"
  /\ chanClosed' = cancelled
  /\ UNCHANGED <<queueVars, hand, jobChan, wpc, job, cancelled,
                 latest, handled, extra>>

\* The queue is empty: give up when the context is done, else sleep on the
\* condition variable.  Wait registers the thread and releases the mutex in
\* one step, so no Signal falls between the test and the sleep.
DequeueEmpty ==
  /\ loop = "dequeue"
  /\ items = <<>>
  /\ loop' = IF cancelled THEN "check" ELSE "waiting"
  /\ UNCHANGED <<queueVars, poolVars, latest, handled, extra>>

\* Faulty variant: the key stays in keyMap.
DequeueKeepsKeyMap ==
  /\ loop = "dequeue"
  /\ items # <<>>
  /\ hand' = Head(items)
  /\ items' = Tail(items)
  /\ processing' = processing \cup {Head(items).key}
  /\ UNCHANGED <<keyMap, pending>>
  /\ ReportQueueLength
  /\ loop' = "send"
  /\ extra' = IF cancelled THEN extra + 1 ELSE extra
  /\ UNCHANGED <<jobChan, chanClosed, wpc, job, cancelled, latest, handled>>

DequeueFront ==
  /\ loop = "dequeue"
  /\ items # <<>>
  /\ hand' = Head(items)
  /\ items' = Tail(items)
  /\ keyMap' = keyMap \ {Head(items).key}
  /\ processing' = processing \cup {Head(items).key}
  /\ UNCHANGED pending
  /\ ReportQueueLength
  /\ loop' = "send"
  /\ extra' = IF cancelled THEN extra + 1 ELSE extra
  /\ UNCHANGED <<jobChan, chanClosed, wpc, job, cancelled, latest, handled>>

\* Faulty variant: a channel whose buffer is one slot too large.
LoopSendOver ==
  /\ loop = "send"
  /\ Len(jobChan) <= 2 * Cardinality(Workers)
  /\ jobChan' = Append(jobChan, hand)
  /\ hand' = NoItem
  /\ loop' = "check"
  /\ UNCHANGED <<queueVars, chanClosed, wpc, job, cancelled,
                 latest, handled, extra>>

\* The second select: with room in the channel and the context done, either.
LoopSend ==
  /\ loop = "send"
  /\ Len(jobChan) < 2 * Cardinality(Workers)
  /\ jobChan' = Append(jobChan, hand)
  /\ hand' = NoItem
  /\ loop' = "check"
  /\ UNCHANGED <<queueVars, chanClosed, wpc, job, cancelled,
                 latest, handled, extra>>

\* It returns with the item in its hand, and does not close the channel.
LoopAbandon ==
  /\ loop = "send"
  /\ cancelled
  /\ loop' = "abandoned"
  /\ UNCHANGED <<queueVars, poolVars, latest, handled, extra>>

-----------------------------------------------------------------------------
(* A worker: for job := range jobChan { f(ctx, job.Value); Done(job.Key) } *)

WorkerReceive(w) ==
  /\ wpc[w] = "receive"
  /\ jobChan # <<>>
  /\ job' = [job EXCEPT ![w] = Head(jobChan)]
  /\ jobChan' = Tail(jobChan)
  /\ wpc' = [wpc EXCEPT ![w] = "handle"]
  /\ UNCHANGED <<queueVars, loop, hand, chanClosed, cancelled,
                 latest, handled, extra>>

\* f returns: the controller's calculateIfPermitted ignores its outcome.
HandlerReturns(w) ==
  /\ wpc[w] = "handle"
  /\ handled' = [handled EXCEPT ![job[w].key] = job[w].ver]
  /\ wpc' = [wpc EXCEPT ![w] = "done"]
  /\ UNCHANGED <<queueVars, loop, hand, jobChan, chanClosed, job, cancelled,
                 latest, extra>>

\* Faulty variant: the pending update is requeued but not removed.
DoneKeepsPending(w) ==
  LET k == job[w].key IN
  /\ wpc[w] = "done"
  /\ processing' = processing \ {k}
  /\ IF k \notin processing \/ pending[k] = None
     THEN UNCHANGED <<items, keyMap, pending, gauge, loop>>
     ELSE EnqueueLocked([key |-> k, ver |-> pending[k]], processing \ {k},
                        pending)
  /\ wpc' = [wpc EXCEPT ![w] = "receive"]
  /\ job' = [job EXCEPT ![w] = NoItem]
  /\ UNCHANGED <<hand, jobChan, chanClosed, cancelled, latest, handled, extra>>

\* Done(job.Key).  The early return for a key that is not being processed and
\* the one for a key without a pending update leave the rest alone.
Done(w) ==
  LET k == job[w].key IN
  /\ wpc[w] = "done"
  /\ processing' = processing \ {k}
  /\ IF k \notin processing \/ pending[k] = None
     THEN UNCHANGED <<items, keyMap, pending, gauge, loop>>
     ELSE EnqueueLocked([key |-> k, ver |-> pending[k]], processing \ {k},
                        [pending EXCEPT ![k] = None])
  /\ wpc' = [wpc EXCEPT ![w] = "receive"]
  /\ job' = [job EXCEPT ![w] = NoItem]
  /\ UNCHANGED <<hand, jobChan, chanClosed, cancelled, latest, handled, extra>>

\* The range loop ends when the channel is closed and drained.
WorkerExit(w) ==
  /\ wpc[w] = "receive"
  /\ chanClosed
  /\ jobChan = <<>>
  /\ wpc' = [wpc EXCEPT ![w] = "exited"]
  /\ UNCHANGED <<queueVars, loop, hand, jobChan, chanClosed, job, cancelled,
                 latest, handled, extra>>

-----------------------------------------------------------------------------
LoopStep ==
  LoopCheck \/ DequeueEmpty \/ DequeueFront \/ LoopSend \/ LoopAbandon

WorkerStep(w) ==
  WorkerReceive(w) \/ HandlerReturns(w) \/ Done(w) \/ WorkerExit(w)

Next ==
  \/ \E k \in Keys : Enqueue(k)
  \/ SetLengthGauge
  \/ Stop
  \/ LoopStep
  \/ \E w \in Workers : WorkerStep(w)

Spec == Init /\ [][Next]_vars

\* The Go scheduler runs every runnable goroutine, and a handler returns: its
\* calls carry the context of eventTimeout.  Nothing makes snapshots arrive,
\* the gauge be set, or the pool be stopped.
Fairness == WF_vars(LoopStep) /\ \A w \in Workers : WF_vars(WorkerStep(w))

FairSpec == Spec /\ Fairness

-----------------------------------------------------------------------------
(* Where a snapshot can be once it left the list.                          *)

InHand == loop \in {"send", "abandoned"}
Busy(w) == wpc[w] \in {"handle", "done"}

\* Version v of key k is with dequeueLoop, in the channel, or with a worker.
InFlight(k, v) ==
  LET it == [key |-> k, ver |-> v] IN
  \/ InHand /\ hand = it
  \/ \E i \in 1..Len(jobChan) : jobChan[i] = it
  \/ \E w \in Workers : Busy(w) /\ job[w] = it

-----------------------------------------------------------------------------
(* Safety.                                                                 *)

\* Every variable has its type; the channel never holds more than its
\* capacity of numWorkers*2, and a thread holds an item exactly while it is
\* at a place of its code where the variable is set.
TypeOK ==
  /\ items \in Seq(Items)
  /\ keyMap \subseteq Keys
  /\ processing \subseteq Keys
  /\ pending \in [Keys -> Versions \cup {None}]
  /\ gauge \in Nat \cup {NoGauge}
  /\ loop \in LoopStates
  /\ hand \in Items \cup {NoItem}
  /\ InHand <=> hand # NoItem
  /\ jobChan \in Seq(Items)
  /\ Len(jobChan) <= 2 * Cardinality(Workers)
  /\ chanClosed \in BOOLEAN
  /\ wpc \in [Workers -> WorkerStates]
  /\ job \in [Workers -> Items \cup {NoItem}]
  /\ \A w \in Workers : Busy(w) <=> job[w] # NoItem
  /\ cancelled \in BOOLEAN
  /\ latest \in [Keys -> 0..MaxVersion]
  /\ handled \in [Keys -> 0..MaxVersion]
  /\ extra \in Nat

\* The list, keyMap, processing and pending agree between any two critical
\* sections of kq.mu: the list holds a key at most once, keyMap has exactly
\* the keys of the list, a key is never queued and processed at once, and
\* only a processed key has a pending update.
QueueConsistent ==
  /\ \A i, j \in 1..Len(items) : items[i].key = items[j].key => i = j
  /\ keyMap = {items[i].key : i \in 1..Len(items)}
  /\ keyMap \cap processing = {}
  /\ \A k \in Keys : pending[k] # None => k \in processing

\* The purpose of the processing set (appqueue.go:112): two goroutines never
\* handle the same application in parallel, however its updates arrive.
SingleHandler ==
  \A v, w \in Workers :
    Busy(v) /\ Busy(w) /\ job[v].key = job[w].key => v = w

\* The branch of Done that logs "this cannot happen!" (appqueue.go:126) is
\* not taken: a worker about to call Done holds a key that is in processing.
DoneExpected ==
  \A w \in Workers : wpc[w] = "done" => job[w].key \in processing

\* No update is lost, whatever it races with: the newest snapshot enqueued
\* for a key is pending, in the list, in flight, or already handled, in this
\* order of precedence.
LatestKept ==
  \A k \in Keys : latest[k] # None =>
    CASE pending[k] # None -> pending[k] = latest[k]
      [] pending[k] = None /\ k \in keyMap ->
           \E i \in 1..Len(items) : items[i] = [key |-> k, ver |-> latest[k]]
      [] pending[k] = None /\ k \notin keyMap /\ k \in processing ->
           InFlight(k, latest[k])
      [] OTHER -> handled[k] = latest[k]

\* Once set, the gauge equals the list's length plus the number of pending
\* updates whenever kq.mu is free: no path misses reportQueueLength.
GaugeExact == gauge # NoGauge => gauge = QueueLength(items, pending)

\* The queue's books are right whenever kq.mu is free: list and index agree and
\* are apart from the keys in processing, Done finds its key there, and the
\* gauge shows the length, through every order of updates, handlings and a
\* loop that is blocked by a full channel.
BookkeepingExact == QueueConsistent /\ DoneExpected /\ GaugeExact

\* dequeueLoop does not sleep while the list has an item.
NoLostWakeup == loop = "waiting" => items = <<>>

\* After Stop dequeueLoop takes at most one more item from the queue.
StopLimit == extra <= 1

-----------------------------------------------------------------------------
(* The inductive strengthening of the safety properties above.             *)

\* Every item that left the list belongs to a processed key, and no two of
\* them, wherever they are, belong to the same key.
InFlightExclusive ==
  /\ InHand => hand.key \in processing
  /\ \A i \in 1..Len(jobChan) : jobChan[i].key \in processing
  /\ \A w \in Workers : Busy(w) => job[w].key \in processing
  /\ InHand => \A i \in 1..Len(jobChan) : jobChan[i].key # hand.key
  /\ InHand => \A w \in Workers : Busy(w) => job[w].key # hand.key
  /\ \A i, j \in 1..Len(jobChan) : jobChan[i].key = jobChan[j].key => i = j
  /\ \A i \in 1..Len(jobChan), w \in Workers :
        Busy(w) => job[w].key # jobChan[i].key
  /\ SingleHandler

\* An item in flight is the newest of its key unless a newer one is pending.
Newest(it) == IF pending[it.key] = None THEN it.ver = latest[it.key]
                                        ELSE it.ver < latest[it.key]

\* ... and, until its handler returns, newer than anything handled.
Fresh(it) == Newest(it) /\ handled[it.key] < it.ver

\* How the versions of one key are ordered along their way.
VersionOrder ==
  /\ \A k \in Keys : handled[k] <= latest[k]
  /\ \A k \in Keys : pending[k] # None => pending[k] = latest[k]
  /\ \A i \in 1..Len(items) :
        /\ items[i].ver = latest[items[i].key]
        /\ handled[items[i].key] < items[i].ver
  /\ InHand => Fresh(hand)
  /\ \A i \in 1..Len(jobChan) : Fresh(jobChan[i])
  /\ \A w \in Workers : wpc[w] = "handle" => Fresh(job[w])
  /\ \A w \in Workers : wpc[w] = "done" =>
        Newest(job[w]) /\ handled[job[w].key] = job[w].ver

\* Some item of key k is in flight.
Held(k) ==
  \/ InHand /\ hand.key = k
  \/ \E i \in 1..Len(jobChan) : jobChan[i].key = k
  \/ \E w \in Workers : Busy(w) /\ job[w].key = k

\* No key is forgotten: a processed key has its item in flight, and a key
\* that is neither queued nor processed has been handled completely.
Accounted ==
  /\ \A k \in processing : Held(k)
  /\ \A k \in Keys : k \notin keyMap \cup processing => handled[k] = latest[k]

IInv == TypeOK /\ QueueConsistent /\ InFlightExclusive /\ VersionOrder
               /\ Accounted

-----------------------------------------------------------------------------
(* What a step may never do.                                               *)

\* A queued application is never overtaken by one queued behind it: as long
\* as it stays in the list it only moves towards the front, also when an
\* update replaces its snapshot (appqueue.go:64).
NeverOvertaken ==
  [][\A i \in 1..Len(items), j \in 1..Len(items') :
        items[i].key = items'[j].key => j <= i]_vars

\* A handler never returns for a snapshot older than one already handled.
NoStaleHandling == [][\A k \in Keys : handled[k] <= handled'[k]]_vars

\* The queue and the pool implement the mailbox: a processed key's active
\* version is the one in flight.
Active(k) ==
  IF k \in processing
  THEN CHOOSE v \in Versions \cup {None} : InFlight(k, v)
  ELSE None

MB == INSTANCE Mailbox WITH newest <- latest,
                            active <- [k \in Keys |-> Active(k)]

\* Every behaviour of the queue and its pool is, seen through Active, one of
\* Mailbox: a snapshot is claimed when dequeueLoop takes it, it is then the
\* newest one, no second claim of its key happens before Done, and no
\* snapshot is claimed twice.
ImplementsMailbox == MB!Spec

-----------------------------------------------------------------------------
(* Liveness, under Fairness.                                               *)

\* Every snapshot enqueued is eventually handled, or superseded by a newer
\* one that is, unless the pool is stopped.
Delivered ==
  \A k \in Keys : \A v \in Versions :
    (latest[k] >= v) ~> (handled[k] >= v \/ cancelled)

\* A stop of a dequeueLoop that is awake brings the pool to rest with nothing
\* left half done: every job in the channel, full or not, is handled and leaves
\* processing.  A loop that was at its check closes the channel, and the workers
\* exit.  One that had an item in its hand may return with it whether there was
\* room or not (appqueue.go:161-164): then that application, and no other, stays
\* in processing, and the workers wait on a channel that nobody closes.
StopDrains ==
  (cancelled /\ loop # "waiting") ~>
    /\ jobChan = <<>>
    /\ \/ /\ loop = "exited"
          /\ processing = {}
          /\ \A w \in Workers : wpc[w] = "exited"
       \/ /\ loop = "abandoned"
          /\ processing = {hand.key}
          /\ \A w \in Workers : wpc[w] = "receive"
=============================================================================
