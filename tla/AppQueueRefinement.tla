------------------------- MODULE AppQueueRefinement -------------------------
(***************************************************************************)
(* AppQueue implements Mailbox.  The mapping keeps latest and handled, and *)
(* maps active[k] to the version of k that is in flight; that there is     *)
(* exactly one, and which, is what the inductive invariant is used for.    *)
(***************************************************************************)
EXTENDS AppQueueProofs

\* What Active says: the one version in flight of a processed key, no version
\* for any other.
ActiveExact ==
  \A k \in Keys :
    IF k \in processing
    THEN /\ Active(k) \in Versions
         /\ InFlight(k, Active(k))
         /\ \A v \in Versions : InFlight(k, v) => v = Active(k)
    ELSE Active(k) = None

\* An item in flight has a key that is held, and a version.
LEMMA HeldVersion ==
  ASSUME TypeOK, NEW k \in Keys, Held(k)
  PROVE  \E v \in Versions : InFlight(k, v)
<1>0. jobChan \in Seq(Items)
  BY DEF TypeOK
<1>1. CASE InHand /\ hand.key = k
  <2>1. hand.ver \in Versions /\ hand = [key |-> k, ver |-> hand.ver]
    BY <1>1, HandItem, ItemEq
  <2> QED
    BY <1>1, <2>1 DEF InFlight
<1>2. CASE \E i \in 1..Len(jobChan) : jobChan[i].key = k
  <2>1. PICK i \in 1..Len(jobChan) : jobChan[i].key = k
    BY <1>2
  <2>2. jobChan[i].ver \in Versions /\ jobChan[i] = [key |-> k, ver |-> jobChan[i].ver]
    BY <1>0, <2>1, SeqItem, ItemEq
  <2> QED
    BY <2>2 DEF InFlight
<1>3. CASE \E w \in Workers : Busy(w) /\ job[w].key = k
  <2>1. PICK w \in Workers : Busy(w) /\ job[w].key = k
    BY <1>3
  <2>2. job[w].ver \in Versions /\ job[w] = [key |-> k, ver |-> job[w].ver]
    BY <2>1, BusyItem, ItemEq
  <2> QED
    BY <2>1, <2>2 DEF InFlight
<1> QED
  BY <1>1, <1>2, <1>3 DEF Held

\* At most one version of a key is in flight.
LEMMA InFlightUnique ==
  ASSUME TypeOK, InFlightExclusive, NEW k \in Keys, NEW u, NEW v,
         InFlight(k, u), InFlight(k, v)
  PROVE  u = v
<1> DEFINE a == [key |-> k, ver |-> u]
           b == [key |-> k, ver |-> v]
<1>1. a.key = k /\ b.key = k /\ a.ver = u /\ b.ver = v
  OBVIOUS
<1> HIDE DEF a, b
<1>2. \/ InHand /\ hand = a
      \/ \E i \in 1..Len(jobChan) : jobChan[i] = a
      \/ \E w \in Workers : Busy(w) /\ job[w] = a
  BY DEF InFlight, a
<1>3. \/ InHand /\ hand = b
      \/ \E i \in 1..Len(jobChan) : jobChan[i] = b
      \/ \E w \in Workers : Busy(w) /\ job[w] = b
  BY DEF InFlight, b
<1>4. CASE InHand /\ hand = a
  BY <1>1, <1>3, <1>4 DEF InFlightExclusive
<1>5. CASE \E i \in 1..Len(jobChan) : jobChan[i] = a
  BY <1>1, <1>3, <1>5 DEF InFlightExclusive
<1>6. CASE \E w \in Workers : Busy(w) /\ job[w] = a
  BY <1>1, <1>3, <1>6 DEF InFlightExclusive, SingleHandler
<1> QED
  BY <1>2, <1>4, <1>5, <1>6

\* The mapping is exact in every reachable state.
LEMMA ActiveIsExact == IInv => ActiveExact
<1> SUFFICES ASSUME IInv, NEW k \in Keys
             PROVE  IF k \in processing
                    THEN /\ Active(k) \in Versions
                         /\ InFlight(k, Active(k))
                         /\ \A v \in Versions : InFlight(k, v) => v = Active(k)
                    ELSE Active(k) = None
  BY DEF ActiveExact
<1>1. CASE k \notin processing
  BY <1>1 DEF Active
<1>2. CASE k \in processing
  <2>1. TypeOK /\ InFlightExclusive
    BY DEF IInv
  <2>2. PICK v \in Versions : InFlight(k, v)
    BY <1>2, <2>1, HeldVersion DEF IInv, Accounted
  <2>3. Active(k) \in Versions \cup {None} /\ InFlight(k, Active(k))
    BY <1>2, <2>2 DEF Active
  <2>4. Active(k) = v
    BY <2>1, <2>2, <2>3, InFlightUnique
  <2>5. \A u \in Versions : InFlight(k, u) => u = Active(k)
    BY <2>1, <2>3, InFlightUnique
  <2> QED
    BY <1>2, <2>2, <2>3, <2>4, <2>5
<1> QED
  BY <1>1, <1>2

\* A processed key whose item in flight is only moved keeps its active version.
LEMMA ActiveFrame ==
  ASSUME ActiveExact, ActiveExact', NEW k \in Keys,
         k \in processing, k \in processing',
         \A v \in Versions : InFlight(k, v) => InFlight(k, v)'
  PROVE  Active(k)' = Active(k)
<1>1. Active(k) \in Versions /\ InFlight(k, Active(k))
  BY DEF ActiveExact
<1>2. PICK v \in Versions : v = Active(k)
  BY <1>1
<1>3. InFlight(k, v)'
  BY <1>1, <1>2
<1>4. v = Active(k)'
  BY <1>3 DEF ActiveExact
<1> QED
  BY <1>2, <1>4

\* A key outside processing before and after a step is inactive in both states.
LEMMA ActiveOutside ==
  ASSUME ActiveExact, ActiveExact', NEW k \in Keys,
         k \notin processing, k \notin processing'
  PROVE  Active(k)' = Active(k)
BY DEF ActiveExact

\* When nothing in flight moves and processing stays, active stays.
LEMMA ActiveSame ==
  ASSUME ActiveExact, ActiveExact', UNCHANGED processing,
         \A k \in processing : \A v \in Versions :
            InFlight(k, v) => InFlight(k, v)'
  PROVE  [k \in Keys |-> Active(k)]' = [k \in Keys |-> Active(k)]
<1>1. ASSUME NEW k \in Keys PROVE Active(k)' = Active(k)
  <2>1. CASE k \in processing
    BY <2>1, ActiveFrame
  <2>2. CASE k \notin processing
    BY <2>2, ActiveOutside
  <2> QED
    BY <2>1, <2>2
<1> QED
  BY <1>1

\* Enqueue submits.
LEMMA EnqueueSubmits ==
  ASSUME IInv, ActiveExact, ActiveExact', NEW k \in Keys, Enqueue(k)
  PROVE  MB!Submit(k)
<1>1. /\ EnqueueLocked([key |-> k, ver |-> latest[k] + 1], processing, pending)
      /\ UNCHANGED <<processing, hand, jobChan, wpc, job, handled>>
  BY DEF Enqueue, poolVars
<1>2. InHand' <=> InHand
  BY <1>1, EnqueueLockedHand
<1>3. \A x \in processing : \A v \in Versions : InFlight(x, v) => InFlight(x, v)'
  BY <1>1, <1>2 DEF InFlight, Busy
<1>4. [x \in Keys |-> Active(x)]' = [x \in Keys |-> Active(x)]
  BY <1>1, <1>3, ActiveSame
<1> QED
  BY <1>1, <1>4 DEF Enqueue, MB!Submit

\* dequeueLoop claims the key at the front of the list.
LEMMA DequeueClaims ==
  ASSUME IInv, ActiveExact, ActiveExact', DequeueFront
  PROVE  \E k \in Keys : MB!Claim(k)
<1>0. items \in Seq(Items) /\ Keyed(items, keyMap) /\ items # <<>>
  BY DEF IInv, TypeOK, QueueConsistent, Keyed, DequeueFront
<1>1. Head(items) = items[1] /\ 1 \in 1..Len(items) /\ Head(items).key \in keyMap
  BY <1>0, TailKeyed
<1>2. /\ Head(items) \in Items
      /\ Head(items).key \in Keys
      /\ Head(items).ver \in Versions
  BY <1>0, <1>1, SeqItem
<1> PICK k \in Keys : k = Head(items).key
  BY <1>2
<1> PICK n \in Versions : n = Head(items).ver
  BY <1>2
<1>3. k \notin processing
  BY <1>1 DEF IInv, QueueConsistent
<1>4. n = latest[k] /\ handled[k] < latest[k]
  BY <1>1 DEF IInv, VersionOrder
<1>5. /\ ~InHand /\ InHand' /\ hand' = Head(items)
      /\ processing' = processing \cup {k}
      /\ UNCHANGED <<jobChan, wpc, job, latest, handled>>
  BY DEF DequeueFront, InHand
<1>6. hand' = [key |-> k, ver |-> n]
  BY <1>2, <1>5, ItemEq
<1>7. InFlight(k, n)'
  BY <1>5, <1>6 DEF InFlight
<1>8. Active(k) = None
  BY <1>2, <1>3 DEF ActiveExact
<1>9. Active(k)' = latest[k]
  <2>1. k \in processing'
    BY <1>5
  <2> QED
    BY <1>4, <1>7, <2>1 DEF ActiveExact
<1>10. ASSUME NEW x \in Keys, x # k PROVE Active(x)' = Active(x)
  <2>1. CASE x \in processing
    <3>1. \A v \in Versions : InFlight(x, v) => InFlight(x, v)'
      BY <1>5 DEF InFlight, Busy
    <3> QED
      BY <1>5, <2>1, <3>1, ActiveFrame
  <2>2. CASE x \notin processing
    BY <1>5, <1>10, <2>2, ActiveOutside
  <2> QED
    BY <2>1, <2>2
<1>11. MB!Claim(k)
  BY <1>2, <1>4, <1>5, <1>8, <1>9, <1>10 DEF MB!Claim, None
<1> QED
  BY <1>2, <1>11

\* Handing the item over to the channel and from there to a worker stutters.
LEMMA MovesStutter ==
  ASSUME IInv, ActiveExact, ActiveExact',
         LoopSend \/ \E w \in Workers : WorkerReceive(w)
  PROVE  UNCHANGED MB!vars
<1>0. jobChan \in Seq(Items) /\ Len(jobChan) \in Nat /\ TypeOK
  BY DEF IInv, TypeOK
<1>1. UNCHANGED <<processing, latest, handled>>
  BY DEF LoopSend, WorkerReceive, queueVars
<1>2. \A k \in processing : \A v \in Versions : InFlight(k, v) => InFlight(k, v)'
  <2>1. CASE LoopSend
    <3>1. /\ hand \in Items
          /\ jobChan' = Append(jobChan, hand)
          /\ UNCHANGED <<wpc, job>>
      BY <1>0, <2>1 DEF LoopSend, InHand, TypeOK
    <3>2. /\ \A i \in 1..Len(jobChan) :
               i \in 1..Len(jobChan') /\ jobChan'[i] = jobChan[i]
          /\ Len(jobChan) + 1 \in 1..Len(jobChan')
          /\ jobChan'[Len(jobChan) + 1] = hand
      BY <1>0, <3>1, AppendProperties
    <3> QED
      BY <3>1, <3>2 DEF InFlight, Busy
  <2>2. ASSUME NEW w \in Workers, WorkerReceive(w)
        PROVE  \A k \in processing : \A v \in Versions :
                  InFlight(k, v) => InFlight(k, v)'
    <3>1. /\ jobChan # <<>> /\ ~Busy(w)
          /\ jobChan' = Tail(jobChan)
          /\ job' = [job EXCEPT ![w] = Head(jobChan)]
          /\ wpc' = [wpc EXCEPT ![w] = "handle"]
          /\ UNCHANGED <<loop, hand>>
      BY <2>2 DEF WorkerReceive, Busy
    <3>2. /\ job'[w] = jobChan[1] /\ Busy(w)'
          /\ \A v \in Workers : Busy(v) => Busy(v)' /\ job'[v] = job[v]
      BY <1>0, <3>1 DEF TypeOK, Busy
    <3>3. \A i \in 1..Len(jobChan) :
             i = 1 \/ (i - 1 \in 1..Len(jobChan') /\ jobChan'[i - 1] = jobChan[i])
      BY <1>0, <3>1
    <3>4. ASSUME NEW k, NEW v, InFlight(k, v) PROVE InFlight(k, v)'
      <4> DEFINE it == [key |-> k, ver |-> v]
      <4> HIDE DEF it
      <4>1. CASE InHand /\ hand = it
        BY <3>1, <4>1 DEF InFlight, InHand, it
      <4>2. CASE \E i \in 1..Len(jobChan) : jobChan[i] = it
        <5>1. (\E i \in 1..Len(jobChan') : jobChan'[i] = it) \/ job'[w] = it
          BY <3>2, <3>3, <4>2
        <5> QED
          BY <3>2, <5>1 DEF InFlight, it
      <4>3. CASE \E u \in Workers : Busy(u) /\ job[u] = it
        BY <3>2, <4>3 DEF InFlight, it
      <4> QED
        BY <3>4, <4>1, <4>2, <4>3 DEF InFlight, it
    <3> QED
      BY <3>4
  <2> QED
    BY <2>1, <2>2
<1>3. [x \in Keys |-> Active(x)]' = [x \in Keys |-> Active(x)]
  BY <1>1, <1>2, ActiveSame
<1> QED
  BY <1>1, <1>3 DEF MB!vars

\* The handler's return finishes the active version.
LEMMA HandlerFinishes ==
  ASSUME IInv, ActiveExact, ActiveExact', NEW w \in Workers, HandlerReturns(w)
  PROVE  \E k \in Keys : MB!Finish(k)
<1> DEFINE k == job[w].key
<1>1. Busy(w) /\ TypeOK /\ Fresh(job[w])
  BY DEF IInv, VersionOrder, HandlerReturns, Busy
<1>2. job[w] \in Items /\ k \in Keys /\ job[w].ver \in Versions
  BY <1>1, BusyItem
<1>3. k \in processing
  BY <1>1 DEF IInv, InFlightExclusive
<1>4. InFlight(k, job[w].ver)
  BY <1>1, <1>2, ItemEq DEF InFlight
<1>5. Active(k) = job[w].ver
  BY <1>2, <1>3, <1>4 DEF ActiveExact
<1>6. /\ wpc' = [wpc EXCEPT ![w] = "done"]
      /\ handled' = [handled EXCEPT ![k] = job[w].ver]
      /\ UNCHANGED <<processing, loop, hand, jobChan, job, latest>>
  BY DEF HandlerReturns, queueVars
<1>7. \A v \in Workers : Busy(v) => Busy(v)'
  BY <1>1, <1>6 DEF TypeOK, Busy
<1>8. \A x \in processing : \A v \in Versions : InFlight(x, v) => InFlight(x, v)'
  BY <1>6, <1>7 DEF InFlight, InHand
<1>9. [x \in Keys |-> Active(x)]' = [x \in Keys |-> Active(x)]
  BY <1>6, <1>8, ActiveSame
<1>10. handled[k] < Active(k) /\ handled[k] \in Nat /\ Active(k) \in Nat
  BY <1>1, <1>2, <1>5 DEF Fresh, TypeOK, Versions
<1> HIDE DEF k
<1>11. MB!Finish(k)
  BY <1>2, <1>5, <1>6, <1>9, <1>10 DEF MB!Finish
<1> QED
  BY <1>2, <1>11

\* Done releases the key.
LEMMA DoneReleases ==
  ASSUME IInv, ActiveExact, ActiveExact', NEW w \in Workers, Done(w)
  PROVE  \E k \in Keys : MB!Release(k)
<1>0. TypeOK /\ QueueConsistent /\ InFlightExclusive /\ VersionOrder
  BY DEF IInv
<1>1. Busy(w) /\ handled[job[w].key] = job[w].ver
  BY <1>0 DEF VersionOrder, Done, Busy
<1>2. job[w] \in Items /\ job[w].key \in Keys /\ job[w].ver \in Versions
  BY <1>0, <1>1, BusyItem
<1> PICK k \in Keys : k = job[w].key
  BY <1>2
<1>3. /\ k \in processing
      /\ processing' = processing \ {k}
      /\ InHand' <=> InHand
  BY <1>0, DoneFacts, EnqueueLockedHand DEF InHand
<1>4. Active(k) = job[w].ver
  <2>1. InFlight(k, job[w].ver)
    BY <1>1, <1>2, ItemEq DEF InFlight
  <2> QED
    BY <1>2, <1>3, <2>1 DEF ActiveExact
<1>5. /\ wpc' = [wpc EXCEPT ![w] = "receive"]
      /\ job' = [job EXCEPT ![w] = NoItem]
      /\ UNCHANGED <<hand, jobChan, latest, handled>>
  BY DEF Done
<1>6. \A v \in Workers : v # w => (Busy(v)' <=> Busy(v)) /\ job'[v] = job[v]
  BY <1>0, <1>5 DEF TypeOK, Busy
<1>7. Active(k)' = None
  BY <1>2, <1>3 DEF ActiveExact
<1>8. Active(k) # None
  BY <1>2, <1>4, MaxVersionAssumption DEF Versions, None
<1>9. ASSUME NEW x \in Keys, x # k PROVE Active(x)' = Active(x)
  <2>1. CASE x \in processing
    <3>1. ASSUME NEW v \in Versions, InFlight(x, v) PROVE InFlight(x, v)'
      <4> DEFINE it == [key |-> x, ver |-> v]
      <4>1. it # job[w]
        BY <1>9
      <4> HIDE DEF it
      <4>2. \/ InHand /\ hand = it
            \/ \E i \in 1..Len(jobChan) : jobChan[i] = it
            \/ \E u \in Workers : u # w /\ Busy(u) /\ job[u] = it
        BY <3>1, <4>1 DEF InFlight, it
      <4>3. \/ InHand' /\ hand' = it
            \/ \E i \in 1..Len(jobChan') : jobChan'[i] = it
            \/ \E u \in Workers : Busy(u)' /\ job'[u] = it
        BY <1>3, <1>5, <1>6, <4>2
      <4> QED
        BY <4>3 DEF InFlight, it
    <3> QED
      BY <1>3, <1>9, <2>1, <3>1, ActiveFrame
  <2>2. CASE x \notin processing
    BY <1>3, <2>2, ActiveOutside
  <2> QED
    BY <2>1, <2>2
<1>10. MB!Release(k)
  BY <1>1, <1>2, <1>4, <1>5, <1>7, <1>8, <1>9 DEF MB!Release, None
<1> QED
  BY <1>2, <1>10

\* The other steps move nothing.
LEMMA RestStutters ==
  ASSUME IInv, ActiveExact, ActiveExact',
         \/ SetLengthGauge \/ Stop \/ LoopCheck \/ DequeueEmpty \/ LoopAbandon
         \/ (\E w \in Workers : WorkerExit(w))
         \/ UNCHANGED vars
  PROVE  UNCHANGED MB!vars
<1>1. UNCHANGED <<processing, hand, jobChan, job, latest, handled>>
  BY DEF SetLengthGauge, Stop, LoopCheck, DequeueEmpty, LoopAbandon,
         WorkerExit, vars, queueVars, poolVars
<1>2. InHand' <=> InHand
  BY DEF SetLengthGauge, Stop, LoopCheck, DequeueEmpty, LoopAbandon,
         WorkerExit, vars, InHand
<1>3. \A w \in Workers : Busy(w)' <=> Busy(w)
  BY DEF SetLengthGauge, Stop, LoopCheck, DequeueEmpty, LoopAbandon,
         WorkerExit, vars, queueVars, poolVars, Busy, IInv, TypeOK
<1>4. \A x \in processing : \A v \in Versions : InFlight(x, v) => InFlight(x, v)'
  BY <1>1, <1>2, <1>3 DEF InFlight
<1>5. [x \in Keys |-> Active(x)]' = [x \in Keys |-> Active(x)]
  BY <1>1, <1>4, ActiveSame
<1> QED
  BY <1>1, <1>5 DEF MB!vars

-----------------------------------------------------------------------------
\* The application queue and its worker pool implement the mailbox: one
\* handler per application at a time, always on the snapshot that was newest
\* when it was claimed, and never twice on the same snapshot.
THEOREM Refinement == Spec => ImplementsMailbox
<1>1. Init => MB!Init
  <2> SUFFICES ASSUME Init PROVE MB!Init
    OBVIOUS
  <2>1. \A k \in Keys : Active(k) = 0
    BY DEF Init, Active, None
  <2> QED
    BY <2>1 DEF Init, MB!Init
<1>2. ASSUME IInv, ActiveExact, ActiveExact', [Next]_vars
      PROVE  [MB!Next]_(MB!vars)
  BY <1>2, EnqueueSubmits, DequeueClaims, MovesStutter, HandlerFinishes,
     DoneReleases, RestStutters DEF Next, LoopStep, WorkerStep, MB!Next
<1>3. IInv /\ ActiveExact /\ ActiveExact' /\ [Next]_vars => [MB!Next]_(MB!vars)
  BY <1>2
<1> QED
  BY <1>1, <1>3, ActiveIsExact, Invariance, PTL
  DEF Spec, ImplementsMailbox, MB!Spec
=============================================================================
