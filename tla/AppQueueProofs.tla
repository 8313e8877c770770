--------------------------- MODULE AppQueueProofs ---------------------------
(***************************************************************************)
(* Proofs about AppQueue, for any finite set of applications, any number   *)
(* of workers and any number of snapshots.                                 *)
(***************************************************************************)
EXTENDS AppQueue, FiniteSetTheorems, SequenceTheorems, TLAPS

-----------------------------------------------------------------------------
(* Lemmas about the helpers.                                               *)

\* The number reportQueueLength writes is a natural number.
LEMMA QueueLengthType ==
  ASSUME NEW q \in Seq(Items), NEW pend
  PROVE  QueueLength(q, pend) \in Nat
<1>1. {k \in Keys : pend[k] # None} \subseteq Keys
  OBVIOUS
<1>2. IsFiniteSet({k \in Keys : pend[k] # None})
  BY <1>1, FS_Subset, KeysAssumption
<1>3. Cardinality({k \in Keys : pend[k] # None}) \in Nat
  BY <1>2, FS_CardinalityType
<1> QED
  BY <1>3 DEF QueueLength

\* Overwriting one place of a list of items gives a list of items, and writing
\* outside the list changes nothing.
LEMMA ExceptType ==
  ASSUME NEW q \in Seq(Items), NEW p, NEW it \in Items
  PROVE  [q EXCEPT ![p] = it] \in Seq(Items)
<1>1. CASE p \in 1..Len(q)
  BY <1>1, ExceptSeq
<1>2. CASE p \notin 1..Len(q)
  <2>1. [q EXCEPT ![p] = it] = q
    BY <1>2
  <2> QED
    BY <2>1
<1> QED
  BY <1>1, <1>2

\* Putting an item into the list of items gives a list of items.
LEMMA PutItemType ==
  ASSUME NEW q \in Seq(Items), NEW km, NEW it \in Items
  PROVE  PutItem(q, km, it) \in Seq(Items)
<1>1. CASE it.key \in km
  BY <1>1, ExceptType DEF PutItem
<1>2. CASE it.key \notin km
  BY <1>2 DEF PutItem
<1> QED
  BY <1>1, <1>2

\* The types of what enqueueLocked assigns.
LEMMA EnqueueLockedType ==
  ASSUME TypeOK, NEW it \in Items, NEW proc,
         NEW pend \in [Keys -> Versions \cup {None}],
         EnqueueLocked(it, proc, pend)
  PROVE  /\ items' \in Seq(Items)
         /\ keyMap' \subseteq Keys
         /\ pending' \in [Keys -> Versions \cup {None}]
         /\ gauge' \in Nat \cup {NoGauge}
         /\ loop' \in LoopStates
         /\ InHand' <=> InHand
<1> USE DEF TypeOK
<1>1. it.key \in Keys /\ it.ver \in Versions
  BY DEF Items
<1>2. CASE it.key \in proc
  <2>1. pending' \in [Keys -> Versions \cup {None}]
    BY <1>1, <1>2 DEF EnqueueLocked
  <2>2. UNCHANGED <<items, keyMap, loop>>
    BY <1>2 DEF EnqueueLocked
  <2>3. QueueLength(items', pending') \in Nat
    BY <2>2, QueueLengthType
  <2>4. gauge' \in Nat \cup {NoGauge}
    BY <2>3 DEF EnqueueLocked, ReportQueueLength
  <2> QED
    BY <2>1, <2>2, <2>4 DEF InHand
<1>3. CASE it.key \notin proc
  <2>1. items' \in Seq(Items)
    BY <1>3, PutItemType DEF EnqueueLocked
  <2>2. QueueLength(items', pending') \in Nat
    BY <2>1, QueueLengthType
  <2>3. gauge' \in Nat \cup {NoGauge}
    BY <2>2 DEF EnqueueLocked, ReportQueueLength
  <2> QED
    BY <1>1, <1>3, <2>1, <2>3 DEF EnqueueLocked, Signal, InHand, LoopStates
<1> QED
  BY <1>2, <1>3

-----------------------------------------------------------------------------
\* The queue and the pool start well typed.
LEMMA TypeOKInit == Init => TypeOK
<1> SUFFICES ASSUME Init PROVE TypeOK
  OBVIOUS
<1>1. Cardinality(Workers) \in Nat
  BY WorkersAssumption, FS_CardinalityType
<1>2. /\ jobChan \in Seq(Items)
      /\ Len(jobChan) <= 2 * Cardinality(Workers)
  BY <1>1 DEF Init
<1>3. /\ latest \in [Keys -> 0..MaxVersion]
      /\ handled \in [Keys -> 0..MaxVersion]
  BY MaxVersionAssumption DEF Init
<1>4. /\ wpc \in [Workers -> WorkerStates]
      /\ \A w \in Workers : Busy(w) <=> job[w] # NoItem
  BY DEF Init, Busy, WorkerStates
<1> QED
  BY <1>2, <1>3, <1>4 DEF Init, TypeOK, InHand, LoopStates

\* Every step keeps the types.
LEMMA TypeOKStep == TypeOK /\ [Next]_vars => TypeOK'
<1> SUFFICES ASSUME TypeOK, [Next]_vars PROVE TypeOK'
  OBVIOUS
<1>0. Cardinality(Workers) \in Nat /\ MaxVersion \in Nat
  BY WorkersAssumption, FS_CardinalityType, MaxVersionAssumption
<1> USE <1>0, NoItemAssumption
<1>1. ASSUME NEW k \in Keys, Enqueue(k) PROVE TypeOK'
  <2> DEFINE it == [key |-> k, ver |-> latest[k] + 1]
  <2>1. it \in Items
    BY <1>1 DEF TypeOK, Enqueue, Items, Versions
  <2>2. EnqueueLocked(it, processing, pending)
    BY <1>1 DEF Enqueue
  <2>3. /\ items' \in Seq(Items)
        /\ keyMap' \subseteq Keys
        /\ pending' \in [Keys -> Versions \cup {None}]
        /\ gauge' \in Nat \cup {NoGauge}
        /\ loop' \in LoopStates
        /\ InHand' <=> InHand
    BY <2>1, <2>2, EnqueueLockedType DEF TypeOK
  <2>4. latest' \in [Keys -> 0..MaxVersion]
    BY <1>1 DEF TypeOK, Enqueue
  <2> QED
    BY <1>1, <2>3, <2>4 DEF TypeOK, Enqueue, poolVars, Busy
<1>2. CASE SetLengthGauge
  <2>1. QueueLength(items, pending) \in Nat
    BY QueueLengthType DEF TypeOK
  <2> QED
    BY <1>2, <2>1 DEF TypeOK, SetLengthGauge, poolVars, InHand, Busy
<1>3. CASE Stop
  BY <1>3 DEF TypeOK, Stop, queueVars, InHand, Busy
<1>4. CASE LoopCheck
  BY <1>4 DEF TypeOK, LoopCheck, queueVars, InHand, Busy, LoopStates
<1>5. CASE DequeueEmpty
  BY <1>5 DEF TypeOK, DequeueEmpty, queueVars, poolVars, InHand, Busy,
              LoopStates
<1>6. CASE DequeueFront
  <2>1. Head(items) \in Items /\ Tail(items) \in Seq(Items)
    BY <1>6 DEF TypeOK, DequeueFront
  <2>2. Head(items).key \in Keys
    BY <2>1 DEF Items
  <2>3. QueueLength(items', pending') \in Nat
    BY <1>6, <2>1, QueueLengthType DEF DequeueFront
  <2>4. gauge' \in Nat \cup {NoGauge}
    BY <1>6, <2>3 DEF DequeueFront, ReportQueueLength
  <2>5. /\ items' \in Seq(Items)
        /\ keyMap' \subseteq Keys
        /\ processing' \subseteq Keys
    BY <1>6, <2>1, <2>2 DEF TypeOK, DequeueFront
  <2>6. hand' \in Items \cup {NoItem} /\ hand' # NoItem
    BY <1>6, <2>1, NoItemAssumption DEF DequeueFront
  <2>7. loop' \in LoopStates /\ InHand'
    BY <1>6 DEF DequeueFront, LoopStates, InHand
  <2>8. extra' \in Nat
    BY <1>6 DEF TypeOK, DequeueFront
  <2>9. \A w \in Workers : Busy(w)' <=> job'[w] # NoItem
    BY <1>6 DEF TypeOK, DequeueFront, Busy
  <2> QED
    BY <1>6, <2>4, <2>5, <2>6, <2>7, <2>8, <2>9 DEF TypeOK, DequeueFront
<1>7. CASE LoopSend
  BY <1>7 DEF TypeOK, LoopSend, queueVars, InHand, Busy, LoopStates
<1>8. CASE LoopAbandon
  BY <1>8 DEF TypeOK, LoopAbandon, queueVars, poolVars, InHand, Busy,
              LoopStates
<1>9. ASSUME NEW w \in Workers, WorkerReceive(w) PROVE TypeOK'
  <2>1. Head(jobChan) \in Items /\ Tail(jobChan) \in Seq(Items)
    BY <1>9 DEF TypeOK, WorkerReceive
  <2> QED
    BY <1>9, <2>1 DEF TypeOK, WorkerReceive, queueVars, InHand, Busy,
                      WorkerStates
<1>10. ASSUME NEW w \in Workers, HandlerReturns(w) PROVE TypeOK'
  <2>1. job[w] \in Items
    BY <1>10 DEF TypeOK, HandlerReturns, Busy
  <2>2. job[w].key \in Keys /\ job[w].ver \in 0..MaxVersion
    BY <2>1 DEF Items, Versions
  <2> QED
    BY <1>10, <2>2 DEF TypeOK, HandlerReturns, queueVars, InHand, Busy,
                       WorkerStates
<1>11. ASSUME NEW w \in Workers, Done(w) PROVE TypeOK'
  <2> DEFINE k == job[w].key
             it == [key |-> k, ver |-> pending[k]]
             pend == [pending EXCEPT ![k] = None]
  <2>1. job[w] \in Items
    BY <1>11 DEF TypeOK, Done, Busy
  <2>2. k \in Keys
    BY <2>1 DEF Items
  <2>3. /\ items' \in Seq(Items)
        /\ keyMap' \subseteq Keys
        /\ pending' \in [Keys -> Versions \cup {None}]
        /\ gauge' \in Nat \cup {NoGauge}
        /\ loop' \in LoopStates
        /\ InHand' <=> InHand
    <3>1. CASE k \notin processing \/ pending[k] = None
      BY <1>11, <3>1 DEF TypeOK, Done, InHand
    <3>2. CASE k \in processing /\ pending[k] # None
      <4>1. it \in Items
        BY <2>2, <3>2 DEF TypeOK, Items
      <4>2. pend \in [Keys -> Versions \cup {None}]
        BY DEF TypeOK
      <4>3. EnqueueLocked(it, processing \ {k}, pend)
        BY <1>11, <3>2 DEF Done
      <4> QED
        BY <4>1, <4>2, <4>3, EnqueueLockedType
    <3> QED
      BY <3>1, <3>2
  <2> QED
    BY <1>11, <2>3 DEF TypeOK, Done, Busy, WorkerStates
<1>12. ASSUME NEW w \in Workers, WorkerExit(w) PROVE TypeOK'
  BY <1>12 DEF TypeOK, WorkerExit, queueVars, InHand, Busy, WorkerStates
<1>13. CASE UNCHANGED vars
  BY <1>13 DEF TypeOK, vars, queueVars, poolVars, InHand, Busy
<1> QED
  BY <1>1, <1>2, <1>3, <1>4, <1>5, <1>6, <1>7, <1>8, <1>9, <1>10, <1>11,
     <1>12, <1>13 DEF Next, LoopStep, WorkerStep

\* Type correctness: between any two steps of the queue and the pool every
\* variable has its type, the channel respects its capacity, and a thread
\* holds an item exactly while its code has one.
THEOREM TypeCorrect == Spec => []TypeOK
<1> QED
  BY TypeOKInit, TypeOKStep, PTL DEF Spec

-----------------------------------------------------------------------------
(* What enqueueLocked does to a consistent list.                           *)

\* The list has each key once, and keyMap has the keys of the list.
Keyed(q, km) ==
  /\ \A i, j \in 1..Len(q) : q[i].key = q[j].key => i = j
  /\ km = {q[i].key : i \in 1..Len(q)}

\* PutItem keeps the list keyed.
LEMMA PutItemKeyed ==
  ASSUME NEW q \in Seq(Items), NEW km, NEW it \in Items, Keyed(q, km)
  PROVE  Keyed(PutItem(q, km, it), km \cup {it.key})
<1> DEFINE r == PutItem(q, km, it)
<1>1. CASE it.key \in km
  <2> DEFINE p == Position(q, it.key)
  <2>1. p \in 1..Len(q) /\ q[p].key = it.key
    BY <1>1 DEF Keyed, Position
  <2>2. r = [q EXCEPT ![p] = it]
    BY <1>1 DEF PutItem
  <2> HIDE DEF p, r
  <2>3. /\ r \in Seq(Items)
        /\ Len(r) = Len(q)
        /\ \A j \in 1..Len(q) : r[j] = IF j = p THEN it ELSE q[j]
    BY <2>1, <2>2, ExceptSeq
  <2>4. \A j \in 1..Len(q) : r[j].key = q[j].key
    BY <2>1, <2>3
  <2>5. Keyed(r, km \cup {it.key})
    BY <1>1, <2>3, <2>4 DEF Keyed
  <2> QED
    BY <2>5 DEF r
<1>2. CASE it.key \notin km
  <2>1. r = Append(q, it)
    BY <1>2 DEF PutItem
  <2> HIDE DEF r
  <2>2. /\ r \in Seq(Items)
        /\ Len(q) \in Nat
        /\ Len(r) = Len(q) + 1
        /\ \A i \in 1..Len(q) : r[i] = q[i]
        /\ r[Len(q) + 1] = it
    BY <2>1, AppendProperties
  <2>3. \A i \in 1..Len(q) : q[i].key # it.key
    BY <1>2 DEF Keyed
  <2>4. \A i \in 1..Len(r) : i \in 1..Len(q) \/ i = Len(q) + 1
    BY <2>2
  <2>5. \A i, j \in 1..Len(r) : r[i].key = r[j].key => i = j
    BY <2>2, <2>3, <2>4 DEF Keyed
  <2>6. km \cup {it.key} = {r[i].key : i \in 1..Len(r)}
    <3>1. ASSUME NEW k \in km \cup {it.key}
          PROVE  \E i \in 1..Len(r) : r[i].key = k
      <4>1. CASE k \in km
        BY <2>2, <4>1 DEF Keyed
      <4>2. CASE k = it.key
        BY <2>2, <4>2
      <4> QED
        BY <4>1, <4>2
    <3>2. ASSUME NEW i \in 1..Len(r) PROVE r[i].key \in km \cup {it.key}
      BY <2>2, <2>4 DEF Keyed
    <3> QED
      BY <3>1, <3>2
  <2> QED
    BY <2>5, <2>6 DEF Keyed, r
<1> QED
  BY <1>1, <1>2

\* Every element of the result other than the new item is an element of the
\* list with another key, at the same place.
LEMMA PutItemElement ==
  ASSUME NEW q \in Seq(Items), NEW km, NEW it \in Items, Keyed(q, km),
         NEW i \in 1..Len(PutItem(q, km, it)), PutItem(q, km, it)[i] # it
  PROVE  /\ i \in 1..Len(q)
         /\ PutItem(q, km, it)[i] = q[i]
         /\ q[i].key # it.key
<1> DEFINE r == PutItem(q, km, it)
<1>1. CASE it.key \in km
  <2> DEFINE p == Position(q, it.key)
  <2>1. p \in 1..Len(q) /\ q[p].key = it.key
    BY <1>1 DEF Keyed, Position
  <2>2. r = [q EXCEPT ![p] = it]
    BY <1>1 DEF PutItem
  <2>3. r[i] # it /\ i \in 1..Len(r)
    OBVIOUS
  <2> HIDE DEF p, r
  <2>4. /\ Len(r) = Len(q)
        /\ \A j \in 1..Len(q) : r[j] = IF j = p THEN it ELSE q[j]
    BY <2>1, <2>2, ExceptSeq
  <2>5. i \in 1..Len(q) /\ i # p /\ r[i] = q[i]
    BY <2>3, <2>4
  <2>6. q[i].key # it.key
    BY <2>1, <2>5 DEF Keyed
  <2> QED
    BY <2>5, <2>6 DEF r
<1>2. CASE it.key \notin km
  <2>1. r = Append(q, it)
    BY <1>2 DEF PutItem
  <2>2. r[i] # it /\ i \in 1..Len(r)
    OBVIOUS
  <2> HIDE DEF r
  <2>3. /\ Len(q) \in Nat
        /\ Len(r) = Len(q) + 1
        /\ \A j \in 1..Len(q) : r[j] = q[j]
        /\ r[Len(q) + 1] = it
    BY <2>1, AppendProperties
  <2>4. i \in 1..Len(q) /\ r[i] = q[i]
    BY <2>2, <2>3
  <2>5. q[i].key # it.key
    BY <1>2, <2>4 DEF Keyed
  <2> QED
    BY <2>4, <2>5 DEF r
<1> QED
  BY <1>1, <1>2

\* Taking the front of a keyed list removes exactly its key.
LEMMA TailKeyed ==
  ASSUME NEW q \in Seq(Items), NEW km, Keyed(q, km), q # <<>>
  PROVE  /\ Keyed(Tail(q), km \ {Head(q).key})
         /\ Head(q) = q[1] /\ 1 \in 1..Len(q)
         /\ Head(q).key \in km
         /\ \A i \in 1..Len(Tail(q)) :
              \E j \in 1..Len(q) : Tail(q)[i] = q[j] /\ q[j].key # Head(q).key
<1>1. /\ Len(q) \in Nat \ {0}
      /\ Head(q) = q[1]
      /\ Len(Tail(q)) = Len(q) - 1
      /\ \A i \in 1..Len(Tail(q)) : Tail(q)[i] = q[i + 1]
  OBVIOUS
<1>2. \A i \in 1..Len(Tail(q)) : i + 1 \in 1..Len(q) /\ i + 1 # 1
  BY <1>1
<1>3. \A i \in 1..Len(Tail(q)) :
         \E j \in 1..Len(q) : Tail(q)[i] = q[j] /\ q[j].key # Head(q).key
  BY <1>1, <1>2 DEF Keyed
<1>4. \A i, j \in 1..Len(Tail(q)) : Tail(q)[i].key = Tail(q)[j].key => i = j
  BY <1>1, <1>2 DEF Keyed
<1>5. Head(q).key \in km
  BY <1>1 DEF Keyed
<1>6. ASSUME NEW k \in km \ {Head(q).key}
      PROVE  \E i \in 1..Len(Tail(q)) : Tail(q)[i].key = k
  <2>1. PICK j \in 1..Len(q) : q[j].key = k
    BY DEF Keyed
  <2>2. j - 1 \in 1..Len(Tail(q)) /\ (j - 1) + 1 = j
    BY <1>1, <2>1
  <2> QED
    BY <1>1, <2>1, <2>2
<1>7. \A i \in 1..Len(Tail(q)) : Tail(q)[i].key \in km \ {Head(q).key}
  BY <1>3 DEF Keyed
<1>8. km \ {Head(q).key} = {Tail(q)[i].key : i \in 1..Len(Tail(q))}
  BY <1>6, <1>7
<1>9. Keyed(Tail(q), km \ {Head(q).key})
  BY <1>4, <1>8 DEF Keyed
<1>10. 1 \in 1..Len(q)
  BY <1>1
<1> QED
  BY <1>1, <1>3, <1>5, <1>9, <1>10

\* enqueueLocked keeps the queue consistent, with the values of processing
\* and pending its caller passes.
LEMMA EnqueueLockedConsistent ==
  ASSUME TypeOK, QueueConsistent, NEW it \in Items, NEW proc \in SUBSET Keys,
         NEW pend \in [Keys -> Versions \cup {None}],
         keyMap \cap proc = {},
         \A k \in Keys : pend[k] # None => k \in proc,
         EnqueueLocked(it, proc, pend), processing' = proc
  PROVE  QueueConsistent'
<1>1. Keyed(items, keyMap) /\ items \in Seq(Items)
  BY DEF QueueConsistent, Keyed, TypeOK
<1>2. CASE it.key \in proc
  <2>1. UNCHANGED <<items, keyMap>>
    BY <1>2 DEF EnqueueLocked
  <2>2. pending' = [pend EXCEPT ![it.key] = it.ver]
    BY <1>2 DEF EnqueueLocked
  <2>3. \A k \in Keys : pending'[k] # None => k \in proc
    BY <1>2, <2>2
  <2> QED
    BY <1>1, <2>1, <2>3 DEF QueueConsistent, Keyed
<1>3. CASE it.key \notin proc
  <2>1. items' = PutItem(items, keyMap, it) /\ keyMap' = keyMap \cup {it.key}
    BY <1>3 DEF EnqueueLocked
  <2>2. Keyed(items', keyMap')
    BY <1>1, <2>1, PutItemKeyed
  <2>3. keyMap' \cap proc = {}
    BY <1>3, <2>1
  <2>4. pending' = pend
    BY <1>3 DEF EnqueueLocked
  <2> QED
    BY <2>2, <2>3, <2>4 DEF QueueConsistent, Keyed
<1> QED
  BY <1>2, <1>3

\* Done always finds its key in the processing set and, after removing it,
\* leaves no pending update behind.
LEMMA DoneFacts ==
  ASSUME TypeOK, QueueConsistent, InFlightExclusive, NEW w \in Workers, Done(w)
  PROVE  LET k == job[w].key IN
         /\ job[w] \in Items /\ k \in Keys /\ k \in processing
         /\ k \notin keyMap
         /\ processing' = processing \ {k}
         /\ \/ pending[k] = None /\ UNCHANGED <<items, keyMap, pending, gauge, loop>>
            \/ /\ pending[k] \in Versions
               /\ EnqueueLocked([key |-> k, ver |-> pending[k]],
                                processing \ {k}, [pending EXCEPT ![k] = None])
<1> DEFINE k == job[w].key
<1>1. job[w] \in Items /\ Busy(w)
  BY DEF TypeOK, Done, Busy
<1>2. k \in Keys
  BY <1>1 DEF Items
<1>3. k \in processing
  BY <1>1 DEF InFlightExclusive
<1>4. k \notin keyMap
  BY <1>3 DEF QueueConsistent
<1>5. pending[k] = None \/ pending[k] \in Versions
  BY <1>2 DEF TypeOK
<1> QED
  BY <1>1, <1>2, <1>3, <1>4, <1>5 DEF Done

-----------------------------------------------------------------------------
(* One lemma per conjunct of the inductive invariant.                      *)

\* The list, keyMap, processing and pending stay consistent.
LEMMA QueueConsistentStep ==
  ASSUME TypeOK, QueueConsistent, InFlightExclusive, [Next]_vars
  PROVE  QueueConsistent'
<1>0. Keyed(items, keyMap) /\ items \in Seq(Items)
  BY DEF QueueConsistent, Keyed, TypeOK
<1>1. ASSUME NEW k \in Keys, Enqueue(k) PROVE QueueConsistent'
  <2> DEFINE it == [key |-> k, ver |-> latest[k] + 1]
  <2>1. it \in Items
    BY <1>1, MaxVersionAssumption DEF TypeOK, Enqueue, Items, Versions
  <2>2. EnqueueLocked(it, processing, pending) /\ processing' = processing
    BY <1>1 DEF Enqueue
  <2> QED
    BY <2>1, <2>2, EnqueueLockedConsistent DEF TypeOK, QueueConsistent
<1>2. CASE DequeueFront
  <2>1. Keyed(items', keyMap')
    BY <1>0, <1>2, TailKeyed DEF DequeueFront
  <2>2. keyMap' \cap processing' = {}
    BY <1>2 DEF QueueConsistent, DequeueFront
  <2>3. \A k \in Keys : pending'[k] # None => k \in processing'
    BY <1>2 DEF QueueConsistent, DequeueFront
  <2> QED
    BY <2>1, <2>2, <2>3 DEF QueueConsistent, Keyed
<1>3. ASSUME NEW w \in Workers, Done(w) PROVE QueueConsistent'
  <2> DEFINE k == job[w].key
             it == [key |-> k, ver |-> pending[k]]
             proc == processing \ {k}
             pend == [pending EXCEPT ![k] = None]
  <2>1. k \in Keys /\ processing' = proc
    BY <1>3, DoneFacts
  <2>2. CASE pending[k] = None /\ UNCHANGED <<items, keyMap, pending, gauge, loop>>
    BY <2>1, <2>2 DEF QueueConsistent
  <2>3. CASE pending[k] \in Versions /\ EnqueueLocked(it, proc, pend)
    <3>1. it \in Items
      BY <2>1, <2>3 DEF Items
    <3>2. proc \in SUBSET Keys /\ pend \in [Keys -> Versions \cup {None}]
      BY DEF TypeOK
    <3>3. keyMap \cap proc = {}
      BY DEF QueueConsistent
    <3>4. \A x \in Keys : pend[x] # None => x \in proc
      BY DEF QueueConsistent, TypeOK
    <3> QED
      BY <2>1, <2>3, <3>1, <3>2, <3>3, <3>4, EnqueueLockedConsistent
  <2> QED
    BY <1>3, <2>2, <2>3, DoneFacts
<1>4. ASSUME UNCHANGED <<items, keyMap, processing, pending>>
      PROVE  QueueConsistent'
  BY <1>4 DEF QueueConsistent
<1>5. CASE SetLengthGauge
  BY <1>4, <1>5 DEF SetLengthGauge
<1>6. CASE Stop \/ LoopCheck \/ DequeueEmpty \/ LoopSend \/ LoopAbandon
  BY <1>4, <1>6 DEF Stop, LoopCheck, DequeueEmpty, LoopSend, LoopAbandon,
                    queueVars
<1>7. ASSUME NEW w \in Workers,
             WorkerReceive(w) \/ HandlerReturns(w) \/ WorkerExit(w)
      PROVE  QueueConsistent'
  BY <1>4, <1>7 DEF WorkerReceive, HandlerReturns, WorkerExit, queueVars
<1>8. CASE UNCHANGED vars
  BY <1>4, <1>8 DEF vars, queueVars
<1> QED
  BY <1>1, <1>2, <1>3, <1>5, <1>6, <1>7, <1>8 DEF Next, LoopStep, WorkerStep

\* enqueueLocked does not change whether dequeueLoop has an item in its hand.
LEMMA EnqueueLockedHand ==
  ASSUME NEW it, NEW proc, NEW pend, EnqueueLocked(it, proc, pend)
  PROVE  InHand' <=> InHand
<1>1. loop' = loop \/ (loop = "waiting" /\ loop' = "dequeue")
  BY DEF EnqueueLocked, Signal
<1> QED
  BY <1>1 DEF InHand

\* Items in flight keep belonging to different, processed keys.
LEMMA InFlightExclusiveStep ==
  ASSUME TypeOK, QueueConsistent, InFlightExclusive, [Next]_vars
  PROVE  InFlightExclusive'
<1> USE DEF InFlightExclusive, SingleHandler
<1>0. /\ jobChan \in Seq(Items)
      /\ Len(jobChan) \in Nat
  BY DEF TypeOK
<1>1. ASSUME NEW k \in Keys, Enqueue(k) PROVE InFlightExclusive'
  <2>1. InHand' <=> InHand
    BY <1>1, EnqueueLockedHand DEF Enqueue
  <2>2. UNCHANGED <<processing, hand, jobChan, wpc, job>>
    BY <1>1 DEF Enqueue, poolVars
  <2> QED
    BY <2>1, <2>2 DEF Busy
<1>2. CASE DequeueFront
  <2> DEFINE k == Head(items).key
  <2>1. k \in keyMap
    BY <1>2, TailKeyed DEF DequeueFront, QueueConsistent, Keyed, TypeOK
  <2>2. k \notin processing
    BY <2>1 DEF QueueConsistent
  <2>3. /\ hand' = Head(items) /\ InHand'
        /\ processing' = processing \cup {k}
        /\ UNCHANGED <<jobChan, wpc, job>>
    BY <1>2 DEF DequeueFront, InHand
  <2> HIDE DEF k
  <2>4. hand'.key = k
    BY <2>3 DEF k
  <2>5. /\ \A i \in 1..Len(jobChan) : jobChan[i].key # k
        /\ \A w \in Workers : Busy(w) => job[w].key # k
    BY <2>2
  <2>6. \A w \in Workers : Busy(w)' <=> Busy(w)
    BY <2>3 DEF Busy
  <2> QED
    BY <2>3, <2>4, <2>5, <2>6
<1>3. CASE LoopSend
  <2>1. /\ InHand /\ ~InHand'
        /\ hand \in Items
        /\ jobChan' = Append(jobChan, hand)
        /\ UNCHANGED <<processing, wpc, job>>
    BY <1>3 DEF LoopSend, InHand, queueVars, TypeOK
  <2>2. /\ Len(jobChan') = Len(jobChan) + 1
        /\ \A i \in 1..Len(jobChan) : jobChan'[i] = jobChan[i]
        /\ jobChan'[Len(jobChan) + 1] = hand
    BY <1>0, <2>1, AppendProperties
  <2>3. \A i \in 1..Len(jobChan') : i \in 1..Len(jobChan) \/ i = Len(jobChan) + 1
    BY <1>0, <2>2
  <2>4. \A w \in Workers : Busy(w)' <=> Busy(w)
    BY <2>1 DEF Busy
  <2>5. \A i \in 1..Len(jobChan') : jobChan'[i].key \in processing
    BY <2>1, <2>2, <2>3
  <2>6. \A i, j \in 1..Len(jobChan') : jobChan'[i].key = jobChan'[j].key => i = j
    BY <2>1, <2>2, <2>3
  <2>7. \A i \in 1..Len(jobChan'), w \in Workers :
           Busy(w) => job[w].key # jobChan'[i].key
    BY <2>1, <2>2, <2>3
  <2> QED
    BY <2>1, <2>4, <2>5, <2>6, <2>7
<1>4. ASSUME NEW w \in Workers, WorkerReceive(w) PROVE InFlightExclusive'
  <2>1. /\ jobChan # <<>>
        /\ jobChan' = Tail(jobChan)
        /\ job' = [job EXCEPT ![w] = Head(jobChan)]
        /\ wpc' = [wpc EXCEPT ![w] = "handle"]
        /\ UNCHANGED <<processing, loop, hand>>
    BY <1>4 DEF WorkerReceive, queueVars
  <2>2. /\ Len(jobChan') = Len(jobChan) - 1
        /\ \A i \in 1..Len(jobChan') : jobChan'[i] = jobChan[i + 1]
        /\ Head(jobChan) = jobChan[1]
        /\ 1 \in 1..Len(jobChan)
    BY <1>0, <2>1
  <2>3. \A i \in 1..Len(jobChan') : i + 1 \in 1..Len(jobChan) /\ i + 1 # 1
    BY <1>0, <2>2
  <2>4. /\ job'[w] = jobChan[1]
        /\ Busy(w)'
        /\ \A v \in Workers : v # w => job'[v] = job[v] /\ (Busy(v)' <=> Busy(v))
    BY <2>1, <2>2 DEF TypeOK, Busy
  <2>5. \A v \in Workers : Busy(v)' =>
           \/ v # w /\ Busy(v) /\ job'[v] = job[v]
           \/ v = w /\ job'[v] = jobChan[1]
    BY <2>4
  <2>6. InHand' <=> InHand
    BY <2>1 DEF InHand
  <2>7. \A i \in 1..Len(jobChan') : jobChan'[i].key \in processing
    BY <2>2, <2>3
  <2>8. \A v \in Workers : Busy(v)' => job'[v].key \in processing
    BY <2>2, <2>5
  <2>9. InHand => \A i \in 1..Len(jobChan') : jobChan'[i].key # hand.key
    BY <2>2, <2>3
  <2>10. InHand => \A v \in Workers : Busy(v)' => job'[v].key # hand.key
    BY <2>2, <2>5
  <2>11. \A i, j \in 1..Len(jobChan') : jobChan'[i].key = jobChan'[j].key => i = j
    <3> SUFFICES ASSUME NEW i \in 1..Len(jobChan'), NEW j \in 1..Len(jobChan'),
                        jobChan'[i].key = jobChan'[j].key
                 PROVE  i = j
      OBVIOUS
    <3>1. i + 1 = j + 1
      BY <2>2, <2>3
    <3> QED
      BY <1>0, <2>2, <3>1
  <2>12. \A i \in 1..Len(jobChan'), v \in Workers :
            Busy(v)' => job'[v].key # jobChan'[i].key
    BY <2>2, <2>3, <2>5
  <2>13. SingleHandler'
    <3> SUFFICES ASSUME NEW u \in Workers, NEW v \in Workers,
                        Busy(u)', Busy(v)', job'[u].key = job'[v].key
                 PROVE  u = v
      OBVIOUS
    <3> QED
      BY <2>2, <2>5
  <2>14. /\ InHand' => hand'.key \in processing'
         /\ InHand' => \A i \in 1..Len(jobChan') : jobChan'[i].key # hand'.key
         /\ InHand' => \A v \in Workers : Busy(v)' => job'[v].key # hand'.key
    BY <2>1, <2>6, <2>9, <2>10
  <2>15. /\ \A i \in 1..Len(jobChan') : jobChan'[i].key \in processing'
         /\ \A v \in Workers : Busy(v)' => job'[v].key \in processing'
    BY <2>1, <2>7, <2>8
  <2> QED
    BY <2>11, <2>12, <2>13, <2>14, <2>15
<1>5. ASSUME NEW w \in Workers, Done(w) PROVE InFlightExclusive'
  <2> DEFINE k == job[w].key
  <2>1. Busy(w)
    BY <1>5 DEF Done, Busy
  <2>2. /\ processing' = processing \ {k}
        /\ wpc' = [wpc EXCEPT ![w] = "receive"]
        /\ job' = [job EXCEPT ![w] = NoItem]
        /\ UNCHANGED <<hand, jobChan>>
    BY <1>5 DEF Done
  <2>3. /\ ~Busy(w)'
        /\ \A v \in Workers : v # w => job'[v] = job[v] /\ (Busy(v)' <=> Busy(v))
    BY <2>2 DEF TypeOK, Busy
  <2>4. \A v \in Workers : Busy(v)' =>
           v # w /\ Busy(v) /\ job'[v] = job[v] /\ job[v].key # k
    BY <2>1, <2>3
  <2>5. InHand' <=> InHand
    BY <1>5, EnqueueLockedHand, DoneFacts DEF InHand
  <2>6. InHand => hand.key # k
    BY <2>1
  <2>7. \A i \in 1..Len(jobChan) : jobChan[i].key # k
    BY <2>1
  <2> HIDE DEF k
  <2> QED
    BY <2>2, <2>4, <2>5, <2>6, <2>7
<1>6. ASSUME UNCHANGED <<processing, hand, jobChan, job>>, InHand' <=> InHand,
             \A w \in Workers : Busy(w)' <=> Busy(w)
      PROVE  InFlightExclusive'
  BY <1>6
<1>7. CASE SetLengthGauge \/ Stop \/ LoopCheck \/ DequeueEmpty \/ LoopAbandon
  <2>1. UNCHANGED <<processing, hand, jobChan, wpc, job>>
    BY <1>7 DEF SetLengthGauge, Stop, LoopCheck, DequeueEmpty, LoopAbandon,
                queueVars, poolVars
  <2>2. InHand' <=> InHand
    BY <1>7 DEF SetLengthGauge, Stop, LoopCheck, DequeueEmpty, LoopAbandon,
                InHand
  <2> QED
    BY <1>6, <2>1, <2>2 DEF Busy
<1>8. ASSUME NEW w \in Workers, HandlerReturns(w) \/ WorkerExit(w)
      PROVE  InFlightExclusive'
  <2>1. UNCHANGED <<processing, hand, jobChan, job, loop>>
    BY <1>8 DEF HandlerReturns, WorkerExit, queueVars
  <2>2. \A v \in Workers : Busy(v)' <=> Busy(v)
    BY <1>8 DEF HandlerReturns, WorkerExit, Busy, TypeOK
  <2> QED
    BY <1>6, <2>1, <2>2 DEF InHand
<1>9. CASE UNCHANGED vars
  BY <1>6, <1>9 DEF vars, queueVars, poolVars, InHand, Busy
<1> QED
  BY <1>1, <1>2, <1>3, <1>4, <1>5, <1>7, <1>8, <1>9
  DEF Next, LoopStep, WorkerStep

\* A worker that handles or has handled an item holds one.
LEMMA BusyItem ==
  ASSUME TypeOK, NEW w \in Workers, Busy(w)
  PROVE  job[w] \in Items /\ job[w].key \in Keys /\ job[w].ver \in Versions
<1>1. job[w] \in Items
  BY DEF TypeOK
<1> QED
  BY <1>1 DEF Items

\* The elements of the list and of the channel are items.
LEMMA SeqItem ==
  ASSUME NEW q \in Seq(Items), NEW i \in 1..Len(q)
  PROVE  q[i] \in Items /\ q[i].key \in Keys /\ q[i].ver \in Versions
<1>1. q[i] \in Items
  OBVIOUS
<1> QED
  BY <1>1 DEF Items

\* What dequeueLoop holds is an item.
LEMMA HandItem ==
  ASSUME TypeOK, InHand
  PROVE  hand \in Items /\ hand.key \in Keys /\ hand.ver \in Versions
<1>1. hand \in Items
  BY DEF TypeOK
<1> QED
  BY <1>1 DEF Items

\* The versions of every key keep their order.
LEMMA VersionOrderStep ==
  ASSUME TypeOK, QueueConsistent, InFlightExclusive, VersionOrder, [Next]_vars,
         TypeOK'
  PROVE  VersionOrder'
<1> USE DEF Newest, Fresh
<1>0. /\ jobChan \in Seq(Items) /\ Len(jobChan) \in Nat
      /\ items \in Seq(Items) /\ Keyed(items, keyMap)
  BY DEF TypeOK, QueueConsistent, Keyed
<1>1. ASSUME NEW k \in Keys, Enqueue(k) PROVE VersionOrder'
  <2> DEFINE it == [key |-> k, ver |-> latest[k] + 1]
  <2>1. it \in Items /\ it.key = k /\ it.ver = latest[k] + 1
    BY <1>1, MaxVersionAssumption DEF TypeOK, Enqueue, Items, Versions
  <2>2. /\ EnqueueLocked(it, processing, pending)
        /\ UNCHANGED <<hand, jobChan, wpc, job, handled>>
        /\ latest' = [latest EXCEPT ![k] = latest[k] + 1]
    BY <1>1 DEF Enqueue, poolVars
  <2>3. InHand' <=> InHand
    BY <2>2, EnqueueLockedHand
  <2>4. /\ latest[k] \in Nat /\ handled[k] \in Nat
        /\ latest'[k] = latest[k] + 1
        /\ \A x \in Keys : x # k => latest'[x] = latest[x]
    BY <2>2 DEF TypeOK
  <2>5. \A x \in Keys : handled'[x] <= latest'[x]
    BY <2>2, <2>4 DEF VersionOrder, TypeOK
  <2> HIDE DEF it
  <2>6. CASE k \in processing
    <3>1. UNCHANGED items /\ pending' = [pending EXCEPT ![k] = latest[k] + 1]
      BY <2>1, <2>2, <2>6 DEF EnqueueLocked
    <3>2. /\ pending'[k] = latest[k] + 1 /\ pending'[k] # None
          /\ \A x \in Keys : x # k => pending'[x] = pending[x]
      BY <2>4, <3>1 DEF TypeOK, None
    <3>3. \A x \in Keys : pending'[x] # None => pending'[x] = latest'[x]
      BY <2>4, <3>2 DEF VersionOrder
    <3>4. \A i \in 1..Len(items) : items[i].key \in Keys /\ items[i].key # k
      BY <1>0, <2>6, SeqItem DEF QueueConsistent
    <3>5. \A i \in 1..Len(items') :
             /\ items'[i].ver = latest'[items'[i].key]
             /\ handled'[items'[i].key] < items'[i].ver
      BY <2>2, <2>4, <3>1, <3>4 DEF VersionOrder
    <3>6. ASSUME NEW x \in Items, Newest(x)
          PROVE  Newest(x)'
      <4>1. x.key \in Keys /\ x.ver \in Nat
        BY DEF Items, Versions
      <4> QED
        BY <2>4, <3>2, <3>6, <4>1
    <3>7. InHand' => Fresh(hand)'
      BY <2>2, <2>3, <3>6, HandItem DEF VersionOrder
    <3>8. \A i \in 1..Len(jobChan') : Fresh(jobChan[i])'
      BY <1>0, <2>2, <3>6, SeqItem DEF VersionOrder
    <3>9. \A w \in Workers : wpc'[w] = "handle" => Fresh(job[w])'
      BY <2>2, <3>6, BusyItem DEF VersionOrder, Busy
    <3>10. \A w \in Workers : wpc'[w] = "done" =>
              Newest(job[w])' /\ handled'[job'[w].key] = job'[w].ver
      BY <2>2, <3>6, BusyItem DEF VersionOrder, Busy
    <3> QED
      BY <2>2, <2>5, <3>3, <3>5, <3>7, <3>8, <3>9, <3>10 DEF VersionOrder
  <2>7. CASE k \notin processing
    <3>1. UNCHANGED pending /\ items' = PutItem(items, keyMap, it)
      BY <2>1, <2>2, <2>7 DEF EnqueueLocked
    <3>2. \A x \in Keys : pending'[x] # None => pending'[x] = latest'[x]
      BY <2>4, <2>7, <3>1 DEF VersionOrder, QueueConsistent
    <3>3. \A i \in 1..Len(items') :
             \/ items'[i] = it
             \/ \E j \in 1..Len(items) : items'[i] = items[j] /\ items[j].key # k
      BY <1>0, <2>1, <3>1, PutItemElement
    <3>4. \A i \in 1..Len(items') :
             /\ items'[i].ver = latest'[items'[i].key]
             /\ handled'[items'[i].key] < items'[i].ver
      <4> SUFFICES ASSUME NEW i \in 1..Len(items')
                   PROVE  /\ items'[i].ver = latest'[items'[i].key]
                          /\ handled'[items'[i].key] < items'[i].ver
        OBVIOUS
      <4>1. CASE items'[i] = it
        BY <2>1, <2>2, <2>4, <4>1 DEF VersionOrder
      <4>2. CASE \E j \in 1..Len(items) : items'[i] = items[j] /\ items[j].key # k
        BY <1>0, <2>2, <2>4, <4>2, SeqItem DEF VersionOrder
      <4> QED
        BY <3>3, <4>1, <4>2
    <3>5. InHand => hand.key \in Keys /\ hand.key # k
      BY <2>7, HandItem DEF InFlightExclusive
    <3>6. \A i \in 1..Len(jobChan) : jobChan[i].key \in Keys /\ jobChan[i].key # k
      BY <1>0, <2>7, SeqItem DEF InFlightExclusive
    <3>7. \A w \in Workers : Busy(w) => job[w].key \in Keys /\ job[w].key # k
      BY <2>7, BusyItem DEF InFlightExclusive
    <3>8. InHand' => Fresh(hand)'
      BY <2>2, <2>3, <2>4, <3>1, <3>5 DEF VersionOrder
    <3>9. \A i \in 1..Len(jobChan') : Fresh(jobChan[i])'
      BY <2>2, <2>4, <3>1, <3>6 DEF VersionOrder
    <3>10. \A w \in Workers : wpc'[w] = "handle" => Fresh(job[w])'
      BY <2>2, <2>4, <3>1, <3>7 DEF VersionOrder, Busy
    <3>11. \A w \in Workers : wpc'[w] = "done" =>
              Newest(job[w])' /\ handled'[job'[w].key] = job'[w].ver
      BY <2>2, <2>4, <3>1, <3>7 DEF VersionOrder, Busy
    <3> QED
      BY <2>5, <3>2, <3>4, <3>8, <3>9, <3>10, <3>11 DEF VersionOrder
  <2> QED
    BY <2>6, <2>7
<1>2. CASE DequeueFront
  <2>1. /\ hand' = Head(items) /\ items' = Tail(items)
        /\ items # <<>>
        /\ UNCHANGED <<pending, jobChan, wpc, job, latest, handled>>
    BY <1>2 DEF DequeueFront
  <2>2. /\ Head(items) = items[1] /\ 1 \in 1..Len(items)
        /\ Head(items).key \in keyMap
        /\ \A i \in 1..Len(items') :
             \E j \in 1..Len(items) : items'[i] = items[j]
    BY <1>0, <2>1, TailKeyed
  <2>3. Head(items).key \in Keys
    BY <1>0, <2>2, SeqItem
  <2>4. pending[Head(items).key] = None
    BY <2>2, <2>3 DEF QueueConsistent
  <2>5. Fresh(hand)'
    BY <2>1, <2>2, <2>4 DEF VersionOrder
  <2>6. \A i \in 1..Len(items') :
           /\ items'[i].ver = latest'[items'[i].key]
           /\ handled'[items'[i].key] < items'[i].ver
    BY <2>1, <2>2 DEF VersionOrder
  <2> QED
    BY <2>1, <2>5, <2>6 DEF VersionOrder
<1>3. CASE LoopSend
  <2>1. /\ InHand /\ ~InHand'
        /\ hand \in Items
        /\ jobChan' = Append(jobChan, hand)
        /\ UNCHANGED <<items, pending, wpc, job, latest, handled>>
    BY <1>3 DEF LoopSend, InHand, queueVars, TypeOK
  <2>2. \A i \in 1..Len(jobChan') :
           jobChan'[i] = hand \/ (i \in 1..Len(jobChan) /\ jobChan'[i] = jobChan[i])
    BY <1>0, <2>1, AppendProperties
  <2>3. \A i \in 1..Len(jobChan') : Fresh(jobChan[i])'
    BY <2>1, <2>2 DEF VersionOrder
  <2> QED
    BY <2>1, <2>3 DEF VersionOrder
<1>4. ASSUME NEW w \in Workers, WorkerReceive(w) PROVE VersionOrder'
  <2>1. /\ jobChan # <<>>
        /\ jobChan' = Tail(jobChan)
        /\ job' = [job EXCEPT ![w] = Head(jobChan)]
        /\ wpc' = [wpc EXCEPT ![w] = "handle"]
        /\ UNCHANGED <<items, pending, loop, hand, latest, handled>>
    BY <1>4 DEF WorkerReceive, queueVars
  <2>2. /\ \A i \in 1..Len(jobChan') :
             i + 1 \in 1..Len(jobChan) /\ jobChan'[i] = jobChan[i + 1]
        /\ Head(jobChan) = jobChan[1]
        /\ 1 \in 1..Len(jobChan)
    BY <1>0, <2>1
  <2>3. /\ job'[w] = jobChan[1] /\ wpc'[w] = "handle"
        /\ \A v \in Workers : v # w => job'[v] = job[v] /\ wpc'[v] = wpc[v]
    BY <2>1, <2>2 DEF TypeOK
  <2>4. \A i \in 1..Len(jobChan') : Fresh(jobChan[i])'
    BY <2>1, <2>2 DEF VersionOrder
  <2>5. \A v \in Workers : wpc'[v] = "handle" => Fresh(job[v])'
    BY <2>1, <2>2, <2>3 DEF VersionOrder
  <2>6. \A v \in Workers : wpc'[v] = "done" =>
           Newest(job[v])' /\ handled'[job'[v].key] = job'[v].ver
    BY <2>1, <2>3 DEF VersionOrder
  <2> QED
    BY <2>1, <2>4, <2>5, <2>6 DEF VersionOrder, InHand
<1>5. ASSUME NEW w \in Workers, HandlerReturns(w) PROVE VersionOrder'
  <2> DEFINE k == job[w].key
  <2>1. Busy(w) /\ Fresh(job[w]) /\ k \in Keys /\ job[w].ver \in Nat
    BY <1>5, BusyItem DEF HandlerReturns, Busy, VersionOrder, Versions
  <2>2. /\ handled' = [handled EXCEPT ![k] = job[w].ver]
        /\ wpc' = [wpc EXCEPT ![w] = "done"]
        /\ UNCHANGED <<items, pending, loop, hand, jobChan, job, latest>>
    BY <1>5 DEF HandlerReturns, queueVars
  <2>3. /\ handled'[k] = job[w].ver
        /\ \A x \in Keys : x # k => handled'[x] = handled[x]
        /\ wpc'[w] = "done"
        /\ \A v \in Workers : v # w => wpc'[v] = wpc[v]
    BY <2>1, <2>2 DEF TypeOK
  <2>4. job[w].ver <= latest[k] /\ latest[k] \in Nat
    BY <2>1 DEF TypeOK
  <2>5. \A x \in Keys : handled'[x] <= latest'[x]
    BY <2>2, <2>3, <2>4 DEF VersionOrder
  <2>6. k \in processing
    BY <2>1 DEF InFlightExclusive
  <2>7. \A i \in 1..Len(items) : items[i].key \in Keys /\ items[i].key # k
    BY <1>0, <2>6, SeqItem DEF QueueConsistent
  <2>8. InHand => hand.key \in Keys /\ hand.key # k
    BY <2>1, HandItem DEF InFlightExclusive
  <2>9. \A i \in 1..Len(jobChan) : jobChan[i].key \in Keys /\ jobChan[i].key # k
    BY <1>0, <2>1, SeqItem DEF InFlightExclusive
  <2>10. \A v \in Workers : v # w /\ Busy(v) =>
            job[v].key \in Keys /\ job[v].key # k
    BY <2>1, BusyItem DEF InFlightExclusive, SingleHandler
  <2>11. \A i \in 1..Len(items') :
           /\ items'[i].ver = latest'[items'[i].key]
           /\ handled'[items'[i].key] < items'[i].ver
    BY <2>2, <2>3, <2>7 DEF VersionOrder
  <2>12. InHand' => Fresh(hand)'
    BY <2>2, <2>3, <2>8 DEF VersionOrder, InHand
  <2>13. \A i \in 1..Len(jobChan') : Fresh(jobChan[i])'
    BY <2>2, <2>3, <2>9 DEF VersionOrder
  <2>14. \A v \in Workers : wpc'[v] = "handle" => Fresh(job[v])'
    BY <2>2, <2>3, <2>10 DEF VersionOrder, Busy
  <2>15. \A v \in Workers : wpc'[v] = "done" =>
            Newest(job[v])' /\ handled'[job'[v].key] = job'[v].ver
    BY <2>1, <2>2, <2>3, <2>10 DEF VersionOrder, Busy
  <2> QED
    BY <2>2, <2>5, <2>11, <2>12, <2>13, <2>14, <2>15 DEF VersionOrder
<1>6. ASSUME NEW w \in Workers, Done(w) PROVE VersionOrder'
  <2> DEFINE k == job[w].key
             it == [key |-> k, ver |-> pending[k]]
  <2>1. /\ job[w] \in Items /\ k \in Keys /\ k \in processing
        /\ \/ pending[k] = None /\ UNCHANGED <<items, keyMap, pending, gauge, loop>>
           \/ /\ pending[k] \in Versions
              /\ EnqueueLocked(it, processing \ {k}, [pending EXCEPT ![k] = None])
    BY <1>6, DoneFacts
  <2>2. /\ Busy(w)
        /\ Newest(job[w])
        /\ handled[k] = job[w].ver
        /\ wpc' = [wpc EXCEPT ![w] = "receive"]
        /\ job' = [job EXCEPT ![w] = NoItem]
        /\ UNCHANGED <<hand, jobChan, latest, handled>>
    BY <1>6 DEF Done, Busy, VersionOrder
  <2>3. /\ \A v \in Workers : v # w => job'[v] = job[v] /\ wpc'[v] = wpc[v]
        /\ wpc'[w] = "receive"
    BY <2>2 DEF TypeOK
  <2>4. InHand => hand.key \in Keys /\ hand.key # k
    BY <2>2, HandItem DEF InFlightExclusive
  <2>5. \A i \in 1..Len(jobChan) : jobChan[i].key \in Keys /\ jobChan[i].key # k
    BY <1>0, <2>2, SeqItem DEF InFlightExclusive
  <2>6. \A v \in Workers : v # w /\ Busy(v) =>
           job[v].key \in Keys /\ job[v].key # k
    BY <2>2, BusyItem DEF InFlightExclusive, SingleHandler
  <2>7. InHand' <=> InHand
    BY <2>1, EnqueueLockedHand DEF InHand
  <2>8. ASSUME \A x \in Keys : x # k => pending'[x] = pending[x]
        PROVE  /\ InHand' => Fresh(hand)'
               /\ \A i \in 1..Len(jobChan') : Fresh(jobChan[i])'
               /\ \A v \in Workers : wpc'[v] = "handle" => Fresh(job[v])'
               /\ \A v \in Workers : wpc'[v] = "done" =>
                     Newest(job[v])' /\ handled'[job'[v].key] = job'[v].ver
    <3>1. InHand' => Fresh(hand)'
      BY <2>2, <2>4, <2>7, <2>8 DEF VersionOrder
    <3>2. \A i \in 1..Len(jobChan') : Fresh(jobChan[i])'
      BY <2>2, <2>5, <2>8 DEF VersionOrder
    <3>3. \A v \in Workers : wpc'[v] = "handle" => Fresh(job[v])'
      BY <2>2, <2>3, <2>6, <2>8 DEF VersionOrder, Busy
    <3>4. \A v \in Workers : wpc'[v] = "done" =>
             Newest(job[v])' /\ handled'[job'[v].key] = job'[v].ver
      BY <2>2, <2>3, <2>6, <2>8 DEF VersionOrder, Busy
    <3> QED
      BY <3>1, <3>2, <3>3, <3>4
  <2>9. CASE pending[k] = None /\ UNCHANGED <<items, keyMap, pending, gauge, loop>>
    BY <2>2, <2>8, <2>9 DEF VersionOrder
  <2>10. CASE /\ pending[k] \in Versions
              /\ EnqueueLocked(it, processing \ {k}, [pending EXCEPT ![k] = None])
    <3>1. it \in Items /\ it.key = k /\ it.ver = pending[k]
      BY <2>1, <2>10 DEF Items
    <3>2. pending[k] # None
      BY <2>10, MaxVersionAssumption DEF Versions, None
    <3>3. /\ pending' = [pending EXCEPT ![k] = None]
          /\ items' = PutItem(items, keyMap, it)
      BY <2>10, <3>1 DEF EnqueueLocked
    <3>4. /\ pending'[k] = None
          /\ \A x \in Keys : x # k => pending'[x] = pending[x]
      BY <2>1, <3>3 DEF TypeOK
    <3>5. \A i \in 1..Len(items') :
             \/ items'[i] = it
             \/ \E j \in 1..Len(items) : items'[i] = items[j]
      BY <1>0, <3>1, <3>3, PutItemElement
    <3>6. it.ver = latest[k] /\ handled[k] < it.ver
      BY <2>1, <2>2, <3>1, <3>2 DEF VersionOrder
    <3> HIDE DEF it
    <3>7. \A i \in 1..Len(items') :
             /\ items'[i].ver = latest'[items'[i].key]
             /\ handled'[items'[i].key] < items'[i].ver
      BY <2>2, <3>1, <3>5, <3>6 DEF VersionOrder
    <3>8. \A x \in Keys : pending'[x] # None => pending'[x] = latest'[x]
      BY <2>2, <3>4 DEF VersionOrder
    <3>9. \A x \in Keys : handled'[x] <= latest'[x]
      BY <2>2 DEF VersionOrder
    <3> QED
      BY <2>8, <3>4, <3>7, <3>8, <3>9 DEF VersionOrder
  <2> QED
    BY <2>1, <2>9, <2>10
<1>7. ASSUME UNCHANGED <<items, pending, hand, jobChan, wpc, job, latest, handled>>,
             InHand' <=> InHand
      PROVE  VersionOrder'
  BY <1>7 DEF VersionOrder
<1>8. CASE SetLengthGauge \/ Stop \/ LoopCheck \/ DequeueEmpty \/ LoopAbandon
  <2>1. UNCHANGED <<items, pending, hand, jobChan, wpc, job, latest, handled>>
    BY <1>8 DEF SetLengthGauge, Stop, LoopCheck, DequeueEmpty, LoopAbandon,
                queueVars, poolVars
  <2>2. InHand' <=> InHand
    BY <1>8 DEF SetLengthGauge, Stop, LoopCheck, DequeueEmpty, LoopAbandon,
                InHand
  <2> QED
    BY <1>7, <2>1, <2>2
<1>9. ASSUME NEW w \in Workers, WorkerExit(w) PROVE VersionOrder'
  <2>1. /\ UNCHANGED <<items, pending, loop, hand, jobChan, job, latest, handled>>
        /\ wpc' = [wpc EXCEPT ![w] = "exited"]
    BY <1>9 DEF WorkerExit, queueVars
  <2>2. \A v \in Workers : wpc'[v] = wpc[v] \/ wpc'[v] = "exited"
    BY <2>1 DEF TypeOK
  <2> QED
    BY <2>1, <2>2 DEF VersionOrder, InHand
<1>10. CASE UNCHANGED vars
  BY <1>7, <1>10 DEF vars, queueVars, poolVars, InHand
<1> QED
  BY <1>1, <1>2, <1>3, <1>4, <1>5, <1>6, <1>8, <1>9, <1>10
  DEF Next, LoopStep, WorkerStep

\* A processed key keeps an item in flight until Done, and a key that is
\* neither queued nor processed has been handled up to its newest version.
LEMMA AccountedStep ==
  ASSUME TypeOK, QueueConsistent, InFlightExclusive, VersionOrder, Accounted,
         [Next]_vars
  PROVE  Accounted'
<1>0. /\ jobChan \in Seq(Items) /\ Len(jobChan) \in Nat
      /\ items \in Seq(Items) /\ Keyed(items, keyMap)
  BY DEF TypeOK, QueueConsistent, Keyed
<1>1. ASSUME NEW k \in Keys, Enqueue(k) PROVE Accounted'
  <2> DEFINE it == [key |-> k, ver |-> latest[k] + 1]
  <2>1. /\ EnqueueLocked(it, processing, pending)
        /\ UNCHANGED <<processing, hand, jobChan, wpc, job, handled>>
        /\ latest' = [latest EXCEPT ![k] = latest[k] + 1]
    BY <1>1 DEF Enqueue, poolVars
  <2>2. InHand' <=> InHand
    BY <2>1, EnqueueLockedHand
  <2>3. \A x \in processing' : Held(x)'
    BY <2>1, <2>2 DEF Accounted, Held, Busy
  <2>4. k \in keyMap' \cup processing' /\ keyMap \subseteq keyMap'
    BY <2>1 DEF EnqueueLocked
  <2>5. \A x \in Keys : x # k => latest'[x] = latest[x]
    BY <2>1 DEF TypeOK
  <2> QED
    BY <2>1, <2>3, <2>4, <2>5 DEF Accounted
<1>2. CASE DequeueFront
  <2>1. /\ ~InHand /\ InHand'
        /\ hand' = Head(items)
        /\ keyMap' = keyMap \ {Head(items).key}
        /\ processing' = processing \cup {Head(items).key}
        /\ UNCHANGED <<jobChan, wpc, job, latest, handled>>
    BY <1>2 DEF DequeueFront, InHand
  <2>2. \A x \in processing' : Held(x)'
    BY <2>1 DEF Accounted, Held, Busy
  <2> QED
    BY <2>1, <2>2 DEF Accounted
<1>3. CASE LoopSend
  <2>1. /\ hand \in Items
        /\ jobChan' = Append(jobChan, hand)
        /\ UNCHANGED <<keyMap, processing, wpc, job, latest, handled>>
    BY <1>3 DEF LoopSend, InHand, queueVars, TypeOK
  <2>2. /\ Len(jobChan') = Len(jobChan) + 1
        /\ \A i \in 1..Len(jobChan) : i \in 1..Len(jobChan') /\ jobChan'[i] = jobChan[i]
        /\ Len(jobChan) + 1 \in 1..Len(jobChan')
        /\ jobChan'[Len(jobChan) + 1] = hand
    BY <1>0, <2>1, AppendProperties
  <2>3. \A x \in processing' : Held(x)'
    BY <2>1, <2>2 DEF Accounted, Held, Busy
  <2> QED
    BY <2>1, <2>3 DEF Accounted
<1>4. ASSUME NEW w \in Workers, WorkerReceive(w) PROVE Accounted'
  <2>1. /\ jobChan # <<>> /\ ~Busy(w)
        /\ jobChan' = Tail(jobChan)
        /\ job' = [job EXCEPT ![w] = Head(jobChan)]
        /\ wpc' = [wpc EXCEPT ![w] = "handle"]
        /\ UNCHANGED <<keyMap, processing, loop, hand, latest, handled>>
    BY <1>4 DEF WorkerReceive, queueVars, Busy
  <2>2. /\ job'[w] = jobChan[1] /\ Busy(w)'
        /\ \A v \in Workers : Busy(v) => Busy(v)' /\ job'[v] = job[v]
    BY <1>0, <2>1 DEF TypeOK, Busy
  <2>3. \A i \in 1..Len(jobChan) :
           i = 1 \/ (i - 1 \in 1..Len(jobChan') /\ jobChan'[i - 1] = jobChan[i])
    BY <1>0, <2>1
  <2>4. InHand' <=> InHand
    BY <2>1 DEF InHand
  <2>5. ASSUME NEW x \in processing PROVE Held(x)'
    <3>1. CASE InHand /\ hand.key = x
      BY <2>1, <2>4, <3>1 DEF Held
    <3>2. CASE \E i \in 1..Len(jobChan) : jobChan[i].key = x
      BY <2>2, <2>3, <3>2 DEF Held
    <3>3. CASE \E v \in Workers : Busy(v) /\ job[v].key = x
      BY <2>2, <3>3 DEF Held
    <3> QED
      BY <2>5, <3>1, <3>2, <3>3 DEF Accounted, Held
  <2> QED
    BY <2>1, <2>5 DEF Accounted
<1>5. ASSUME NEW w \in Workers, HandlerReturns(w) PROVE Accounted'
  <2>1. /\ Busy(w)
        /\ handled' = [handled EXCEPT ![job[w].key] = job[w].ver]
        /\ wpc' = [wpc EXCEPT ![w] = "done"]
        /\ UNCHANGED <<keyMap, processing, loop, hand, jobChan, job, latest>>
    BY <1>5 DEF HandlerReturns, queueVars, Busy
  <2>2. \A v \in Workers : Busy(v)' <=> Busy(v)
    BY <2>1 DEF TypeOK, Busy
  <2>3. \A x \in processing' : Held(x)'
    BY <2>1, <2>2 DEF Accounted, Held, InHand
  <2>4. \A x \in Keys : x \notin processing => handled'[x] = handled[x]
    BY <2>1 DEF TypeOK, InFlightExclusive
  <2> QED
    BY <2>1, <2>3, <2>4 DEF Accounted
<1>6. ASSUME NEW w \in Workers, Done(w) PROVE Accounted'
  <2> DEFINE k == job[w].key
             it == [key |-> k, ver |-> pending[k]]
  <2>1. /\ k \in Keys
        /\ processing' = processing \ {k}
        /\ \/ pending[k] = None /\ UNCHANGED <<items, keyMap, pending, gauge, loop>>
           \/ EnqueueLocked(it, processing \ {k}, [pending EXCEPT ![k] = None])
    BY <1>6, DoneFacts
  <2>2. /\ Newest(job[w]) /\ handled[k] = job[w].ver
        /\ wpc' = [wpc EXCEPT ![w] = "receive"]
        /\ job' = [job EXCEPT ![w] = NoItem]
        /\ UNCHANGED <<hand, jobChan, latest, handled>>
    BY <1>6 DEF Done, VersionOrder
  <2>3. \A v \in Workers : v # w => job'[v] = job[v] /\ (Busy(v)' <=> Busy(v))
    BY <2>2 DEF TypeOK, Busy
  <2>4. InHand' <=> InHand
    BY <2>1, EnqueueLockedHand DEF InHand
  <2>5. \A x \in processing' : Held(x)'
    BY <2>1, <2>2, <2>3, <2>4 DEF Accounted, Held
  <2>6. keyMap \subseteq keyMap'
    BY <2>1 DEF EnqueueLocked
  <2>7. k \notin keyMap' => handled[k] = latest[k]
    <3>1. CASE pending[k] = None
      BY <2>2, <3>1 DEF Newest
    <3>2. CASE EnqueueLocked(it, processing \ {k}, [pending EXCEPT ![k] = None])
      BY <3>2 DEF EnqueueLocked
    <3> QED
      BY <2>1, <3>1, <3>2
  <2> QED
    BY <2>1, <2>2, <2>5, <2>6, <2>7 DEF Accounted
<1>7. ASSUME UNCHANGED <<keyMap, processing, hand, jobChan, job, latest, handled>>,
             InHand' <=> InHand, \A w \in Workers : Busy(w)' <=> Busy(w)
      PROVE  Accounted'
  BY <1>7 DEF Accounted, Held
<1>8. CASE SetLengthGauge \/ Stop \/ LoopCheck \/ DequeueEmpty \/ LoopAbandon
  <2>1. UNCHANGED <<keyMap, processing, hand, jobChan, wpc, job, latest, handled>>
    BY <1>8 DEF SetLengthGauge, Stop, LoopCheck, DequeueEmpty, LoopAbandon,
                queueVars, poolVars
  <2>2. InHand' <=> InHand
    BY <1>8 DEF SetLengthGauge, Stop, LoopCheck, DequeueEmpty, LoopAbandon,
                InHand
  <2> QED
    BY <1>7, <2>1, <2>2 DEF Busy
<1>9. ASSUME NEW w \in Workers, WorkerExit(w) PROVE Accounted'
  <2>1. UNCHANGED <<keyMap, processing, loop, hand, jobChan, job, latest, handled>>
    BY <1>9 DEF WorkerExit, queueVars
  <2>2. \A v \in Workers : Busy(v)' <=> Busy(v)
    BY <1>9 DEF WorkerExit, Busy, TypeOK
  <2> QED
    BY <1>7, <2>1, <2>2 DEF InHand
<1>10. CASE UNCHANGED vars
  BY <1>7, <1>10 DEF vars, queueVars, poolVars, InHand, Busy
<1> QED
  BY <1>1, <1>2, <1>3, <1>4, <1>5, <1>6, <1>8, <1>9, <1>10
  DEF Next, LoopStep, WorkerStep

-----------------------------------------------------------------------------
(* The inductive invariant and what follows from it.                       *)

\* The inductive invariant holds initially.
LEMMA IInvInit == Init => IInv
<1> SUFFICES ASSUME Init PROVE IInv
  OBVIOUS
<1>1. TypeOK
  BY TypeOKInit
<1>2. QueueConsistent
  BY DEF Init, QueueConsistent
<1>3. InFlightExclusive /\ VersionOrder /\ Accounted
  BY DEF Init, InFlightExclusive, SingleHandler, VersionOrder, Accounted,
         InHand, Busy
<1> QED
  BY <1>1, <1>2, <1>3 DEF IInv

\* Every step keeps the inductive invariant.
LEMMA IInvStep == IInv /\ [Next]_vars => IInv'
<1> SUFFICES ASSUME IInv, [Next]_vars PROVE IInv'
  OBVIOUS
<1>1. TypeOK /\ QueueConsistent /\ InFlightExclusive /\ VersionOrder /\ Accounted
  BY DEF IInv
<1>2. TypeOK'
  BY <1>1, TypeOKStep
<1>3. QueueConsistent' /\ InFlightExclusive'
  BY <1>1, QueueConsistentStep, InFlightExclusiveStep
<1>4. VersionOrder' /\ Accounted'
  BY <1>1, <1>2, VersionOrderStep, AccountedStep
<1> QED
  BY <1>2, <1>3, <1>4 DEF IInv

\* The inductive invariant is an invariant.
LEMMA Invariance == Spec => []IInv
<1> QED
  BY IInvInit, IInvStep, PTL DEF Spec

\* The queue's four structures agree whenever kq.mu is free.
THEOREM ConsistentQueue == Spec => []QueueConsistent
<1>1. IInv => QueueConsistent
  BY DEF IInv
<1> QED
  BY <1>1, Invariance, PTL

\* Two workers never handle the same application at once.
THEOREM OneHandlerPerKey == Spec => []SingleHandler
<1>1. IInv => SingleHandler
  BY DEF IInv, InFlightExclusive
<1> QED
  BY <1>1, Invariance, PTL

\* Done is only called for keys that are being processed.
THEOREM DoneNeverFails == Spec => []DoneExpected
<1>1. IInv => DoneExpected
  BY DEF IInv, InFlightExclusive, DoneExpected, Busy
<1> QED
  BY <1>1, Invariance, PTL

\* An item is determined by its key and its version.
LEMMA ItemEq ==
  ASSUME NEW it \in Items
  PROVE  it = [key |-> it.key, ver |-> it.ver]
BY DEF Items

\* A key with an item in flight and nothing pending has its newest version in
\* flight.
LEMMA HeldNewest ==
  ASSUME IInv, NEW k \in Keys, Held(k), pending[k] = None
  PROVE  InFlight(k, latest[k])
<1>0. TypeOK /\ VersionOrder /\ jobChan \in Seq(Items)
  BY DEF IInv, TypeOK
<1>1. CASE InHand /\ hand.key = k
  <2>1. hand \in Items /\ hand.ver = latest[k]
    BY <1>0, <1>1, HandItem DEF VersionOrder, Fresh, Newest
  <2>2. hand = [key |-> k, ver |-> latest[k]]
    BY <1>1, <2>1, ItemEq
  <2> QED
    BY <1>1, <2>2 DEF InFlight
<1>2. CASE \E i \in 1..Len(jobChan) : jobChan[i].key = k
  <2>1. PICK i \in 1..Len(jobChan) : jobChan[i].key = k
    BY <1>2
  <2>2. jobChan[i] \in Items /\ jobChan[i].ver = latest[k]
    BY <1>0, <2>1, SeqItem DEF VersionOrder, Fresh, Newest
  <2>3. jobChan[i] = [key |-> k, ver |-> latest[k]]
    BY <2>1, <2>2, ItemEq
  <2> QED
    BY <2>3 DEF InFlight
<1>3. CASE \E w \in Workers : Busy(w) /\ job[w].key = k
  <2>1. PICK w \in Workers : Busy(w) /\ job[w].key = k
    BY <1>3
  <2>2. job[w] \in Items /\ job[w].ver = latest[k]
    BY <1>0, <2>1, BusyItem DEF VersionOrder, Fresh, Newest, Busy
  <2>3. job[w] = [key |-> k, ver |-> latest[k]]
    BY <2>1, <2>2, ItemEq
  <2> QED
    BY <2>1, <2>3 DEF InFlight
<1> QED
  BY <1>1, <1>2, <1>3 DEF Held

\* No update is lost: the newest snapshot of every key is pending, queued, in
\* flight or handled.
THEOREM NoLostUpdate == Spec => []LatestKept
<1>1. IInv => LatestKept
  <2> SUFFICES ASSUME IInv, NEW k \in Keys, latest[k] # None
               PROVE
      CASE pending[k] # None -> pending[k] = latest[k]
        [] pending[k] = None /\ k \in keyMap ->
             \E i \in 1..Len(items) : items[i] = [key |-> k, ver |-> latest[k]]
        [] pending[k] = None /\ k \notin keyMap /\ k \in processing ->
             InFlight(k, latest[k])
        [] OTHER -> handled[k] = latest[k]
    BY DEF LatestKept
  <2>1. pending[k] # None => pending[k] = latest[k]
    BY DEF IInv, VersionOrder
  <2>2. ASSUME k \in keyMap
        PROVE  \E i \in 1..Len(items) : items[i] = [key |-> k, ver |-> latest[k]]
    <3>1. PICK i \in 1..Len(items) : items[i].key = k
      BY <2>2 DEF IInv, QueueConsistent
    <3>2. items[i].ver = latest[k]
      BY <3>1 DEF IInv, VersionOrder
    <3>3. items[i] \in Items
      BY DEF IInv, TypeOK
    <3> QED
      BY <3>1, <3>2, <3>3, ItemEq
  <2>3. k \in processing /\ pending[k] = None => InFlight(k, latest[k])
    BY HeldNewest DEF IInv, Accounted
  <2>4. k \notin keyMap \cup processing => handled[k] = latest[k]
    BY DEF IInv, Accounted
  <2> QED
    BY <2>1, <2>2, <2>3, <2>4
<1> QED
  BY <1>1, Invariance, PTL

\* A handler never returns for a snapshot older than one already handled.
THEOREM HandledInOrder == Spec => NoStaleHandling
<1>1. IInv /\ [Next]_vars => [\A k \in Keys : handled[k] <= handled'[k]]_vars
  <2> SUFFICES ASSUME IInv, Next
               PROVE  \A k \in Keys : handled[k] <= handled'[k]
    OBVIOUS
  <2>0. handled \in [Keys -> 0..MaxVersion] /\ MaxVersion \in Nat
    BY MaxVersionAssumption DEF IInv, TypeOK
  <2>1. ASSUME handled' = handled
        PROVE  \A k \in Keys : handled[k] <= handled'[k]
    BY <2>0, <2>1
  <2>2. ASSUME NEW w \in Workers, HandlerReturns(w)
        PROVE  \A k \in Keys : handled[k] <= handled'[k]
    <3>1. Fresh(job[w]) /\ TypeOK /\ Busy(w)
      BY <2>2 DEF IInv, VersionOrder, HandlerReturns, Busy
    <3>2. job[w].key \in Keys /\ job[w].ver \in Nat
      BY <3>1, BusyItem DEF Versions
    <3>3. handled' = [handled EXCEPT ![job[w].key] = job[w].ver]
      BY <2>2 DEF HandlerReturns
    <3> QED
      BY <2>0, <3>1, <3>2, <3>3 DEF Fresh
  <2>3. CASE (\E k \in Keys : Enqueue(k)) \/ SetLengthGauge \/ Stop \/ LoopStep
    BY <2>1, <2>3 DEF Enqueue, SetLengthGauge, Stop, LoopStep, LoopCheck,
                      DequeueEmpty, DequeueFront, LoopSend, LoopAbandon
  <2>4. ASSUME NEW w \in Workers, WorkerReceive(w) \/ Done(w) \/ WorkerExit(w)
        PROVE  \A k \in Keys : handled[k] <= handled'[k]
    BY <2>1, <2>4 DEF WorkerReceive, Done, WorkerExit
  <2> QED
    BY <2>2, <2>3, <2>4 DEF Next, WorkerStep
<1> QED
  BY <1>1, Invariance, PTL DEF Spec, NoStaleHandling

-----------------------------------------------------------------------------
(* The gauge, the condition variable, Stop and the order of the list.      *)

\* The gauge is exact whenever kq.mu is free: every critical section that
\* changes the list or pending reports the new length.
THEOREM ExactGauge == Spec => []GaugeExact
<1> USE DEF GaugeExact
<1>1. Init => GaugeExact
  BY DEF Init
<1>2. GaugeExact /\ [Next]_vars => GaugeExact'
  <2> SUFFICES ASSUME GaugeExact, [Next]_vars PROVE GaugeExact'
    OBVIOUS
  <2>1. ASSUME ReportQueueLength PROVE GaugeExact'
    <3>1. (QueueLength(items, pending))' = QueueLength(items', pending')
      BY DEF QueueLength
    <3> QED
      BY <2>1, <3>1 DEF ReportQueueLength
  <2>2. ASSUME UNCHANGED <<items, pending, gauge>> PROVE GaugeExact'
    BY <2>2 DEF QueueLength
  <2>3. ASSUME NEW k \in Keys, Enqueue(k) PROVE GaugeExact'
    BY <2>1, <2>3 DEF Enqueue, EnqueueLocked
  <2>4. CASE SetLengthGauge
    BY <2>4 DEF SetLengthGauge, QueueLength
  <2>5. CASE DequeueFront
    BY <2>1, <2>5 DEF DequeueFront
  <2>6. ASSUME NEW w \in Workers, Done(w) PROVE GaugeExact'
    <3>1. CASE job[w].key \notin processing \/ pending[job[w].key] = None
      BY <2>2, <2>6, <3>1 DEF Done
    <3>2. CASE ~(job[w].key \notin processing \/ pending[job[w].key] = None)
      BY <2>1, <2>6, <3>2 DEF Done, EnqueueLocked
    <3> QED
      BY <3>1, <3>2
  <2>7. CASE Stop \/ LoopCheck \/ DequeueEmpty \/ LoopSend \/ LoopAbandon
    BY <2>2, <2>7 DEF Stop, LoopCheck, DequeueEmpty, LoopSend, LoopAbandon,
                      queueVars
  <2>8. ASSUME NEW w \in Workers,
               WorkerReceive(w) \/ HandlerReturns(w) \/ WorkerExit(w)
        PROVE  GaugeExact'
    BY <2>2, <2>8 DEF WorkerReceive, HandlerReturns, WorkerExit, queueVars
  <2>9. CASE UNCHANGED vars
    BY <2>2, <2>9 DEF vars, queueVars
  <2> QED
    BY <2>3, <2>4, <2>5, <2>6, <2>7, <2>8, <2>9 DEF Next, LoopStep, WorkerStep
<1> QED
  BY <1>1, <1>2, PTL DEF Spec

\* The books of the queue are right: what the three theorems on list and index,
\* on Done and on the gauge say, together.
THEOREM BooksAreRight == Spec => []BookkeepingExact
<1>1. QueueConsistent /\ DoneExpected /\ GaugeExact => BookkeepingExact
  BY DEF BookkeepingExact
<1> QED
  BY <1>1, ConsistentQueue, DoneNeverFails, ExactGauge, PTL

\* dequeueLoop never sleeps over a queued item: whoever puts one into the list
\* signals, and a sleeper was registered when the list was empty.
THEOREM NoSleepOverWork == Spec => []NoLostWakeup
<1> USE DEF NoLostWakeup
<1>1. Init => NoLostWakeup
  BY DEF Init
<1>2. NoLostWakeup /\ [Next]_vars => NoLostWakeup'
  <2> SUFFICES ASSUME NoLostWakeup, [Next]_vars PROVE NoLostWakeup'
    OBVIOUS
  <2>1. ASSUME NEW it, NEW proc, NEW pend, EnqueueLocked(it, proc, pend)
        PROVE  NoLostWakeup'
    BY <2>1 DEF EnqueueLocked, Signal
  <2>2. ASSUME NEW k \in Keys, Enqueue(k) PROVE NoLostWakeup'
    BY <2>1, <2>2 DEF Enqueue
  <2>3. ASSUME NEW w \in Workers, Done(w) PROVE NoLostWakeup'
    BY <2>1, <2>3 DEF Done
  <2>4. CASE SetLengthGauge \/ Stop \/ LoopStep
    BY <2>4 DEF SetLengthGauge, Stop, LoopStep, LoopCheck, DequeueEmpty,
                DequeueFront, LoopSend, LoopAbandon, queueVars
  <2>5. ASSUME NEW w \in Workers,
               WorkerReceive(w) \/ HandlerReturns(w) \/ WorkerExit(w)
        PROVE  NoLostWakeup'
    BY <2>5 DEF WorkerReceive, HandlerReturns, WorkerExit, queueVars
  <2>6. CASE UNCHANGED vars
    BY <2>6 DEF vars, queueVars
  <2> QED
    BY <2>2, <2>3, <2>4, <2>5, <2>6 DEF Next, WorkerStep
<1> QED
  BY <1>1, <1>2, PTL DEF Spec

\* Why Stop limits the loop: an item was taken after Stop only if the context
\* is done and the loop has not come back to the top since.
StopLimitInv ==
  /\ extra \in 0..1
  /\ extra = 1 => cancelled /\ loop \notin {"dequeue", "waiting"}

\* After Stop dequeueLoop takes at most one more item.
THEOREM AtMostOneAfterStop == Spec => []StopLimit
<1>1. Init => StopLimitInv
  BY DEF Init, StopLimitInv
<1>2. StopLimitInv /\ [Next]_vars => StopLimitInv'
  <2> SUFFICES ASSUME StopLimitInv, [Next]_vars PROVE StopLimitInv'
    OBVIOUS
  <2>1. ASSUME UNCHANGED <<extra, cancelled, loop>> PROVE StopLimitInv'
    BY <2>1 DEF StopLimitInv
  <2>2. ASSUME NEW it, NEW proc, NEW pend, EnqueueLocked(it, proc, pend),
               UNCHANGED <<extra, cancelled>>
        PROVE  StopLimitInv'
    <3>1. loop' = loop \/ loop = "waiting"
      BY <2>2 DEF EnqueueLocked, Signal
    <3> QED
      BY <2>2, <3>1 DEF StopLimitInv
  <2>3. ASSUME NEW k \in Keys, Enqueue(k) PROVE StopLimitInv'
    BY <2>2, <2>3 DEF Enqueue, poolVars
  <2>4. ASSUME NEW w \in Workers, Done(w) PROVE StopLimitInv'
    BY <2>1, <2>2, <2>4 DEF Done
  <2>5. CASE Stop
    BY <2>5 DEF Stop, StopLimitInv
  <2>6. CASE LoopStep
    BY <2>6 DEF LoopStep, LoopCheck, DequeueEmpty, DequeueFront, LoopSend,
                LoopAbandon, poolVars, StopLimitInv
  <2>7. CASE SetLengthGauge
    BY <2>1, <2>7 DEF SetLengthGauge, poolVars
  <2>8. ASSUME NEW w \in Workers,
               WorkerReceive(w) \/ HandlerReturns(w) \/ WorkerExit(w)
        PROVE  StopLimitInv'
    BY <2>1, <2>8 DEF WorkerReceive, HandlerReturns, WorkerExit
  <2>9. CASE UNCHANGED vars
    BY <2>1, <2>9 DEF vars, poolVars
  <2> QED
    BY <2>3, <2>4, <2>5, <2>6, <2>7, <2>8, <2>9 DEF Next, WorkerStep
<1>3. StopLimitInv => StopLimit
  BY DEF StopLimitInv, StopLimit
<1> QED
  BY <1>1, <1>2, <1>3, PTL DEF Spec

\* A queued application only moves towards the front.
THEOREM KeepsItsPlace == Spec => NeverOvertaken
<1> DEFINE Ordered == \A i \in 1..Len(items), j \in 1..Len(items') :
                         items[i].key = items'[j].key => j <= i
<1>1. IInv /\ [Next]_vars => [Ordered]_vars
  <2> SUFFICES ASSUME IInv, Next PROVE Ordered
    OBVIOUS
  <2>0. /\ TypeOK /\ QueueConsistent /\ InFlightExclusive
        /\ items \in Seq(Items) /\ Len(items) \in Nat
        /\ Keyed(items, keyMap)
    <3>1. TypeOK /\ QueueConsistent /\ InFlightExclusive
      BY DEF IInv
    <3>2. items \in Seq(Items) /\ Len(items) \in Nat
      BY <3>1 DEF TypeOK
    <3>3. Keyed(items, keyMap)
      BY <3>1 DEF QueueConsistent, Keyed
    <3> QED
      BY <3>1, <3>2, <3>3
  <2>1. ASSUME items' = items PROVE Ordered
    BY <2>0, <2>1 DEF Keyed
  <2>2. ASSUME NEW it \in Items, NEW proc, NEW pend,
               EnqueueLocked(it, proc, pend)
        PROVE  Ordered
    <3>1. CASE it.key \in proc
      BY <2>1, <2>2, <3>1 DEF EnqueueLocked
    <3>2. CASE it.key \notin proc
      <4> SUFFICES ASSUME NEW i \in 1..Len(items), NEW j \in 1..Len(items'),
                          items[i].key = items'[j].key
                   PROVE  j <= i
        OBVIOUS
      <4>1. items' = PutItem(items, keyMap, it)
        BY <2>2, <3>2 DEF EnqueueLocked
      <4>2. CASE items'[j] # it
        <5>1. j \in 1..Len(items) /\ items'[j] = items[j]
          BY <2>0, <4>1, <4>2, PutItemElement
        <5> QED
          BY <2>0, <5>1 DEF Keyed
      <4>3. CASE items'[j] = it
        <5> DEFINE p == Position(items, it.key)
        <5>1. it.key \in keyMap /\ items[i].key = it.key
          BY <2>0, <4>3 DEF Keyed
        <5>2. p \in 1..Len(items) /\ items[p].key = it.key
          BY <5>1 DEF Position
        <5>3. p = i
          BY <2>0, <5>1, <5>2 DEF Keyed
        <5>4. items' = [items EXCEPT ![i] = it]
          BY <4>1, <5>1, <5>3 DEF PutItem
        <5> HIDE DEF p
        <5>5. j \in 1..Len(items)
          BY <2>0, <5>4, ExceptSeq
        <5>6. items[j].key = it.key
          <6>1. CASE j = i
            BY <5>1, <6>1
          <6>2. CASE j # i
            <7>1. items'[j] = items[j]
              BY <2>0, <5>4, <5>5, <6>2
            <7> QED
              BY <4>3, <7>1
          <6> QED
            BY <6>1, <6>2
        <5> QED
          BY <2>0, <5>1, <5>5, <5>6 DEF Keyed
      <4> QED
        BY <4>2, <4>3
    <3> QED
      BY <3>1, <3>2
  <2>3. ASSUME NEW k \in Keys, Enqueue(k) PROVE Ordered
    <3> DEFINE it == [key |-> k, ver |-> latest[k] + 1]
    <3>1. it \in Items
      BY <2>0, <2>3, MaxVersionAssumption DEF TypeOK, Enqueue, Items, Versions
    <3>2. EnqueueLocked(it, processing, pending)
      BY <2>3 DEF Enqueue
    <3> QED
      BY <2>2, <3>1, <3>2
  <2>4. ASSUME NEW w \in Workers, Done(w) PROVE Ordered
    <3> DEFINE k == job[w].key
               it == [key |-> k, ver |-> pending[k]]
    <3>1. /\ k \in Keys
          /\ \/ UNCHANGED items
             \/ /\ pending[k] \in Versions
                /\ EnqueueLocked(it, processing \ {k}, [pending EXCEPT ![k] = None])
      BY <2>0, <2>4, DoneFacts
    <3>2. CASE UNCHANGED items
      BY <2>1, <3>2
    <3>3. CASE /\ pending[k] \in Versions
               /\ EnqueueLocked(it, processing \ {k}, [pending EXCEPT ![k] = None])
      <4>1. it \in Items
        BY <3>1, <3>3 DEF Items
      <4> QED
        BY <2>2, <3>3, <4>1
    <3> QED
      BY <3>1, <3>2, <3>3
  <2>5. CASE DequeueFront
    <3> SUFFICES ASSUME NEW i \in 1..Len(items), NEW j \in 1..Len(items'),
                        items[i].key = items'[j].key
                 PROVE  j <= i
      OBVIOUS
    <3>1. j + 1 \in 1..Len(items) /\ items'[j] = items[j + 1]
      BY <2>0, <2>5 DEF DequeueFront
    <3>2. i = j + 1
      BY <2>0, <3>1 DEF Keyed
    <3> QED
      BY <2>0, <3>1, <3>2
  <2>6. CASE SetLengthGauge
    BY <2>1, <2>6 DEF SetLengthGauge
  <2>7. CASE Stop \/ LoopCheck \/ DequeueEmpty \/ LoopSend \/ LoopAbandon
    BY <2>1, <2>7 DEF Stop, LoopCheck, DequeueEmpty, LoopSend, LoopAbandon,
                      queueVars
  <2>8. ASSUME NEW w \in Workers,
               WorkerReceive(w) \/ HandlerReturns(w) \/ WorkerExit(w)
        PROVE  Ordered
    BY <2>1, <2>8 DEF WorkerReceive, HandlerReturns, WorkerExit, queueVars
  <2> HIDE DEF Ordered
  <2> QED
    BY <2>3, <2>4, <2>5, <2>6, <2>7, <2>8 DEF Next, LoopStep, WorkerStep
<1> QED
  BY <1>1, Invariance, PTL DEF Spec, NeverOvertaken
=============================================================================
