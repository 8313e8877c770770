------------------------- MODULE EventHandlerProofs -------------------------
(***************************************************************************)
(* Proofs about module EventHandler, for every set of applications and     *)
(* every bound: type correctness, the order of the objects on the way from *)
(* the API server to the worker, and the limit on late events.             *)
(***************************************************************************)
EXTENDS EventHandler, TLAPS, SequenceTheorems

-----------------------------------------------------------------------------
(* The inductive invariant.                                                *)

\* What is under way from the API server: an object of the newest version is
\* the newest object, so that a list shows a difference to the informer's copy
\* only when it has a newer version.
WatchIsNewest ==
  \A a \in Apps :
    /\ store[a].version <= object[a].version
    /\ store[a].version = object[a].version => store[a] = object[a]
    /\ \A i \in DOMAIN watch[a] :
         watch[a][i].version = object[a].version => watch[a][i] = object[a]

\* An application that is there has a version.
ExistsFromOne ==
  \A a \in Apps :
    /\ object[a].kind # "deleted" => object[a].version > 0
    /\ store[a].kind # "deleted" => store[a].version > 0
    /\ \A i \in DOMAIN watch[a] : watch[a][i].version > 0

\* The queue is never ahead of the informer's copy.
QueueBehindStore ==
  \A a \in Apps : Reached(a) <= store[a].version

\* Before the registration nothing has gone to the broadcaster or the queue.
NothingBeforeRegister ==
  /\ registered <=> ctl # "new"
  /\ ctl = "new" => /\ notifying = {}
                    /\ \A a \in Apps : /\ listener[a] = <<>>
                                       /\ slot[a] = None
                                       /\ handled[a] = 0

\* No event is late before unsubscribe; afterwards nobody is subscribed, and a
\* notification that has a copy of the subscribers is the only one to come.
LateCount ==
  /\ ctl \notin {"unsubscribed", "stopped"} => late = 0
  /\ ctl \in {"unsubscribed", "stopped"} =>
       /\ ~subscribed
       /\ (\E n \in notifying : n.subscribed) => late = 0
       /\ late <= 1

Ordered ==
  /\ TypeOK
  /\ InOrder
  /\ WatchIsNewest
  /\ ExistsFromOne
  /\ QueueBehindStore
  /\ NothingBeforeRegister

IInv == Ordered /\ LateCount

-----------------------------------------------------------------------------
(* Lemmas about sequences of increasing versions.                          *)

\* An object that is newer than everything in an increasing sequence can be
\* appended to it.
LEMMA AscendingAppend ==
  ASSUME NEW s \in Seq(Objects), NEW lo \in Nat, NEW hi \in Nat,
         NEW o \in Objects,
         Ascending(s, lo, hi), lo <= hi, hi < o.version
  PROVE  Ascending(Append(s, o), lo, o.version)
<1> DEFINE t == Append(s, o)
<1>1. /\ t \in Seq(Objects) /\ Len(t) = Len(s) + 1 /\ Len(s) \in Nat
      /\ DOMAIN s = 1 .. Len(s) /\ DOMAIN t = 1 .. Len(t)
      /\ \A i \in 1 .. Len(s) : t[i] = s[i] /\ s[i] \in Objects
      /\ t[Len(s) + 1] = o
  BY AppendProperties, LenProperties, ElementOfSeq
<1> HIDE DEF t
<1>2. \A x \in Objects : x.version \in Nat
  BY BoundsAssumption DEF Objects
<1>3. \A i \in DOMAIN s : lo < s[i].version /\ s[i].version <= hi
  BY DEF Ascending
<1>4. \A i, j \in DOMAIN s : i < j => s[i].version < s[j].version
  BY DEF Ascending
<1>5. ASSUME NEW i \in DOMAIN t
      PROVE  lo < t[i].version /\ t[i].version <= o.version
  <2>1. CASE i = Len(s) + 1
    BY <1>1, <1>2, <2>1
  <2>2. CASE i \in 1 .. Len(s)
    BY <1>1, <1>2, <1>3, <2>2
  <2> QED
    BY <1>1, <1>5, <2>1, <2>2
<1>6. ASSUME NEW i \in DOMAIN t, NEW j \in DOMAIN t, i < j
      PROVE  t[i].version < t[j].version
  <2>1. i \in 1 .. Len(s)
    BY <1>1, <1>6
  <2>2. CASE j = Len(s) + 1
    BY <1>1, <1>2, <1>3, <2>1, <2>2
  <2>3. CASE j \in 1 .. Len(s)
    BY <1>1, <1>4, <1>6, <2>1, <2>3
  <2> QED
    BY <1>1, <1>6, <2>2, <2>3
<1>7. Ascending(t, lo, o.version)
  BY <1>5, <1>6 DEF Ascending
<1> QED
  BY <1>7 DEF t

\* The first object of an increasing sequence lies within its limits, and what
\* follows is newer.
LEMMA AscendingTail ==
  ASSUME NEW s \in Seq(Objects), NEW lo \in Nat, NEW hi \in Nat,
         Ascending(s, lo, hi), s # <<>>
  PROVE  /\ Head(s) \in Objects
         /\ lo < Head(s).version /\ Head(s).version <= hi
         /\ Tail(s) \in Seq(Objects)
         /\ Ascending(Tail(s), Head(s).version, hi)
<1> DEFINE t == Tail(s)
<1>1. /\ t \in Seq(Objects) /\ Len(t) = Len(s) - 1 /\ Len(s) \in Nat /\ Len(s) > 0
      /\ DOMAIN s = 1 .. Len(s) /\ DOMAIN t = 1 .. Len(t)
      /\ \A i \in 1 .. Len(t) : t[i] = s[i + 1]
      /\ \A i \in 1 .. Len(s) : s[i] \in Objects
      /\ Head(s) = s[1]
  BY HeadTailProperties, LenProperties, ElementOfSeq, EmptySeq
<1> HIDE DEF t
<1>2. \A x \in Objects : x.version \in Nat
  BY BoundsAssumption DEF Objects
<1>3. \A i \in DOMAIN s : lo < s[i].version /\ s[i].version <= hi
  BY DEF Ascending
<1>4. \A i, j \in DOMAIN s : i < j => s[i].version < s[j].version
  BY DEF Ascending
<1>5. 1 \in DOMAIN s /\ \A i \in DOMAIN t : i + 1 \in DOMAIN s /\ 1 < i + 1
  BY <1>1
<1>6. ASSUME NEW i \in DOMAIN t
      PROVE  Head(s).version < t[i].version /\ t[i].version <= hi
  BY <1>1, <1>3, <1>4, <1>5, <1>6
<1>7. ASSUME NEW i \in DOMAIN t, NEW j \in DOMAIN t, i < j
      PROVE  t[i].version < t[j].version
  <2>1. i + 1 \in DOMAIN s /\ j + 1 \in DOMAIN s /\ i + 1 < j + 1
    BY <1>1, <1>7
  <2>2. t[i] = s[i + 1] /\ t[j] = s[j + 1]
    BY <1>1, <1>7
  <2> QED
    BY <1>4, <2>1, <2>2
<1>8. Ascending(t, Head(s).version, hi)
  BY <1>6, <1>7 DEF Ascending
<1> QED
  BY <1>1, <1>3, <1>5, <1>8 DEF t

\* The limits of an increasing sequence may be widened.
LEMMA AscendingWiden ==
  ASSUME NEW s \in Seq(Objects), NEW lo \in Nat, NEW hi \in Nat,
         NEW lo2 \in Nat, NEW hi2 \in Nat,
         Ascending(s, lo, hi), lo2 <= lo, hi <= hi2
  PROVE  Ascending(s, lo2, hi2)
<1>1. \A i \in DOMAIN s : s[i] \in Objects
  BY LenProperties, ElementOfSeq
<1>2. \A x \in Objects : x.version \in Nat
  BY BoundsAssumption DEF Objects
<1> QED
  BY <1>1, <1>2 DEF Ascending

\* No object and one object are sequences.
LEMMA ShortSeq ==
  /\ <<>> \in Seq(Objects) /\ DOMAIN <<>> = {}
  /\ \A o \in Objects : <<o>> \in Seq(Objects)
<1>1. <<>> \in Seq(Objects) /\ DOMAIN <<>> = {}
  OBVIOUS
<1>2. ASSUME NEW o \in Objects
      PROVE  <<o>> \in Seq(Objects)
  OBVIOUS
<1> QED
  BY <1>1, <1>2

\* A sequence of one object within the limits, and an empty one.
LEMMA AscendingShort ==
  ASSUME NEW lo \in Nat, NEW hi \in Nat, NEW o \in Objects
  PROVE  /\ <<>> \in Seq(Objects) /\ Ascending(<<>>, lo, hi)
         /\ lo < o.version /\ o.version <= hi =>
              <<o>> \in Seq(Objects) /\ Ascending(<<o>>, lo, hi)
BY DEF Ascending

-----------------------------------------------------------------------------
(* The initial states.                                                     *)

\* With the informer not yet listing and nobody registered, the invariant
\* holds.
LEMMA InitIInv ==
  ASSUME Init
  PROVE  IInv
<1> USE BoundsAssumption DEF Init
<1>1. TypeOK
  <2>1. None \in Objects /\ [version : {1}, kind : {"paths", "plain"}] \subseteq Objects
    BY DEF None, Objects, Kinds
  <2>2. object \in [Apps -> Objects]
    BY <2>1
  <2> QED
    <3>1. watch \in [Apps -> Seq(Objects)] /\ listener \in [Apps -> Seq(Objects)]
      BY ShortSeq
    <3>2. store \in [Apps -> Objects] /\ slot \in [Apps -> Objects]
      BY <2>1
    <3>3. /\ handled \in [Apps -> 0 .. MaxVersion] /\ early \in [Apps -> 0 .. MaxVersion]
          /\ late \in Nat /\ relists \in 0 .. MaxRelists
      OBVIOUS
    <3>4. \A a \in Apps : slot[a] = None
      OBVIOUS
    <3> QED
      BY <2>2, <3>1, <3>2, <3>3, <3>4 DEF TypeOK, CtlStates
<1>2. InOrder
  <2>1. \A a \in Apps : DOMAIN watch[a] = {} /\ DOMAIN listener[a] = {}
    BY ShortSeq
  <2> QED
    BY <2>1 DEF InOrder, Ascending
<1>3. WatchIsNewest /\ ExistsFromOne
  BY DEF WatchIsNewest, ExistsFromOne, None
<1>4. NothingBeforeRegister /\ LateCount /\ QueueBehindStore
  BY DEF NothingBeforeRegister, LateCount, QueueBehindStore, Reached, None
<1> QED
  BY <1>1, <1>2, <1>3, <1>4 DEF IInv, Ordered

-----------------------------------------------------------------------------
(* Type correctness.                                                       *)

\* A list shows no or one object per application.
LEMMA DifferenceType ==
  ASSUME TypeOK
  PROVE  Difference \in [Apps -> Seq(Objects)]
<1>1. \A a \in Apps : object[a] \in Objects
  BY DEF TypeOK
<1>2. \A a \in Apps : <<>> \in Seq(Objects) /\ <<object[a]>> \in Seq(Objects)
  BY <1>1, ShortSeq
<1> QED
  BY <1>2, Zenon DEF Difference

\* Every step keeps the types: a version counts up to its bound, notify runs
\* for one event at a time, and what is put into the queue has passed the
\* filter.
LEMMA TypeStep ==
  ASSUME TypeOK, [Next]_vars
  PROVE  TypeOK'
<1>1. ASSUME NEW a \in Apps, Change(a)
      PROVE  TypeOK'
  <2>1. PICK k \in Kinds :
          object' = [object EXCEPT ![a] = [version |-> @.version + 1, kind |-> k]]
    BY <1>1 DEF Change
  <2>2. [version |-> object[a].version + 1, kind |-> k] \in Objects
    BY <1>1, BoundsAssumption DEF Change, TypeOK, Objects
  <2>3. object' \in [Apps -> Objects] /\ object'[a] \in Objects
    BY <2>1, <2>2 DEF TypeOK
  <2>4. Append(watch[a], object'[a]) \in Seq(Objects)
    BY <2>3, AppendProperties DEF TypeOK
  <2>5. watch' \in [Apps -> Seq(Objects)]
    BY <1>1, <2>4 DEF Change, TypeOK
  <2> QED
    BY <1>1, <2>3, <2>5 DEF Change, TypeOK, broadcaster, queue, Matches
<1>2. ASSUME NEW a \in Apps, Handle(a)
      PROVE  TypeOK'
  <2>1. None \in Objects /\ slot[a].version \in 0 .. MaxVersion
    BY BoundsAssumption DEF None, Objects, Kinds, TypeOK
  <2>2. slot' \in [Apps -> Objects] /\ handled' \in [Apps -> 0 .. MaxVersion]
    BY <1>2, <2>1 DEF Handle, TypeOK
  <2>3. \A b \in Apps : slot'[b] = None \/ Matches(slot'[b])
    BY <1>2 DEF Handle, TypeOK
  <2> QED
    BY <1>2, <2>2, <2>3 DEF Handle, TypeOK, cache, broadcaster, Matches
<1>3. CASE Relist
  <2>1. watch' \in [Apps -> Seq(Objects)]
    BY <1>3, DifferenceType DEF Relist
  <2> QED
    BY <1>3, <2>1, BoundsAssumption DEF Relist, TypeOK, broadcaster, queue, Matches
<1>4. CASE Cancel
  BY <1>4 DEF Cancel, TypeOK, cache, broadcaster, queue, Matches
<1>5. CASE List
  <2>1. watch' \in [Apps -> Seq(Objects)]
    BY <1>5, DifferenceType DEF List
  <2> QED
    BY <1>5, <2>1 DEF List, TypeOK, broadcaster, queue, Matches
<1>6. CASE StopInformer
  BY <1>6 DEF StopInformer, TypeOK, queue, Matches
<1>7. ASSUME NEW a \in Apps, Apply(a)
      PROVE  TypeOK'
  <2>1. /\ Head(watch[a]) \in Objects
        /\ Tail(watch[a]) \in Seq(Objects)
    BY <1>7, HeadTailProperties DEF Apply, TypeOK
  <2>2. Append(listener[a], Head(watch[a])) \in Seq(Objects)
    BY <2>1, AppendProperties DEF TypeOK
  <2>3. /\ store' \in [Apps -> Objects]
        /\ watch' \in [Apps -> Seq(Objects)]
    BY <1>7, <2>1 DEF Apply, TypeOK
  <2>4. listener' \in [Apps -> Seq(Objects)]
    BY <1>7, <2>2 DEF Apply, TypeOK
  <2> QED
    BY <1>7, <2>3, <2>4 DEF Apply, TypeOK, queue, Matches
<1>8. CASE Register
  <2>1. \A a \in Apps : store[a] \in Objects
    BY DEF TypeOK
  <2>2. \A a \in Apps : <<>> \in Seq(Objects) /\ <<store[a]>> \in Seq(Objects)
    BY <2>1, ShortSeq
  <2>3. listener' \in [Apps -> Seq(Objects)]
    BY <1>8, <2>2 DEF Register
  <2> QED
    BY <1>8, <2>3 DEF Register, TypeOK, CtlStates, cache, queue, Matches
<1>9. CASE Subscribe
  BY <1>9 DEF Subscribe, TypeOK, CtlStates, cache, queue, Matches
<1>10. CASE StartPool
  BY <1>10 DEF StartPool, TypeOK, CtlStates, cache, broadcaster, queue, Matches
<1>11. CASE Unsubscribe
  BY <1>11 DEF Unsubscribe, TypeOK, CtlStates, cache, queue, Matches
<1>12. CASE StopPool
  BY <1>12 DEF StopPool, TypeOK, CtlStates, cache, broadcaster, queue, Matches
<1>13. CASE CallSubscribers
  <2>1. PICK n \in notifying :
          /\ notifying' = notifying \ {n}
          /\ IF n.subscribed /\ Matches(n.object)
             THEN /\ slot' = [slot EXCEPT ![n.app] = n.object]
                  /\ late' = IF ctl \in {"unsubscribed", "stopped"}
                             THEN late + 1 ELSE late
             ELSE UNCHANGED <<slot, late>>
          /\ early' = IF n.subscribed THEN early
                      ELSE [early EXCEPT ![n.app] = n.object.version]
    BY <1>13 DEF CallSubscribers
  <2>2. /\ n.app \in Apps
        /\ n.object \in Objects
        /\ n.object.version \in 0 .. MaxVersion
    BY DEF TypeOK, Objects
  <2>3. /\ slot' \in [Apps -> Objects]
        /\ late' \in Nat
        /\ early' \in [Apps -> 0 .. MaxVersion]
    <3>1. /\ slot \in [Apps -> Objects]
          /\ late \in Nat
          /\ early \in [Apps -> 0 .. MaxVersion]
      BY DEF TypeOK
    <3>2. slot' \in [Apps -> Objects]
      BY <2>1, <2>2, <3>1
    <3>3. late' \in Nat
      BY <2>1, <3>1
    <3>4. early' \in [Apps -> 0 .. MaxVersion]
      BY <2>1, <2>2, <3>1
    <3> QED
      BY <3>2, <3>3, <3>4
  <2>4. \A a \in Apps : slot'[a] = None \/ Matches(slot'[a])
    BY <2>1, <2>2 DEF TypeOK
  <2>5. /\ notifying' \subseteq [app : Apps, object : Objects, subscribed : BOOLEAN]
        /\ \A m, k \in notifying' : m = k
    BY <2>1 DEF TypeOK
  <2> QED
    BY <1>13, <2>3, <2>4, <2>5 DEF CallSubscribers, TypeOK, cache, Matches
<1>14. ASSUME NEW a \in Apps, Notify(a)
       PROVE  TypeOK'
  <2>1. /\ Head(listener[a]) \in Objects
        /\ Tail(listener[a]) \in Seq(Objects)
    BY <1>14, HeadTailProperties DEF Notify, TypeOK
  <2>2. /\ listener' \in [Apps -> Seq(Objects)]
        /\ notifying' \subseteq [app : Apps, object : Objects, subscribed : BOOLEAN]
        /\ \A m, k \in notifying' : m = k
    BY <1>14, <2>1 DEF Notify, TypeOK
  <2> QED
    BY <1>14, <2>2 DEF Notify, TypeOK, cache, queue, Matches
<1>15. CASE UNCHANGED vars
  BY <1>15 DEF vars, cache, broadcaster, queue, TypeOK, Matches
<1> QED
  BY <1>1, <1>2, <1>3, <1>4, <1>5, <1>6, <1>7, <1>8, <1>9, <1>10, <1>11, <1>12,
     <1>13, <1>14, <1>15 DEF Next, Informer, Controller, Broadcaster

-----------------------------------------------------------------------------
(* The order of the objects.                                               *)

\* What the proofs below use of the types.
LEMMA Versions ==
  ASSUME TypeOK
  PROVE  /\ \A x \in Objects : x.version \in Nat
         /\ \A a \in Apps : /\ object[a] \in Objects /\ store[a] \in Objects
                            /\ object[a].version \in Nat /\ store[a].version \in Nat
                            /\ handled[a] \in Nat /\ Reached(a) \in Nat
                            /\ watch[a] \in Seq(Objects)
                            /\ listener[a] \in Seq(Objects)
                            /\ \A i \in DOMAIN watch[a] : watch[a][i] \in Objects
                            /\ \A i \in DOMAIN listener[a] : listener[a][i] \in Objects
         /\ \A n \in notifying : n.app \in Apps /\ n.object \in Objects
<1>1. \A x \in Objects : x.version \in Nat
  BY BoundsAssumption DEF Objects
<1>2. ASSUME NEW a \in Apps
      PROVE  /\ object[a] \in Objects /\ store[a] \in Objects /\ slot[a] \in Objects
             /\ handled[a] \in Nat
             /\ watch[a] \in Seq(Objects)
             /\ listener[a] \in Seq(Objects)
  BY BoundsAssumption DEF TypeOK
<1>3. \A a \in Apps : Reached(a) \in Nat
  BY <1>1, <1>2 DEF Reached
<1>4. \A s \in Seq(Objects) : \A i \in DOMAIN s : s[i] \in Objects
  BY LenProperties, ElementOfSeq
<1>5. \A n \in notifying : n.app \in Apps /\ n.object \in Objects
  BY DEF TypeOK
<1> QED
  BY <1>1, <1>2, <1>3, <1>4, <1>5

\* A list shows an object of an application only if it is newer than the
\* informer's copy.
LEMMA DifferenceIsNewer ==
  ASSUME Ordered, NEW a \in Apps
  PROVE  \/ Difference[a] = <<>>
         \/ /\ Difference[a] = <<object[a]>>
            /\ store[a].version < object[a].version
<1>1. CASE object[a] = store[a] \/ (object[a].kind = "deleted" /\ store[a].kind = "deleted")
  BY <1>1 DEF Difference
<1>2. CASE ~(object[a] = store[a] \/ (object[a].kind = "deleted" /\ store[a].kind = "deleted"))
  <2>1. Difference[a] = <<object[a]>>
    BY <1>2 DEF Difference
  <2>2. store[a].version < object[a].version
    BY <1>2, Versions DEF Ordered, WatchIsNewest
  <2> QED
    BY <2>1, <2>2
<1> QED
  BY <1>1, <1>2

\* A list, the first one or the one after a broken watch, keeps the order: it
\* replaces what was under way by at most the newest object, and only if that
\* is newer than the informer's copy.
LEMMA ListOrdered ==
  ASSUME Ordered, TypeOK', watch' = Difference,
         UNCHANGED <<object, store, broadcaster, ctl, queue>>
  PROVE  Ordered'
<1>1. ASSUME NEW a \in Apps
      PROVE  /\ Ascending(Difference[a], store[a].version, object[a].version)
             /\ \A i \in DOMAIN Difference[a] : /\ Difference[a][i] = object[a]
                                                /\ Difference[a][i].version > 0
  <2>1. CASE Difference[a] = <<>>
    BY <2>1, Versions, AscendingShort, ShortSeq DEF Ordered
  <2>2. CASE /\ Difference[a] = <<object[a]>>
             /\ store[a].version < object[a].version
    <3>1. Ascending(<<object[a]>>, store[a].version, object[a].version)
      BY <2>2, Versions, AscendingShort DEF Ordered
    <3>2. \A i \in DOMAIN <<object[a]>> : <<object[a]>>[i] = object[a]
      OBVIOUS
    <3> QED
      BY <2>2, <3>1, <3>2, Versions DEF Ordered
  <2> QED
    BY <2>1, <2>2, DifferenceIsNewer
<1>2. InOrder'
  BY <1>1 DEF Ordered, InOrder, Reached, broadcaster, queue
<1>3. WatchIsNewest' /\ ExistsFromOne'
  BY <1>1 DEF Ordered, WatchIsNewest, ExistsFromOne
<1>4. QueueBehindStore' /\ NothingBeforeRegister'
  BY DEF Ordered, QueueBehindStore, NothingBeforeRegister, Reached, broadcaster, queue
<1> QED
  BY <1>2, <1>3, <1>4 DEF Ordered

\* A change on the API server is newer than all that is under way.
LEMMA ChangeOrdered ==
  ASSUME Ordered, TypeOK', NEW a \in Apps, Change(a)
  PROVE  Ordered'
<1>1. /\ UNCHANGED <<store, listener, notifying, slot, handled, registered, ctl>>
      /\ object'[a].version = object[a].version + 1
      /\ object'[a] \in Objects
      /\ \A b \in Apps \ {a} : object'[b] = object[b] /\ watch'[b] = watch[b]
  BY Versions DEF Ordered, Change, broadcaster, queue, TypeOK
<1>2. watch'[a] = watch[a] \/ watch'[a] = Append(watch[a], object'[a])
  BY DEF Ordered, Change, TypeOK
<1>3. /\ object[a].version \in Nat /\ object'[a].version \in Nat
      /\ store[a].version \in Nat
      /\ object[a].version < object'[a].version
      /\ store[a].version <= object[a].version
      /\ watch[a] \in Seq(Objects)
      /\ Ascending(watch[a], store[a].version, object[a].version)
      /\ \A i \in DOMAIN watch[a] : watch[a][i].version \in Nat
  BY <1>1, Versions DEF Ordered, WatchIsNewest, InOrder
<1>4. Ascending(watch'[a], store[a].version, object'[a].version)
  <2>1. CASE watch'[a] = watch[a]
    BY <1>3, <2>1, AscendingWiden
  <2>2. CASE watch'[a] = Append(watch[a], object'[a])
    BY <1>1, <1>3, <2>2, AscendingAppend
  <2> QED
    BY <1>2, <2>1, <2>2
<1>5. \A i \in DOMAIN watch'[a] :
        \/ watch'[a][i] = object'[a]
        \/ i \in DOMAIN watch[a] /\ watch'[a][i] = watch[a][i]
  <2>1. CASE watch'[a] = watch[a]
    BY <2>1
  <2>2. CASE watch'[a] = Append(watch[a], object'[a])
    BY <1>1, <1>3, <2>2, AppendProperties, LenProperties
  <2> QED
    BY <1>2, <2>1, <2>2
<1>6. InOrder'
  BY <1>1, <1>4 DEF Ordered, InOrder, Reached
<1>7. WatchIsNewest'
  <2>1. \A i \in DOMAIN watch[a] : watch[a][i].version <= object[a].version
    BY <1>3 DEF Ascending
  <2>2. /\ store[a].version < object'[a].version
        /\ \A i \in DOMAIN watch'[a] :
             watch'[a][i].version = object'[a].version => watch'[a][i] = object'[a]
    BY <1>3, <1>5, <2>1
  <2>3. \A b \in Apps \ {a} :
          /\ store'[b] = store[b] /\ object'[b] = object[b] /\ watch'[b] = watch[b]
    BY <1>1
  <2> SUFFICES ASSUME NEW b \in Apps
               PROVE  /\ store'[b].version <= object'[b].version
                      /\ store'[b].version = object'[b].version => store'[b] = object'[b]
                      /\ \A i \in DOMAIN watch'[b] :
                           watch'[b][i].version = object'[b].version => watch'[b][i] = object'[b]
    BY DEF WatchIsNewest
  <2>4. CASE b = a
    BY <1>1, <1>3, <2>2, <2>4
  <2>5. CASE b # a
    BY <2>3, <2>5 DEF Ordered, WatchIsNewest
  <2> QED
    BY <2>4, <2>5
<1>8. ExistsFromOne'
  BY <1>1, <1>3, <1>5 DEF Ordered, ExistsFromOne
<1>9. QueueBehindStore' /\ NothingBeforeRegister'
  BY <1>1 DEF Ordered, QueueBehindStore, NothingBeforeRegister, Reached
<1> QED
  BY <1>6, <1>7, <1>8, <1>9 DEF Ordered

\* What the informer applies is newer than its copy and than everything it has
\* passed on before.
LEMMA ApplyOrdered ==
  ASSUME Ordered, TypeOK', NEW a \in Apps, Apply(a)
  PROVE  Ordered'
<1> DEFINE o == Head(watch[a])
<1>1. /\ UNCHANGED <<object, notifying, slot, handled, registered, ctl>>
      /\ store'[a] = o /\ watch'[a] = Tail(watch[a]) /\ watch[a] # <<>>
      /\ \A b \in Apps \ {a} : /\ store'[b] = store[b] /\ watch'[b] = watch[b]
                               /\ listener'[b] = listener[b]
      /\ \/ registered /\ listener'[a] = Append(listener[a], o)
         \/ ~registered /\ listener'[a] = listener[a]
  BY DEF Ordered, Apply, queue, TypeOK
<1>2. /\ object[a].version \in Nat /\ store[a].version \in Nat /\ Reached(a) \in Nat
      /\ watch[a] \in Seq(Objects) /\ listener[a] \in Seq(Objects)
      /\ Ascending(watch[a], store[a].version, object[a].version)
      /\ Ascending(listener[a], Reached(a), store[a].version)
      /\ Reached(a) <= store[a].version
  BY Versions DEF Ordered, InOrder, QueueBehindStore
<1>3. /\ o \in Objects /\ o.version \in Nat
      /\ store[a].version < o.version /\ o.version <= object[a].version
      /\ Ascending(Tail(watch[a]), o.version, object[a].version)
  BY <1>1, <1>2, AscendingTail, Versions DEF Ordered
<1>4. /\ Len(watch[a]) \in Nat /\ DOMAIN watch[a] = 1 .. Len(watch[a])
      /\ Len(watch[a]) > 0 /\ o = watch[a][1]
      /\ Tail(watch[a]) \in Seq(Objects)
      /\ Len(Tail(watch[a])) = Len(watch[a]) - 1
      /\ DOMAIN Tail(watch[a]) = 1 .. Len(Tail(watch[a]))
      /\ \A i \in 1 .. Len(Tail(watch[a])) : Tail(watch[a])[i] = watch[a][i + 1]
  BY <1>1, <1>2, HeadTailProperties, LenProperties, EmptySeq
<1> HIDE DEF o
<1>5. \A i \in DOMAIN watch'[a] : \E j \in DOMAIN watch[a] : watch'[a][i] = watch[a][j]
  <2>1. \A i \in DOMAIN watch'[a] : i + 1 \in DOMAIN watch[a] /\ watch'[a][i] = watch[a][i + 1]
    BY <1>1, <1>4
  <2> QED
    BY <2>1
<1>6. 1 \in DOMAIN watch[a]
  BY <1>4
<1>7. \A b \in Apps : Reached(b)' = Reached(b)
  BY <1>1 DEF Reached
<1>8. Ascending(listener'[a], Reached(a), o.version)
  <2>1. CASE listener'[a] = Append(listener[a], o)
    BY <1>2, <1>3, <2>1, AscendingAppend
  <2>2. CASE listener'[a] = listener[a]
    BY <1>2, <1>3, <2>2, AscendingWiden
  <2> QED
    BY <1>1, <2>1, <2>2
<1>9. ASSUME NEW n \in notifying, n.app = a
      PROVE  /\ Reached(a) < n.object.version
             /\ n.object.version <= o.version
             /\ \A i \in DOMAIN listener'[a] : n.object.version < listener'[a][i].version
  <2>1. /\ Reached(a) < n.object.version
        /\ n.object.version <= store[a].version
        /\ \A i \in DOMAIN listener[a] : n.object.version < listener[a][i].version
        /\ n.object.version \in Nat
    BY <1>9, Versions DEF Ordered, InOrder
  <2>2. \A i \in DOMAIN listener'[a] :
          \/ listener'[a][i] = o
          \/ i \in DOMAIN listener[a] /\ listener'[a][i] = listener[a][i]
    <3>1. CASE listener'[a] = Append(listener[a], o)
      BY <1>2, <1>3, <3>1, AppendProperties, LenProperties
    <3>2. CASE listener'[a] = listener[a]
      BY <3>2
    <3> QED
      BY <1>1, <3>1, <3>2
  <2> QED
    BY <1>2, <1>3, <2>1, <2>2
<1>10. InOrder'
  <2> SUFFICES ASSUME NEW b \in Apps
               PROVE  /\ Ascending(watch'[b], store'[b].version, object'[b].version)
                      /\ Ascending(listener'[b], Reached(b)', store'[b].version)
                      /\ \A n \in notifying' : n.app = b =>
                           /\ Reached(b)' < n.object.version
                           /\ n.object.version <= store'[b].version
                           /\ \A i \in DOMAIN listener'[b] :
                                n.object.version < listener'[b][i].version
                      /\ slot'[b] # None => handled'[b] < slot'[b].version
    BY DEF InOrder
  <2>1. CASE b = a
    BY <1>1, <1>3, <1>7, <1>8, <1>9, <2>1 DEF Ordered, InOrder
  <2>2. CASE b # a
    BY <1>1, <1>7, <2>2 DEF Ordered, InOrder
  <2> QED
    BY <2>1, <2>2
<1>11. WatchIsNewest'
  <2>1. /\ o.version = object[a].version => o = object[a]
        /\ \A i \in DOMAIN watch'[a] :
             watch'[a][i].version = object[a].version => watch'[a][i] = object[a]
    <3>1. \A j \in DOMAIN watch[a] :
            watch[a][j].version = object[a].version => watch[a][j] = object[a]
      BY DEF Ordered, WatchIsNewest
    <3>2. o = watch[a][1] /\ 1 \in DOMAIN watch[a]
      BY <1>4
    <3> QED
      BY <1>5, <3>1, <3>2
  <2> SUFFICES ASSUME NEW b \in Apps
               PROVE  /\ store'[b].version <= object'[b].version
                      /\ store'[b].version = object'[b].version => store'[b] = object'[b]
                      /\ \A i \in DOMAIN watch'[b] :
                           watch'[b][i].version = object'[b].version => watch'[b][i] = object'[b]
    BY DEF WatchIsNewest
  <2>2. CASE b = a
    BY <1>1, <1>3, <2>1, <2>2
  <2>3. CASE b # a
    BY <1>1, <2>3 DEF Ordered, WatchIsNewest
  <2> QED
    BY <2>2, <2>3
<1>12. ExistsFromOne'
  <2>1. o.version > 0 /\ \A i \in DOMAIN watch'[a] : watch'[a][i].version > 0
    BY <1>4, <1>5, <1>6 DEF Ordered, ExistsFromOne
  <2> QED
    BY <1>1, <2>1 DEF Ordered, ExistsFromOne
<1>13. QueueBehindStore'
  BY <1>1, <1>2, <1>3, <1>7 DEF Ordered, QueueBehindStore
<1>14. NothingBeforeRegister'
  BY <1>1 DEF Ordered, NothingBeforeRegister
<1> QED
  BY <1>10, <1>11, <1>12, <1>13, <1>14 DEF Ordered

\* Stopping the informer drops what it has not passed on.
LEMMA StopInformerOrdered ==
  ASSUME Ordered, TypeOK', StopInformer
  PROVE  Ordered'
<1>1. /\ UNCHANGED <<object, store, notifying, slot, handled, registered, ctl>>
      /\ \A a \in Apps : watch'[a] = <<>> /\ listener'[a] = <<>>
  BY DEF StopInformer, queue
<1>2. \A a \in Apps : DOMAIN watch'[a] = {} /\ DOMAIN listener'[a] = {}
  BY <1>1, ShortSeq
<1>3. InOrder'
  BY <1>1, <1>2 DEF Ordered, InOrder, Reached, Ascending
<1>4. WatchIsNewest' /\ ExistsFromOne'
  BY <1>1, <1>2 DEF Ordered, WatchIsNewest, ExistsFromOne
<1>5. QueueBehindStore' /\ NothingBeforeRegister'
  BY <1>1 DEF Ordered, QueueBehindStore, NothingBeforeRegister, Reached
<1> QED
  BY <1>3, <1>4, <1>5 DEF Ordered

\* The replay of AddEventHandler comes first: nothing was passed on before, and
\* what the watch brings later is newer than the copy that is replayed.
LEMMA RegisterOrdered ==
  ASSUME Ordered, TypeOK', Register
  PROVE  Ordered'
<1>1. /\ UNCHANGED <<object, store, watch, notifying, slot, handled>>
      /\ ctl = "new" /\ ctl' = "made" /\ registered'
      /\ \A a \in Apps : listener'[a] = IF informer = "on" /\ store[a].kind # "deleted"
                                        THEN <<store[a]>> ELSE <<>>
  BY DEF Register, cache, queue
<1>2. /\ notifying = {}
      /\ \A a \in Apps : slot[a] = None /\ handled[a] = 0 /\ Reached(a) = 0
  BY <1>1 DEF Ordered, NothingBeforeRegister, Reached
<1>3. ASSUME NEW a \in Apps
      PROVE  Ascending(listener'[a], Reached(a), store[a].version)
  <2>1. CASE listener'[a] = <<>>
    BY <2>1, Versions, AscendingShort DEF Ordered
  <2>2. CASE listener'[a] = <<store[a]>> /\ store[a].kind # "deleted"
    <3>1. store[a].version > 0
      BY <2>2 DEF Ordered, ExistsFromOne
    <3> QED
      BY <1>2, <2>2, <3>1, Versions, AscendingShort DEF Ordered
  <2> QED
    BY <1>1, <2>1, <2>2
<1>4. InOrder'
  BY <1>1, <1>2, <1>3 DEF Ordered, InOrder, Reached
<1>5. WatchIsNewest' /\ ExistsFromOne'
  BY <1>1 DEF Ordered, WatchIsNewest, ExistsFromOne
<1>6. QueueBehindStore' /\ NothingBeforeRegister'
  BY <1>1 DEF Ordered, QueueBehindStore, NothingBeforeRegister, Reached
<1> QED
  BY <1>4, <1>5, <1>6 DEF Ordered

\* An event taken from the listener's queue is newer than what the queue has
\* got and older than the events left behind it.
LEMMA NotifyOrdered ==
  ASSUME Ordered, TypeOK', NEW a \in Apps, Notify(a)
  PROVE  Ordered'
<1> DEFINE o == Head(listener[a])
           n == [app |-> a, object |-> o, subscribed |-> subscribed]
<1>1. /\ UNCHANGED <<object, store, watch, slot, handled, registered, ctl>>
      /\ listener[a] # <<>> /\ listener'[a] = Tail(listener[a])
      /\ \A b \in Apps \ {a} : listener'[b] = listener[b]
      /\ notifying' = {n}
  BY DEF Ordered, Notify, cache, queue, TypeOK
<1>2. /\ Reached(a) \in Nat /\ store[a].version \in Nat
      /\ listener[a] \in Seq(Objects)
      /\ Ascending(listener[a], Reached(a), store[a].version)
  BY Versions DEF Ordered, InOrder
<1>3. /\ o \in Objects /\ o.version \in Nat
      /\ Reached(a) < o.version /\ o.version <= store[a].version
      /\ Tail(listener[a]) \in Seq(Objects)
      /\ Ascending(Tail(listener[a]), o.version, store[a].version)
  BY <1>1, <1>2, AscendingTail, Versions DEF Ordered
<1>4. n.app = a /\ n.object = o
  OBVIOUS
<1> HIDE DEF o, n
<1>5. Ascending(Tail(listener[a]), Reached(a), store[a].version)
  <2>1. Reached(a) <= o.version /\ store[a].version <= store[a].version
    BY <1>2, <1>3
  <2> QED
    BY <1>2, <1>3, <2>1, AscendingWiden
<1>6. \A i \in DOMAIN listener'[a] : o.version < listener'[a][i].version
  BY <1>1, <1>3 DEF Ascending
<1>7. \A b \in Apps : Reached(b)' = Reached(b)
  BY <1>1 DEF Reached
<1>8. InOrder'
  <2> SUFFICES ASSUME NEW b \in Apps
               PROVE  /\ Ascending(watch'[b], store'[b].version, object'[b].version)
                      /\ Ascending(listener'[b], Reached(b)', store'[b].version)
                      /\ \A m \in notifying' : m.app = b =>
                           /\ Reached(b)' < m.object.version
                           /\ m.object.version <= store'[b].version
                           /\ \A i \in DOMAIN listener'[b] :
                                m.object.version < listener'[b][i].version
                      /\ slot'[b] # None => handled'[b] < slot'[b].version
    BY DEF InOrder
  <2>1. CASE b = a
    BY <1>1, <1>3, <1>4, <1>5, <1>6, <1>7, <2>1 DEF Ordered, InOrder
  <2>2. CASE b # a
    BY <1>1, <1>4, <1>7, <2>2 DEF Ordered, InOrder
  <2> QED
    BY <2>1, <2>2
<1>9. WatchIsNewest' /\ ExistsFromOne' /\ QueueBehindStore'
  BY <1>1, <1>7 DEF Ordered, WatchIsNewest, ExistsFromOne, QueueBehindStore
<1>10. NothingBeforeRegister'
  BY <1>1 DEF Ordered, NothingBeforeRegister
<1> QED
  BY <1>8, <1>9, <1>10 DEF Ordered

\* The subscribers get the one event that notify has taken: it is newer than
\* what the queue has, and all that is left is newer than it.
LEMMA CallSubscribersOrdered ==
  ASSUME Ordered, TypeOK', CallSubscribers
  PROVE  Ordered'
<1>1. PICK n \in notifying :
        /\ notifying' = notifying \ {n}
        /\ \/ n.subscribed /\ Matches(n.object) /\ slot' = [slot EXCEPT ![n.app] = n.object]
           \/ slot' = slot
  BY DEF CallSubscribers
<1>2. UNCHANGED <<object, store, watch, listener, handled, registered, ctl>>
  BY DEF CallSubscribers, cache
<1>3. notifying' = {} /\ n.app \in Apps /\ n.object \in Objects
  BY <1>1, Versions DEF Ordered, TypeOK
<1>4. CASE slot' = slot
  <2>1. \A b \in Apps : Reached(b)' = Reached(b)
    BY <1>2, <1>4 DEF Reached
  <2>2. InOrder'
    BY <1>2, <1>3, <1>4, <2>1 DEF Ordered, InOrder
  <2>3. WatchIsNewest' /\ ExistsFromOne' /\ QueueBehindStore'
    BY <1>2, <2>1 DEF Ordered, WatchIsNewest, ExistsFromOne, QueueBehindStore
  <2>4. NothingBeforeRegister'
    BY <1>2, <1>3, <1>4 DEF Ordered, NothingBeforeRegister
  <2> QED
    BY <2>2, <2>3, <2>4 DEF Ordered
<1>5. CASE Matches(n.object) /\ slot' = [slot EXCEPT ![n.app] = n.object]
  <2> DEFINE a == n.app
             v == n.object.version
  <2>1. slot'[a] = n.object /\ \A b \in Apps \ {a} : slot'[b] = slot[b]
    BY <1>3, <1>5 DEF Ordered, TypeOK
  <2>2. n.object # None
    BY <1>5 DEF Matches, None
  <2>3. Reached(a)' = v /\ \A b \in Apps \ {a} : Reached(b)' = Reached(b)
    BY <1>2, <1>3, <2>1, <2>2 DEF Reached
  <2>4. /\ Reached(a) < v /\ v <= store[a].version
        /\ \A i \in DOMAIN listener[a] : v < listener[a][i].version
        /\ Ascending(listener[a], Reached(a), store[a].version)
        /\ slot[a] # None => handled[a] < slot[a].version
    BY <1>3 DEF Ordered, InOrder
  <2>5. v \in Nat /\ handled[a] \in Nat /\ Reached(a) \in Nat
    BY <1>3, Versions DEF Ordered
  <2>6. handled[a] < v
    <3>1. handled[a] <= Reached(a)
      BY <1>3, <2>4, <2>5 DEF Reached
    <3> QED
      BY <2>4, <2>5, <3>1
  <2>7. Ascending(listener[a], v, store[a].version)
    BY <2>4 DEF Ascending
  <2> HIDE DEF a, v
  <2>8. InOrder'
    <3> SUFFICES ASSUME NEW b \in Apps
                 PROVE  /\ Ascending(watch[b], store[b].version, object[b].version)
                        /\ Ascending(listener[b], Reached(b)', store[b].version)
                        /\ slot'[b] # None => handled[b] < slot'[b].version
      BY <1>2, <1>3 DEF InOrder
    <3>1. CASE b = a
      BY <2>1, <2>3, <2>6, <2>7, <3>1 DEF Ordered, InOrder, v
    <3>2. CASE b # a
      BY <2>1, <2>3, <3>2 DEF Ordered, InOrder
    <3> QED
      BY <3>1, <3>2
  <2>9. WatchIsNewest' /\ ExistsFromOne'
    BY <1>2 DEF Ordered, WatchIsNewest, ExistsFromOne
  <2>10. QueueBehindStore'
    BY <1>2, <2>3, <2>4 DEF Ordered, QueueBehindStore
  <2>11. NothingBeforeRegister'
    BY <1>1, <1>2 DEF Ordered, NothingBeforeRegister
  <2> QED
    BY <2>8, <2>9, <2>10, <2>11 DEF Ordered
<1> QED
  BY <1>1, <1>4, <1>5

\* Handling takes the object out of the queue and remembers its version.
LEMMA HandleOrdered ==
  ASSUME Ordered, TypeOK', NEW a \in Apps, Handle(a)
  PROVE  Ordered'
<1>1. /\ UNCHANGED <<object, store, watch, listener, notifying, registered, ctl>>
      /\ ctl # "new"
      /\ slot[a] # None /\ slot'[a] = None /\ handled'[a] = slot[a].version
      /\ \A b \in Apps \ {a} : slot'[b] = slot[b] /\ handled'[b] = handled[b]
  BY DEF Ordered, Handle, cache, broadcaster, TypeOK
<1>2. \A b \in Apps : Reached(b)' = Reached(b)
  BY <1>1 DEF Reached
<1>3. InOrder'
  BY <1>1, <1>2 DEF Ordered, InOrder
<1>4. WatchIsNewest' /\ ExistsFromOne' /\ QueueBehindStore'
  BY <1>1, <1>2 DEF Ordered, WatchIsNewest, ExistsFromOne, QueueBehindStore
<1>5. NothingBeforeRegister'
  BY <1>1 DEF Ordered, NothingBeforeRegister
<1> QED
  BY <1>3, <1>4, <1>5 DEF Ordered

\* The other steps of the controller, and ctx, touch no object.
LEMMA ControllerOrdered ==
  ASSUME Ordered, TypeOK',
         UNCHANGED <<object, store, watch, registered, listener, notifying, slot, handled>>,
         ctl = "new" <=> ctl' = "new"
  PROVE  Ordered'
<1>1. \A b \in Apps : Reached(b)' = Reached(b)
  BY DEF Reached
<1>2. InOrder' /\ WatchIsNewest' /\ ExistsFromOne' /\ QueueBehindStore'
  BY <1>1 DEF Ordered, InOrder, WatchIsNewest, ExistsFromOne, QueueBehindStore
<1>3. NothingBeforeRegister'
  BY DEF Ordered, NothingBeforeRegister
<1> QED
  BY <1>2, <1>3 DEF Ordered

\* Every step keeps the order.
LEMMA OrderedStep ==
  ASSUME Ordered, [Next]_vars
  PROVE  Ordered'
<1>1. TypeOK'
  BY TypeStep DEF Ordered
<1>2. ASSUME NEW a \in Apps, Change(a) \/ Handle(a) \/ Apply(a) \/ Notify(a)
      PROVE  Ordered'
  BY <1>1, <1>2, ChangeOrdered, HandleOrdered, ApplyOrdered, NotifyOrdered
<1>3. CASE Relist \/ List
  BY <1>1, <1>3, ListOrdered DEF Relist, List
<1>4. CASE StopInformer \/ Register \/ CallSubscribers
  BY <1>1, <1>4, StopInformerOrdered, RegisterOrdered, CallSubscribersOrdered
<1>5. CASE Cancel \/ Subscribe \/ StartPool \/ Unsubscribe \/ StopPool \/ UNCHANGED vars
  BY <1>1, <1>5, ControllerOrdered
     DEF Cancel, Subscribe, StartPool, Unsubscribe, StopPool, vars, cache,
         broadcaster, queue
<1> QED
  BY <1>2, <1>3, <1>4, <1>5 DEF Next, Informer, Controller, Broadcaster

-----------------------------------------------------------------------------
(* Late events.                                                            *)

\* Every step keeps the count: only the notification that copied the
\* subscribers before unsubscribe can still put something into the queue.
LEMMA LateStep ==
  ASSUME TypeOK, LateCount, [Next]_vars
  PROVE  LateCount'
<1>1. CASE CallSubscribers
  <2>1. PICK n \in notifying :
          /\ notifying' = notifying \ {n}
          /\ \/ late' = late
             \/ /\ n.subscribed
                /\ late' = IF ctl \in {"unsubscribed", "stopped"} THEN late + 1 ELSE late
    BY <1>1 DEF CallSubscribers
  <2>2. UNCHANGED <<ctl, subscribed>> /\ notifying' = {} /\ late \in Nat
    BY <1>1, <2>1 DEF CallSubscribers, TypeOK
  <2>3. CASE ctl \in {"unsubscribed", "stopped"}
    BY <2>1, <2>2, <2>3 DEF LateCount
  <2>4. CASE ctl \notin {"unsubscribed", "stopped"}
    BY <2>1, <2>2, <2>4 DEF LateCount
  <2> QED
    BY <2>3, <2>4
<1>2. ASSUME NEW a \in Apps, Notify(a)
      PROVE  LateCount'
  <2>1. /\ UNCHANGED <<ctl, subscribed, late>>
        /\ \A n \in notifying' : n.subscribed = subscribed
    BY <1>2 DEF Notify, queue
  <2> QED
    BY <2>1 DEF LateCount
<1>3. CASE Unsubscribe
  BY <1>3 DEF Unsubscribe, LateCount, queue
<1>4. CASE Subscribe \/ StartPool \/ Register \/ StopPool
  BY <1>4 DEF Subscribe, StartPool, Register, StopPool, LateCount, broadcaster, queue
<1>5. CASE UNCHANGED <<ctl, subscribed, notifying, late>>
  BY <1>5 DEF LateCount
<1>6. CASE Relist \/ List \/ Cancel \/ StopInformer \/ UNCHANGED vars
  BY <1>5, <1>6 DEF Relist, List, Cancel, StopInformer, vars, broadcaster, queue
<1>7. ASSUME NEW a \in Apps, Change(a) \/ Handle(a) \/ Apply(a)
      PROVE  LateCount'
  BY <1>5, <1>7 DEF Change, Handle, Apply, broadcaster, queue
<1> QED
  BY <1>1, <1>2, <1>3, <1>4, <1>6, <1>7 DEF Next, Informer, Controller, Broadcaster

-----------------------------------------------------------------------------
(* The theorems.                                                           *)

\* The inductive invariant holds in every reachable state.
LEMMA Invariance ==
  Spec => []IInv
<1>1. Init => IInv
  BY InitIInv
<1>2. IInv /\ [Next]_vars => IInv'
  BY OrderedStep, LateStep DEF IInv, Ordered
<1> QED
  BY <1>1, <1>2, PTL DEF Spec

\* Type correctness: notify runs for one event at a time and the queue only
\* ever holds annotated applications, for every set of applications.
THEOREM TypeCorrect ==
  Spec => []TypeOK
<1>1. IInv => TypeOK
  BY DEF IInv, Ordered
<1> QED
  BY <1>1, Invariance, PTL

\* Neither the replay of AddEventHandler, nor a list in place of lost events,
\* nor notify enqueuing outside its lock lets an older object follow a newer
\* one on its way into the queue or replace it there.
THEOREM EventsInOrder ==
  Spec => []InOrder
<1>1. IInv => InOrder
  BY DEF IInv, Ordered
<1> QED
  BY <1>1, Invariance, PTL

\* After unsubscribe at most one event still reaches the queue, however many
\* applications there are and whenever ctx is done.
THEOREM OneLateEvent ==
  Spec => []LateLimit
<1>1. IInv => LateLimit
  BY DEF IInv, LateCount, LateLimit
<1> QED
  BY <1>1, Invariance, PTL

\* A worker never handles an older version of an application than it has
\* handled before.
THEOREM HandledNeverOlder ==
  Spec => [][\A a \in Apps : handled[a] <= handled'[a]]_vars
<1>1. ASSUME IInv, [Next]_vars
      PROVE  [\A a \in Apps : handled[a] <= handled'[a]]_vars
  <2>1. ASSUME NEW a \in Apps, Handle(a), NEW b \in Apps
        PROVE  handled[b] <= handled'[b]
    <3>1. handled[b] \in Nat /\ slot[a].version \in Nat
      BY <1>1, Versions DEF IInv, Ordered, TypeOK, Objects
    <3>2. handled[a] < slot[a].version
      BY <1>1, <2>1 DEF IInv, Ordered, InOrder, Handle
    <3>3. handled'[b] = IF b = a THEN slot[a].version ELSE handled[b]
      BY <1>1, <2>1 DEF IInv, Ordered, TypeOK, Handle
    <3> QED
      BY <3>1, <3>2, <3>3
  <2>2. CASE handled' = handled
    BY <1>1, <2>2, Versions DEF IInv, Ordered
  <2>3. CASE \E a \in Apps : Change(a) \/ Apply(a) \/ Notify(a)
    BY <2>2, <2>3 DEF Change, Apply, Notify, queue
  <2>4. CASE \/ Relist \/ Cancel \/ List \/ StopInformer \/ Register \/ Subscribe
             \/ StartPool \/ Unsubscribe \/ StopPool \/ CallSubscribers \/ UNCHANGED vars
    BY <2>2, <2>4 DEF Relist, Cancel, List, StopInformer, Register, Subscribe,
                      StartPool, Unsubscribe, StopPool, CallSubscribers, vars, queue
  <2> QED
    BY <1>1, <2>1, <2>3, <2>4 DEF Next, Informer, Controller, Broadcaster
<1> QED
  BY <1>1, Invariance, PTL DEF Spec
=============================================================================
