---------------------------- MODULE EventHandler ----------------------------
(***************************************************************************)
(* The way of an application from the API server into the queue:           *)
(* mrp_controller/server.go (informer and start-up), controller/           *)
(* eventhandler.go (the broadcaster) and controller/controller.go          *)
(* (registration, subscription, filter, shutdown).                         *)
(*                                                                         *)
(* The informer runs from Init on.  The controller is made and subscribes  *)
(* in a goroutine of its own, so the list of the applications, the watch,  *)
(* the registration of the broadcaster and the subscription come in any    *)
(* order that the goroutines allow.  The queue keeps the newest object per *)
(* application and a worker handles it (module Mailbox).                   *)
(*                                                                         *)
(* An object is a version and its kind: with a manifest-generate-paths     *)
(* annotation that is not empty ("paths"), without one ("plain"), or gone  *)
(* ("deleted").  The order of events is kept per application, which is     *)
(* what the queue is keyed by.                                             *)
(***************************************************************************)
EXTENDS Integers, Sequences

CONSTANTS
  Apps,         \* the applications, by key
  MaxVersion,   \* bound: versions of an application are 1..MaxVersion
  MaxRelists    \* bound on lost watch connections

ASSUME BoundsAssumption == MaxVersion \in Nat \ {0} /\ MaxRelists \in Nat

VARIABLES
  object,       \* the application on the API server
  informer,     \* "off", "on" once it has listed, "stopped"
  watch,        \* per application, what the informer has still to apply
  store,        \* the informer's copy
  registered,   \* the broadcaster is an event handler of the informer
  listener,     \* per application, events the informer has for the broadcaster
  notifying,    \* notify between its two parts: the events, with the
                \* subscribers copied for them
  subscribed,   \* the controller is among the broadcaster's subscribers
  ctl,          \* the controller's goroutine
  cancelled,    \* ctx is done
  slot,         \* the queue's object of an application, None if it has none
  handled,      \* the last version a worker handled
  early,        \* the last version notified while nobody was subscribed
  late,         \* events put into the queue after the controller unsubscribed
  relists

cache == <<informer, watch, store, relists>>
broadcaster == <<registered, listener, notifying, subscribed>>
queue == <<slot, handled, early, late>>
vars == <<object, cache, broadcaster, ctl, cancelled, queue>>

None == [version |-> 0, kind |-> "deleted"]

Kinds == {"paths", "plain", "deleted"}
Objects == [version : 0 .. MaxVersion, kind : Kinds]

CtlStates == {"new", "made", "subscribed", "running", "unsubscribed", "stopped"}

-----------------------------------------------------------------------------
\* Some applications exist before the controller starts.
Init ==
  /\ object \in [Apps -> {None} \cup [version : {1}, kind : {"paths", "plain"}]]
  /\ informer = "off"
  /\ watch = [a \in Apps |-> <<>>]
  /\ store = [a \in Apps |-> None]
  /\ registered = FALSE
  /\ listener = [a \in Apps |-> <<>>]
  /\ notifying = {}
  /\ subscribed = FALSE
  /\ ctl = "new"
  /\ cancelled = FALSE
  /\ slot = [a \in Apps |-> None]
  /\ handled = [a \in Apps |-> 0]
  /\ early = [a \in Apps |-> 0]
  /\ late = 0
  /\ relists = 0

-----------------------------------------------------------------------------
(* The API server and client-go's informer (external).                     *)

\* An application is created, updated or deleted.
Change(a) ==
  /\ object[a].version < MaxVersion
  /\ \E kind \in Kinds :
       /\ kind # "deleted" \/ object[a].kind # "deleted"
       /\ object' = [object EXCEPT ![a] = [version |-> @.version + 1, kind |-> kind]]
  /\ watch' = IF informer = "on" THEN [watch EXCEPT ![a] = Append(@, object'[a])]
              ELSE watch
  /\ UNCHANGED <<informer, store, relists, broadcaster, ctl, cancelled, queue>>

\* What a list shows beyond the informer's copy.
Difference ==
  LET same(a) == \/ object[a] = store[a]
                 \/ object[a].kind = "deleted" /\ store[a].kind = "deleted"
  IN  [a \in Apps |-> IF same(a) THEN <<>> ELSE <<object[a]>>]

\* Init has started the informer: it lists, and watches from there on.
List ==
  /\ informer = "off"
  /\ informer' = "on"
  /\ watch' = Difference
  /\ UNCHANGED <<object, store, relists, broadcaster, ctl, cancelled, queue>>

\* The watch breaks off: what was under way is lost, and the list made instead
\* shows the newest objects only.
Relist ==
  /\ informer = "on"
  /\ relists < MaxRelists
  /\ relists' = relists + 1
  /\ watch' = Difference
  /\ UNCHANGED <<object, informer, store, broadcaster, ctl, cancelled, queue>>

\* The informer applies a change to its copy and passes it to its handlers.
\* The resync period is 0: what does not change is not passed on again.
Apply(a) ==
  /\ informer = "on"
  /\ watch[a] # <<>>
  /\ store' = [store EXCEPT ![a] = Head(watch[a])]
  /\ watch' = [watch EXCEPT ![a] = Tail(@)]
  /\ listener' = IF registered
                 THEN [listener EXCEPT ![a] = Append(@, Head(watch[a]))]
                 ELSE listener
  /\ UNCHANGED <<object, informer, relists, registered, notifying, subscribed,
                 ctl, cancelled, queue>>

\* ctx is done.
Cancel ==
  /\ ~cancelled
  /\ cancelled' = TRUE
  /\ UNCHANGED <<object, cache, broadcaster, ctl, queue>>

\* The informer stops: what it has not passed on is dropped.
StopInformer ==
  /\ cancelled
  /\ informer # "stopped"
  /\ informer' = "stopped"
  /\ watch' = [a \in Apps |-> <<>>]
  /\ listener' = [a \in Apps |-> <<>>]
  /\ UNCHANGED <<object, store, relists, registered, notifying, subscribed, ctl,
                 cancelled, queue>>

-----------------------------------------------------------------------------
(* The controller.                                                         *)

\* NewMonorepoController: AddEventHandler passes every object of the store to
\* the broadcaster as an Added event.
Register ==
  /\ ctl = "new"
  /\ ctl' = "made"
  /\ registered' = TRUE
  /\ listener' = [a \in Apps |->
                    IF informer = "on" /\ store[a].kind # "deleted"
                    THEN <<store[a]>> ELSE <<>>]
  /\ UNCHANGED <<object, cache, notifying, subscribed, cancelled, queue>>

Subscribe ==
  /\ ctl = "made"
  /\ ctl' = "subscribed"
  /\ subscribed' = TRUE
  /\ UNCHANGED <<object, cache, registered, listener, notifying, cancelled,
                 queue>>

StartPool ==
  /\ ctl = "subscribed"
  /\ ctl' = "running"
  /\ UNCHANGED <<object, cache, broadcaster, cancelled, queue>>

\* Faulty variant: the subscriber is not found in the list.
UnsubscribeNothing ==
  /\ ctl = "running"
  /\ cancelled
  /\ ctl' = "unsubscribed"
  /\ UNCHANGED <<object, cache, broadcaster, cancelled, queue>>

Unsubscribe ==
  /\ ctl = "running"
  /\ cancelled
  /\ ctl' = "unsubscribed"
  /\ subscribed' = FALSE
  /\ UNCHANGED <<object, cache, registered, listener, notifying, cancelled,
                 queue>>

StopPool ==
  /\ ctl = "unsubscribed"
  /\ ctl' = "stopped"
  /\ UNCHANGED <<object, cache, broadcaster, cancelled, queue>>

-----------------------------------------------------------------------------
(* The broadcaster and the queue.                                          *)

\* Faulty variant: each event is notified by a goroutine of its own.
NotifyInParallel(a) ==
  /\ listener[a] # <<>>
  /\ notifying' = notifying \cup {[app |-> a, object |-> Head(listener[a]),
                                   subscribed |-> subscribed]}
  /\ listener' = [listener EXCEPT ![a] = Tail(@)]
  /\ UNCHANGED <<object, cache, registered, subscribed, ctl, cancelled, queue>>

\* The informer calls OnAdd, OnUpdate or OnDelete; notify copies the list of
\* subscribers under the lock.
Notify(a) ==
  /\ notifying = {}
  /\ listener[a] # <<>>
  /\ notifying' = {[app |-> a, object |-> Head(listener[a]),
                    subscribed |-> subscribed]}
  /\ listener' = [listener EXCEPT ![a] = Tail(@)]
  /\ UNCHANGED <<object, cache, registered, subscribed, ctl, cancelled, queue>>

\* filterFunc: not a deletion, and with manifest-generate-paths.
Matches(o) == o.kind = "paths"

\* Faulty variant: an application that is queued already is left as it is.
CallKeepsFirst ==
  /\ \E n \in notifying :
       /\ notifying' = notifying \ {n}
       /\ IF n.subscribed /\ Matches(n.object) /\ slot[n.app] = None
          THEN slot' = [slot EXCEPT ![n.app] = n.object]
          ELSE UNCHANGED slot
  /\ UNCHANGED <<object, cache, registered, listener, subscribed, ctl,
                 cancelled, handled, early, late>>

\* ... and calls the copied subscribers without it: filter and Enqueue.
CallSubscribers ==
  /\ \E n \in notifying :
       /\ notifying' = notifying \ {n}
       /\ IF n.subscribed /\ Matches(n.object)
          THEN /\ slot' = [slot EXCEPT ![n.app] = n.object]
               /\ late' = IF ctl \in {"unsubscribed", "stopped"} THEN late + 1 ELSE late
          ELSE UNCHANGED <<slot, late>>
       /\ early' = IF n.subscribed THEN early
                   ELSE [early EXCEPT ![n.app] = n.object.version]
  /\ UNCHANGED <<object, cache, registered, listener, subscribed, ctl,
                 cancelled, handled>>

\* A worker handles the application; a stopped pool may still do so.
Handle(a) ==
  /\ ctl \in {"running", "unsubscribed", "stopped"}
  /\ slot[a] # None
  /\ handled' = [handled EXCEPT ![a] = slot[a].version]
  /\ slot' = [slot EXCEPT ![a] = None]
  /\ UNCHANGED <<object, cache, broadcaster, ctl, cancelled, early,
                 late>>

Informer == List \/ StopInformer \/ \E a \in Apps : Apply(a)
Controller == Register \/ Subscribe \/ StartPool \/ Unsubscribe \/ StopPool
Broadcaster == CallSubscribers \/ \E a \in Apps : Notify(a)

Next ==
  \/ \E a \in Apps : Change(a) \/ Handle(a)
  \/ Relist \/ Cancel
  \/ Informer \/ Controller \/ Broadcaster

Spec == Init /\ [][Next]_vars

\* Goroutines run, the informer lists and applies what it watches, and a
\* handling ends by its timeout.  Nothing is asked of the changes.
Fairness ==
  /\ WF_vars(Informer) /\ WF_vars(Controller) /\ WF_vars(Broadcaster)
  /\ \A a \in Apps : WF_vars(Handle(a))

FairSpec == Spec /\ Fairness

-----------------------------------------------------------------------------
(* Properties.                                                             *)

\* Every variable has its type; notify is called for one event at a time, and
\* the queue holds annotated applications only.
TypeOK ==
  /\ object \in [Apps -> Objects]
  /\ informer \in {"off", "on", "stopped"}
  /\ watch \in [Apps -> Seq(Objects)]
  /\ store \in [Apps -> Objects]
  /\ registered \in BOOLEAN
  /\ listener \in [Apps -> Seq(Objects)]
  /\ notifying \subseteq [app : Apps, object : Objects, subscribed : BOOLEAN]
  /\ subscribed \in BOOLEAN
  /\ ctl \in CtlStates
  /\ cancelled \in BOOLEAN
  /\ \A m, n \in notifying : m = n
  /\ slot \in [Apps -> Objects]
  /\ \A a \in Apps : slot[a] = None \/ Matches(slot[a])
  /\ handled \in [Apps -> 0 .. MaxVersion]
  /\ early \in [Apps -> 0 .. MaxVersion]
  /\ late \in Nat
  /\ relists \in 0 .. MaxRelists

\* The versions of s are increasing and lie after lo, up to hi.
Ascending(s, lo, hi) ==
  /\ \A i \in DOMAIN s : lo < s[i].version /\ s[i].version <= hi
  /\ \A i, j \in DOMAIN s : i < j => s[i].version < s[j].version

\* What the queue has got of application a so far.
Reached(a) == IF slot[a] = None THEN handled[a] ELSE slot[a].version

\* An older object never follows a newer one on any of the ways from the API
\* server to the worker, and so never replaces it in the queue: neither the
\* replay of AddEventHandler next to the watch, nor a list that stands in for
\* lost events, nor notify, which enqueues outside the broadcaster's lock.
InOrder ==
  \A a \in Apps :
    /\ Ascending(watch[a], store[a].version, object[a].version)
    /\ Ascending(listener[a], Reached(a), store[a].version)
    /\ \A n \in notifying : n.app = a =>
         /\ Reached(a) < n.object.version
         /\ n.object.version <= store[a].version
         /\ \A i \in DOMAIN listener[a] :
              n.object.version < listener[a][i].version
    /\ slot[a] # None => handled[a] < slot[a].version

\* Once unsubscribe has returned, at most one more event is put into the
\* queue: the one for which notify had already copied the subscribers.
LateLimit == late <= 1

\* Every annotated application is handled in its newest version in the end,
\* unless the controller is stopped or that version was notified before the
\* controller subscribed: neither the replay, nor a broken watch, nor a queue
\* that is still busy with an older version loses it, and the early ones are
\* all that is lost, since the informer has no resync period.
HandledUnlessEarly ==
  <>[](cancelled \/ \A a \in Apps :
         Matches(object[a]) => object[a].version \in {handled[a], early[a]})
=============================================================================
