----------------------------- MODULE Reconcile ------------------------------
(***************************************************************************)
(* The control loop of the monorepo controller for one application:        *)
(* controller.go and mrp_service.go between Argo CD, which syncs the       *)
(* application, the API server, which keeps it, and the repo server.       *)
(*                                                                         *)
(* Every change of the application object is an event of the watch.  An    *)
(* event carries the object as it was then; the queue keeps the newest one *)
(* (module Mailbox), and the handler works on that copy: what it patches   *)
(* may be computed from an object that has changed since.  The handler's   *)
(* own patch is a change of the object like any other.                     *)
(***************************************************************************)
EXTENDS MrpService

CONSTANTS
  Sources,      \* the application's sources, in order
  Multi,        \* it lists them under spec.sources
  Edits,        \* the lists of sources a user may put in their place
  CommitsOf,    \* per source its commits (or chart versions), as numbers that
                \* no other source has
  MaxChanges,   \* bound on syncs started and edits of the sources
  MaxLag,       \* bound on events under way when Argo CD or a user acts
  Faults,       \* what may fail: the calls "get", "rpc", "timeout" and "patch",
                \* and the controller itself, "crash"
  MaxFaults,    \* bound on failures
  Starts        \* the application is "new", or it is "settled": it has a first
                \* sync behind it, and annotations

SourceIds == DOMAIN CommitsOf

ASSUME SourcesAssumption ==
  /\ \A l \in Edits \cup {Sources} :
       l \in Seq(SourceIds) /\ Len(l) >= 1 /\ (~Multi => Len(l) = 1)
  /\ \A s \in SourceIds : CommitsOf[s] # {} /\ CommitsOf[s] \subseteq Nat \ {0}
  /\ \A s, t \in SourceIds : s # t => CommitsOf[s] \cap CommitsOf[t] = {}
  /\ NameOf \in [SourceIds -> STRING]
ASSUME BoundsAssumption ==
  {MaxChanges, MaxLag, MaxFaults} \subseteq Nat
ASSUME ModesAssumption ==
  /\ Starts \subseteq {"new", "settled"}
  /\ Faults \subseteq {"get", "rpc", "timeout", "patch", "crash"}

VARIABLES
  touches,   \* per git source, the commits that change files under its paths
  stage,     \* how far a sync has come: "none" under way, "requested",
             \* "running" (its result is shown), "recorded" in the history
  target,    \* the revisions it deploys
  tip,       \* per source, the newest commit Argo CD has resolved so far
  edited,    \* the sources were edited, and not compared since
  app,       \* the application object on the API server
  watch,     \* events of the watch not yet delivered to the informer
  slot,      \* the application in the queue: <<>> or one object
  pc,        \* the worker: "idle", "calc" (makeChangeRevisionPatch), "patch"
  snap,      \* the object it works on: <<>> or one
  patch,     \* the annotations it is about to patch
  overtaken, \* a sync or an edit came before the controller had caught up
  back,      \* an older revision was shown after a newer one
  moved,     \* the sources were edited after the last sync
  misread,   \* a copy was handled whose history misleads the service
  changes, crashes, faults

vars == <<touches, stage, target, tip, edited, app, watch, slot, pc, snap,
          patch, overtaken, back, moved, misread, changes, crashes, faults>>

Commits == UNION {CommitsOf[s] : s \in SourceIds}

NewApp ==
  [multi |-> Multi, sources |-> Sources, history |-> <<>>, synced |-> FALSE,
   syncRevs |-> <<>>, operation |-> <<>>, result |-> <<>>,
   chg |-> Absent, chgs |-> <<>>, git |-> Absent, gits |-> <<>>]

\* Synced to the first commits, and the controller has caught up.
SettledApp ==
  LET first == [i \in DOMAIN Sources |-> Min(CommitsOf[Sources[i]])]
  IN  [NewApp EXCEPT
         !.history = <<[sources |-> Sources, revs |-> first]>>,
         !.synced = TRUE, !.syncRevs = first, !.result = first,
         !.chg = first[1], !.chgs = first, !.git = first[1], !.gits = first]

NoPatch == [k \in {} |-> Unknown]

\* Nothing is under way in the controller.
Quiescent == watch = <<>> /\ slot = <<>> /\ pc = "idle"

\* A source's first commit is the one its files came from.
Init ==
  /\ touches \in [SourceIds -> SUBSET Commits]
  /\ \A s \in SourceIds :
       IF s \in Helm THEN touches[s] = {}
       ELSE Min(CommitsOf[s]) \in touches[s] /\ touches[s] \subseteq CommitsOf[s]
  /\ stage = "none" /\ target = <<>>
  /\ tip = [s \in SourceIds |-> Min(CommitsOf[s])]
  /\ edited = FALSE
  /\ \E start \in Starts : app = IF start = "new" THEN NewApp ELSE SettledApp
  /\ watch = <<app>>
  /\ slot = <<>>
  /\ pc = "idle"
  /\ snap = <<>>
  /\ patch = NoPatch
  /\ overtaken = FALSE /\ back = FALSE /\ moved = FALSE /\ misread = FALSE
  /\ changes = 0 /\ crashes = 0 /\ faults = 0

\* The API server stores a; a change is an event.
Store(a) ==
  /\ app' = a
  /\ watch' = IF a = app THEN watch ELSE Append(watch, a)

controller == <<slot, pc, snap, patch, misread, crashes, faults>>

-----------------------------------------------------------------------------
(* Argo CD, as far as getRevisionsSingleSource and getRevisionsMultiSource *)
(* tell its states apart.  A sync changes the object in several steps.     *)

LastEntry == app.history[Len(app.history)]

\* The revision of source s in history entry e, if it was among the sources
\* then.
RevisionIn(e, s) ==
  LET at == {i \in DOMAIN e.sources : e.sources[i] = s}
  IN  IF at = {} THEN Unknown ELSE e.revs[Min(at)]

\* The revision of source s after the last sync that succeeded.
DeployedRevision(s) ==
  IF app.history = <<>> THEN Unknown ELSE RevisionIn(LastEntry, s)

Resolvable ==
  {revs \in [DOMAIN app.sources -> Commits] :
     \A i \in DOMAIN revs : revs[i] \in CommitsOf[app.sources[i]]}

\* The revisions are newer than what was resolved before, as those of a branch
\* are, or an older one is gone back to.
Resolve(revs) ==
  /\ tip' = [s \in SourceIds |->
               Max({tip[s]} \cup
                   {revs[i] : i \in {j \in DOMAIN revs : app.sources[j] = s}})]
  /\ back' = (back \/ \E i \in DOMAIN revs : revs[i] < tip[app.sources[i]])

\* The last sync succeeded, and its outcome has not been compared yet.
AwaitsRefresh ==
  /\ stage = "none"
  /\ ~app.synced
  /\ app.history # <<>>
  /\ LastEntry.revs = app.result

\* The controller has not caught up with what was there before.
Overtake == overtaken' = (overtaken \/ ~Quiescent \/ AwaitsRefresh)

MayStart ==
  /\ stage = "none"
  /\ changes < MaxChanges
  /\ changes' = changes + 1
  /\ Overtake

\* The cluster already matches the manifests: synced without a sync.
Adopt ==
  /\ MayStart
  /\ app.history = <<>> /\ app.result = <<>>
  /\ \E revs \in Resolvable :
       /\ Resolve(revs)
       /\ Store([app EXCEPT !.synced = TRUE, !.syncRevs = revs])
  /\ edited' = FALSE
  /\ UNCHANGED <<touches, stage, target, moved, controller>>

\* A sync is requested, of an application that is out of sync or still synced,
\* to a revision that the request names or leaves to Argo CD.
StartSync ==
  /\ MayStart
  /\ \E revs \in Resolvable, s \in {FALSE, app.synced} :
       /\ Resolve(revs)
       /\ target' = revs
       /\ \E op \in {revs, [i \in DOMAIN revs |-> Unknown]} :
            Store([app EXCEPT !.operation = op, !.synced = s])
  /\ stage' = "requested"
  /\ UNCHANGED <<touches, edited, moved, controller>>

\* While it runs the operation state shows its result; until then, the one of
\* the sync before.
ShowResult ==
  /\ stage = "requested"
  /\ stage' = "running"
  /\ Store([app EXCEPT !.result = target])
  /\ UNCHANGED <<touches, target, tip, edited, overtaken, back, moved, changes,
                 controller>>

\* It has succeeded: first the history entry ...
RecordSync ==
  /\ stage \in {"requested", "running"}
  /\ stage' = "recorded"
  /\ Store([app EXCEPT
       !.history = Append(@, [sources |-> app.sources, revs |-> target])])
  /\ moved' = FALSE
  /\ UNCHANGED <<touches, target, tip, edited, overtaken, back, changes,
                 controller>>

NoSync == stage' = "none" /\ target' = <<>>

\* ... then the final operation state, and no operation any more.
FinishSync ==
  /\ stage = "recorded"
  /\ NoSync
  /\ Store([app EXCEPT !.result = target, !.operation = <<>>])
  /\ UNCHANGED <<touches, tip, edited, overtaken, back, moved, changes,
                 controller>>

\* It fails: no history entry, and the application is out of sync.
FailSync ==
  /\ stage \in {"requested", "running"}
  /\ NoSync
  /\ Store([app EXCEPT !.result = target, !.operation = <<>>,
                       !.synced = FALSE])
  /\ UNCHANGED <<touches, tip, edited, overtaken, back, moved, changes,
                 controller>>

\* The application is compared again, and found synced: after a sync that
\* succeeded, or while it is still running.  Between the history entry and the
\* final operation state the result may still be the old one.
Refresh ==
  /\ ~app.synced
  /\ stage \in {"running", "recorded"} \/ AwaitsRefresh
  /\ Store([app EXCEPT !.synced = TRUE,
       !.syncRevs = IF stage = "none" THEN app.result ELSE target])
  /\ back' = (back \/ (stage = "recorded" /\ app.result \notin {<<>>, target}))
  /\ edited' = FALSE
  /\ UNCHANGED <<touches, stage, target, tip, overtaken, moved, changes,
                 controller>>

\* A user edits the sources, while no sync is running.
EditSources ==
  /\ MayStart
  /\ \E l \in Edits \ {app.sources} : Store([app EXCEPT !.sources = l])
  /\ edited' = TRUE /\ moved' = TRUE
  /\ UNCHANGED <<touches, stage, target, tip, back, controller>>

\* The edited application is compared: it is out of sync, unless its sources
\* are the deployed ones in another order.
Recompare ==
  /\ edited
  /\ stage = "none"
  /\ LET revs == [i \in DOMAIN app.sources |-> DeployedRevision(app.sources[i])]
         same == /\ app.history # <<>>
                 /\ Range(LastEntry.sources) = Range(app.sources)
     IN  IF app.synced /\ same
         THEN Store([app EXCEPT !.syncRevs = revs])
         ELSE Store([app EXCEPT !.synced = FALSE])
  /\ edited' = FALSE
  /\ UNCHANGED <<touches, stage, target, tip, overtaken, back, moved, changes,
                 controller>>

ArgoCD ==
  /\ Len(watch) < MaxLag
  /\ \/ Adopt \/ StartSync \/ ShowResult \/ RecordSync \/ FinishSync \/ FailSync
     \/ Refresh \/ EditSources \/ Recompare

-----------------------------------------------------------------------------
(* The controller.                                                         *)

argocd == <<touches, stage, target, tip, edited, overtaken, back, moved, changes>>

\* OnAdd/OnUpdate, notify, the filter and Enqueue: the event replaces an older
\* one of the same application.
Deliver ==
  /\ watch # <<>>
  /\ slot' = <<Head(watch)>>
  /\ watch' = Tail(watch)
  /\ UNCHANGED <<argocd, app, pc, snap, patch, misread, crashes, faults>>

\* The service takes the newest history entry of a synced application for the
\* one of the sync whose result is shown, and that of an application with an
\* operation for the one before the operation.  Halfway through a sync neither
\* need be so, and a range that is searched then begins at the wrong entry.
Misleading(a) ==
  /\ a.history # <<>>
  /\ LET last == a.history[Len(a.history)].revs
     IN  IF a.synced /\ a.result # <<>> THEN a.result # last
         ELSE a.operation = last
  /\ \E i \in DOMAIN a.sources : NeedsCalculation(GetSourceRevisions(a, i))

\* Faulty variant: the application stays in the queue.
ClaimAndKeep ==
  /\ pc = "idle"
  /\ slot # <<>>
  /\ snap' = slot
  /\ pc' = "calc"
  /\ misread' = (misread \/ Misleading(slot[1]))
  /\ UNCHANGED <<argocd, app, watch, slot, patch, crashes, faults>>

\* A worker takes the application.
Claim ==
  /\ pc = "idle"
  /\ slot # <<>>
  /\ snap' = slot
  /\ slot' = <<>>
  /\ pc' = "calc"
  /\ misread' = (misread \/ Misleading(slot[1]))
  /\ UNCHANGED <<argocd, app, watch, patch, crashes, faults>>

\* The handler returns; the worker is ready for the next application.
Return ==
  /\ pc' = "idle"
  /\ snap' = <<>>
  /\ patch' = NoPatch

Fault(kind) ==
  /\ kind \in Faults
  /\ faults + crashes < MaxFaults
  /\ faults' = faults + 1

\* The sources of the copy, and what the repo server is asked about source i.
Idx == DOMAIN snap[1].sources
Source(i) == snap[1].sources[i]

Ask(i) == LET r == GetSourceRevisions(snap[1], i)
          IN  GetChangeRevision(touches[Source(i)], r.previous, r.current)

Asked == {i \in Idx : NeedsCalculation(GetSourceRevisions(snap[1], i))}

\* The repo server fails for a revision its repository does not have; without
\* a previous revision it does not look.
Foreign ==
  {i \in Asked :
     LET r == GetSourceRevisions(snap[1], i)
     IN  r.previous # Unknown /\ ~({r.previous, r.current} \subseteq CommitsOf[Source(i)])}

\* The revisions to be recorded when the calculation of the sources in bad
\* fails.
NewWithout(bad) ==
  [i \in Idx |-> NewRevisions(GetSourceRevisions(snap[1], i), i \notin bad,
                              Ask(i))]

\* Faulty variant: an empty patch is sent too.
MadeAlways(new) ==
  pc' = "patch" /\ patch' = MakeAnnotationPatch(snap[1], new) /\ UNCHANGED snap

\* A patch is made; nothing to patch ends the handling ("up-to-date").
Made(new) ==
  LET p == MakeAnnotationPatch(snap[1], new)
  IN  IF DOMAIN p = {} THEN Return
      ELSE pc' = "patch" /\ patch' = p /\ UNCHANGED snap

\* The repo server answers for every source, as far as it can.
Calculate ==
  /\ pc = "calc"
  /\ \E new \in {NewWithout(Foreign)} : Made(new)
  /\ UNCHANGED <<argocd, app, watch, slot, misread, crashes, faults>>

\* The calculation of some sources fails: logged, and their git revision is
\* patched all the same.
CalculatePartly ==
  /\ pc = "calc"
  /\ Fault("rpc")
  /\ \E bad \in (SUBSET Asked) \ {{}} :
       \E new \in {NewWithout(Foreign \cup bad)} : Made(new)
  /\ UNCHANGED <<argocd, app, watch, slot, misread, crashes>>

\* The Get of the application fails, or the calculation times out: the
\* handling ends without a patch.
CalculateFails ==
  /\ pc = "calc"
  /\ \/ Fault("get")
     \/ Asked # {} /\ Fault("timeout")
  /\ Return
  /\ UNCHANGED <<argocd, app, watch, slot, misread, crashes>>

\* annotateApplication: a merge patch of whatever the object is by now.
Patch ==
  /\ pc = "patch"
  /\ Store(MergePatch(app, patch))
  /\ Return
  /\ UNCHANGED <<argocd, slot, misread, crashes, faults>>

\* The patch is not made: logged, and forgotten.
PatchFails ==
  /\ pc = "patch"
  /\ Fault("patch")
  /\ Return
  /\ UNCHANGED <<argocd, app, watch, slot, misread, crashes>>

\* The controller dies and comes back: its memory is gone, and its informer
\* lists the application as it is now.
Crash ==
  /\ "crash" \in Faults
  /\ faults + crashes < MaxFaults
  /\ crashes' = crashes + 1
  /\ watch' = <<app>>
  /\ slot' = <<>>
  /\ Return
  /\ UNCHANGED <<argocd, app, misread, faults>>

Handling ==
  Calculate \/ CalculatePartly \/ CalculateFails \/ Patch \/ PatchFails

Controller == Deliver \/ Claim \/ Handling

Next == ArgoCD \/ Controller \/ Crash

Spec == Init /\ [][Next]_vars

\* A worker gets on with its application: a call ends by its answer, its error
\* or the event timeout.
Advance == pc # "idle" /\ pc' \in {"idle", "patch"} \ {pc}

\* The controller keeps running while it has something to do.  Nothing is asked
\* of Argo CD.
Fairness == WF_vars(Deliver) /\ WF_vars(Claim) /\ WF_pc(Advance)

FairSpec == Spec /\ Fairness

-----------------------------------------------------------------------------
(* What the annotations should say.                                        *)

\* The revision source i is at, and the commit that last changed it since its
\* first sync.
Deployed(i) ==
  IF app.history = <<>> THEN app.syncRevs[i]
  ELSE DeployedRevision(app.sources[i])

LastChange(i) ==
  IF app.sources[i] \in Helm \/ app.history = <<>> THEN Deployed(i)
  ELSE LET first == app.history[1].revs[i]
       IN  Max({first} \cup
               {c \in touches[app.sources[i]] : first < c /\ c <= Deployed(i)})

Annotated(i) == [change |-> SliceGetString(app.chgs, i),
                 git    |-> SliceGetString(app.gits, i)]

CaughtUp == Quiescent /\ app.synced /\ stage = "none"

-----------------------------------------------------------------------------
(* Properties.                                                             *)

Revisions == Commits \cup {Unknown}
RevSeqs == UNION {[1 .. n -> Revisions] : n \in {0} \cup {Len(l) : l \in Edits \cup {Sources}}}

\* Every variable has its type; a worker holds a copy exactly while it handles
\* it, and a patch it is about to send is never empty.
TypeOK ==
  /\ touches \in [SourceIds -> SUBSET Commits]
  /\ tip \in [SourceIds -> Commits]
  /\ {edited, overtaken, back, moved, misread, app.synced} \subseteq BOOLEAN
  /\ stage \in {"none", "requested", "running", "recorded"}
  /\ (stage = "none") <=> (app.operation = <<>>)
  /\ {target, app.syncRevs, app.operation, app.result, app.chgs, app.gits}
       \subseteq RevSeqs
  /\ {app.chg, app.git} \subseteq Revisions \cup {Absent}
  /\ pc \in {"idle", "calc", "patch"}
  /\ Len(slot) <= 1
  /\ Len(snap) = IF pc = "idle" THEN 0 ELSE 1
  /\ DOMAIN patch \subseteq AnnotationKeys
  /\ (DOMAIN patch # {}) <=> (pc = "patch")
  /\ changes \in 0 .. MaxChanges /\ faults + crashes \in 0 .. MaxFaults

\* The controller "accurately tracks last commits that actually changed the
\* application" (README.md:8): whenever it has caught up with a synced
\* application, the annotations hold the deployed revision and the commit that
\* last changed the application.
Accurate ==
  CaughtUp =>
    \A i \in DOMAIN app.sources :
      Annotated(i) = [change |-> LastChange(i), git |-> Deployed(i)]

\* The controller "accurately tracks last commits that actually changed the
\* application" (README.md:8), also when syncs come faster than it works: as
\* long as they go forward, no object in the course of a sync misleads the
\* service, and nothing fails.
AccurateAtAnyPace == ~back /\ ~misread /\ faults = 0 => Accurate

\* Every sync was handled before the next one started, every revision was newer
\* than the ones before, and no call has failed.
InTurn == ~overtaken /\ ~back /\ faults = 0

\* The controller "accurately tracks last commits that actually changed the
\* application" (README.md:8), as long as the syncs wait for it, go forward and
\* no call fails: the annotations are accurate whatever syncs fail, whichever of the
\* objects in the course of a sync the queue leaves out, and whenever the
\* controller restarts, unless the handler got one of the objects that mislead
\* the service.
AccurateUnlessMisread == InTurn /\ ~misread => Accurate

\* However the syncs overtake the controller, although arrays are patched
\* whole from outdated copies, and although sync result and annotations are
\* read by position after the sources were reordered: once it has caught up
\* with an application that was synced with its present sources, the git
\* revision of every source is the deployed one, and so is the change revision
\* of a chart, which takes a second pass.
DeployedRecorded ==
  CaughtUp /\ app.history # <<>> /\ LastEntry.sources = app.sources =>
    \A i \in DOMAIN app.sources :
      /\ Annotated(i).git = Deployed(i)
      /\ app.sources[i] \in Helm => Annotated(i).change = Deployed(i)

\* Source s is not taken for another one of history entry e.
TellsApart(e, s) ==
  \A i \in DOMAIN e.sources :
    IsMatchingHistoryEntry(e.sources[i], s) => e.sources[i] = s

\* "Probably sources were reordered, try to find source index"
\* (mrp_service.go:445): a sync after any rearrangement of the sources does not
\* lose what it changed.  Although sync result and annotations are read by
\* position, and failed and repeated syncs leave their marks in the annotations,
\* the newest commit that touches a source and came with the last sync is its
\* change revision.
ChangeFound ==
  /\ CaughtUp /\ InTurn /\ ~misread /\ ~moved
  /\ Len(app.history) >= 2
  => \A i \in DOMAIN app.sources :
       LET before == app.history[Len(app.history) - 1]
           start  == RevisionIn(before, app.sources[i])
           found  == {c \in touches[app.sources[i]] : start < c /\ c <= Deployed(i)}
       IN  start # Unknown /\ found # {} /\ TellsApart(before, app.sources[i])
             => Annotated(i).change = Max(found)

\* The change revision is never newer than the git revision next to it,
\* although the two are patched independently, each only if it differs from
\* the copy the handler works on, as long as no older revision is gone back
\* to.
NeverAhead ==
  ~back => \A i \in DOMAIN app.sources :
    Annotated(i).git # Unknown => Annotated(i).change <= Annotated(i).git

\* A patch made from an outdated copy never puts an older change revision in
\* the place of a newer one, if that is a commit that changed the application
\* and not one recorded for want of a better one, and no older revision is gone
\* back to.  It may erase it: a copy from before the first annotation makes a
\* patch with "".
NeverOlder ==
  [][~back /\ app.chg \in touches[app.sources[1]] =>
       app'.chg >= app.chg \/ app'.chg = Unknown]_vars

\* The plain annotations and the arrays are patched independently, and agree
\* whenever the controller has caught up.
AnnotationsAgree ==
  Quiescent => /\ AnnotationValue(app.chg) = Annotated(1).change
               /\ AnnotationValue(app.git) = Annotated(1).git

\* The controller does not keep itself busy: every patch is an event of its
\* own, and still it comes to rest when Argo CD does.
Settles == <>[]Quiescent

\* The controller "accurately tracks last commits that actually changed the
\* application" (README.md:8): an error that is over does not leave the
\* annotations wrong for good, if the syncs wait for the controller, go forward
\* and no object in the course of a sync misleads the service.
EventuallyAccurate == <>[](overtaken \/ back \/ misread \/ Accurate)
=============================================================================
