# A verification project for the Argo CD Monorepo Controller

The Monorepo Controller is an add-on for Argo CD. It watches Application
objects and writes into their annotations the *change revision*: the last
commit that really changed the application, as opposed to the last commit of
the (shared) repository. This directory holds TLA+ models of its concurrent
and stateful parts, the TLC configurations that check them on small instances,
and proofs for the TLA+ proof system. `PROJECT.json` lists components, runs,
the source lines behind each definition, findings, hazards and theorems.

## 1. The system

| Component | Source | State | Operations |
|---|---|---|---|
| Event broadcaster | `mrp_controller/controller/eventhandler.go` | list of subscribers under a mutex | `OnAdd`, `OnUpdate`, `OnDelete`, `Subscribe`, unsubscribe |
| Application queue | `mrp_controller/controller/appqueue.go` | ordered list and index by key, set of keys in processing, pending updates, condition variable, gauge | `Enqueue`, `DequeueWait`, `Done`, `SetLengthGauge` |
| Worker pool | `mrp_controller/controller/appqueue.go` | dispatch loop, bounded job channel, workers, a context | `NewWorkerPool`, `dequeueLoop`, `Stop` |
| Controller | `mrp_controller/controller/controller.go` | none of its own | `Run`: filter, enqueue, handler with a timeout |
| Change revision service | `mrp_controller/service/mrp_service.go` | none; works on a copy of the Application | `ChangeRevision`: Get, per source calculate, patch annotations |
| Controller server | `mrp_controller/server.go` | informer (list at start, then watch; resync period 0) | `NewMRPServer`, `Init`, `Run` |
| Repo server | `reposerver/repository/mrp_repository.go`, `repository.go`, `util/io/paths.go` | git working trees, paths by repository | `GetChangeRevision`, `Init`, `checkoutRevision` |
| Git client | `util/git/mrp_client.go`, `util/git/client.go` | object database, caches in Redis | `ListRevisions`, `DiffTree`, fetch, checkout, references |
| Repository lock | `reposerver/repository/lock.go` | per path: revision, number of holders, sharing flag, condition variable | `Lock`, the closer it returns |
| Caches | `reposerver/cache/cache.go` | Redis entries with expiry; a lock entry for references | get and set |

How they interact. Argo CD changes an Application on the API server; the
informer receives the object as it was at that change and calls the
broadcaster, whose subscriber puts it into the queue. The queue keeps the
newest object per application and never hands an application to two workers.
A worker calls `ChangeRevision` with that object. It reads the current and the
previous revision from operation, history and sync result, asks the repo server
over gRPC which commit in between touched the application's paths, and sends a
merge patch of four annotations. The patch changes the object, so it comes back
as an event. The repo server answers by checking out the current revision under
the repository lock and walking `git rev-list`.

What is hard here, and where: see `hazards` in `PROJECT.json`. In short,

* updates racing with the worker that handles the same application, wakeups,
  a full job channel, and shutdown, in the queue;
* an annotation patch computed from a copy that is no longer the object, or of
  an object in the middle of a sync, several syncs between two handlings, failing
  calls without retry, and the controller's own patches as input, in the control
  loop;
* sharing of a working tree by revision, and a broadcast made after the mutex
  is released, in the repository lock;
* branches, merges, missing paths and shared caches, in the repo server;
* the order of list, watch, registration and subscription at start-up, and an
  unsubscription while an event is being delivered, on the way into the queue;
* a lock in Redis that expires under its owner, whose owner dies, or that is
  deleted by a get and a delete, in the cache of references;
* a clone that outlives the process which was making it.

What makes each part correct: the queue loses no update, handles each
application by one worker at a time and in order, and keeps its place; the
annotations are right once the controller has caught up, never go back and are
never ahead of the deployed revision unless that goes back itself, and the
controller comes to rest; whoever
holds the repository lock works on the revision it asked for, and every waiter
gets in; the repo server's answer is the commit the deployed content came from;
no object overtakes a newer one on its way into the queue, and what changed
while the controller was listening is handled; references are listed by one
call at a time and do not go back; a checkout that succeeds left the revision
that was asked for, with its history, and a failed one does not spoil the next.

## 2. Modules

| Module | Models | Uses |
|---|---|---|
| `Mailbox` | what the queue promises: per key the newest update, one handler | |
| `AppQueue` | queue, loop, workers, stop | `Mailbox` (refined by it) |
| `AppQueueProofs`, `AppQueueRefinement` | theorems about `AppQueue` | `AppQueue`, TLAPS |
| `RepoLock` | `Lock` and its closer for one path, with the working tree | |
| `RepoLockProofs` | theorems about `RepoLock` | `RepoLock`, TLAPS |
| `MrpService` | the calculation of `mrp_service.go` as operators | |
| `Reconcile` | the control loop around it | `MrpService` |
| `ReconcileProofs` | theorems about `Reconcile` and the operators of `MrpService` | `Reconcile`, TLAPS |
| `CommitGraph` | the history of a commit | |
| `RepoServer` | `GetChangeRevision` on commit graphs | `CommitGraph` |
| `RepoServerProofs` | theorems about `RepoServer` | `RepoServer`, TLAPS |
| `EventHandler` | informer, broadcaster, subscription, start-up and shutdown | the promise of `Mailbox` |
| `EventHandlerProofs` | theorems about `EventHandler` | `EventHandler`, TLAPS |
| `GitRefs` | `getRefs` and the lock on cached references | |
| `GitRefsProofs` | theorems about `GitRefs` | `GitRefs`, TLAPS |
| `Checkout` | the clone on disk: `Service.Init`, paths, `checkoutRevision` | `CommitGraph` |
| `CheckoutProofs` | theorems about `Checkout` | `Checkout`, TLAPS |
| `MCReconcile`, `MCRepoServer`, `MCCheckout` | instances for TLC (the others need none) | |

Definitions called "Faulty variant" are plausible mistakes in the code, kept
next to the definition they replace. No specification uses them; each is the
mutation under which some property must fail.

### AppQueue

One step per critical section of `kq.mu`, and one per channel operation. `items`
(a sequence of key and version), `keyMap`, `processing`, `pending` and `gauge`
are the fields of `KeyedAppQueue`; `loop` says where `dequeueLoop` is (at its
check, in `DequeueWait`, asleep in `Wait`, sending, ended) and `hand` the item
it is about to send; `jobChan`, `chanClosed`, `wpc`, `job` are channel and
workers; `cancelled` is the context. An update of an application is a version
number, so that "older" and "newer" mean something: `latest` and `handled` are
the last version put in and the last one a handler finished. Actions: `Enqueue`,
`SetLengthGauge`, `Stop`, `LoopCheck`, `DequeueEmpty`, `DequeueFront`,
`LoopSend`, `LoopAbandon`, `WorkerReceive`, `HandlerReturns`, `Done`,
`WorkerExit`.

`Mailbox` has `Submit`, `Claim`, `Finish` and `Release` over the newest version,
the version being handled and the last handled one of each key. `AppQueue`
implements it with a mapping in which a version is claimed when `dequeueLoop`
takes it from the list and is active while it is in hand, in the channel or with
a worker; where it is of these, and the pending updates, are invisible.

### RepoLock

`condL` is held across steps only by a caller inside `init`, which runs with the
mutex locked; all other critical sections are one step. `cond.Wait` gives the
mutex up and falls asleep in one step, as Go guarantees. The closer's `Broadcast`
is a step of its own because it is made after the unlock. `tree` and `open`
are the checked-out revision and the directory's permissions.

### MrpService and Reconcile

`MrpService` translates `getRevisionsSingleSource` and `...MultiSource`, the
loop body of `makeChangeRevisionPatch`, and `makeAnnotationPatch`. Revisions are
numbers: commit *n* of a linear branch, 0 for the empty string, -1 for an
annotation that is not there (the distinction matters to `addPatchIfNeeded`).
A source is matched with one of a history entry by its name, if both have one
(`NameOf`), or else by identity, which stands for repository, path, chart, ref
and target revision. An operation may name no revision: its entry is then the
empty string, which is not the same as no operation. The JSON arrays are
sequences: arrays of strings survive marshalling unchanged.

`Reconcile` has one application. `app` is the object on the API server; `watch`
the FIFO of objects not yet delivered; `slot` the queue's entry for the
application, by the promise of `Mailbox`; `snap` the copy under handling;
`patch` the annotations about to be sent. A patch is merged into whatever the
object is by then. Argo CD is external, with the transitions that the service
distinguishes. A sync changes the object in steps, each an event of its own
(`stage`): the request (`StartSync`, with or without a revision, of an
application that is still Synced or not any more), the result in the operation
state while it runs (`ShowResult`), the history entry (`RecordSync`), and the end
of the operation with the final result (`FinishSync`); or it fails (`FailSync`),
before or after its result was shown. The application is compared (`Refresh`),
and becomes Synced, after the sync or already while it is running. So a copy may
have the new result without its history entry (the object of the fixture
`mrp_service_test.go:249-263`) or the entry without the result. A sync may go
to any revision of its sources, also to an older one: a rollback. An application
may also be found synced without ever having been synced (`Adopt`). A user may
reorder, replace or remove sources (`EditSources`) between syncs, and Argo CD
compares the application again (`Recompare`): history entries keep the sources of
their time, while sync result and annotation arrays are read by position. Commits
of different sources are different numbers, so that a revision read from another
source's position shows; the repo server fails for one (`Foreign`). The first
commit of a git source always counts as one that changed it: it is where the
files came from. `Get`, the calculation, and the patch may fail; `Crash` loses the
memory and lists again. `MaxLag` bounds the objects under way in the watch when
Argo CD or a user acts; the controller's own patches are not bounded by it.

Five ghost variables say in which circumstances a property is claimed:
`overtaken` (a sync or an edit began before the controller had caught up with the
one before and its outcome was compared), `back` (an older revision was shown
after a newer one), `moved` (the sources were edited after the last sync),
`misread` (the handler has taken a copy whose newest history entry is not what the
service takes it for, and asked the repo server about it; see `Misleading`), and
`faults`.

### RepoServer

A history is a commit graph with the content under the application's refresh
paths as one value per commit; a merge takes the side that changed. `rev-list`
and `diff-tree` are modelled by what git does: a merge and a root commit print
nothing. Requests interleave between `ListRevisions` and each `DiffTree` and
share both caches, which may expire at any time. For linear histories the
answer is the operator `MrpService!GetChangeRevision`.

### EventHandler

`object` is each application on the API server, with a version and what the
controller's filter tells apart (annotated, not annotated, deleted). The informer
(client-go, external) lists, watches, lists again when the watch breaks, and
keeps `store`; it calls its handlers from one goroutine, in order. `Register`
is `AddEventHandler`, which replays the store. `Notify` and `CallSubscribers`
are the two parts of `notify`: the copy of the subscribers under the lock, and the
calls without it. `ctl` follows the controller's goroutine from its making to
`Stop`. `slot` and `handled` stand for queue and workers, by the promise of
`Mailbox`. `early` remembers the last version notified to nobody, `late` counts
what is enqueued after the unsubscription.

### GitRefs

One key in Redis (`entry`): nothing, a lock with the id of a call, or
references, numbered by the push that made them. Each access of Redis is a step;
so are the listing, and the two parts of `UnlockGitReferences`. Time is not
measured: an entry may expire at any moment, and a wait may end whenever its
clock is read. `overdue` is a ghost: some lock has expired under its owner, or
some call has listed without the lock (its wait ended, or it had no id).

### Checkout

One repository on the disk of one server. A directory is absent, empty, a
repository without a remote, or a clone, with its commits, its working tree
(a commit, or `Mixed` when git was stopped), untracked files and lock files.
An attempt runs the steps of `checkoutRevision`; each may fail, and the process may
be killed between any two, with the directory kept (a container restart) or
lost (an eviction). `Restore` is `Service.Init`. What git does is external: a
fetch brings a commit with its ancestors, also when the command for LFS files
fails after it; a killed `git checkout` may leave `index.lock`, and a killed `git
fetch` the locks of references, on which later fetches may fail. Permissions and
concurrent requests are in `RepoLock`, whose
`StartInit`, `FinishInit` and `FailInit` are the begin and the ends of an attempt.

## 3. Runs

| Run | Instance | Checks |
|---|---|---|
| `appqueue_parallel` | 2 applications, 2 workers, 3 updates each | `SingleHandler`, `LatestKept`, `NoStaleHandling`, `ImplementsMailbox`, `Delivered` |
| `appqueue_full` | 4 applications, 1 worker (channel of 2), 2 updates each | `TypeOK`, `BookkeepingExact` (`QueueConsistent`, `DoneExpected`, `GaugeExact`), `NoLostWakeup`, `StopLimit`, `NeverOvertaken`, `StopDrains` |
| `repolock` | 3 goroutines, 2 revisions, 5 calls | `TypeOK`, `UsersSeeTheirRevision`, `SharedOnlyIfAllowed`, `CountExact`, `NoForgottenSleeper`, `CallsReturn` |
| `reconcile_single` | 1 git source, 3 commits, settled, 2 syncs, 1 failing call or restart | `TypeOK`, `AccurateUnlessMisread`, `NeverAhead`, `NeverOlder` |
| `reconcile_sources` | git source (2 commits), chart and a fork that takes the source's place and name (1 each), new or settled, 2 syncs or edits, 1 restart | `DeployedRecorded`, `AnnotationsAgree`, `ChangeFound`, `Settles` |
| `reconcile_coalesced` | violation, 1 git source, 2 syncs | `AccurateAtAnyPace` |
| `reconcile_rpc_error` | violation, 1 sync, a failing request | `EventuallyAccurate` |
| `reposerver_scan` | all histories of 4 commits without merges, 2 requests, 1 failure | `TypeOK`, `AnswerIsLastChange`, `ChangeReported` |
| `reposerver_merge` | violation, with merges | `ChangeReported` |
| `eventhandler` | 2 applications, 2 versions each, 1 lost watch | `TypeOK`, `InOrder`, `LateLimit`, `HandledUnlessEarly` |
| `gitrefs` | 2 goroutines, 3 calls, 1 push, 2 faults | `TypeOK`, `SingleLister`, `NoStepBack`, `CallsReturn` |
| `checkout` | 4 commits (a branch that may be forced, a pull request), 1 push, 3 faults | `TypeOK`, `RevisionInPlace` (`TreeIsRevision`, `HistoryPresent`), `OneClone`, `Recovers` |

*Bounds.* Two applications and two workers let both be handled at once while
each is updated again; four applications with one worker fill worker, channel and
hand at once, so the loop blocks, and is stopped there. Three versions are one handled, one
pending and one newer. Three goroutines and two revisions give two holders and a
waiter for the other revision, and five calls let two of them come back. Three
commits are the previous, the skipped and the current one; two syncs after a
settled first one are what a stale copy needs (one handled, one overtaking), and
each is several events; one of them undelivered at Argo CD's next step (two in the
violations), with one in the queue and one under handling, lets every object in the course of a
sync be handled late, and be left out.
Four commits are the smallest graph with a fork and a merge. The start
"settled" is an application with a first sync behind it, a state that the
start "new" reaches, to save those steps. Two sources can be swapped, one of them
removed or replaced under its name, and two changes are an edit and a sync of the
edited list, in either order; the swap also brings the chart to a place where it
takes its second pass. In `EventHandler` the second version makes the difference between
the replayed and the watched object, and the second application is there to be
notified in between. In `GitRefs` two goroutines and three calls give an owner,
a waiter and a call that begins after an answer; two faults are a listing that
fails and the unlocking that fails after it, or a lost owner and a failing
call. In `Checkout` three faults are a failed step, a kill in the repair, and one
more; every path a new clone may get is within `MaxFaults + 1`. The safety
properties are proved without these bounds (section 5); the liveness properties
rest on them.

*Accurate.* The claim of the repository's `README.md:8` is the state predicate
`Accurate`: whenever the controller has caught up with a synced application, the
annotations are the deployed revision and the commit that last changed the
application. The code does not keep it in all circumstances, and the runs say in
which ones. If syncs overtake the controller it fails although they go forward and
nothing else is wrong (`AccurateAtAnyPace`, finding 1). If every sync is handled
before the next one begins, goes forward and no call fails (`InTurn`), it still
fails when the handler gets certain objects in the course of a sync
(the first observation in section 4). `AccurateUnlessMisread` is what remains: in
turn, and without such an object, it holds, also across restarts and failing
syncs; for an application that is new, too, by the theorem of section 5. What is
true when syncs overtake the controller is checked without these conditions: the
deployed revision is recorded and the annotations agree, after rollbacks too; and
nothing goes back or ahead unless a revision does, also when calls fail.
`ChangeFound` is what an edit of the sources leaves of accuracy: what came with
the last sync is not lost.

*Deadlock.* All models but `Checkout` may stop: there is nothing to do until
another event or request comes, and the bounds end those. In `Checkout` the
requests are not bounded, and deadlock is checked.

*Fairness.* `AppQueue`: weak fairness of the loop and of each worker, which are
goroutines, and of the handler, which the event timeout ends. `Stop` and
`Enqueue` are not fair. `RepoLock`: weak fairness of each goroutine inside
`Lock`; git commands have a timeout, and the closer is deferred. `Mutex`
acquisition is fair in that sense because Go's mutex is starvation-free.
`Reconcile`: weak fairness of the informer, of an idle worker and of each step of
a handling (`Advance`), and nothing of Argo CD.
`EventHandler`: weak fairness of the informer, the controller's goroutine, the
broadcaster (the informer's listener goroutine) and each worker; none of the
changes, the lost watch and the cancellation. `GitRefs`: weak fairness of each
goroutine, and strong fairness of giving up, since the loop's condition is read
again every second and time passes; entries need not expire. `Checkout`: weak
fairness of the attempt and of the restart of a container that has ended.

## 4. Findings

1. `reconcile_coalesced`. The range searched starts at the second newest history
   entry, not at the revision annotated last. Two syncs within one handling, or
   while the controller is down, leave out the commits of the first.
2. `reconcile_rpc_error`. A failing request to the repo server advances the
   git-revision annotation; the revision then counts as calculated, and the
   change revision stays wrong. The changelog lists a retry of failed updates
   and a periodic resync; the handler only logs the error, and the informer's
   resync period is 0.
3. `reposerver_merge`. A change that comes in by merging a branch that forked
   before the previous revision is on neither list: `--ancestry-path` leaves the
   branch's commits out and `diff-tree` prints nothing for the merge.

Observations without a run of their own:

* The service takes the newest history entry of a Synced application for the one of
  the sync whose result is shown (`mrp_service.go:510`). While a sync is running,
  an application that still counts as Synced shows its result before its history
  entry. With one entry the range then has no beginning, and the commit being
  deployed is recorded as the change revision although it touches nothing; as the
  git revision is recorded with it, nothing is calculated again. The other such
  objects: a history entry whose result is not shown yet, and an operation that
  names the newest entry's revision. `Misleading` describes them, and without
  `~misread` TLC refutes `AccurateUnlessMisread` with a single sync.
* A source that keeps its name and gets another repository is taken for its former
  self (`mrp_service.go:412`): the previous revision sent to the repo server is a
  commit of the old repository, the request fails, and by the mechanism of
  finding 2 the old repository's commit stays as the change revision. Without the
  name there is no previous revision, and the current one would be recorded.
  `TellsApart` keeps `ChangeFound` to sources that are not mistaken.
* `Stop` cancels the context and does not signal the condition variable, so a loop
  waiting on an empty queue sleeps on, and the workers with it, until the next
  update, against the comment "Wait until queue has items or context is done"
  (`appqueue.go:96`). `StopDrains` is about a loop that is awake.
* A loop that is awake when the pool is stopped may return with an item in its hand,
  whether the channel had room for it or not: `select` chooses freely
  (`appqueue.go:161-164`). Then the channel is not closed, the workers wait for
  ever, and this application stays in processing. `StopDrains` says that nothing
  else is left behind.
* After a rollback there is no path from the previous to the current revision, and
  the current one is recorded as the change revision, whether it changed anything
  or not; and a patch made from a copy of before may be ahead. The properties on
  the change revision exclude rollbacks (`back`), those on the git revision do not.
* For an annotation absent from the copy, "keep as is" (`mrp_service.go:155`) is a
  patch with the empty string, which overwrites what has been written since. It
  heals with the next Synced event. `NeverOlder` allows it for that reason.
* A chart source's change revision is set to the old git-revision annotation, so
  it is one version behind until the event of the patch itself is handled
  (`DeployedRecorded` says that it catches up).
* `NeverOlder` is stated for one source: with several, the arrays are patched
  whole, and a copy taken before another source's answer came in, together with
  a failing request, can put an older change revision back.
* When the repo server finds no change in the range and nothing is annotated yet,
  the current revision is recorded as the change revision, although it changed
  nothing. A later answer can be an older commit. `NeverOlder` is therefore about
  a recorded commit that did change the application.
* After a failing request plain annotations and arrays need not agree, and a
  chart's change revision may stay behind: both properties are of runs and
  theorems without failing calls.
* After an edit of the sources a change revision may be ahead of the git revision
  at its position, which is another source's: `NeverAhead` is of applications
  whose sources stay.
* After an edit that moves a source to another position, the change revision found
  there is the other source's until a commit touches the source. The previous
  revision is looked up by name or identity, so no range is lost (`ChangeFound`).
* An application notified between `AddEventHandler` and `Subscribe` is not handled
  until it changes again, since nothing is resynced (`HandledUnlessEarly`
  excludes exactly these).
* A listing that outlives its lock can overwrite newer references, and an unlock
  whose lock expires between its get and its delete removes another's entry;
  `overdue` marks both. A repository without references is not distinguished from
  an empty entry, so each call waits for the whole lock time before it lists.
* `Init` of the git client accepts a repository whose remote was never created, and
  nothing removes the `index.lock` of a killed `git checkout` or the locks of
  references of a killed `git fetch`: the three states `Stuck` in `Checkout`. The
  first lasts as long as the process, since a restart does not find a directory
  without a remote; the others as long as the directory. A locked reference only
  matters to a revision that has yet to be fetched.
* A previous revision that was forced away is not among the ancestors of the
  current one and may be missing from a fresh clone; `rev-list` then fails, on
  every attempt, with the consequence of finding 2.

## 5. Theorems

Every safety property that a passing run checks, but `ChangeFound`, is a theorem,
for any
applications, goroutines, sources, commit graphs and bounds that satisfy the
`ASSUME`s of the modules (finite sets of actors, non-empty sets of commits, a
list with a single source for a single-source application, at least one version
per object in `EventHandler`). Each proof module has one inductive invariant,
`IInv`, the lemmas that each action keeps it, and the theorems, which follow by
propositional temporal logic. TLC checked the invariants on small instances
before they were proved.

`AppQueueProofs` proves each safety property of `AppQueue`. None of them is
inductive alone. That an application has one handler needs to know where its key
can be: `InFlightExclusive` says that the keys in hand, channel and workers are
pairwise different and are exactly the keys in processing, and `QueueConsistent`
that list and index agree and list and processing are disjoint. That no update is
lost (`LatestKept`) needs that a queued or pending version is the newest
(`Newest`); that handling is in order needs that versions in flight are newer than
the handled one (`Fresh`, `VersionOrder`); the stop limit needs to know what a
stopped loop can still hold (`Held`, `Accounted`). `BooksAreRight` puts the
theorems on list and index, `Done` and gauge together into the property that
`appqueue_full` checks.

`AppQueueRefinement` proves `Spec => MB!Spec`: the initial states map, and each
action maps to `Submit`, `Claim`, `Finish`, `Release` or a stutter. It needs that
the handled key's active version is that of exactly one worker, which follows
from `IInv`.

`RepoLockProofs` proves the five invariants of `RepoLock`. That a holder sees its
revision is not inductive: a joiner is let in by `revision`, not by the tree, and
`init` changes the tree without looking for holders. The invariant adds
`MutexOwner` (the mutex is held across steps only by the caller in `init`, while
the path counts as free), `StateDescribesHolders` (the revision is each holder's,
the tree holds it, a sharing flag that is set is each holder's wish) and
`SharingNeedsFlag` (several holders only with the flag); `CountExact` then says
that a free path has no holder, which is what makes `init` harmless.

`EventHandlerProofs` proves `InOrder` and `LateLimit`, and that no worker handles an
object older than the one before (`HandledNeverOlder`). Order is lost if a list, or
the replay at the registration, could put an object behind a newer one. What
excludes it: equal versions are equal objects (`WatchIsNewest`), so a list differs
from the informer's copy only by something newer; the queue is never ahead of that
copy (`QueueBehindStore`); nothing has gone out before the registration
(`NothingBeforeRegister`). `LateCount` ties the late event to the one notification
that still holds a copy of the subscribers.

`GitRefsProofs` proves `SingleLister` and `NoStepBack`. Both rest on
`OwnersHoldLock`: unless something is overdue, whoever is between listing and
deleting finds its own id in the cache; ids of calls under way differ
(`IdsDistinct`). Answers do not go back because everything that can still become
one, the cached references and those a call has listed, is not older than the
newest answer (`Fresh`).

`CheckoutProofs` proves `RevisionInPlace` and `OneClone`. The history of the
revision is there because a clone has the history of every commit it has
(`ObjectsClosed`), after any fetch, failure, kill or restart; the tree because
nothing between `git checkout` and the use of it moves the tree (`TreeInPlace`).
`OthersUnread` says that the clones other than the one in use are those that
could not be read at a start.

`RepoServerProofs`: the caches hold what git would say (`CachesHoldWhatGitSays`),
whoever filled them; a scan has looked at the newest part of its range in vain
(`ScanRight`). `AnswerOnTheWay` holds for every commit graph. That nothing changed
the application after the answer (`LastChangeAnswered`, `NoChangeMissed`) is proved
for histories without merges, and finding 3 shows it false with them. The
history of a commit is defined in `CommitGraph` as the least set closed under
parents; that makes "the content is the same along a range without a change"
an induction over sets, with the library's theorem that a non-empty set of
numbers has a least one, instead of one over a recursive definition.

`ReconcileProofs` has three layers.

* `IInv`: the types of the application, of every copy of it and of the patch
  (`Types`, with the fact that what Argo CD deploys are revisions of the sources
  they are listed with); `NothingMissed`, which says that the last object under
  way is the one on the API server and that a controller at rest would make an
  empty patch of it unless a call has failed; `SyncStages`, which says what the
  object shows of a sync at each of its stages. It holds with edits of the sources
  and with rollbacks. `AnnotationsAgreeAtRest` and `DeployedIsRecorded` follow: an
  empty patch means that the annotations are what the handler would write. Both
  need that no call has failed, since a failing call ends a handling that would
  have changed something; the second one that no list names a source twice
  (`Distinct`), since the deployed revision is found by source.
* `GrowInv`, if the sources are not edited and as long as `back` is false: the
  objects under way show their current revisions in order (`CurInOrder`), nothing
  ever seen is above what Argo CD may show next (`CeilingHolds`: not above the
  newest revision resolved, the one shown, nor the `Aim` of the sync under way),
  and what is annotated comes from objects before those under way
  (`AnnotatedBefore`). The patch is the hard step, since it writes what was made of
  an outdated copy over the annotations of now, each only if it differs from the
  copy. `ChangeNeverAhead` and, for a single source, `ChangeNeverOlder` follow,
  with any failures and restarts.
* `Turn`, while no sync overtakes the controller, none goes back, no call fails and
  nothing is misread: change and git revision of a source belong together
  (`PairsRight`), the git revision has reached every sync that was handled
  (`HandledReached`), so that the range asked about begins where the annotated
  change ends, and no sync is older than the first (`FirstSync`). Which syncs were
  handled has to be read off a copy as well as off the object, in the middle of the
  next sync too (`HandledUpTo`, `HandledNow`). With it, `AccurateIfNotMisread`: the
  annotations of an application the controller has caught up with are accurate,
  for any number of sources, syncs, steps of a sync handled or left out, failed
  syncs and restarts.

The hypotheses are needed: TLC violates `NeverAhead` and `AccurateUnlessMisread`
with edits, `NeverOlder` with several sources and a failing request, and
`DeployedRecorded` and `AnnotationsAgree` with failing calls.

Only model-checked: every liveness property (`Delivered`, `StopDrains`,
`CallsReturn` of the lock and of the references, `Settles`, `HandledUnlessEarly`,
`Recovers`), since the prover knows neither `ENABLED` nor fairness.

## 6. Not modelled

Most of the repository's lines are generated code (protobuf, deep copies,
OpenAPI, clientsets) and Argo CD's API types and libraries, kept with the fork
and largely not called by the two programs built from it: there is no behaviour
of this system in them to model.

Left out of Argo CD, in `Reconcile`: branches that are not linear and forced
pushes (`RepoServer` and `Checkout` have them), so that the only way to an older
revision is a rollback along the branch; an application whose last sync failed
and that is found Synced later all the same; a comparison between the request of
a sync and its first result; an edit of the sources during a sync; and the
trimming of the history to its limit, which removes entries older than the two
the service reads (with a limit below two it finds no previous revision). Of Kubernetes, a conflict of the merge patch: it names no
resource version, so there is none.

Of its own code: path matching (`AppFilesHaveChanged`), the choice of a
reference in `lsRemote`, string formats, and JSON errors in annotations written
by others are functions of strings, taken by their results; metrics other than
the queue length, credentials, GPG keys and TLS have no influence on the
annotations; settings and the repository database are reads that succeed or
fail, which `Reconcile` has as a failing calculation; flags. Of git, its automatic
garbage collection is left out: it removes only what neither a reference nor
the checked out commit leads to.

## 7. Plan

In order of importance:

1. `Checkout` as an implementation of the init steps of `RepoLock`.
2. Merges in the passing run of `RepoServer` with the property that survives
   them, which `AnswerOnTheWay` proves.
3. Path matching as operators, against a reference definition.
4. Proofs: `ChangeFound`, and what holds of the change revisions when syncs
   overtake the controller and nothing fails, for several sources.
