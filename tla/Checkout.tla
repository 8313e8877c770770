------------------------------ MODULE Checkout ------------------------------
(***************************************************************************)
(* The clone a repo server keeps of one repository, and how a request gets *)
(* its revision there: Service.Init, newClient and checkoutRevision of     *)
(* reposerver/repository/repository.go, util/io/paths.go, and Init,        *)
(* IsRevisionPresent, Fetch and Checkout of util/git/client.go.            *)
(*                                                                         *)
(* checkoutRevision runs under the repository lock (module RepoLock), one  *)
(* attempt at a time.  The directory outlives the process: a container     *)
(* that is killed between any two steps finds it again when it restarts.   *)
(* Commits stand for the files they hold.  Permissions are in RepoLock.    *)
(***************************************************************************)
EXTENDS Integers, FiniteSets, CommitGraph

CONSTANTS
  Commits,     \* positive numbers, a parent's below its child's
  Parents,     \* the commits' parents
  Heads,       \* the commits that the branch may be at, by a push or by force
  Unlisted,    \* commits under other refs, such as those of pull requests
  MaxPushes,   \* bound on pushes
  MaxFaults    \* bound on failing commands, on restarts and on evictions

ASSUME GraphAssumption ==
  /\ Commits \subseteq Nat \ {0}
  /\ Parents \in [Commits -> SUBSET Commits]
  /\ \A c \in Commits : \A p \in Parents[c] : p < c
ASSUME RefsAssumption ==
  Heads \subseteq Commits /\ Unlisted \subseteq Commits /\ Heads # {}
ASSUME BoundsAssumption == MaxPushes \in Nat /\ MaxFaults \in Nat

VARIABLES
  head,      \* where the remote's branch is
  served,    \* commits the remote has
  dir,       \* the directories under rootDir
  path,      \* gitRepoPaths' entry for the repository, NoPath if it has none
  pc,        \* where the attempt is
  rev,       \* the revision it is to check out
  fallback,  \* it is past the first Checkout
  fetched,   \* the first entry of FETCH_HEAD
  unread,    \* clones that Service.Init failed to find again
  pushes, faults

remote == <<head, served, pushes>>
attempt == <<rev, fallback, fetched>>
vars == <<remote, dir, path, pc, attempt, unread, faults>>

NoPath == 0
Mixed == 0       \* a working tree of no particular commit; no commit
Paths == 1 .. MaxFaults + 1

\* How far Init has come: nothing there, an empty directory, a repository
\* without a remote, and with one.
Stages == {"absent", "empty", "bare", "clone"}

NoDir == [stage |-> "absent", objects |-> {}, tree |-> Mixed, stray |-> FALSE,
          locks |-> {}]

PCs == {"down", "idle", "open", "wipe", "init", "remote", "present", "fetch",
        "checkout", "clean", "fetchRevision", "using"}

Ancestors(c) == History(Commits, Parents, c)

here == dir[path]
Clones == {p \in Paths : dir[p].stage = "clone"}

-----------------------------------------------------------------------------
Init ==
  /\ head \in Heads
  /\ served = Ancestors(head) \cup UNION {Ancestors(c) : c \in Unlisted}
  /\ dir = [p \in Paths |-> NoDir]
  /\ path = NoPath
  /\ pc = "down"
  /\ rev = Mixed
  /\ fallback = FALSE
  /\ fetched = Mixed
  /\ unread = 0
  /\ pushes = 0
  /\ faults = 0

\* A command fails, or the server is stopped.
Fault == faults < MaxFaults /\ faults' = faults + 1

-----------------------------------------------------------------------------
(* The remote and the container (external).                                *)

\* The branch moves, forwards or by force.  The remote keeps what it had.
Push ==
  /\ pushes < MaxPushes
  /\ pushes' = pushes + 1
  /\ \E c \in Heads \ {head} :
       head' = c /\ served' = served \cup Ancestors(c)
  /\ UNCHANGED <<dir, path, pc, attempt, unread, faults>>

\* git fetch origin brings c with all its history: the branch, or in the
\* fallback the revision.
Wanted == IF pc = "fetchRevision" THEN rev ELSE head
Fetched(c) == [dir EXCEPT ![path].objects = @ \cup Ancestors(c)]

\* What a process that is killed leaves.  git checkout leaves the tree half
\* written, git fetch may have brought the commits, and each may leave its lock
\* files.
Killed ==
  CASE pc = "checkout" ->
         {[dir EXCEPT ![path].tree = Mixed, ![path].stray = TRUE,
                      ![path].locks = @ \cup l] : l \in SUBSET {"index"}}
    [] pc \in {"fetch", "fetchRevision"} /\ here.stage = "clone" ->
         {[d EXCEPT ![path].locks = @ \cup l] :
            d \in {dir, Fetched(Wanted)}, l \in SUBSET {"refs"}}
    [] OTHER -> {dir}

\* The process is killed; an eviction takes the directories along.
Crash ==
  /\ pc # "down"
  /\ Fault
  /\ pc' = "down"
  /\ path' = NoPath
  /\ rev' = Mixed /\ fallback' = FALSE /\ fetched' = Mixed
  /\ \/ dir' = [p \in Paths |-> NoDir] /\ unread' = 0
     \/ dir' \in Killed /\ UNCHANGED unread
  /\ UNCHANGED remote

-----------------------------------------------------------------------------
(* Start-up and paths.                                                     *)

\* Faulty variant: the directories are not looked through.
RestoreNothing ==
  /\ pc = "down"
  /\ pc' = "idle"
  /\ path' = NoPath
  /\ UNCHANGED <<remote, dir, attempt, unread, faults>>

\* Service.Init: of the directories with a remote, the last one listed (by a
\* random name) is the repository's; the others are passed over.
Restore ==
  /\ pc = "down"
  /\ pc' = "idle"
  /\ IF Clones = {} THEN path' = NoPath ELSE path' \in Clones
  /\ UNCHANGED <<remote, dir, attempt, unread, faults>>

\* Service.Init could not read the directory: a warning, and no paths.
RestoreFails ==
  /\ pc = "down"
  /\ Fault
  /\ pc' = "idle"
  /\ path' = NoPath
  /\ unread' = Cardinality(Clones)
  /\ UNCHANGED <<remote, dir, attempt>>

\* GetPath: the path known for the repository, or a new one.
Request ==
  /\ pc = "idle"
  /\ rev' \in served
  /\ path' \in IF path # NoPath THEN {path}
               ELSE {p \in Paths : /\ dir[p].stage = "absent"
                                   /\ \A q \in 1 .. p - 1 : dir[q].stage # "absent"}
  /\ fallback' = FALSE
  /\ fetched' = Mixed
  /\ pc' = "open"
  /\ UNCHANGED <<remote, dir, unread, faults>>

-----------------------------------------------------------------------------
(* Init of the git client.                                                 *)

\* Faulty variant: any directory is taken for a repository.
OpenAnything ==
  /\ pc = "open"
  /\ pc' = IF here.stage # "absent" THEN "present" ELSE "wipe"
  /\ UNCHANGED <<remote, dir, path, attempt, unread, faults>>

\* PlainOpen: a repository, with or without a remote, is taken as it is.
Open ==
  /\ pc = "open"
  /\ pc' = IF here.stage \in {"bare", "clone"} THEN "present" ELSE "wipe"
  /\ UNCHANGED <<remote, dir, path, attempt, unread, faults>>

\* RemoveAll and MkdirAll; PlainInit; CreateRemote.  Each may fail, and ends
\* the attempt with what the ones before it have made.
InitStep(at, stage, next) ==
  /\ pc = at
  /\ dir' = [dir EXCEPT ![path] = [NoDir EXCEPT !.stage = stage]]
  /\ pc' = next
  /\ UNCHANGED <<remote, path, attempt, unread, faults>>

Wipe == InitStep("wipe", "empty", "init")
PlainInit == InitStep("init", "bare", "remote")
CreateRemote == InitStep("remote", "clone", "present")

\* The attempt is over: GetChangeRevision returns its answer, or the error.
Return ==
  /\ pc' = "idle"
  /\ rev' = Mixed /\ fallback' = FALSE /\ fetched' = Mixed
  /\ UNCHANGED <<remote, path, unread>>

InitFails ==
  /\ pc \in {"open", "wipe", "init", "remote"}
  /\ Fault
  /\ Return
  /\ UNCHANGED dir

-----------------------------------------------------------------------------
(* Fetch and Checkout.                                                     *)

\* IsRevisionPresent: a commit that is there is not fetched.  If it cannot be
\* looked up it counts as missing.
IsRevisionPresent ==
  /\ pc = "present"
  /\ \/ pc' = (IF rev \in here.objects THEN "checkout" ELSE "fetch") /\ UNCHANGED faults
     \/ pc' = "fetch" /\ Fault
  /\ UNCHANGED <<remote, dir, path, attempt, unread>>

\* Fetch(""): the branches.
Fetch ==
  /\ pc = "fetch"
  /\ here.stage = "clone"
  /\ dir' = Fetched(head)
  /\ fetched' = head
  /\ pc' = "checkout"
  /\ UNCHANGED <<remote, path, rev, fallback, unread, faults>>

\* Faulty variant: the fallback fetches the branches once more.
FetchRevisionDefault ==
  /\ pc = "fetchRevision"
  /\ here.stage = "clone"
  /\ dir' = Fetched(head)
  /\ fetched' = head
  /\ fallback' = TRUE
  /\ pc' = "checkout"
  /\ UNCHANGED <<remote, path, rev, unread, faults>>

\* Fetch(revision), which the remote also serves if no branch leads there.
FetchRevision ==
  /\ pc = "fetchRevision"
  /\ here.stage = "clone"
  /\ dir' = Fetched(rev)
  /\ fetched' = rev
  /\ fallback' = TRUE
  /\ pc' = "checkout"
  /\ UNCHANGED <<remote, path, rev, unread, faults>>

\* There is no remote to fetch from, or a command fails: git fetch, or the one
\* for LFS files, after git fetch has brought the commits.  A locked ref may
\* make git fetch fail, also after that.
FetchFails ==
  /\ pc \in {"fetch", "fetchRevision"}
  /\ Return
  /\ IF here.stage = "clone" THEN dir' \in {dir, Fetched(Wanted)} ELSE UNCHANGED dir
  /\ IF here.stage = "clone" /\ "refs" \notin here.locks THEN Fault ELSE UNCHANGED faults

\* What is checked out: the revision, and in the fallback FETCH_HEAD.
Target == IF fallback THEN fetched ELSE rev

CanCheckout == Target \in here.objects /\ "index" \notin here.locks

\* git checkout --force: untracked files stay.
GitCheckout ==
  /\ pc = "checkout"
  /\ CanCheckout
  /\ dir' = [dir EXCEPT ![path].tree = Target]
  /\ pc' = "clean"
  /\ UNCHANGED <<remote, path, attempt, unread, faults>>

\* The commands for LFS files, no submodules (GetChangeRevision does not ask for
\* them), and git clean -ffdx; Checkout returns, and Lock with it.
Clean ==
  /\ pc = "clean"
  /\ dir' = [dir EXCEPT ![path].stray = FALSE]
  /\ pc' = "using"
  /\ UNCHANGED <<remote, path, attempt, unread, faults>>

\* Faulty variant: an error of the first Checkout is returned.
CheckoutFailsAtOnce ==
  /\ pc \in {"checkout", "clean"}
  /\ IF pc = "checkout" /\ ~CanCheckout THEN UNCHANGED faults ELSE Fault
  /\ Return
  /\ UNCHANGED dir

\* Checkout fails: for want of the commit, on a lock file, or because one of
\* its commands did (the checkout, the two for LFS after it, or the clean;
\* one stopped in its course leaves what it has written).  The first time, the
\* revision is fetched by name.
CheckoutFails ==
  /\ pc \in {"checkout", "clean"}
  /\ IF pc = "checkout" /\ ~CanCheckout
     THEN UNCHANGED <<dir, faults>>
     ELSE /\ Fault
          /\ dir' \in {dir, [dir EXCEPT ![path].tree = Mixed, ![path].stray = TRUE]}
  /\ IF fallback THEN Return
     ELSE pc' = "fetchRevision" /\ UNCHANGED <<remote, path, attempt, unread>>

\* The request is answered and the lock closed.
Close ==
  /\ pc = "using"
  /\ Return
  /\ UNCHANGED <<dir, faults>>

-----------------------------------------------------------------------------
Step ==
  \/ Open \/ Wipe \/ PlainInit \/ CreateRemote \/ InitFails
  \/ IsRevisionPresent \/ Fetch \/ FetchRevision \/ FetchFails
  \/ GitCheckout \/ Clean \/ CheckoutFails \/ Close

Next == Push \/ Crash \/ Restore \/ RestoreFails \/ Request \/ Step

Spec == Init /\ [][Next]_vars

\* The kubelet restarts a container that has ended, and an attempt goes on:
\* git commands have a timeout.
FairSpec == Spec /\ WF_vars(Restore) /\ WF_vars(Step)

-----------------------------------------------------------------------------
(* Safety.                                                                 *)

\* Every variable has its type, and past Init there is a repository.
TypeOK ==
  /\ head \in Heads
  /\ served \subseteq Commits
  /\ dir \in [Paths -> [stage : Stages, objects : SUBSET Commits,
                        tree : Commits \cup {Mixed}, stray : BOOLEAN,
                        locks : SUBSET {"index", "refs"}]]
  /\ path \in Paths \cup {NoPath}
  /\ pc \in PCs
  /\ rev \in Commits \cup {Mixed}
  /\ fallback \in BOOLEAN
  /\ fetched \in Commits \cup {Mixed}
  /\ unread \in 0 .. MaxFaults + 1
  /\ pushes \in 0 .. MaxPushes
  /\ faults \in 0 .. MaxFaults
  /\ pc \in {"present", "fetch", "checkout", "clean", "fetchRevision", "using"} =>
       path # NoPath /\ here.stage \in {"bare", "clone"}

\* The tree holds the files of the revision asked for and no others.
TreeIsRevision == here.tree = rev /\ ~here.stray

\* The history of the revision is there for ListRevisions: a previous revision
\* that it descends from can be named to rev-list (mrp_client.go:68), although
\* only one of the two was ever asked for.
HistoryPresent == Ancestors(rev) \subseteq here.objects

\* When checkoutRevision returns without an error (repository.go:2679-2719) the
\* tree is that of the revision and the history behind it is there, whichever
\* way it got there and whatever attempts and processes that were stopped had
\* left behind.
RevisionInPlace == pc = "using" => TreeIsRevision /\ HistoryPresent

\* A restart finds the clone again and no second one is made, except for a
\* clone that could not be read at a start (repository.go:150-183).
OneClone == Cardinality(Clones) <= 1 + unread

-----------------------------------------------------------------------------
(* Liveness.                                                               *)

\* What no later attempt in this process repairs: Init takes a repository
\* without a remote for a finished one, and nothing removes the lock files of a
\* git that was killed, which keep it from checking out, or from fetching a
\* revision that is not there.
Stuck ==
  /\ path # NoPath
  /\ \/ here.stage = "bare"
     \/ "index" \in here.locks
     \/ "refs" \in here.locks /\ rev \notin here.objects

\* An attempt that meets no fault of its own succeeds, whatever earlier ones
\* left in the directory, unless that is one of the Stuck states.
Recovers ==
  \A n \in 0 .. MaxFaults :
    (pc = "open" /\ ~Stuck /\ faults = n) ~> (pc = "using" \/ faults > n)
=============================================================================
