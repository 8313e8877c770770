--------------------------- MODULE CheckoutProofs ---------------------------
(***************************************************************************)
(* Proofs about module Checkout, for every commit graph, any branches and  *)
(* any number of pushes and faults: type correctness, that a checkout that *)
(* succeeds has the revision and its history in place, and that restarts   *)
(* make no second clone.                                                   *)
(***************************************************************************)
EXTENDS Checkout, FiniteSetTheorems, TLAPS

Dirs == [stage : Stages, objects : SUBSET Commits, tree : Commits \cup {Mixed},
         stray : BOOLEAN, locks : SUBSET {"index", "refs"}]

Busy == {"open", "wipe", "init", "remote", "present", "fetch", "checkout", "clean",
         "fetchRevision", "using"}

-----------------------------------------------------------------------------
(* The inductive invariant.                                                *)

\* A clone has the history of every commit that it has.
ObjectsClosed ==
  \A p \in Paths : \A c \in dir[p].objects : Ancestors(c) \subseteq dir[p].objects

\* An attempt has a directory and a revision; in the fallback FETCH_HEAD is
\* that revision.
AttemptShape ==
  /\ pc \in Busy => path # NoPath /\ rev \in Commits
  /\ fallback => fetched = rev /\ pc \in {"checkout", "clean", "using"}

\* From git checkout on the tree is that of the revision, which the clone has;
\* after git clean nothing else is left in it.
TreeInPlace ==
  /\ pc \in {"clean", "using"} => here.tree = rev /\ rev \in here.objects
  /\ pc = "using" => ~here.stray

\* Next to the directory of the repository there are only clones that could
\* not be read at a start.
OthersUnread ==
  IF pc = "down" THEN OneClone ELSE Cardinality(Clones \ {path}) <= unread

Placed == TypeOK /\ ObjectsClosed /\ AttemptShape /\ TreeInPlace
IInv == Placed /\ OthersUnread

-----------------------------------------------------------------------------
(* Lemmas about the history of a commit.                                   *)

\* The history of a commit has the commit, lies in the graph and has the
\* history of each of its commits.
LEMMA AncestorsClosed ==
  ASSUME NEW c \in Commits
  PROVE  /\ c \in Ancestors(c)
         /\ Ancestors(c) \subseteq Commits
         /\ \A x \in Ancestors(c) : Ancestors(x) \subseteq Ancestors(c)
<1>1. c \in Ancestors(c) /\ Ancestors(c) \subseteq Commits
  BY DEF Ancestors, History
<1>2. ASSUME NEW x \in Ancestors(c), NEW y \in Ancestors(x)
      PROVE  y \in Ancestors(c)
  <2> SUFFICES ASSUME NEW S \in SUBSET Commits, c \in S, WithParents(Parents, S)
               PROVE  y \in S
    BY <1>2 DEF Ancestors, History
  <2>1. x \in S
    BY <1>2 DEF Ancestors, History
  <2> QED
    BY <1>2, <2>1 DEF Ancestors, History
<1> QED
  BY <1>1, <1>2

-----------------------------------------------------------------------------
(* Lemmas about the directories.                                           *)

\* The new paths of the bound are numbers other than NoPath.
LEMMA PathsAreNumbers ==
  /\ Paths \subseteq Nat \ {0}
  /\ NoPath \notin Paths
  /\ IsFiniteSet(Paths)
  /\ Cardinality(Paths) = MaxFaults + 1
<1>1. Paths \subseteq Nat \ {0} /\ NoPath \notin Paths
  BY BoundsAssumption DEF Paths, NoPath
<1>2. IsFiniteSet(1 .. MaxFaults + 1)
      /\ Cardinality(1 .. MaxFaults + 1) = IF 1 <= MaxFaults + 1 THEN MaxFaults + 1 - 1 + 1 ELSE 0
  BY FS_Interval, BoundsAssumption
<1>3. IsFiniteSet(Paths) /\ Cardinality(Paths) = MaxFaults + 1
  BY <1>2, BoundsAssumption DEF Paths
<1> QED
  BY <1>1, <1>3

\* Clones are finitely many, one per directory at most.
LEMMA ClonesFinite ==
  /\ IsFiniteSet(Clones)
  /\ Cardinality(Clones) \in 0 .. MaxFaults + 1
<1>1. Clones \subseteq Paths
  BY DEF Clones
<1>2. IsFiniteSet(Clones) /\ Cardinality(Clones) <= Cardinality(Paths)
  BY <1>1, FS_Subset, PathsAreNumbers
<1>3. Cardinality(Clones) \in Nat
  BY <1>2, FS_CardinalityType
<1> QED
  BY <1>2, <1>3, PathsAreNumbers, BoundsAssumption

\* The directory of an attempt.
LEMMA HereType ==
  ASSUME TypeOK, path # NoPath
  PROVE  path \in Paths /\ here \in Dirs
BY DEF TypeOK, here, Dirs

\* A step that writes d into the attempt's directory leaves the others alone.
LEMMA HereWritten ==
  ASSUME TypeOK, path \in Paths, path' = path, NEW d \in Dirs,
         dir' = [dir EXCEPT ![path] = d]
  PROVE  /\ dir' \in [Paths -> Dirs]
         /\ here' = d
         /\ \A p \in Paths \ {path} : dir'[p] = dir[p]
BY DEF TypeOK, here, Dirs

\* What the steps write into it has its type.
LEMMA DirsWritten ==
  ASSUME NEW d \in Dirs
  PROVE  /\ \A st \in Stages : [NoDir EXCEPT !.stage = st] \in Dirs
         /\ \A O \in SUBSET Commits : [d EXCEPT !.objects = O] \in Dirs
         /\ \A c \in Commits \cup {Mixed} : [d EXCEPT !.tree = c] \in Dirs
         /\ [d EXCEPT !.stray = FALSE] \in Dirs
         /\ [d EXCEPT !.tree = Mixed, !.stray = TRUE] \in Dirs
         /\ \A l \in SUBSET {"index", "refs"} : [d EXCEPT !.locks = @ \cup l] \in Dirs
         /\ NoDir \in Dirs
<1>1. NoDir \in Dirs /\ \A st \in Stages : [NoDir EXCEPT !.stage = st] \in Dirs
  BY DEF Dirs, NoDir, Stages
<1>2. /\ \A O \in SUBSET Commits : [d EXCEPT !.objects = O] \in Dirs
      /\ \A c \in Commits \cup {Mixed} : [d EXCEPT !.tree = c] \in Dirs
      /\ [d EXCEPT !.stray = FALSE] \in Dirs
      /\ [d EXCEPT !.tree = Mixed, !.stray = TRUE] \in Dirs
  BY DEF Dirs
<1>3. \A l \in SUBSET {"index", "refs"} : [d EXCEPT !.locks = @ \cup l] \in Dirs
  BY DEF Dirs
<1> QED
  BY <1>1, <1>2, <1>3

-----------------------------------------------------------------------------
(* The initial states.                                                     *)

\* A server that is down for the first time has no directory.
LEMMA InitIInv ==
  ASSUME Init
  PROVE  IInv
<1> USE DEF Init
<1>1. served \subseteq Commits
  BY AncestorsClosed, RefsAssumption
<1>2. dir \in [Paths -> Dirs]
  BY DirsWritten DEF Dirs, NoDir, Stages
<1>3. TypeOK
  <2>1. path \in Paths \cup {NoPath} /\ pc \in PCs /\ fallback \in BOOLEAN
    BY DEF PCs
  <2>2. unread \in 0 .. MaxFaults + 1 /\ pushes \in 0 .. MaxPushes /\ faults \in 0 .. MaxFaults
    BY BoundsAssumption
  <2> QED
    BY <1>1, <1>2, <2>1, <2>2 DEF TypeOK, Dirs
<1>4. ObjectsClosed
  BY DEF ObjectsClosed, NoDir
<1>5. AttemptShape /\ TreeInPlace
  BY DEF AttemptShape, TreeInPlace, Busy
<1>6. Clones = {}
  BY DEF Clones, NoDir
<1>7. OthersUnread
  BY <1>6, FS_EmptySet DEF OthersUnread, OneClone
<1> QED
  BY <1>3, <1>4, <1>5, <1>7 DEF IInv, Placed

-----------------------------------------------------------------------------
(* The steps of an attempt.                                                *)

\* A step of an attempt keeps the invariant if what it makes of the attempt
\* and of its directory, d, does.
LEMMA AttemptStep ==
  ASSUME IInv, pc \in Busy, pc' \in Busy \cup {"idle"},
         UNCHANGED <<remote, path, unread>>, faults' \in 0 .. MaxFaults,
         rev' \in Commits \cup {Mixed}, fallback' \in BOOLEAN,
         fetched' \in Commits \cup {Mixed}, AttemptShape',
         NEW d \in Dirs, dir' = [dir EXCEPT ![path] = d],
         \A c \in d.objects : Ancestors(c) \subseteq d.objects,
         pc' \in {"present", "fetch", "checkout", "clean", "fetchRevision", "using"} =>
           d.stage \in {"bare", "clone"},
         pc' \in {"clean", "using"} => d.tree = rev' /\ rev' \in d.objects,
         pc' = "using" => ~d.stray
  PROVE  IInv'
<1>1. path \in Paths /\ path # NoPath
  BY HereType DEF IInv, Placed, AttemptShape
<1>2. /\ dir' \in [Paths -> Dirs] /\ here' = d
      /\ \A p \in Paths \ {path} : dir'[p] = dir[p]
  BY <1>1, HereWritten DEF IInv, Placed
<1>3. TypeOK'
  <2>1. pc' \in PCs
    BY DEF Busy, PCs
  <2>2. head' \in Heads /\ served' \subseteq Commits /\ pushes' \in 0 .. MaxPushes
        /\ unread' \in 0 .. MaxFaults + 1 /\ path' \in Paths \cup {NoPath}
    BY DEF IInv, Placed, TypeOK, remote
  <2>3. pc' \in {"present", "fetch", "checkout", "clean", "fetchRevision", "using"} =>
          path' # NoPath /\ here'.stage \in {"bare", "clone"}
    BY <1>1, <1>2
  <2> QED
    BY <1>2, <2>1, <2>2, <2>3 DEF TypeOK, Dirs
<1>4. ObjectsClosed'
  <2>1. dir'[path] = d
    BY <1>2 DEF here
  <2> QED
    BY <1>2, <2>1 DEF IInv, Placed, ObjectsClosed
<1>5. TreeInPlace'
  BY <1>2 DEF TreeInPlace
<1>6. OthersUnread'
  <2>1. Clones' \ {path'} = Clones \ {path}
    BY <1>2 DEF Clones
  <2>2. pc # "down" /\ pc' # "down"
    BY DEF Busy
  <2> QED
    BY <2>1, <2>2 DEF IInv, OthersUnread
<1> QED
  BY <1>3, <1>4, <1>5, <1>6 DEF IInv, Placed

\* What is known of the directory when an attempt takes a step.
LEMMA AttemptHere ==
  ASSUME IInv, pc \in Busy
  PROVE  /\ path \in Paths /\ here \in Dirs /\ rev \in Commits
         /\ dir = [dir EXCEPT ![path] = here]
         /\ \A c \in here.objects : Ancestors(c) \subseteq here.objects
         /\ here.objects \subseteq Commits
<1>1. path \in Paths /\ here \in Dirs /\ rev \in Commits
  BY HereType DEF IInv, Placed, AttemptShape
<1>2. dir = [dir EXCEPT ![path] = here]
  BY <1>1 DEF IInv, Placed, TypeOK, here
<1>3. \A c \in here.objects : Ancestors(c) \subseteq here.objects
  BY <1>1 DEF IInv, Placed, ObjectsClosed, here
<1>4. here.objects \subseteq Commits
  BY <1>1 DEF Dirs
<1> QED
  BY <1>1, <1>2, <1>3, <1>4

\* A failing command is counted up to the bound.
LEMMA FaultType ==
  ASSUME TypeOK, Fault
  PROVE  faults' \in 0 .. MaxFaults
BY BoundsAssumption DEF TypeOK, Fault

\* The end of an attempt, with the directory d.
LEMMA ReturnStep ==
  ASSUME IInv, pc \in Busy, Return, faults' \in 0 .. MaxFaults,
         NEW d \in Dirs, dir' = [dir EXCEPT ![path] = d],
         \A c \in d.objects : Ancestors(c) \subseteq d.objects
  PROVE  IInv'
<1>1. /\ pc' = "idle" /\ rev' = Mixed /\ ~fallback' /\ fallback' \in BOOLEAN /\ fetched' = Mixed
      /\ UNCHANGED <<remote, path, unread>>
  BY DEF Return
<1>2. AttemptShape'
  BY <1>1 DEF AttemptShape, Busy
<1> QED
  BY <1>1, <1>2, AttemptStep

\* Init of the git client: opening, and the steps that make a new repository.
LEMMA InitStepKeeps ==
  ASSUME IInv, Open \/ Wipe \/ PlainInit \/ CreateRemote \/ InitFails
  PROVE  IInv'
<1>1. CASE Open
  <2>1. /\ pc \in Busy /\ pc' \in {"present", "wipe"}
        /\ pc' = "present" => here.stage \in {"bare", "clone"}
        /\ pc \notin {"checkout", "clean", "using"}
        /\ UNCHANGED <<remote, dir, path, attempt, unread, faults>>
    BY <1>1 DEF Open, Busy
  <2>2. AttemptShape' /\ rev' \in Commits \cup {Mixed} /\ fallback' \in BOOLEAN
        /\ fetched' \in Commits \cup {Mixed} /\ faults' \in 0 .. MaxFaults
    BY <2>1 DEF IInv, Placed, TypeOK, AttemptShape, attempt, Busy
  <2>3. pc' \in Busy \cup {"idle"}
    BY <2>1 DEF Busy
  <2> QED
    BY <2>1, <2>2, <2>3, AttemptHere, AttemptStep
<1>2. ASSUME NEW at \in {"wipe", "init", "remote"}, NEW stage \in Stages,
             NEW next \in {"init", "remote", "present"}, InitStep(at, stage, next),
             next = "present" => stage = "clone"
      PROVE  IInv'
  <2> DEFINE d == [NoDir EXCEPT !.stage = stage]
  <2>1. /\ d \in Dirs /\ d.objects = {} /\ d.stage = stage
    BY DEF NoDir, Dirs, Stages
  <2>2. pc \in Busy /\ pc' = next /\ pc' \in Busy \cup {"idle"} /\ ~fallback
    BY <1>2 DEF InitStep, Busy, IInv, Placed, AttemptShape
  <2>3. AttemptShape' /\ rev' \in Commits \cup {Mixed} /\ fallback' \in BOOLEAN
        /\ fetched' \in Commits \cup {Mixed} /\ faults' \in 0 .. MaxFaults
    BY <1>2, <2>2 DEF InitStep, IInv, Placed, TypeOK, AttemptShape, attempt
  <2>4. dir' = [dir EXCEPT ![path] = d] /\ UNCHANGED <<remote, path, unread>>
    BY <1>2 DEF InitStep
  <2> HIDE DEF d
  <2> QED
    BY <1>2, <2>1, <2>2, <2>3, <2>4, AttemptStep
<1>3. CASE Wipe \/ PlainInit \/ CreateRemote
  BY <1>2, <1>3 DEF Wipe, PlainInit, CreateRemote, Stages
<1>4. CASE InitFails
  <2>1. pc \in Busy /\ Return /\ dir' = dir /\ faults' \in 0 .. MaxFaults
    BY <1>4, FaultType DEF InitFails, Busy, IInv, Placed
  <2> QED
    BY <2>1, AttemptHere, ReturnStep
<1> QED
  BY <1>1, <1>3, <1>4

\* A fetch brings whole histories.
LEMMA FetchedClosed ==
  ASSUME IInv, pc \in Busy, NEW c \in Commits
  PROVE  \E d \in Dirs : /\ Fetched(c) = [dir EXCEPT ![path] = d]
                         /\ \A x \in d.objects : Ancestors(x) \subseteq d.objects
                         /\ d.stage = here.stage
<1> DEFINE O == here.objects \cup Ancestors(c)
           d == [here EXCEPT !.objects = O]
<1>1. here \in Dirs /\ path \in Paths
  BY AttemptHere
<1>2. O \subseteq Commits /\ \A x \in O : Ancestors(x) \subseteq O
  BY AttemptHere, AncestorsClosed
<1>3. Fetched(c) = [dir EXCEPT ![path] = d]
  BY <1>1 DEF Fetched, here, IInv, Placed, TypeOK
<1> HIDE DEF O
<1>4. d \in Dirs /\ d.objects = O /\ d.stage = here.stage
  BY <1>1, <1>2, DirsWritten DEF Dirs
<1> HIDE DEF d
<1> QED
  BY <1>2, <1>3, <1>4

\* Looking for the revision, and fetching it.
LEMMA FetchStepKeeps ==
  ASSUME IInv, IsRevisionPresent \/ Fetch \/ FetchRevision \/ FetchFails
  PROVE  IInv'
<1>1. CASE IsRevisionPresent
  <2>1. /\ pc \in Busy /\ pc' \in {"checkout", "fetch"} /\ pc = "present" /\ ~fallback
        /\ UNCHANGED <<remote, dir, path, attempt, unread>>
        /\ here.stage \in {"bare", "clone"}
    BY <1>1 DEF IsRevisionPresent, Busy, IInv, Placed, AttemptShape, TypeOK
  <2>2. faults' \in 0 .. MaxFaults
    BY <1>1, FaultType DEF IsRevisionPresent, IInv, Placed, TypeOK
  <2>3. AttemptShape' /\ rev' \in Commits \cup {Mixed} /\ fallback' \in BOOLEAN
        /\ fetched' \in Commits \cup {Mixed}
    BY <2>1 DEF IInv, Placed, TypeOK, AttemptShape, attempt, Busy
  <2>4. pc' \in Busy \cup {"idle"}
    BY <2>1 DEF Busy
  <2> QED
    BY <2>1, <2>2, <2>3, <2>4, AttemptHere, AttemptStep
<1>2. ASSUME NEW c \in Commits, pc \in {"fetch", "fetchRevision"},
             dir' = Fetched(c), fetched' = c, fallback' \in BOOLEAN,
             fallback' => c = rev,
             pc' = "checkout", UNCHANGED <<remote, path, rev, unread, faults>>
      PROVE  IInv'
  <2>1. pc \in Busy /\ pc' \in Busy \cup {"idle"}
    BY <1>2 DEF Busy
  <2>2. rev \in Commits /\ here.stage \in {"bare", "clone"}
    BY <1>2, <2>1, AttemptHere DEF IInv, Placed, TypeOK
  <2>3. PICK d \in Dirs : /\ dir' = [dir EXCEPT ![path] = d]
                          /\ \A x \in d.objects : Ancestors(x) \subseteq d.objects
                          /\ d.stage = here.stage
    BY <1>2, <2>1, FetchedClosed
  <2>4. /\ AttemptShape' /\ rev' \in Commits \cup {Mixed}
        /\ fetched' \in Commits \cup {Mixed} /\ faults' \in 0 .. MaxFaults
    BY <1>2, <2>1, <2>2 DEF IInv, Placed, TypeOK, AttemptShape
  <2> QED
    BY <1>2, <2>1, <2>2, <2>3, <2>4, AttemptStep
<1>3. CASE Fetch
  <2>1. head \in Commits /\ ~fallback /\ fallback \in BOOLEAN
    BY <1>3, RefsAssumption DEF Fetch, IInv, Placed, TypeOK, AttemptShape
  <2> QED
    BY <1>2, <1>3, <2>1 DEF Fetch
<1>4. CASE FetchRevision
  <2>1. rev \in Commits
    BY <1>4 DEF FetchRevision, IInv, Placed, AttemptShape, Busy
  <2> QED
    BY <1>2, <1>4, <2>1 DEF FetchRevision
<1>5. CASE FetchFails
  <2>1. pc \in Busy /\ Return
    BY <1>5 DEF FetchFails, Busy
  <2>2. faults' \in 0 .. MaxFaults
    BY <1>5, FaultType DEF FetchFails, IInv, Placed, TypeOK
  <2>3. CASE dir' = dir
    BY <2>1, <2>2, <2>3, AttemptHere, ReturnStep
  <2>4. CASE dir' # dir
    <3>1. PICK c \in Commits : dir' = Fetched(c)
      <4>1. head \in Commits /\ rev \in Commits
        BY <2>1, AttemptHere, RefsAssumption DEF IInv, Placed, TypeOK
      <4> QED
        BY <1>5, <2>4, <4>1 DEF FetchFails, Wanted
    <3>2. PICK d \in Dirs : /\ dir' = [dir EXCEPT ![path] = d]
                            /\ \A x \in d.objects : Ancestors(x) \subseteq d.objects
      BY <2>1, <3>1, FetchedClosed
    <3> QED
      BY <2>1, <2>2, <3>2, ReturnStep
  <2> QED
    BY <2>3, <2>4
<1> QED
  BY <1>1, <1>3, <1>4, <1>5

\* git checkout, git clean, a checkout that fails, and the end of the request.
LEMMA CheckoutStepKeeps ==
  ASSUME IInv, GitCheckout \/ Clean \/ CheckoutFails \/ Close
  PROVE  IInv'
<1>1. pc \in Busy /\ pc \in {"checkout", "clean", "using"}
  BY DEF GitCheckout, Clean, CheckoutFails, Close, Busy
<1>2. /\ here \in Dirs /\ path \in Paths /\ rev \in Commits /\ here.objects \subseteq Commits
      /\ dir = [dir EXCEPT ![path] = here]
      /\ \A c \in here.objects : Ancestors(c) \subseteq here.objects
  BY <1>1, AttemptHere
<1>3. here.stage \in {"bare", "clone"} /\ (fallback => fetched = rev)
  BY <1>1 DEF IInv, Placed, TypeOK, AttemptShape
<1>4. /\ rev \in Commits \cup {Mixed} /\ fallback \in BOOLEAN
      /\ fetched \in Commits \cup {Mixed} /\ faults \in 0 .. MaxFaults
  BY DEF IInv, Placed, TypeOK
<1>5. CASE GitCheckout
  <2> DEFINE d == [here EXCEPT !.tree = rev]
  <2>1. Target = rev /\ rev \in here.objects
    BY <1>3, <1>5 DEF GitCheckout, Target, CanCheckout
  <2>2. dir' = [dir EXCEPT ![path] = d]
    BY <1>2, <1>5, <2>1 DEF GitCheckout, here, IInv, Placed, TypeOK
  <2>3. d \in Dirs /\ d.objects = here.objects /\ d.stage = here.stage /\ d.tree = rev
    BY <1>2, DirsWritten DEF Dirs
  <2>4. pc' = "clean" /\ UNCHANGED <<remote, path, attempt, unread, faults>>
    BY <1>5 DEF GitCheckout
  <2>5. AttemptShape' /\ pc' \in Busy \cup {"idle"}
    BY <1>1, <1>2, <1>3, <2>4 DEF IInv, Placed, AttemptShape, attempt, Busy
  <2>6. UNCHANGED <<rev, fallback, fetched>>
    BY <2>4 DEF attempt
  <2> HIDE DEF d
  <2> QED
    BY <1>1, <1>2, <1>3, <1>4, <2>1, <2>2, <2>3, <2>4, <2>5, <2>6, AttemptStep
<1>6. CASE Clean
  <2> DEFINE d == [here EXCEPT !.stray = FALSE]
  <2>1. here.tree = rev /\ rev \in here.objects
    BY <1>6 DEF Clean, IInv, Placed, TreeInPlace
  <2>2. dir' = [dir EXCEPT ![path] = d]
    BY <1>2, <1>6 DEF Clean, here, IInv, Placed, TypeOK
  <2>3. /\ d \in Dirs /\ d.objects = here.objects /\ d.stage = here.stage
        /\ d.tree = here.tree /\ ~d.stray
    <3>1. d \in Dirs
      BY <1>2, DirsWritten
    <3>2. /\ d.objects = here.objects /\ d.stage = here.stage
          /\ d.tree = here.tree /\ ~d.stray
      BY <1>2 DEF Dirs
    <3> QED
      BY <3>1, <3>2
  <2>4. pc' = "using" /\ UNCHANGED <<remote, path, attempt, unread, faults>>
    BY <1>6 DEF Clean
  <2>5. AttemptShape' /\ pc' \in Busy \cup {"idle"}
    BY <1>1, <1>2, <1>3, <2>4 DEF IInv, Placed, AttemptShape, attempt, Busy
  <2>6. UNCHANGED <<rev, fallback, fetched>>
    BY <2>4 DEF attempt
  <2> HIDE DEF d
  <2> QED
    BY <1>1, <1>2, <1>3, <1>4, <2>1, <2>2, <2>3, <2>4, <2>5, <2>6, AttemptStep
<1>7. CASE CheckoutFails
  <2> DEFINE e == [here EXCEPT !.tree = Mixed, !.stray = TRUE]
  <2>1. e \in Dirs /\ e.objects = here.objects /\ e.stage = here.stage
    <3>1. e \in Dirs
      BY <1>2, DirsWritten
    <3>2. e.objects = here.objects /\ e.stage = here.stage
      BY <1>2 DEF Dirs
    <3> QED
      BY <3>1, <3>2
  <2>2. dir' = dir \/ dir' = [dir EXCEPT ![path] = e]
    BY <1>2, <1>7 DEF CheckoutFails, here, IInv, Placed, TypeOK
  <2> HIDE DEF e
  <2>3. PICK d \in {here, e} : dir' = [dir EXCEPT ![path] = d]
    BY <1>2, <2>2
  <2>4. /\ d \in Dirs /\ d.objects = here.objects /\ d.stage = here.stage
    BY <1>2, <2>1, <2>3
  <2>5. faults' \in 0 .. MaxFaults
    BY <1>4, <1>7, FaultType DEF CheckoutFails, IInv, Placed
  <2>6. CASE Return
    BY <1>1, <1>2, <2>3, <2>4, <2>5, <2>6, ReturnStep
  <2>7. CASE /\ pc' = "fetchRevision" /\ ~fallback
             /\ UNCHANGED <<remote, path, attempt, unread>>
    <3>1. UNCHANGED <<rev, fallback, fetched>>
      BY <2>7 DEF attempt
    <3>2. AttemptShape' /\ pc' \in Busy \cup {"idle"}
      BY <1>1, <1>2, <2>7, <3>1 DEF IInv, Placed, AttemptShape, Busy
    <3> QED
      BY <1>1, <1>2, <1>3, <1>4, <2>3, <2>4, <2>5, <2>7, <3>1, <3>2, AttemptStep
  <2> QED
    BY <1>7, <2>6, <2>7 DEF CheckoutFails
<1>8. CASE Close
  BY <1>1, <1>2, <1>4, <1>8, ReturnStep DEF Close
<1> QED
  BY <1>5, <1>6, <1>7, <1>8

-----------------------------------------------------------------------------
(* Start-up, requests and the surroundings.                                *)

\* A push touches no directory.
LEMMA PushKeeps ==
  ASSUME IInv, Push
  PROVE  IInv'
<1>1. UNCHANGED <<dir, path, pc, rev, fallback, fetched, unread, faults>>
  BY DEF Push, attempt
<1>2. head' \in Heads /\ served' \subseteq Commits /\ pushes' \in 0 .. MaxPushes
  BY AncestorsClosed, RefsAssumption, BoundsAssumption DEF Push, IInv, Placed, TypeOK
<1>3. TypeOK'
  BY <1>1, <1>2 DEF IInv, Placed, TypeOK, here
<1>4. ObjectsClosed' /\ AttemptShape' /\ TreeInPlace'
  BY <1>1 DEF IInv, Placed, ObjectsClosed, AttemptShape, TreeInPlace, here
<1>5. OthersUnread'
  BY <1>1 DEF IInv, OthersUnread, OneClone, Clones
<1> QED
  BY <1>3, <1>4, <1>5 DEF IInv, Placed

\* Leaving out one path, or adding it, changes the number of clones by one at
\* most.
LEMMA CountOthers ==
  ASSUME TypeOK, NEW p
  PROVE  /\ IsFiniteSet(Clones \ {p})
         /\ Cardinality(Clones \ {p}) \in Nat
         /\ p \in Clones => Cardinality(Clones \ {p}) = Cardinality(Clones) - 1
         /\ p \notin Clones => Clones \ {p} = Clones
<1>1. IsFiniteSet(Clones)
  BY ClonesFinite
<1>2. IsFiniteSet(Clones \ {p}) /\ Cardinality(Clones \ {p}) \in Nat
  BY <1>1, FS_RemoveElement, FS_CardinalityType
<1>3. p \in Clones => Cardinality(Clones \ {p}) = Cardinality(Clones) - 1
  BY <1>1, FS_RemoveElement
<1>4. p \notin Clones => Clones \ {p} = Clones
  OBVIOUS
<1> QED
  BY <1>2, <1>3, <1>4

\* As long as the invariant holds there is one clone besides those unread.
LEMMA OneCloneHolds ==
  ASSUME IInv
  PROVE  OneClone
<1>1. CASE pc = "down"
  BY <1>1 DEF IInv, OthersUnread
<1>2. CASE pc # "down"
  <2>1. Cardinality(Clones \ {path}) <= unread
    BY <1>2 DEF IInv, OthersUnread
  <2>2. unread \in Nat
    BY BoundsAssumption DEF IInv, Placed, TypeOK
  <2>3. Cardinality(Clones) \in Nat
    BY ClonesFinite
  <2>4. /\ Cardinality(Clones \ {path}) \in Nat
        /\ path \in Clones => Cardinality(Clones \ {path}) = Cardinality(Clones) - 1
        /\ path \notin Clones => Clones \ {path} = Clones
    <3>1. TypeOK
      BY DEF IInv, Placed
    <3> QED
      BY <3>1, CountOthers
  <2>5. CASE path \in Clones
    BY <2>1, <2>2, <2>3, <2>4, <2>5 DEF OneClone
  <2>6. CASE path \notin Clones
    <3>1. Cardinality(Clones) <= unread
      BY <2>1, <2>4, <2>6
    <3> QED
      BY <2>2, <2>3, <3>1 DEF OneClone
  <2> QED
    BY <2>5, <2>6
<1> QED
  BY <1>1, <1>2

\* The process is killed: the commits of the clones stay, and so do the clones,
\* unless an eviction takes all of them.
LEMMA CrashKeeps ==
  ASSUME IInv, Crash
  PROVE  IInv'
<1>1. /\ pc' = "down" /\ path' = NoPath /\ rev' = Mixed /\ fallback' = FALSE
      /\ fetched' = Mixed /\ UNCHANGED remote
  BY DEF Crash
<1>2. faults' \in 0 .. MaxFaults
  BY FaultType DEF Crash, IInv, Placed
<1>3. AttemptShape' /\ TreeInPlace'
  BY <1>1 DEF AttemptShape, TreeInPlace, Busy
<1>4. ASSUME dir' \in [Paths -> Dirs], unread' \in 0 .. MaxFaults + 1
      PROVE  TypeOK'
  BY <1>1, <1>2, <1>4 DEF IInv, Placed, TypeOK, Dirs, PCs, remote
<1>5. CASE dir' = [p \in Paths |-> NoDir] /\ unread' = 0
  <2>1. dir' \in [Paths -> Dirs] /\ unread' \in 0 .. MaxFaults + 1
    BY <1>5, BoundsAssumption DEF Dirs, NoDir, Stages
  <2>2. ObjectsClosed' /\ Clones' = {}
    BY <1>5 DEF ObjectsClosed, Clones, NoDir
  <2>3. OthersUnread'
    BY <1>1, <1>5, <2>2, FS_EmptySet DEF OthersUnread, OneClone
  <2> QED
    BY <1>3, <1>4, <2>1, <2>2, <2>3 DEF IInv, Placed
<1>6. CASE UNCHANGED unread /\ dir' \in Killed
  <2>0. dir \in [Paths -> Dirs] /\ ObjectsClosed
    BY DEF IInv, Placed, TypeOK, Dirs
  <2>1. /\ dir' \in [Paths -> Dirs] /\ ObjectsClosed'
        /\ \A p \in Paths : dir'[p].stage = dir[p].stage
    <3>1. CASE dir' = dir
      BY <2>0, <3>1 DEF ObjectsClosed
    <3>2. CASE pc \in {"checkout", "fetch", "fetchRevision"}
      <4>0. pc \in Busy /\ head \in Commits
        BY <3>2, RefsAssumption DEF Busy, IInv, Placed, TypeOK
      <4>1. path \in Paths /\ here \in Dirs /\ rev \in Commits
            /\ \A x \in here.objects : Ancestors(x) \subseteq here.objects
        BY <4>0, AttemptHere
      <4>2. \E d \in Dirs : /\ dir' = [dir EXCEPT ![path] = d]
                            /\ \A x \in d.objects : Ancestors(x) \subseteq d.objects
                            /\ d.stage = here.stage
        <5>1. CASE pc = "checkout"
          <6>1. PICK l \in SUBSET {"index"} :
                  dir' = [dir EXCEPT ![path].tree = Mixed, ![path].stray = TRUE,
                                     ![path].locks = @ \cup l]
            BY <1>6, <5>1 DEF Killed
          <6> DEFINE e == [here EXCEPT !.tree = Mixed, !.stray = TRUE]
                     d == [e EXCEPT !.locks = @ \cup l]
          <6>2. e \in Dirs /\ e.objects = here.objects /\ e.stage = here.stage
            BY <4>1, DirsWritten DEF Dirs
          <6>3. dir' = [dir EXCEPT ![path] = d]
            BY <2>0, <4>1, <6>1 DEF here, Dirs
          <6> HIDE DEF e
          <6>4. d \in Dirs /\ d.objects = e.objects /\ d.stage = e.stage
            BY <6>2, DirsWritten DEF Dirs
          <6> HIDE DEF d
          <6> QED
            BY <4>1, <6>2, <6>3, <6>4
        <5>2. CASE pc # "checkout" /\ dir' # dir
          <6>0. PICK l \in SUBSET {"refs"} :
                  \/ dir' = [dir EXCEPT ![path].locks = @ \cup l]
                  \/ dir' = [Fetched(Wanted) EXCEPT ![path].locks = @ \cup l]
            BY <1>6, <3>2, <5>2 DEF Killed
          <6>1. \E e \in Dirs : /\ dir' = [dir EXCEPT ![path] = [e EXCEPT !.locks = @ \cup l]]
                                /\ \A x \in e.objects : Ancestors(x) \subseteq e.objects
                                /\ e.stage = here.stage
            <7>1. CASE dir' = [dir EXCEPT ![path].locks = @ \cup l]
              <8>1. dir' = [dir EXCEPT ![path] = [here EXCEPT !.locks = @ \cup l]]
                BY <2>0, <4>1, <7>1 DEF here
              <8> QED
                BY <4>1, <8>1
            <7>2. CASE dir' = [Fetched(Wanted) EXCEPT ![path].locks = @ \cup l]
              <8>1. Wanted \in Commits
                BY <4>0, <4>1 DEF Wanted
              <8>2. PICK e \in Dirs : /\ Fetched(Wanted) = [dir EXCEPT ![path] = e]
                                      /\ \A x \in e.objects : Ancestors(x) \subseteq e.objects
                                      /\ e.stage = here.stage
                BY <4>0, <8>1, FetchedClosed
              <8>3. dir' = [dir EXCEPT ![path] = [e EXCEPT !.locks = @ \cup l]]
                BY <2>0, <4>1, <7>2, <8>2
              <8> QED
                BY <8>2, <8>3
            <7> QED
              BY <6>0, <7>1, <7>2
          <6>2. PICK e \in Dirs : /\ dir' = [dir EXCEPT ![path] = [e EXCEPT !.locks = @ \cup l]]
                                  /\ \A x \in e.objects : Ancestors(x) \subseteq e.objects
                                  /\ e.stage = here.stage
            BY <6>1
          <6> DEFINE d == [e EXCEPT !.locks = @ \cup l]
          <6>3. d \in Dirs /\ d.objects = e.objects /\ d.stage = e.stage
            BY DirsWritten DEF Dirs
          <6> HIDE DEF d
          <6> QED
            BY <6>2, <6>3 DEF d
        <5>3. CASE dir' = dir
          BY <4>0, <4>1, <5>3, AttemptHere
        <5> QED
          BY <5>1, <5>2, <5>3
      <4>3. PICK d \in Dirs : /\ dir' = [dir EXCEPT ![path] = d]
                              /\ \A x \in d.objects : Ancestors(x) \subseteq d.objects
                              /\ d.stage = here.stage
        BY <4>2
      <4> QED
        BY <2>0, <4>1, <4>3 DEF ObjectsClosed, here
    <3> QED
      BY <1>6, <3>1, <3>2 DEF Killed
  <2>2. Clones' = Clones
    BY <2>1 DEF Clones
  <2>4. OthersUnread'
    BY <1>1, <1>6, <2>2, OneCloneHolds DEF OthersUnread, OneClone
  <2>5. TypeOK'
    BY <1>4, <1>6, <2>1 DEF IInv, Placed, TypeOK
  <2> QED
    BY <1>3, <2>1, <2>4, <2>5 DEF IInv, Placed
<1> QED
  BY <1>5, <1>6 DEF Crash

\* A start takes one of the clones for the repository's, or has none to take.
LEMMA RestoreKeeps ==
  ASSUME IInv, Restore \/ RestoreFails
  PROVE  IInv'
<1>1. /\ pc = "down" /\ pc' = "idle"
      /\ UNCHANGED <<head, served, pushes, dir, rev, fallback, fetched>>
  BY DEF Restore, RestoreFails, remote, attempt
<1>2. path' \in Paths \cup {NoPath}
  BY DEF Restore, RestoreFails, Clones
<1>3. unread' \in 0 .. MaxFaults + 1 /\ faults' \in 0 .. MaxFaults
  BY ClonesFinite, FaultType DEF Restore, RestoreFails, IInv, Placed, TypeOK
<1>4. TypeOK'
  BY <1>1, <1>2, <1>3 DEF IInv, Placed, TypeOK, PCs
<1>5. ObjectsClosed' /\ AttemptShape' /\ TreeInPlace'
  BY <1>1 DEF IInv, Placed, ObjectsClosed, AttemptShape, TreeInPlace, Busy
<1>6. /\ Clones' = Clones /\ Cardinality(Clones) \in Nat /\ unread \in Nat
      /\ \A p \in Clones : Cardinality(Clones \ {p}) = Cardinality(Clones) - 1
      /\ NoPath \notin Clones
  <2>1. Clones' = Clones /\ NoPath \notin Clones
    BY <1>1, PathsAreNumbers DEF Clones
  <2>2. Cardinality(Clones) \in Nat /\ unread \in Nat
    BY ClonesFinite, BoundsAssumption DEF IInv, Placed, TypeOK
  <2>3. \A p \in Clones : Cardinality(Clones \ {p}) = Cardinality(Clones) - 1
    BY CountOthers DEF IInv, Placed
  <2> QED
    BY <2>1, <2>2, <2>3
<1>7. Cardinality(Clones) <= 1 + unread
  BY <1>1 DEF IInv, OthersUnread, OneClone
<1>8. Cardinality(Clones \ {path'}) <= unread'
  <2>1. CASE Restore /\ Clones = {}
    BY <1>6, <2>1, FS_EmptySet DEF Restore
  <2>2. CASE Restore /\ Clones # {}
    BY <1>6, <1>7, <2>2 DEF Restore
  <2>3. CASE RestoreFails
    <3>1. Clones \ {path'} = Clones
      BY <1>6, <2>3 DEF RestoreFails
    <3> QED
      BY <1>6, <2>3, <3>1 DEF RestoreFails
  <2> QED
    BY <2>1, <2>2, <2>3
<1>9. OthersUnread'
  BY <1>1, <1>6, <1>8 DEF OthersUnread
<1> QED
  BY <1>4, <1>5, <1>9 DEF IInv, Placed

\* A request takes the path that is known, or a new one, where there is no
\* clone.
LEMMA RequestKeeps ==
  ASSUME IInv, Request
  PROVE  IInv'
<1>1. /\ pc = "idle" /\ pc' = "open" /\ rev' \in Commits /\ fallback' = FALSE
      /\ fetched' = Mixed
      /\ UNCHANGED <<head, served, pushes, dir, unread, faults>>
  BY DEF Request, remote, IInv, Placed, TypeOK
<1>2. /\ path' \in Paths
      /\ path' = path \/ (path = NoPath /\ path' \notin Clones)
  BY PathsAreNumbers DEF Request, IInv, Placed, TypeOK, Clones
<1>3. TypeOK'
  BY <1>1, <1>2 DEF IInv, Placed, TypeOK, PCs
<1>4. ObjectsClosed' /\ AttemptShape' /\ TreeInPlace'
  BY <1>1, <1>2, PathsAreNumbers
     DEF IInv, Placed, ObjectsClosed, AttemptShape, TreeInPlace, Busy
<1>5. Clones' \ {path'} = Clones \ {path}
  BY <1>1, <1>2, PathsAreNumbers DEF Clones
<1>6. OthersUnread'
  BY <1>1, <1>5 DEF IInv, OthersUnread
<1> QED
  BY <1>3, <1>4, <1>6 DEF IInv, Placed

-----------------------------------------------------------------------------
(* The theorems.                                                           *)

\* The inductive invariant holds in every reachable state.
LEMMA Invariance ==
  Spec => []IInv
<1>1. Init => IInv
  BY InitIInv
<1>2. IInv /\ [Next]_vars => IInv'
  <2> SUFFICES ASSUME IInv, [Next]_vars
               PROVE  IInv'
    OBVIOUS
  <2>1. CASE UNCHANGED vars
    BY <2>1 DEF vars, remote, attempt, IInv, Placed, TypeOK, ObjectsClosed, AttemptShape,
                TreeInPlace, OthersUnread, OneClone, Clones, here
  <2> QED
    BY <2>1, PushKeeps, CrashKeeps, RestoreKeeps, RequestKeeps, InitStepKeeps,
       FetchStepKeeps, CheckoutStepKeeps DEF Next, Step
<1> QED
  BY <1>1, <1>2, PTL DEF Spec

\* Type correctness: past Init of the git client an attempt has a repository,
\* for every commit graph.
THEOREM TypeCorrect ==
  Spec => []TypeOK
<1>1. IInv => TypeOK
  BY DEF IInv, Placed
<1> QED
  BY <1>1, Invariance, PTL

\* Whenever checkoutRevision has succeeded, the tree is that of the revision and
\* the clone has its history, whatever the pushes, the failed commands, the
\* kills and the restarts before it were.
THEOREM CheckedOut ==
  Spec => []RevisionInPlace
<1>1. IInv => RevisionInPlace
  <2> SUFFICES ASSUME IInv, pc = "using"
               PROVE  TreeIsRevision /\ HistoryPresent
    BY DEF RevisionInPlace
  <2>1. here.tree = rev /\ rev \in here.objects /\ ~here.stray
    BY DEF IInv, Placed, TreeInPlace
  <2>2. \A c \in here.objects : Ancestors(c) \subseteq here.objects
    BY AttemptHere DEF Busy
  <2> QED
    BY <2>1, <2>2 DEF TreeIsRevision, HistoryPresent
<1> QED
  BY <1>1, Invariance, PTL

\* However often the server is killed and restarted, no second clone of the
\* repository is made, except next to one that could not be read at a start.
THEOREM NoSecondClone ==
  Spec => []OneClone
<1>1. IInv => OneClone
  BY OneCloneHolds
<1> QED
  BY <1>1, Invariance, PTL
=============================================================================
