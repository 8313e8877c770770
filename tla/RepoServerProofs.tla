-------------------------- MODULE RepoServerProofs --------------------------
(***************************************************************************)
(* Proofs about module RepoServer, for every history of any length, any    *)
(* goroutines, requests and faults: type correctness, that the caches hold *)
(* what git would say, and, where no commit is a merge, that the answer is *)
(* the last change and that a change is never missed.                      *)
(***************************************************************************)
EXTENDS RepoServer, FiniteSetTheorems, WellFoundedInduction, TLAPS

-----------------------------------------------------------------------------
(* The inductive invariant.                                                *)

\* The commit graph: parents are older than their children.
GraphOK ==
  /\ parents \in [Commits -> SUBSET Commits]
  /\ content \in [Commits -> {0, 1}]
  /\ \A c \in Commits : \A p \in parents[c] : p < c
  /\ ~Merges => \A c \in Commits : Cardinality(parents[c]) <= 1

\* What is cached is what git would say now.
CachesRight ==
  /\ \A k \in DOMAIN listCache : listCache[k] = RevList(k[1], k[2])
  /\ \A x \in DOMAIN diffCache : diffCache[x] = DiffTreeHits(x)

\* The repository is only looked at for a request with a previous revision.
\* The scan has looked at the newest revisions of the range, in vain.
ScanRight ==
  \A g \in Procs :
    LET p == req[g].previous
        c == req[g].current
    IN  /\ pc[g] \in {"lock", "list", "scan"} => p # Unknown
        /\ pc[g] = "scan" =>
             \/ p = c /\ todo[g] = {c}
             \/ /\ p # c
                /\ todo[g] \subseteq RevList(p, c)
                /\ \A x \in RevList(p, c) \ todo[g] :
                     ~DiffTreeHits(x) /\ \A y \in todo[g] : y < x

\* A revision in the answer is on the way from previous to current and changed
\* the application; where there is no way, it is the current revision.
OnTheWay(a) ==
  /\ Forward(a) /\ a.revision # Unknown =>
       /\ a.revision \in RevList(a.previous, a.current)
       /\ \E p \in parents[a.revision] : content[p] # content[a.revision]
  /\ a.previous # Unknown /\ a.previous \notin Ancestors(a.current) =>
       a.revision = a.current

\* Nothing changed the application after the revision in the answer, or at
\* all, if there is none.
NothingAfter(a) ==
  Forward(a) => content[a.current] = IF a.revision = Unknown THEN content[a.previous]
                                     ELSE content[a.revision]

Right(a) == OnTheWay(a) /\ (~Merges => NothingAfter(a))

AnswersRight == \A a \in Answered : Right(a)

IInv == TypeOK /\ GraphOK /\ CachesRight /\ ScanRight /\ AnswersRight

-----------------------------------------------------------------------------
(* Lemmas about sets of commits.                                           *)

\* Some commit of a set is the newest one.
LEMMA NewestExists ==
  ASSUME NEW S \in SUBSET Commits, S # {}
  PROVE  Newest(S) \in S /\ \A y \in S : Newest(S) >= y
<1> DEFINE T == {N - x : x \in S}
<1>1. T \subseteq Nat /\ T # {}
  <2>1. \A x \in S : N - x \in Nat
    BY NAssumption DEF Commits
  <2> QED
    BY <2>1
<1>2. PICK t \in T : \A y \in T : ~(<<y, t>> \in OpToRel(<, Nat))
  BY <1>1, NatLessThanWellFounded, WFMin, Zenon
<1>3. PICK x \in S : t = N - x
  BY <1>2
<1>4. ASSUME NEW y \in S
      PROVE  x >= y
  <2>1. N - y \in T /\ N - y \in Nat /\ t \in Nat
    BY <1>1, <1>2
  <2>2. ~(N - y < t)
    BY <1>2, <2>1 DEF OpToRel
  <2> QED
    BY <1>3, <2>1, <2>2, NAssumption DEF Commits
<1>5. \E z \in S : \A y \in S : z >= y
  BY <1>3, <1>4
<1> QED
  BY <1>5 DEF Newest

\* The history of a commit has the commit, lies in the graph and has the
\* history of each of its commits.
LEMMA AncestorsClosed ==
  ASSUME GraphOK, NEW c \in Commits
  PROVE  /\ c \in Ancestors(c)
         /\ Ancestors(c) \subseteq Commits
         /\ \A x \in Ancestors(c) : Ancestors(x) \subseteq Ancestors(c)
         /\ WithParents(parents, Ancestors(c))
<1> USE DEF Ancestors, AncestorsIn, History
<1>1. c \in Ancestors(c) /\ Ancestors(c) \subseteq Commits
  OBVIOUS
<1>2. ASSUME NEW x \in Ancestors(c), NEW y \in Ancestors(x)
      PROVE  y \in Ancestors(c)
  <2> SUFFICES ASSUME NEW S \in SUBSET Commits, c \in S, WithParents(parents, S)
               PROVE  y \in S
    BY <1>2
  <2>1. x \in S
    BY <1>2
  <2> QED
    BY <1>2, <2>1
<1>3. ASSUME NEW x \in Ancestors(c), NEW y \in parents[x]
      PROVE  y \in Ancestors(c)
  <2>1. y \in Commits
    BY <1>1, <1>3 DEF GraphOK
  <2> SUFFICES ASSUME NEW S \in SUBSET Commits, c \in S, WithParents(parents, S)
               PROVE  y \in S
    BY <2>1
  <2>2. x \in S
    BY <1>3
  <2> QED
    BY <1>3, <2>2 DEF WithParents
<1> QED
  BY <1>1, <1>2, <1>3 DEF WithParents

\* A commit is not older than those of its history.
LEMMA AncestorsOlder ==
  ASSUME GraphOK, NEW c \in Commits, NEW x \in Ancestors(c)
  PROVE  x <= c
<1> DEFINE S == {z \in Commits : z <= c}
<1>1. c \in S /\ S \in SUBSET Commits
  BY NAssumption DEF Commits
<1>2. WithParents(parents, S)
  BY NAssumption DEF WithParents, GraphOK, Commits
<1>3. x \in S
  BY <1>1, <1>2 DEF Ancestors, AncestorsIn, History
<1> QED
  BY <1>3

\* What is in the history of a commit is the commit itself or in the history of
\* a parent.
LEMMA AncestorsUnfold ==
  ASSUME GraphOK, NEW c \in Commits, NEW x \in Ancestors(c), x # c
  PROVE  \E y \in parents[c] : x \in Ancestors(y)
<1> DEFINE S == {c} \cup {z \in Commits : \E y \in parents[c] : z \in Ancestors(y)}
<1>1. c \in S /\ S \in SUBSET Commits
  OBVIOUS
<1>2. \A y \in parents[c] : y \in Commits
  BY DEF GraphOK
<1>3. ASSUME NEW z \in S, NEW w \in parents[z]
      PROVE  w \in S
  <2>1. w \in Commits
    BY <1>1, <1>3 DEF GraphOK
  <2>2. CASE z = c
    BY <1>2, <1>3, <2>1, <2>2, AncestorsClosed
  <2>3. CASE z # c
    <3>1. PICK y \in parents[c] : z \in Ancestors(y)
      BY <2>3
    <3>2. w \in Ancestors(y)
      BY <1>2, <1>3, <3>1, AncestorsClosed DEF WithParents
    <3> QED
      BY <2>1, <3>1, <3>2
  <2> QED
    BY <2>2, <2>3
<1>4. WithParents(parents, S)
  BY <1>3 DEF WithParents
<1> HIDE DEF S
<1>5. x \in S
  BY <1>1, <1>4 DEF Ancestors, AncestorsIn, History
<1> QED
  BY <1>5 DEF S

\* Along a branch without merges, on which no commit after p shows a change,
\* the content stays what it was at p.
LEMMA NoHitsNoChange ==
  ASSUME GraphOK, ~Merges, NEW c \in Commits, NEW p \in Ancestors(c),
         \A x \in RevList(p, c) : ~DiffTreeHits(x)
  PROVE  content[p] = content[c]
<1>1. p \in Commits
  BY AncestorsClosed
<1> DEFINE Same == {x \in Ancestors(c) : p \in Ancestors(x) /\ content[x] = content[c]}
           Before == {x \in Ancestors(p) : x # p}
           S == Same \cup Before
<1>2. c \in S /\ S \in SUBSET Commits
  BY <1>1, AncestorsClosed
<1>3. ASSUME NEW x \in S, NEW y \in parents[x]
      PROVE  y \in S
  <2>1. x \in Commits /\ y \in Commits /\ y < x
    BY <1>2, <1>3 DEF GraphOK
  <2>2. ASSUME x \in Ancestors(p)
        PROVE  y \in Before
    <3>1. y \in Ancestors(p)
      BY <1>1, <1>3, <2>2, AncestorsClosed DEF WithParents
    <3>2. x <= p
      BY <1>1, <2>2, AncestorsOlder
    <3>3. y # p
      BY <1>1, <2>1, <3>2, NAssumption DEF Commits
    <3> QED
      BY <3>1, <3>3
  <2>3. CASE x \in Same /\ x # p
    <3>1. x \in Ancestors(c) /\ p \in Ancestors(x) /\ content[x] = content[c]
      BY <2>3
    <3>2. PICK z \in parents[x] : p \in Ancestors(z)
      BY <2>1, <2>3, <3>1, AncestorsUnfold
    <3>3. parents[x] = {y} /\ Cardinality(parents[x]) = 1
      <4>1. parents[x] \subseteq 1 .. N
        BY <2>1 DEF GraphOK, Commits
      <4> IsFiniteSet(1 .. N)
        BY FS_Interval, NAssumption
      <4>2. IsFiniteSet(parents[x])
        BY <4>1, FS_Subset
      <4>3. Cardinality(parents[x]) \in Nat /\ Cardinality(parents[x]) <= 1
        BY <2>1, <4>2, FS_CardinalityType DEF GraphOK
      <4>4. Cardinality(parents[x]) # 0
        BY <1>3, <4>2, FS_EmptySet
      <4>5. Cardinality(parents[x]) = 1
        BY <4>3, <4>4
      <4>6. \E w : parents[x] = {w}
        BY <4>2, <4>5, FS_Singleton
      <4> QED
        BY <1>3, <4>5, <4>6
    <3>4. content[y] = content[x]
      <4>1. x \in RevList(p, c)
        BY <2>3, <3>1 DEF RevList
      <4>2. ~DiffTreeHits(x)
        BY <4>1
      <4> QED
        BY <3>3, <4>2 DEF DiffTreeHits
    <3>5. y \in Ancestors(c)
      BY <1>3, <3>1, AncestorsClosed DEF WithParents
    <3> QED
      BY <3>1, <3>2, <3>3, <3>4, <3>5
  <2>4. CASE x = p
    BY <1>1, <2>2, <2>4, AncestorsClosed
  <2> QED
    BY <1>3, <2>2, <2>3, <2>4
<1>4. WithParents(parents, S)
  BY <1>3 DEF WithParents
<1> HIDE DEF S
<1>5. p \in S
  BY <1>2, <1>4 DEF Ancestors, AncestorsIn, History
<1> QED
  BY <1>5 DEF S

-----------------------------------------------------------------------------
(* Type correctness.                                                       *)

\* The initial state has the types.
LEMMA InitTypeOK == Init => TypeOK
BY NAssumption, BoundsAssumption
   DEF Init, TypeOK, Requests, NoAnswer, Commits, Unknown, Failed

\* A range's list of revisions is a set of commits.
LEMMA RevListType ==
  ASSUME GraphOK, NEW p, NEW c \in Commits
  PROVE  RevList(p, c) \subseteq Commits
BY AncestorsClosed DEF RevList

\* The handler's return keeps the types.
LEMMA AnswerType ==
  ASSUME TypeOK, NEW g \in Procs, NEW rev \in Commits \cup {Unknown, Failed},
         Answer(g, rev)
  PROVE  /\ pc' \in [Procs -> {"idle", "resolve", "lock", "list", "scan"}]
         /\ todo' \in [Procs -> SUBSET Commits]
         /\ \A h \in Procs : pc'[h] = "scan" <=> todo'[h] # {}
         /\ answer' \in [Procs -> [previous : Commits \cup {Unknown}, current : Commits,
                                   revision : Commits \cup {Unknown, Failed}]]
<1>1. req[g].previous \in Commits \cup {Unknown} /\ req[g].current \in Commits
  BY DEF TypeOK, Requests
<1>2. answer' \in [Procs -> [previous : Commits \cup {Unknown}, current : Commits,
                             revision : Commits \cup {Unknown, Failed}]]
  BY <1>1 DEF TypeOK, Answer
<1>3. /\ pc' \in [Procs -> {"idle", "resolve", "lock", "list", "scan"}]
      /\ todo' \in [Procs -> SUBSET Commits]
  BY DEF TypeOK, Answer
<1>4. \A h \in Procs : pc'[h] = "scan" <=> todo'[h] # {}
  BY DEF TypeOK, Answer
<1> QED
  BY <1>2, <1>3, <1>4

\* So does the return of ListRevisions.
LEMMA ListedType ==
  ASSUME TypeOK, NEW g \in Procs, NEW revs \in SUBSET Commits, Listed(g, revs)
  PROVE  /\ pc' \in [Procs -> {"idle", "resolve", "lock", "list", "scan"}]
         /\ todo' \in [Procs -> SUBSET Commits]
         /\ \A h \in Procs : pc'[h] = "scan" <=> todo'[h] # {}
         /\ answer' \in [Procs -> [previous : Commits \cup {Unknown}, current : Commits,
                                   revision : Commits \cup {Unknown, Failed}]]
<1>1. CASE revs = {}
  <2>1. req[g].current \in Commits /\ Answer(g, req[g].current)
    BY <1>1 DEF TypeOK, Requests, Listed
  <2> QED
    BY <2>1, AnswerType
<1>2. CASE revs # {}
  BY <1>2 DEF TypeOK, Listed
<1> QED
  BY <1>1, <1>2

\* And a round of the loop.
LEMMA LookedType ==
  ASSUME TypeOK, NEW g \in Procs, pc[g] = "scan", NEW rev \in todo[g],
         NEW hit \in BOOLEAN, Looked(g, rev, hit)
  PROVE  /\ pc' \in [Procs -> {"idle", "resolve", "lock", "list", "scan"}]
         /\ todo' \in [Procs -> SUBSET Commits]
         /\ \A h \in Procs : pc'[h] = "scan" <=> todo'[h] # {}
         /\ answer' \in [Procs -> [previous : Commits \cup {Unknown}, current : Commits,
                                   revision : Commits \cup {Unknown, Failed}]]
<1>1. rev \in Commits
  BY DEF TypeOK
<1>2. CASE hit
  <2>1. Answer(g, rev)
    BY <1>2 DEF Looked
  <2> QED
    BY <1>1, <2>1, AnswerType
<1>3. CASE ~hit /\ todo[g] = {rev}
  <2>1. Answer(g, Unknown)
    BY <1>3 DEF Looked
  <2> QED
    BY <2>1, AnswerType
<1>4. CASE ~hit /\ todo[g] # {rev}
  <2>1. todo' = [todo EXCEPT ![g] = @ \ {rev}] /\ UNCHANGED <<pc, answer>>
    BY <1>4 DEF Looked
  <2>2. todo[g] \ {rev} # {} /\ todo[g] \ {rev} \in SUBSET Commits
    BY <1>4 DEF TypeOK
  <2> QED
    BY <2>1, <2>2 DEF TypeOK
<1> QED
  BY <1>2, <1>3, <1>4

\* The revision the scan looks at next is one it has still to look at.
LEMMA NextIsNewest ==
  ASSUME TypeOK, NEW g \in Procs, pc[g] = "scan"
  PROVE  /\ NextRevision(todo[g]) \in todo[g]
         /\ \A y \in todo[g] : NextRevision(todo[g]) >= y
BY NewestExists DEF TypeOK, NextRevision

\* Every step keeps the types.
LEMMA TypeStep ==
  ASSUME TypeOK, GraphOK, [Next]_vars
  PROVE  TypeOK'
<1>1. ASSUME NEW g \in Procs, Receive(g)
      PROVE  TypeOK'
  <2>1. PICK r \in Requests : req' = [req EXCEPT ![g] = r]
    BY <1>1 DEF Receive
  <2> QED
    BY <1>1, <2>1, BoundsAssumption DEF TypeOK, Receive
<1>2. ASSUME NEW g \in Procs, Resolve(g)
      PROVE  TypeOK'
  <2>1. CASE req[g].previous = Unknown
    <3>1. Answer(g, req[g].current) /\ req[g].current \in Commits
      BY <1>2, <2>1 DEF Resolve, TypeOK, Requests
    <3> QED
      BY <1>2, <3>1, AnswerType DEF Resolve, TypeOK
  <2>2. CASE req[g].previous # Unknown
    BY <1>2, <2>2 DEF Resolve, TypeOK
  <2> QED
    BY <2>1, <2>2
<1>3. ASSUME NEW g \in Procs, Lock(g)
      PROVE  TypeOK'
  BY <1>3 DEF Lock, TypeOK
<1>4. ASSUME NEW g \in Procs, ListRevisions(g)
      PROVE  TypeOK'
  <2> DEFINE p == req[g].previous
             c == req[g].current
  <2>1. p \in Commits \cup {Unknown} /\ c \in Commits
    BY DEF TypeOK, Requests
  <2>2. UNCHANGED <<repo, diffCache, req, requests, faults>>
    BY <1>4 DEF ListRevisions
  <2>3. CASE p = c /\ Listed(g, {c}) /\ UNCHANGED listCache
    BY <2>1, <2>2, <2>3, ListedType DEF TypeOK
  <2>4. ASSUME NEW k \in CachedList(p, c), Listed(g, listCache[k]),
               UNCHANGED listCache
        PROVE  TypeOK'
    <3>1. listCache[k] \in SUBSET Commits
      BY <2>4 DEF CachedList, TypeOK
    <3> QED
      BY <2>2, <2>4, <3>1, ListedType DEF TypeOK
  <2>5. CASE /\ Listed(g, RevList(p, c))
             /\ listCache' = Remember(p, c, RevList(p, c))
    <3>1. RevList(p, c) \in SUBSET Commits
      BY <2>1, RevListType
    <3>2. ASSUME NEW k \in DOMAIN listCache'
          PROVE  /\ k \in Commits \X Commits /\ listCache'[k] # {}
                 /\ listCache'[k] \subseteq Commits
      <4>1. RevList(p, c) # {} => p \in Commits
        <5>1. ASSUME NEW x \in RevList(p, c)
              PROVE  p \in Commits
          <6>1. x \in Commits /\ p \in Ancestors(x)
            BY <3>1, <5>1 DEF RevList
          <6> QED
            BY <6>1, AncestorsClosed
        <5> QED
          BY <5>1
      <4> QED
        BY <2>1, <2>5, <3>1, <3>2, <4>1 DEF TypeOK, Remember
    <3> QED
      BY <2>2, <2>5, <3>1, <3>2, ListedType DEF TypeOK
  <2> QED
    BY <1>4, <2>3, <2>4, <2>5 DEF ListRevisions
<1>5. ASSUME NEW g \in Procs, DiffTree(g)
      PROVE  TypeOK'
  <2> DEFINE rev == NextRevision(todo[g])
  <2>1. pc[g] = "scan" /\ UNCHANGED <<repo, listCache, req, requests, faults>>
    BY <1>5 DEF DiffTree
  <2>2. rev \in todo[g] /\ rev \in Commits
    BY <2>1, NextIsNewest DEF TypeOK
  <2> HIDE DEF rev
  <2>3. CASE rev \in DOMAIN diffCache /\ Looked(g, rev, diffCache[rev])
              /\ UNCHANGED diffCache
    <3>1. diffCache[rev] \in BOOLEAN
      BY <2>3 DEF TypeOK
    <3> QED
      BY <2>1, <2>2, <2>3, <3>1, LookedType DEF TypeOK
  <2>4. CASE /\ Looked(g, rev, DiffTreeHits(rev))
             /\ \/ diffCache' = [k \in DOMAIN diffCache \cup {rev} |->
                                   IF k = rev THEN DiffTreeHits(rev)
                                   ELSE diffCache[k]]
                \/ UNCHANGED diffCache
    <3>1. DiffTreeHits(rev) \in BOOLEAN
      BY DEF DiffTreeHits
    <3>2. \A k \in DOMAIN diffCache' : k \in Commits /\ diffCache'[k] \in BOOLEAN
      BY <2>2, <2>4, <3>1 DEF TypeOK
    <3>3. Looked(g, rev, DiffTreeHits(rev))
      BY <2>4
    <3> QED
      BY <2>1, <2>2, <3>1, <3>2, <3>3, LookedType DEF TypeOK
  <2> QED
    BY <1>5, <2>3, <2>4 DEF DiffTree, rev
<1>6. ASSUME NEW g \in Procs, GitFails(g)
      PROVE  TypeOK'
  <2>1. /\ Answer(g, Failed)
        /\ faults < MaxFaults /\ faults' = faults + 1
        /\ UNCHANGED <<repo, listCache, diffCache, req, requests>>
    BY <1>6 DEF GitFails
  <2> QED
    BY <2>1, AnswerType, BoundsAssumption DEF TypeOK
<1>7. CASE Expire
  BY <1>7 DEF Expire, TypeOK
<1>8. CASE UNCHANGED vars
  BY <1>8 DEF vars, TypeOK
<1> QED
  BY <1>1, <1>2, <1>3, <1>4, <1>5, <1>6, <1>7, <1>8 DEF Next, Handle

-----------------------------------------------------------------------------
(* The repository does not change, nor what git says about it.             *)

\* No step changes the commit graph or the content of a commit.
LEMMA RepoUnchanged ==
  ASSUME [Next]_vars
  PROVE  parents' = parents /\ content' = content
<1>1. ASSUME NEW g \in Procs, Receive(g) \/ Handle(g)
      PROVE  UNCHANGED repo
  BY <1>1 DEF Handle, Receive, Resolve, Lock, ListRevisions, DiffTree, GitFails
<1>2. CASE Expire
  BY <1>2 DEF Expire, repo
<1>3. CASE UNCHANGED vars
  BY <1>3 DEF vars
<1> QED
  BY <1>1, <1>2, <1>3 DEF Next, repo

\* On the same graph git says the same.
LEMMA SameGit ==
  ASSUME parents' = parents, content' = content
  PROVE  /\ GraphOK => GraphOK'
         /\ \A c : Ancestors(c)' = Ancestors(c)
         /\ \A p, c : RevList(p, c)' = RevList(p, c)
         /\ \A c : DiffTreeHits(c)' = DiffTreeHits(c)
<1>1. GraphOK => GraphOK'
  BY DEF GraphOK
<1>2. \A c : Ancestors(c)' = Ancestors(c)
  BY DEF Ancestors, AncestorsIn, History, WithParents
<1>3. \A p, c : RevList(p, c)' = RevList(p, c)
  BY <1>2 DEF RevList
<1>4. \A c : DiffTreeHits(c)' = DiffTreeHits(c)
  BY DEF DiffTreeHits
<1> QED
  BY <1>1, <1>2, <1>3, <1>4

\* An answer that was right stays right.
LEMMA SameRight ==
  ASSUME parents' = parents, content' = content, NEW a
  PROVE  Right(a)' = Right(a)
<1>1. Forward(a)' = Forward(a)
  BY SameGit DEF Forward
<1>2. OnTheWay(a)' = OnTheWay(a)
  BY <1>1, SameGit DEF OnTheWay
<1>3. NothingAfter(a)' = NothingAfter(a)
  BY <1>1 DEF NothingAfter
<1> QED
  BY <1>2, <1>3 DEF Right

-----------------------------------------------------------------------------
(* The caches.                                                             *)

\* Every step keeps the caches right: an entry is added with git's result, or
\* all are dropped.
LEMMA CachesStep ==
  ASSUME IInv, [Next]_vars
  PROVE  CachesRight'
<1>0. parents' = parents /\ content' = content
  BY RepoUnchanged
<1>1. ASSUME listCache' = listCache
      PROVE  \A k \in DOMAIN listCache' : listCache'[k] = RevList(k[1], k[2])'
  <2>1. \A k \in DOMAIN listCache : listCache[k] = RevList(k[1], k[2])
    BY DEF IInv, CachesRight
  <2> QED
    BY <1>0, <1>1, <2>1, SameGit
<1>2. ASSUME diffCache' = diffCache
      PROVE  \A x \in DOMAIN diffCache' : diffCache'[x] = DiffTreeHits(x)'
  <2>1. \A x \in DOMAIN diffCache : diffCache[x] = DiffTreeHits(x)
    BY DEF IInv, CachesRight
  <2> QED
    BY <1>0, <1>2, <2>1, SameGit
<1>3. ASSUME UNCHANGED <<listCache, diffCache>>
      PROVE  CachesRight'
  BY <1>1, <1>2, <1>3 DEF CachesRight
<1>4. ASSUME NEW g \in Procs, ListRevisions(g)
      PROVE  CachesRight'
  <2> DEFINE p == req[g].previous
             c == req[g].current
  <2>1. diffCache' = diffCache
    BY <1>4 DEF ListRevisions
  <2>2. CASE listCache' = listCache
    BY <1>3, <2>1, <2>2
  <2>3. CASE listCache' = Remember(p, c, RevList(p, c))
    <3>1. ASSUME NEW k \in DOMAIN listCache'
          PROVE  listCache'[k] = RevList(k[1], k[2])
      <4>1. CASE k \in DOMAIN listCache /\ listCache'[k] = listCache[k]
        BY <4>1 DEF IInv, CachesRight
      <4>2. CASE k = <<p, c>> /\ listCache'[k] = RevList(p, c)
        BY <4>2
      <4> QED
        BY <2>3, <3>1, <4>1, <4>2 DEF Remember
    <3>2. \A k \in DOMAIN listCache' : listCache'[k] = RevList(k[1], k[2])'
      BY <1>0, <3>1, SameGit
    <3> QED
      BY <1>2, <2>1, <3>2 DEF CachesRight
  <2> QED
    BY <1>4, <2>2, <2>3 DEF ListRevisions
<1>5. ASSUME NEW g \in Procs, DiffTree(g)
      PROVE  CachesRight'
  <2> DEFINE rev == NextRevision(todo[g])
  <2>1. listCache' = listCache
    BY <1>5 DEF DiffTree
  <2>2. CASE diffCache' = diffCache
    BY <1>3, <2>1, <2>2
  <2> HIDE DEF rev
  <2>3. CASE diffCache' = [k \in DOMAIN diffCache \cup {rev} |->
                             IF k = rev THEN DiffTreeHits(rev) ELSE diffCache[k]]
    <3>1. \A x \in DOMAIN diffCache' : diffCache'[x] = DiffTreeHits(x)
      BY <2>3 DEF IInv, CachesRight
    <3>2. \A x \in DOMAIN diffCache' : diffCache'[x] = DiffTreeHits(x)'
      BY <1>0, <3>1, SameGit
    <3> QED
      BY <1>1, <2>1, <3>2 DEF CachesRight
  <2> QED
    BY <1>5, <2>2, <2>3 DEF DiffTree, rev
<1>6. ASSUME NEW g \in Procs, Receive(g) \/ Resolve(g) \/ Lock(g) \/ GitFails(g)
      PROVE  CachesRight'
  <2>1. UNCHANGED <<listCache, diffCache>>
    BY <1>6 DEF Receive, Resolve, Lock, GitFails
  <2> QED
    BY <1>3, <2>1
<1>7. CASE Expire
  BY <1>7 DEF Expire, CachesRight
<1>8. CASE UNCHANGED vars
  BY <1>3, <1>8 DEF vars
<1> QED
  BY <1>4, <1>5, <1>6, <1>7, <1>8 DEF Next, Handle

-----------------------------------------------------------------------------
(* The scan.                                                               *)

\* What ScanRight says of one goroutine, with its request r, at control point
\* l, with the revisions t still to look at.
ScanOf(r, l, t) ==
  /\ l \in {"lock", "list", "scan"} => r.previous # Unknown
  /\ l = "scan" =>
       \/ r.previous = r.current /\ t = {r.current}
       \/ /\ r.previous # r.current
          /\ t \subseteq RevList(r.previous, r.current)
          /\ \A x \in RevList(r.previous, r.current) \ t :
               ~DiffTreeHits(x) /\ \A y \in t : y < x

\* ScanRight is ScanOf for every goroutine.
LEMMA ScanByProc == ScanRight <=> \A g \in Procs : ScanOf(req[g], pc[g], todo[g])
BY DEF ScanRight, ScanOf

\* On the same graph ScanOf says the same.
LEMMA SameScan ==
  ASSUME parents' = parents, content' = content, NEW r, NEW l, NEW t
  PROVE  ScanOf(r, l, t)' = ScanOf(r, l, t)
<1>1. RevList(r.previous, r.current)' = RevList(r.previous, r.current)
  BY SameGit
<1>2. \A x : DiffTreeHits(x)' = DiffTreeHits(x)
  BY SameGit
<1> QED
  BY <1>1, <1>2 DEF ScanOf

\* A step of goroutine g keeps ScanRight if it does for g.
LEMMA ScanStepOf ==
  ASSUME IInv, parents' = parents, content' = content, NEW g \in Procs,
         \A h \in Procs \ {g} : /\ req'[h] = req[h]
                                /\ pc'[h] = pc[h]
                                /\ todo'[h] = todo[h],
         ScanOf(req'[g], pc'[g], todo'[g])
  PROVE  ScanRight'
<1>1. \A h \in Procs : ScanOf(req'[h], pc'[h], todo'[h])
  BY ScanByProc DEF IInv
<1>2. ASSUME NEW r, NEW l, NEW t, ScanOf(r, l, t)
      PROVE  ScanOf(r, l, t)'
  BY <1>2, SameScan
<1>3. \A h \in Procs : ScanOf(req[h], pc[h], todo[h])'
  BY <1>1, <1>2
<1> QED
  BY <1>3 DEF ScanRight, ScanOf

\* Every step keeps the scans right: a scan starts with the whole range, and
\* leaves out the newest revision once that shows no change.
LEMMA ScanStep ==
  ASSUME IInv, [Next]_vars
  PROVE  ScanRight'
<1>0. parents' = parents /\ content' = content
  BY RepoUnchanged
<1>t. /\ pc \in [Procs -> {"idle", "resolve", "lock", "list", "scan"}]
      /\ req \in [Procs -> Requests]
      /\ todo \in [Procs -> SUBSET Commits]
  BY DEF IInv, TypeOK
<1>s. \A g \in Procs : ScanOf(req[g], pc[g], todo[g])
  BY ScanByProc DEF IInv
<1>a. ASSUME NEW g \in Procs, NEW rev, Answer(g, rev), req' = req
      PROVE  ScanRight'
  <2>1. pc'[g] = "idle"
    BY <1>t, <1>a DEF Answer
  <2>2. \A h \in Procs \ {g} : req'[h] = req[h] /\ pc'[h] = pc[h] /\ todo'[h] = todo[h]
    BY <1>t, <1>a DEF Answer
  <2>3. ScanOf(req'[g], pc'[g], todo'[g])
    BY <2>1 DEF ScanOf
  <2> QED
    BY <1>0, <2>2, <2>3, ScanStepOf
<1>1. ASSUME NEW g \in Procs, Receive(g)
      PROVE  ScanRight'
  <2>1. pc'[g] = "resolve"
    BY <1>t, <1>1 DEF Receive
  <2>2. \A h \in Procs \ {g} : req'[h] = req[h] /\ pc'[h] = pc[h] /\ todo'[h] = todo[h]
    BY <1>t, <1>1 DEF Receive
  <2>3. ScanOf(req'[g], pc'[g], todo'[g])
    BY <2>1 DEF ScanOf
  <2> QED
    BY <1>0, <2>2, <2>3, ScanStepOf
<1>2. ASSUME NEW g \in Procs, Resolve(g)
      PROVE  ScanRight'
  <2>1. CASE req[g].previous = Unknown
    BY <1>2, <1>a, <2>1 DEF Resolve
  <2>2. CASE req[g].previous # Unknown
    <3>1. pc'[g] = "lock" /\ req' = req
      BY <1>t, <1>2, <2>2 DEF Resolve
    <3>2. \A h \in Procs \ {g} : req'[h] = req[h] /\ pc'[h] = pc[h] /\ todo'[h] = todo[h]
      BY <1>t, <1>2, <2>2 DEF Resolve
    <3>3. ScanOf(req'[g], pc'[g], todo'[g])
      BY <2>2, <3>1 DEF ScanOf
    <3> QED
      BY <1>0, <3>2, <3>3, ScanStepOf
  <2> QED
    BY <2>1, <2>2
<1>3. ASSUME NEW g \in Procs, Lock(g)
      PROVE  ScanRight'
  <2>1. pc[g] = "lock" /\ pc'[g] = "list" /\ req' = req
    BY <1>t, <1>3 DEF Lock
  <2>2. \A h \in Procs \ {g} : req'[h] = req[h] /\ pc'[h] = pc[h] /\ todo'[h] = todo[h]
    BY <1>t, <1>3 DEF Lock
  <2>3. ScanOf(req'[g], pc'[g], todo'[g])
    <3>1. req[g].previous # Unknown
      BY <1>s, <2>1 DEF ScanOf
    <3> QED
      BY <2>1, <3>1 DEF ScanOf
  <2> QED
    BY <1>0, <2>2, <2>3, ScanStepOf
<1>4. ASSUME NEW g \in Procs, ListRevisions(g)
      PROVE  ScanRight'
  <2> DEFINE p == req[g].previous
             c == req[g].current
  <2>1. pc[g] = "list" /\ req' = req
    BY <1>4 DEF ListRevisions
  <2>2. p # Unknown
    BY <1>s, <2>1 DEF ScanOf
  <2>3. ASSUME NEW revs, Listed(g, revs),
               (p = c /\ revs = {c}) \/ (p # c /\ revs = RevList(p, c))
        PROVE  ScanRight'
    <3>1. CASE revs = {}
      BY <1>a, <2>1, <2>3, <3>1 DEF Listed
    <3>2. CASE revs # {}
      <4>1. pc'[g] = "scan" /\ todo'[g] = revs
        BY <1>t, <2>3, <3>2 DEF Listed
      <4>2. \A h \in Procs \ {g} : req'[h] = req[h] /\ pc'[h] = pc[h] /\ todo'[h] = todo[h]
        BY <1>t, <2>1, <2>3, <3>2 DEF Listed
      <4>3. ScanOf(req[g], "scan", revs)
        BY <2>2, <2>3 DEF ScanOf
      <4> QED
        BY <1>0, <2>1, <4>1, <4>2, <4>3, ScanStepOf
    <3> QED
      BY <3>1, <3>2
  <2>4. CASE p = c /\ Listed(g, {c})
    BY <2>3, <2>4
  <2>5. ASSUME p # c, NEW k \in CachedList(p, c), Listed(g, listCache[k])
        PROVE  ScanRight'
    <3>1. listCache[k] = RevList(p, c)
      BY <2>5 DEF CachedList, IInv, CachesRight
    <3> QED
      BY <2>3, <2>5, <3>1
  <2>6. CASE p # c /\ Listed(g, RevList(p, c))
    BY <2>3, <2>6
  <2> QED
    BY <1>4, <2>4, <2>5, <2>6 DEF ListRevisions
<1>5. ASSUME NEW g \in Procs, DiffTree(g)
      PROVE  ScanRight'
  <2> DEFINE rev == NextRevision(todo[g])
  <2>1. pc[g] = "scan" /\ req' = req
    BY <1>5 DEF DiffTree
  <2>2. rev \in todo[g] /\ \A y \in todo[g] : rev >= y
    BY <2>1, NextIsNewest DEF IInv
  <2>3. ScanOf(req[g], "scan", todo[g])
    BY <1>s, <2>1
  <2>4. Looked(g, rev, DiffTreeHits(rev))
    <3>1. rev \in DOMAIN diffCache => diffCache[rev] = DiffTreeHits(rev)
      BY DEF IInv, CachesRight
    <3> QED
      BY <1>5, <3>1 DEF DiffTree
  <2> HIDE DEF rev
  <2>5. CASE DiffTreeHits(rev) \/ todo[g] = {rev}
    BY <1>a, <2>1, <2>4, <2>5 DEF Looked
  <2>6. CASE ~DiffTreeHits(rev) /\ todo[g] # {rev}
    <3>1. todo' = [todo EXCEPT ![g] = @ \ {rev}] /\ pc' = pc
      BY <2>4, <2>6 DEF Looked
    <3>2. \A h \in Procs \ {g} : req'[h] = req[h] /\ pc'[h] = pc[h] /\ todo'[h] = todo[h]
      BY <1>t, <2>1, <3>1
    <3>3. todo'[g] = todo[g] \ {rev}
      BY <1>t, <3>1
    <3>4. \A y \in todo[g] \ {rev} : y < rev
      BY <1>t, <2>2, NAssumption DEF Commits
    <3>5. ScanOf(req[g], "scan", todo[g] \ {rev})
      BY <2>2, <2>3, <2>6, <3>4 DEF ScanOf
    <3> QED
      BY <1>0, <2>1, <3>1, <3>2, <3>3, <3>5, ScanStepOf
  <2> QED
    BY <2>5, <2>6
<1>6. ASSUME NEW g \in Procs, GitFails(g)
      PROVE  ScanRight'
  BY <1>6, <1>a DEF GitFails
<1>7. CASE UNCHANGED <<pc, req, todo>>
  <2>1. ASSUME NEW g \in Procs
        PROVE  ScanRight'
    <3>1. \A h \in Procs : req'[h] = req[h] /\ pc'[h] = pc[h] /\ todo'[h] = todo[h]
      BY <1>7
    <3>2. ScanOf(req'[g], pc'[g], todo'[g])
      BY <1>s, <3>1
    <3> QED
      BY <1>0, <3>1, <3>2, ScanStepOf
  <2>2. CASE Procs = {}
    BY <2>2 DEF ScanRight
  <2> QED
    BY <2>1, <2>2
<1>8. CASE Expire \/ UNCHANGED vars
  BY <1>7, <1>8 DEF Expire, vars
<1> QED
  BY <1>1, <1>2, <1>3, <1>4, <1>5, <1>6, <1>8 DEF Next, Handle

-----------------------------------------------------------------------------
(* The answers.                                                            *)

\* The range to a commit from one of its history ends at the commit; a range
\* with a commit in it starts in the history.
LEMMA RangeEnds ==
  ASSUME GraphOK, NEW c \in Commits, NEW p, p # c
  PROVE  /\ p \in Ancestors(c) => c \in RevList(p, c)
         /\ RevList(p, c) # {} => p \in Ancestors(c)
<1>1. p \in Ancestors(c) => c \in RevList(p, c)
  BY AncestorsClosed DEF RevList
<1>2. ASSUME NEW x \in RevList(p, c)
      PROVE  p \in Ancestors(c)
  <2>1. x \in Ancestors(c) /\ p \in Ancestors(x)
    BY <1>2 DEF RevList
  <2> QED
    BY <2>1, AncestorsClosed
<1> QED
  BY <1>1, <1>2

\* The part of a range after one of its commits.
LEMMA RestOfRange ==
  ASSUME GraphOK, NEW c \in Commits, NEW p, NEW r \in RevList(p, c),
         NEW x \in RevList(r, c)
  PROVE  x \in RevList(p, c) /\ r < x
<1>1. /\ r \in Ancestors(c) /\ p \in Ancestors(r)
      /\ x \in Ancestors(c) /\ x # r /\ r \in Ancestors(x)
  BY DEF RevList
<1>2. r \in Commits /\ x \in Commits
  BY <1>1, AncestorsClosed
<1>3. p \in Ancestors(x)
  BY <1>1, <1>2, AncestorsClosed
<1>4. r <= x
  BY <1>1, <1>2, AncestorsOlder
<1>5. r < x
  BY <1>1, <1>2, <1>4, NAssumption DEF Commits
<1>6. p # x
  <2>1. CASE p \in Commits
    <3>1. p <= r
      BY <1>1, <1>2, AncestorsOlder
    <3> QED
      BY <1>2, <1>5, <2>1, <3>1, NAssumption DEF Commits
  <2>2. CASE p \notin Commits
    BY <1>2, <2>2
  <2> QED
    BY <2>1, <2>2
<1> QED
  BY <1>1, <1>3, <1>5, <1>6 DEF RevList

\* The first commit that shows a change, looking from the newest, is the
\* right answer.
LEMMA HitIsRight ==
  ASSUME GraphOK, NEW p \in Commits, NEW c \in Commits, NEW rev \in Commits,
         NEW t \in SUBSET Commits, rev \in t, \A y \in t : rev >= y,
         ScanOf([previous |-> p, current |-> c], "scan", t), DiffTreeHits(rev)
  PROVE  Right([previous |-> p, current |-> c, revision |-> rev])
<1> DEFINE a == [previous |-> p, current |-> c, revision |-> rev]
<1>1. a.previous = p /\ a.current = c /\ a.revision = rev
  OBVIOUS
<1>u. rev # Unknown
  BY NAssumption DEF Commits, Unknown
<1> HIDE DEF a
<1>2. CASE p = c
  <2>1. rev = c /\ ~Forward(a)
    BY <1>1, <1>2 DEF ScanOf, Forward
  <2> QED
    BY <1>1, <2>1 DEF Right, OnTheWay, NothingAfter, a
<1>3. CASE p # c
  <2>1. /\ t \subseteq RevList(p, c)
        /\ \A x \in RevList(p, c) \ t : ~DiffTreeHits(x)
    BY <1>3 DEF ScanOf
  <2>2. rev \in RevList(p, c) /\ p \in Ancestors(c) /\ rev \in Ancestors(c)
    BY <1>3, <2>1, RangeEnds DEF RevList
  <2>3. \E q \in parents[rev] : content[q] # content[rev]
    <3>1. parents[rev] # {}
      BY FS_EmptySet DEF DiffTreeHits
    <3> QED
      BY <3>1 DEF DiffTreeHits
  <2>4. OnTheWay(a)
    BY <1>1, <2>2, <2>3 DEF OnTheWay
  <2>5. ASSUME ~Merges
        PROVE  content[rev] = content[c]
    <3>1. ASSUME NEW x \in RevList(rev, c)
          PROVE  ~DiffTreeHits(x)
      <4>1. x \in RevList(p, c) /\ rev < x
        BY <2>2, <3>1, RestOfRange
      <4>2. x \in Commits /\ ~(rev >= x)
        BY <4>1, RevListType, NAssumption DEF Commits
      <4>3. x \notin t
        BY <4>2
      <4> QED
        BY <2>1, <4>1, <4>3
    <3> QED
      BY <2>2, <2>5, <3>1, NoHitsNoChange
  <2> QED
    BY <1>1, <1>u, <2>4, <2>5 DEF Right, NothingAfter, a
<1> QED
  BY <1>2, <1>3

\* A range in which no commit shows a change is rightly answered by "".
LEMMA NoHitIsRight ==
  ASSUME GraphOK, NEW p \in Commits, NEW c \in Commits, NEW rev \in Commits,
         ScanOf([previous |-> p, current |-> c], "scan", {rev}), ~DiffTreeHits(rev)
  PROVE  Right([previous |-> p, current |-> c, revision |-> Unknown])
<1> DEFINE a == [previous |-> p, current |-> c, revision |-> Unknown]
<1>1. a.previous = p /\ a.current = c /\ a.revision = Unknown
  OBVIOUS
<1> HIDE DEF a
<1>2. CASE p = c
  <2>1. ~Forward(a) /\ c \in Ancestors(c)
    BY <1>1, <1>2, AncestorsClosed DEF Forward
  <2> QED
    BY <1>1, <1>2, <2>1 DEF Right, OnTheWay, NothingAfter, a
<1>3. CASE p # c
  <2>1. rev \in RevList(p, c) /\ \A x \in RevList(p, c) : ~DiffTreeHits(x)
    BY <1>3 DEF ScanOf
  <2>2. p \in Ancestors(c)
    BY <1>3, <2>1, RangeEnds
  <2>3. ~Merges => content[p] = content[c]
    BY <2>1, <2>2, NoHitsNoChange
  <2> QED
    BY <1>1, <2>2, <2>3 DEF Right, OnTheWay, NothingAfter, a
<1> QED
  BY <1>2, <1>3

\* An answer that is right, or an error, keeps the invariant.
LEMMA AnswerStepOf ==
  ASSUME IInv, parents' = parents, content' = content, NEW g \in Procs, NEW rev,
         Answer(g, rev),
         rev = Failed \/ Right([previous |-> req[g].previous,
                                current |-> req[g].current, revision |-> rev])
  PROVE  AnswersRight'
<1>1. ASSUME NEW h \in Procs, answer'[h].revision # Failed
      PROVE  Right(answer'[h])
  <2>1. CASE h = g
    <3>1. answer'[h] = [previous |-> req[g].previous,
                        current |-> req[g].current, revision |-> rev]
      BY <2>1 DEF Answer, IInv, TypeOK
    <3> QED
      BY <1>1, <3>1
  <2>2. CASE h # g
    <3>1. answer'[h] = answer[h]
      BY <2>2 DEF Answer, IInv, TypeOK
    <3> QED
      BY <1>1, <3>1 DEF IInv, AnswersRight, Answered
  <2> QED
    BY <2>1, <2>2
<1>2. ASSUME NEW a \in Answered'
      PROVE  Right(a)'
  <2>1. Right(a)
    BY <1>1, <1>2 DEF Answered
  <2> QED
    BY <2>1, SameRight
<1> QED
  BY <1>2 DEF AnswersRight

\* Every answer given is right.
LEMMA AnswersStep ==
  ASSUME IInv, [Next]_vars
  PROVE  AnswersRight'
<1>0. parents' = parents /\ content' = content
  BY RepoUnchanged
<1>g. GraphOK
  BY DEF IInv
<1>s. \A g \in Procs : ScanOf(req[g], pc[g], todo[g])
  BY ScanByProc DEF IInv
<1>r. ASSUME NEW g \in Procs
      PROVE  /\ req[g].previous \in Commits \cup {Unknown} /\ req[g].current \in Commits
             /\ req[g] = [previous |-> req[g].previous, current |-> req[g].current]
  BY DEF IInv, TypeOK, Requests
<1>u. ASSUME UNCHANGED answer
      PROVE  AnswersRight'
  <2>1. ASSUME NEW a \in Answered
        PROVE  Right(a)'
    BY <1>0, <2>1, SameRight DEF IInv, AnswersRight
  <2>2. Answered' = Answered
    BY <1>u DEF Answered
  <2> QED
    BY <2>1, <2>2 DEF AnswersRight
<1>1. ASSUME NEW g \in Procs, Receive(g) \/ Lock(g)
      PROVE  AnswersRight'
  BY <1>1, <1>u DEF Receive, Lock
<1>2. ASSUME NEW g \in Procs, Resolve(g)
      PROVE  AnswersRight'
  <2>1. CASE req[g].previous = Unknown
    <3> DEFINE a == [previous |-> req[g].previous, current |-> req[g].current,
                     revision |-> req[g].current]
    <3>1. Answer(g, req[g].current)
      BY <1>2, <2>1 DEF Resolve
    <3>2. Right(a)
      BY <2>1 DEF Right, OnTheWay, NothingAfter, Forward
    <3> QED
      BY <1>0, <3>1, <3>2, AnswerStepOf
  <2>2. CASE req[g].previous # Unknown
    BY <1>2, <1>u, <2>2 DEF Resolve
  <2> QED
    BY <2>1, <2>2
<1>4. ASSUME NEW g \in Procs, ListRevisions(g)
      PROVE  AnswersRight'
  <2> DEFINE p == req[g].previous
             c == req[g].current
  <2>1. pc[g] = "list" /\ p \in Commits \cup {Unknown} /\ c \in Commits
    BY <1>4, <1>r DEF ListRevisions
  <2>2. p # Unknown
    BY <1>s, <2>1 DEF ScanOf
  <2>3. ASSUME NEW revs, Listed(g, revs), p # c, revs = RevList(p, c)
        PROVE  AnswersRight'
    <3>1. CASE revs = {}
      <4> DEFINE a == [previous |-> p, current |-> c, revision |-> c]
      <4>1. Answer(g, c)
        BY <2>3, <3>1 DEF Listed
      <4>2. p \notin Ancestors(c)
        BY <1>g, <2>1, <2>3, <3>1, RangeEnds
      <4>3. Right(a)
        BY <4>2 DEF Right, OnTheWay, NothingAfter, Forward
      <4> QED
        BY <1>0, <4>1, <4>3, AnswerStepOf
    <3>2. CASE revs # {}
      BY <1>u, <2>3, <3>2 DEF Listed
    <3> QED
      BY <3>1, <3>2
  <2>4. CASE p = c /\ Listed(g, {c})
    BY <1>u, <2>4 DEF Listed
  <2>5. ASSUME p # c, NEW k \in CachedList(p, c), Listed(g, listCache[k])
        PROVE  AnswersRight'
    <3>1. listCache[k] = RevList(p, c)
      BY <2>5 DEF CachedList, IInv, CachesRight
    <3> QED
      BY <2>3, <2>5, <3>1
  <2>6. CASE p # c /\ Listed(g, RevList(p, c))
    BY <2>3, <2>6
  <2> QED
    BY <1>4, <2>4, <2>5, <2>6 DEF ListRevisions
<1>5. ASSUME NEW g \in Procs, DiffTree(g)
      PROVE  AnswersRight'
  <2> DEFINE rev == NextRevision(todo[g])
             p == req[g].previous
             c == req[g].current
  <2>1. pc[g] = "scan"
    BY <1>5 DEF DiffTree
  <2>2. rev \in todo[g] /\ \A y \in todo[g] : rev >= y
    BY <2>1, NextIsNewest DEF IInv
  <2>3. rev \in Commits /\ todo[g] \in SUBSET Commits
    BY <2>2 DEF IInv, TypeOK
  <2>4. Looked(g, rev, DiffTreeHits(rev))
    <3>1. rev \in DOMAIN diffCache => diffCache[rev] = DiffTreeHits(rev)
      BY DEF IInv, CachesRight
    <3> QED
      BY <1>5, <3>1 DEF DiffTree
  <2>5. ScanOf([previous |-> p, current |-> c], "scan", todo[g])
    BY <1>r, <1>s, <2>1
  <2>6. p \in Commits /\ c \in Commits
    BY <1>r, <2>5 DEF ScanOf
  <2> HIDE DEF rev, p, c
  <2>7. CASE DiffTreeHits(rev)
    <3>1. Answer(g, rev)
      BY <2>4, <2>7 DEF Looked
    <3>2. Right([previous |-> p, current |-> c, revision |-> rev])
      BY <1>g, <2>2, <2>3, <2>5, <2>6, <2>7, HitIsRight
    <3> QED
      BY <1>0, <3>1, <3>2, AnswerStepOf DEF p, c
  <2>8. CASE ~DiffTreeHits(rev) /\ todo[g] = {rev}
    <3>1. Answer(g, Unknown)
      BY <2>4, <2>8 DEF Looked
    <3>2. Right([previous |-> p, current |-> c, revision |-> Unknown])
      BY <1>g, <2>3, <2>5, <2>6, <2>8, NoHitIsRight
    <3> QED
      BY <1>0, <3>1, <3>2, AnswerStepOf DEF p, c
  <2>9. CASE ~DiffTreeHits(rev) /\ todo[g] # {rev}
    BY <1>u, <2>4, <2>9 DEF Looked
  <2> QED
    BY <2>7, <2>8, <2>9
<1>6. ASSUME NEW g \in Procs, GitFails(g)
      PROVE  AnswersRight'
  BY <1>0, <1>6, AnswerStepOf DEF GitFails
<1>7. CASE Expire \/ UNCHANGED vars
  BY <1>7, <1>u DEF Expire, vars
<1> QED
  BY <1>1, <1>2, <1>4, <1>5, <1>6, <1>7 DEF Next, Handle

-----------------------------------------------------------------------------
(* The theorems.                                                           *)

\* The inductive invariant holds initially.
LEMMA InitIInv == Init => IInv
<1> SUFFICES ASSUME Init
             PROVE  IInv
  OBVIOUS
<1>1. TypeOK
  BY InitTypeOK
<1>2. GraphOK
  BY DEF Init, IsHistory, GraphOK
<1>3. CachesRight
  BY DEF Init, CachesRight
<1>4. ScanRight
  BY DEF Init, ScanRight
<1>5. AnswersRight
  BY DEF Init, AnswersRight, Answered, NoAnswer
<1> QED
  BY <1>1, <1>2, <1>3, <1>4, <1>5 DEF IInv

\* Every step keeps it.
LEMMA StepIInv ==
  ASSUME IInv, [Next]_vars
  PROVE  IInv'
<1>1. TypeOK'
  BY TypeStep DEF IInv
<1>2. GraphOK'
  BY RepoUnchanged, SameGit DEF IInv
<1> QED
  BY <1>1, <1>2, CachesStep, ScanStep, AnswersStep DEF IInv

\* The inductive invariant holds in every reachable state.
THEOREM Invariance == Spec => []IInv
BY InitIInv, StepIInv, PTL DEF Spec

\* Every variable has its type, for any history, goroutines and bounds.
THEOREM TypeCorrect == Spec => []TypeOK
<1>1. IInv => TypeOK
  BY DEF IInv
<1> QED
  BY <1>1, Invariance, PTL

\* ListRevisions and DiffTree answer from the caches what git would say: no
\* interleaving of requests, failures and expiry leaves a wrong entry.
THEOREM CachesHoldWhatGitSays == Spec => []CachesRight
<1>1. IInv => CachesRight
  BY DEF IInv
<1> QED
  BY <1>1, Invariance, PTL

\* In any history, with merges or without, a revision in the answer to a
\* forward request is on the way from previous to current and changed the
\* application; a request that goes back is answered by its current revision.
THEOREM AnswerOnTheWay == Spec => [](\A a \in Answered : OnTheWay(a))
<1>1. IInv => \A a \in Answered : OnTheWay(a)
  BY DEF IInv, AnswersRight, Right
<1> QED
  BY <1>1, Invariance, PTL

\* In a history without merge commits the revision in the answer is the last
\* change of the application before the deployed commit.
THEOREM LastChangeAnswered == ~Merges => (Spec => []AnswerIsLastChange)
<1> SUFFICES ASSUME ~Merges
             PROVE  Spec => []AnswerIsLastChange
  OBVIOUS
<1>1. IInv => AnswerIsLastChange
  BY DEF IInv, AnswersRight, Right, OnTheWay, NothingAfter, AnswerIsLastChange
<1> QED
  BY <1>1, Invariance, PTL

\* In a history without merge commits "no change" is only answered if the
\* application's content did not change.
THEOREM NoChangeMissed == ~Merges => (Spec => []ChangeReported)
<1> SUFFICES ASSUME ~Merges
             PROVE  Spec => []ChangeReported
  OBVIOUS
<1>1. IInv => ChangeReported
  BY DEF IInv, AnswersRight, Right, NothingAfter, ChangeReported
<1> QED
  BY <1>1, Invariance, PTL
=============================================================================
