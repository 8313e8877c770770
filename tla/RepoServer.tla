----------------------------- MODULE RepoServer -----------------------------
(***************************************************************************)
(* GetChangeRevision of the repo server: reposerver/repository/            *)
(* mrp_repository.go with ListRevisions and DiffTree of util/git/          *)
(* mrp_client.go and the caches those two use.                             *)
(*                                                                         *)
(* The repository is a commit graph.  Of the files under an application's  *)
(* refresh paths only their joint content is kept, one value per commit.   *)
(* Commits are numbered by date, and git lists the newest first.           *)
(* Requests run in parallel and share the caches.  The commands read the   *)
(* object database, not the working tree that module RepoLock is about, so *)
(* here Lock is a step that succeeds or fails.                             *)
(***************************************************************************)
EXTENDS Integers, Sequences, FiniteSets, CommitGraph

CONSTANTS
  Procs,        \* goroutines serving requests
  N,            \* bound: the commits are 1..N
  Merges,       \* the graph may have merge commits
  MaxRequests,  \* bound on requests
  MaxFaults     \* bound on failing git commands

ASSUME NAssumption == N \in Nat \ {0}
ASSUME BoundsAssumption ==
  Merges \in BOOLEAN /\ MaxRequests \in Nat /\ MaxFaults \in Nat

VARIABLES
  parents,    \* the commit graph
  content,    \* what a commit's tree holds under the refresh paths
  listCache,  \* cached results of rev-list, by <<previous, current>>
  diffCache,  \* cached results of diff-tree, by commit
  pc,         \* per goroutine: "idle", "resolve", "lock", "list", "scan"
  req,        \* the request it serves
  todo,       \* scan: the revisions still to look at
  answer,     \* the last answer it gave, with the request it answers
  requests, faults

vars == <<parents, content, listCache, diffCache, pc, req, todo, answer,
          requests, faults>>

repo == <<parents, content>>

Unknown == 0     \* the empty string
Failed == -1     \* an error in place of a revision
Commits == 1 .. N

-----------------------------------------------------------------------------
(* The repository (external).                                              *)

AncestorsIn(ps, c) == History(Commits, ps, c)

Ancestors(c) == AncestorsIn(parents, c)

Newest(S) == CHOOSE x \in S : \A y \in S : x >= y

\* The content of a merge of p and q: of the side that changed it since their
\* newest common ancestor.
Merged(ps, ct, p, q) ==
  LET base == Newest(AncestorsIn(ps, p) \cap AncestorsIn(ps, q))
  IN  IF ct[p] = ct[base] THEN ct[q] ELSE ct[p]

\* Commit 1 is the root; others have a parent, or merge two branches.
IsHistory(ps, ct) ==
  /\ \A c \in Commits :
       /\ \A p \in ps[c] : p < c
       /\ Cardinality(ps[c]) <= IF Merges THEN 2 ELSE 1
       /\ c > 1 => ps[c] # {}
  /\ \A c \in Commits : \A p, q \in ps[c] :
       p # q => p \notin AncestorsIn(ps, q) /\ ct[c] = Merged(ps, ct, p, q)

\* rev-list --ancestry-path p..c: the commits up to c that descend from p.
RevList(p, c) == {x \in Ancestors(c) : x # p /\ p \in Ancestors(x)}

\* diff-tree -r c names a file under the refresh paths: a commit is compared
\* with its parent; a root commit and a merge commit print nothing.
DiffTreeHits(c) ==
  /\ Cardinality(parents[c]) = 1
  /\ \A p \in parents[c] : content[c] # content[p]

-----------------------------------------------------------------------------
Requests == [previous : Commits \cup {Unknown}, current : Commits]
NoAnswer == [previous |-> Unknown, current |-> 1, revision |-> Failed]

Init ==
  /\ parents \in [Commits -> SUBSET Commits]
  /\ content \in [Commits -> {0, 1}]
  /\ IsHistory(parents, content)
  /\ listCache = [k \in {} |-> {}]
  /\ diffCache = [k \in {} |-> FALSE]
  /\ pc = [g \in Procs |-> "idle"]
  /\ req = [g \in Procs |-> [previous |-> Unknown, current |-> 1]]
  /\ todo = [g \in Procs |-> {}]
  /\ answer = [g \in Procs |-> NoAnswer]
  /\ requests = 0
  /\ faults = 0

\* A request arrives.
Receive(g) ==
  /\ pc[g] = "idle"
  /\ requests < MaxRequests
  /\ requests' = requests + 1
  /\ \E r \in Requests : req' = [req EXCEPT ![g] = r]
  /\ pc' = [pc EXCEPT ![g] = "resolve"]
  /\ UNCHANGED <<repo, listCache, diffCache, todo, answer, faults>>

\* The handler returns rev.
Answer(g, rev) ==
  /\ answer' = [answer EXCEPT ![g] = [previous |-> req[g].previous,
                                      current |-> req[g].current,
                                      revision |-> rev]]
  /\ pc' = [pc EXCEPT ![g] = "idle"]
  /\ todo' = [todo EXCEPT ![g] = {}]

\* newClientResolveRevision; without a previous revision the current one is
\* the answer.
Resolve(g) ==
  /\ pc[g] = "resolve"
  /\ IF req[g].previous = Unknown
     THEN Answer(g, req[g].current)
     ELSE pc' = [pc EXCEPT ![g] = "lock"] /\ UNCHANGED <<todo, answer>>
  /\ UNCHANGED <<repo, listCache, diffCache, req, requests, faults>>

\* The repository lock is taken, and the current revision checked out.
Lock(g) ==
  /\ pc[g] = "lock"
  /\ pc' = [pc EXCEPT ![g] = "list"]
  /\ UNCHANGED <<repo, listCache, diffCache, req, todo, answer, requests, faults>>

\* Faulty variant: the cache is asked by the current revision alone.
CachedListByTarget(p, c) == {k \in DOMAIN listCache : k[2] = c}

\* The cached lists for this range: none, or one.
CachedList(p, c) == {k \in DOMAIN listCache : k = <<p, c>>}

\* Faulty variant: empty lists are cached too.
RememberAlways(p, c, revs) ==
  [k \in DOMAIN listCache \cup {<<p, c>>} |->
     IF k = <<p, c>> THEN revs ELSE listCache[k]]

\* SetListRevisions, of a list that is not empty.
Remember(p, c, revs) ==
  IF revs = {} THEN listCache
  ELSE [k \in DOMAIN listCache \cup {<<p, c>>} |->
          IF k = <<p, c>> THEN revs ELSE listCache[k]]

\* ListRevisions returned revs: an empty list makes the current revision the
\* answer.
Listed(g, revs) ==
  IF revs = {} THEN Answer(g, req[g].current)
  ELSE /\ todo' = [todo EXCEPT ![g] = revs]
       /\ pc' = [pc EXCEPT ![g] = "scan"]
       /\ UNCHANGED answer

\* ListRevisions: the revision itself if the two are equal, the cached list,
\* or rev-list, whose result is cached unless it is empty.
ListRevisions(g) ==
  LET p == req[g].previous
      c == req[g].current
  IN
  /\ pc[g] = "list"
  /\ \/ /\ p = c
        /\ Listed(g, {c})
        /\ UNCHANGED listCache
     \/ /\ p # c
        /\ \E k \in CachedList(p, c) : Listed(g, listCache[k])
        /\ UNCHANGED listCache
     \/ /\ p # c
        /\ CachedList(p, c) = {}
        /\ Listed(g, RevList(p, c))
        /\ listCache' = Remember(p, c, RevList(p, c))
  /\ UNCHANGED <<repo, diffCache, req, requests, faults>>

\* rev-list's order: the newest first.
NextRevision(revs) == Newest(revs)

\* Faulty variant: a commit that changed no file ends the walk.
LookedStops(g, rev, hit) ==
  IF hit THEN Answer(g, rev) ELSE Answer(g, Unknown)

\* One round of the loop: a hit is the answer; the end of the list without a
\* hit is the answer "".
Looked(g, rev, hit) ==
  IF hit THEN Answer(g, rev)
  ELSE IF todo[g] = {rev} THEN Answer(g, Unknown)
  ELSE todo' = [todo EXCEPT ![g] = @ \ {rev}] /\ UNCHANGED <<pc, answer>>

\* DiffTree of the next revision: from the cache, or by diff-tree, whose
\* result is cached if it names any file.  Files outside the refresh paths may
\* or may not be among them, so a miss may be cached too.
DiffTree(g) ==
  LET rev == NextRevision(todo[g])
  IN
  /\ pc[g] = "scan"
  /\ \/ /\ rev \in DOMAIN diffCache
        /\ Looked(g, rev, diffCache[rev])
        /\ UNCHANGED diffCache
     \/ /\ rev \notin DOMAIN diffCache
        /\ Looked(g, rev, DiffTreeHits(rev))
        /\ \/ /\ Cardinality(parents[rev]) = 1
              /\ diffCache' = [k \in DOMAIN diffCache \cup {rev} |->
                                 IF k = rev THEN DiffTreeHits(rev)
                                 ELSE diffCache[k]]
           \/ ~DiffTreeHits(rev) /\ UNCHANGED diffCache
  /\ UNCHANGED <<repo, listCache, req, requests, faults>>

\* A git command fails: fetch or checkout, rev-list, diff-tree.  Nothing is
\* cached.
GitFails(g) ==
  /\ pc[g] # "idle"
  /\ pc[g] = "list" => /\ req[g].previous # req[g].current
                        /\ CachedList(req[g].previous, req[g].current) = {}
  /\ pc[g] = "scan" => NextRevision(todo[g]) \notin DOMAIN diffCache
  /\ faults < MaxFaults
  /\ faults' = faults + 1
  /\ Answer(g, Failed)
  /\ UNCHANGED <<repo, listCache, diffCache, req, requests>>

\* Cached results expire.
Expire ==
  /\ DOMAIN listCache # {} \/ DOMAIN diffCache # {}
  /\ listCache' = [k \in {} |-> {}]
  /\ diffCache' = [k \in {} |-> FALSE]
  /\ UNCHANGED <<repo, pc, req, todo, answer, requests, faults>>

Handle(g) ==
  Resolve(g) \/ Lock(g) \/ ListRevisions(g) \/ DiffTree(g) \/ GitFails(g)

Next == Expire \/ \E g \in Procs : Receive(g) \/ Handle(g)

Spec == Init /\ [][Next]_vars

-----------------------------------------------------------------------------
(* Properties, of an answer r to a request for previous..current.          *)

Answered == {answer[g] : g \in {h \in Procs : answer[h].revision # Failed}}

Forward(a) ==
  a.previous # Unknown /\ a.previous # a.current
    /\ a.previous \in Ancestors(a.current)

\* Every variable has its type; the caches hold no empty list.
TypeOK ==
  /\ \A k \in DOMAIN listCache :
       k \in Commits \X Commits /\ listCache[k] # {} /\ listCache[k] \subseteq Commits
  /\ \A k \in DOMAIN diffCache : k \in Commits /\ diffCache[k] \in BOOLEAN
  /\ pc \in [Procs -> {"idle", "resolve", "lock", "list", "scan"}]
  /\ req \in [Procs -> Requests]
  /\ todo \in [Procs -> SUBSET Commits]
  /\ \A g \in Procs : pc[g] = "scan" <=> todo[g] # {}
  /\ answer \in [Procs -> [previous : Commits \cup {Unknown}, current : Commits,
                           revision : Commits \cup {Unknown, Failed}]]
  /\ requests \in 0 .. MaxRequests /\ faults \in 0 .. MaxFaults

\* A revision in the answer is the commit the deployed content came from: it
\* is on the way from previous to current, it changed the application, and
\* nothing after it did.  A request that goes back, or to another branch, has
\* no such way and is answered by its current revision.
AnswerIsLastChange ==
  \A a \in Answered :
    /\ Forward(a) /\ a.revision # Unknown =>
         /\ a.revision \in RevList(a.previous, a.current)
         /\ content[a.revision] = content[a.current]
         /\ \E p \in parents[a.revision] : content[p] # content[a.revision]
    /\ a.previous # Unknown /\ a.previous \notin Ancestors(a.current) =>
         a.revision = a.current

\* GetChangeRevision finds the commit "that actually changed the application"
\* (docs/architecture.md:27): the answer "no change" (the empty string) is
\* given only if the application's content did not change.
ChangeReported ==
  \A a \in Answered : Forward(a) /\ a.revision = Unknown =>
    content[a.previous] = content[a.current]
=============================================================================
