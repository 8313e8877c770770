-------------------------- MODULE ReconcileProofs ---------------------------
(***************************************************************************)
(* Proofs about module Reconcile, for every list of sources and edits of   *)
(* it, every number of commits, syncs, faults and restarts.                *)
(***************************************************************************)
EXTENDS Reconcile, SequenceTheorems, WellFoundedInduction, TLAPS

-----------------------------------------------------------------------------
(* The inductive invariant: the objects.                                   *)

Lists == Edits \cup {Sources}

\* Revisions resolved for a list of sources: one of its own for each.
RevsOf(l) == {r \in [DOMAIN l -> Commits] : \A i \in DOMAIN l : r[i] \in CommitsOf[l[i]]}

\* A request that names no revisions.
NoRevs(l) == [i \in DOMAIN l |-> Unknown]

Entries == [sources : Lists, revs : RevSeqs]

Apps ==
  [multi : {Multi}, sources : Lists, history : Seq(Entries), synced : BOOLEAN,
   syncRevs : RevSeqs, operation : RevSeqs, result : RevSeqs,
   chg : Revisions \cup {Absent}, chgs : RevSeqs,
   git : Revisions \cup {Absent}, gits : RevSeqs]

\* What Argo CD deploys, and has deployed, are revisions of the sources they
\* are listed with.
Own(a) ==
  /\ a.operation # <<>> => a.operation \in RevsOf(a.sources) \cup {NoRevs(a.sources)}
  /\ \A k \in DOMAIN a.history : a.history[k].revs \in RevsOf(a.history[k].sources)

OwnApps == {a \in Apps : Own(a)}

AnnotationType(k) == IF k \in {"chg", "git"} THEN Revisions \cup {Absent} ELSE RevSeqs

\* A sync under way has a target, which the sources have.
SyncTypes ==
  /\ stage \in {"none", "requested", "running", "recorded"}
  /\ (stage = "none") <=> (app.operation = <<>>)
  /\ target \in IF stage = "none" THEN {<<>>} ELSE RevsOf(app.sources)

Types ==
  /\ touches \in [SourceIds -> SUBSET Commits]
  /\ tip \in [SourceIds -> Commits]
  /\ \A s \in SourceIds : tip[s] \in CommitsOf[s]
  /\ edited \in BOOLEAN /\ overtaken \in BOOLEAN
  /\ back \in BOOLEAN /\ moved \in BOOLEAN /\ misread \in BOOLEAN
  /\ app \in OwnApps
  /\ SyncTypes
  /\ watch \in Seq(OwnApps)
  /\ slot \in Seq(OwnApps) /\ Len(slot) <= 1
  /\ pc \in {"idle", "calc", "patch"}
  /\ snap \in Seq(OwnApps) /\ Len(snap) = IF pc = "idle" THEN 0 ELSE 1
  /\ DOMAIN patch \subseteq AnnotationKeys
  /\ \A k \in DOMAIN patch : patch[k] \in AnnotationType(k)
  /\ (DOMAIN patch # {}) <=> (pc = "patch")
  /\ changes \in 0 .. MaxChanges
  /\ faults \in Nat /\ crashes \in Nat /\ faults + crashes <= MaxFaults

-----------------------------------------------------------------------------
(* What the handler makes of an application object a.                      *)

AskOf(a, i) ==
  LET r == GetSourceRevisions(a, i)
  IN  GetChangeRevision(touches[a.sources[i]], r.previous, r.current)

AskedOf(a) == {i \in DOMAIN a.sources : NeedsCalculation(GetSourceRevisions(a, i))}

ForeignOf(a) ==
  {i \in AskedOf(a) :
     LET r == GetSourceRevisions(a, i)
     IN  r.previous # Unknown /\ ~({r.previous, r.current} \subseteq CommitsOf[a.sources[i]])}

NewOf(a, bad) ==
  [i \in DOMAIN a.sources |-> NewRevisions(GetSourceRevisions(a, i), i \notin bad, AskOf(a, i))]

PatchOf(a, bad) == MakeAnnotationPatch(a, NewOf(a, bad))

-----------------------------------------------------------------------------
(* The inductive invariant: nothing is left undone.                        *)

\* The last of the objects under way is the one on the API server; the handler
\* has nothing to patch when none is under way, unless a call has failed.
NothingMissed ==
  /\ watch # <<>> => watch[Len(watch)] = app
  /\ watch = <<>> /\ slot # <<>> => slot[1] = app
  /\ watch = <<>> /\ slot = <<>> /\ pc # "idle" => snap[1] = app
  /\ pc = "patch" /\ faults = 0 => patch = PatchOf(snap[1], ForeignOf(snap[1]))
  /\ Quiescent /\ faults = 0 => DOMAIN PatchOf(app, ForeignOf(app)) = {}

\* How far the sync under way has come shows in the object; otherwise a synced
\* application shows the result of the sync that made the last history entry.
SyncStages ==
  /\ stage = "running" => app.result = target
  /\ stage = "recorded" => app.history # <<>> /\ LastEntry.revs = target
  /\ stage \in {"none", "requested"} /\ app.synced /\ app.history # <<>> =>
       app.result = LastEntry.revs
  /\ app.synced /\ app.history = <<>> => app.result \in {<<>>, target}

IInv == Types /\ NothingMissed /\ SyncStages

-----------------------------------------------------------------------------
(* The inductive invariant: revisions only grow, if the sources stay and   *)
(* no older revision is gone back to.                                      *)

Pending ==
  {snap[k] : k \in DOMAIN snap} \cup {slot[k] : k \in DOMAIN slot}
    \cup {watch[k] : k \in DOMAIN watch}

Seen == Pending \cup {app}

Cur(a, i) == GetRevisions(a, i).current

Ann(a, i) == {SliceGetString(a.chgs, i), SliceGetString(a.gits, i)}

\* What was compared and deployed has been resolved, for every source.
Resolved(a) == \A r \in {a.syncRevs, a.result} : r # <<>> => r \in RevsOf(Sources)

\* The sources are the original ones; a single source has its revisions in the
\* plain annotations and in the arrays alike.
Form(a) ==
  /\ a.sources = Sources
  /\ Resolved(a)
  /\ ~Multi =>
       /\ AnnotationValue(a.chg) = SliceGetString(a.chgs, 1)
       /\ AnnotationValue(a.git) = SliceGetString(a.gits, 1)
       /\ a.chg = Absent <=> a.chgs = <<>>
       /\ a.git = Absent <=> a.gits = <<>>

\* v is not newer than the current revision that object x shows.
UnderCur(v, x, i) == Cur(x, i) # Unknown => v <= Cur(x, i)

\* The revisions of the sync under way, or of the last one.
Aim == IF stage = "none" THEN app.result ELSE target

\* v is not newer than what Argo CD may show as the current revision next, if
\* t are the tips, a is the application and r is the aim.
UnderCeiling(t, a, r, v, i) ==
  /\ v <= t[Sources[i]]
  /\ UnderCur(v, a, i)
  /\ r # <<>> => v <= r[i]

Later(x, y) == \A i \in DOMAIN Sources : UnderCur(Cur(x, i), y, i)

\* The objects under way show their current revisions in order.
CurInOrder ==
  /\ \A j, k \in DOMAIN watch : j < k => Later(watch[j], watch[k])
  /\ \A m \in DOMAIN slot, k \in DOMAIN watch : Later(slot[m], watch[k])
  /\ \A m \in DOMAIN snap : /\ \A k \in DOMAIN slot : Later(snap[m], slot[k])
                            /\ \A k \in DOMAIN watch : Later(snap[m], watch[k])

\* Nothing that was ever seen is above the ceiling.
CeilingHolds ==
  \A a \in Seen, i \in DOMAIN Sources :
    \A v \in Ann(a, i) \cup {Cur(a, i)} : UnderCeiling(tip, app, Aim, v, i)

\* What Argo CD deploys, or did last, has been resolved.
TipIsTop ==
  \A i \in DOMAIN Sources : Aim # <<>> => Aim[i] <= tip[Sources[i]]

\* What is annotated comes from objects before those under way.
AnnotatedBefore ==
  \A a \in Seen, x \in Pending, i \in DOMAIN Sources :
    \A v \in Ann(a, i) : UnderCur(v, x, i)

\* The git revision only grows, unless it is reset.
GitGrows ==
  \A x \in Pending, i \in DOMAIN Sources :
    SliceGetString(app.gits, i) # Unknown =>
      SliceGetString(x.gits, i) <= SliceGetString(app.gits, i)

\* The patch is made from the copy.
PatchMade == pc = "patch" => \E bad \in SUBSET DOMAIN Sources : patch = PatchOf(snap[1], bad)

\* No commit touches a chart.
ChartsUntouched == \A s \in SourceIds : s \in Helm => touches[s] = {}

GrowInv ==
  /\ ~edited /\ ~back
  /\ ChartsUntouched
  /\ \A a \in Seen : Form(a)
  /\ CurInOrder
  /\ TipIsTop
  /\ CeilingHolds
  /\ AnnotatedBefore
  /\ GitGrows
  /\ PatchMade
  /\ NeverAhead

-----------------------------------------------------------------------------
(* Lemmas about sets of numbers and lists of revisions.                    *)

\* Some number of a set is the least.
LEMMA MinExists ==
  ASSUME NEW S \in SUBSET Nat, S # {}
  PROVE  Min(S) \in S /\ \A y \in S : Min(S) <= y
<1>1. PICK x \in S : \A y \in S : ~(<<y, x>> \in OpToRel(<, Nat))
  BY NatLessThanWellFounded, WFMin, Zenon
<1>2. ASSUME NEW y \in S
      PROVE  x <= y
  <2>1. ~(y < x)
    BY <1>1 DEF OpToRel
  <2> QED
    BY <2>1
<1> QED
  BY <1>2 DEF Min

\* Some number of a set with a bound is the greatest.
LEMMA MaxExists ==
  ASSUME NEW S \in SUBSET Nat, S # {}, NEW n \in Nat, \A y \in S : y <= n
  PROVE  Max(S) \in S /\ \A y \in S : Max(S) >= y
<1> DEFINE T == {n - x : x \in S}
<1>1. T \in SUBSET Nat /\ T # {}
  <2>1. \A x \in S : n - x \in Nat
    OBVIOUS
  <2> QED
    BY <2>1
<1>2. Min(T) \in T /\ \A y \in T : Min(T) <= y
  BY <1>1, MinExists
<1>3. PICK x \in S : Min(T) = n - x
  BY <1>2
<1>4. ASSUME NEW y \in S
      PROVE  x >= y
  <2>1. n - y \in T
    OBVIOUS
  <2>2. n - x <= n - y
    BY <1>2, <1>3, <2>1
  <2> QED
    BY <2>2
<1> QED
  BY <1>4 DEF Max

\* A sequence of length one.
LEMMA OneElement ==
  ASSUME NEW S, NEW s \in Seq(S)
  PROVE  /\ Len(s) = 1 => DOMAIN s = {1} /\ s[1] \in S
         /\ s # <<>> /\ Len(s) <= 1 => Len(s) = 1
<1>1. Len(s) \in Nat /\ DOMAIN s = 1 .. Len(s) /\ \A k \in 1 .. Len(s) : s[k] \in S
  BY LenProperties, ElementOfSeq
<1>2. s # <<>> => Len(s) # 0
  BY EmptySeq
<1> QED
  BY <1>1, <1>2

\* The revisions are numbers.
LEMMA CommitsAreNats ==
  /\ Commits \subseteq Nat \ {0}
  /\ Revisions \subseteq Nat
  /\ \A s \in SourceIds : CommitsOf[s] \subseteq Commits /\ CommitsOf[s] # {}
BY SourcesAssumption DEF Commits, Revisions, Unknown, SourceIds

\* The lists of sources.
LEMMA ListsType ==
  ASSUME NEW l \in Lists
  PROVE  /\ l \in Seq(SourceIds) /\ Len(l) \in Nat \ {0} /\ DOMAIN l = 1 .. Len(l)
         /\ \A i \in DOMAIN l : l[i] \in SourceIds
         /\ 1 \in DOMAIN l
BY SourcesAssumption DEF Lists

\* A revision for each source, or none at all, is a list of revisions.
LEMMA RevSeqsIntro ==
  /\ <<>> \in RevSeqs
  /\ \A l \in Lists : \A r \in [DOMAIN l -> Revisions] : r \in RevSeqs
<1>1. <<>> \in [1 .. 0 -> Revisions]
  OBVIOUS
<1>2. <<>> \in RevSeqs
  BY <1>1 DEF RevSeqs
<1>3. ASSUME NEW l \in Lists, NEW r \in [DOMAIN l -> Revisions]
      PROVE  r \in RevSeqs
  <2>1. DOMAIN l = 1 .. Len(l)
    BY ListsType
  <2>2. r \in [1 .. Len(l) -> Revisions]
    BY <2>1
  <2>3. Len(l) \in {0} \cup {Len(m) : m \in Edits \cup {Sources}}
    BY DEF Lists
  <2> QED
    BY <2>2, <2>3 DEF RevSeqs
<1> QED
  BY <1>2, <1>3

\* An element of it, or the one that is missing, is a revision.
LEMMA RevSeqsElim ==
  ASSUME NEW r \in RevSeqs
  PROVE  /\ r \in Seq(Revisions)
         /\ \A i : SliceGetString(r, i) \in Revisions
<1>1. PICK n \in {0} \cup {Len(l) : l \in Edits \cup {Sources}} : r \in [1 .. n -> Revisions]
  BY DEF RevSeqs
<1>2. n \in Nat
  BY <1>1, SourcesAssumption
<1>3. r \in Seq(Revisions)
  BY <1>1, <1>2
<1> QED
  BY <1>3 DEF SliceGetString, Revisions

\* Resolved revisions are one of these lists, and not the empty one.
LEMMA RevsOfType ==
  ASSUME NEW l \in Lists, NEW r \in RevsOf(l)
  PROVE  /\ r \in RevSeqs /\ r # <<>> /\ DOMAIN r = DOMAIN l /\ Len(r) = Len(l)
         /\ \A i \in DOMAIN l : SliceGetString(r, i) = r[i] /\ r[i] \in CommitsOf[l[i]]
<1>1. r \in [DOMAIN l -> Revisions] /\ DOMAIN r = DOMAIN l
  BY DEF RevsOf, Revisions
<1>2. r \in RevSeqs
  BY <1>1, RevSeqsIntro
<1>3. DOMAIN l = 1 .. Len(l) /\ Len(l) \in Nat \ {0}
  BY ListsType
<1>4. r \in Seq(Revisions) /\ Len(r) = Len(l)
  BY <1>1, <1>3
<1>5. r # <<>>
  BY <1>3, <1>4
<1> QED
  BY <1>1, <1>2, <1>3, <1>4, <1>5 DEF RevsOf, SliceGetString

\* So is a list without revisions.
LEMMA NoRevsType ==
  ASSUME NEW l \in Lists
  PROVE  /\ NoRevs(l) \in RevSeqs /\ NoRevs(l) # <<>>
         /\ \A i : SliceGetString(NoRevs(l), i) = Unknown
<1>1. DOMAIN l = 1 .. Len(l) /\ Len(l) \in Nat \ {0} /\ 1 \in DOMAIN l
  BY ListsType
<1>2. NoRevs(l) \in [DOMAIN l -> Revisions]
  BY DEF NoRevs, Revisions
<1>3. NoRevs(l) \in RevSeqs
  BY <1>2, RevSeqsIntro
<1>4. DOMAIN NoRevs(l) # {}
  BY <1>1 DEF NoRevs
<1>5. NoRevs(l) # <<>>
  BY <1>4
<1>6. DOMAIN NoRevs(l) = 1 .. Len(NoRevs(l))
  BY <1>3, RevSeqsElim
<1>7. \A i \in DOMAIN NoRevs(l) : NoRevs(l)[i] = Unknown
  BY DEF NoRevs
<1> QED
  BY <1>3, <1>5, <1>6, <1>7 DEF SliceGetString

-----------------------------------------------------------------------------
(* Lemmas about the operators of MrpService.                               *)

\* What is read from the history is a revision.
LEMMA RevisionFromHistoryType ==
  ASSUME NEW a \in OwnApps, NEW h \in DOMAIN a.history, NEW i \in DOMAIN a.sources
  PROVE  RevisionFromHistory(a, h, i) \in Revisions
<1> DEFINE e == a.history[h]
           j == HistoricalIndex(a, e, i)
<1>1. /\ a.history \in Seq(Entries) /\ a.multi = Multi
      /\ \A k \in DOMAIN a.history : a.history[k].revs \in RevsOf(a.history[k].sources)
  BY DEF OwnApps, Apps, Own
<1>2. e \in Entries /\ e.revs \in RevsOf(e.sources) /\ e.sources \in Lists
  <2>1. e \in Entries
    BY <1>1
  <2>2. e.revs \in RevsOf(e.sources)
    BY <1>1
  <2> QED
    BY <2>1, <2>2 DEF Entries
<1>3. CASE Multi
  <2>1. RevisionFromHistory(a, h, i) = SliceGetString(e.revs, j)
    BY <1>1, <1>3 DEF RevisionFromHistory
  <2>2. e.revs \in RevSeqs
    BY <1>2, RevsOfType
  <2> HIDE DEF e, j
  <2> QED
    BY <2>1, <2>2, RevSeqsElim
<1>4. CASE ~Multi
  <2>1. RevisionFromHistory(a, h, i) = e.revs[1]
    BY <1>1, <1>4 DEF RevisionFromHistory
  <2>2. 1 \in DOMAIN e.sources /\ e.revs \in [DOMAIN e.sources -> Commits]
    BY <1>2, ListsType DEF RevsOf
  <2> QED
    BY <1>4, <2>1, <2>2 DEF Revisions
<1> QED
  BY <1>3, <1>4

\* The range the repo server is asked about is one of revisions.
LEMMA GetRevisionsType ==
  ASSUME NEW a \in OwnApps, NEW i \in DOMAIN a.sources
  PROVE  LET r == GetRevisions(a, i)
         IN  r.current \in Revisions /\ r.previous \in Revisions
<1>1. /\ a.history \in Seq(Entries) /\ Unknown \in Revisions
      /\ {a.operation, a.syncRevs, a.result} \subseteq RevSeqs
  BY DEF OwnApps, Apps, Revisions
<1>2. GetCurrentRevisionForFirstSync(a, i) \in Revisions
  BY <1>1, RevSeqsElim DEF GetCurrentRevisionForFirstSync
<1>3. SliceGetString(a.result, i) \in Revisions
  BY <1>1, RevSeqsElim
<1>4. Len(a.history) \in Nat /\ DOMAIN a.history = 1 .. Len(a.history)
  BY <1>1
<1>5. ASSUME NEW h \in DOMAIN a.history
      PROVE  RevisionFromHistory(a, h, i) \in Revisions
  BY RevisionFromHistoryType
<1>6. CASE Len(a.history) = 0
  BY <1>1, <1>2, <1>6 DEF GetRevisions
<1>7. CASE Len(a.history) # 0 /\ ~(a.synced /\ a.result # <<>>)
  <2>1. Len(a.history) \in DOMAIN a.history
    BY <1>4, <1>7
  <2> QED
    BY <1>2, <1>5, <1>7, <2>1 DEF GetRevisions
<1>8. CASE Len(a.history) # 0 /\ a.synced /\ a.result # <<>>
  <2>1. Len(a.history) # 1 => Len(a.history) - 1 \in DOMAIN a.history
    <3>1. \A n \in Nat : n # 0 /\ n # 1 => n - 1 \in 1 .. n
      OBVIOUS
    <3> QED
      BY <1>4, <1>8, <3>1
  <2>2. CASE Len(a.history) = 1
    BY <1>1, <1>3, <1>8, <2>2 DEF GetRevisions
  <2>3. CASE Len(a.history) # 1
    BY <1>3, <1>5, <1>8, <2>1, <2>3 DEF GetRevisions
  <2> QED
    BY <2>2, <2>3
<1> QED
  BY <1>6, <1>7, <1>8

\* The four revisions of a source.
LEMMA GetSourceRevisionsType ==
  ASSUME NEW a \in OwnApps, NEW i \in DOMAIN a.sources
  PROVE  LET r == GetSourceRevisions(a, i)
         IN  /\ r.change \in Revisions /\ r.git \in Revisions
             /\ r.current \in Revisions /\ r.previous \in Revisions
<1>1. /\ {a.chgs, a.gits} \subseteq RevSeqs /\ {a.chg, a.git} \subseteq Revisions \cup {Absent}
      /\ Unknown \in Revisions
  BY DEF OwnApps, Apps, Revisions
<1>2. AnnotationValue(a.chg) \in Revisions /\ AnnotationValue(a.git) \in Revisions
  BY <1>1 DEF AnnotationValue
<1>3. SliceGetString(a.chgs, i) \in Revisions /\ SliceGetString(a.gits, i) \in Revisions
  BY <1>1, RevSeqsElim
<1> QED
  BY <1>2, <1>3, GetRevisionsType DEF GetSourceRevisions

\* The answer of the repo server: nothing, the current revision, or the newest
\* of the touching commits after previous, up to current.
LEMMA GetChangeRevisionIs ==
  ASSUME NEW T \in SUBSET Commits, NEW p \in Revisions, NEW c \in Revisions
  PROVE  LET v == GetChangeRevision(T, p, c)
             hits == {x \in T : p < x /\ x <= c}
         IN  /\ p = Unknown => v = c
             /\ p # Unknown /\ p > c => v = c
             /\ p # Unknown /\ p < c =>
                  /\ hits = {} => v = Unknown
                  /\ hits # {} => v \in hits /\ \A x \in hits : v >= x
             /\ p # Unknown /\ p = c => v = IF c \in T THEN c ELSE Unknown
             /\ v \in Revisions
<1> DEFINE hits == {x \in T : p < x /\ x <= c}
           v == GetChangeRevision(T, p, c)
<1>0. p \in Nat /\ c \in Nat /\ T \subseteq Nat
  BY CommitsAreNats
<1>1. CASE p = Unknown
  BY <1>1 DEF GetChangeRevision, Unknown
<1>2. CASE p # Unknown /\ p > c
  <2>1. (p + 1) .. c = {} /\ p # c
    BY <1>0, <1>2
  <2> QED
    BY <1>0, <1>2, <2>1 DEF GetChangeRevision
<1>3. CASE p # Unknown /\ p < c
  <2>1. (p + 1) .. c # {} /\ p # c
    BY <1>0, <1>3
  <2>2. ((p + 1) .. c) \cap T = hits
    <3>1. \A x \in Nat : x \in (p + 1) .. c <=> p < x /\ x <= c
      BY <1>0
    <3> QED
      BY <1>0, <3>1
  <2>3. v = IF hits = {} THEN Unknown ELSE Max(hits)
    BY <1>3, <2>1, <2>2 DEF GetChangeRevision
  <2>4. hits # {} => Max(hits) \in hits /\ \A y \in hits : Max(hits) >= y
    <3>1. hits \in SUBSET Nat /\ \A y \in hits : y <= c
      BY <1>0
    <3> QED
      BY <1>0, <3>1, MaxExists
  <2> HIDE DEF v
  <2>5. v \in Revisions
    BY <2>3, <2>4 DEF Revisions
  <2> QED
    BY <1>0, <1>3, <2>3, <2>4, <2>5 DEF v
<1>4. CASE p # Unknown /\ p = c
  <2>1. CASE c \in T
    <3>1. {c} \cap T = {c}
      BY <2>1
    <3>2. Max({c}) = c
      BY <1>0 DEF Max
    <3>3. v = c
      BY <1>4, <3>1, <3>2 DEF GetChangeRevision
    <3> QED
      BY <1>0, <1>4, <2>1, <3>3
  <2>2. CASE c \notin T
    <3>1. {c} \cap T = {}
      BY <2>2
    <3>2. v = Unknown
      BY <1>4, <3>1 DEF GetChangeRevision
    <3> QED
      BY <1>0, <1>4, <2>2, <3>2 DEF Revisions
  <2> QED
    BY <2>1, <2>2
<1> QED
  BY <1>0, <1>1, <1>2, <1>3, <1>4

\* The wanted change and git revision of a source.
LEMMA NewRevisionsIs ==
  ASSUME NEW r, NEW ok \in BOOLEAN, NEW v
  PROVE  LET new == NewRevisions(r, ok, v)
         IN  /\ new.git = IF r.current = Unknown THEN r.git ELSE r.current
             /\ r.current # Unknown /\ r.helm => new.change = r.git
             /\ new.change \in {r.git, v, r.current, r.change}
             /\ r.current = Unknown => new.change = r.change
             /\ ~r.helm =>
                  \/ new.change = r.change
                  \/ NeedsCalculation(r) /\ ok /\ v # Unknown /\ new.change = v
                  \/ /\ NeedsCalculation(r) /\ ok /\ v = Unknown
                     /\ r.change = Unknown /\ new.change = r.current
<1>1. CASE r.current # Unknown /\ r.helm
  BY <1>1 DEF NewRevisions, NeedsCalculation
<1>2. CASE NeedsCalculation(r) /\ ok /\ v # Unknown
  BY <1>2 DEF NewRevisions, NeedsCalculation
<1>3. CASE NeedsCalculation(r) /\ ok /\ v = Unknown /\ r.change = Unknown
  BY <1>3 DEF NewRevisions, NeedsCalculation
<1>4. CASE /\ ~(r.current # Unknown /\ r.helm)
           /\ ~(NeedsCalculation(r) /\ ok /\ v # Unknown)
           /\ ~(NeedsCalculation(r) /\ ok /\ v = Unknown /\ r.change = Unknown)
  BY <1>4 DEF NewRevisions
<1> QED
  BY <1>1, <1>2, <1>3, <1>4

\* Finitely many numbers have a bound.
LEMMA SeqBounded ==
  ASSUME NEW n \in Nat, NEW f \in [1 .. n -> Nat]
  PROVE  \E b \in Nat : \A i \in 1 .. n : f[i] <= b
<1> DEFINE Bad == {m \in Nat : m <= n /\ ~\E b \in Nat : \A i \in 1 .. m : f[i] <= b}
<1> SUFFICES ASSUME Bad # {}
             PROVE  FALSE
  <2>1. n \notin Bad
    OBVIOUS
  <2> QED
    BY <2>1
<1>1. Bad \in SUBSET Nat
  OBVIOUS
<1>2. PICK m \in Bad : \A k \in Bad : m <= k
  <2>1. Min(Bad) \in Bad /\ \A k \in Bad : Min(Bad) <= k
    BY <1>1, MinExists
  <2> QED
    BY <2>1
<1>3. m # 0
  <2>1. \A i \in 1 .. 0 : f[i] <= 0
    OBVIOUS
  <2> QED
    BY <1>2, <2>1
<1>m. m \in Nat /\ m <= n
  BY <1>2
<1>4. m - 1 \in Nat /\ m - 1 \notin Bad /\ m - 1 <= n
  <2>1. m - 1 \in Nat /\ m - 1 <= n /\ ~(m <= m - 1)
    BY <1>m, <1>3
  <2> HIDE DEF Bad
  <2> QED
    BY <1>2, <2>1
<1>5. PICK b \in Nat : \A i \in 1 .. (m - 1) : f[i] <= b
  BY <1>4
<1> HIDE DEF Bad
<1>6. f[m] \in Nat /\ m \in 1 .. n
  <2>1. m \in 1 .. n
    BY <1>m, <1>3
  <2> QED
    BY <2>1
<1>7. PICK c \in Nat : b <= c /\ f[m] <= c
  <2>1. CASE b <= f[m]
    BY <1>6, <2>1
  <2>2. CASE ~(b <= f[m])
    BY <1>6, <2>2
  <2> QED
    BY <2>1, <2>2
<1>8. \A i \in 1 .. m : f[i] <= c
  <2> SUFFICES ASSUME NEW i \in 1 .. m
               PROVE  f[i] <= c
    OBVIOUS
  <2>1. CASE i = m
    BY <1>7, <2>1
  <2>2. CASE i # m
    <3>1. i \in 1 .. (m - 1) /\ i \in 1 .. n
      BY <1>m, <2>2
    <3>2. f[i] \in Nat
      BY <3>1
    <3> QED
      BY <1>5, <1>7, <3>1, <3>2
  <2> QED
    BY <2>1, <2>2
<1> QED
  BY <1>2, <1>8 DEF Bad

-----------------------------------------------------------------------------
(* The handler's patch.                                                    *)

\* A patch with something in it is about to be sent; otherwise the handling
\* ends.
MadePatch(p) ==
  IF DOMAIN p = {} THEN Return ELSE pc' = "patch" /\ patch' = p /\ UNCHANGED snap

\* The handler works on its copy.
LEMMA PatchOfCopy ==
  /\ Foreign = ForeignOf(snap[1])
  /\ \A bad : Made(NewWithout(bad)) <=> MadePatch(PatchOf(snap[1], bad))
<1>1. Asked = AskedOf(snap[1])
  BY DEF Asked, AskedOf, Idx
<1>2. Foreign = ForeignOf(snap[1])
  BY <1>1 DEF Foreign, ForeignOf, Source
<1>3. ASSUME NEW bad
      PROVE  Made(NewWithout(bad)) <=> MadePatch(PatchOf(snap[1], bad))
  <2>1. NewWithout(bad) = NewOf(snap[1], bad)
    BY DEF NewWithout, NewOf, Idx, Ask, AskOf, Source
  <2> QED
    BY <2>1 DEF Made, MadePatch, PatchOf
<1> QED
  BY <1>2, <1>3

\* What Calculate and CalculatePartly do.
LEMMA CalculateMakes ==
  /\ Calculate => MadePatch(PatchOf(snap[1], ForeignOf(snap[1])))
  /\ CalculatePartly => \E bad : MadePatch(PatchOf(snap[1], bad))
<1>1. ASSUME Calculate
      PROVE  MadePatch(PatchOf(snap[1], ForeignOf(snap[1])))
  <2>1. Made(NewWithout(Foreign))
    BY <1>1 DEF Calculate
  <2> QED
    BY <2>1, PatchOfCopy
<1>2. ASSUME CalculatePartly
      PROVE  \E bad : MadePatch(PatchOf(snap[1], bad))
  <2>1. PICK bad : Made(NewWithout(Foreign \cup bad))
    BY <1>2 DEF CalculatePartly
  <2> QED
    BY <2>1, PatchOfCopy
<1> QED
  BY <1>1, <1>2

\* The wanted revisions are revisions.
LEMMA NewOfType ==
  ASSUME Types, NEW a \in OwnApps, NEW bad, NEW i \in DOMAIN a.sources
  PROVE  NewOf(a, bad)[i].change \in Revisions /\ NewOf(a, bad)[i].git \in Revisions
<1> DEFINE r == GetSourceRevisions(a, i)
           v == AskOf(a, i)
           ok == i \notin bad
<1>1. /\ r.change \in Revisions /\ r.git \in Revisions
      /\ r.current \in Revisions /\ r.previous \in Revisions
  BY GetSourceRevisionsType
<1>2. touches[a.sources[i]] \in SUBSET Commits
  <2>1. a.sources \in Lists
    BY DEF OwnApps, Apps
  <2>2. a.sources[i] \in SourceIds
    BY <2>1, ListsType
  <2> QED
    BY <2>2 DEF Types
<1>3. v \in Revisions
  BY <1>1, <1>2, GetChangeRevisionIs DEF AskOf
<1>4. NewOf(a, bad)[i] = NewRevisions(r, ok, v)
  BY DEF NewOf
<1> HIDE DEF r, v, ok
<1>5. ok \in BOOLEAN
  BY DEF ok
<1> QED
  BY <1>1, <1>3, <1>4, <1>5, NewRevisionsIs

\* So are the annotations of the patch.
LEMMA PatchOfType ==
  ASSUME Types, NEW a \in OwnApps, NEW bad
  PROVE  /\ DOMAIN PatchOf(a, bad) \subseteq AnnotationKeys
         /\ \A k \in DOMAIN PatchOf(a, bad) : PatchOf(a, bad)[k] \in AnnotationType(k)
<1> DEFINE new == NewOf(a, bad)
           want == WantedAnnotations(new)
<1>1. a.sources \in Lists
  BY DEF OwnApps, Apps
<1>2. 1 \in DOMAIN a.sources
  BY <1>1, ListsType
<1>3. DOMAIN new = DOMAIN a.sources
  BY DEF NewOf
<1>4. \A i \in DOMAIN a.sources : new[i].change \in Revisions /\ new[i].git \in Revisions
  BY NewOfType
<1> HIDE DEF new
<1>5. [i \in DOMAIN new |-> new[i].change] \in RevSeqs
  BY <1>1, <1>3, <1>4, RevSeqsIntro
<1>6. [i \in DOMAIN new |-> new[i].git] \in RevSeqs
  BY <1>1, <1>3, <1>4, RevSeqsIntro
<1>7. /\ want.chg \in Revisions /\ want.git \in Revisions
      /\ want.chgs \in RevSeqs /\ want.gits \in RevSeqs
  BY <1>2, <1>4, <1>5, <1>6 DEF WantedAnnotations
<1>8. \A k \in AnnotationKeys : want[k] \in AnnotationType(k)
  BY <1>7 DEF AnnotationKeys, AnnotationType
<1>9. /\ DOMAIN PatchOf(a, bad) \subseteq AnnotationKeys
      /\ \A k \in DOMAIN PatchOf(a, bad) : PatchOf(a, bad)[k] = want[k]
  BY DEF PatchOf, MakeAnnotationPatch, new
<1> HIDE DEF want
<1> QED
  BY <1>8, <1>9

\* A merge patch changes annotations only.
LEMMA MergePatchIs ==
  ASSUME NEW a \in Apps, NEW p, DOMAIN p \subseteq AnnotationKeys,
         \A k \in DOMAIN p : p[k] \in AnnotationType(k)
  PROVE  LET m == MergePatch(a, p)
         IN  /\ m \in Apps
             /\ m.multi = a.multi /\ m.sources = a.sources /\ m.history = a.history
             /\ m.synced = a.synced /\ m.syncRevs = a.syncRevs
             /\ m.operation = a.operation /\ m.result = a.result
             /\ m.chg = IF "chg" \in DOMAIN p THEN p["chg"] ELSE a.chg
             /\ m.chgs = IF "chgs" \in DOMAIN p THEN p["chgs"] ELSE a.chgs
             /\ m.git = IF "git" \in DOMAIN p THEN p["git"] ELSE a.git
             /\ m.gits = IF "gits" \in DOMAIN p THEN p["gits"] ELSE a.gits
<1> DEFINE m == MergePatch(a, p)
<1>1. DOMAIN a = {"multi", "sources", "history", "synced", "syncRevs", "operation",
                  "result", "chg", "chgs", "git", "gits"}
  BY DEF Apps
<1>2. m = [f \in DOMAIN a |-> IF f \in DOMAIN p THEN p[f] ELSE a[f]]
  BY DEF MergePatch
<1>3. /\ m.multi = a.multi /\ m.sources = a.sources /\ m.history = a.history
      /\ m.synced = a.synced /\ m.syncRevs = a.syncRevs
      /\ m.operation = a.operation /\ m.result = a.result
  BY <1>1, <1>2 DEF AnnotationKeys
<1>4. /\ m.chg = IF "chg" \in DOMAIN p THEN p["chg"] ELSE a.chg
      /\ m.chgs = IF "chgs" \in DOMAIN p THEN p["chgs"] ELSE a.chgs
      /\ m.git = IF "git" \in DOMAIN p THEN p["git"] ELSE a.git
      /\ m.gits = IF "gits" \in DOMAIN p THEN p["gits"] ELSE a.gits
  BY <1>1, <1>2
<1>5. /\ m.chg \in Revisions \cup {Absent} /\ m.git \in Revisions \cup {Absent}
      /\ m.chgs \in RevSeqs /\ m.gits \in RevSeqs
  BY <1>4 DEF AnnotationType, Apps
<1>6. m = [multi |-> m.multi, sources |-> m.sources, history |-> m.history,
           synced |-> m.synced, syncRevs |-> m.syncRevs, operation |-> m.operation,
           result |-> m.result, chg |-> m.chg, chgs |-> m.chgs, git |-> m.git,
           gits |-> m.gits]
  BY <1>1, <1>2
<1> HIDE DEF m
<1>7. m \in Apps
  BY <1>3, <1>5, <1>6 DEF Apps
<1> QED
  BY <1>3, <1>4, <1>7 DEF m

-----------------------------------------------------------------------------
(* Type correctness.                                                       *)

\* What is stored is an object, in the store and in the watch.
LEMMA StoreTypes ==
  ASSUME Types, NEW a \in OwnApps, Store(a)
  PROVE  app' \in OwnApps /\ watch' \in Seq(OwnApps)
BY DEF Types, Store

\* What is resolved belongs to the sources, and the tips follow it.
LEMMA ResolveTypes ==
  ASSUME Types, NEW revs \in Resolvable, Resolve(revs)
  PROVE  /\ revs \in RevsOf(app.sources)
         /\ tip' \in [SourceIds -> Commits]
         /\ \A s \in SourceIds : tip'[s] \in CommitsOf[s] /\ tip'[s] >= tip[s]
         /\ back' \in BOOLEAN
         /\ ~back' => ~back /\ \A i \in DOMAIN app.sources : revs[i] >= tip[app.sources[i]]
         /\ \A i \in DOMAIN app.sources : tip'[app.sources[i]] >= revs[i]
<1>1. app.sources \in Lists
  BY DEF Types, OwnApps, Apps
<1>2. revs \in RevsOf(app.sources)
  BY DEF Resolvable, RevsOf
<1>3. /\ DOMAIN app.sources = 1 .. Len(app.sources) /\ Len(app.sources) \in Nat
      /\ \A i \in DOMAIN app.sources : app.sources[i] \in SourceIds
  BY <1>1, ListsType
<1>4. /\ DOMAIN revs = DOMAIN app.sources
      /\ \A i \in DOMAIN app.sources : revs[i] \in CommitsOf[app.sources[i]]
      /\ \A i \in DOMAIN app.sources : revs[i] \in Nat
  BY <1>2, CommitsAreNats DEF RevsOf
<1>5. PICK b \in Nat : \A i \in DOMAIN app.sources : revs[i] <= b
  <2>1. revs \in [1 .. Len(app.sources) -> Nat]
    BY <1>2, <1>3, <1>4 DEF RevsOf
  <2> QED
    BY <1>3, <2>1, SeqBounded
<1>6. ASSUME NEW s \in SourceIds
      PROVE  /\ tip'[s] \in CommitsOf[s] /\ tip'[s] >= tip[s]
             /\ \A i \in DOMAIN app.sources : app.sources[i] = s => tip'[s] >= revs[i]
  <2> DEFINE S == {tip[s]} \cup {revs[i] : i \in {j \in DOMAIN revs : app.sources[j] = s}}
  <2>1. tip'[s] = Max(S)
    BY DEF Resolve
  <2>2. tip[s] \in CommitsOf[s] /\ tip[s] \in Nat /\ tip[s] \in S
    BY CommitsAreNats DEF Types
  <2>3. S \subseteq CommitsOf[s]
    BY <1>4, <2>2
  <2>4. S \in SUBSET Nat
    BY <1>4, <2>2
  <2>5. PICK n \in Nat : b <= n /\ tip[s] <= n
    <3>1. CASE b <= tip[s]
      BY <2>2, <3>1
    <3>2. CASE ~(b <= tip[s])
      BY <2>2, <3>2
    <3> QED
      BY <3>1, <3>2
  <2>6. \A y \in S : y <= n
    BY <1>4, <1>5, <2>2, <2>5
  <2>7. \A i \in DOMAIN app.sources : app.sources[i] = s => revs[i] \in S
    BY <1>4
  <2> HIDE DEF S
  <2>8. Max(S) \in S /\ \A y \in S : Max(S) >= y
    BY <2>2, <2>4, <2>6, MaxExists
  <2> QED
    BY <2>1, <2>2, <2>3, <2>7, <2>8
<1>7. tip' \in [SourceIds -> Commits]
  <2>1. tip' = [s \in SourceIds |-> tip'[s]]
    BY DEF Resolve
  <2> QED
    BY <1>6, <2>1, CommitsAreNats
<1>8. \A i \in DOMAIN app.sources : tip'[app.sources[i]] >= revs[i]
  BY <1>3, <1>6
<1>9. ASSUME ~back'
      PROVE  ~back /\ \A i \in DOMAIN app.sources : revs[i] >= tip[app.sources[i]]
  <2>1. /\ ~back /\ \A i \in DOMAIN revs : ~(revs[i] < tip[app.sources[i]])
    BY <1>9 DEF Resolve
  <2>2. \A i \in DOMAIN app.sources : tip[app.sources[i]] \in Nat
    BY <1>3, CommitsAreNats DEF Types
  <2> QED
    BY <1>4, <2>1, <2>2
<1>10. back' \in BOOLEAN
  BY DEF Resolve
<1> QED
  BY <1>2, <1>6, <1>7, <1>8, <1>9, <1>10

\* The revision a source was last deployed at is one of the source itself.
LEMMA DeployedRevisionType ==
  ASSUME Types, NEW s
  PROVE  DeployedRevision(s) \in Revisions
<1> DEFINE h == app.history
           e == h[Len(h)]
           at == {i \in DOMAIN e.sources : e.sources[i] = s}
<1>1. CASE h = <<>> \/ at = {}
  BY <1>1 DEF DeployedRevision, RevisionIn, LastEntry, Revisions
<1>2. CASE h # <<>> /\ at # {}
  <2>1. h \in Seq(Entries)
    BY DEF Types, OwnApps, Apps
  <2>2. Len(h) \in DOMAIN h
    BY <1>2, <2>1
  <2>3. e \in Entries /\ e.revs \in RevsOf(e.sources)
    <3>1. e \in Entries
      BY <2>1, <2>2
    <3>2. e.revs \in RevsOf(e.sources)
      BY <2>2 DEF Types, OwnApps, Own
    <3> QED
      BY <3>1, <3>2
  <2> HIDE DEF e
  <2>4. e.sources \in Lists
    BY <2>3 DEF Entries
  <2>5. DOMAIN e.sources \subseteq Nat
    BY <2>4, ListsType
  <2>6. Min(at) \in at
    BY <1>2, <2>5, MinExists
  <2>7. e.revs[Min(at)] \in Commits
    BY <2>3, <2>6 DEF RevsOf
  <2>8. DeployedRevision(s) = e.revs[Min(at)]
    BY <1>2 DEF DeployedRevision, RevisionIn, LastEntry, e
  <2> QED
    BY <2>7, <2>8 DEF Revisions
<1> QED
  BY <1>1, <1>2

\* A step of Argo CD keeps the types if the object it stores has them.
LEMMA ArgoTypes ==
  ASSUME Types, NEW a \in OwnApps, Store(a), UNCHANGED <<touches, controller>>,
         tip' \in [SourceIds -> Commits], \A s \in SourceIds : tip'[s] \in CommitsOf[s],
         edited' \in BOOLEAN, overtaken' \in BOOLEAN, changes' \in 0 .. MaxChanges,
         back' \in BOOLEAN, moved' \in BOOLEAN,
         stage' \in {"none", "requested", "running", "recorded"},
         (stage' = "none") <=> (a.operation = <<>>),
         target' \in IF stage' = "none" THEN {<<>>} ELSE RevsOf(a.sources)
  PROVE  Types'
<1>1. app' \in OwnApps /\ watch' \in Seq(OwnApps)
  BY StoreTypes
<1>2. app' = a
  BY DEF Store
<1>3. SyncTypes'
  BY <1>2 DEF SyncTypes
<1> QED
  BY <1>1, <1>3 DEF Types, controller

\* Starting something counts.
LEMMA MayStartTypes ==
  ASSUME Types, MayStart
  PROVE  overtaken' \in BOOLEAN /\ changes' \in 0 .. MaxChanges
<1>1. overtaken' \in BOOLEAN
  BY DEF MayStart, Overtake
<1>2. changes' \in 0 .. MaxChanges
  BY BoundsAssumption DEF MayStart, Types
<1> QED
  BY <1>1, <1>2

\* A sync's history entry is a proper one.
LEMMA RecordedTypes ==
  ASSUME Types, NEW a \in Apps, NEW r \in RevsOf(app.sources),
         a.history = Append(app.history, [sources |-> app.sources, revs |-> r]),
         a.operation = app.operation, a.sources = app.sources
  PROVE  a \in OwnApps
<1> DEFINE e == [sources |-> app.sources, revs |-> r]
<1>1. /\ app \in Apps /\ Own(app) /\ app.sources \in Lists /\ app.history \in Seq(Entries)
  BY DEF Types, OwnApps, Apps
<1>2. e \in Entries
  BY <1>1, RevsOfType DEF Entries
<1>3. \A k \in DOMAIN a.history : a.history[k].revs \in RevsOf(a.history[k].sources)
  <2> SUFFICES ASSUME NEW k \in DOMAIN a.history
               PROVE  a.history[k].revs \in RevsOf(a.history[k].sources)
    OBVIOUS
  <2>1. CASE k \in DOMAIN app.history
    <3>1. a.history[k] = app.history[k]
      BY <1>1, <1>2, <2>1
    <3> QED
      BY <1>1, <2>1, <3>1 DEF Own
  <2>2. CASE k \notin DOMAIN app.history
    <3>1. a.history[k] = e
      BY <1>1, <1>2, <2>2
    <3> QED
      BY <3>1
  <2> QED
    BY <2>1, <2>2
<1> QED
  BY <1>1, <1>3 DEF OwnApps, Own

\* Every step of Argo CD keeps the types.
LEMMA ArgoCDTypes ==
  ASSUME Types, ArgoCD
  PROVE  Types'
<1>t. /\ app \in Apps /\ Own(app) /\ app.sources \in Lists /\ app.history \in Seq(Entries)
      /\ tip \in [SourceIds -> Commits] /\ \A s \in SourceIds : tip[s] \in CommitsOf[s]
      /\ edited \in BOOLEAN /\ overtaken \in BOOLEAN /\ changes \in 0 .. MaxChanges
      /\ back \in BOOLEAN /\ moved \in BOOLEAN
  BY DEF Types, OwnApps, Apps
<1>s. /\ stage \in {"none", "requested", "running", "recorded"}
      /\ (stage = "none") <=> (app.operation = <<>>)
      /\ target \in IF stage = "none" THEN {<<>>} ELSE RevsOf(app.sources)
  BY DEF Types, SyncTypes
<1>r. /\ target \in RevSeqs /\ <<>> \in RevSeqs
      /\ stage # "none" => target \in RevsOf(app.sources)
  BY <1>t, <1>s, RevsOfType, RevSeqsIntro
<1>1. CASE Adopt
  <2>1. PICK revs \in Resolvable :
          /\ Resolve(revs)
          /\ Store([app EXCEPT !.synced = TRUE, !.syncRevs = revs])
    BY <1>1 DEF Adopt
  <2>2. revs \in RevSeqs
    BY <1>t, <2>1, ResolveTypes, RevsOfType
  <2> DEFINE a == [app EXCEPT !.synced = TRUE, !.syncRevs = revs]
  <2>3. a \in OwnApps /\ a.operation = app.operation /\ a.sources = app.sources
    BY <1>t, <2>2 DEF OwnApps, Apps, Own
  <2>4. /\ MayStart /\ edited' = FALSE
        /\ UNCHANGED <<touches, stage, target, moved, controller>>
    BY <1>1 DEF Adopt
  <2>5. Store(a)
    BY <2>1
  <2> HIDE DEF a
  <2> QED
    BY <1>t, <1>s, <2>1, <2>3, <2>4, <2>5, ArgoTypes, ResolveTypes, MayStartTypes
<1>2. CASE StartSync
  <2>1. PICK revs \in Resolvable, s \in {FALSE, app.synced} :
          /\ Resolve(revs) /\ target' = revs
          /\ \E op \in {revs, [i \in DOMAIN revs |-> Unknown]} :
               Store([app EXCEPT !.operation = op, !.synced = s])
    BY <1>2 DEF StartSync
  <2>2. PICK op \in {revs, [i \in DOMAIN revs |-> Unknown]} :
          Store([app EXCEPT !.operation = op, !.synced = s])
    BY <2>1
  <2>3. revs \in RevSeqs /\ revs \in RevsOf(app.sources)
    BY <1>t, <2>1, ResolveTypes, RevsOfType
  <2>4. op \in RevsOf(app.sources) \cup {NoRevs(app.sources)}
    BY <2>2, <2>3 DEF NoRevs, RevsOf
  <2>5. op \in RevSeqs /\ op # <<>>
    BY <1>t, <2>4, RevsOfType, NoRevsType
  <2> DEFINE a == [app EXCEPT !.operation = op, !.synced = s]
  <2>6. a \in OwnApps /\ a.operation = op /\ a.sources = app.sources
    BY <1>t, <2>4, <2>5 DEF OwnApps, Apps, Own
  <2>7. /\ MayStart /\ edited' = edited /\ stage' = "requested"
        /\ UNCHANGED <<touches, moved, controller>>
    BY <1>2 DEF StartSync
  <2>8. Store(a)
    BY <2>2
  <2> HIDE DEF a
  <2> QED
    BY <1>t, <2>1, <2>3, <2>5, <2>6, <2>7, <2>8, ArgoTypes, ResolveTypes, MayStartTypes
<1>3. CASE ShowResult
  <2> DEFINE a == [app EXCEPT !.result = target]
  <2>1. /\ Store(a) /\ stage = "requested" /\ stage' = "running"
        /\ UNCHANGED <<touches, target, tip, edited, overtaken, back, moved, changes,
                       controller>>
    BY <1>3 DEF ShowResult
  <2>2. a \in OwnApps /\ a.operation = app.operation /\ a.sources = app.sources
    BY <1>t, <1>r DEF OwnApps, Apps, Own
  <2> HIDE DEF a
  <2> QED
    BY <1>t, <1>s, <1>r, <2>1, <2>2, ArgoTypes
<1>4. CASE RecordSync
  <2> DEFINE e == [sources |-> app.sources, revs |-> target]
             a == [app EXCEPT !.history = Append(@, e)]
  <2>1. /\ Store(a) /\ stage # "none" /\ stage' = "recorded" /\ moved' = FALSE
        /\ UNCHANGED <<touches, target, tip, edited, overtaken, back, changes, controller>>
    BY <1>4 DEF RecordSync
  <2>2. /\ a.history = Append(app.history, e) /\ a.operation = app.operation
        /\ a.sources = app.sources
    BY <1>t DEF Apps
  <2>3. e \in Entries
    BY <1>t, <1>r DEF Entries
  <2>4. a \in Apps
    <3> HIDE DEF e
    <3>1. Append(app.history, e) \in Seq(Entries)
      BY <1>t, <2>3
    <3> QED
      BY <1>t, <3>1 DEF Apps
  <2> HIDE DEF a
  <2>5. a \in OwnApps
    BY <1>r, <2>1, <2>2, <2>4, RecordedTypes
  <2> QED
    BY <1>t, <1>s, <1>r, <2>1, <2>2, <2>5, ArgoTypes
<1>5. CASE FinishSync \/ FailSync
  <2>1. PICK s \in BOOLEAN :
          Store([app EXCEPT !.result = target, !.operation = <<>>, !.synced = s])
    <3>1. CASE FinishSync
      <4>1. Store([app EXCEPT !.result = target, !.operation = <<>>])
        BY <3>1 DEF FinishSync
      <4>2. [app EXCEPT !.result = target, !.operation = <<>>]
              = [app EXCEPT !.result = target, !.operation = <<>>, !.synced = app.synced]
        BY <1>t DEF Apps
      <4> QED
        BY <1>t, <4>1, <4>2 DEF Apps
    <3>2. CASE FailSync
      BY <3>2 DEF FailSync
    <3> QED
      BY <1>5, <3>1, <3>2
  <2> DEFINE a == [app EXCEPT !.result = target, !.operation = <<>>, !.synced = s]
  <2>2. /\ stage' = "none" /\ target' = <<>>
        /\ UNCHANGED <<touches, tip, edited, overtaken, back, moved, changes, controller>>
    BY <1>5 DEF FinishSync, FailSync, NoSync
  <2>3. a \in OwnApps /\ a.operation = <<>>
    BY <1>t, <1>r DEF OwnApps, Apps, Own
  <2>4. Store(a)
    BY <2>1
  <2> HIDE DEF a
  <2> QED
    BY <1>t, <2>2, <2>3, <2>4, ArgoTypes
<1>6. CASE Refresh
  <2> DEFINE revs == IF stage = "none" THEN app.result ELSE target
             a == [app EXCEPT !.synced = TRUE, !.syncRevs = revs]
  <2>1. /\ Store(a) /\ edited' = FALSE /\ back' \in BOOLEAN
        /\ UNCHANGED <<touches, stage, target, tip, overtaken, moved, changes, controller>>
    BY <1>6 DEF Refresh
  <2>2. revs \in RevSeqs
    BY <1>t, <1>r DEF Apps
  <2> HIDE DEF revs
  <2>3. a \in OwnApps /\ a.operation = app.operation /\ a.sources = app.sources
    BY <1>t, <2>2 DEF OwnApps, Apps, Own
  <2> HIDE DEF a
  <2> QED
    BY <1>t, <1>s, <2>1, <2>3, ArgoTypes
<1>7. CASE EditSources
  <2>1. PICK l \in Edits \ {app.sources} : Store([app EXCEPT !.sources = l])
    BY <1>7 DEF EditSources
  <2>2. stage = "none" /\ l \in Lists
    BY <1>7 DEF EditSources, MayStart, Lists
  <2> DEFINE a == [app EXCEPT !.sources = l]
  <2>3. a \in OwnApps /\ a.operation = app.operation
    BY <1>t, <1>s, <2>2 DEF OwnApps, Apps, Own
  <2>4. /\ MayStart /\ edited' = TRUE /\ moved' = TRUE
        /\ UNCHANGED <<touches, stage, target, tip, back, controller>>
    BY <1>7 DEF EditSources
  <2>5. Store(a)
    BY <2>1
  <2> HIDE DEF a
  <2> QED
    BY <1>t, <1>s, <2>2, <2>3, <2>4, <2>5, ArgoTypes, MayStartTypes
<1>8. CASE Recompare
  <2> DEFINE revs == [i \in DOMAIN app.sources |-> DeployedRevision(app.sources[i])]
             a == [app EXCEPT !.syncRevs = revs]
             b == [app EXCEPT !.synced = FALSE]
  <2>1. revs \in RevSeqs
    <3>1. revs \in [DOMAIN app.sources -> Revisions]
      BY DeployedRevisionType
    <3> HIDE DEF revs
    <3> QED
      BY <1>t, <3>1, RevSeqsIntro
  <2>2. Store(a) \/ Store(b)
    BY <1>8 DEF Recompare
  <2>3. /\ edited' = FALSE
        /\ UNCHANGED <<touches, stage, target, tip, overtaken, back, moved, changes,
                       controller>>
    BY <1>8 DEF Recompare
  <2> HIDE DEF revs
  <2>4. /\ a \in OwnApps /\ a.operation = app.operation /\ a.sources = app.sources
        /\ b \in OwnApps /\ b.operation = app.operation /\ b.sources = app.sources
    BY <1>t, <2>1 DEF OwnApps, Apps, Own
  <2> HIDE DEF a, b
  <2> QED
    BY <1>t, <1>s, <2>2, <2>3, <2>4, ArgoTypes
<1> QED
  BY <1>1, <1>2, <1>3, <1>4, <1>5, <1>6, <1>7, <1>8 DEF ArgoCD

\* A patch that was made keeps the types.
LEMMA MadeTypes ==
  ASSUME Types, pc = "calc", NEW p, MadePatch(p), DOMAIN p \subseteq AnnotationKeys,
         \A k \in DOMAIN p : p[k] \in AnnotationType(k)
  PROVE  /\ pc' \in {"idle", "calc", "patch"}
         /\ snap' \in Seq(OwnApps) /\ Len(snap') = IF pc' = "idle" THEN 0 ELSE 1
         /\ DOMAIN patch' \subseteq AnnotationKeys
         /\ \A k \in DOMAIN patch' : patch'[k] \in AnnotationType(k)
         /\ (DOMAIN patch' # {}) <=> (pc' = "patch")
<1>1. CASE DOMAIN p = {}
  BY <1>1 DEF MadePatch, Return, NoPatch
<1>2. CASE DOMAIN p # {}
  BY <1>2 DEF MadePatch, Types
<1> QED
  BY <1>1, <1>2

\* Every step of the controller, and its crash, keeps the types.
LEMMA ControllerTypes ==
  ASSUME Types, Controller \/ Crash
  PROVE  Types'
<1>1. CASE Deliver
  BY <1>1 DEF Deliver, Types, SyncTypes, argocd
<1>2. CASE Claim
  <2>0. slot \in Seq(OwnApps) /\ Len(slot) <= 1 /\ slot # <<>>
    BY <1>2 DEF Claim, Types
  <2>1. Len(slot) = 1
    BY <2>0, OneElement
  <2>2. /\ pc = "idle" /\ pc' = "calc" /\ snap' = slot /\ slot' = <<>>
        /\ UNCHANGED <<argocd, app, watch, patch, crashes, faults>>
    BY <1>2 DEF Claim
  <2>3. misread' \in BOOLEAN
    BY <1>2 DEF Claim
  <2> QED
    BY <2>1, <2>2, <2>3 DEF Types, SyncTypes, argocd
<1>r. ASSUME Return, UNCHANGED <<argocd, slot, misread>>, app' \in OwnApps,
             app'.operation = app.operation, app'.sources = app.sources,
             watch' \in Seq(OwnApps), faults' \in Nat, crashes' \in Nat,
             faults' + crashes' <= MaxFaults
      PROVE  Types'
  BY <1>r DEF Types, SyncTypes, Return, NoPatch, argocd
<1>m. ASSUME pc = "calc", NEW bad, MadePatch(PatchOf(snap[1], bad)),
             UNCHANGED <<argocd, app, watch, slot, misread, crashes>>,
             faults' \in Nat, faults' + crashes <= MaxFaults
      PROVE  Types'
  <2> DEFINE p == PatchOf(snap[1], bad)
  <2>1. snap[1] \in OwnApps
    <3>1. snap \in Seq(OwnApps) /\ Len(snap) = 1
      BY <1>m DEF Types
    <3> QED
      BY <3>1, OneElement
  <2>2. /\ DOMAIN p \subseteq AnnotationKeys
        /\ \A k \in DOMAIN p : p[k] \in AnnotationType(k)
    BY <2>1, PatchOfType
  <2> HIDE DEF p
  <2>3. MadePatch(p)
    BY <1>m DEF p
  <2> QED
    BY <1>m, <2>2, <2>3, MadeTypes DEF Types, SyncTypes, argocd
<1>3. CASE Calculate
  <2>1. MadePatch(PatchOf(snap[1], ForeignOf(snap[1])))
    BY <1>3, CalculateMakes
  <2> QED
    BY <1>3, <1>m, <2>1 DEF Calculate, Types
<1>4. CASE CalculatePartly
  <2>1. PICK bad : MadePatch(PatchOf(snap[1], bad))
    BY <1>4, CalculateMakes
  <2>2. faults' \in Nat /\ faults' + crashes <= MaxFaults
    BY <1>4, BoundsAssumption DEF CalculatePartly, Fault, Types
  <2> QED
    BY <1>4, <1>m, <2>1, <2>2 DEF CalculatePartly
<1>5. CASE CalculateFails
  <2>1. faults' \in Nat /\ faults' + crashes' <= MaxFaults
    BY <1>5, BoundsAssumption DEF CalculateFails, Fault, Types
  <2> QED
    BY <1>5, <1>r, <2>1 DEF CalculateFails, Types
<1>6. CASE Patch
  <2>1. /\ app \in Apps /\ Own(app) /\ DOMAIN patch \subseteq AnnotationKeys
        /\ \A k \in DOMAIN patch : patch[k] \in AnnotationType(k)
    BY DEF Types, OwnApps
  <2>2. MergePatch(app, patch) \in OwnApps
    BY <2>1, MergePatchIs DEF OwnApps, Own
  <2>3. /\ app' \in OwnApps /\ watch' \in Seq(OwnApps)
        /\ app'.operation = app.operation /\ app'.sources = app.sources
    BY <1>6, <2>1, <2>2, StoreTypes, MergePatchIs DEF Patch, Store
  <2> QED
    BY <1>6, <1>r, <2>3 DEF Patch, Types
<1>7. CASE PatchFails
  <2>1. faults' \in Nat /\ faults' + crashes' <= MaxFaults
    BY <1>7, BoundsAssumption DEF PatchFails, Fault, Types
  <2> QED
    BY <1>7, <1>r, <2>1 DEF PatchFails, Types
<1>8. CASE Crash
  <2>1. crashes' \in Nat /\ faults' \in Nat /\ faults' + crashes' <= MaxFaults
    BY <1>8, BoundsAssumption DEF Crash, Types
  <2>2. Return /\ slot' = <<>> /\ watch' = <<app>> /\ UNCHANGED <<argocd, app, misread>>
    BY <1>8 DEF Crash
  <2> QED
    BY <2>1, <2>2 DEF Types, SyncTypes, Return, NoPatch, argocd
<1> QED
  BY <1>1, <1>2, <1>3, <1>4, <1>5, <1>6, <1>7, <1>8 DEF Controller, Handling

\* Every step keeps the types.
LEMMA TypesStep ==
  ASSUME Types, [Next]_vars
  PROVE  Types'
<1>1. CASE UNCHANGED vars
  BY <1>1 DEF Types, SyncTypes, vars
<1> QED
  BY <1>1, ArgoCDTypes, ControllerTypes DEF Next

\* The first sync's revisions.
LEMMA FirstRevisions ==
  [i \in DOMAIN Sources |-> Min(CommitsOf[Sources[i]])] \in RevsOf(Sources)
<1>1. \A i \in DOMAIN Sources : Sources[i] \in SourceIds
  BY ListsType DEF Lists
<1>2. \A s \in SourceIds : Min(CommitsOf[s]) \in CommitsOf[s]
  <2>1. \A s \in SourceIds : CommitsOf[s] \in SUBSET Nat /\ CommitsOf[s] # {}
    BY CommitsAreNats
  <2> QED
    BY <2>1, MinExists
<1> QED
  BY <1>1, <1>2, CommitsAreNats DEF RevsOf

\* The application is a proper object from the start.
LEMMA InitApps == NewApp \in OwnApps /\ SettledApp \in OwnApps
<1> DEFINE first == [i \in DOMAIN Sources |-> Min(CommitsOf[Sources[i]])]
           e == [sources |-> Sources, revs |-> first]
<1>1. /\ first \in RevsOf(Sources) /\ Sources \in Lists /\ <<>> \in RevSeqs
      /\ Absent \in Revisions \cup {Absent}
  BY FirstRevisions, RevSeqsIntro DEF Lists
<1>2. NewApp \in OwnApps
  BY <1>1 DEF NewApp, OwnApps, Apps, Own
<1>3. SettledApp = [NewApp EXCEPT
         !.history = <<e>>, !.synced = TRUE, !.syncRevs = first, !.result = first,
         !.chg = first[1], !.chgs = first, !.git = first[1], !.gits = first]
  BY DEF SettledApp
<1>4. first \in RevSeqs /\ first[1] \in Revisions
  BY <1>1, RevsOfType, ListsType DEF RevsOf, Revisions
<1> HIDE DEF first
<1>5. e \in Entries
  BY <1>1, <1>4 DEF Entries
<1>6. SettledApp \in Apps
  <2>1. <<e>> \in Seq(Entries)
    BY <1>5
  <2> HIDE DEF e
  <2> QED
    BY <1>1, <1>3, <1>4, <2>1 DEF Apps, NewApp
<1>7. SettledApp.operation = <<>> /\ SettledApp.history = <<e>>
  BY <1>3 DEF NewApp
<1>8. Own(SettledApp)
  <2>1. DOMAIN SettledApp.history = {1} /\ SettledApp.history[1] = e
    BY <1>7
  <2> QED
    BY <1>1, <1>7, <2>1 DEF Own
<1> QED
  BY <1>2, <1>6, <1>8 DEF OwnApps

\* The initial states have the types.
LEMMA InitTypes ==
  ASSUME Init
  PROVE  Types
<1>1. app \in OwnApps
  BY InitApps DEF Init
<1>2. \A s \in SourceIds : Min(CommitsOf[s]) \in CommitsOf[s] /\ Min(CommitsOf[s]) \in Commits
  <2>1. \A s \in SourceIds : CommitsOf[s] \in SUBSET Nat /\ CommitsOf[s] # {}
    BY CommitsAreNats
  <2> QED
    BY <2>1, MinExists, CommitsAreNats
<1>3. /\ tip \in [SourceIds -> Commits] /\ \A s \in SourceIds : tip[s] \in CommitsOf[s]
      /\ touches \in [SourceIds -> SUBSET Commits]
  BY <1>2 DEF Init
<1>4. watch \in Seq(OwnApps) /\ slot \in Seq(OwnApps) /\ snap \in Seq(OwnApps)
  BY <1>1 DEF Init
<1>5. DOMAIN patch = {}
  BY DEF Init, NoPatch
<1>6. /\ changes = 0 /\ faults = 0 /\ crashes = 0 /\ pc = "idle"
      /\ edited = FALSE /\ overtaken = FALSE /\ Len(slot) = 0 /\ Len(snap) = 0
  BY DEF Init
<1>7. changes \in 0 .. MaxChanges /\ faults + crashes <= MaxFaults
  BY <1>6, BoundsAssumption
<1>8. /\ DOMAIN patch \subseteq AnnotationKeys
      /\ \A k \in DOMAIN patch : patch[k] \in AnnotationType(k)
      /\ (DOMAIN patch # {}) <=> (pc = "patch")
  BY <1>5, <1>6
<1>11. /\ stage = "none" /\ target = <<>> /\ app.operation = <<>>
       /\ back = FALSE /\ moved = FALSE /\ misread = FALSE
  BY DEF Init, NewApp, SettledApp
<1>12. SyncTypes
  BY <1>11 DEF SyncTypes
<1>9. edited \in BOOLEAN /\ overtaken \in BOOLEAN /\ pc \in {"idle", "calc", "patch"}
  BY <1>6
<1>10. /\ Len(slot) <= 1 /\ Len(snap) = IF pc = "idle" THEN 0 ELSE 1
       /\ faults \in Nat /\ crashes \in Nat
  BY <1>6
<1> QED
  BY <1>1, <1>3, <1>4, <1>7, <1>8, <1>9, <1>10, <1>11, <1>12 DEF Types

-----------------------------------------------------------------------------
(* Nothing is left undone.                                                 *)

\* What the handler makes of an object does not change.
LEMMA SamePatch ==
  ASSUME touches' = touches
  PROVE  \A a : /\ ForeignOf(a)' = ForeignOf(a)
                /\ \A bad : PatchOf(a, bad)' = PatchOf(a, bad)
<1> SUFFICES ASSUME NEW a, NEW bad
             PROVE  ForeignOf(a)' = ForeignOf(a) /\ PatchOf(a, bad)' = PatchOf(a, bad)
  OBVIOUS
<1>1. ForeignOf(a)' = ForeignOf(a)
  BY DEF ForeignOf, AskedOf
<1>2. PatchOf(a, bad)' = PatchOf(a, bad)
  BY DEF PatchOf, NewOf, AskOf
<1> QED
  BY <1>1, <1>2

\* A patch that is not empty changes the object it was made for.
LEMMA PatchChanges ==
  ASSUME NEW a \in Apps, NEW bad, DOMAIN PatchOf(a, bad) # {}
  PROVE  MergePatch(a, PatchOf(a, bad)) # a
<1> DEFINE p == PatchOf(a, bad)
           want == WantedAnnotations(NewOf(a, bad))
<1>1. p = [k \in {key \in AnnotationKeys : a[key] # want[key]} |-> want[k]]
  BY DEF PatchOf, MakeAnnotationPatch
<1> HIDE DEF p, want
<1>2. PICK k \in DOMAIN p : TRUE
  BY DEF p
<1>3. k \in AnnotationKeys /\ a[k] # want[k] /\ p[k] = want[k]
  BY <1>1, <1>2
<1>4. k \in DOMAIN a
  BY <1>3 DEF Apps, AnnotationKeys
<1>5. MergePatch(a, p)[k] = p[k]
  BY <1>2, <1>4 DEF MergePatch
<1> QED
  BY <1>3, <1>5 DEF p

\* No step changes what the commits touch.
LEMMA TouchesUnchanged ==
  ASSUME [Next]_vars
  PROVE  touches' = touches
<1>1. ASSUME ArgoCD
      PROVE  touches' = touches
  BY <1>1 DEF ArgoCD, Adopt, StartSync, ShowResult, RecordSync, FinishSync, FailSync, Refresh,
              EditSources, Recompare
<1>2. ASSUME Controller \/ Crash
      PROVE  touches' = touches
  BY <1>2 DEF Controller, Crash, Deliver, Claim, Handling, Calculate, CalculatePartly,
              CalculateFails, Patch, PatchFails, argocd
<1> QED
  BY <1>1, <1>2 DEF Next, vars

\* Argo CD stores an object, and leaves the controller alone.
LEMMA ArgoCDStores ==
  ASSUME ArgoCD
  PROVE  (\E a : Store(a)) /\ UNCHANGED controller
BY DEF ArgoCD, Adopt, StartSync, ShowResult, RecordSync, FinishSync, FailSync, Refresh,
              EditSources, Recompare

\* A stored object is in the watch, or nothing has changed.
LEMMA StoredIsNewest ==
  ASSUME NEW a, Store(a), watch \in Seq(OwnApps), a \in OwnApps
  PROVE  \/ app' = app /\ watch' = watch /\ a = app
         \/ watch' # <<>> /\ watch'[Len(watch')] = app' /\ a # app
<1>1. CASE a = app
  BY <1>1 DEF Store
<1>2. CASE a # app
  <2>1. watch' = Append(watch, a) /\ app' = a
    BY <1>2 DEF Store
  <2>2. watch' \in Seq(OwnApps) /\ Len(watch') = Len(watch) + 1 /\ watch'[Len(watch')] = a
    BY <2>1
  <2>3. watch' # <<>>
    BY <2>2
  <2> QED
    BY <1>2, <2>1, <2>2, <2>3
<1> QED
  BY <1>1, <1>2

\* Every step keeps NothingMissed.
LEMMA NothingMissedStep ==
  ASSUME Types, NothingMissed, [Next]_vars
  PROVE  NothingMissed'
<1>0. touches' = touches
  BY TouchesUnchanged
<1>t. /\ watch \in Seq(OwnApps) /\ slot \in Seq(OwnApps) /\ Len(slot) <= 1
      /\ app \in Apps /\ faults \in Nat
  BY DEF Types, OwnApps
<1>p. /\ \A a : PatchOf(a, ForeignOf(a))' = PatchOf(a, ForeignOf(a))
      /\ PatchOf(app, ForeignOf(app))' = PatchOf(app', ForeignOf(app'))
      /\ PatchOf(snap[1], ForeignOf(snap[1]))' = PatchOf(snap'[1], ForeignOf(snap'[1]))
  BY <1>0 DEF ForeignOf, AskedOf, PatchOf, NewOf, AskOf
<1>n. Types'
  BY TypesStep
<1>q. Quiescent' <=> watch' = <<>> /\ slot' = <<>> /\ pc' = "idle"
  BY DEF Quiescent
<1> SUFFICES
      /\ watch' # <<>> => watch'[Len(watch')] = app'
      /\ watch' = <<>> /\ slot' # <<>> => slot'[1] = app'
      /\ watch' = <<>> /\ slot' = <<>> /\ pc' # "idle" => snap'[1] = app'
      /\ pc' = "patch" /\ faults' = 0 =>
           patch' = PatchOf(snap'[1], ForeignOf(snap'[1]))
      /\ watch' = <<>> /\ slot' = <<>> /\ pc' = "idle" /\ faults' = 0 =>
           DOMAIN PatchOf(app', ForeignOf(app')) = {}
  BY <1>p, <1>q DEF NothingMissed
<1>1. CASE ArgoCD
  <2>1. PICK a : Store(a)
    BY <1>1, ArgoCDStores
  <2>2. a \in OwnApps
    BY <1>n, <2>1 DEF Store, Types
  <2>3. UNCHANGED controller
    BY <1>1, ArgoCDStores
  <2> QED
    BY <1>t, <2>1, <2>2, <2>3, StoredIsNewest DEF controller, NothingMissed, Quiescent
<1>2. CASE Deliver
  <2>1. /\ watch # <<>> /\ slot' = <<Head(watch)>> /\ watch' = Tail(watch)
        /\ UNCHANGED <<argocd, app, pc, snap, patch, crashes, faults>>
    BY <1>2 DEF Deliver
  <2>2. Len(watch) \in Nat \ {0} /\ watch[Len(watch)] = app
    BY <1>t, <2>1, EmptySeq DEF NothingMissed
  <2>3. CASE Len(watch) = 1
    <3>1. slot'[1] = app' /\ watch' = <<>> /\ slot' # <<>>
      BY <1>t, <2>1, <2>2, <2>3
    <3> QED
      BY <2>1, <3>1 DEF NothingMissed
  <2>4. CASE Len(watch) # 1
    <3> DEFINE n == Len(watch)
    <3>0. n \in Nat /\ n - 1 \in 1 .. (n - 1) /\ (n - 1) + 1 = n
      BY <2>2, <2>4
    <3>1. /\ watch' \in Seq(OwnApps) /\ Len(watch') = n - 1
          /\ \A i \in 1 .. (n - 1) : watch'[i] = watch[i + 1]
      BY <1>t, <2>1, HeadTailProperties
    <3>2. watch'[n - 1] = app' /\ watch' # <<>>
      BY <2>1, <2>2, <3>0, <3>1
    <3> QED
      BY <2>1, <3>1, <3>2 DEF NothingMissed
  <2> QED
    BY <2>3, <2>4
<1>3. CASE Claim
  <2>1. /\ slot # <<>> /\ snap' = slot /\ slot' = <<>> /\ pc' = "calc"
        /\ UNCHANGED <<argocd, app, watch, patch, crashes, faults>>
    BY <1>3 DEF Claim
  <2> QED
    BY <2>1 DEF NothingMissed
<1>4. CASE Calculate
  <2> DEFINE p == PatchOf(snap[1], ForeignOf(snap[1]))
  <2>1. MadePatch(p) /\ pc = "calc"
    BY <1>4, CalculateMakes DEF Calculate
  <2>2. UNCHANGED <<argocd, app, watch, slot, crashes, faults>>
    BY <1>4 DEF Calculate
  <2>3. CASE DOMAIN p = {}
    <3>1. pc' = "idle"
      BY <2>1, <2>3 DEF MadePatch, Return
    <3>2. watch = <<>> /\ slot = <<>> => snap[1] = app
      BY <2>1 DEF NothingMissed
    <3> QED
      BY <2>2, <2>3, <3>1, <3>2 DEF NothingMissed
  <2>4. CASE DOMAIN p # {}
    <3>1. pc' = "patch" /\ patch' = p /\ snap' = snap
      BY <2>1, <2>4 DEF MadePatch
    <3> HIDE DEF p
    <3>2. patch' = PatchOf(snap'[1], ForeignOf(snap'[1]))
      BY <3>1 DEF p
    <3> QED
      BY <2>1, <2>2, <3>1, <3>2 DEF NothingMissed
  <2> QED
    BY <2>3, <2>4
<1>5. CASE CalculatePartly \/ CalculateFails \/ PatchFails
  <2>1. faults' # 0 /\ UNCHANGED <<app, watch, slot>> /\ pc # "idle"
    BY <1>t, <1>5 DEF CalculatePartly, CalculateFails, PatchFails, Fault
  <2>2. pc' = "idle" \/ snap' = snap
    <3>1. CASE CalculatePartly
      BY <3>1, CalculateMakes DEF MadePatch, Return
    <3>2. CASE CalculateFails \/ PatchFails
      BY <3>2 DEF CalculateFails, PatchFails, Return
    <3> QED
      BY <1>5, <3>1, <3>2
  <2> QED
    BY <2>1, <2>2 DEF NothingMissed
<1>6. CASE Patch
  <2>1. /\ pc = "patch" /\ pc' = "idle" /\ Store(MergePatch(app, patch))
        /\ UNCHANGED <<slot, faults>>
    BY <1>6 DEF Patch, Return
  <2>2. MergePatch(app, patch) \in OwnApps
    BY <1>n, <2>1 DEF Types, Store
  <2>3. watch = <<>> /\ slot = <<>> /\ faults = 0 => MergePatch(app, patch) # app
    <3> SUFFICES ASSUME watch = <<>>, slot = <<>>, faults = 0
                 PROVE  MergePatch(app, patch) # app
      OBVIOUS
    <3>1. snap[1] = app /\ patch = PatchOf(snap[1], ForeignOf(snap[1]))
      BY <2>1 DEF NothingMissed
    <3>2. patch = PatchOf(app, ForeignOf(app)) /\ DOMAIN patch # {}
      BY <2>1, <3>1 DEF Types
    <3> QED
      BY <1>t, <3>2, PatchChanges
  <2> QED
    BY <1>t, <2>1, <2>2, <2>3, StoredIsNewest DEF NothingMissed
<1>7. CASE Crash
  <2>1. watch' = <<app>> /\ pc' = "idle" /\ app' = app
    BY <1>7 DEF Crash, Return
  <2>2. watch' # <<>> /\ watch'[Len(watch')] = app'
    BY <2>1
  <2> QED
    BY <2>1, <2>2
<1>8. CASE UNCHANGED vars
  BY <1>8 DEF vars, NothingMissed, Quiescent
<1> QED
  BY <1>1, <1>2, <1>3, <1>4, <1>5, <1>6, <1>7, <1>8 DEF Next, Controller, Handling

\* Every step keeps SyncStages: only a sync that succeeded adds to the history,
\* and one that failed leaves the application out of sync.
LEMMA SyncStagesStep ==
  ASSUME Types, SyncStages, [Next]_vars
  PROVE  SyncStages'
<1>t. /\ app \in Apps /\ app.history \in Seq(Entries)
      /\ DOMAIN patch \subseteq AnnotationKeys
      /\ \A k \in DOMAIN patch : patch[k] \in AnnotationType(k)
      /\ stage \in {"none", "requested", "running", "recorded"}
      /\ stage = "none" => target = <<>>
  BY DEF Types, SyncTypes, OwnApps, Apps
<1>l. LastEntry' = app'.history[Len(app'.history)]
  BY DEF LastEntry
<1>u. ASSUME app'.history = app.history, app'.result = app.result,
             app'.synced => app.synced, UNCHANGED <<stage, target>>
      PROVE  SyncStages'
  BY <1>u DEF SyncStages, LastEntry
<1>1. CASE Adopt
  <2>1. PICK revs \in Resolvable : Store([app EXCEPT !.synced = TRUE, !.syncRevs = revs])
    BY <1>1 DEF Adopt
  <2>2. app'.history = <<>> /\ app'.result = <<>> /\ stage = "none" /\ stage' = stage
    BY <1>t, <1>1, <2>1 DEF Adopt, MayStart, Store, Apps
  <2> QED
    BY <2>2 DEF SyncStages
<1>2. CASE StartSync
  <2>1. PICK revs \in Resolvable, s \in {FALSE, app.synced} :
          \E op : Store([app EXCEPT !.operation = op, !.synced = s])
    BY <1>2 DEF StartSync
  <2>2. /\ app'.history = app.history /\ app'.result = app.result
        /\ app'.synced => app.synced
        /\ stage = "none" /\ stage' = "requested"
    BY <1>t, <1>2, <2>1 DEF StartSync, MayStart, Store, Apps
  <2> QED
    BY <1>t, <2>2 DEF SyncStages, LastEntry
<1>3. CASE ShowResult
  <2>1. /\ app'.history = app.history /\ app'.result = target /\ target' = target
        /\ stage' = "running"
    BY <1>t, <1>3 DEF ShowResult, Store, Apps
  <2> QED
    BY <2>1 DEF SyncStages
<1>4. CASE RecordSync
  <2> DEFINE e == [sources |-> app.sources, revs |-> target]
  <2>1. /\ app'.history = Append(app.history, e) /\ target' = target
        /\ stage' = "recorded" /\ stage # "none"
    BY <1>t, <1>4 DEF RecordSync, Store, Apps
  <2>2. e \in Entries
    BY <2>1, RevsOfType DEF Types, SyncTypes, OwnApps, Apps, Entries
  <2>3. LastEntry' = e /\ app'.history # <<>>
    BY <1>t, <1>l, <2>1, <2>2
  <2> QED
    BY <2>1, <2>3 DEF SyncStages
<1>5. CASE FinishSync
  <2>1. /\ app'.history = app.history /\ app'.result = target /\ stage' = "none"
        /\ stage = "recorded"
    BY <1>t, <1>5 DEF FinishSync, NoSync, Store, Apps
  <2> QED
    BY <2>1 DEF SyncStages, LastEntry
<1>6. CASE FailSync
  <2>1. app'.synced = FALSE /\ stage' = "none"
    BY <1>t, <1>6 DEF FailSync, NoSync, Store, Apps
  <2> QED
    BY <2>1 DEF SyncStages
<1>7. CASE Refresh
  <2>1. /\ app'.history = app.history /\ app'.result = app.result
        /\ UNCHANGED <<stage, target>>
    BY <1>t, <1>7 DEF Refresh, Store, Apps
  <2>2. stage \in {"running", "recorded"} \/ AwaitsRefresh
    BY <1>7 DEF Refresh
  <2> QED
    BY <2>1, <2>2 DEF AwaitsRefresh, SyncStages, LastEntry
<1>8. CASE EditSources
  <2>1. PICK l : Store([app EXCEPT !.sources = l])
    BY <1>8 DEF EditSources
  <2>2. /\ app'.history = app.history /\ app'.result = app.result
        /\ app'.synced = app.synced /\ UNCHANGED <<stage, target>>
    BY <1>t, <1>8, <2>1 DEF EditSources, Store, Apps
  <2> QED
    BY <1>u, <2>2
<1>9. CASE Recompare
  <2>1. \/ \E revs : Store([app EXCEPT !.syncRevs = revs])
        \/ Store([app EXCEPT !.synced = FALSE])
    BY <1>9 DEF Recompare
  <2>2. /\ app'.history = app.history /\ app'.result = app.result
        /\ app'.synced => app.synced
    BY <1>t, <2>1 DEF Store, Apps
  <2> QED
    BY <1>9, <1>u, <2>2 DEF Recompare
<1>10. CASE Patch
  <2>1. Store(MergePatch(app, patch)) /\ UNCHANGED <<stage, target>>
    BY <1>10 DEF Patch, argocd
  <2>2. app' = MergePatch(app, patch)
    BY <2>1 DEF Store
  <2> QED
    BY <1>t, <1>u, <2>1, <2>2, MergePatchIs
<1>11. CASE \/ Deliver \/ Claim \/ Calculate \/ CalculatePartly \/ CalculateFails
            \/ PatchFails \/ Crash \/ UNCHANGED vars
  <2>1. UNCHANGED <<app, stage, target>>
    BY <1>11 DEF Deliver, Claim, Calculate, CalculatePartly, CalculateFails,
                 PatchFails, Crash, argocd, vars
  <2> QED
    BY <1>u, <2>1
<1> QED
  BY <1>1, <1>2, <1>3, <1>4, <1>5, <1>6, <1>7, <1>8, <1>9, <1>10, <1>11
     DEF Next, ArgoCD, Controller, Handling

-----------------------------------------------------------------------------
(* The theorems about every application.                                   *)

\* The inductive invariant holds initially.
LEMMA InitIInv ==
  ASSUME Init
  PROVE  IInv
<1>1. Types
  BY InitTypes
<1>2. NothingMissed
  <2>1. watch = <<app>> /\ pc = "idle"
    BY DEF Init
  <2>2. watch # <<>> /\ watch[Len(watch)] = app
    BY <2>1
  <2> QED
    BY <2>1, <2>2 DEF NothingMissed, Quiescent
<1>3. SyncStages
  <2> DEFINE first == [i \in DOMAIN Sources |-> Min(CommitsOf[Sources[i]])]
             e == [sources |-> Sources, revs |-> first]
  <2>0. stage = "none" /\ target = <<>>
    BY DEF Init
  <2>1. CASE app = NewApp
    BY <2>0, <2>1 DEF NewApp, SyncStages
  <2>2. CASE app = SettledApp
    <3>1. app.history = <<e>> /\ app.result = first
      BY <2>2 DEF SettledApp, NewApp
    <3>2. LastEntry = e /\ app.history # <<>>
      BY <3>1 DEF LastEntry
    <3> QED
      BY <2>0, <3>1, <3>2 DEF SyncStages
  <2> QED
    BY <2>1, <2>2 DEF Init
<1> QED
  BY <1>1, <1>2, <1>3 DEF IInv

\* Every step keeps it.
LEMMA StepIInv ==
  ASSUME IInv, [Next]_vars
  PROVE  IInv'
BY TypesStep, NothingMissedStep, SyncStagesStep DEF IInv

\* The inductive invariant holds in every reachable state.
THEOREM Invariance == Spec => []IInv
<1>1. Init => IInv
  BY InitIInv
<1>2. IInv /\ [Next]_vars => IInv'
  BY StepIInv
<1> QED
  BY <1>1, <1>2, PTL DEF Spec

\* Every variable has its type, for any sources, edits, commits and faults; a
\* worker holds a copy exactly while it handles it, and a patch it is about to
\* send is never empty.
THEOREM TypeCorrect == Spec => []TypeOK
<1>1. IInv => TypeOK
  <2> SUFFICES ASSUME IInv
               PROVE  TypeOK
    OBVIOUS
  <2>0. /\ {app.syncRevs, app.operation, app.result, app.chgs, app.gits} \subseteq RevSeqs
        /\ {app.chg, app.git} \subseteq Revisions \cup {Absent}
        /\ app.sources \in Lists
    BY DEF IInv, Types, OwnApps, Apps
  <2>1. {edited, overtaken, back, moved, misread, app.synced} \subseteq BOOLEAN
    BY DEF IInv, Types, OwnApps, Apps
  <2>3. target \in RevSeqs
    BY <2>0, RevSeqsIntro, RevsOfType DEF IInv, Types, SyncTypes
  <2>2. faults + crashes \in 0 .. MaxFaults
    BY BoundsAssumption DEF IInv, Types
  <2> QED
    BY <2>0, <2>1, <2>2, <2>3 DEF IInv, Types, SyncTypes, TypeOK
<1> QED
  BY <1>1, Invariance, PTL

\* The annotations of an application the handler has nothing to patch of.
LEMMA NothingToPatch ==
  ASSUME IInv, Quiescent, faults = 0
  PROVE  LET new == NewOf(app, ForeignOf(app))
         IN  /\ app.chg = new[1].change /\ app.git = new[1].git
             /\ app.chgs = [i \in DOMAIN app.sources |-> new[i].change]
             /\ app.gits = [i \in DOMAIN app.sources |-> new[i].git]
<1> DEFINE new == NewOf(app, ForeignOf(app))
           want == WantedAnnotations(new)
<1>1. DOMAIN PatchOf(app, ForeignOf(app)) = {}
  BY DEF IInv, NothingMissed
<1>2. \A k \in AnnotationKeys : app[k] = want[k]
  BY <1>1 DEF PatchOf, MakeAnnotationPatch
<1>3. DOMAIN new = DOMAIN app.sources
  BY DEF NewOf
<1> HIDE DEF new
<1>4. /\ want.chg = new[1].change /\ want.git = new[1].git
      /\ want.chgs = [i \in DOMAIN app.sources |-> new[i].change]
      /\ want.gits = [i \in DOMAIN app.sources |-> new[i].git]
  BY <1>3 DEF WantedAnnotations
<1> HIDE DEF want
<1>5. app.chg = want.chg /\ app.git = want.git /\ app.chgs = want.chgs /\ app.gits = want.gits
  BY <1>2 DEF AnnotationKeys
<1> QED
  BY <1>4, <1>5 DEF new

\* If no call fails, the plain annotations and the arrays agree whenever the
\* controller has caught up, in whatever order syncs, edits, events and restarts
\* come.
THEOREM AnnotationsAgreeAtRest == Spec => [](faults = 0 => AnnotationsAgree)
<1>1. IInv => (faults = 0 => AnnotationsAgree)
  <2> SUFFICES ASSUME IInv, faults = 0, Quiescent
               PROVE  /\ AnnotationValue(app.chg) = Annotated(1).change
                      /\ AnnotationValue(app.git) = Annotated(1).git
    BY DEF AnnotationsAgree
  <2> DEFINE new == NewOf(app, ForeignOf(app))
  <2>1. app \in OwnApps /\ app.sources \in Lists
    BY DEF IInv, Types, OwnApps, Apps
  <2>2. /\ 1 \in DOMAIN app.sources /\ DOMAIN app.sources = 1 .. Len(app.sources)
        /\ Len(app.sources) \in Nat
    BY <2>1, ListsType
  <2>3. new[1].change \in Revisions /\ new[1].git \in Revisions
    BY <2>1, <2>2, NewOfType DEF IInv
  <2>4. /\ app.chg = new[1].change /\ app.git = new[1].git
        /\ app.chgs = [i \in DOMAIN app.sources |-> new[i].change]
        /\ app.gits = [i \in DOMAIN app.sources |-> new[i].git]
    BY NothingToPatch
  <2> HIDE DEF new
  <2>5. Absent \notin Revisions
    BY CommitsAreNats DEF Absent
  <2>6. SliceGetString(app.chgs, 1) = new[1].change
    BY <2>2, <2>4 DEF SliceGetString
  <2>7. SliceGetString(app.gits, 1) = new[1].git
    BY <2>2, <2>4 DEF SliceGetString
  <2> QED
    BY <2>3, <2>4, <2>5, <2>6, <2>7 DEF AnnotationValue, Annotated
<1> QED
  BY <1>1, Invariance, PTL

\* No list names a source twice.
Distinct == \A l \in Lists : \A i, j \in DOMAIN l : l[i] = l[j] => i = j

\* If no call fails, and no list names a source twice: once the controller has
\* caught up with an application that was synced with its present sources, the
\* git revision of every source, and the change revision of a chart, is the
\* deployed one.
THEOREM DeployedIsRecorded == Distinct => (Spec => [](faults = 0 => DeployedRecorded))
<1> SUFFICES ASSUME Distinct
             PROVE  Spec => [](faults = 0 => DeployedRecorded)
  OBVIOUS
<1>1. IInv => (faults = 0 => DeployedRecorded)
  <2> DEFINE e == app.history[Len(app.history)]
             new == NewOf(app, ForeignOf(app))
  <2> SUFFICES ASSUME IInv, faults = 0, CaughtUp, app.history # <<>>,
                      e.sources = app.sources, NEW i \in DOMAIN app.sources
               PROVE  /\ Annotated(i).git = Deployed(i)
                      /\ app.sources[i] \in Helm => Annotated(i).change = Deployed(i)
    BY DEF DeployedRecorded, LastEntry
  <2>1. /\ app \in OwnApps /\ app.sources \in Lists /\ app.history \in Seq(Entries)
        /\ app.multi = Multi
    BY DEF IInv, Types, OwnApps, Apps
  <2>2. Len(app.history) \in Nat \ {0} /\ Len(app.history) \in DOMAIN app.history
    BY <2>1, EmptySeq
  <2>3. e.revs \in RevsOf(app.sources) /\ app.result = e.revs
    BY <2>1, <2>2 DEF IInv, SyncStages, LastEntry, CaughtUp, OwnApps, Own
  <2>4. /\ DOMAIN app.sources = 1 .. Len(app.sources) /\ Len(app.sources) \in Nat
        /\ app.sources[i] \in SourceIds /\ 1 \in DOMAIN app.sources
    BY <2>1, ListsType
  <2>5. /\ app.result # <<>> /\ SliceGetString(app.result, i) = e.revs[i]
        /\ e.revs[i] # Unknown
    <3>1. /\ app.result # <<>> /\ SliceGetString(app.result, i) = e.revs[i]
          /\ e.revs[i] \in CommitsOf[app.sources[i]]
      BY <2>1, <2>3, RevsOfType
    <3> QED
      BY <2>4, <3>1, CommitsAreNats DEF Unknown
  <2>6. Deployed(i) = e.revs[i]
    <3>1. {j \in DOMAIN e.sources : e.sources[j] = app.sources[i]} = {i}
      BY <2>1 DEF Distinct
    <3>2. Min({i}) = i
      BY <2>4 DEF Min
    <3> QED
      BY <3>1, <3>2 DEF Deployed, DeployedRevision, RevisionIn, LastEntry
  <2> DEFINE r == GetSourceRevisions(app, i)
  <2>7. r.current = e.revs[i]
    <3>1. GetRevisions(app, i).current = SliceGetString(app.result, i)
      BY <2>2, <2>5 DEF GetRevisions, CaughtUp
    <3> QED
      BY <2>5, <3>1 DEF GetSourceRevisions
  <2>8. /\ app.git = new[1].git
        /\ app.chgs = [j \in DOMAIN app.sources |-> new[j].change]
        /\ app.gits = [j \in DOMAIN app.sources |-> new[j].git]
    BY NothingToPatch DEF CaughtUp
  <2>9. /\ new[i].git = e.revs[i]
        /\ app.sources[i] \in Helm => new[i].change = r.git
    <3> DEFINE ok == i \notin ForeignOf(app)
               v == AskOf(app, i)
    <3>1. new[i] = NewRevisions(r, ok, v)
      BY DEF NewOf
    <3>2. app.sources[i] \in Helm => r.helm
      BY DEF GetSourceRevisions
    <3> HIDE DEF r, v, ok, new
    <3>3. ok \in BOOLEAN
      BY DEF ok
    <3>4. r.current # Unknown
      BY <2>5, <2>7
    <3>5. new[i].git = r.current
      BY <3>1, <3>3, <3>4, NewRevisionsIs
    <3>6. r.helm => new[i].change = r.git
      BY <3>1, <3>3, <3>4, NewRevisionsIs
    <3> QED
      BY <2>7, <3>2, <3>5, <3>6
  <2>10. SliceGetString(app.gits, i) = e.revs[i]
    BY <2>4, <2>8, <2>9 DEF SliceGetString
  <2>11. r.git = e.revs[i]
    <3>1. CASE Multi
      BY <2>1, <2>10, <3>1 DEF GetSourceRevisions
    <3>2. CASE ~Multi
      <4>1. i = 1
        BY <2>1, <2>4, <3>2, SourcesAssumption DEF Lists
      <4>2. app.git = e.revs[i] /\ e.revs[i] # Absent
        <5>1. e.revs[i] \in CommitsOf[app.sources[i]]
          BY <2>1, <2>3, RevsOfType
        <5>2. e.revs[i] # Absent
          BY <2>4, <5>1, CommitsAreNats DEF Absent
        <5> QED
          BY <2>8, <2>9, <4>1, <5>2
      <4> QED
        BY <2>1, <3>2, <4>2 DEF GetSourceRevisions, AnnotationValue
    <3> QED
      BY <3>1, <3>2
  <2>12. SliceGetString(app.chgs, i) = new[i].change
    BY <2>4, <2>8 DEF SliceGetString
  <2> HIDE DEF r, new, e
  <2> QED
    BY <2>6, <2>9, <2>10, <2>11, <2>12 DEF Annotated
<1> QED
  BY <1>1, Invariance, PTL

-----------------------------------------------------------------------------
(* Revisions only grow, if the sources stay: lemmas about objects.         *)

\* A list of revisions is empty, or has one for each source.
LEMMA RevSeqsFixed ==
  ASSUME Edits = {}, NEW r \in RevSeqs
  PROVE  /\ r = <<>> \/ r \in [DOMAIN Sources -> Revisions]
         /\ \A i \in DOMAIN Sources :
              SliceGetString(r, i) = IF r = <<>> THEN Unknown ELSE r[i]
<1>1. Sources \in Lists /\ Edits \cup {Sources} = {Sources}
  BY DEF Lists
<1>2. DOMAIN Sources = 1 .. Len(Sources) /\ Len(Sources) \in Nat \ {0}
  BY <1>1, ListsType
<1>3. PICK n \in {0} \cup {Len(l) : l \in Edits \cup {Sources}} : r \in [1 .. n -> Revisions]
  BY DEF RevSeqs
<1>4. n = 0 \/ n = Len(Sources)
  BY <1>1, <1>3
<1>5. CASE n = 0
  <2>1. r = <<>>
    BY <1>3, <1>5
  <2> QED
    BY <2>1 DEF SliceGetString
<1>6. CASE n = Len(Sources)
  <2>1. r \in [DOMAIN Sources -> Revisions] /\ r # <<>>
    <3>1. r \in [DOMAIN Sources -> Revisions]
      BY <1>2, <1>3, <1>6
    <3>2. 1 \in DOMAIN Sources
      BY <1>1, ListsType
    <3> QED
      BY <3>1, <3>2
  <2>2. r \in [1 .. Len(Sources) -> Revisions] /\ Len(r) = Len(Sources)
    BY <1>2, <1>3, <1>6
  <2> QED
    BY <1>2, <2>1, <2>2 DEF SliceGetString
<1> QED
  BY <1>4, <1>5, <1>6

\* The current revision an object shows.
LEMMA CurIs ==
  ASSUME Edits = {}, NEW a \in OwnApps, NEW i \in DOMAIN Sources
  PROVE  Cur(a, i) = IF a.history # <<>> /\ a.synced /\ a.result # <<>> THEN a.result[i]
                     ELSE IF a.operation # <<>> THEN a.operation[i]
                     ELSE IF a.synced THEN SliceGetString(a.syncRevs, i) ELSE Unknown
<1>1. /\ a.history \in Seq(Entries) /\ a.result \in RevSeqs /\ a.operation \in RevSeqs
  BY DEF OwnApps, Apps
<1>2. Len(a.history) = 0 <=> a.history = <<>>
  BY <1>1, EmptySeq
<1>3. /\ a.result # <<>> => SliceGetString(a.result, i) = a.result[i]
      /\ a.operation # <<>> => SliceGetString(a.operation, i) = a.operation[i]
  BY <1>1, RevSeqsFixed
<1> QED
  BY <1>2, <1>3 DEF Cur, GetRevisions, GetCurrentRevisionForFirstSync

\* Current and annotated revisions are numbers.
LEMMA CurType ==
  ASSUME NEW a \in OwnApps, NEW i \in DOMAIN a.sources
  PROVE  Cur(a, i) \in Revisions /\ Cur(a, i) \in Nat
BY GetRevisionsType, CommitsAreNats DEF Cur

\* So are the annotated ones.
LEMMA AnnType ==
  ASSUME NEW a \in OwnApps, NEW i
  PROVE  /\ SliceGetString(a.chgs, i) \in Nat /\ SliceGetString(a.gits, i) \in Nat
         /\ \A v \in Ann(a, i) : v \in Nat
<1>1. a.chgs \in RevSeqs /\ a.gits \in RevSeqs
  BY DEF OwnApps, Apps
<1> QED
  BY <1>1, RevSeqsElim, CommitsAreNats DEF Ann

\* What is under way are objects.
LEMMA SeenTypes ==
  ASSUME Types
  PROVE  Pending \subseteq OwnApps /\ Seen \subseteq OwnApps
<1>1. \A k \in DOMAIN snap : snap[k] \in OwnApps
  BY DEF Types
<1>2. \A k \in DOMAIN slot : slot[k] \in OwnApps
  BY DEF Types
<1>3. \A k \in DOMAIN watch : watch[k] \in OwnApps
  BY DEF Types
<1>4. Pending \subseteq OwnApps
  BY <1>1, <1>2, <1>3 DEF Pending
<1> QED
  BY <1>4 DEF Seen, Types

-----------------------------------------------------------------------------
(* Argo CD never shows an older current revision after a newer one.        *)

\* The ceiling only rises, and what Argo CD shows is under it.
CeilingRises ==
  /\ \A i \in DOMAIN Sources, v \in Nat :
       UnderCeiling(tip, app, Aim, v, i) => UnderCeiling(tip', app', Aim', v, i)
  /\ \A i \in DOMAIN Sources : UnderCeiling(tip', app', Aim', Cur(app', i), i)
  /\ TipIsTop'

\* A step of Argo CD leaves the annotations and, if they are not edited, the
\* sources alone.
LEMMA ArgoCDAnnotations ==
  ASSUME Edits = {}, app \in Apps, ~edited, ArgoCD
  PROVE  /\ ~edited'
         /\ app'.sources = app.sources /\ app'.chgs = app.chgs /\ app'.gits = app.gits
         /\ app'.chg = app.chg /\ app'.git = app.git
<1>1. CASE Adopt
  BY <1>1 DEF Adopt, Store, Apps
<1>2. CASE StartSync
  BY <1>2 DEF StartSync, Store, Apps
<1>4. CASE ShowResult
  BY <1>4 DEF ShowResult, Store, Apps
<1>5. CASE RecordSync
  BY <1>5 DEF RecordSync, Store, Apps
<1>6. CASE FinishSync
  BY <1>6 DEF FinishSync, Store, Apps
<1>7. CASE FailSync
  BY <1>7 DEF FailSync, Store, Apps
<1>8. CASE Refresh
  BY <1>8 DEF Refresh, Store, Apps
<1>3. CASE EditSources \/ Recompare
  BY <1>3 DEF EditSources, Recompare
<1> QED
  BY <1>1, <1>2, <1>3, <1>4, <1>5, <1>6, <1>7, <1>8 DEF ArgoCD

\* Without Resolve, Argo CD aims at the same revisions, and shows the same
\* current revision as before, or the one it aims at, or none.
LEMMA ArgoCDShows ==
  ASSUME Edits = {}, Types, SyncStages, app.sources = Sources,
         ShowResult \/ RecordSync \/ FinishSync \/ FailSync \/ Refresh,
         app' \in OwnApps, ~back'
  PROVE  /\ ~back /\ tip' = tip /\ Aim' = Aim
         /\ \A i \in DOMAIN Sources :
              Cur(app', i) \in {Cur(app, i), Unknown} \cup (IF Aim = <<>> THEN {} ELSE {Aim[i]})
<1>a. /\ app \in OwnApps /\ app \in Apps /\ app.history \in Seq(Entries)
      /\ app.operation # <<>> <=> stage # "none"
      /\ stage \in {"none", "requested", "running", "recorded"}
      /\ stage # "none" => target \in RevsOf(Sources)
  BY DEF Types, SyncTypes, OwnApps, Apps
<1>t. stage # "none" => target # <<>>
  <2>1. Sources \in Lists
    BY DEF Lists
  <2> QED
    BY <1>a, <2>1, RevsOfType
<1>c. \A i \in DOMAIN Sources :
        /\ Cur(app, i) = IF app.history # <<>> /\ app.synced /\ app.result # <<>> THEN app.result[i]
                         ELSE IF app.operation # <<>> THEN app.operation[i]
                         ELSE IF app.synced THEN SliceGetString(app.syncRevs, i) ELSE Unknown
        /\ Cur(app', i) = IF app'.history # <<>> /\ app'.synced /\ app'.result # <<>> THEN app'.result[i]
                         ELSE IF app'.operation # <<>> THEN app'.operation[i]
                         ELSE IF app'.synced THEN SliceGetString(app'.syncRevs, i) ELSE Unknown
  BY <1>a, CurIs
<1>1. CASE ShowResult
  <2>1. /\ app'.history = app.history /\ app'.synced = app.synced
        /\ app'.operation = app.operation /\ app'.result = target
        /\ stage = "requested" /\ stage' = "running"
        /\ UNCHANGED <<target, tip, back>>
    BY <1>a, <1>1 DEF ShowResult, Store, Apps
  <2> QED
    BY <1>a, <1>t, <1>c, <2>1 DEF Aim
<1>2. CASE RecordSync
  <2> DEFINE e == [sources |-> app.sources, revs |-> target]
  <2>1. /\ app'.history = Append(app.history, e) /\ app'.synced = app.synced
        /\ app'.operation = app.operation /\ app'.result = app.result
        /\ stage # "none" /\ stage' = "recorded"
        /\ UNCHANGED <<target, tip, back>>
    BY <1>a, <1>2 DEF RecordSync, Store, Apps
  <2>2. app'.history # <<>>
    <3>1. Len(app'.history) = Len(app.history) + 1 /\ Len(app.history) \in Nat
      BY <1>a, <2>1
    <3> QED
      BY <3>1
  <2>3. app.history = <<>> /\ app.synced => app.result \in {<<>>, target}
    BY DEF SyncStages
  <2> HIDE DEF e
  <2> QED
    BY <1>a, <1>t, <1>c, <2>1, <2>2, <2>3 DEF Aim
<1>3. CASE FinishSync
  <2>1. /\ app'.history = app.history /\ app'.synced = app.synced
        /\ app'.operation = <<>> /\ app'.result = target
        /\ stage = "recorded" /\ stage' = "none"
        /\ UNCHANGED <<tip, back>>
    BY <1>a, <1>3 DEF FinishSync, NoSync, Store, Apps
  <2>2. app.history # <<>>
    BY <2>1 DEF SyncStages
  <2> QED
    BY <1>a, <1>t, <1>c, <2>1, <2>2 DEF Aim
<1>4. CASE FailSync
  <2>1. /\ app'.synced = FALSE /\ app'.operation = <<>> /\ app'.result = target
        /\ stage # "none" /\ stage' = "none"
        /\ UNCHANGED <<tip, back>>
    BY <1>a, <1>4 DEF FailSync, NoSync, Store, Apps
  <2> QED
    BY <1>a, <1>t, <1>c, <2>1 DEF Aim
<1>5. CASE Refresh
  <2>1. /\ app'.history = app.history /\ app'.synced = TRUE /\ app.synced = FALSE
        /\ app'.operation = app.operation /\ app'.result = app.result
        /\ UNCHANGED <<stage, target, tip>>
        /\ stage \in {"running", "recorded"} \/ AwaitsRefresh
    BY <1>a, <1>5 DEF Refresh, Store, Apps
  <2>2. ~back /\ (stage = "recorded" => app.result \in {<<>>, target})
    BY <1>5 DEF Refresh
  <2>3. stage = "running" => app.result = target
    BY DEF SyncStages
  <2>4. stage = "none" => app.history # <<>> /\ app.result # <<>>
    <3> SUFFICES ASSUME stage = "none"
                 PROVE  app.history # <<>> /\ app.result # <<>>
      OBVIOUS
    <3>1. app.history # <<>> /\ LastEntry.revs = app.result
      BY <2>1 DEF AwaitsRefresh
    <3>2. Len(app.history) \in DOMAIN app.history
      BY <1>a, <3>1, EmptySeq
    <3>3. LastEntry \in Entries /\ LastEntry.revs \in RevsOf(LastEntry.sources)
      <4>1. app.history[Len(app.history)] \in Entries
        BY <1>a, <3>2
      <4> QED
        BY <1>a, <3>2, <4>1 DEF LastEntry, OwnApps, Own
    <3> QED
      BY <3>1, <3>3, RevsOfType DEF Entries
  <2>5. stage # "none" => app.operation # <<>> /\ target # <<>>
    BY <1>a, <1>t
  <2>6. CASE stage = "none"
    BY <1>c, <2>1, <2>2, <2>4, <2>6 DEF Aim
  <2>7. CASE stage = "running"
    BY <1>c, <2>1, <2>2, <2>3, <2>5, <2>7 DEF Aim
  <2>8. CASE stage = "recorded"
    BY <1>c, <2>1, <2>2, <2>5, <2>8 DEF Aim
  <2> QED
    BY <2>1, <2>6, <2>7, <2>8 DEF AwaitsRefresh
<1> QED
  BY <1>1, <1>2, <1>3, <1>4, <1>5

\* Every step of Argo CD lets the ceiling rise, if no older revision is gone
\* back to.
LEMMA ArgoCDCeiling ==
  ASSUME Edits = {}, Types, SyncStages, GrowInv, ArgoCD, ~back'
  PROVE  CeilingRises
<1>n. Types'
  BY ArgoCDTypes
<1>a. /\ app \in OwnApps /\ app \in Apps /\ app.sources = Sources
      /\ app.operation \in RevSeqs /\ app.result \in RevSeqs
      /\ app.history \in Seq(Entries) /\ app' \in OwnApps
  BY <1>n DEF Types, OwnApps, Apps, GrowInv, Seen, Form
<1>s. /\ Sources \in Lists /\ \A i \in DOMAIN Sources : Sources[i] \in SourceIds
  BY ListsType DEF Lists
<1>t. \A i \in DOMAIN Sources : tip[Sources[i]] \in Nat
  BY <1>s, CommitsAreNats DEF Types
<1>r. ASSUME NEW r \in RevSeqs, NEW i \in DOMAIN Sources, r # <<>>
      PROVE  r[i] \in Nat
  BY <1>r, RevSeqsFixed, CommitsAreNats
<1>c. \A i \in DOMAIN Sources : UnderCeiling(tip, app, Aim, Cur(app, i), i) /\ Cur(app, i) \in Nat
  BY <1>a, CurType DEF GrowInv, CeilingHolds, Seen
<1>m. \A i \in DOMAIN Sources : \A v : UnderCeiling(tip, app, Aim, v, i) =>
        /\ v <= tip[Sources[i]]
        /\ Cur(app, i) # Unknown => v <= Cur(app, i)
        /\ Aim # <<>> => v <= Aim[i]
  BY DEF UnderCeiling, UnderCur
<1>k. \A i \in DOMAIN Sources : Aim # <<>> => Aim[i] <= tip[Sources[i]] /\ Aim[i] \in Nat
  <2>1. Aim \in RevSeqs
    BY <1>a, <1>s, RevsOfType DEF Aim, Types, SyncTypes
  <2> QED
    BY <1>r, <2>1 DEF GrowInv, TipIsTop
<1>v. ASSUME NEW revs \in Resolvable, Resolve(revs)
      PROVE  /\ revs \in RevSeqs /\ revs # <<>>
             /\ \A i \in DOMAIN Sources :
                  /\ revs[i] \in Nat /\ revs[i] >= tip[Sources[i]]
                  /\ tip'[Sources[i]] >= revs[i] /\ tip'[Sources[i]] \in Nat
                  /\ tip'[Sources[i]] >= tip[Sources[i]]
                  /\ SliceGetString(revs, i) = revs[i]
  <2>1. /\ revs \in RevsOf(Sources)
        /\ \A s \in SourceIds : tip'[s] \in CommitsOf[s] /\ tip'[s] >= tip[s]
        /\ \A i \in DOMAIN Sources : revs[i] >= tip[Sources[i]]
        /\ \A i \in DOMAIN Sources : tip'[Sources[i]] >= revs[i]
    BY <1>a, <1>v, ResolveTypes
  <2>2. revs \in RevSeqs /\ revs # <<>> /\ \A i \in DOMAIN Sources : SliceGetString(revs, i) = revs[i]
    BY <1>s, <2>1, RevsOfType
  <2>3. \A i \in DOMAIN Sources : revs[i] \in Nat
    BY <1>r, <2>2
  <2>4. \A i \in DOMAIN Sources : tip'[Sources[i]] \in Nat
    BY <1>s, <2>1, CommitsAreNats
  <2> QED
    BY <1>s, <2>1, <2>2, <2>3, <2>4
<1>1. CASE Adopt
  <2>1. PICK revs \in Resolvable :
          /\ Resolve(revs)
          /\ Store([app EXCEPT !.synced = TRUE, !.syncRevs = revs])
    BY <1>1 DEF Adopt
  <2>2. /\ app'.synced /\ app'.syncRevs = revs
        /\ app'.operation = app.operation /\ app'.result = <<>> /\ app'.history = <<>>
        /\ stage = "none" /\ stage' = "none"
    BY <1>a, <1>1, <2>1 DEF Adopt, MayStart, Store, Apps
  <2>5. app.operation = <<>> /\ Aim' = <<>>
    BY <2>2 DEF Types, SyncTypes, Aim
  <2>3. \A i \in DOMAIN Sources : Cur(app', i) = revs[i]
    BY <1>a, <1>v, <2>1, <2>2, <2>5, CurIs
  <2> QED
    BY <1>c, <1>m, <1>t, <1>v, <2>1, <2>3, <2>5
       DEF CeilingRises, TipIsTop, UnderCeiling, UnderCur
<1>2. CASE StartSync
  <2>1. PICK revs \in Resolvable, s \in {FALSE, app.synced} :
          /\ Resolve(revs) /\ target' = revs
          /\ \E op \in {revs, [i \in DOMAIN revs |-> Unknown]} :
               Store([app EXCEPT !.operation = op, !.synced = s])
    BY <1>2 DEF StartSync
  <2>4. PICK op \in {revs, [i \in DOMAIN revs |-> Unknown]} :
          Store([app EXCEPT !.operation = op, !.synced = s])
    BY <2>1
  <2>2. /\ app'.synced = s /\ app'.operation = op
        /\ app'.result = app.result /\ app'.history = app.history
        /\ stage' = "requested"
    BY <1>a, <1>2, <2>4 DEF StartSync, Store, Apps
  <2>5. Aim' = revs /\ revs # <<>>
    BY <1>v, <2>1, <2>2 DEF Aim
  <2>6. op # <<>> /\ \A i \in DOMAIN Sources : op[i] \in {revs[i], Unknown}
    <3>1. revs \in RevsOf(Sources)
      BY <1>a, <2>1, ResolveTypes
    <3>2. op \in RevsOf(Sources) \/ op = NoRevs(Sources)
      BY <2>4, <3>1 DEF NoRevs, RevsOf
    <3>3. op # <<>>
      BY <1>s, <3>2, RevsOfType, NoRevsType
    <3>4. DOMAIN revs = DOMAIN Sources
      BY <3>1 DEF RevsOf
    <3> QED
      BY <2>4, <3>3, <3>4
  <2>3. ASSUME NEW i \in DOMAIN Sources
        PROVE  Cur(app', i) \in {revs[i], Unknown, Cur(app, i)}
    <3>2. s => app.synced
      BY <2>1
    <3> QED
      BY <1>a, <2>2, <2>6, <3>2, CurIs
  <2> QED
    BY <1>c, <1>m, <1>t, <1>v, <2>1, <2>3, <2>5
       DEF CeilingRises, TipIsTop, UnderCeiling, UnderCur, Unknown
<1>3. CASE ShowResult \/ RecordSync \/ FinishSync \/ FailSync \/ Refresh
  <2>1. /\ tip' = tip /\ Aim' = Aim
        /\ \A i \in DOMAIN Sources :
             Cur(app', i) \in {Cur(app, i), Unknown} \cup (IF Aim = <<>> THEN {} ELSE {Aim[i]})
    BY <1>a, <1>3, ArgoCDShows
  <2>2. TipIsTop'
    BY <2>1 DEF GrowInv, TipIsTop
  <2> QED
    BY <1>c, <1>m, <1>k, <1>t, <2>1, <2>2 DEF CeilingRises, UnderCeiling, UnderCur, Unknown
<1>4. CASE EditSources \/ Recompare
  BY <1>4 DEF EditSources, Recompare, GrowInv
<1> QED
  BY <1>1, <1>2, <1>3, <1>4 DEF ArgoCD

\* What Argo CD compares or deploys has been resolved.
LEMMA ArgoCDResolves ==
  ASSUME Types, Form(app), ~edited, Edits = {}, ArgoCD
  PROVE  Resolved(app')
<1>a. /\ app \in Apps /\ app.sources = Sources /\ Resolved(app)
      /\ stage # "none" => target \in RevsOf(Sources)
      /\ stage \in {"none", "requested", "running", "recorded"}
  BY DEF Types, SyncTypes, OwnApps, Form
<1>v. Resolvable \subseteq RevsOf(Sources)
  BY <1>a DEF Resolvable, RevsOf
<1>1. CASE Adopt
  <2>1. PICK revs \in Resolvable : Store([app EXCEPT !.synced = TRUE, !.syncRevs = revs])
    BY <1>1 DEF Adopt
  <2>2. app'.syncRevs = revs /\ app'.result = app.result
    BY <1>a, <2>1 DEF Store, Apps
  <2> QED
    BY <1>a, <1>v, <2>2 DEF Resolved
<1>2. CASE StartSync \/ RecordSync
  <2>1. app'.syncRevs = app.syncRevs /\ app'.result = app.result
    BY <1>a, <1>2 DEF StartSync, RecordSync, Store, Apps
  <2> QED
    BY <1>a, <2>1 DEF Resolved
<1>3. CASE ShowResult \/ FinishSync \/ FailSync
  <2>1. app'.syncRevs = app.syncRevs /\ app'.result = target /\ stage # "none"
    BY <1>a, <1>3 DEF ShowResult, FinishSync, FailSync, Store, Apps
  <2> QED
    BY <1>a, <2>1 DEF Resolved
<1>4. CASE Refresh
  <2>1. /\ app'.syncRevs = IF stage = "none" THEN app.result ELSE target
        /\ app'.result = app.result
    BY <1>a, <1>4 DEF Refresh, Store, Apps
  <2> QED
    BY <1>a, <2>1 DEF Resolved
<1>5. CASE EditSources \/ Recompare
  BY <1>5 DEF EditSources, Recompare
<1> QED
  BY <1>1, <1>2, <1>3, <1>4, <1>5 DEF ArgoCD

-----------------------------------------------------------------------------
(* Every step keeps the order: Argo CD, and the controller up to the patch. *)

\* Argo CD's steps.
LEMMA ArgoCDGrows ==
  ASSUME Edits = {}, Types, SyncStages, GrowInv, ArgoCD, ~back'
  PROVE  GrowInv'
<1>n. Types'
  BY ArgoCDTypes
<1>c. /\ CeilingRises /\ ~edited'
      /\ app'.sources = Sources /\ app'.chgs = app.chgs /\ app'.gits = app.gits
      /\ app'.chg = app.chg /\ app'.git = app.git
  <2>1. app \in Apps /\ app.sources = Sources /\ ~edited
    BY DEF Types, OwnApps, GrowInv, Seen, Form
  <2> QED
    BY <2>1, ArgoCDCeiling, ArgoCDAnnotations
<1>w. /\ UNCHANGED controller
      /\ watch' = watch \/ watch' = Append(watch, app')
  <2>1. PICK a : Store(a)
    BY ArgoCDStores
  <2> QED
    BY <2>1, ArgoCDStores DEF Store
<1>u. slot' = slot /\ snap' = snap /\ pc' = pc /\ patch' = patch /\ touches' = touches
  BY <1>w, TouchesUnchanged DEF controller, Next
<1>o. watch \in Seq(OwnApps) /\ app \in OwnApps /\ app' \in OwnApps
  BY <1>n DEF Types
<1>d. /\ \A k \in DOMAIN watch' : \/ k \in DOMAIN watch /\ watch'[k] = watch[k]
                                  \/ watch'[k] = app' /\ \A j \in DOMAIN watch' : j <= k
      /\ DOMAIN watch \subseteq DOMAIN watch'
  BY <1>o, <1>w
<1>p. Pending' \subseteq Pending \cup {app'} /\ Seen' \subseteq Seen \cup {app'}
  BY <1>d, <1>u DEF Pending, Seen
<1>y. Seen \subseteq OwnApps /\ Pending \subseteq Seen
  BY SeenTypes DEF Seen
<1>f. \A a \in Seen : Form(a)
  BY DEF GrowInv
<1>A. \A i : Ann(app', i) = Ann(app, i)
  BY <1>c DEF Ann
<1>L. \A x \in Seen, i \in DOMAIN Sources : \A v \in Ann(x, i) \cup {Cur(x, i)} :
        v \in Nat /\ UnderCeiling(tip, app, Aim, v, i) /\ UnderCeiling(tip', app', Aim', v, i)
  <2>1. \A x \in Seen, i \in DOMAIN Sources : \A v \in Ann(x, i) \cup {Cur(x, i)} :
          v \in Nat /\ UnderCeiling(tip, app, Aim, v, i)
    BY <1>y, <1>f, AnnType, CurType DEF GrowInv, CeilingHolds, Form
  <2> QED
    BY <1>c, <2>1 DEF CeilingRises
<1>N. \A x \in Seen, i \in DOMAIN Sources : \A v \in Ann(x, i) \cup {Cur(x, i)} : UnderCur(v, app', i)
  BY <1>L DEF UnderCeiling
<1>1. \A a \in Seen' : Form(a)
  <2>1. Form(app)
    BY <1>f DEF Seen
  <2>2. Resolved(app')
    BY <2>1, ArgoCDResolves DEF GrowInv
  <2>3. Form(app')
    BY <1>c, <2>1, <2>2 DEF Form
  <2> QED
    BY <1>f, <1>p, <2>3
<1>2. CurInOrder'
  <2>1. \A x \in Seen : Later(x, app')
    BY <1>N DEF Later
  <2>2. /\ \A k \in DOMAIN snap : snap[k] \in Seen
        /\ \A k \in DOMAIN slot : slot[k] \in Seen
        /\ \A k \in DOMAIN watch : watch[k] \in Seen
    BY DEF Seen, Pending
  <2>3. ASSUME NEW j \in DOMAIN watch', NEW k \in DOMAIN watch', j < k
        PROVE  Later(watch'[j], watch'[k])
    <3>0. j \in Nat /\ k \in Nat
      <4>1. DOMAIN watch' \subseteq Nat
        <5>1. watch' \in Seq(OwnApps)
          BY <1>n DEF Types
        <5>2. DOMAIN watch' = 1 .. Len(watch') /\ Len(watch') \in Nat
          BY <5>1, LenProperties
        <5> QED
          BY <5>2
      <4> QED
        BY <4>1
    <3>1. j \in DOMAIN watch /\ watch'[j] = watch[j]
      BY <1>d, <2>3, <3>0
    <3>2. CASE k \in DOMAIN watch /\ watch'[k] = watch[k]
      BY <2>3, <3>1, <3>2 DEF GrowInv, CurInOrder
    <3>3. CASE watch'[k] = app'
      BY <2>1, <2>2, <3>1, <3>3
    <3> QED
      BY <1>d, <3>2, <3>3
  <2>4. ASSUME NEW m \in DOMAIN slot, NEW k \in DOMAIN watch'
        PROVE  Later(slot[m], watch'[k])
    BY <1>d, <2>1, <2>2 DEF GrowInv, CurInOrder
  <2>5. ASSUME NEW m \in DOMAIN snap, NEW k \in DOMAIN watch'
        PROVE  Later(snap[m], watch'[k])
    BY <1>d, <2>1, <2>2 DEF GrowInv, CurInOrder
  <2>6. \A m \in DOMAIN snap, k \in DOMAIN slot : Later(snap[m], slot[k])
    BY DEF GrowInv, CurInOrder
  <2> QED
    BY <1>u, <2>3, <2>4, <2>5, <2>6 DEF CurInOrder
<1>3. TipIsTop'
  BY <1>c DEF CeilingRises
<1>4. CeilingHolds'
  <2>1. ASSUME NEW a \in Seen', NEW i \in DOMAIN Sources, NEW v \in Ann(a, i) \cup {Cur(a, i)}
        PROVE  UnderCeiling(tip', app', Aim', v, i)
    <3>1. CASE a \in Seen
      BY <1>L, <2>1, <3>1
    <3>2. CASE a = app'
      <4>1. CASE v \in Ann(app, i)
        BY <1>L, <4>1 DEF Seen
      <4>2. CASE v = Cur(app', i)
        BY <1>c, <4>2 DEF CeilingRises
      <4> QED
        BY <1>A, <2>1, <3>2, <4>1, <4>2
    <3> QED
      BY <1>p, <3>1, <3>2
  <2> QED
    BY <2>1 DEF CeilingHolds
<1>5. AnnotatedBefore'
  <2>1. ASSUME NEW a \in Seen', NEW x \in Pending', NEW i \in DOMAIN Sources, NEW v \in Ann(a, i)
        PROVE  UnderCur(v, x, i)
    <3>1. PICK b \in Seen : v \in Ann(b, i)
      BY <1>A, <1>p, <2>1 DEF Seen
    <3>2. CASE x \in Pending
      BY <3>1, <3>2 DEF GrowInv, AnnotatedBefore
    <3>3. CASE x = app'
      BY <1>N, <3>1, <3>3
    <3> QED
      BY <1>p, <3>2, <3>3
  <2> QED
    BY <2>1 DEF AnnotatedBefore
<1>6. GitGrows'
  <2>1. ASSUME NEW x \in Pending', NEW i \in DOMAIN Sources,
               SliceGetString(app'.gits, i) # Unknown
        PROVE  SliceGetString(x.gits, i) <= SliceGetString(app'.gits, i)
    <3>1. CASE x \in Pending
      BY <1>c, <2>1, <3>1 DEF GrowInv, GitGrows
    <3>2. CASE x = app'
      <4>1. SliceGetString(app'.gits, i) \in Nat
        BY <1>o, AnnType
      <4> QED
        BY <3>2, <4>1
    <3> QED
      BY <1>p, <3>1, <3>2
  <2> QED
    BY <2>1 DEF GitGrows
<1>7. PatchMade'
  <2>1. pc = "patch" => \E bad \in SUBSET DOMAIN Sources : patch = PatchOf(snap[1], bad)
    BY DEF GrowInv, PatchMade
  <2>2. \A bad : PatchOf(snap[1], bad)' = PatchOf(snap[1], bad)
    BY <1>u DEF PatchOf, NewOf, AskOf
  <2> QED
    BY <1>u, <2>1, <2>2 DEF PatchMade
<1>8. NeverAhead'
  <2>1. app.sources = Sources /\ NeverAhead
    BY <1>f DEF Seen, GrowInv, Form
  <2> QED
    BY <1>c, <2>1 DEF GrowInv, NeverAhead, Annotated
<1>9. ChartsUntouched'
  BY <1>u DEF GrowInv, ChartsUntouched
<1> QED
  BY <1>c, <1>1, <1>2, <1>3, <1>4, <1>5, <1>6, <1>7, <1>8, <1>9 DEF GrowInv

\* Steps that leave the application alone.
LEMMA SameAppGrows ==
  ASSUME GrowInv, UNCHANGED <<touches, edited, back, stage, target, tip, app>>, Pending' \subseteq Seen, CurInOrder',
         PatchMade',
         \A x \in Pending' \ Pending : x = app
  PROVE  (\A a \in Seen : \A i \in DOMAIN Sources : \A v \in Ann(a, i) : v \in Nat) => GrowInv'
<1> SUFFICES ASSUME \A a \in Seen : \A i \in DOMAIN Sources : \A v \in Ann(a, i) : v \in Nat
             PROVE  GrowInv'
  OBVIOUS
<1>1. Seen' \subseteq Seen /\ app \in Seen
  BY DEF Seen
<1>2. \A a \in Seen' : Form(a)
  BY <1>1 DEF GrowInv
<1>a. Aim' = Aim
  BY DEF Aim
<1>3. TipIsTop'
  BY <1>a DEF GrowInv, TipIsTop
<1>4. CeilingHolds'
  BY <1>1, <1>a DEF GrowInv, CeilingHolds
<1>5. AnnotatedBefore'
  <2>1. ASSUME NEW a \in Seen', NEW x \in Pending', NEW i \in DOMAIN Sources, NEW v \in Ann(a, i)
        PROVE  UnderCur(v, x, i)
    <3>1. CASE x \in Pending
      BY <1>1, <2>1, <3>1 DEF GrowInv, AnnotatedBefore
    <3>2. CASE x = app
      BY <1>1, <2>1, <3>2 DEF GrowInv, CeilingHolds, UnderCeiling
    <3> QED
      BY <2>1, <3>1, <3>2
  <2> QED
    BY <2>1 DEF AnnotatedBefore
<1>6. GitGrows'
  <2>1. ASSUME NEW x \in Pending', NEW i \in DOMAIN Sources, SliceGetString(app.gits, i) # Unknown
        PROVE  SliceGetString(x.gits, i) <= SliceGetString(app.gits, i)
    <3>1. CASE x \in Pending
      BY <2>1, <3>1 DEF GrowInv, GitGrows
    <3>2. CASE x = app
      <4>1. SliceGetString(app.gits, i) \in Nat
        BY <1>1 DEF Ann
      <4> QED
        BY <3>2, <4>1
    <3> QED
      BY <2>1, <3>1, <3>2
  <2> QED
    BY <2>1 DEF GitGrows
<1>7. NeverAhead'
  BY DEF GrowInv, NeverAhead, Annotated
<1>8. ChartsUntouched'
  BY DEF GrowInv, ChartsUntouched
<1> QED
  BY <1>2, <1>3, <1>4, <1>5, <1>6, <1>7, <1>8 DEF GrowInv

\* The steps of the controller that leave the application alone, and a crash.
LEMMA ControllerGrows ==
  ASSUME Edits = {}, Types, GrowInv, Controller \/ Crash, ~Patch
  PROVE  GrowInv'
<1>o. /\ watch \in Seq(OwnApps) /\ slot \in Seq(OwnApps) /\ snap \in Seq(OwnApps)
      /\ Len(slot) <= 1
  BY DEF Types
<1>v. \A a \in Seen : \A i \in DOMAIN Sources : \A v \in Ann(a, i) : v \in Nat
  BY SeenTypes, AnnType
<1>t. touches' = touches
  BY TouchesUnchanged DEF Next
<1>s. ASSUME UNCHANGED <<edited, back, stage, target, tip, app>>, CurInOrder', PatchMade',
             \A x \in Pending' : x \in Pending \/ x = app
      PROVE  GrowInv'
  BY <1>v, <1>s, <1>t, SameAppGrows DEF Seen
<1>e. /\ CurInOrder /\ PatchMade
  BY DEF GrowInv
<1>p. \A bad : PatchOf(snap[1], bad)' = PatchOf(snap'[1], bad)
  BY <1>t DEF PatchOf, NewOf, AskOf
<1>1. CASE Deliver
  <2>1. /\ watch # <<>> /\ slot' = <<Head(watch)>> /\ watch' = Tail(watch)
        /\ snap' = snap /\ pc' = pc /\ patch' = patch
        /\ UNCHANGED <<edited, back, stage, target, tip, app>>
    BY <1>1 DEF Deliver, argocd
  <2>2. /\ Len(watch) \in Nat /\ 1 \in DOMAIN watch /\ slot' = <<watch[1]>>
        /\ DOMAIN watch' = 1 .. (Len(watch) - 1) /\ DOMAIN watch = 1 .. Len(watch)
        /\ \A k \in DOMAIN watch' : watch'[k] = watch[k + 1]
    BY <1>o, <2>1, EmptySeq
  <2>3. \A k \in DOMAIN watch' : k + 1 \in DOMAIN watch /\ 1 < k + 1 /\ k \in Nat
    BY <2>2
  <2>4. DOMAIN slot' = {1} /\ slot'[1] = watch[1]
    BY <2>2
  <2>5. CurInOrder'
    <3>1. ASSUME NEW j \in DOMAIN watch', NEW k \in DOMAIN watch', j < k
          PROVE  Later(watch'[j], watch'[k])
      <4>1. j + 1 < k + 1
        BY <2>3, <3>1
      <4> QED
        BY <1>e, <2>2, <2>3, <4>1 DEF CurInOrder
    <3>2. \A m \in DOMAIN slot', k \in DOMAIN watch' : Later(slot'[m], watch'[k])
      BY <1>e, <2>2, <2>3, <2>4 DEF CurInOrder
    <3>3. \A m \in DOMAIN snap : /\ \A k \in DOMAIN slot' : Later(snap[m], slot'[k])
                                 /\ \A k \in DOMAIN watch' : Later(snap[m], watch'[k])
      BY <1>e, <2>2, <2>3, <2>4 DEF CurInOrder
    <3> QED
      BY <2>1, <3>1, <3>2, <3>3 DEF CurInOrder
  <2>6. Pending' \subseteq Pending
    BY <2>1, <2>2, <2>3, <2>4 DEF Pending
  <2>7. PatchMade'
    BY <1>e, <1>p, <2>1 DEF PatchMade
  <2> QED
    BY <1>s, <2>1, <2>5, <2>6, <2>7
<1>2. CASE Claim
  <2>1. /\ slot' = <<>> /\ snap' = slot /\ watch' = watch /\ pc' = "calc"
        /\ UNCHANGED <<edited, back, stage, target, tip, app>>
    BY <1>2 DEF Claim, argocd
  <2>2. CurInOrder'
    BY <1>e, <2>1 DEF CurInOrder
  <2>3. Pending' \subseteq Pending
    BY <2>1 DEF Pending
  <2> QED
    BY <1>s, <2>1, <2>2, <2>3 DEF PatchMade
<1>3. ASSUME Return, slot' = slot, watch' = watch, UNCHANGED <<edited, back, stage, target, tip, app>>
      PROVE  GrowInv'
  <2>1. CurInOrder'
    BY <1>e, <1>3 DEF CurInOrder, Return
  <2>2. Pending' \subseteq Pending
    BY <1>3 DEF Pending, Return
  <2> QED
    BY <1>3, <1>s, <2>1, <2>2 DEF PatchMade, Return
<1>4. ASSUME pc = "calc", NEW bad \in SUBSET Idx, Made(NewWithout(bad)),
             slot' = slot, watch' = watch, UNCHANGED <<edited, back, stage, target, tip, app>>
      PROVE  GrowInv'
  <2>0. MadePatch(PatchOf(snap[1], bad))
    BY <1>4, PatchOfCopy
  <2>1. CASE DOMAIN PatchOf(snap[1], bad) = {}
    BY <1>3, <1>4, <2>0, <2>1 DEF MadePatch
  <2>2. CASE DOMAIN PatchOf(snap[1], bad) # {}
    <3>1. snap' = snap /\ patch' = PatchOf(snap[1], bad)
      BY <2>0, <2>2 DEF MadePatch
    <3>2. snap[1].sources = Sources
      <4>1. 1 \in DOMAIN snap
        BY <1>4, <1>o DEF Types
      <4> QED
        BY <4>1 DEF GrowInv, Seen, Pending, Form
    <3>3. PatchMade'
      <4>1. bad \in SUBSET DOMAIN Sources
        BY <1>4, <3>2 DEF Idx
      <4> QED
        BY <1>p, <3>1, <4>1 DEF PatchMade
    <3>4. CurInOrder'
      BY <1>4, <1>e, <3>1 DEF CurInOrder
    <3>5. Pending' \subseteq Pending
      BY <1>4, <3>1 DEF Pending
    <3> QED
      BY <1>4, <1>s, <3>3, <3>4, <3>5
  <2> QED
    BY <2>1, <2>2
<1>i. Asked \subseteq Idx /\ Foreign \subseteq Idx
  BY DEF Asked, Foreign
<1>5. CASE Calculate
  BY <1>4, <1>5, <1>i DEF Calculate, argocd
<1>6. CASE CalculatePartly
  <2>1. PICK bad \in SUBSET Asked : Made(NewWithout(Foreign \cup bad))
    BY <1>6 DEF CalculatePartly
  <2>2. Foreign \cup bad \in SUBSET Idx
    BY <1>i
  <2> QED
    BY <1>4, <1>6, <2>1, <2>2 DEF CalculatePartly, argocd
<1>7. CASE CalculateFails \/ PatchFails
  BY <1>3, <1>7 DEF CalculateFails, PatchFails, argocd
<1>8. CASE Crash
  <2>1. /\ watch' = <<app>> /\ slot' = <<>> /\ snap' = <<>> /\ pc' = "idle"
        /\ UNCHANGED <<edited, back, stage, target, tip, app>>
    BY <1>8 DEF Crash, Return, argocd
  <2>2. DOMAIN watch' = {1} /\ watch'[1] = app
    BY <2>1
  <2>3. CurInOrder'
    BY <2>1, <2>2 DEF CurInOrder
  <2>4. \A x \in Pending' : x = app
    BY <2>1, <2>2 DEF Pending
  <2> QED
    BY <1>s, <2>1, <2>3, <2>4 DEF PatchMade
<1> QED
  BY <1>1, <1>2, <1>5, <1>6, <1>7, <1>8 DEF Controller, Handling

-----------------------------------------------------------------------------
(* The patch keeps the order.                                              *)

\* The annotations of one source are read from the arrays, whatever the
\* application is.
LEMMA AnnotationsRead ==
  ASSUME NEW a \in OwnApps, Form(a), NEW i \in DOMAIN Sources
  PROVE  LET r == GetSourceRevisions(a, i)
         IN  /\ r.change = SliceGetString(a.chgs, i)
             /\ r.git = SliceGetString(a.gits, i)
             /\ r.current = Cur(a, i) /\ r.previous = GetRevisions(a, i).previous
             /\ r.helm = (Sources[i] \in Helm)
<1>1. a.multi = Multi
  BY DEF OwnApps, Apps
<1>2. ~Multi => i = 1
  <2>1. Sources \in Seq(SourceIds) /\ (~Multi => Len(Sources) = 1)
    BY SourcesAssumption
  <2> QED
    BY <2>1
<1> QED
  BY <1>1, <1>2 DEF GetSourceRevisions, Form, Cur

\* The current revisions are known for all sources or for none.
LEMMA CurAllOrNone ==
  ASSUME Edits = {}, NEW a \in OwnApps, Form(a)
  PROVE  \/ \A i \in DOMAIN Sources : Cur(a, i) # Unknown
         \/ \A i \in DOMAIN Sources : Cur(a, i) = Unknown
<1>o. /\ a.operation = NoRevs(Sources) => \A i \in DOMAIN Sources : a.operation[i] = Unknown
      /\ a.operation \in RevSeqs
      /\ a.operation \notin {<<>>, NoRevs(Sources)} => a.operation \in RevsOf(Sources)
  BY DEF NoRevs, OwnApps, Apps, Own, Form
<1>1. ASSUME NEW r \in {a.syncRevs, a.result, a.operation}, NEW i \in DOMAIN Sources,
             r = a.operation => r # NoRevs(Sources)
      PROVE  /\ r # <<>> => r[i] # Unknown /\ SliceGetString(r, i) = r[i]
             /\ r = <<>> => SliceGetString(r, i) = Unknown
  <2>1. r \in RevSeqs /\ (r # <<>> => r \in RevsOf(Sources))
    BY <1>1, <1>o DEF OwnApps, Apps, Form, Resolved
  <2>2. r # <<>> => r[i] # Unknown
    <3>1. Sources[i] \in SourceIds
      BY ListsType DEF Lists
    <3>2. Unknown \notin CommitsOf[Sources[i]]
      BY <3>1, SourcesAssumption DEF Unknown
    <3> QED
      BY <2>1, <3>2 DEF RevsOf
  <2> QED
    BY <2>1, <2>2, RevSeqsFixed
<1>c. \A i \in DOMAIN Sources :
        Cur(a, i) = IF a.history # <<>> /\ a.synced /\ a.result # <<>> THEN a.result[i]
                    ELSE IF a.operation # <<>> THEN a.operation[i]
                    ELSE IF a.synced THEN SliceGetString(a.syncRevs, i) ELSE Unknown
  BY CurIs
<1>2. NoRevs(Sources) # <<>> /\ NoRevs(Sources) \notin RevsOf(Sources)
  <2>1. Sources \in Lists /\ 1 \in DOMAIN Sources
    BY ListsType DEF Lists
  <2>2. NoRevs(Sources)[1] = Unknown /\ Unknown \notin Commits
    BY <2>1, CommitsAreNats DEF NoRevs, Unknown
  <2> QED
    BY <2>1, <2>2, NoRevsType DEF RevsOf
<1>3. a.syncRevs # NoRevs(Sources) /\ a.result # NoRevs(Sources)
  BY <1>2 DEF Form, Resolved
<1> QED
  BY <1>1, <1>c, <1>o, <1>2, <1>3

\* What the handler wants of a source, if the annotations are not ahead of the
\* current revision: nothing new without one, and nothing ahead of it.
LEMMA WantedUnderCur ==
  ASSUME Types, NEW a \in OwnApps, Form(a), NEW bad, NEW i \in DOMAIN Sources,
         \A v \in Ann(a, i) : UnderCur(v, a, i)
  PROVE  LET new == NewOf(a, bad)[i]
         IN  /\ new.change \in Nat /\ new.git \in Nat
             /\ Cur(a, i) = Unknown => /\ new.change = SliceGetString(a.chgs, i)
                                       /\ new.git = SliceGetString(a.gits, i)
             /\ Cur(a, i) # Unknown => new.change <= Cur(a, i) /\ new.git = Cur(a, i)
<1> DEFINE r == GetSourceRevisions(a, i)
           v == AskOf(a, i)
           ok == i \notin bad
           new == NewOf(a, bad)[i]
<1>0. i \in DOMAIN a.sources /\ a.sources[i] \in SourceIds
  <2>1. a.sources = Sources
    BY DEF Form
  <2> QED
    BY <2>1, ListsType DEF Lists
<1>1. new.change \in Revisions /\ new.git \in Revisions
  BY <1>0, NewOfType
<1>2. /\ r.change = SliceGetString(a.chgs, i) /\ r.git = SliceGetString(a.gits, i)
      /\ r.current = Cur(a, i)
  BY AnnotationsRead
<1>3. /\ r.change \in Nat /\ r.git \in Nat /\ r.current \in Nat
      /\ r.current \in Revisions /\ r.previous \in Revisions
  BY <1>0, GetSourceRevisionsType, CommitsAreNats
<1>4. r.current # Unknown => r.change <= r.current /\ r.git <= r.current
  BY <1>2 DEF Ann, UnderCur
<1>5. v \in Nat /\ v <= r.current
  <2>1. touches[a.sources[i]] \in SUBSET Commits
    BY <1>0 DEF Types
  <2>2. /\ v = r.current \/ v = Unknown \/ v <= r.current
        /\ v \in Revisions
    <3> DEFINE T == touches[a.sources[i]]
               p == r.previous
               c == r.current
               hits == {x \in T : p < x /\ x <= c}
    <3>0. p \in Nat /\ c \in Nat /\ p \in Revisions /\ c \in Revisions /\ T \in SUBSET Commits
      BY <1>3, <2>1, CommitsAreNats
    <3>1. v = GetChangeRevision(T, p, c)
      BY DEF AskOf
    <3> HIDE DEF r, v, T, p, c
    <3>2. /\ v \in Revisions
          /\ p = Unknown => v = c
          /\ p # Unknown /\ p > c => v = c
          /\ p # Unknown /\ p < c =>
               /\ hits = {} => v = Unknown
               /\ hits # {} => v \in hits /\ \A x \in hits : v >= x
          /\ p # Unknown /\ p = c => v = IF c \in T THEN c ELSE Unknown
      BY <3>0, <3>1, GetChangeRevisionIs
    <3>3. v = c \/ v = Unknown \/ v <= c
      BY <3>0, <3>2
    <3> QED
      BY <3>2, <3>3 DEF c
  <2> HIDE DEF r, v
  <2> QED
    BY <1>3, <2>2, CommitsAreNats DEF Unknown
<1>6. new = NewRevisions(r, ok, v)
  BY <1>0 DEF NewOf
<1>7. ok \in BOOLEAN
  OBVIOUS
<1>8. new.change \in Nat /\ new.git \in Nat
  BY <1>1, CommitsAreNats
<1> HIDE DEF r, v, ok, new
<1>9. /\ new.git = IF r.current = Unknown THEN r.git ELSE r.current
      /\ new.change \in {r.git, v, r.current, r.change}
      /\ r.current = Unknown => new.change = r.change
  BY <1>6, <1>7, NewRevisionsIs
<1>10. r.current # Unknown => new.change <= r.current
  BY <1>3, <1>4, <1>5, <1>9
<1> QED
  BY <1>2, <1>8, <1>9, <1>10 DEF new

\* What the patch of a copy a makes of the application.
LEMMA PatchedIs ==
  ASSUME Types, NEW a \in OwnApps, a.sources = Sources, NEW bad
  PROVE  LET m == MergePatch(app, PatchOf(a, bad))
             want == WantedAnnotations(NewOf(a, bad))
         IN  /\ m.sources = app.sources /\ m.history = app.history /\ m.synced = app.synced
             /\ m.syncRevs = app.syncRevs /\ m.operation = app.operation
             /\ m.result = app.result
             /\ m.chg = IF a.chg # want.chg THEN want.chg ELSE app.chg
             /\ m.chgs = IF a.chgs # want.chgs THEN want.chgs ELSE app.chgs
             /\ m.git = IF a.git # want.git THEN want.git ELSE app.git
             /\ m.gits = IF a.gits # want.gits THEN want.gits ELSE app.gits
             /\ want.chg = NewOf(a, bad)[1].change /\ want.git = NewOf(a, bad)[1].git
             /\ want.chgs \in RevSeqs /\ want.chgs # <<>>
             /\ want.gits \in RevSeqs /\ want.gits # <<>>
             /\ \A i \in DOMAIN Sources :
                  /\ want.chgs[i] = NewOf(a, bad)[i].change
                  /\ want.gits[i] = NewOf(a, bad)[i].git
<1> DEFINE new == NewOf(a, bad)
           want == WantedAnnotations(new)
           p == PatchOf(a, bad)
           m == MergePatch(app, p)
<1>1. p = [k \in {key \in AnnotationKeys : a[key] # want[key]} |-> want[k]]
  BY DEF PatchOf, MakeAnnotationPatch
<1>2. DOMAIN p \subseteq AnnotationKeys /\ \A k \in DOMAIN p : p[k] \in AnnotationType(k)
  BY PatchOfType
<1>3. app \in Apps /\ a \in Apps
  BY DEF Types, OwnApps
<1>4. DOMAIN new = DOMAIN Sources /\ Sources \in Lists /\ 1 \in DOMAIN Sources
  BY ListsType DEF NewOf, Lists
<1>5. \A i \in DOMAIN Sources : new[i].change \in Revisions /\ new[i].git \in Revisions
  BY NewOfType
<1> HIDE DEF new
<1>6. /\ want.chg = new[1].change /\ want.git = new[1].git
      /\ want.chgs = [i \in DOMAIN Sources |-> new[i].change]
      /\ want.gits = [i \in DOMAIN Sources |-> new[i].git]
  BY <1>4 DEF WantedAnnotations
<1> HIDE DEF want, p
<1>7. /\ want.chgs \in RevSeqs /\ want.gits \in RevSeqs
  BY <1>4, <1>5, <1>6, RevSeqsIntro
<1>8. want.chgs # <<>> /\ want.gits # <<>>
  BY <1>4, <1>6
<1>9. /\ m.sources = app.sources /\ m.history = app.history /\ m.synced = app.synced
      /\ m.syncRevs = app.syncRevs /\ m.operation = app.operation /\ m.result = app.result
      /\ m.chg = IF "chg" \in DOMAIN p THEN p["chg"] ELSE app.chg
      /\ m.chgs = IF "chgs" \in DOMAIN p THEN p["chgs"] ELSE app.chgs
      /\ m.git = IF "git" \in DOMAIN p THEN p["git"] ELSE app.git
      /\ m.gits = IF "gits" \in DOMAIN p THEN p["gits"] ELSE app.gits
  BY <1>2, <1>3, MergePatchIs
<1> HIDE DEF m
<1>10. /\ m.chg = IF a.chg # want.chg THEN want.chg ELSE app.chg
       /\ m.chgs = IF a.chgs # want.chgs THEN want.chgs ELSE app.chgs
       /\ m.git = IF a.git # want.git THEN want.git ELSE app.git
       /\ m.gits = IF a.gits # want.gits THEN want.gits ELSE app.gits
  BY <1>1, <1>9 DEF AnnotationKeys
<1>11. \A i \in DOMAIN Sources : want.chgs[i] = new[i].change /\ want.gits[i] = new[i].git
  BY <1>6
<1> QED
  BY <1>6, <1>7, <1>8, <1>9, <1>10, <1>11 DEF m, p, want, new

\* The plain annotation and the array of a single source are patched together.
LEMMA PatchedTogether ==
  ASSUME Edits = {}, ~Multi, NEW old \in Revisions \cup {Absent}, NEW olds \in RevSeqs,
         AnnotationValue(old) = SliceGetString(olds, 1), old = Absent <=> olds = <<>>,
         NEW want \in Revisions, NEW wants \in RevSeqs, wants # <<>>, wants[1] = want
  PROVE  (old # want) <=> (olds # wants)
<1>1. DOMAIN Sources = {1}
  <2>1. Sources \in Seq(SourceIds) /\ Len(Sources) = 1
    BY SourcesAssumption
  <2> QED
    BY <2>1
<1>2. wants \in [{1} -> Revisions]
  BY <1>1, RevSeqsFixed
<1>3. want # Absent
  BY CommitsAreNats DEF Absent
<1>4. CASE olds = <<>>
  BY <1>3, <1>4
<1>5. CASE olds # <<>>
  <2>1. olds \in [{1} -> Revisions] /\ SliceGetString(olds, 1) = olds[1]
    BY <1>1, <1>5, RevSeqsFixed
  <2>2. old = olds[1]
    BY <1>5, <2>1 DEF AnnotationValue
  <2>3. olds = wants <=> olds[1] = wants[1]
    BY <1>2, <2>1
  <2> QED
    BY <2>2, <2>3
<1> QED
  BY <1>4, <1>5

\* The patch is the step on which the order depends: it writes what was made
\* of an outdated copy over the annotations of now.
LEMMA PatchGrows ==
  ASSUME Edits = {}, Types, Types', GrowInv, Patch
  PROVE  GrowInv'
<1> DEFINE q == snap[1]
<1>o. /\ watch \in Seq(OwnApps) /\ slot \in Seq(OwnApps) /\ snap \in Seq(OwnApps)
      /\ pc = "patch" /\ Len(snap) = 1 /\ app \in OwnApps /\ app' \in OwnApps
  BY DEF Types, Patch
<1>q. 1 \in DOMAIN snap /\ DOMAIN snap = {1} /\ q \in OwnApps /\ q \in Pending
  <2>1. 1 \in DOMAIN snap /\ DOMAIN snap = {1}
    BY <1>o
  <2>2. snap[1] \in OwnApps
    BY <1>o, OneElement
  <2> QED
    BY <2>1, <2>2 DEF Pending
<1>y. /\ Seen \subseteq OwnApps /\ Pending \subseteq Seen /\ app \in Seen /\ q \in Seen
      /\ Form(q) /\ Form(app) /\ \A a \in Seen : Form(a)
  BY <1>q, SeenTypes DEF Seen, GrowInv
<1>s. q.sources = Sources /\ app.sources = Sources
  BY <1>y DEF Form
<1>b. PICK bad \in SUBSET DOMAIN Sources : patch = PatchOf(q, bad)
  BY <1>o DEF GrowInv, PatchMade
<1> DEFINE new == NewOf(q, bad)
           want == WantedAnnotations(new)
<1>u. /\ app' = MergePatch(app, patch) /\ snap' = <<>> /\ slot' = slot /\ pc' = "idle"
      /\ watch' = watch \/ watch' = Append(watch, app')
      /\ UNCHANGED <<touches, tip, edited, back, stage, target>>
  BY DEF Patch, Store, Return, argocd
<1>m. /\ app'.sources = Sources /\ app'.history = app.history /\ app'.synced = app.synced
      /\ app'.syncRevs = app.syncRevs /\ app'.operation = app.operation
      /\ app'.result = app.result
      /\ app'.chg = IF q.chg # want.chg THEN want.chg ELSE app.chg
      /\ app'.chgs = IF q.chgs # want.chgs THEN want.chgs ELSE app.chgs
      /\ app'.git = IF q.git # want.git THEN want.git ELSE app.git
      /\ app'.gits = IF q.gits # want.gits THEN want.gits ELSE app.gits
  BY <1>b, <1>q, <1>s, <1>u, PatchedIs
<1>z. Aim' = Aim
  BY <1>m, <1>u DEF Aim
<1>w. /\ want.chg = new[1].change /\ want.git = new[1].git
      /\ want.chgs \in RevSeqs /\ want.chgs # <<>>
      /\ want.gits \in RevSeqs /\ want.gits # <<>>
      /\ \A i \in DOMAIN Sources : want.chgs[i] = new[i].change /\ want.gits[i] = new[i].git
  BY <1>q, <1>s, PatchedIs
<1>g. \A i \in DOMAIN Sources : /\ SliceGetString(want.chgs, i) = new[i].change
                                /\ SliceGetString(want.gits, i) = new[i].git
  BY <1>w, RevSeqsFixed
<1>c. \A i \in DOMAIN Sources : Cur(app', i) = Cur(app, i)
  BY <1>o, <1>m, CurIs
<1>a. \A a \in Seen, i \in DOMAIN Sources :
        /\ SliceGetString(a.chgs, i) \in Nat /\ SliceGetString(a.gits, i) \in Nat
        /\ \A v \in Ann(a, i) : v \in Nat /\ UnderCur(v, q, i)
  BY <1>q, <1>y, AnnType DEF GrowInv, AnnotatedBefore
<1>k. \A i \in DOMAIN Sources : Cur(q, i) \in Nat
  BY <1>q, <1>s, CurType
<1>n. ASSUME NEW i \in DOMAIN Sources
      PROVE  /\ new[i].change \in Nat /\ new[i].git \in Nat
             /\ Cur(q, i) = Unknown => /\ new[i].change = SliceGetString(q.chgs, i)
                                       /\ new[i].git = SliceGetString(q.gits, i)
             /\ Cur(q, i) # Unknown => new[i].change <= Cur(q, i) /\ new[i].git = Cur(q, i)
  <2>1. \A v \in Ann(q, i) : UnderCur(v, q, i)
    BY <1>a, <1>y
  <2> QED
    BY <1>q, <1>y, <2>1, WantedUnderCur
<1> HIDE DEF q, new, want
<1>U. ASSUME NEW j \in DOMAIN Sources, Cur(q, j) = Unknown
      PROVE  /\ q.chgs # want.chgs => \A i \in DOMAIN Sources : new[i].change = Unknown
             /\ q.gits # want.gits => \A i \in DOMAIN Sources : new[i].git = Unknown
  <2>1. \A i \in DOMAIN Sources : Cur(q, i) = Unknown
    BY <1>q, <1>U, <1>y, CurAllOrNone
  <2>2. q.chgs \in RevSeqs /\ q.gits \in RevSeqs
    BY <1>q DEF OwnApps, Apps
  <2>3. ASSUME NEW r \in RevSeqs, NEW x \in RevSeqs, x # <<>>,
               \A i \in DOMAIN Sources : x[i] = SliceGetString(r, i)
        PROVE  r # x => \A i \in DOMAIN Sources : x[i] = Unknown
    <3>1. CASE r = <<>>
      BY <2>3, <3>1 DEF SliceGetString
    <3>2. CASE r # <<>>
      <4>1. r \in [DOMAIN Sources -> Revisions] /\ x \in [DOMAIN Sources -> Revisions]
        BY <2>3, <3>2, RevSeqsFixed
      <4>2. \A i \in DOMAIN Sources : x[i] = r[i]
        BY <2>3, <3>2, RevSeqsFixed
      <4>3. r = x
        BY <4>1, <4>2
      <4> QED
        BY <4>3
    <3> QED
      BY <3>1, <3>2
  <2>4. /\ \A i \in DOMAIN Sources : want.chgs[i] = SliceGetString(q.chgs, i)
        /\ \A i \in DOMAIN Sources : want.gits[i] = SliceGetString(q.gits, i)
    BY <1>n, <1>w, <2>1
  <2> QED
    BY <1>w, <2>2, <2>3, <2>4
<1>V. ASSUME NEW i \in DOMAIN Sources, NEW v \in Ann(app', i)
      PROVE  /\ v \in Nat
             /\ \/ v \in Ann(app, i) \/ v \in Ann(q, i)
                \/ Cur(q, i) # Unknown /\ v <= Cur(q, i)
  <2>1. CASE v = SliceGetString(app'.chgs, i)
    <3>1. v = new[i].change \/ v = SliceGetString(app.chgs, i)
      BY <1>g, <1>m, <2>1
    <3> QED
      BY <1>a, <1>n, <1>y, <3>1 DEF Ann
  <2>2. CASE v = SliceGetString(app'.gits, i)
    <3>1. v = new[i].git \/ v = SliceGetString(app.gits, i)
      BY <1>g, <1>m, <2>2
    <3> QED
      BY <1>a, <1>k, <1>n, <1>y, <3>1 DEF Ann
  <2> QED
    BY <2>1, <2>2 DEF Ann
<1>L. ASSUME NEW i \in DOMAIN Sources, NEW v \in Nat, NEW u \in Nat, v <= u
      PROVE  /\ UnderCeiling(tip, app, Aim, u, i) => UnderCeiling(tip, app, Aim, v, i)
             /\ UnderCeiling(tip, app, Aim, v, i) => UnderCeiling(tip', app', Aim', v, i)
             /\ \A x \in Seen : UnderCur(u, x, i) => UnderCur(v, x, i)
  <2>1. tip[Sources[i]] \in Nat /\ (Aim # <<>> => Aim[i] \in Nat)
    <3>1. Aim \in RevSeqs
      <4>1. Sources \in Lists
        BY DEF Lists
      <4> QED
        BY <1>o, <1>s, <4>1, RevsOfType DEF Aim, OwnApps, Apps, Types, SyncTypes
    <3>2. Sources[i] \in SourceIds
      BY ListsType DEF Lists
    <3> QED
      BY <3>1, <3>2, RevSeqsFixed, CommitsAreNats DEF Types
  <2>2. \A x \in Seen : Cur(x, i) \in Nat
    BY <1>y, CurType DEF Form
  <2> QED
    BY <1>L, <1>c, <1>u, <1>y, <1>z, <2>1, <2>2 DEF UnderCeiling, UnderCur
<1>C. \A x \in Seen, i \in DOMAIN Sources : \A v \in Ann(x, i) \cup {Cur(x, i)} :
        v \in Nat /\ UnderCeiling(tip, app, Aim, v, i) /\ UnderCeiling(tip', app', Aim', v, i)
  <2>1. ASSUME NEW x \in Seen, NEW i \in DOMAIN Sources, NEW v \in Ann(x, i) \cup {Cur(x, i)}
        PROVE  v \in Nat /\ UnderCeiling(tip, app, Aim, v, i)
    <3>1. Cur(x, i) \in Nat
      BY <1>y, CurType DEF Form
    <3> QED
      BY <1>a, <3>1 DEF GrowInv, CeilingHolds
  <2>2. \A v \in Nat : v <= v
    OBVIOUS
  <2> QED
    BY <1>L, <2>1, <2>2
<1>P. /\ \A k \in DOMAIN watch' : \/ k \in DOMAIN watch /\ watch'[k] = watch[k]
                                  \/ watch'[k] = app' /\ \A j \in DOMAIN watch' : j <= k
      /\ DOMAIN watch' \subseteq Nat /\ DOMAIN snap' = {}
  <2>1. DOMAIN snap' = {}
    BY <1>u
  <2>2. CASE watch' = watch
    BY <1>o, <2>1, <2>2
  <2>3. CASE watch' = Append(watch, app')
    BY <1>o, <2>1, <2>3
  <2> QED
    BY <1>u, <2>2, <2>3
<1>R. ASSUME NEW x \in Pending'
      PROVE  x = app' \/ (x \in Pending /\ Later(q, x))
  <2>1. \A k \in DOMAIN slot : slot[k] \in Pending /\ Later(q, slot[k])
    BY <1>q DEF GrowInv, CurInOrder, Pending, q
  <2>2. \A k \in DOMAIN watch : watch[k] \in Pending /\ Later(q, watch[k])
    BY <1>q DEF GrowInv, CurInOrder, Pending, q
  <2> QED
    BY <1>P, <1>u, <2>1, <2>2 DEF Pending
<1>1. \A a \in Seen' : Form(a)
  <2>1. Resolved(app')
    BY <1>m, <1>y DEF Form, Resolved
  <2>2. ASSUME ~Multi
        PROVE  /\ AnnotationValue(app'.chg) = SliceGetString(app'.chgs, 1)
               /\ AnnotationValue(app'.git) = SliceGetString(app'.gits, 1)
               /\ app'.chg = Absent <=> app'.chgs = <<>>
               /\ app'.git = Absent <=> app'.gits = <<>>
    <3>1. 1 \in DOMAIN Sources
      BY ListsType DEF Lists
    <3>2. /\ want.chg \in Revisions /\ want.git \in Revisions
          /\ want.chg # Absent /\ want.git # Absent
      <4>1. new[1].change \in Revisions /\ new[1].git \in Revisions
        BY <1>q, <1>s, <3>1, NewOfType DEF new
      <4> QED
        BY <1>w, <4>1, CommitsAreNats DEF Absent
    <3>3. /\ q.chg \in Revisions \cup {Absent} /\ q.chgs \in RevSeqs
          /\ q.git \in Revisions \cup {Absent} /\ q.gits \in RevSeqs
      BY <1>q DEF OwnApps, Apps
    <3>4. /\ AnnotationValue(q.chg) = SliceGetString(q.chgs, 1)
          /\ AnnotationValue(q.git) = SliceGetString(q.gits, 1)
          /\ q.chg = Absent <=> q.chgs = <<>>
          /\ q.git = Absent <=> q.gits = <<>>
      BY <1>y, <2>2 DEF Form
    <3>5. (q.chg # want.chg) <=> (q.chgs # want.chgs)
      BY <1>w, <2>2, <3>1, <3>2, <3>3, <3>4, PatchedTogether
    <3>6. (q.git # want.git) <=> (q.gits # want.gits)
      BY <1>w, <2>2, <3>1, <3>2, <3>3, <3>4, PatchedTogether
    <3>7. /\ AnnotationValue(app.chg) = SliceGetString(app.chgs, 1)
          /\ AnnotationValue(app.git) = SliceGetString(app.gits, 1)
          /\ app.chg = Absent <=> app.chgs = <<>>
          /\ app.git = Absent <=> app.gits = <<>>
      BY <1>y, <2>2 DEF Form
    <3> QED
      BY <1>g, <1>m, <1>w, <3>1, <3>2, <3>5, <3>6, <3>7 DEF AnnotationValue
  <2>3. Form(app')
    BY <1>m, <2>1, <2>2 DEF Form
  <2> QED
    BY <1>R, <1>y, <2>3 DEF Seen
<1>2. CurInOrder'
  <2>1. \A x \in Seen : Later(x, app')
    BY <1>C DEF Later, UnderCeiling
  <2>2. /\ \A k \in DOMAIN slot : slot[k] \in Seen
        /\ \A k \in DOMAIN watch : watch[k] \in Seen
    BY DEF Seen, Pending
  <2>3. ASSUME NEW j \in DOMAIN watch', NEW k \in DOMAIN watch', j < k
        PROVE  Later(watch'[j], watch'[k])
    <3>1. j \in DOMAIN watch /\ watch'[j] = watch[j]
      BY <1>P, <2>3
    <3>2. CASE k \in DOMAIN watch /\ watch'[k] = watch[k]
      BY <2>3, <3>1, <3>2 DEF GrowInv, CurInOrder
    <3>3. CASE watch'[k] = app'
      BY <2>1, <2>2, <3>1, <3>3
    <3> QED
      BY <1>P, <3>2, <3>3
  <2>4. ASSUME NEW h \in DOMAIN slot, NEW k \in DOMAIN watch'
        PROVE  Later(slot[h], watch'[k])
    BY <1>P, <2>1, <2>2 DEF GrowInv, CurInOrder
  <2> QED
    BY <1>P, <1>u, <2>3, <2>4 DEF CurInOrder
<1>3. TipIsTop'
  BY <1>u, <1>z DEF GrowInv, TipIsTop
<1>4. CeilingHolds'
  <2>1. ASSUME NEW a \in Seen', NEW i \in DOMAIN Sources, NEW v \in Ann(a, i) \cup {Cur(a, i)}
        PROVE  UnderCeiling(tip', app', Aim', v, i)
    <3>1. CASE a \in Seen
      BY <1>C, <2>1, <3>1
    <3>2. CASE a = app' /\ v = Cur(app', i)
      BY <1>C, <1>c, <1>y, <3>2
    <3>3. CASE a = app' /\ v \in Ann(app', i)
      <4>1. CASE v \in Ann(app, i) \/ v \in Ann(q, i)
        BY <1>C, <1>y, <4>1
      <4>2. CASE Cur(q, i) # Unknown /\ v <= Cur(q, i)
        <5>1. v \in Nat
          BY <1>V, <3>3
        <5> QED
          BY <1>C, <1>L, <1>k, <1>y, <4>2, <5>1
      <4> QED
        BY <1>V, <3>3, <4>1, <4>2
    <3> QED
      BY <1>R, <1>y, <2>1, <3>1, <3>2, <3>3 DEF Seen
  <2> QED
    BY <2>1 DEF CeilingHolds
<1>5. AnnotatedBefore'
  <2>1. ASSUME NEW a \in Seen', NEW x \in Pending', NEW i \in DOMAIN Sources, NEW v \in Ann(a, i)
        PROVE  UnderCur(v, x, i)
    <3>1. CASE x = app'
      BY <1>4, <2>1, <3>1 DEF CeilingHolds, UnderCeiling
    <3>2. CASE x \in Pending /\ Later(q, x)
      <4>1. CASE a \in Seen
        BY <2>1, <3>2, <4>1 DEF GrowInv, AnnotatedBefore
      <4>2. CASE a = app' /\ (v \in Ann(app, i) \/ v \in Ann(q, i))
        BY <1>y, <3>2, <4>2 DEF GrowInv, AnnotatedBefore
      <4>3. CASE a = app' /\ v <= Cur(q, i)
        <5>1. v \in Nat
          BY <1>V, <2>1, <4>3
        <5>2. UnderCur(Cur(q, i), x, i)
          BY <3>2 DEF Later
        <5> QED
          BY <1>L, <1>k, <1>y, <3>2, <4>3, <5>1, <5>2
      <4> QED
        BY <1>R, <1>V, <1>y, <2>1, <4>1, <4>2, <4>3 DEF Seen
    <3> QED
      BY <1>R, <2>1, <3>1, <3>2
  <2> QED
    BY <2>1 DEF AnnotatedBefore
<1>6. GitGrows'
  <2>1. ASSUME NEW x \in Pending', NEW i \in DOMAIN Sources,
               SliceGetString(app'.gits, i) # Unknown
        PROVE  SliceGetString(x.gits, i) <= SliceGetString(app'.gits, i)
    <3>1. CASE x = app'
      <4>1. SliceGetString(app'.gits, i) \in Nat
        BY <1>o, AnnType
      <4> QED
        BY <3>1, <4>1
    <3>2. CASE x \in Pending /\ q.gits = want.gits
      BY <1>m, <2>1, <3>2 DEF GrowInv, GitGrows
    <3>3. CASE x \in Pending /\ q.gits # want.gits
      <4>1. SliceGetString(app'.gits, i) = new[i].git
        BY <1>g, <1>m, <3>3
      <4>2. Cur(q, i) # Unknown
        BY <1>U, <2>1, <3>3, <4>1
      <4>3. UnderCur(SliceGetString(x.gits, i), q, i)
        BY <1>a, <1>y, <3>3 DEF Ann
      <4> QED
        BY <1>n, <4>1, <4>2, <4>3 DEF UnderCur
    <3> QED
      BY <1>R, <3>1, <3>2, <3>3
  <2> QED
    BY <2>1 DEF GitGrows
<1>7. PatchMade'
  BY <1>u DEF PatchMade
<1>8. NeverAhead'
  <2>1. ASSUME NEW i \in DOMAIN Sources, SliceGetString(app'.gits, i) # Unknown
        PROVE  SliceGetString(app'.chgs, i) <= SliceGetString(app'.gits, i)
    <3>1. /\ SliceGetString(app'.chgs, i) \in {new[i].change, SliceGetString(app.chgs, i)}
          /\ q.chgs = want.chgs => app'.chgs = app.chgs
          /\ q.chgs # want.chgs => SliceGetString(app'.chgs, i) = new[i].change
          /\ q.gits = want.gits => app'.gits = app.gits
          /\ q.gits # want.gits => SliceGetString(app'.gits, i) = new[i].git
      BY <1>g, <1>m
    <3>2. CASE Cur(q, i) # Unknown
      <4>1. SliceGetString(app'.chgs, i) <= Cur(q, i) /\ SliceGetString(app'.chgs, i) \in Nat
        <5>1. SliceGetString(app.chgs, i) <= Cur(q, i) /\ SliceGetString(app.chgs, i) \in Nat
          BY <1>a, <1>y, <3>2 DEF Ann, UnderCur
        <5> QED
          BY <1>n, <3>1, <3>2, <5>1
      <4>2. CASE q.gits # want.gits
        BY <1>n, <3>1, <3>2, <4>1, <4>2
      <4>3. CASE q.gits = want.gits
        <5>1. SliceGetString(q.gits, i) = Cur(q, i)
          BY <1>g, <1>n, <3>2, <4>3
        <5>2. SliceGetString(q.gits, i) <= SliceGetString(app.gits, i)
          BY <1>q, <2>1, <3>1, <4>3 DEF GrowInv, GitGrows
        <5>3. SliceGetString(app.gits, i) \in Nat
          BY <1>a, <1>y
        <5> QED
          BY <1>k, <3>1, <4>1, <4>3, <5>1, <5>2, <5>3
      <4> QED
        BY <4>2, <4>3
    <3>3. CASE Cur(q, i) = Unknown
      <4>1. q.gits = want.gits
        BY <1>U, <2>1, <3>1, <3>3
      <4>2. SliceGetString(app.gits, i) \in Nat /\ app'.gits = app.gits
        BY <1>a, <1>y, <3>1, <4>1
      <4>3. CASE q.chgs # want.chgs
        <5>1. SliceGetString(app'.chgs, i) = 0
          BY <1>U, <3>1, <3>3, <4>3 DEF Unknown
        <5> QED
          BY <4>2, <5>1
      <4>4. CASE q.chgs = want.chgs
        BY <1>s, <2>1, <3>1, <4>2, <4>4 DEF GrowInv, NeverAhead, Annotated
      <4> QED
        BY <4>3, <4>4
    <3> QED
      BY <3>2, <3>3
  <2> QED
    BY <1>m, <2>1 DEF NeverAhead, Annotated
<1>9. ~edited' /\ ~back' /\ ChartsUntouched'
  BY <1>u DEF GrowInv, ChartsUntouched
<1> QED
  BY <1>1, <1>2, <1>3, <1>4, <1>5, <1>6, <1>7, <1>8, <1>9 DEF GrowInv

-----------------------------------------------------------------------------
(* What follows: neither annotation runs ahead, or goes back.              *)

\* The invariant holds initially.
LEMMA InitGrow ==
  ASSUME Init
  PROVE  GrowInv
<1> DEFINE first == [i \in DOMAIN Sources |-> Min(CommitsOf[Sources[i]])]
<1>0. Types
  BY InitTypes
<1>1. /\ watch = <<app>> /\ slot = <<>> /\ snap = <<>> /\ pc = "idle" /\ edited = FALSE
      /\ stage = "none" /\ back = FALSE
      /\ tip = [s \in SourceIds |-> Min(CommitsOf[s])]
      /\ app = NewApp \/ app = SettledApp
  BY DEF Init
<1>2. DOMAIN watch = {1} /\ watch[1] = app /\ DOMAIN slot = {} /\ DOMAIN snap = {}
  BY <1>1
<1>3. Pending = {app} /\ Seen = {app}
  BY <1>2 DEF Pending, Seen
<1>4. /\ first \in RevsOf(Sources) /\ first \in RevSeqs /\ first # <<>>
      /\ \A i \in DOMAIN Sources : SliceGetString(first, i) = first[i] /\ first[i] \in Nat
  <2>1. first \in RevsOf(Sources) /\ Sources \in Lists
    BY FirstRevisions DEF Lists
  <2>2. first \in RevSeqs /\ first # <<>>
        /\ \A i \in DOMAIN Sources : SliceGetString(first, i) = first[i]
    BY <2>1, RevsOfType
  <2>3. \A i \in DOMAIN Sources : first[i] \in Nat
    BY <2>1, CommitsAreNats DEF RevsOf
  <2> QED
    BY <2>1, <2>2, <2>3
<1>5. \A i \in DOMAIN Sources : tip[Sources[i]] = first[i]
  <2>1. \A i \in DOMAIN Sources : Sources[i] \in SourceIds
    BY ListsType DEF Lists
  <2> QED
    BY <1>1, <2>1
<1>6. SettledApp = [NewApp EXCEPT
         !.history = <<[sources |-> Sources, revs |-> first]>>, !.synced = TRUE,
         !.syncRevs = first, !.result = first,
         !.chg = first[1], !.chgs = first, !.git = first[1], !.gits = first]
  BY DEF SettledApp
<1>7. 1 \in DOMAIN Sources
  BY ListsType DEF Lists
<1> HIDE DEF first
<1>8. /\ app.sources = Sources /\ app.operation = <<>>
      /\ \/ /\ app.history = <<>> /\ app.synced = FALSE /\ app.syncRevs = <<>>
            /\ app.result = <<>> /\ app.chg = Absent /\ app.git = Absent
            /\ app.chgs = <<>> /\ app.gits = <<>>
         \/ /\ Len(app.history) = 1 /\ app.synced = TRUE /\ app.syncRevs = first
            /\ app.result = first /\ app.chg = first[1] /\ app.git = first[1]
            /\ app.chgs = first /\ app.gits = first
  <2>1. CASE app = NewApp
    BY <2>1 DEF NewApp
  <2>2. CASE app = SettledApp
    BY <1>6, <2>2 DEF NewApp
  <2> QED
    BY <1>1, <2>1, <2>2
<1>9. ASSUME NEW i \in DOMAIN Sources
      PROVE  /\ Cur(app, i) \in {Unknown, first[i]}
             /\ SliceGetString(app.chgs, i) = SliceGetString(app.gits, i)
             /\ SliceGetString(app.chgs, i) \in {Unknown, first[i]}
  <2>1. \A j : SliceGetString(<<>>, j) = Unknown
    BY DEF SliceGetString
  <2>2. CASE app.history = <<>> /\ app.synced = FALSE /\ app.chgs = <<>> /\ app.gits = <<>>
    BY <1>8, <2>1, <2>2
       DEF Cur, GetRevisions, GetCurrentRevisionForFirstSync
  <2>3. CASE /\ Len(app.history) = 1 /\ app.synced = TRUE /\ app.result = first
             /\ app.chgs = first /\ app.gits = first
    BY <1>4, <2>3 DEF Cur, GetRevisions
  <2> QED
    BY <1>8, <2>2, <2>3
<1>10. Form(app)
  <2>1. Resolved(app)
    BY <1>4, <1>8 DEF Resolved
  <2>2. SliceGetString(<<>>, 1) = Unknown
    BY DEF SliceGetString
  <2>3. /\ AnnotationValue(app.chg) = SliceGetString(app.chgs, 1)
        /\ AnnotationValue(app.git) = SliceGetString(app.gits, 1)
        /\ app.chg = Absent <=> app.chgs = <<>>
        /\ app.git = Absent <=> app.gits = <<>>
    BY <1>4, <1>7, <1>8, <2>2 DEF AnnotationValue, Absent
  <2> QED
    BY <1>8, <2>1, <2>3 DEF Form
<1>11. CurInOrder
  BY <1>2 DEF CurInOrder
<1>12. TipIsTop
  <2>1. Aim = <<>> \/ Aim = first
    BY <1>1, <1>8 DEF Aim
  <2> QED
    BY <1>4, <1>5, <2>1 DEF TipIsTop
<1>u. ASSUME NEW i \in DOMAIN Sources, NEW v \in {Unknown, first[i]}
      PROVE  UnderCeiling(tip, app, Aim, v, i)
  <2>1. /\ Aim = app.result /\ first[i] \in Nat /\ tip[Sources[i]] = first[i] /\ Cur(app, i) \in {Unknown, first[i]}
        /\ (app.result = <<>> \/ app.result = first)
    BY <1>1, <1>4, <1>5, <1>8, <1>9 DEF Aim
  <2> QED
    BY <2>1 DEF UnderCeiling, UnderCur, Unknown
<1>13. CeilingHolds
  BY <1>3, <1>9, <1>u DEF CeilingHolds, Ann
<1>14. AnnotatedBefore
  BY <1>3, <1>13 DEF AnnotatedBefore, CeilingHolds, UnderCeiling
<1>15. GitGrows /\ NeverAhead
  <2>1. \A i \in DOMAIN Sources : SliceGetString(app.gits, i) <= SliceGetString(app.gits, i)
    BY <1>4, <1>9 DEF Unknown
  <2> QED
    BY <1>3, <1>8, <1>9, <2>1 DEF GitGrows, NeverAhead, Annotated
<1>16. ChartsUntouched
  BY DEF Init, ChartsUntouched
<1> QED
  BY <1>1, <1>3, <1>10, <1>11, <1>12, <1>13, <1>14, <1>15, <1>16 DEF GrowInv, PatchMade

\* Whoever has gone back to an older revision has done so for good.
LEMMA BackStays ==
  ASSUME back, [Next]_vars
  PROVE  back'
<1>1. CASE ArgoCD
  BY <1>1 DEF ArgoCD, Adopt, StartSync, ShowResult, RecordSync, FinishSync, FailSync, Refresh,
              EditSources, Recompare, Resolve
<1>2. CASE Controller \/ Crash
  BY <1>2 DEF Controller, Crash, Deliver, Claim, Handling, Calculate, CalculatePartly,
              CalculateFails, Patch, PatchFails, argocd
<1> QED
  BY <1>1, <1>2 DEF Next, vars

\* Every step keeps it, while the sources are not edited and no older revision
\* is gone back to.
LEMMA StepGrow ==
  ASSUME Edits = {}, IInv, IInv', GrowInv, [Next]_vars, ~back'
  PROVE  GrowInv'
<1>t. Types /\ Types' /\ SyncStages
  BY DEF IInv
<1>1. CASE UNCHANGED vars
  <2>1. Pending' = Pending /\ CurInOrder'
    BY <1>1 DEF vars, Pending, CurInOrder, GrowInv
  <2>2. PatchMade'
    BY <1>1, SamePatch DEF vars, PatchMade, GrowInv
  <2>3. \A a \in Seen : \A i \in DOMAIN Sources : \A v \in Ann(a, i) : v \in Nat
    BY <1>t, SeenTypes, AnnType
  <2>4. UNCHANGED <<touches, edited, back, stage, target, tip, app>>
    BY <1>1 DEF vars
  <2>5. Pending' \subseteq Seen /\ \A x \in Pending' \ Pending : x = app
    BY <2>1 DEF Seen
  <2> QED
    BY <2>1, <2>2, <2>3, <2>4, <2>5, SameAppGrows
<1>2. CASE ArgoCD
  BY <1>2, <1>t, ArgoCDGrows
<1>3. CASE Patch
  BY <1>3, <1>t, PatchGrows
<1>4. CASE (Controller \/ Crash) /\ ~Patch
  BY <1>4, <1>t, ControllerGrows
<1> QED
  BY <1>1, <1>2, <1>3, <1>4 DEF Next

\* As long as the sources are not edited and no older revision is gone back to,
\* all of the invariant holds.
LEMMA Growing ==
  ASSUME Edits = {}
  PROVE  Spec => [](IInv /\ (back \/ GrowInv))
<1>1. Init => back \/ GrowInv
  BY InitGrow
<1>2. IInv /\ IInv' /\ (back \/ GrowInv) /\ [Next]_vars => (back \/ GrowInv)'
  BY StepGrow, BackStays
<1> QED
  BY <1>1, <1>2, Invariance, PTL DEF Spec

\* However many syncs overtake the controller, whichever objects in the course
\* of a sync it gets to see, whatever fails and whenever it restarts: the change
\* revision of a source is never newer than the git revision next to it, unless
\* an older revision is gone back to.
THEOREM ChangeNeverAhead == Edits = {} => (Spec => []NeverAhead)
<1> SUFFICES ASSUME Edits = {}
             PROVE  Spec => []NeverAhead
  OBVIOUS
<1>1. back \/ GrowInv => NeverAhead
  BY DEF GrowInv, NeverAhead
<1> QED
  BY <1>1, Growing, PTL

\* A change revision computed for a copy is not older than a commit that
\* touched the source and that the copy's current revision includes.
LEMMA AnswerNotOlder ==
  ASSUME NEW T \in SUBSET Commits, NEW p \in Revisions, NEW c \in Revisions,
         NEW x \in T, x <= c, GetChangeRevision(T, p, c) # Unknown
  PROVE  GetChangeRevision(T, p, c) >= x
<1> DEFINE v == GetChangeRevision(T, p, c)
           hits == {y \in T : p < y /\ y <= c}
<1>0. p \in Nat /\ c \in Nat /\ x \in Nat
  BY CommitsAreNats
<1>1. CASE p = Unknown \/ p > c \/ p = c
  <2>1. v = c
    BY <1>0, <1>1, GetChangeRevisionIs
  <2> QED
    BY <1>0, <2>1
<1>2. CASE p # Unknown /\ p < c
  <2>1. /\ hits = {} => v = Unknown
        /\ hits # {} => v \in hits /\ \A y \in hits : v >= y
        /\ v \in Revisions
    BY <1>2, GetChangeRevisionIs
  <2> HIDE DEF v
  <2>2. v \in hits /\ \A y \in hits : v >= y
    BY <2>1 DEF v
  <2>3. v \in Nat
    BY <2>1, CommitsAreNats
  <2>4. CASE p < x
    BY <2>2, <2>4 DEF v
  <2>5. CASE ~(p < x)
    BY <1>0, <2>2, <2>3, <2>5 DEF v
  <2> QED
    BY <2>4, <2>5
<1> QED
  BY <1>0, <1>1, <1>2

\* No step puts an older change revision in the place of a commit that changed
\* the application.
LEMMA ChangeGrows ==
  ASSUME Edits = {}, ~Multi, IInv, GrowInv, [Next]_vars, app.chg \in touches[app.sources[1]]
  PROVE  app'.chg >= app.chg \/ app'.chg = Unknown
<1>a. /\ Types /\ ~edited /\ app \in Apps /\ app \in OwnApps /\ app \in Seen /\ Form(app)
      /\ app.sources = Sources /\ 1 \in DOMAIN Sources /\ Sources[1] \in SourceIds
  BY ListsType DEF IInv, Types, OwnApps, GrowInv, Seen, Form, Lists
<1>t. touches[Sources[1]] \in SUBSET Commits /\ app.chg \in touches[Sources[1]]
  BY <1>a DEF Types
<1>n. app.chg \in Commits /\ app.chg \in Nat /\ app.chg # Absent
  <2>1. app.chg \in Commits /\ app.chg \in Nat
    BY <1>t, CommitsAreNats
  <2> QED
    BY <2>1 DEF Absent
<1>s. app'.chg = app.chg => app'.chg >= app.chg
  BY <1>n
<1>1. CASE UNCHANGED vars
  BY <1>1, <1>s DEF vars
<1>2. CASE ArgoCD
  BY <1>2, <1>a, <1>s, ArgoCDAnnotations
<1>3. CASE (Controller \/ Crash) /\ ~Patch
  BY <1>3, <1>s DEF Controller, Handling, Crash, Deliver, Claim, Calculate, CalculatePartly,
                    CalculateFails, PatchFails
<1>4. CASE Patch
  <2> DEFINE q == snap[1]
             r == GetSourceRevisions(q, 1)
             v == AskOf(q, 1)
  <2>1. q \in OwnApps /\ q \in Pending
    <3>1. snap \in Seq(OwnApps) /\ Len(snap) = 1
      BY <1>4, <1>a DEF Types, Patch
    <3>2. snap[1] \in OwnApps /\ 1 \in DOMAIN snap
      BY <3>1, OneElement
    <3> QED
      BY <3>2 DEF Pending
  <2>2. Form(q) /\ q.sources = Sources
    BY <2>1 DEF GrowInv, Seen, Form
  <2>3. PICK bad \in SUBSET DOMAIN Sources : patch = PatchOf(q, bad)
    BY <1>4 DEF GrowInv, PatchMade, Patch
  <2> DEFINE ok == 1 \notin bad
             new == NewOf(q, bad)[1]
  <2>4. app'.chg = IF q.chg # new.change THEN new.change ELSE app.chg
    <3>1. app' = MergePatch(app, PatchOf(q, bad))
      BY <1>4, <2>3 DEF Patch, Store
    <3> QED
      BY <1>a, <2>1, <2>2, <3>1, PatchedIs
  <2>5. new = NewRevisions(r, ok, v)
    BY <1>a, <2>2 DEF NewOf
  <2>6. /\ r.change = AnnotationValue(q.chg) /\ r.current = Cur(q, 1)
        /\ r.helm = (Sources[1] \in Helm)
    <3>1. q.multi = Multi
      BY <2>1 DEF OwnApps, Apps
    <3> QED
      BY <2>2, <3>1 DEF GetSourceRevisions, Cur
  <2>7. r.current \in Revisions /\ r.previous \in Revisions
    BY <1>a, <2>1, <2>2, GetSourceRevisionsType
  <2>8. v = GetChangeRevision(touches[Sources[1]], r.previous, r.current)
    BY <2>2 DEF AskOf
  <2>9. ~r.helm
    BY <1>a, <1>t, <2>6 DEF GrowInv, ChartsUntouched
  <2>10. r.current # Unknown => app.chg <= r.current
    <3>1. SliceGetString(app.chgs, 1) = app.chg
      BY <1>a, <1>n DEF Form, AnnotationValue
    <3>2. UnderCur(app.chg, q, 1)
      BY <1>a, <2>1, <3>1 DEF GrowInv, AnnotatedBefore, Ann
    <3> QED
      BY <2>6, <3>2 DEF UnderCur
  <2>11. ok \in BOOLEAN
    OBVIOUS
  <2> HIDE DEF q, r, v, ok, new
  <2>12. \/ new.change = r.change
         \/ NeedsCalculation(r) /\ v # Unknown /\ new.change = v
         \/ NeedsCalculation(r) /\ new.change = r.current
    BY <2>5, <2>9, <2>11, NewRevisionsIs
  <2>13. CASE new.change = r.change
    BY <1>s, <2>4, <2>6, <2>13 DEF AnnotationValue
  <2>14. CASE NeedsCalculation(r) /\ v # Unknown /\ new.change = v
    <3>1. app.chg <= r.current
      BY <2>10, <2>14 DEF NeedsCalculation
    <3>2. v >= app.chg
      BY <1>t, <2>7, <2>8, <2>14, <3>1, AnswerNotOlder
    <3> QED
      BY <1>s, <2>4, <2>14, <3>2
  <2>15. CASE NeedsCalculation(r) /\ new.change = r.current
    <3>1. r.current >= app.chg
      <4>1. r.current \in Nat
        BY <2>7, CommitsAreNats
      <4> QED
        BY <1>n, <2>10, <2>15, <4>1 DEF NeedsCalculation
    <3> QED
      BY <1>s, <2>4, <2>15, <3>1
  <2> QED
    BY <2>12, <2>13, <2>14, <2>15
<1> QED
  BY <1>1, <1>2, <1>3, <1>4 DEF Next

\* For an application with one source: no patch made from an outdated copy
\* puts an older change revision in the place of a commit that changed it.
THEOREM ChangeNeverOlder == Edits = {} /\ ~Multi => (Spec => NeverOlder)
<1> SUFFICES ASSUME Edits = {}, ~Multi
             PROVE  Spec => NeverOlder
  OBVIOUS
<1> DEFINE Grows == ~back /\ app.chg \in touches[app.sources[1]] =>
                      app'.chg >= app.chg \/ app'.chg = Unknown
<1>1. IInv /\ (back \/ GrowInv) /\ [Next]_vars => [Grows]_vars
  BY ChangeGrows
<1> HIDE DEF Grows
<1>2. Spec => [][Grows]_vars
  BY <1>1, Growing, PTL DEF Spec
<1> QED
  BY <1>2 DEF NeverOlder, Grows

-----------------------------------------------------------------------------
(* The inductive invariant: the annotations are right, if the syncs wait   *)
(* for the controller and no copy misleads the service.                    *)

\* The newest commit after f, up to g, that touches source i; f without one.
Newest(i, f, g) == Max({f} \cup {c \in touches[Sources[i]] : f < c /\ c <= g})

\* The change revision that belongs to git revision g, if h is the history: up
\* to the first sync that succeeded it is g itself.
RightChange(h, i, g) ==
  IF h = <<>> \/ g <= h[1].revs[i] THEN g ELSE Newest(i, h[1].revs[i], g)

\* Nothing has been synced, and nothing is annotated but empty strings.
Untouched(a) ==
  /\ a.history = <<>> /\ a.operation = <<>> /\ ~a.synced /\ a.result = <<>>
  /\ \A i \in DOMAIN Sources : Ann(a, i) = {Unknown}

\* The history up to the entry that the controller is still working on, as far
\* as an object tells: an operation to another revision than the newest entry's
\* began when that one was handled ...
HandledUpTo(a) ==
  LET n == Len(a.history)
  IN  IF n # 0 /\ a.operation \in {<<>>, a.history[n].revs, NoRevs(Sources)}
      THEN n - 1 ELSE n

\* ... and as it is: the newest entry is handled unless it belongs to the sync
\* under way, or is the last one's.
HandledNow ==
  LET n == Len(app.history)
  IN  IF n # 0 /\ (stage = "recorded" \/ (stage = "none" /\ LastEntry.revs = app.result))
      THEN n - 1 ELSE n

\* Before the first sync the annotations are there.
AnnotatedFirst ==
  \/ \A a \in Seen : Untouched(a)
  \/ \A a \in Seen : a.chgs # <<>> /\ a.gits # <<>>

\* Change and git revision belong together.
PairsRight ==
  \A a \in Seen, i \in DOMAIN Sources :
    Sources[i] \notin Helm =>
      SliceGetString(a.chgs, i) = RightChange(app.history, i, SliceGetString(a.gits, i))

\* The git revision has reached every sync that was handled.
HandledReached ==
  \A i \in DOMAIN Sources :
    /\ \A a \in Seen : \A k \in 1 .. HandledUpTo(a) :
         a.history[k].revs[i] <= SliceGetString(a.gits, i)
    /\ \A k \in 1 .. HandledNow : app.history[k].revs[i] <= SliceGetString(app.gits, i)

\* The history is only appended to.
HistoryGrows ==
  \A a \in Seen : /\ Len(a.history) <= Len(app.history)
                  /\ \A k \in DOMAIN a.history : a.history[k] = app.history[k]

\* Nothing shown before the first sync that succeeded is newer than it is, and
\* nothing synced later is older.
FirstSync ==
  /\ \A a \in Seen, i \in DOMAIN Sources :
       a.history = <<>> /\ app.history # <<>> => Cur(a, i) <= app.history[1].revs[i]
  /\ \A k \in DOMAIN app.history, i \in DOMAIN Sources :
       app.history[1].revs[i] <= app.history[k].revs[i]

\* The git revision is not even reset.
GitOnlyGrows ==
  \A x \in Pending, i \in DOMAIN Sources :
    SliceGetString(x.gits, i) <= SliceGetString(app.gits, i)

\* A synced application shows what it is synced to.
SyncedShows(a) ==
  a.synced => /\ a.syncRevs # <<>>
              /\ a.history # <<>> /\ a.operation = <<>> =>
                   a.result = a.history[Len(a.history)].revs

\* An operation names its target, or nothing.
TargetNamed == app.operation \in {<<>>, target, NoRevs(Sources)}

Turn ==
  /\ AnnotatedFirst
  /\ PairsRight
  /\ HandledReached
  /\ HistoryGrows
  /\ FirstSync
  /\ GitOnlyGrows
  /\ \A a \in Seen : SyncedShows(a)
  /\ TargetNamed
  /\ \A k \in DOMAIN snap : ~Misleading(snap[k])

TurnInv == InTurn /\ ~misread => Turn

-----------------------------------------------------------------------------
(* Lemmas about the right change revision.                                 *)

\* The newest touching commit of a range.
LEMMA NewestIs ==
  ASSUME Types, NEW i \in DOMAIN Sources, NEW f \in Nat, NEW g \in Nat
  PROVE  /\ Newest(i, f, g) \in Nat /\ f <= Newest(i, f, g)
         /\ \/ Newest(i, f, g) = f
            \/ Newest(i, f, g) \in {c \in touches[Sources[i]] : f < c /\ c <= g}
         /\ \A c \in touches[Sources[i]] : f < c /\ c <= g => c <= Newest(i, f, g)
<1> DEFINE S == {f} \cup {c \in touches[Sources[i]] : f < c /\ c <= g}
<1>1. touches[Sources[i]] \subseteq Nat
  <2>1. Sources[i] \in SourceIds
    BY ListsType DEF Lists
  <2> QED
    BY <2>1, CommitsAreNats DEF Types
<1>2. S \in SUBSET Nat /\ S # {}
  BY <1>1
<1>3. PICK n \in Nat : f <= n /\ g <= n
  <2>1. CASE f <= g
    BY <2>1
  <2>2. CASE ~(f <= g)
    BY <2>2
  <2> QED
    BY <2>1, <2>2
<1>4. \A y \in S : y <= n
  BY <1>1, <1>3
<1>5. Max(S) \in S /\ \A y \in S : Max(S) >= y
  BY <1>2, <1>4, MaxExists
<1>6. Newest(i, f, g) = Max(S)
  BY DEF Newest
<1>7. /\ Newest(i, f, g) \in S /\ \A y \in S : Newest(i, f, g) >= y
      /\ Newest(i, f, g) \in Nat
  BY <1>2, <1>5, <1>6
<1>8. f <= Newest(i, f, g)
  BY <1>7
<1>9. \A c \in touches[Sources[i]] : f < c /\ c <= g => c <= Newest(i, f, g)
  BY <1>1, <1>7
<1> QED
  BY <1>7, <1>8, <1>9

\* The right change revision grows with the git revision.
LEMMA RightGrows ==
  ASSUME Types, NEW i \in DOMAIN Sources, NEW h, h # <<>> => h[1].revs[i] \in Nat \ {0},
         NEW g \in Nat, NEW c \in Nat, g <= c
  PROVE  /\ RightChange(h, i, g) <= RightChange(h, i, c)
         /\ RightChange(h, i, g) \in Nat
         /\ g # 0 => RightChange(h, i, g) # 0
<1>1. CASE h = <<>>
  BY <1>1 DEF RightChange
<1>2. CASE h # <<>>
  <2> DEFINE f == h[1].revs[i]
  <2>f. f \in Nat /\ f # 0
    BY <1>2
  <2> HIDE DEF f
  <2>1. /\ RightChange(h, i, g) = IF g <= f THEN g ELSE Newest(i, f, g)
        /\ RightChange(h, i, c) = IF c <= f THEN c ELSE Newest(i, f, c)
    BY <1>2 DEF RightChange, f
  <2>2. /\ Newest(i, f, g) \in Nat /\ Newest(i, f, c) \in Nat
        /\ f <= Newest(i, f, g) /\ f <= Newest(i, f, c)
    BY <2>f, NewestIs
  <2>3. ASSUME ~(g <= f)
        PROVE  Newest(i, f, g) <= Newest(i, f, c)
    <3>1. CASE Newest(i, f, g) = f
      BY <2>2, <3>1
    <3>2. CASE Newest(i, f, g) \in {x \in touches[Sources[i]] : f < x /\ x <= g}
      <4>1. f < Newest(i, f, g) /\ Newest(i, f, g) <= c /\ Newest(i, f, g) \in touches[Sources[i]]
        BY <2>2, <3>2
      <4> QED
        BY <2>f, <4>1, NewestIs
    <3> QED
      BY <2>f, <3>1, <3>2, NewestIs
  <2>4. CASE g <= f
    BY <2>f, <2>1, <2>2, <2>4
  <2>5. CASE ~(g <= f)
    <3>1. ~(c <= f)
      BY <2>f, <2>5
    <3>2. Newest(i, f, g) # 0
      BY <2>f, <2>2
    <3> QED
      BY <2>1, <2>2, <2>3, <2>5, <3>1, <3>2
  <2> QED
    BY <2>4, <2>5
<1> QED
  BY <1>1, <1>2

\* It stays the same over commits that do not touch the source.
LEMMA RightSame ==
  ASSUME Types, NEW i \in DOMAIN Sources, NEW h, h # <<>>, h[1].revs[i] \in Nat \ {0},
         NEW p \in Nat, NEW g \in Nat, NEW c \in Nat, h[1].revs[i] <= p, p <= g, g <= c,
         \A x \in touches[Sources[i]] : ~(p < x /\ x <= c)
  PROVE  RightChange(h, i, g) = RightChange(h, i, c)
<1> DEFINE f == h[1].revs[i]
<1>f. f \in Nat /\ f <= p
  OBVIOUS
<1> HIDE DEF f
<1>1. /\ RightChange(h, i, g) = IF g <= f THEN g ELSE Newest(i, f, g)
      /\ RightChange(h, i, c) = IF c <= f THEN c ELSE Newest(i, f, c)
  BY DEF RightChange, f
<1>2. /\ Newest(i, f, c) \in Nat /\ Newest(i, f, g) \in Nat
      /\ f <= Newest(i, f, g) /\ f <= Newest(i, f, c)
  BY <1>f, NewestIs
<1>3. CASE Newest(i, f, c) = f
  <2>1. CASE Newest(i, f, g) = f
    BY <1>f, <1>1, <1>3, <2>1
  <2>2. CASE Newest(i, f, g) \in {x \in touches[Sources[i]] : f < x /\ x <= g}
    <3>1. Newest(i, f, g) <= Newest(i, f, c)
      <4>1. Newest(i, f, g) <= c
        BY <1>2, <2>2
      <4> QED
        BY <1>f, <2>2, <4>1, NewestIs
    <3> QED
      BY <1>f, <1>2, <1>3, <2>2, <3>1
  <2> QED
    BY <1>f, <2>1, <2>2, NewestIs
<1>4. CASE Newest(i, f, c) \in {x \in touches[Sources[i]] : f < x /\ x <= c}
  <2>1. Newest(i, f, c) <= p /\ f < Newest(i, f, c) /\ Newest(i, f, c) \in touches[Sources[i]]
    BY <1>2, <1>4
  <2>2. Newest(i, f, c) <= g /\ ~(g <= f) /\ ~(c <= f)
    BY <1>f, <1>2, <2>1
  <2>3. Newest(i, f, c) <= Newest(i, f, g)
    BY <1>f, <2>1, <2>2, NewestIs
  <2>4. RightChange(h, i, g) <= RightChange(h, i, c)
    BY RightGrows
  <2> QED
    BY <1>1, <1>2, <2>2, <2>3, <2>4
<1> QED
  BY <1>f, <1>3, <1>4, NewestIs

\* It is the newest of the touching commits after a later one.
LEMMA RightHit ==
  ASSUME Types, NEW i \in DOMAIN Sources, NEW h, h # <<>>, h[1].revs[i] \in Nat \ {0},
         NEW p \in Nat, NEW c \in Nat, h[1].revs[i] <= p,
         NEW v \in touches[Sources[i]], v \in Nat, p < v, v <= c,
         \A x \in touches[Sources[i]] : p < x /\ x <= c => x <= v
  PROVE  RightChange(h, i, c) = v
<1> DEFINE f == h[1].revs[i]
<1>f. f \in Nat /\ f <= p
  OBVIOUS
<1> HIDE DEF f
<1>1. RightChange(h, i, c) = Newest(i, f, c)
  <2>1. ~(c <= f)
    BY <1>f
  <2> QED
    BY <2>1 DEF RightChange, f
<1>2. Newest(i, f, c) \in Nat /\ v <= Newest(i, f, c)
  <2>1. f < v
    BY <1>f
  <2> QED
    BY <1>f, <2>1, NewestIs
<1>3. CASE Newest(i, f, c) = f
  BY <1>f, <1>2, <1>3
<1>4. CASE Newest(i, f, c) \in {x \in touches[Sources[i]] : f < x /\ x <= c}
  <2>1. p < Newest(i, f, c)
    BY <1>2
  <2> QED
    BY <1>1, <1>2, <1>4, <2>1
<1> QED
  BY <1>f, <1>3, <1>4, NewestIs

-----------------------------------------------------------------------------
(* What an object shows of its history.                                    *)

\* The entries of the history are of these sources.
LEMMA HistoryIs ==
  ASSUME Edits = {}, NEW a \in OwnApps, NEW k \in DOMAIN a.history
  PROVE  /\ a.history[k].sources = Sources /\ a.history[k].revs \in RevsOf(Sources)
         /\ a.history[k].revs # <<>> /\ a.history[k].revs \in RevSeqs
         /\ \A i \in DOMAIN Sources :
              /\ a.history[k].revs[i] \in CommitsOf[Sources[i]]
              /\ a.history[k].revs[i] \in Nat \ {0}
              /\ SliceGetString(a.history[k].revs, i) = a.history[k].revs[i]
<1>1. a.history[k] \in Entries /\ a.history[k].revs \in RevsOf(a.history[k].sources)
  BY DEF OwnApps, Apps, Own
<1>2. a.history[k].sources = Sources /\ Sources \in Lists
  BY <1>1 DEF Entries, Lists
<1>3. \A i \in DOMAIN Sources : CommitsOf[Sources[i]] \subseteq Nat \ {0}
  BY <1>2, ListsType, CommitsAreNats
<1> QED
  BY <1>1, <1>2, <1>3, RevsOfType

\* A source is found at its own index.
LEMMA FromHistoryIs ==
  ASSUME Edits = {}, NEW a \in OwnApps, a.sources = Sources, NEW k \in DOMAIN a.history,
         NEW i \in DOMAIN Sources
  PROVE  RevisionFromHistory(a, k, i) = a.history[k].revs[i]
<1>1. a.multi = Multi
  BY DEF OwnApps, Apps
<1>2. /\ a.history[k].sources = Sources
      /\ SliceGetString(a.history[k].revs, i) = a.history[k].revs[i]
  BY HistoryIs
<1>3. CASE Multi
  <2>1. i \in 1 .. Len(a.history[k].sources)
    BY <1>2, ListsType DEF Lists
  <2>2. HistoricalIndex(a, a.history[k], i) = i
    BY <1>2, <2>1 DEF HistoricalIndex, IsMatchingHistoryEntry
  <2> QED
    BY <1>1, <1>2, <1>3, <2>2 DEF RevisionFromHistory
<1>4. CASE ~Multi
  <2>1. i = 1
    <3>1. Sources \in Seq(SourceIds) /\ Len(Sources) = 1
      BY <1>4, SourcesAssumption
    <3> QED
      BY <3>1
  <2> QED
    BY <1>1, <1>4, <2>1 DEF RevisionFromHistory
<1> QED
  BY <1>3, <1>4

\* The range asked about, if the copy does not mislead the service: it has no
\* beginning for the first sync; otherwise it begins at a sync that was handled.
LEMMA RangeIs ==
  ASSUME Edits = {}, NEW a \in OwnApps, Form(a), SyncedShows(a), NEW i \in DOMAIN Sources,
         Cur(a, i) # Unknown, NeedsCalculation(GetSourceRevisions(a, i)), ~Misleading(a)
  PROVE  LET p == GetRevisions(a, i).previous
         IN  /\ Cur(a, i) \in CommitsOf[Sources[i]]
             /\ \/ p = Unknown /\ a.history = <<>>
                \/ p = Unknown /\ a.history # <<>> /\ Cur(a, i) = a.history[1].revs[i]
                \/ \E k \in DOMAIN a.history : k <= HandledUpTo(a) /\ p = a.history[k].revs[i]
<1> DEFINE n == Len(a.history)
           p == GetRevisions(a, i).previous
<1>1. /\ a.history \in Seq(Entries) /\ n \in Nat /\ DOMAIN a.history = 1 .. n
      /\ a.sources = Sources /\ a.synced \in BOOLEAN
  BY DEF OwnApps, Apps, Form
<1>d. a.operation # <<>> /\ a.operation # NoRevs(Sources) => a.operation \in RevsOf(Sources)
  BY <1>1 DEF OwnApps, Own
<1>c. Cur(a, i) \in CommitsOf[Sources[i]]
  <2>1. ASSUME NEW r \in {a.syncRevs, a.result, a.operation}, r # <<>>, r # NoRevs(Sources)
        PROVE  r[i] \in CommitsOf[Sources[i]] /\ SliceGetString(r, i) = r[i]
    <3>1. r \in RevsOf(Sources) /\ Sources \in Lists
      BY <1>1, <1>d, <2>1 DEF Form, Resolved, Lists
    <3> QED
      BY <3>1, RevsOfType
  <2>2. a.synced => a.syncRevs # <<>>
    BY DEF SyncedShows
  <2>3. ASSUME NEW r \in {a.syncRevs, a.result, a.operation}, r # <<>>, r = NoRevs(Sources)
        PROVE  r[i] = Unknown /\ SliceGetString(r, i) = Unknown
    <3>1. Sources \in Lists
      BY DEF Lists
    <3> QED
      BY <2>3, <3>1, NoRevsType DEF NoRevs
  <2> QED
    BY <1>1, <2>1, <2>2, <2>3, CurIs
<1>e. n # 0 => /\ a.history # <<>> /\ n \in DOMAIN a.history
               /\ a.history[n].revs # <<>>
               /\ IF a.synced /\ a.result # <<>> THEN a.result = a.history[n].revs
                  ELSE a.operation # a.history[n].revs
  <2> SUFFICES ASSUME n # 0
               PROVE  /\ a.history # <<>> /\ n \in DOMAIN a.history
                      /\ a.history[n].revs # <<>>
                      /\ IF a.synced /\ a.result # <<>> THEN a.result = a.history[n].revs
                         ELSE a.operation # a.history[n].revs
    OBVIOUS
  <2>1. a.history # <<>> /\ n \in DOMAIN a.history
    BY <1>1, EmptySeq
  <2>2. a.history[n].revs # <<>>
    BY <2>1, HistoryIs
  <2> QED
    BY <1>1, <2>1, <2>2 DEF Misleading
<1>2. CASE n = 0
  <2>1. a.history = <<>>
    BY <1>1, <1>2, EmptySeq
  <2>2. p = Unknown
    BY <1>2 DEF GetRevisions
  <2> QED
    BY <1>c, <2>1, <2>2
<1>3. CASE n # 0 /\ a.synced /\ a.result # <<>>
  <2>0. a.history # <<>> /\ n \in DOMAIN a.history /\ a.result = a.history[n].revs
    BY <1>3, <1>e
  <2>2. a.result # <<>> /\ Cur(a, i) = a.history[n].revs[i]
    BY <1>3, <2>0, HistoryIs, CurIs
  <2>3. CASE n = 1
    <3>1. p = Unknown
      BY <1>3, <2>2, <2>3 DEF GetRevisions
    <3> QED
      BY <1>c, <2>0, <2>2, <2>3, <3>1
  <2>4. CASE n # 1
    <3>1. n - 1 \in DOMAIN a.history
      <4>1. \A m \in Nat : m # 0 /\ m # 1 => m - 1 \in 1 .. m
        OBVIOUS
      <4> QED
        BY <1>1, <1>3, <2>4, <4>1
    <3>2. p = RevisionFromHistory(a, n - 1, i)
      BY <1>3, <2>2, <2>4 DEF GetRevisions
    <3>3. p = a.history[n - 1].revs[i]
      BY <1>1, <3>1, <3>2, FromHistoryIs
    <3>4. n - 1 <= HandledUpTo(a)
      <4>1. HandledUpTo(a) = n - 1 \/ HandledUpTo(a) = n
        BY DEF HandledUpTo
      <4> QED
        BY <1>1, <4>1
    <3> HIDE DEF n, p
    <3> QED
      BY <1>c, <3>1, <3>3, <3>4 DEF p
  <2> QED
    BY <2>3, <2>4
<1>4. CASE n # 0 /\ ~(a.synced /\ a.result # <<>>)
  <2>0. a.history # <<>> /\ n \in DOMAIN a.history /\ a.operation # a.history[n].revs
    BY <1>4, <1>e
  <2>1. a.operation # <<>> /\ a.operation # NoRevs(Sources)
    <3>1. a.operation # <<>>
      BY <1>1, <1>4, <1>e, CurIs DEF SyncedShows
    <3>2. a.operation = NoRevs(Sources) => a.operation[i] = Unknown
      BY DEF NoRevs
    <3> QED
      BY <1>1, <1>4, <2>0, <3>1, <3>2, CurIs
  <2>2. p = RevisionFromHistory(a, n, i)
    BY <1>4 DEF GetRevisions
  <2>3. p = a.history[n].revs[i]
    BY <1>1, <2>0, <2>2, FromHistoryIs
  <2>4. n <= HandledUpTo(a)
    BY <1>1, <2>0, <2>1 DEF HandledUpTo
  <2> HIDE DEF n, p
  <2> QED
    BY <1>c, <2>0, <2>3, <2>4 DEF p
<1> QED
  BY <1>1, <1>2, <1>3, <1>4

\* What the handler makes of a copy is right, if no request fails.
LEMMA WantedRight ==
  ASSUME Edits = {}, Types, GrowInv, Turn, NEW a \in Seen, NEW i \in DOMAIN Sources,
         Sources[i] \notin Helm, Cur(a, i) # Unknown, SliceGetString(a.gits, i) <= Cur(a, i),
         ~Misleading(a)
  PROVE  NewOf(a, ForeignOf(a))[i].change = RightChange(app.history, i, Cur(a, i))
<1> DEFINE h == app.history
           r == GetSourceRevisions(a, i)
           g == SliceGetString(a.gits, i)
           x == SliceGetString(a.chgs, i)
           c == Cur(a, i)
           p == GetRevisions(a, i).previous
           v == AskOf(a, i)
           ok == i \notin ForeignOf(a)
           new == NewOf(a, ForeignOf(a))[i]
           T == touches[Sources[i]]
<1>a. a \in OwnApps /\ Form(a) /\ a.sources = Sources /\ SyncedShows(a)
  BY SeenTypes DEF GrowInv, Form, Turn
<1>s. Sources[i] \in SourceIds /\ app \in OwnApps
  BY ListsType DEF Lists, Types
<1>n. g \in Nat /\ x \in Nat /\ c \in Nat /\ c \in Revisions /\ p \in Revisions /\ p \in Nat
  <2>1. g \in Nat /\ x \in Nat
    BY <1>a, AnnType
  <2>2. c \in Revisions /\ p \in Revisions
    BY <1>a, GetRevisionsType DEF Cur
  <2> QED
    BY <2>1, <2>2, CommitsAreNats
<1>T. T \in SUBSET Commits /\ T \subseteq Nat
  BY <1>s, CommitsAreNats DEF Types
<1>r. r.change = x /\ r.git = g /\ r.current = c /\ r.previous = p /\ ~r.helm
  BY <1>a, AnnotationsRead
<1>x. x = RightChange(h, i, g)
  BY DEF Turn, PairsRight
<1>k. NeedsCalculation(r) =>
      /\ c \in CommitsOf[Sources[i]]
      /\ \/ p = Unknown /\ a.history = <<>>
         \/ p = Unknown /\ a.history # <<>> /\ c = a.history[1].revs[i]
         \/ \E k \in DOMAIN a.history : k <= HandledUpTo(a) /\ p = a.history[k].revs[i]
  BY <1>a, RangeIs
<1>h. /\ \A k \in DOMAIN a.history : k \in DOMAIN h /\ a.history[k] = h[k]
      /\ h # <<>> => 1 \in DOMAIN h /\ h[1].revs[i] \in Nat \ {0}
      /\ a.history # <<>> => 1 \in DOMAIN a.history /\ h # <<>>
      /\ DOMAIN a.history \subseteq Nat \ {0}
  <2>1. a.history \in Seq(Entries) /\ h \in Seq(Entries)
    BY <1>a, <1>s DEF OwnApps, Apps
  <2>2. Len(a.history) <= Len(h) /\ \A k \in DOMAIN a.history : a.history[k] = h[k]
    BY DEF Turn, HistoryGrows
  <2>3. /\ DOMAIN a.history = 1 .. Len(a.history) /\ DOMAIN h = 1 .. Len(h)
        /\ Len(a.history) \in Nat /\ Len(h) \in Nat
    BY <2>1
  <2>4. h # <<>> => 1 \in DOMAIN h
    BY <2>1, <2>3, EmptySeq
  <2>5. a.history # <<>> => 1 \in DOMAIN a.history /\ h # <<>>
    <3>1. a.history # <<>> => Len(a.history) # 0
      BY <2>1, EmptySeq
    <3>2. h = <<>> => Len(h) = 0
      OBVIOUS
    <3> QED
      BY <2>2, <2>3, <3>1, <3>2
  <2>6. h # <<>> => h[1].revs[i] \in Nat \ {0}
    BY <1>s, <2>4, HistoryIs
  <2> QED
    BY <2>2, <2>3, <2>4, <2>5, <2>6
<1>o. NeedsCalculation(r) => ok
  <2> SUFFICES ASSUME NeedsCalculation(r)
               PROVE  ok
    OBVIOUS
  <2>1. p # Unknown => p \in CommitsOf[Sources[i]]
    BY <1>a, <1>k, HistoryIs
  <2> HIDE DEF r, p, c
  <2>2. ~(r.previous # Unknown /\ ~({r.previous, r.current} \subseteq CommitsOf[a.sources[i]]))
    BY <1>a, <1>k, <1>r, <2>1
  <2> QED
    BY <2>2 DEF ForeignOf, r
<1>w. new = NewRevisions(r, ok, v)
  BY <1>a DEF NewOf
<1>v. v = GetChangeRevision(T, p, c)
  BY <1>a, <1>r DEF AskOf
<1>1. CASE ~NeedsCalculation(r)
  <2>1. g = c /\ new.change = x
    <3> HIDE DEF r, g, x, c, p, v, ok, new
    <3>1. r.git = r.current
      BY <1>1, <1>r DEF NeedsCalculation, c
    <3>2. new.change = r.change
      <4>1. ok \in BOOLEAN
        BY DEF ok
      <4> QED
        BY <1>1, <1>r, <1>w, <4>1, NewRevisionsIs
    <3> QED
      BY <1>r, <3>1, <3>2
  <2> QED
    BY <1>x, <2>1
<1>2. CASE NeedsCalculation(r) /\ p = Unknown
  <2>1. new.change = c
    <3>1. v = c
      BY <1>2, <1>v DEF GetChangeRevision
    <3> HIDE DEF r, g, x, c, p, v, ok, new
    <3> QED
      BY <1>2, <1>o, <1>r, <1>w, <3>1 DEF NewRevisions, NeedsCalculation
  <2>2. h = <<>> \/ c <= h[1].revs[i]
    <3>1. CASE a.history = <<>>
      BY <3>1 DEF Turn, FirstSync
    <3>2. CASE a.history # <<>> /\ c = a.history[1].revs[i]
      <4>1. a.history[1] = h[1]
        BY <1>h, <3>2
      <4> HIDE DEF h, c
      <4> QED
        BY <1>n, <3>2, <4>1
    <3>3. CASE \E k \in DOMAIN a.history : p = a.history[k].revs[i]
      BY <1>2, <1>a, <3>3, HistoryIs DEF Unknown
    <3> QED
      BY <1>2, <1>k, <3>1, <3>2, <3>3
  <2> QED
    BY <2>1, <2>2 DEF RightChange
<1>3. CASE NeedsCalculation(r) /\ p # Unknown
  <2>1. PICK k \in DOMAIN a.history : k <= HandledUpTo(a) /\ p = a.history[k].revs[i]
    BY <1>3, <1>k
  <2>2. p <= g
    <3>1. k \in 1 .. HandledUpTo(a)
      <4>1. k \in Nat \ {0}
        BY <1>h, <2>1
      <4>2. HandledUpTo(a) \in Int
        <5>1. Len(a.history) \in Nat
          BY <1>a DEF OwnApps, Apps
        <5> QED
          BY <5>1 DEF HandledUpTo
      <4> QED
        BY <2>1, <4>1, <4>2
    <3> QED
      BY <2>1, <3>1 DEF Turn, HandledReached
  <2>3. h # <<>> /\ h[1].revs[i] \in Nat \ {0} /\ h[1].revs[i] <= p
    <3>1. h # <<>>
      BY <1>h, <2>1
    <3>2. k \in DOMAIN h /\ p = h[k].revs[i]
      BY <1>h, <2>1
    <3> QED
      BY <1>h, <3>1, <3>2 DEF Turn, FirstSync
  <2>4. x # Unknown
    <3>1. g # 0
      BY <1>n, <1>3, <2>2 DEF Unknown
    <3>2. RightChange(h, i, g) # 0
      <4> HIDE DEF h, g
      <4> QED
        BY <1>n, <2>3, <3>1, RightGrows DEF g
    <3> QED
      BY <1>x, <3>2 DEF Unknown
  <2>5. g # c
    <3> HIDE DEF r, g, x, c, p, v, ok, new
    <3> QED
      BY <1>3, <1>r, <2>4 DEF NeedsCalculation
  <2>6. p < c
    <3>1. g <= c
      OBVIOUS
    <3> HIDE DEF g, c, p
    <3> QED
      BY <1>n, <2>2, <2>5, <3>1
  <2> DEFINE hits == {y \in T : p < y /\ y <= c}
  <2>7. /\ hits = {} => v = Unknown
        /\ hits # {} => v \in hits /\ \A y \in hits : v >= y
    <3> HIDE DEF c, p, T, v
    <3> QED
      BY <1>3, <1>T, <1>n, <1>v, <2>6, GetChangeRevisionIs
  <2>8. CASE hits = {}
    <3>1. new.change = x
      <4> HIDE DEF r, g, x, c, p, v, ok, new, hits
      <4> QED
        BY <1>3, <1>o, <1>r, <1>w, <2>4, <2>7, <2>8, NewRevisionsIs
    <3>2. RightChange(h, i, g) = RightChange(h, i, c)
      <4>1. \A y \in T : ~(p < y /\ y <= c)
        BY <2>8
      <4>2. g <= c
        OBVIOUS
      <4> HIDE DEF h, g, c, p, hits
      <4> QED
        BY <1>n, <2>2, <2>3, <4>1, <4>2, RightSame
    <3> QED
      BY <1>x, <3>1, <3>2
  <2>9. CASE hits # {}
    <3>0. v \in hits /\ \A y \in hits : v >= y
      BY <2>7, <2>9
    <3> HIDE DEF v
    <3>1. v \in T /\ v \in Nat /\ v # Unknown /\ p < v /\ v <= c
          /\ \A y \in T : p < y /\ y <= c => y <= v
      <4>1. v \in T /\ p < v /\ v <= c
        BY <3>0
      <4>2. v \in Nat /\ v # Unknown
        BY <1>T, <4>1, CommitsAreNats DEF Unknown
      <4>3. \A y \in T : p < y /\ y <= c => y <= v
        BY <1>T, <3>0, <4>2
      <4> QED
        BY <4>1, <4>2, <4>3
    <3>2. new.change = v
      <4> HIDE DEF r, g, x, c, p, ok, new, hits
      <4> QED
        BY <1>3, <1>o, <1>r, <1>w, <3>1 DEF NewRevisions, NeedsCalculation
    <3>3. RightChange(h, i, c) = v
      <4> HIDE DEF h, c, p, hits
      <4> QED
        BY <1>n, <2>3, <3>1, RightHit
    <3> QED
      BY <3>2, <3>3
  <2> QED
    BY <2>8, <2>9
<1> QED
  BY <1>1, <1>2, <1>3

-----------------------------------------------------------------------------
(* Every step keeps the annotations right.                                 *)

\* What an application says that the controller has caught up with.
LEMMA CaughtUpSays ==
  ASSUME Edits = {}, IInv, GrowInv, Quiescent, faults = 0
  PROVE  /\ app.chgs # <<>> /\ app.gits # <<>>
         /\ \A i \in DOMAIN Sources : Cur(app, i) # Unknown =>
              /\ SliceGetString(app.gits, i) = Cur(app, i)
              /\ Sources[i] \in Helm => SliceGetString(app.chgs, i) = Cur(app, i)
         /\ Pending = {} /\ Seen = {app}
<1> DEFINE new == NewOf(app, ForeignOf(app))
<1>1. Types /\ app \in OwnApps /\ Form(app) /\ app.sources = Sources
  BY DEF IInv, Types, GrowInv, Seen, Form
<1>2. /\ app.chgs = [i \in DOMAIN Sources |-> new[i].change]
      /\ app.gits = [i \in DOMAIN Sources |-> new[i].git]
  BY <1>1, NothingToPatch
<1>3. app.chgs \in RevSeqs /\ app.gits \in RevSeqs /\ 1 \in DOMAIN Sources
  BY <1>1, ListsType DEF OwnApps, Apps, Lists
<1>4. app.chgs # <<>> /\ app.gits # <<>>
  <2> HIDE DEF new
  <2> QED
    BY <1>2, <1>3
<1>5. ASSUME NEW i \in DOMAIN Sources, Cur(app, i) # Unknown
      PROVE  /\ SliceGetString(app.gits, i) = Cur(app, i)
             /\ Sources[i] \in Helm => SliceGetString(app.chgs, i) = Cur(app, i)
  <2> DEFINE r == GetSourceRevisions(app, i)
             ok == i \notin ForeignOf(app)
             v == AskOf(app, i)
  <2>1. /\ r.git = SliceGetString(app.gits, i) /\ r.current = Cur(app, i)
        /\ r.helm = (Sources[i] \in Helm)
    BY <1>1, AnnotationsRead
  <2>2. new[i] = NewRevisions(r, ok, v)
    BY <1>1 DEF NewOf
  <2>3. /\ SliceGetString(app.gits, i) = app.gits[i] /\ SliceGetString(app.chgs, i) = app.chgs[i]
    BY <1>3, <1>4, RevSeqsFixed
  <2> HIDE DEF new, r, ok, v
  <2>4. ok \in BOOLEAN
    BY DEF ok
  <2>5. app.gits[i] = new[i].git /\ app.chgs[i] = new[i].change
    BY <1>2
  <2>6. new[i].git = r.current /\ (r.helm => new[i].change = r.git)
    BY <1>5, <2>1, <2>2, <2>4, NewRevisionsIs
  <2> QED
    BY <2>1, <2>3, <2>5, <2>6
<1>6. Pending = {} /\ Seen = {app}
  <2>1. Len(snap) = 0 /\ snap \in Seq(OwnApps) /\ watch = <<>> /\ slot = <<>>
    BY <1>1 DEF Quiescent, Types
  <2>2. DOMAIN snap = {} /\ DOMAIN watch = {} /\ DOMAIN slot = {}
    BY <2>1
  <2> QED
    BY <2>2 DEF Pending, Seen
<1> QED
  BY <1>4, <1>5, <1>6

\* The newest entries an object does not show as handled are among those that
\* are not.
LEMMA HandledShown ==
  IInv /\ TargetNamed => /\ HandledUpTo(app) \in Int /\ HandledNow \in Int
                         /\ HandledUpTo(app) <= HandledNow
<1> SUFFICES ASSUME IInv, TargetNamed
             PROVE  /\ HandledUpTo(app) \in Int /\ HandledNow \in Int
                    /\ HandledUpTo(app) <= HandledNow
  OBVIOUS
<1>1. Types /\ SyncStages /\ app \in OwnApps /\ Len(app.history) \in Nat
  BY DEF IInv, Types, OwnApps, Apps
<1>2. HandledUpTo(app) = Len(app.history) - 1 \/ HandledUpTo(app) = Len(app.history)
  BY DEF HandledUpTo
<1>3. HandledNow = Len(app.history) - 1 \/ HandledNow = Len(app.history)
  BY DEF HandledNow
<1>4. ASSUME HandledNow # Len(app.history)
      PROVE  HandledUpTo(app) # Len(app.history)
  <2>1. /\ Len(app.history) # 0
        /\ stage = "recorded" \/ stage = "none"
    BY <1>4 DEF HandledNow
  <2>2. app.operation \in {<<>>, LastEntry.revs, NoRevs(Sources)}
    BY <1>1, <2>1 DEF Types, SyncTypes, SyncStages, TargetNamed
  <2>3. HandledUpTo(app) = Len(app.history) - 1
    BY <2>1, <2>2 DEF HandledUpTo, LastEntry
  <2> QED
    BY <1>1, <2>3
<1> QED
  BY <1>1, <1>2, <1>3, <1>4

\* Argo CD's steps, field by field: what the history becomes, how far it was
\* handled, and that a new sync finds the controller at rest.
LEMMA ArgoCDInTurn ==
  ASSUME Edits = {}, IInv, IInv', GrowInv, ArgoCD, InTurn', InTurn => Turn
  PROVE  /\ InTurn
         /\ app'.chgs = app.chgs /\ app'.gits = app.gits
         /\ app.chgs # <<>> /\ app.gits # <<>>
         /\ ~Quiescent => ~Untouched(app)
         /\ \/ app'.history = app.history
            \/ /\ RecordSync
               /\ app'.history = Append(app.history, [sources |-> Sources, revs |-> target])
         /\ SyncedShows(app') /\ TargetNamed'
         /\ \A i \in DOMAIN Sources : \A k \in 1 .. HandledNow' :
              app'.history[k].revs[i] <= SliceGetString(app'.gits, i)
<1>a. /\ Types /\ Types' /\ SyncStages /\ SyncStages'
      /\ app \in OwnApps /\ app \in Apps /\ app.sources = Sources
      /\ app.history \in Seq(Entries) /\ ~edited /\ app \in Seen
      /\ Len(app.history) \in Nat /\ DOMAIN app.history = 1 .. Len(app.history)
  <2>1. Types /\ Types' /\ SyncStages /\ SyncStages'
    BY DEF IInv
  <2>2. app \in OwnApps /\ app \in Apps
    BY <2>1 DEF Types, OwnApps
  <2>3. app \in Seen /\ ~edited /\ app.sources = Sources
    BY DEF GrowInv, Seen, Form
  <2>4. app.history \in Seq(Entries)
    BY <2>2 DEF Apps
  <2> QED
    BY <2>1, <2>2, <2>3, <2>4
<1>c. app'.chgs = app.chgs /\ app'.gits = app.gits /\ app'.sources = Sources
  BY <1>a, ArgoCDAnnotations
<1>o. faults' = faults /\ (overtaken => overtaken') /\ (back => back')
  <2>1. faults' = faults
    BY ArgoCDStores DEF controller
  <2>2. MayStart => (overtaken => overtaken')
    BY DEF MayStart, Overtake
  <2>3. MayStart \/ UNCHANGED overtaken
    BY DEF ArgoCD, Adopt, StartSync, ShowResult, RecordSync, FinishSync, FailSync, Refresh,
           EditSources, Recompare
  <2> QED
    BY <2>1, <2>2, <2>3, BackStays DEF Next
<1>t. InTurn /\ Turn
  BY <1>o DEF InTurn
<1>q. MayStart => Quiescent /\ ~AwaitsRefresh /\ faults = 0 /\ stage = "none"
  BY <1>t DEF MayStart, Overtake, InTurn
<1>f. \A i \in DOMAIN Sources : \A k \in 1 .. HandledNow :
        app.history[k].revs[i] <= SliceGetString(app.gits, i)
  BY <1>a, <1>t DEF Turn, HandledReached
<1>s. SyncedShows(app) /\ TargetNamed
  BY <1>a, <1>t DEF Turn
<1>e. /\ app.history # <<>> <=> Len(app.history) # 0
      /\ app.history # <<>> => /\ Len(app.history) \in DOMAIN app.history
                               /\ LastEntry.revs # <<>>
  <2>1. app.history # <<>> <=> Len(app.history) # 0
    BY <1>a, EmptySeq
  <2>2. app.history # <<>> => Len(app.history) \in DOMAIN app.history
    BY <1>a, <2>1
  <2> QED
    BY <1>a, <2>1, <2>2, HistoryIs DEF LastEntry
<1>n. ~Untouched(app) => app.chgs # <<>> /\ app.gits # <<>>
  BY <1>a, <1>t DEF Turn, AnnotatedFirst
<1>m. MayStart => app.chgs # <<>> /\ app.gits # <<>>
  BY <1>q, CaughtUpSays
<1>u. stage # "none" => ~Untouched(app) /\ target # <<>> /\ target \in RevsOf(Sources)
  <2>1. stage # "none" => app.operation # <<>> /\ target \in RevsOf(Sources)
    BY <1>a DEF Types, SyncTypes
  <2>2. Sources \in Lists
    BY DEF Lists
  <2> QED
    BY <2>1, <2>2, RevsOfType DEF Untouched
\* How far the history was handled, if the step adds nothing to it.
<1>h. ASSUME app'.history = app.history,
             stage' \in {"requested", "running"} => HandledNow = Len(app.history),
             stage' = "recorded" => stage = "recorded",
             stage' = "none" /\ HandledNow # Len(app.history) /\ app.history # <<>> =>
               app'.history[Len(app'.history)].revs = app'.result
      PROVE  \A i \in DOMAIN Sources : \A k \in 1 .. HandledNow' :
               app'.history[k].revs[i] <= SliceGetString(app'.gits, i)
  <2>0. /\ HandledNow \in {Len(app.history) - 1, Len(app.history)}
        /\ HandledNow' \in {Len(app.history) - 1, Len(app.history)}
        /\ stage' \in {"none", "requested", "running", "recorded"}
    <3>1. stage' \in {"none", "requested", "running", "recorded"}
      BY <1>a DEF Types, SyncTypes
    <3> QED
      BY <1>h, <3>1 DEF HandledNow
  <2>1. HandledNow = Len(app.history) - 1 /\ Len(app.history) # 0 => HandledNow' = Len(app.history) - 1
    <3> SUFFICES ASSUME HandledNow = Len(app.history) - 1, Len(app.history) # 0
                 PROVE  HandledNow' = Len(app.history) - 1
      OBVIOUS
    <3>1. HandledNow # Len(app.history)
      BY <1>a
    <3>2. \/ stage' = "recorded"
          \/ stage' = "none" /\ app'.history[Len(app'.history)].revs = app'.result
      BY <1>e, <1>h, <2>0, <3>1
    <3> QED
      BY <1>h, <3>2 DEF HandledNow, LastEntry
  <2>2. 1 .. HandledNow' \subseteq 1 .. HandledNow
    <3>1. CASE HandledNow = Len(app.history)
      BY <1>a, <2>0, <3>1
    <3>2. CASE HandledNow # Len(app.history) /\ Len(app.history) # 0
      BY <2>0, <2>1, <3>2
    <3>3. CASE Len(app.history) = 0
      BY <2>0, <3>3
    <3> QED
      BY <3>1, <3>2, <3>3
  <2> QED
    BY <1>c, <1>f, <1>h, <2>2
<1>1. CASE Adopt
  <2>1. PICK revs \in Resolvable : Store([app EXCEPT !.synced = TRUE, !.syncRevs = revs])
    BY <1>1 DEF Adopt
  <2>2. /\ app'.history = app.history /\ app.history = <<>> /\ app'.syncRevs = revs
        /\ app'.operation = app.operation /\ target' = target
        /\ Quiescent
    BY <1>1, <1>a, <1>q, <2>1 DEF Adopt, Store, Apps
  <2>3. revs # <<>>
    <3>1. revs \in RevsOf(Sources) /\ Sources \in Lists
      BY <1>a DEF Resolvable, RevsOf, Lists
    <3> QED
      BY <3>1, RevsOfType
  <2>4. 1 .. HandledNow' = {}
    <3>1. HandledNow' = 0
      BY <2>2 DEF HandledNow
    <3> QED
      BY <3>1
  <2>5. SyncedShows(app') /\ TargetNamed'
    BY <1>s, <2>2, <2>3 DEF SyncedShows, TargetNamed
  <2> QED
    BY <1>1, <1>c, <1>m, <1>t, <2>2, <2>4, <2>5 DEF Adopt
<1>2. CASE StartSync
  <2>1. PICK revs \in Resolvable, s \in {FALSE, app.synced} :
          /\ target' = revs
          /\ \E op \in {revs, [i \in DOMAIN revs |-> Unknown]} :
               Store([app EXCEPT !.operation = op, !.synced = s])
    BY <1>2 DEF StartSync
  <2>o. PICK op \in {revs, [i \in DOMAIN revs |-> Unknown]} :
          Store([app EXCEPT !.operation = op, !.synced = s])
    BY <2>1
  <2>2. /\ app'.history = app.history /\ app'.syncRevs = app.syncRevs
        /\ app'.operation = op /\ app'.result = app.result /\ app'.synced = s
        /\ stage = "none" /\ stage' = "requested"
        /\ Quiescent /\ ~AwaitsRefresh /\ MayStart /\ faults = 0
    BY <1>2, <1>a, <1>q, <2>o DEF StartSync, MayStart, Store, Apps
  <2>3. /\ [i \in DOMAIN revs |-> Unknown] = NoRevs(Sources)
        /\ app.operation = <<>>
    <3>1. DOMAIN revs = DOMAIN Sources
      BY <1>a DEF Resolvable
    <3> QED
      BY <1>a, <2>2, <3>1 DEF NoRevs, Types, SyncTypes
  <2>4. HandledNow' = Len(app.history)
    BY <2>2 DEF HandledNow
  <2>5. ASSUME NEW i \in DOMAIN Sources, NEW k \in 1 .. Len(app.history)
        PROVE  app.history[k].revs[i] <= SliceGetString(app.gits, i)
    <3>1. CASE HandledNow = Len(app.history)
      BY <1>f, <3>1
    <3>2. CASE HandledNow # Len(app.history)
      <4> DEFINE n == Len(app.history)
      <4>1. n # 0 /\ app.history[n].revs = app.result /\ HandledNow = n - 1
        BY <2>2, <3>2 DEF HandledNow, LastEntry
      <4>2. app.synced /\ app.result # <<>> /\ n \in DOMAIN app.history
        BY <1>e, <2>2, <4>1 DEF AwaitsRefresh, LastEntry
      <4>3. Cur(app, i) = app.history[n].revs[i] /\ app.history[n].revs[i] \in Nat \ {0}
        BY <1>a, <1>e, <4>1, <4>2, CurIs, HistoryIs
      <4>4. SliceGetString(app.gits, i) = app.history[n].revs[i]
        <5>1. Cur(app, i) # Unknown
          BY <4>3 DEF Unknown
        <5> QED
          BY <2>2, <4>3, <5>1, CaughtUpSays
      <4>5. CASE k = n
        BY <4>3, <4>4, <4>5
      <4>6. CASE k # n
        <5>1. k \in 1 .. (n - 1)
          BY <1>a, <4>6
        <5> QED
          BY <1>f, <4>1, <5>1
      <4> QED
        BY <4>5, <4>6
    <3> QED
      BY <3>1, <3>2
  <2>6. SyncedShows(app')
    <3>1. s => app.synced
      BY <2>1
    <3> QED
      BY <1>s, <2>2, <2>3, <3>1 DEF SyncedShows
  <2>7. TargetNamed'
    BY <2>1, <2>2, <2>3 DEF TargetNamed
  <2> QED
    BY <1>c, <1>m, <1>t, <2>2, <2>4, <2>5, <2>6, <2>7
<1>3. CASE ShowResult
  <2>2. /\ app'.history = app.history /\ app'.syncRevs = app.syncRevs
        /\ app'.operation = app.operation /\ app'.synced = app.synced
        /\ target' = target /\ stage = "requested" /\ stage' = "running"
    BY <1>3, <1>a DEF ShowResult, Store, Apps
  <2>3. HandledNow = Len(app.history) /\ app.operation # <<>>
    BY <1>a, <2>2 DEF HandledNow, Types, SyncTypes
  <2>4. SyncedShows(app') /\ TargetNamed'
    BY <1>s, <2>2, <2>3 DEF SyncedShows, TargetNamed
  <2>5. \A i \in DOMAIN Sources : \A k \in 1 .. HandledNow' :
          app'.history[k].revs[i] <= SliceGetString(app'.gits, i)
    BY <1>h, <2>2, <2>3
  <2> QED
    BY <1>c, <1>n, <1>t, <1>u, <2>2, <2>4, <2>5
<1>4. CASE RecordSync
  <2> DEFINE e == [sources |-> Sources, revs |-> target]
  <2>2. /\ app'.history = Append(app.history, e) /\ app'.syncRevs = app.syncRevs
        /\ app'.operation = app.operation /\ app'.synced = app.synced
        /\ target' = target /\ stage \in {"requested", "running"} /\ stage' = "recorded"
    BY <1>4, <1>a DEF RecordSync, Store, Apps
  <2>3. /\ Len(app'.history) = Len(app.history) + 1
        /\ app'.history[Len(app'.history)] = e
        /\ \A k \in 1 .. Len(app.history) : app'.history[k] = app.history[k]
    BY <1>a, <2>2
  <2>4. HandledNow' = Len(app.history) /\ HandledNow = Len(app.history)
    <3>1. Len(app'.history) # 0 /\ Len(app'.history) - 1 = Len(app.history)
      BY <1>a, <2>3
    <3> QED
      BY <2>2, <3>1 DEF HandledNow
  <2>5. \A i \in DOMAIN Sources : \A k \in 1 .. HandledNow' :
          app'.history[k].revs[i] <= SliceGetString(app'.gits, i)
    BY <1>c, <1>f, <2>3, <2>4
  <2>6. SyncedShows(app') /\ TargetNamed'
    <3>1. app.operation # <<>>
      BY <1>a, <2>2 DEF Types, SyncTypes
    <3> QED
      BY <1>s, <2>2, <3>1 DEF SyncedShows, TargetNamed
  <2> QED
    BY <1>4, <1>c, <1>n, <1>t, <1>u, <2>2, <2>5, <2>6
<1>5. CASE FinishSync
  <2>2. /\ app'.history = app.history /\ app'.operation = <<>> /\ app'.result = target
        /\ app'.synced = app.synced /\ app'.syncRevs = app.syncRevs
        /\ stage = "recorded" /\ stage' = "none"
    BY <1>5, <1>a DEF FinishSync, NoSync, Store, Apps
  <2>3. app.history # <<>> /\ LastEntry.revs = target
    BY <1>a, <2>2 DEF SyncStages
  <2>4. SyncedShows(app') /\ TargetNamed'
    BY <1>s, <2>2, <2>3 DEF SyncedShows, TargetNamed, LastEntry
  <2>5. \A i \in DOMAIN Sources : \A k \in 1 .. HandledNow' :
          app'.history[k].revs[i] <= SliceGetString(app'.gits, i)
    <3>1. app'.history[Len(app'.history)].revs = app'.result
      BY <2>2, <2>3 DEF LastEntry
    <3> QED
      BY <1>h, <2>2, <3>1
  <2> QED
    BY <1>c, <1>n, <1>t, <1>u, <2>2, <2>4, <2>5
<1>6. CASE FailSync
  <2>2. /\ app'.history = app.history /\ app'.operation = <<>> /\ app'.result = target
        /\ ~app'.synced /\ stage \in {"requested", "running"} /\ stage' = "none"
    BY <1>6, <1>a DEF FailSync, NoSync, Store, Apps
  <2>3. HandledNow = Len(app.history)
    BY <2>2 DEF HandledNow
  <2>4. SyncedShows(app') /\ TargetNamed'
    BY <2>2 DEF SyncedShows, TargetNamed
  <2>5. \A i \in DOMAIN Sources : \A k \in 1 .. HandledNow' :
          app'.history[k].revs[i] <= SliceGetString(app'.gits, i)
    BY <1>h, <2>2, <2>3
  <2> QED
    BY <1>c, <1>n, <1>t, <1>u, <2>2, <2>4, <2>5
<1>7. CASE Refresh
  <2>2. /\ app'.history = app.history /\ app'.operation = app.operation
        /\ app'.result = app.result /\ target' = target /\ stage' = stage
        /\ app'.syncRevs = IF stage = "none" THEN app.result ELSE target
        /\ stage \in {"running", "recorded"} \/ AwaitsRefresh
    BY <1>7, <1>a DEF Refresh, Store, Apps
  <2>3. /\ app'.syncRevs # <<>> /\ ~Untouched(app)
        /\ stage = "none" => app.history[Len(app.history)].revs = app.result
    <3>1. CASE stage # "none"
      BY <1>u, <2>2, <3>1
    <3>2. CASE stage = "none"
      BY <1>e, <2>2, <3>2 DEF AwaitsRefresh, Untouched, LastEntry
    <3> QED
      BY <3>1, <3>2
  <2>4. SyncedShows(app') /\ TargetNamed'
    <3>1. stage # "none" => app.operation # <<>>
      BY <1>a DEF Types, SyncTypes
    <3> QED
      BY <1>s, <2>2, <2>3, <3>1 DEF SyncedShows, TargetNamed
  <2>5. \A i \in DOMAIN Sources : \A k \in 1 .. HandledNow' :
          app'.history[k].revs[i] <= SliceGetString(app'.gits, i)
    <3>1. stage' \in {"requested", "running"} => HandledNow = Len(app.history)
      BY <2>2 DEF HandledNow
    <3> QED
      BY <1>h, <2>2, <2>3, <3>1
  <2> QED
    BY <1>c, <1>n, <1>t, <2>2, <2>3, <2>4, <2>5
<1>8. CASE EditSources \/ Recompare
  BY <1>8, <1>a DEF EditSources, Recompare
<1> QED
  BY <1>1, <1>2, <1>3, <1>4, <1>5, <1>6, <1>7, <1>8 DEF ArgoCD

\* What the pairs are compared with after a step.
LEMMA PairsRightNext ==
  ASSUME touches' = touches,
         \A a \in Seen', i \in DOMAIN Sources : Sources[i] \notin Helm =>
           SliceGetString(a.chgs, i) = RightChange(app'.history, i, SliceGetString(a.gits, i))
  PROVE  PairsRight'
BY DEF PairsRight, RightChange, Newest

\* A history entry more.
LEMMA EntryMore ==
  ASSUME Edits = {}, Types, app.sources = Sources, RecordSync,
         app'.history = Append(app.history, [sources |-> Sources, revs |-> target]),
         NEW i \in DOMAIN Sources
  PROVE  /\ Len(app'.history) = Len(app.history) + 1 /\ app'.history # <<>>
         /\ DOMAIN app'.history = 1 .. (Len(app.history) + 1)
         /\ Len(app.history) \in Nat /\ DOMAIN app.history = 1 .. Len(app.history)
         /\ \A k \in DOMAIN app.history : app'.history[k] = app.history[k]
         /\ app'.history[Len(app.history) + 1].revs[i] = target[i]
         /\ target[i] \in Nat \ {0}
<1> DEFINE e == [sources |-> Sources, revs |-> target]
<1>1. app.history \in Seq(Entries) /\ target \in RevsOf(Sources) /\ Sources \in Lists
  BY DEF Types, SyncTypes, OwnApps, Apps, Lists, RecordSync
<1>2. target[i] \in CommitsOf[Sources[i]] /\ Sources[i] \in SourceIds
  BY <1>1, ListsType DEF RevsOf
<1>3. target[i] \in Nat \ {0}
  BY <1>2, CommitsAreNats
<1>4. /\ Len(app'.history) = Len(app.history) + 1 /\ Len(app.history) \in Nat
      /\ DOMAIN app.history = 1 .. Len(app.history)
      /\ DOMAIN app'.history = 1 .. (Len(app.history) + 1)
      /\ \A k \in DOMAIN app.history : app'.history[k] = app.history[k]
      /\ app'.history[Len(app.history) + 1] = e
  <2> HIDE DEF e
  <2> QED
    BY <1>1 DEF e
<1>5. app'.history # <<>>
  <2>1. Len(app'.history) # Len(<<>>)
    BY <1>4
  <2> QED
    BY <2>1
<1> QED
  BY <1>3, <1>4, <1>5

\* Argo CD's steps.
LEMMA ArgoCDTurn ==
  ASSUME Edits = {}, IInv, IInv', GrowInv, TurnInv, ArgoCD, InTurn', ~misread'
  PROVE  Turn'
<1> DEFINE h == app.history
           more == /\ RecordSync
                   /\ app'.history = Append(h, [sources |-> Sources, revs |-> target])
<1>d. ~misread /\ slot' = slot /\ snap' = snap
  BY ArgoCDStores DEF controller
<1>i. /\ InTurn /\ app'.chgs = app.chgs /\ app'.gits = app.gits
      /\ app.chgs # <<>> /\ app.gits # <<>>
      /\ ~Quiescent => ~Untouched(app)
      /\ app'.history = h \/ more
      /\ SyncedShows(app') /\ TargetNamed'
      /\ \A i \in DOMAIN Sources : \A k \in 1 .. HandledNow' :
           app'.history[k].revs[i] <= SliceGetString(app'.gits, i)
  BY <1>d, ArgoCDInTurn DEF TurnInv
<1>t. Turn /\ Types /\ faults = 0 /\ touches' = touches
  BY <1>d, <1>i, TouchesUnchanged DEF TurnInv, IInv, InTurn, Next
<1>n. Types' /\ app'.sources = Sources
  <2>1. app \in Apps /\ ~edited /\ app.sources = Sources
    BY <1>t DEF Types, OwnApps, GrowInv, Seen, Form
  <2> QED
    BY <2>1, ArgoCDAnnotations DEF IInv
<1>o. /\ watch \in Seq(OwnApps) /\ app \in OwnApps /\ app' \in OwnApps /\ app.sources = Sources
      /\ app \in Seen /\ h \in Seq(Entries) /\ app'.history \in Seq(Entries)
  BY <1>n, <1>t DEF Types, GrowInv, Seen, Form, OwnApps, Apps
<1>p. Pending' \subseteq Pending \cup {app'} /\ Seen' \subseteq Seen \cup {app'}
  <2>1. PICK a : Store(a)
    BY ArgoCDStores
  <2>2. watch' = watch \/ watch' = Append(watch, app')
    BY <2>1 DEF Store
  <2>3. \A k \in DOMAIN watch' :
          (k \in DOMAIN watch /\ watch'[k] = watch[k]) \/ watch'[k] = app'
    BY <1>o, <2>2
  <2> QED
    BY <1>d, <2>3 DEF Pending, Seen
<1>m. ASSUME more, NEW i \in DOMAIN Sources
      PROVE  /\ Len(app'.history) = Len(h) + 1 /\ app'.history # <<>>
             /\ DOMAIN app'.history = 1 .. (Len(h) + 1)
             /\ Len(h) \in Nat /\ DOMAIN h = 1 .. Len(h)
             /\ \A k \in DOMAIN h : app'.history[k] = h[k]
             /\ app'.history[Len(h) + 1].revs[i] = target[i]
             /\ target[i] \in Nat \ {0}
  BY <1>m, <1>o, <1>t, EntryMore
<1>e. (h # <<>> => Len(h) # 0) /\ Len(h) \in Nat /\ (h # <<>> => 1 \in DOMAIN h)
  <2>1. h # <<>> => Len(h) # 0
    BY <1>o, EmptySeq
  <2> QED
    BY <1>o, <2>1
<1>u. ASSUME more, NEW a \in Seen, NEW i \in DOMAIN Sources
      PROVE  Cur(a, i) <= target[i] /\ SliceGetString(a.gits, i) <= target[i]
  <2>1. target # <<>> /\ Aim = target
    <3>1. stage # "none" /\ target \in RevsOf(Sources) /\ Sources \in Lists
      BY <1>o, <1>t, <1>u DEF RecordSync, Types, SyncTypes, Lists
    <3> QED
      BY <3>1, RevsOfType DEF Aim
  <2> QED
    BY <1>u, <2>1 DEF GrowInv, CeilingHolds, UnderCeiling, Ann
<1>f. ASSUME more, h # <<>>
      PROVE  app'.history[1] = h[1] /\ app'.history # <<>>
  <2>1. 1 \in DOMAIN Sources
    BY ListsType DEF Lists
  <2> QED
    BY <1>e, <1>f, <1>m, <2>1
<1> HIDE DEF more
<1>1. AnnotatedFirst'
  <2>1. CASE Quiescent
    <3>1. Pending = {} /\ Seen = {app}
      BY <1>t, <2>1, CaughtUpSays
    <3>2. Seen' \subseteq {app'}
      BY <1>p, <3>1 DEF Seen
    <3> QED
      BY <1>i, <3>2 DEF AnnotatedFirst
  <2>2. CASE ~Quiescent
    <3>1. \A a \in Seen : a.chgs # <<>> /\ a.gits # <<>>
      BY <1>i, <1>o, <1>t, <2>2 DEF Turn, AnnotatedFirst
    <3> QED
      BY <1>i, <1>p, <3>1 DEF AnnotatedFirst
  <2> QED
    BY <2>1, <2>2
<1>2. PairsRight'
  <2>1. ASSUME NEW a \in Seen, NEW i \in DOMAIN Sources, Sources[i] \notin Helm
        PROVE  SliceGetString(a.chgs, i) = RightChange(app'.history, i, SliceGetString(a.gits, i))
    <3> DEFINE g == SliceGetString(a.gits, i)
    <3>1. SliceGetString(a.chgs, i) = RightChange(h, i, g)
      BY <1>t, <2>1 DEF Turn, PairsRight
    <3>2. CASE app'.history = h
      BY <3>1, <3>2
    <3>3. CASE more /\ h # <<>>
      <4>1. app'.history[1] = h[1] /\ app'.history # <<>>
        BY <1>f, <3>3
      <4> QED
        BY <3>1, <3>3, <4>1 DEF RightChange
    <3>4. CASE more /\ h = <<>>
      <4>1. app'.history[1].revs[i] = target[i]
        BY <1>m, <3>4
      <4>2. g <= target[i]
        BY <1>u, <3>4
      <4>3. RightChange(h, i, g) = g
        BY <3>4 DEF RightChange
      <4> HIDE DEF g, h
      <4>4. RightChange(app'.history, i, g) = g
        BY <4>1, <4>2 DEF RightChange
      <4> QED
        BY <3>1, <4>3, <4>4 DEF g, h
    <3> QED
      BY <1>i, <3>2, <3>3, <3>4
  <2>2. \A a \in Seen', i \in DOMAIN Sources : Sources[i] \notin Helm =>
          SliceGetString(a.chgs, i) = RightChange(app'.history, i, SliceGetString(a.gits, i))
    BY <1>i, <1>o, <1>p, <2>1
  <2> QED
    BY <1>t, <2>2, PairsRightNext
<1>3. HandledReached'
  <2>0. HandledUpTo(app') \in Int /\ HandledNow' \in Int /\ HandledUpTo(app') <= HandledNow'
    <3>1. (IInv /\ TargetNamed =>
             /\ HandledUpTo(app) \in Int /\ HandledNow \in Int
             /\ HandledUpTo(app) <= HandledNow)'
      BY HandledShown, PTL
    <3> QED
      BY <1>i, <3>1 DEF HandledUpTo
  <2>1. ASSUME NEW a \in Seen', NEW i \in DOMAIN Sources, NEW k \in 1 .. HandledUpTo(a)
        PROVE  a.history[k].revs[i] <= SliceGetString(a.gits, i)
    <3>1. CASE a \in Seen
      BY <1>t, <3>1 DEF Turn, HandledReached
    <3>2. CASE a = app'
      <4>1. k \in 1 .. HandledNow'
        BY <2>0, <3>2
      <4> QED
        BY <1>i, <3>2, <4>1
    <3> QED
      BY <1>p, <3>1, <3>2
  <2> QED
    BY <1>i, <2>1 DEF HandledReached, HandledUpTo
<1>4. HistoryGrows'
  <2>1. Len(h) <= Len(app'.history) /\ \A k \in DOMAIN h : app'.history[k] = h[k]
    <3>1. 1 \in DOMAIN Sources
      BY ListsType DEF Lists
    <3> QED
      BY <1>e, <1>i, <1>m, <3>1
  <2>2. ASSUME NEW a \in Seen'
        PROVE  /\ Len(a.history) <= Len(app'.history)
               /\ \A k \in DOMAIN a.history : a.history[k] = app'.history[k]
    <3>1. CASE a \in Seen
      <4>1. a.history \in Seq(Entries)
        BY <1>t, <3>1, SeenTypes DEF OwnApps, Apps
      <4>2. Len(a.history) <= Len(h) /\ \A k \in DOMAIN a.history : a.history[k] = h[k]
        BY <1>t, <3>1 DEF Turn, HistoryGrows
      <4>3. DOMAIN a.history \subseteq DOMAIN h
        BY <1>o, <4>1, <4>2
      <4>4. Len(a.history) \in Nat /\ Len(app'.history) \in Nat
        BY <1>o, <4>1
      <4> QED
        BY <1>e, <2>1, <4>2, <4>3, <4>4
    <3>2. CASE a = app'
      <4>1. Len(app'.history) \in Nat
        BY <1>o
      <4> QED
        BY <3>2, <4>1
    <3> QED
      BY <1>p, <3>1, <3>2
  <2> QED
    BY <2>2 DEF HistoryGrows
<1>5. FirstSync'
  <2>1. ASSUME NEW a \in Seen', NEW i \in DOMAIN Sources, a.history = <<>>, app'.history # <<>>
        PROVE  Cur(a, i) <= app'.history[1].revs[i]
    <3>1. a \in Seen
      BY <1>p, <2>1
    <3>2. CASE app'.history = h
      BY <1>t, <2>1, <3>1, <3>2 DEF Turn, FirstSync
    <3>3. CASE more /\ h # <<>>
      BY <1>f, <1>t, <2>1, <3>1, <3>3 DEF Turn, FirstSync
    <3>4. CASE more /\ h = <<>>
      <4>1. app'.history[1].revs[i] = target[i]
        BY <1>m, <3>4
      <4> QED
        BY <1>u, <3>1, <3>4, <4>1
    <3> QED
      BY <1>i, <3>2, <3>3, <3>4
  <2>2. ASSUME NEW k \in DOMAIN app'.history, NEW i \in DOMAIN Sources
        PROVE  app'.history[1].revs[i] <= app'.history[k].revs[i]
    <3>2. CASE app'.history = h
      BY <1>t, <2>2, <3>2 DEF Turn, FirstSync
    <3>3. CASE more /\ h # <<>> /\ k \in DOMAIN h
      <4>1. app'.history[k] = h[k] /\ app'.history[1] = h[1]
        BY <1>f, <1>m, <3>3
      <4> QED
        BY <1>t, <3>3, <4>1 DEF Turn, FirstSync
    <3>4. CASE more /\ h # <<>> /\ k = Len(h) + 1
      <4>1. app'.history[k].revs[i] = target[i] /\ app'.history[1] = h[1]
        BY <1>f, <1>m, <3>4
      <4>2. HandledNow = Len(h)
        BY <3>4 DEF HandledNow, RecordSync, more
      <4>3. h[1].revs[i] <= SliceGetString(app.gits, i)
        <5>1. 1 \in 1 .. HandledNow
          BY <1>e, <3>4, <4>2
        <5> QED
          BY <1>o, <1>t, <5>1 DEF Turn, HandledReached
      <4>4. SliceGetString(app.gits, i) <= target[i]
        BY <1>o, <1>u, <3>4
      <4>5. /\ h[1].revs[i] \in Nat /\ SliceGetString(app.gits, i) \in Nat
            /\ target[i] \in Nat
        BY <1>e, <1>m, <1>o, <3>4, HistoryIs, AnnType
      <4> QED
        BY <4>1, <4>3, <4>4, <4>5
    <3>5. CASE more /\ h = <<>>
      <4>1. DOMAIN app'.history = 1 .. 1 /\ app'.history[1].revs[i] \in Nat
        BY <1>m, <3>5
      <4>2. k = 1
        BY <4>1
      <4> QED
        BY <4>1, <4>2
    <3>6. more => k \in DOMAIN h \/ k = Len(h) + 1
      BY <1>m
    <3> QED
      BY <1>i, <3>2, <3>3, <3>4, <3>5, <3>6
  <2> QED
    BY <2>1, <2>2 DEF FirstSync
<1>6. GitOnlyGrows'
  <2>1. ASSUME NEW x \in Pending', NEW i \in DOMAIN Sources
        PROVE  SliceGetString(x.gits, i) <= SliceGetString(app'.gits, i)
    <3>1. CASE x \in Pending
      BY <1>i, <1>t, <3>1 DEF Turn, GitOnlyGrows
    <3>2. CASE x = app'
      <4>1. SliceGetString(app'.gits, i) \in Nat
        BY <1>o, AnnType
      <4> QED
        BY <3>2, <4>1
    <3> QED
      BY <1>p, <3>1, <3>2
  <2> QED
    BY <2>1 DEF GitOnlyGrows
<1>7. \A a \in Seen' : SyncedShows(a)
  BY <1>i, <1>p, <1>t DEF Turn
<1>8. \A k \in DOMAIN snap' : ~Misleading(snap'[k])
  BY <1>d, <1>t DEF Turn
<1> QED
  BY <1>1, <1>2, <1>3, <1>4, <1>5, <1>6, <1>7, <1>8, <1>i DEF Turn, Misleading

\* Steps that leave the application alone.
LEMMA SameAppTurn ==
  ASSUME Types, Turn, UNCHANGED <<touches, stage, target, app>>, Pending' \subseteq Seen,
         \A k \in DOMAIN snap' : ~Misleading(snap'[k])
  PROVE  Turn'
<1>1. Seen' \subseteq Seen /\ app \in Seen
  BY DEF Seen
<1>2. AnnotatedFirst'
  BY <1>1 DEF Turn, AnnotatedFirst
<1>3. PairsRight'
  <2>1. \A a \in Seen', i \in DOMAIN Sources : Sources[i] \notin Helm =>
          SliceGetString(a.chgs, i) = RightChange(app'.history, i, SliceGetString(a.gits, i))
    BY <1>1 DEF Turn, PairsRight
  <2> QED
    BY <2>1, PairsRightNext
<1>4. HandledReached' /\ HistoryGrows' /\ FirstSync' /\ TargetNamed'
  <2>1. HandledNow' = HandledNow
    BY DEF HandledNow, LastEntry
  <2>2. HandledReached'
    BY <1>1, <2>1 DEF Turn, HandledReached, HandledUpTo
  <2> QED
    BY <1>1, <2>2 DEF Turn, HistoryGrows, FirstSync, TargetNamed
<1>5. GitOnlyGrows'
  <2>1. ASSUME NEW x \in Pending', NEW i \in DOMAIN Sources
        PROVE  SliceGetString(x.gits, i) <= SliceGetString(app.gits, i)
    <3>1. CASE x \in Pending
      BY <3>1 DEF Turn, GitOnlyGrows
    <3>2. CASE x = app
      <4>1. SliceGetString(app.gits, i) \in Nat
        BY AnnType DEF Types
      <4> QED
        BY <3>2, <4>1
    <3> QED
      BY <3>1, <3>2 DEF Seen
  <2> QED
    BY <2>1 DEF GitOnlyGrows
<1>6. \A a \in Seen' : SyncedShows(a)
  BY <1>1 DEF Turn
<1> QED
  BY <1>2, <1>3, <1>4, <1>5, <1>6 DEF Turn, Misleading

\* What the application says after the patch: the revisions the copy shows,
\* and the change that belongs to them, if it shows any.
LEMMA PatchSays ==
  ASSUME Edits = {}, IInv, GrowInv, Turn, faults = 0, Patch
  PROVE  /\ app'.history = app.history /\ app'.synced = app.synced
         /\ app'.syncRevs = app.syncRevs /\ app'.operation = app.operation
         /\ app'.result = app.result
         /\ \/ (\A a \in Seen : Untouched(a)) /\ Untouched(app')
            \/ /\ \A a \in Seen : a.chgs # <<>> /\ a.gits # <<>>
               /\ app'.chgs = app.chgs /\ app'.gits = app.gits
            \/ /\ \A a \in Seen : a.chgs # <<>> /\ a.gits # <<>>
               /\ app'.chgs # <<>> /\ app'.gits # <<>>
               /\ \A i \in DOMAIN Sources :
                    /\ Cur(snap[1], i) # Unknown
                    /\ SliceGetString(app'.gits, i) = Cur(snap[1], i)
                    /\ Sources[i] \notin Helm =>
                         SliceGetString(app'.chgs, i)
                           = RightChange(app.history, i, Cur(snap[1], i))
<1> DEFINE q == snap[1]
           new == NewOf(q, ForeignOf(q))
           want == WantedAnnotations(new)
<1>o. /\ Types /\ app \in OwnApps /\ pc = "patch" /\ Len(snap) = 1 /\ snap \in Seq(OwnApps)
      /\ patch = PatchOf(q, ForeignOf(q)) /\ app' = MergePatch(app, patch)
  BY DEF IInv, Types, NothingMissed, Patch, Store
<1>q. q \in OwnApps /\ q \in Pending /\ q \in Seen /\ app \in Seen
  <2>1. 1 \in DOMAIN snap
    BY <1>o
  <2>2. snap[1] \in OwnApps
    BY <1>o, OneElement
  <2> QED
    BY <2>1, <2>2 DEF Pending, Seen
<1>y. /\ Seen \subseteq OwnApps /\ Form(q) /\ q.sources = Sources
      /\ \A i \in DOMAIN Sources : Cur(q, i) \in Nat
  BY <1>o, <1>q, SeenTypes, CurType DEF GrowInv, Form
<1>m. /\ app'.history = app.history /\ app'.synced = app.synced
      /\ app'.syncRevs = app.syncRevs /\ app'.operation = app.operation
      /\ app'.result = app.result
      /\ app'.chgs = IF q.chgs # want.chgs THEN want.chgs ELSE app.chgs
      /\ app'.gits = IF q.gits # want.gits THEN want.gits ELSE app.gits
  BY <1>o, <1>q, <1>y, PatchedIs
<1>w. /\ want.chgs \in RevSeqs /\ want.chgs # <<>>
      /\ want.gits \in RevSeqs /\ want.gits # <<>>
      /\ \A i \in DOMAIN Sources : want.chgs[i] = new[i].change /\ want.gits[i] = new[i].git
  BY <1>o, <1>q, <1>y, PatchedIs
<1>g. \A i \in DOMAIN Sources : /\ SliceGetString(want.chgs, i) = new[i].change
                                /\ SliceGetString(want.gits, i) = new[i].git
  BY <1>w, RevSeqsFixed
<1>a. \A a \in Seen, i \in DOMAIN Sources :
        /\ SliceGetString(a.chgs, i) \in Nat /\ SliceGetString(a.gits, i) \in Nat
        /\ \A v \in Ann(a, i) : UnderCur(v, q, i)
  BY <1>q, <1>y, AnnType DEF GrowInv, AnnotatedBefore
<1>n. ASSUME NEW i \in DOMAIN Sources
      PROVE  /\ Cur(q, i) = Unknown => /\ new[i].change = SliceGetString(q.chgs, i)
                                       /\ new[i].git = SliceGetString(q.gits, i)
             /\ Cur(q, i) # Unknown => new[i].git = Cur(q, i)
  <2>1. \A v \in Ann(q, i) : UnderCur(v, q, i)
    BY <1>a, <1>q
  <2> QED
    BY <1>o, <1>q, <1>y, <2>1, WantedUnderCur
<1>r. ASSUME NEW i \in DOMAIN Sources, Cur(q, i) # Unknown, Sources[i] \notin Helm
      PROVE  new[i].change = RightChange(app.history, i, Cur(q, i))
  <2>1. SliceGetString(q.gits, i) <= Cur(q, i)
    BY <1>a, <1>q, <1>r DEF Ann, UnderCur
  <2>2. ~Misleading(q)
    BY <1>o DEF Turn
  <2> QED
    BY <1>o, <1>q, <1>r, <2>1, <2>2, WantedRight
<1> HIDE DEF q, new, want
<1>1. CASE \A a \in Seen : Untouched(a)
  <2>1. \A i \in DOMAIN Sources : /\ SliceGetString(q.chgs, i) = Unknown
                                  /\ SliceGetString(q.gits, i) = Unknown
                                  /\ SliceGetString(app.chgs, i) = Unknown
                                  /\ SliceGetString(app.gits, i) = Unknown
    BY <1>1, <1>q DEF Untouched, Ann
  <2>2. \A i \in DOMAIN Sources : Cur(q, i) = Unknown
    <3>1. q.history = <<>> /\ q.operation = <<>> /\ ~q.synced
      BY <1>1, <1>q DEF Untouched
    <3> QED
      BY <1>q, <3>1, CurIs
  <2>3. \A i \in DOMAIN Sources : Ann(app', i) = {Unknown}
    BY <1>g, <1>m, <1>n, <2>1, <2>2 DEF Ann
  <2>4. Untouched(app')
    <3>1. Untouched(app)
      BY <1>1, <1>q
    <3> QED
      BY <1>m, <2>3, <3>1 DEF Untouched
  <2> QED
    BY <1>1, <1>m, <2>4
<1>2. CASE /\ \A a \in Seen : a.chgs # <<>> /\ a.gits # <<>>
           /\ \A i \in DOMAIN Sources : Cur(q, i) = Unknown
  <2>1. q.chgs \in RevSeqs /\ q.gits \in RevSeqs /\ q.chgs # <<>> /\ q.gits # <<>>
    BY <1>2, <1>q DEF OwnApps, Apps
  <2>2. ASSUME NEW r \in RevSeqs, r # <<>>, NEW x \in RevSeqs, x # <<>>,
               \A i \in DOMAIN Sources : x[i] = SliceGetString(r, i)
        PROVE  r = x
    <3>1. r \in [DOMAIN Sources -> Revisions] /\ x \in [DOMAIN Sources -> Revisions]
      BY <2>2, RevSeqsFixed
    <3>2. \A i \in DOMAIN Sources : x[i] = r[i]
      BY <2>2, RevSeqsFixed
    <3> QED
      BY <3>1, <3>2
  <2>3. q.chgs = want.chgs /\ q.gits = want.gits
    BY <1>2, <1>n, <1>w, <2>1, <2>2
  <2> QED
    BY <1>2, <1>m, <2>3
<1>3. CASE /\ \A a \in Seen : a.chgs # <<>> /\ a.gits # <<>>
           /\ \A i \in DOMAIN Sources : Cur(q, i) # Unknown
  <2>1. app'.chgs # <<>> /\ app'.gits # <<>>
    BY <1>3, <1>m, <1>q, <1>w
  <2>2. ASSUME NEW i \in DOMAIN Sources
        PROVE  /\ SliceGetString(app'.gits, i) = Cur(q, i)
               /\ Sources[i] \notin Helm =>
                    SliceGetString(app'.chgs, i) = RightChange(app.history, i, Cur(q, i))
    <3>1. /\ SliceGetString(q.gits, i) <= SliceGetString(app.gits, i)
          /\ SliceGetString(app.gits, i) <= Cur(q, i)
      BY <1>3, <1>a, <1>q DEF Turn, GitOnlyGrows, Ann, UnderCur
    <3>2. SliceGetString(app'.gits, i) = Cur(q, i)
      <4>1. CASE q.gits # want.gits
        BY <1>3, <1>g, <1>m, <1>n, <4>1
      <4>2. CASE q.gits = want.gits
        <5>1. SliceGetString(q.gits, i) = Cur(q, i) /\ app'.gits = app.gits
          BY <1>3, <1>g, <1>m, <1>n, <4>2
        <5> QED
          BY <1>a, <1>q, <1>y, <3>1, <5>1
      <4> QED
        BY <4>1, <4>2
    <3>3. ASSUME Sources[i] \notin Helm
          PROVE  SliceGetString(app'.chgs, i) = RightChange(app.history, i, Cur(q, i))
      <4>1. CASE q.chgs # want.chgs
        BY <1>3, <1>g, <1>m, <1>r, <3>3, <4>1
      <4>2. CASE q.chgs = want.chgs
        <5> DEFINE f == SliceGetString(q.gits, i)
                   g == SliceGetString(app.gits, i)
                   R(x) == RightChange(app.history, i, x)
        <5>1. R(Cur(q, i)) = R(f) /\ SliceGetString(app'.chgs, i) = R(g)
          <6>1. SliceGetString(q.chgs, i) = R(Cur(q, i)) /\ app'.chgs = app.chgs
            BY <1>3, <1>g, <1>m, <1>r, <3>3, <4>2
          <6>2. SliceGetString(q.chgs, i) = R(f) /\ SliceGetString(app.chgs, i) = R(g)
            BY <1>q, <3>3 DEF Turn, PairsRight
          <6> QED
            BY <6>1, <6>2
        <5>2. app.history # <<>> => app.history[1].revs[i] \in Nat \ {0}
          <6>1. app.history \in Seq(Entries)
            BY <1>o DEF OwnApps, Apps
          <6>2. app.history # <<>> => 1 \in DOMAIN app.history
            BY <6>1, EmptySeq
          <6> QED
            BY <1>o, <6>2, HistoryIs
        <5>3. f \in Nat /\ g \in Nat /\ Cur(q, i) \in Nat /\ f <= g /\ g <= Cur(q, i)
          BY <1>a, <1>q, <1>y, <3>1
        <5> HIDE DEF f, g
        <5>4. R(f) <= R(g) /\ R(g) <= R(Cur(q, i)) /\ R(f) \in Nat /\ R(g) \in Nat
          BY <1>o, <5>2, <5>3, RightGrows
        <5> HIDE DEF R
        <5>5. R(g) = R(Cur(q, i))
          BY <5>1, <5>4
        <5> QED
          BY <5>1, <5>5 DEF R
      <4> QED
        BY <4>1, <4>2
    <3> QED
      BY <3>2, <3>3
  <2> QED
    BY <1>3, <1>m, <2>1, <2>2 DEF q
<1>4. \/ \A i \in DOMAIN Sources : Cur(q, i) # Unknown
      \/ \A i \in DOMAIN Sources : Cur(q, i) = Unknown
  BY <1>q, <1>y, CurAllOrNone
<1> QED
  BY <1>1, <1>2, <1>3, <1>4 DEF Turn, AnnotatedFirst

\* The patch writes what was made of an outdated copy over the annotations of
\* now, and they are right all the same.
LEMMA PatchTurn ==
  ASSUME Edits = {}, IInv, Types', GrowInv, Turn, faults = 0, Patch
  PROVE  Turn'
<1> DEFINE q == snap[1]
           same == app'.chgs = app.chgs /\ app'.gits = app.gits
           shown == \A i \in DOMAIN Sources :
                      /\ Cur(q, i) # Unknown
                      /\ SliceGetString(app'.gits, i) = Cur(q, i)
                      /\ Sources[i] \notin Helm =>
                           SliceGetString(app'.chgs, i) = RightChange(app.history, i, Cur(q, i))
           none == (\A a \in Seen : Untouched(a)) /\ Untouched(app')
<1>m. /\ app'.history = app.history /\ app'.synced = app.synced
      /\ app'.syncRevs = app.syncRevs /\ app'.operation = app.operation
      /\ app'.result = app.result
      /\ \/ none
         \/ (\A a \in Seen : a.chgs # <<>> /\ a.gits # <<>>) /\ same
         \/ /\ \A a \in Seen : a.chgs # <<>> /\ a.gits # <<>>
            /\ app'.chgs # <<>> /\ app'.gits # <<>> /\ shown
  BY PatchSays
<1>o. /\ Types /\ app \in OwnApps /\ app' \in OwnApps /\ Len(snap) = 1 /\ snap \in Seq(OwnApps)
      /\ watch \in Seq(OwnApps) /\ app \in Seen
  BY DEF IInv, Types, Patch, Seen
<1>q. q \in Pending
  <2>1. 1 \in DOMAIN snap
    BY <1>o
  <2> QED
    BY <2>1 DEF Pending
<1>p. /\ Pending' \subseteq Pending \cup {app'} /\ Seen' \subseteq Seen \cup {app'}
      /\ touches' = touches
  <2>1. /\ watch' = watch \/ watch' = Append(watch, app')
        /\ snap' = <<>> /\ slot' = slot /\ touches' = touches
    BY DEF Patch, Store, Return, argocd
  <2>2. \A k \in DOMAIN watch' :
          (k \in DOMAIN watch /\ watch'[k] = watch[k]) \/ watch'[k] = app'
    BY <1>o, <2>1
  <2>3. DOMAIN snap' = {}
    BY <2>1
  <2> QED
    BY <2>1, <2>2, <2>3 DEF Pending, Seen
<1>c. \A i \in DOMAIN Sources : Cur(app', i) = Cur(app, i)
  BY <1>o, <1>m, CurIs
<1>a. \A a \in Seen, i \in DOMAIN Sources :
        /\ SliceGetString(a.gits, i) \in Nat
        /\ Cur(q, i) # Unknown => SliceGetString(a.gits, i) <= Cur(q, i)
  BY <1>o, <1>q, SeenTypes, AnnType DEF GrowInv, AnnotatedBefore, Ann, UnderCur
<1>g. \A i \in DOMAIN Sources : SliceGetString(app'.gits, i) \in Nat
  BY <1>o, AnnType
<1>z. ASSUME none, NEW i \in DOMAIN Sources
      PROVE  /\ app.history = <<>>
             /\ SliceGetString(app'.chgs, i) = 0 /\ SliceGetString(app'.gits, i) = 0
             /\ \A a \in Seen : SliceGetString(a.gits, i) = 0
  <2>1. ASSUME NEW a, Untouched(a)
        PROVE  /\ a.history = <<>>
               /\ SliceGetString(a.chgs, i) = 0 /\ SliceGetString(a.gits, i) = 0
    <3>1. Ann(a, i) = {Unknown} /\ a.history = <<>>
      BY <2>1 DEF Untouched
    <3> QED
      BY <3>1 DEF Ann, Unknown
  <2> QED
    BY <1>o, <1>z, <2>1
<1> HIDE DEF q, none, shown, same
<1>1. AnnotatedFirst'
  <2>1. CASE none
    BY <1>p, <2>1 DEF AnnotatedFirst, none
  <2>2. CASE (\A a \in Seen : a.chgs # <<>> /\ a.gits # <<>>) /\ same
    BY <1>o, <1>p, <2>2 DEF AnnotatedFirst, same
  <2>3. CASE /\ \A a \in Seen : a.chgs # <<>> /\ a.gits # <<>>
             /\ app'.chgs # <<>> /\ app'.gits # <<>>
    BY <1>p, <2>3 DEF AnnotatedFirst
  <2> QED
    BY <1>m, <2>1, <2>2, <2>3
<1>2. PairsRight'
  <2>1. ASSUME NEW a \in Seen', NEW i \in DOMAIN Sources, Sources[i] \notin Helm
        PROVE  SliceGetString(a.chgs, i) = RightChange(app.history, i, SliceGetString(a.gits, i))
    <3>1. CASE a \in Seen
      BY <2>1, <3>1 DEF Turn, PairsRight
    <3>2. CASE a = app' /\ same
      BY <1>o, <2>1, <3>2 DEF Turn, PairsRight, same
    <3>3. CASE a = app' /\ shown
      BY <2>1, <3>3 DEF shown
    <3>4. CASE a = app' /\ none
      <4>1. RightChange(app.history, i, 0) = 0
        BY <1>z, <3>4 DEF RightChange
      <4> QED
        BY <1>z, <3>4, <4>1
    <3> QED
      BY <1>m, <1>p, <3>1, <3>2, <3>3, <3>4
  <2> QED
    BY <1>m, <1>p, <2>1, PairsRightNext
<1>3. HandledReached'
  <2>0. /\ HandledUpTo(app') \in {Len(app.history), Len(app.history) - 1}
        /\ HandledNow \in {Len(app.history), Len(app.history) - 1}
        /\ HandledUpTo(app') = HandledUpTo(app) /\ HandledNow' = HandledNow
    BY <1>m DEF HandledUpTo, HandledNow, LastEntry, Patch, argocd
  <2>1. HandledUpTo(app) \in Int /\ HandledNow \in Int /\ HandledUpTo(app) <= HandledNow
    BY HandledShown DEF Turn
  <2>2. ASSUME NEW i \in DOMAIN Sources, NEW k \in 1 .. HandledNow
        PROVE  app.history[k].revs[i] <= SliceGetString(app'.gits, i)
    <3>1. app.history[k].revs[i] <= SliceGetString(app.gits, i)
      BY <1>o DEF Turn, HandledReached
    <3>2. CASE same
      BY <3>1, <3>2 DEF same
    <3>3. k \in DOMAIN app.history
      <4>1. Len(app.history) \in Nat /\ DOMAIN app.history = 1 .. Len(app.history)
        BY <1>o DEF OwnApps, Apps
      <4> QED
        BY <2>0, <4>1
    <3>4. CASE shown
      <4>1. app.history[k].revs[i] \in Nat
        BY <1>o, <3>3, HistoryIs
      <4>2. SliceGetString(app.gits, i) <= SliceGetString(app'.gits, i)
        BY <1>a, <1>o, <3>4 DEF shown
      <4> QED
        BY <1>a, <1>g, <1>o, <3>1, <4>1, <4>2
    <3>5. CASE none
      BY <1>z, <3>3, <3>5
    <3> QED
      BY <1>m, <3>2, <3>4, <3>5
  <2>3. ASSUME NEW a \in Seen', NEW i \in DOMAIN Sources, NEW k \in 1 .. HandledUpTo(a)
        PROVE  a.history[k].revs[i] <= SliceGetString(a.gits, i)
    <3>1. CASE a \in Seen
      BY <3>1 DEF Turn, HandledReached
    <3>2. CASE a = app'
      <4>1. k \in 1 .. HandledNow
        BY <2>0, <2>1, <3>2
      <4> QED
        BY <1>m, <2>2, <3>2, <4>1
    <3> QED
      BY <1>p, <3>1, <3>2
  <2> QED
    BY <1>m, <2>0, <2>2, <2>3 DEF HandledReached, HandledUpTo
<1>4. HistoryGrows'
  <2>1. Len(app.history) <= Len(app.history)
    <3>1. Len(app.history) \in Nat
      BY <1>o DEF OwnApps, Apps
    <3> QED
      BY <3>1
  <2> QED
    BY <1>m, <1>p, <2>1 DEF Turn, HistoryGrows
<1>5. FirstSync'
  <2>1. ASSUME NEW a \in Seen', NEW i \in DOMAIN Sources, a.history = <<>>, app'.history # <<>>
        PROVE  Cur(a, i) <= app'.history[1].revs[i]
    BY <1>m, <1>p, <2>1 DEF Turn, FirstSync
  <2>2. \A k \in DOMAIN app'.history, i \in DOMAIN Sources :
          app'.history[1].revs[i] <= app'.history[k].revs[i]
    BY <1>m DEF Turn, FirstSync
  <2> QED
    BY <2>1, <2>2 DEF FirstSync
<1>6. GitOnlyGrows'
  <2>1. ASSUME NEW x \in Pending', NEW i \in DOMAIN Sources
        PROVE  SliceGetString(x.gits, i) <= SliceGetString(app'.gits, i)
    <3>1. CASE x = app'
      BY <1>g, <3>1
    <3>2. CASE x \in Pending /\ same
      BY <3>2 DEF Turn, GitOnlyGrows, same
    <3>3. CASE x \in Pending /\ shown
      BY <1>a, <3>3 DEF shown, Seen
    <3>4. CASE x \in Pending /\ none
      BY <1>g, <1>z, <3>4 DEF Seen
    <3> QED
      BY <1>m, <1>p, <3>1, <3>2, <3>3, <3>4
  <2> QED
    BY <2>1 DEF GitOnlyGrows
<1>7. \A a \in Seen' : SyncedShows(a)
  <2>1. SyncedShows(app')
    BY <1>m, <1>o DEF Turn, SyncedShows
  <2> QED
    BY <1>p, <2>1 DEF Turn
<1>8. TargetNamed' /\ DOMAIN snap' = {}
  BY <1>m DEF Turn, TargetNamed, Patch, Return, argocd
<1> QED
  BY <1>1, <1>2, <1>3, <1>4, <1>5, <1>6, <1>7, <1>8 DEF Turn

\* The steps of the controller that leave the application alone, and a crash.
LEMMA ControllerTurn ==
  ASSUME Types, Turn, Controller \/ Crash, ~Patch, ~misread'
  PROVE  Turn'
<1>o. /\ watch \in Seq(OwnApps) /\ slot \in Seq(OwnApps) /\ Len(slot) <= 1
      /\ UNCHANGED <<touches, stage, target, app>>
  BY DEF Types, Controller, Handling, Deliver, Claim, Calculate, CalculatePartly,
         CalculateFails, PatchFails, Crash, argocd
<1>s. \A k \in DOMAIN snap : ~Misleading(snap[k])
  BY DEF Turn
<1>1. CASE Deliver
  <2>1. watch # <<>> /\ slot' = <<Head(watch)>> /\ watch' = Tail(watch) /\ snap' = snap
    BY <1>1 DEF Deliver
  <2>2. /\ 1 \in DOMAIN watch /\ slot' = <<watch[1]>>
        /\ \A k \in DOMAIN watch' : k + 1 \in DOMAIN watch /\ watch'[k] = watch[k + 1]
    BY <1>o, <2>1, EmptySeq
  <2>3. DOMAIN slot' = {1} /\ slot'[1] = watch[1]
    BY <2>2
  <2>4. Pending' \subseteq Seen
    BY <2>1, <2>2, <2>3 DEF Pending, Seen
  <2> QED
    BY <1>o, <1>s, <2>1, <2>4, SameAppTurn
<1>2. CASE Claim
  <2>1. Pending' \subseteq Seen
    BY <1>2 DEF Claim, Pending, Seen
  <2>2. slot # <<>> /\ snap' = slot /\ ~Misleading(slot[1])
    BY <1>2 DEF Claim
  <2>3. DOMAIN slot = {1}
    BY <1>o, <2>2, OneElement
  <2> QED
    BY <1>o, <2>1, <2>2, <2>3, SameAppTurn
<1>3. CASE slot' = slot /\ watch' = watch /\ (snap' = snap \/ snap' = <<>>)
  <2>1. Pending' \subseteq Seen
    BY <1>3 DEF Pending, Seen
  <2>2. \A k \in DOMAIN snap' : ~Misleading(snap'[k])
    BY <1>3, <1>s
  <2> QED
    BY <1>o, <2>1, <2>2, SameAppTurn
<1>4. CASE Crash
  <2>1. watch' = <<app>> /\ slot' = <<>> /\ snap' = <<>>
    BY <1>4 DEF Crash, Return
  <2>2. DOMAIN watch' = {1} /\ watch'[1] = app /\ DOMAIN slot' = {} /\ DOMAIN snap' = {}
    BY <2>1
  <2>3. Pending' \subseteq Seen
    BY <2>2 DEF Pending, Seen
  <2> QED
    BY <1>o, <2>2, <2>3, SameAppTurn
<1>5. CASE Calculate \/ CalculatePartly
  <2>1. \E p : MadePatch(p)
    BY <1>5, CalculateMakes
  <2>2. snap' = snap \/ snap' = <<>>
    BY <2>1 DEF MadePatch, Return
  <2> QED
    BY <1>3, <1>5, <2>2 DEF Calculate, CalculatePartly
<1>6. CASE CalculateFails \/ PatchFails
  BY <1>3, <1>6 DEF CalculateFails, PatchFails, Return
<1> QED
  BY <1>1, <1>2, <1>4, <1>5, <1>6 DEF Controller, Handling

-----------------------------------------------------------------------------
(* What follows: the annotations are accurate.                             *)

\* The invariant holds initially.
LEMMA InitTurn ==
  ASSUME Init
  PROVE  Turn
<1> DEFINE first == [i \in DOMAIN Sources |-> Min(CommitsOf[Sources[i]])]
<1>1. /\ watch = <<app>> /\ slot = <<>> /\ snap = <<>> /\ stage = "none"
      /\ app = NewApp \/ app = SettledApp
  BY DEF Init
<1>2. DOMAIN watch = {1} /\ watch[1] = app /\ DOMAIN slot = {} /\ DOMAIN snap = {}
  BY <1>1
<1>3. Pending = {app} /\ Seen = {app}
  BY <1>2 DEF Pending, Seen
<1>4. /\ first # <<>>
      /\ \A i \in DOMAIN Sources : SliceGetString(first, i) = first[i] /\ first[i] \in Nat
  <2>1. first \in RevsOf(Sources) /\ Sources \in Lists
    BY FirstRevisions DEF Lists
  <2>2. first # <<>> /\ \A i \in DOMAIN Sources : SliceGetString(first, i) = first[i]
    BY <2>1, RevsOfType
  <2>3. \A i \in DOMAIN Sources : first[i] \in Nat
    BY <2>1, CommitsAreNats DEF RevsOf
  <2> QED
    BY <2>2, <2>3
<1>5. SettledApp = [NewApp EXCEPT
         !.history = <<[sources |-> Sources, revs |-> first]>>, !.synced = TRUE,
         !.syncRevs = first, !.result = first,
         !.chg = first[1], !.chgs = first, !.git = first[1], !.gits = first]
  BY DEF SettledApp
<1> HIDE DEF first
<1>6. CASE app = NewApp
  <2>1. /\ app.history = <<>> /\ app.operation = <<>> /\ app.synced = FALSE
        /\ app.result = <<>> /\ app.chgs = <<>> /\ app.gits = <<>>
    BY <1>6 DEF NewApp
  <2>2. \A i : SliceGetString(<<>>, i) = Unknown
    BY DEF SliceGetString
  <2>3. Untouched(app)
    BY <2>1, <2>2 DEF Untouched, Ann
  <2>4. /\ HandledUpTo(app) = 0 /\ HandledNow = 0
        /\ DOMAIN app.history = {} /\ Len(app.history) = 0
    BY <2>1 DEF HandledUpTo, HandledNow
  <2>5. AnnotatedFirst /\ PairsRight
    BY <1>3, <2>1, <2>2, <2>3 DEF AnnotatedFirst, PairsRight, RightChange
  <2>6. HandledReached /\ HistoryGrows /\ FirstSync
    <3>1. /\ 1 .. HandledUpTo(app) = {} /\ 1 .. HandledNow = {}
          /\ Len(app.history) <= Len(app.history)
      BY <2>4
    <3> QED
      BY <1>3, <2>1, <2>4, <3>1 DEF HandledReached, HistoryGrows, FirstSync
  <2>7. GitOnlyGrows /\ \A a \in Seen : SyncedShows(a)
    BY <1>3, <2>1, <2>2 DEF GitOnlyGrows, SyncedShows, Unknown
  <2> QED
    BY <1>2, <2>1, <2>5, <2>6, <2>7 DEF Turn, TargetNamed
<1>7. CASE app = SettledApp
  <2>1. /\ app.history = <<[sources |-> Sources, revs |-> first]>> /\ app.operation = <<>>
        /\ app.synced = TRUE /\ app.syncRevs = first
        /\ app.result = first /\ app.chgs = first /\ app.gits = first
    BY <1>5, <1>7 DEF NewApp
  <2>2. /\ Len(app.history) = 1 /\ DOMAIN app.history = {1} /\ app.history[1].revs = first
        /\ app.history # <<>>
    BY <2>1
  <2>3. HandledUpTo(app) = 0 /\ HandledNow = 0
    BY <1>1, <2>1, <2>2 DEF HandledUpTo, HandledNow, LastEntry
  <2>4. AnnotatedFirst
    BY <1>3, <1>4, <2>1 DEF AnnotatedFirst
  <2>5. PairsRight
    <3>1. ASSUME NEW i \in DOMAIN Sources
          PROVE  RightChange(app.history, i, first[i]) = first[i]
      <4>1. first[i] <= app.history[1].revs[i]
        BY <1>4, <2>2
      <4> QED
        BY <4>1 DEF RightChange
    <3> QED
      BY <1>3, <1>4, <2>1, <3>1 DEF PairsRight
  <2>6. HandledReached /\ HistoryGrows /\ FirstSync
    <3>1. /\ 1 .. HandledUpTo(app) = {} /\ 1 .. HandledNow = {}
          /\ Len(app.history) <= Len(app.history)
      BY <2>2, <2>3
    <3>2. \A i \in DOMAIN Sources : app.history[1].revs[i] <= app.history[1].revs[i]
      BY <1>4, <2>2
    <3> QED
      BY <1>3, <2>2, <3>1, <3>2 DEF HandledReached, HistoryGrows, FirstSync
  <2>7. GitOnlyGrows
    <3>1. \A i \in DOMAIN Sources : SliceGetString(app.gits, i) <= SliceGetString(app.gits, i)
      BY <1>4, <2>1
    <3> QED
      BY <1>3, <3>1 DEF GitOnlyGrows
  <2>8. \A a \in Seen : SyncedShows(a)
    BY <1>3, <1>4, <2>1, <2>2 DEF SyncedShows
  <2> QED
    BY <1>2, <2>1, <2>4, <2>5, <2>6, <2>7, <2>8 DEF Turn, TargetNamed
<1> QED
  BY <1>1, <1>6, <1>7

\* Every step keeps it.
LEMMA StepTurn ==
  ASSUME Edits = {}, IInv, IInv', back \/ GrowInv, TurnInv, [Next]_vars
  PROVE  TurnInv'
<1> SUFFICES ASSUME InTurn', ~misread'
             PROVE  Turn'
  BY DEF TurnInv
<1>t. Types /\ Types' /\ faults \in Nat /\ touches' = touches
  BY TouchesUnchanged DEF IInv, Types
<1>g. GrowInv
  BY BackStays DEF InTurn
<1>1. CASE ArgoCD
  BY <1>1, <1>g, ArgoCDTurn
<1>2. ASSUME ~ArgoCD
      PROVE  InTurn /\ ~misread
  <2>1. overtaken' = overtaken /\ back' = back
    BY <1>2 DEF Next, vars, Controller, Handling, Deliver, Claim, Calculate, CalculatePartly,
                CalculateFails, Patch, PatchFails, Crash, argocd
  <2>2. faults' = faults \/ faults' = faults + 1
    BY <1>2 DEF Next, vars, Controller, Handling, Deliver, Claim, Calculate, CalculatePartly,
                CalculateFails, Patch, PatchFails, Crash, Fault
  <2>3. faults = 0
    BY <1>t, <2>2 DEF InTurn
  <2>4. misread => misread'
    BY <1>2 DEF Next, vars, Controller, Handling, Deliver, Claim, Calculate, CalculatePartly,
                CalculateFails, Patch, PatchFails, Crash
  <2> QED
    BY <2>1, <2>3, <2>4 DEF InTurn
<1>3. CASE ~ArgoCD /\ Patch
  BY <1>2, <1>3, <1>g, <1>t, PatchTurn DEF TurnInv, InTurn
<1>4. CASE ~ArgoCD /\ (Controller \/ Crash) /\ ~Patch
  BY <1>2, <1>4, <1>t, ControllerTurn DEF TurnInv
<1>5. CASE ~ArgoCD /\ UNCHANGED vars
  <2>1. Turn
    BY <1>2, <1>5 DEF TurnInv
  <2>2. /\ Pending' \subseteq Seen /\ UNCHANGED <<touches, stage, target, app>>
        /\ \A k \in DOMAIN snap' : ~Misleading(snap'[k])
    BY <1>5, <2>1 DEF vars, Pending, Seen, Turn
  <2> QED
    BY <1>t, <2>1, <2>2, SameAppTurn
<1> QED
  BY <1>1, <1>3, <1>4, <1>5 DEF Next

\* What the invariant says of an application the controller has caught up with.
LEMMA TurnIsAccurate ==
  ASSUME Edits = {}, Distinct, IInv, back \/ GrowInv, TurnInv
  PROVE  AccurateUnlessMisread
<1> SUFFICES ASSUME InTurn, ~misread, GrowInv, CaughtUp, NEW i \in DOMAIN Sources
             PROVE  Annotated(i) = [change |-> LastChange(i), git |-> Deployed(i)]
  BY DEF AccurateUnlessMisread, Accurate, InTurn, GrowInv, Seen, Form
<1> DEFINE g == SliceGetString(app.gits, i)
           x == SliceGetString(app.chgs, i)
           h == app.history
           n == Len(h)
<1>t. /\ Turn /\ Types /\ app \in OwnApps /\ app \in Seen /\ Form(app) /\ app.sources = Sources
      /\ app.synced /\ app.operation = <<>> /\ Quiescent /\ h \in Seq(Entries) /\ faults = 0
  BY DEF TurnInv, InTurn, IInv, Types, SyncTypes, Seen, GrowInv, Form, CaughtUp, OwnApps, Apps
<1>s. SyncedShows(app)
  BY <1>t DEF Turn
<1>c. Cur(app, i) # Unknown => g = Cur(app, i) /\ (Sources[i] \in Helm => x = Cur(app, i))
  BY <1>t, CaughtUpSays
<1>x. Sources[i] \notin Helm => x = RightChange(h, i, g)
  BY <1>t DEF Turn, PairsRight
<1>y. Sources \in Lists /\ Sources[i] \in SourceIds /\ i \in Nat
  <2>1. Sources \in Lists
    BY DEF Lists
  <2>2. DOMAIN Sources = 1 .. Len(Sources) /\ Sources[i] \in SourceIds
    BY <2>1, ListsType
  <2> QED
    BY <2>1, <2>2
<1>1. CASE h = <<>>
  <2>1. app.syncRevs # <<>> /\ app.syncRevs \in RevsOf(Sources)
    BY <1>s, <1>t DEF SyncedShows, Form, Resolved
  <2>2. /\ SliceGetString(app.syncRevs, i) = app.syncRevs[i]
        /\ app.syncRevs[i] \in CommitsOf[Sources[i]]
    BY <1>y, <2>1, RevsOfType
  <2>3. Cur(app, i) = app.syncRevs[i] /\ Cur(app, i) # Unknown
    <3>1. Cur(app, i) = app.syncRevs[i]
      BY <1>1, <1>t, <2>2, CurIs
    <3> QED
      BY <1>y, <2>2, <3>1, CommitsAreNats DEF Unknown
  <2>4. Deployed(i) = app.syncRevs[i] /\ LastChange(i) = app.syncRevs[i]
    BY <1>1 DEF Deployed, LastChange
  <2>5. x = g
    BY <1>1, <1>c, <1>x, <2>3 DEF RightChange
  <2> QED
    BY <1>c, <2>3, <2>4, <2>5 DEF Annotated
<1>2. CASE h # <<>>
  <2> DEFINE f == h[1].revs[i]
             d == h[n].revs[i]
  <2>0. n \in DOMAIN h /\ 1 \in DOMAIN h
    <3>1. n # 0 /\ n \in Nat /\ DOMAIN h = 1 .. n
      BY <1>2, <1>t, EmptySeq
    <3> QED
      BY <3>1
  <2>1. /\ app.result = h[n].revs /\ h[n].revs # <<>> /\ h[n].sources = Sources
        /\ d \in Nat \ {0} /\ f \in Nat \ {0}
    BY <1>2, <1>s, <1>t, <2>0, HistoryIs DEF SyncedShows
  <2>2. Cur(app, i) = d /\ d # Unknown
    BY <1>2, <1>t, <2>1, CurIs DEF Unknown
  <2>3. Deployed(i) = d
    <3>1. {j \in DOMAIN h[n].sources : h[n].sources[j] = app.sources[i]} = {i}
      BY <1>t, <1>y, <2>1 DEF Distinct
    <3>2. Min({i}) = i
      BY <1>y DEF Min
    <3> QED
      BY <1>2, <3>1, <3>2 DEF Deployed, DeployedRevision, RevisionIn, LastEntry
  <2>4. f <= d
    BY <1>t, <2>0 DEF Turn, FirstSync
  <2>5. CASE Sources[i] \in Helm
    <3>1. LastChange(i) = d
      BY <1>t, <2>3, <2>5 DEF LastChange
    <3> QED
      BY <1>c, <2>2, <2>3, <2>5, <3>1 DEF Annotated
  <2>6. CASE Sources[i] \notin Helm
    <3>1. LastChange(i) = Newest(i, f, d)
      BY <1>2, <1>t, <2>3, <2>6 DEF LastChange, Newest
    <3>2. g = d /\ x = IF d <= f THEN d ELSE Newest(i, f, d)
      BY <1>2, <1>c, <1>x, <2>2, <2>6 DEF RightChange
    <3> HIDE DEF f, d, g, x, h
    <3>3. d <= f => Newest(i, f, d) = d
      <4>1. SUFFICES ASSUME d <= f
                     PROVE  Newest(i, f, d) = d
        OBVIOUS
      <4>2. d = f
        BY <2>1, <2>4, <4>1
      <4>3. Newest(i, f, d) \notin {c \in touches[Sources[i]] : f < c /\ c <= d}
        <5>1. touches[Sources[i]] \subseteq Nat
          BY <1>t, <1>y, CommitsAreNats DEF Types
        <5> QED
          BY <2>1, <4>2, <5>1
      <4> QED
        BY <1>t, <2>1, <4>2, <4>3, NewestIs
    <3>4. x = LastChange(i) /\ g = Deployed(i)
      BY <2>3, <3>1, <3>2, <3>3
    <3> QED
      BY <3>4 DEF Annotated, x, g
  <2> QED
    BY <2>5, <2>6
<1> QED
  BY <1>1, <1>2

\* The controller "accurately tracks last commits that actually changed the
\* application" (README.md:8), if the sources are not edited and each is listed
\* once: as long as every sync is handled before the next one starts and goes
\* forward, no call fails, and the handler gets none of the objects in the
\* course of a sync that mislead the service, the annotations of an application
\* the controller has caught up with hold the deployed revision and the commit
\* that last changed it, whatever syncs fail and whenever the controller
\* restarts.
THEOREM AccurateIfNotMisread ==
  Edits = {} /\ Distinct => (Spec => []AccurateUnlessMisread)
<1> SUFFICES ASSUME Edits = {}, Distinct
             PROVE  Spec => []AccurateUnlessMisread
  OBVIOUS
<1>1. Init => TurnInv
  BY InitTurn DEF TurnInv
<1>2. IInv /\ IInv' /\ (back \/ GrowInv) /\ TurnInv /\ [Next]_vars => TurnInv'
  BY StepTurn
<1>3. IInv /\ (back \/ GrowInv) /\ TurnInv => AccurateUnlessMisread
  BY TurnIsAccurate
<1>4. Spec => [](IInv /\ (back \/ GrowInv))
  BY Growing
<1> QED
  BY <1>1, <1>2, <1>3, <1>4, PTL DEF Spec
=============================================================================
