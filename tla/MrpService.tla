----------------------------- MODULE MrpService -----------------------------
(***************************************************************************)
(* The calculation of mrp_controller/service/mrp_service.go, as operators  *)
(* on one application: which revisions an application object shows, which  *)
(* annotations follow from them, and which of those make up the patch.     *)
(*                                                                         *)
(* A revision is a number: commit n of a source's linear branch, oldest    *)
(* first; a chart version where the source is a Helm repository.           *)
(*                                                                         *)
(* An application is a record of the fields the service reads:             *)
(*   multi      spec.HasMultipleSources()                                  *)
(*   sources    spec.GetSources(), by identity                             *)
(*   history    status.history, entries [sources, revs]                    *)
(*   synced     status.sync.status = "Synced"                              *)
(*   syncRevs   status.sync.revision(s), <<>> when unset                   *)
(*   operation  operation.sync.revision(s), <<>> when there is no          *)
(*              operation, Unknown where it names no revision              *)
(*   result     status.operationState.syncResult.revision(s), or <<>>      *)
(*   chg, git   the annotations change-revision and git-revision           *)
(*   chgs, gits the annotations change-revisions and git-revisions, JSON   *)
(*              arrays of strings that json.Unmarshal reads back as        *)
(*              written, <<>> when absent (they are never written empty)   *)
(* A single-source application has its revisions at index 1.               *)
(***************************************************************************)
EXTENDS Integers, Sequences, FiniteSetsExt

CONSTANTS
  Helm,     \* the sources with a chart: isHelmRepoSingleSource/MultiSource
  NameOf    \* the names the user gave to the sources; Unnamed where none

Unnamed == ""
Unknown == 0    \* the empty string
Absent == -1    \* the annotation is not there

SliceGetString(s, i) == IF i \in 1 .. Len(s) THEN s[i] ELSE Unknown

-----------------------------------------------------------------------------
(* Revisions of an application.                                            *)

GetCurrentRevisionForFirstSync(a, i) ==
  IF a.operation # <<>> THEN SliceGetString(a.operation, i)
  ELSE IF a.synced THEN SliceGetString(a.syncRevs, i)
  ELSE Unknown

\* Faulty variant: a source is looked up by its position only.
HistoricalIndexByPosition(a, e, i) == i

\* By name, if both have one and it is the same; else by what makes up the
\* identity of a source: repository, path, chart, ref and target revision.
IsMatchingHistoryEntry(s, t) ==
  \/ NameOf[s] # Unnamed /\ NameOf[s] = NameOf[t]
  \/ s = t

\* Where history entry e holds source i: at the same index, or at the first
\* one that matches, or nowhere (0).
HistoricalIndex(a, e, i) ==
  LET matches == {j \in 1 .. Len(e.sources) :
                    IsMatchingHistoryEntry(e.sources[j], a.sources[i])}
  IN  IF i \in matches THEN i
      ELSE IF matches = {} THEN 0 ELSE Min(matches)

RevisionFromHistory(a, h, i) ==
  LET e == a.history[h]
  IN  IF a.multi THEN SliceGetString(e.revs, HistoricalIndex(a, e, i))
      ELSE e.revs[1]

\* Faulty variant: the newest entry is the previous one although the sync that
\* made it is the current one.
RevisionsOffByOne(a, i) ==
  LET n == Len(a.history)
  IN  IF n = 0
      THEN [current |-> GetCurrentRevisionForFirstSync(a, i),
            previous |-> Unknown]
      ELSE IF a.synced /\ a.result # <<>>
      THEN [current |-> SliceGetString(a.result, i),
            previous |-> IF n = 1 THEN Unknown
                         ELSE RevisionFromHistory(a, n, i)]
      ELSE [current |-> GetCurrentRevisionForFirstSync(a, i),
            previous |-> RevisionFromHistory(a, n, i)]

\* Current and previous revision: of a finished sync, whose own entry is the
\* newest of the history, or of one in progress, which has no entry yet.
GetRevisions(a, i) ==
  LET n == Len(a.history)
  IN  IF n = 0
      THEN [current |-> GetCurrentRevisionForFirstSync(a, i),
            previous |-> Unknown]
      ELSE IF a.synced /\ a.result # <<>>
      THEN [current |-> SliceGetString(a.result, i),
            previous |-> IF n = 1 THEN Unknown
                         ELSE RevisionFromHistory(a, n - 1, i)]
      ELSE [current |-> GetCurrentRevisionForFirstSync(a, i),
            previous |-> RevisionFromHistory(a, n, i)]

\* An annotation that is not there reads as "".
AnnotationValue(v) == IF v = Absent THEN Unknown ELSE v

GetSourceRevisions(a, i) ==
  LET r == GetRevisions(a, i)
  IN  [change   |-> IF a.multi THEN SliceGetString(a.chgs, i)
                               ELSE AnnotationValue(a.chg),
       git      |-> IF a.multi THEN SliceGetString(a.gits, i)
                               ELSE AnnotationValue(a.git),
       current  |-> r.current,
       previous |-> r.previous,
       helm     |-> a.sources[i] \in Helm]

-----------------------------------------------------------------------------
(* The repo server's answer for a linear branch: the newest commit after   *)
(* previous, up to current, that touches the application's paths.          *)

\* No previous revision: current.  Equal ones: that commit is looked at.  No
\* path from previous to current: current.  No hit: "".
GetChangeRevision(touches, previous, current) ==
  IF previous = Unknown THEN current
  ELSE LET revisions == IF previous = current THEN {current}
                        ELSE (previous + 1) .. current
           hits == revisions \cap touches
       IN  IF revisions = {} THEN current
           ELSE IF hits = {} THEN Unknown ELSE Max(hits)

-----------------------------------------------------------------------------
(* The annotations one pass over a source asks for.                        *)

\* The repo server is asked: there is a current revision, the source is a git
\* one, and this revision is not "already calculated".
NeedsCalculation(r) ==
  /\ r.current # Unknown
  /\ ~r.helm
  /\ ~(r.git = r.current /\ r.change # Unknown)

\* Faulty variant: the git revision is only recorded once nothing is left to
\* calculate.
NewRevisionsGitLate(r, ok, answer) ==
  [change |-> IF NeedsCalculation(r) /\ ok /\ answer # Unknown THEN answer
              ELSE IF r.current # Unknown /\ r.helm THEN r.git
              ELSE r.change,
   git |-> IF r.current = Unknown \/ NeedsCalculation(r) THEN r.git
           ELSE r.current]

\* The loop body of makeChangeRevisionPatch: ok is whether
\* calculateChangeRevision returned an answer, if it was called.
NewRevisions(r, ok, answer) ==
  [change |->
     CASE r.current # Unknown /\ r.helm -> r.git
       [] NeedsCalculation(r) /\ ok /\ answer # Unknown -> answer
       [] NeedsCalculation(r) /\ ok /\ answer = Unknown /\ r.change = Unknown
            -> r.current
       [] OTHER -> r.change,
   git |-> IF r.current = Unknown THEN r.git ELSE r.current]

-----------------------------------------------------------------------------
(* The patch.                                                              *)

AnnotationKeys == {"chg", "chgs", "git", "gits"}

\* Faulty variant: the plain change revision is the last source's.
WantedFromLastSource(new) ==
  [chg  |-> new[Len(new)].change,
   chgs |-> [i \in DOMAIN new |-> new[i].change],
   git  |-> new[1].git,
   gits |-> [i \in DOMAIN new |-> new[i].git]]

\* The values wanted for the annotations: the arrays, and their first
\* elements.
WantedAnnotations(new) ==
  [chg  |-> new[1].change,
   chgs |-> [i \in DOMAIN new |-> new[i].change],
   git  |-> new[1].git,
   gits |-> [i \in DOMAIN new |-> new[i].git]]

\* Faulty variant: every annotation goes into the patch.
PatchEverything(a, new) == WantedAnnotations(new)

\* makeAnnotationPatch with addPatchIfNeeded: the annotations that are absent
\* from a or differ there.
MakeAnnotationPatch(a, new) ==
  LET want == WantedAnnotations(new)
  IN  [k \in {key \in AnnotationKeys : a[key] # want[key]} |-> want[k]]

\* A merge patch sets the annotations it names and leaves the others.
MergePatch(a, patch) ==
  [f \in DOMAIN a |-> IF f \in DOMAIN patch THEN patch[f] ELSE a[f]]
=============================================================================
