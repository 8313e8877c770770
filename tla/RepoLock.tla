------------------------------ MODULE RepoLock ------------------------------
(***************************************************************************)
(* The repository lock of the repo server for one working tree:            *)
(* reposerver/repository/lock.go, with the working tree it protects.       *)
(*                                                                         *)
(* A caller of Lock gets in with the revision it wants checked out: alone, *)
(* or together with callers of the same revision when all of them allow    *)
(* it.  The first one in runs init, which opens the directory's            *)
(* permissions and checks the revision out; the last one out closes them.  *)
(* Locks of different paths have separate states and do not interact.      *)
(***************************************************************************)
EXTENDS Integers, FiniteSets

CONSTANTS
  Procs,     \* the goroutines serving requests
  Revs,      \* resolved commit SHAs, never the empty string
  NoRev,     \* revision = "", and the content of a tree under change
  NoProc,    \* cond.L is free
  MaxCalls   \* bound on the number of Lock calls

ASSUME ProcsAssumption == IsFiniteSet(Procs) /\ NoProc \notin Procs
ASSUME RevsAssumption == NoRev \notin Revs /\ Revs # {}
ASSUME MaxCallsAssumption == MaxCalls \in Nat

VARIABLES
  revision,         \* repositoryState.revision
  processCount,     \* repositoryState.processCount
  allowConcurrent,  \* repositoryState.allowConcurrent
  condL,            \* who holds cond.L across steps: a caller running init
  pc,               \* where each goroutine is
  req,              \* the arguments of its last call
  tree,             \* the revision the working tree holds
  open,             \* the directory can be read and written
  calls             \* Lock calls so far

vars == <<revision, processCount, allowConcurrent, condL, pc, req, tree, open,
          calls>>

Requests == [rev : Revs, conc : BOOLEAN]

PCs == {"idle",     \* outside
        "lock",     \* at the top of Lock's loop
        "init",     \* running init, holding cond.L
        "asleep",   \* in cond.Wait
        "using",    \* holds the repository: Lock returned a closer
        "notify"}   \* in the closer, cond.L released, before Broadcast

Users == {p \in Procs : pc[p] = "using"}
Asleep == {p \in Procs : pc[p] = "asleep"}

-----------------------------------------------------------------------------
\* Before its first call a goroutine's req means nothing.
Init ==
  /\ revision = NoRev
  /\ processCount = 0
  /\ allowConcurrent = FALSE
  /\ condL = NoProc
  /\ pc = [p \in Procs |-> "idle"]
  /\ req = [p \in Procs |-> [rev |-> CHOOSE r \in Revs : TRUE, conc |-> TRUE]]
  /\ tree = NoRev
  /\ open = FALSE
  /\ calls = 0

\* A request calls Lock; the state of the path is found or made.
Call(p) ==
  /\ pc[p] = "idle"
  /\ calls < MaxCalls
  /\ calls' = calls + 1
  /\ \E r \in Requests : req' = [req EXCEPT ![p] = r]
  /\ pc' = [pc EXCEPT ![p] = "lock"]
  /\ UNCHANGED <<revision, processCount, allowConcurrent, condL, tree, open>>

\* Faulty variant: any concurrent caller joins, whatever its revision.
MayJoinAnyRevision(p) == allowConcurrent /\ req[p].conc

\* Faulty variant: the first caller's choice is not asked for.
MayJoinIfWilling(p) == revision = req[p].rev /\ req[p].conc

\* The condition of the "else if": same revision, both concurrent.
MayJoin(p) == revision = req[p].rev /\ allowConcurrent /\ req[p].conc

\* Nobody is in: init starts, under cond.L.  It restores the permissions, and
\* the tree is in no particular state until it ends.
StartInit(p) ==
  /\ pc[p] = "lock"
  /\ condL = NoProc
  /\ revision = NoRev
  /\ condL' = p
  /\ pc' = [pc EXCEPT ![p] = "init"]
  /\ tree' = NoRev
  /\ open' = TRUE
  /\ UNCHANGED <<revision, processCount, allowConcurrent, req, calls>>

\* Faulty variant: the first one in is not counted.
FinishInitUncounted(p) ==
  /\ pc[p] = "init"
  /\ tree' = req[p].rev
  /\ revision' = req[p].rev
  /\ allowConcurrent' = req[p].conc
  /\ condL' = NoProc
  /\ pc' = [pc EXCEPT ![p] = "using"]
  /\ UNCHANGED <<processCount, req, open, calls>>

FinishInit(p) ==
  /\ pc[p] = "init"
  /\ tree' = req[p].rev
  /\ revision' = req[p].rev
  /\ processCount' = 1
  /\ allowConcurrent' = req[p].conc
  /\ condL' = NoProc
  /\ pc' = [pc EXCEPT ![p] = "using"]
  /\ UNCHANGED <<req, open, calls>>

\* init fails: Lock returns the error.  The closer init returned is dropped,
\* so the directory stays open, and nobody is woken.
FailInit(p) ==
  /\ pc[p] = "init"
  /\ condL' = NoProc
  /\ pc' = [pc EXCEPT ![p] = "idle"]
  /\ UNCHANGED <<revision, processCount, allowConcurrent, req, tree, open, calls>>

\* Faulty variant: the joiner is not counted.
JoinUncounted(p) ==
  /\ pc[p] = "lock"
  /\ condL = NoProc
  /\ revision # NoRev
  /\ MayJoin(p)
  /\ pc' = [pc EXCEPT ![p] = "using"]
  /\ UNCHANGED <<revision, processCount, allowConcurrent, condL, req, tree,
                 open, calls>>

Join(p) ==
  /\ pc[p] = "lock"
  /\ condL = NoProc
  /\ revision # NoRev
  /\ MayJoin(p)
  /\ processCount' = processCount + 1
  /\ pc' = [pc EXCEPT ![p] = "using"]
  /\ UNCHANGED <<revision, allowConcurrent, condL, req, tree, open, calls>>

\* cond.Wait: registers the sleeper and releases cond.L in one step.
Sleep(p) ==
  /\ pc[p] = "lock"
  /\ condL = NoProc
  /\ revision # NoRev
  /\ ~MayJoin(p)
  /\ pc' = [pc EXCEPT ![p] = "asleep"]
  /\ UNCHANGED <<revision, processCount, allowConcurrent, condL, req, tree,
                 open, calls>>

\* The closer, up to the release of cond.L: the last one out gives the
\* repository up and closes the directory.
Close(p) ==
  /\ pc[p] = "using"
  /\ condL = NoProc
  /\ processCount' = processCount - 1
  /\ IF processCount' = 0
     THEN /\ revision' = NoRev
          /\ open' = FALSE
          /\ pc' = [pc EXCEPT ![p] = "notify"]
     ELSE /\ pc' = [pc EXCEPT ![p] = "idle"]
          /\ UNCHANGED <<revision, open>>
  /\ UNCHANGED <<allowConcurrent, condL, req, tree, calls>>

\* Faulty variant: Signal in place of Broadcast wakes one sleeper.
SignalOne(p) ==
  /\ pc[p] = "notify"
  /\ \/ /\ Asleep = {}
        /\ pc' = [pc EXCEPT ![p] = "idle"]
     \/ \E q \in Asleep : pc' = [pc EXCEPT ![p] = "idle", ![q] = "lock"]
  /\ UNCHANGED <<revision, processCount, allowConcurrent, condL, req, tree,
                 open, calls>>

\* The closer's Broadcast, made without cond.L: every sleeper is back at the
\* top of the loop (Wait's relock is followed by an unlock at once).
Broadcast(p) ==
  /\ pc[p] = "notify"
  /\ pc' = [q \in Procs |-> IF q = p THEN "idle"
                            ELSE IF pc[q] = "asleep" THEN "lock" ELSE pc[q]]
  /\ UNCHANGED <<revision, processCount, allowConcurrent, condL, req, tree,
                 open, calls>>

Step(p) ==
  \/ StartInit(p) \/ FinishInit(p) \/ FailInit(p) \/ Join(p) \/ Sleep(p)
  \/ Close(p) \/ Broadcast(p)

Next == \E p \in Procs : Call(p) \/ Step(p)

Spec == Init /\ [][Next]_vars

\* Goroutines run, init ends (git commands have a timeout), and whoever holds
\* the repository closes it (deferred in GetChangeRevision).
Fairness == \A p \in Procs : WF_vars(Step(p))

FairSpec == Spec /\ Fairness

-----------------------------------------------------------------------------
(* Safety.                                                                 *)

\* Every variable has its type; in particular the closer never takes
\* processCount below zero.
TypeOK ==
  /\ revision \in Revs \cup {NoRev}
  /\ processCount \in Nat
  /\ allowConcurrent \in BOOLEAN
  /\ condL \in Procs \cup {NoProc}
  /\ pc \in [Procs -> PCs]
  /\ req \in [Procs -> Requests]
  /\ tree \in Revs \cup {NoRev}
  /\ open \in BOOLEAN
  /\ calls \in 0..MaxCalls

\* Whoever Lock let in works on the revision it asked for, in an accessible
\* directory, until it closes: nobody's checkout, nobody's close and nobody's
\* failed init changes the tree under it.
UsersSeeTheirRevision ==
  \A p \in Users : tree = req[p].rev /\ open

\* Lock "acquires lock unless lock is already acquired with the same commit
\* and allowConcurrent is set to true" (lock.go:20): two holders at once have
\* the same revision and both allowed it.
SharedOnlyIfAllowed ==
  \A p, q \in Users : p # q =>
    req[p].rev = req[q].rev /\ req[p].conc /\ req[q].conc

\* processCount is the number of holders, and the path counts as free exactly
\* when there is none.
CountExact ==
  /\ processCount = Cardinality(Users)
  /\ revision = NoRev <=> Users = {}

\* Nobody sleeps without a wakeup ahead: as long as a goroutine is asleep,
\* somebody holds the repository or is about to broadcast.
NoForgottenSleeper ==
  Asleep # {} => Users # {} \/ \E p \in Procs : pc[p] = "notify"

-----------------------------------------------------------------------------
(* Liveness, under Fairness, for finitely many calls.                      *)

\* Every call of Lock returns: the caller gets in or gets init's error.
CallsReturn ==
  \A p \in Procs : (pc[p] \in {"lock", "asleep"}) ~> (pc[p] \in {"using", "idle"})
=============================================================================
