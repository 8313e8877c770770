------------------------------ MODULE GitRefs -------------------------------
(***************************************************************************)
(* The references of a git repository, cached in Redis for all repo        *)
(* servers: getRefs of util/git/client.go with GetOrLockGitReferences,     *)
(* TryLockGitRefCache, SetGitReferences and UnlockGitReferences of         *)
(* reposerver/cache/cache.go.                                              *)
(*                                                                         *)
(* One key of the cache holds the references, or a lock with the id of the *)
(* call that is listing them.  Every access is a call of its own.  Lock    *)
(* and references expire; a waiting call gives up after the time the lock  *)
(* lives, and then lists without it.  Time is not measured: an entry may   *)
(* expire and a wait may end whenever their clocks are read.               *)
(*                                                                         *)
(* References are numbered by the push that made them; 0 is a repository   *)
(* without references, which the cache cannot tell from an empty entry.    *)
(***************************************************************************)
EXTENDS Integers, FiniteSets

CONSTANTS
  Procs,      \* goroutines, of one or several repo servers
  MaxCalls,   \* bound on calls of getRefs
  MaxPushes,  \* bound on pushes to the repository
  MaxFaults   \* bound on failing calls, lost goroutines and lost ids

ASSUME BoundsAssumption ==
  MaxCalls \in Nat /\ MaxPushes \in Nat /\ MaxFaults \in Nat

VARIABLES
  head,     \* the references the remote has
  entry,    \* the key in Redis
  pc,       \* where each goroutine is
  id,       \* myLockId: the number of the call, NoId if there is no uuid
  got,      \* the references it has listed, or Failed
  answer,   \* the last result of getRefs
  since,    \* the newest answer there was when its call began
  newest,   \* the newest answer so far
  overdue,  \* a lock expired under its owner, or somebody listed without one
  calls, pushes, faults

vars == <<head, entry, pc, id, got, answer, since, newest, overdue, calls,
          pushes, faults>>

NoId == 0
Failed == -1
Nothing == [kind |-> "none", value |-> 0]
LockOf(i) == [kind |-> "lock", value |-> i]
RefsOf(r) == [kind |-> "refs", value |-> r]

PCs == {"idle",     \* outside getRefs
        "top",      \* at the condition of the waiting loop
        "get",      \* GetGitReferences
        "setnx",    \* TryLockGitRefCache: the SET
        "get2",     \* ... and the GET after it
        "list",     \* owner: listRemote
        "set",      \* SetGitReferences
        "unlock",   \* UnlockGitReferences: the GET
        "delete"}   \* ... and the DELETE after it

Init ==
  /\ head \in {0, 1}
  /\ entry = Nothing
  /\ pc = [p \in Procs |-> "idle"]
  /\ id = [p \in Procs |-> NoId]
  /\ got = [p \in Procs |-> Failed]
  /\ answer = [p \in Procs |-> Failed]
  /\ since = [p \in Procs |-> 0]
  /\ newest = 0
  /\ overdue = FALSE
  /\ calls = 0 /\ pushes = 0 /\ faults = 0

Fault == faults < MaxFaults /\ faults' = faults + 1
NoFault == UNCHANGED faults

Goto(p, l) == pc' = [pc EXCEPT ![p] = l]

bounds == <<calls, pushes>>

-----------------------------------------------------------------------------
(* The remote and Redis (external).                                        *)

Push ==
  /\ pushes < MaxPushes
  /\ pushes' = pushes + 1
  /\ head' = head + 1
  /\ UNCHANGED <<entry, pc, id, got, answer, since, newest, overdue, calls, faults>>

Owner(p) == entry = LockOf(id[p]) /\ pc[p] # "idle"

Expire ==
  /\ entry # Nothing
  /\ entry' = Nothing
  /\ overdue' = (overdue \/ \E p \in Procs : Owner(p))
  /\ UNCHANGED <<head, pc, id, got, answer, since, newest, bounds, faults>>

-----------------------------------------------------------------------------
(* getRefs.                                                                *)

\* A call begins, with a new id, or without one if uuid.NewRandom fails.
Call(p) ==
  /\ pc[p] = "idle"
  /\ calls < MaxCalls
  /\ calls' = calls + 1
  /\ \/ id' = [id EXCEPT ![p] = calls + 1] /\ NoFault
     \/ id' = [id EXCEPT ![p] = NoId] /\ Fault
  /\ since' = [since EXCEPT ![p] = newest]
  /\ Goto(p, "top")
  /\ UNCHANGED <<head, entry, got, answer, newest, overdue, pushes>>

\* getRefs returns r, references or Failed.
Return(p, r) ==
  /\ Goto(p, "idle")
  /\ answer' = [answer EXCEPT ![p] = r]
  /\ newest' = IF r > newest THEN r ELSE newest

\* The call goes on as the lock's owner: it lists the references.
BecomeOwner(p, outOfTurn) ==
  /\ Goto(p, "list")
  /\ overdue' = (overdue \/ outOfTurn)
  /\ UNCHANGED <<answer, newest>>

\* The wait is not over yet.
Poll(p) ==
  /\ pc[p] = "top"
  /\ Goto(p, "get")
  /\ UNCHANGED <<head, entry, id, got, answer, since, newest, overdue, bounds, faults>>

\* Faulty variant: the wait has no end.
WaitOn(p) ==
  /\ pc[p] = "top"
  /\ Goto(p, "get")
  /\ UNCHANGED <<head, entry, id, got, answer, since, newest, overdue, bounds, faults>>

\* The wait is over: the call acts as the owner.
GiveUp(p) ==
  /\ pc[p] = "top"
  /\ BecomeOwner(p, TRUE)
  /\ UNCHANGED <<head, entry, id, got, since, bounds, faults>>

\* Faulty variant: any lock is taken for one's own.
FoundLockIdAny(p) == IF entry.kind = "lock" THEN id[p] ELSE NoId

\* What GetGitReferences returns for foundLockId.
FoundLockId(p) == IF entry.kind = "lock" THEN entry.value ELSE NoId

\* GetGitReferences and the test after it, in the loop and in TryLock...: own
\* lock, or references, or l is next.
Get(p, l) ==
  /\ \/ /\ FoundLockId(p) = id[p]
        /\ BecomeOwner(p, id[p] = NoId)
     \/ /\ FoundLockId(p) # id[p]
        /\ entry.kind = "refs" /\ entry.value # 0
        /\ Return(p, entry.value)
        /\ UNCHANGED overdue
     \/ /\ FoundLockId(p) # id[p]
        /\ entry.kind # "refs" \/ entry.value = 0
        /\ Goto(p, l)
        /\ UNCHANGED <<answer, newest, overdue>>
  /\ UNCHANGED <<head, entry, id, got, since, bounds, faults>>

\* The GET fails: getRefs returns the error, unless it has no id: then it
\* takes the empty id returned with the error for its own.
GetFails(p) ==
  /\ pc[p] \in {"get", "get2"}
  /\ Fault
  /\ IF id[p] = NoId THEN BecomeOwner(p, TRUE)
     ELSE Return(p, Failed) /\ UNCHANGED overdue
  /\ UNCHANGED <<head, entry, id, got, since, bounds>>

Read(p) == pc[p] = "get" /\ Get(p, "setnx")

\* Faulty variant: SET without DisableOverwrite.
TryLockOverwrites(p) ==
  /\ pc[p] = "setnx"
  /\ entry' = LockOf(id[p])
  /\ NoFault
  /\ Goto(p, "get2")
  /\ UNCHANGED <<head, id, got, answer, since, newest, overdue, bounds>>

\* SET with DisableOverwrite; its failure is logged.
TryLock(p) ==
  /\ pc[p] = "setnx"
  /\ \/ entry' = (IF entry = Nothing THEN LockOf(id[p]) ELSE entry) /\ NoFault
     \/ UNCHANGED entry /\ Fault
  /\ Goto(p, "get2")
  /\ UNCHANGED <<head, id, got, answer, since, newest, overdue, bounds>>

\* After a second without lock and references the loop goes round.
ReadAgain(p) == pc[p] = "get2" /\ Get(p, "top")

\* Faulty variant: the error of listRemote is not looked at.
ListRemoteUnchecked(p) ==
  /\ pc[p] = "list"
  /\ \/ got' = [got EXCEPT ![p] = head] /\ NoFault
     \/ got' = [got EXCEPT ![p] = Failed] /\ Fault
  /\ Goto(p, "set")
  /\ UNCHANGED <<head, entry, id, answer, since, newest, overdue, bounds>>

\* listRemote returns, or fails.
ListRemote(p) ==
  /\ pc[p] = "list"
  /\ \/ /\ got' = [got EXCEPT ![p] = head]
        /\ Goto(p, "set")
        /\ NoFault
     \/ /\ got' = [got EXCEPT ![p] = Failed]
        /\ Goto(p, "unlock")
        /\ Fault
  /\ UNCHANGED <<head, entry, id, answer, since, newest, overdue, bounds>>

\* The references take the place of the lock, or of whatever is there.
SetGitReferences(p) ==
  /\ pc[p] = "set"
  /\ entry' = RefsOf(got[p])
  /\ Return(p, got[p])
  /\ UNCHANGED <<head, id, got, since, overdue, bounds, faults>>

\* They are not stored: the deferred unlock comes next.
SetFails(p) ==
  /\ pc[p] = "set"
  /\ Fault
  /\ Goto(p, "unlock")
  /\ UNCHANGED <<head, entry, id, got, answer, since, newest, overdue, bounds>>

\* UnlockGitReferences: the lock is looked at ...
Unlock(p) ==
  /\ pc[p] = "unlock"
  /\ \/ /\ entry = LockOf(id[p])
        /\ Goto(p, "delete")
        /\ NoFault
        /\ UNCHANGED <<answer, newest>>
     \/ entry # LockOf(id[p]) /\ Return(p, got[p]) /\ NoFault
     \/ Return(p, got[p]) /\ Fault
  /\ UNCHANGED <<head, entry, id, got, since, overdue, bounds>>

\* ... and what is there now is deleted.
Delete(p) ==
  /\ pc[p] = "delete"
  /\ \/ entry' = Nothing /\ NoFault
     \/ UNCHANGED entry /\ Fault
  /\ Return(p, got[p])
  /\ UNCHANGED <<head, id, got, since, overdue, bounds>>

\* The repo server dies: a lock it holds stays behind.
Crash(p) ==
  /\ pc[p] # "idle"
  /\ Fault
  /\ Return(p, Failed)
  /\ UNCHANGED <<head, entry, id, got, since, overdue, bounds>>

Step(p) ==
  \/ Poll(p) \/ GiveUp(p) \/ Read(p) \/ GetFails(p) \/ TryLock(p)
  \/ ReadAgain(p) \/ ListRemote(p) \/ SetGitReferences(p) \/ SetFails(p)
  \/ Unlock(p) \/ Delete(p)

Next == Push \/ Expire \/ \E p \in Procs : Call(p) \/ Step(p) \/ Crash(p)

Spec == Init /\ [][Next]_vars

\* Goroutines run, and a wait that is looked at again and again is over at
\* some time.  No expiry is asked for: references last far longer than a wait.
Fairness ==
  \A p \in Procs : WF_vars(Step(p)) /\ SF_vars(GiveUp(p))

FairSpec == Spec /\ Fairness

-----------------------------------------------------------------------------
(* Properties.                                                             *)

Entries == {Nothing} \cup {LockOf(i) : i \in 0 .. MaxCalls}
             \cup {RefsOf(r) : r \in 0 .. MaxPushes + 1}

\* Every variable has its type.
TypeOK ==
  /\ head \in 0 .. MaxPushes + 1
  /\ entry \in Entries
  /\ pc \in [Procs -> PCs]
  /\ id \in [Procs -> 0 .. MaxCalls]
  /\ got \in [Procs -> Failed .. MaxPushes + 1]
  /\ answer \in [Procs -> Failed .. MaxPushes + 1]
  /\ since \in [Procs -> 0 .. MaxPushes + 1]
  /\ newest \in 0 .. MaxPushes + 1
  /\ overdue \in BOOLEAN
  /\ calls \in 0 .. MaxCalls /\ pushes \in 0 .. MaxPushes /\ faults \in 0 .. MaxFaults

Listers == {p \in Procs : pc[p] \in {"list", "set"}}

\* "Only one process is able to claim ownership" (cache.go:246): unless an
\* owner outlives its lock, a wait ends or an id is missing, the references
\* are listed by one goroutine at a time, whichever calls fail and whoever
\* dies with the lock.
SingleLister == ~overdue => Cardinality(Listers) <= 1

\* And references do not go back: a call never gets older ones than some call
\* had got before it began, neither from the cache nor from a listing.
NoStepBack ==
  ~overdue => \A p \in Procs :
                pc[p] = "idle" /\ answer[p] # Failed => answer[p] >= since[p]

\* Every call returns, also when the owner of the lock is gone, when the
\* references cannot be stored, and when there are none.
CallsReturn == \A p \in Procs : pc[p] # "idle" ~> pc[p] = "idle"
=============================================================================
