---------------------------- MODULE GitRefsProofs ---------------------------
(***************************************************************************)
(* Proofs about module GitRefs, for any set of goroutines and any number   *)
(* of calls, pushes and faults: type correctness, that one goroutine at a  *)
(* time lists the references, and that the references do not go back.      *)
(***************************************************************************)
EXTENDS GitRefs, FiniteSetTheorems, TLAPS

-----------------------------------------------------------------------------
(* The inductive invariant.                                                *)

\* The remote's references count its pushes.
HeadCountsPushes == head <= pushes + 1

\* Ids are numbers of calls: those of two calls under way differ, and no lock
\* has the id of a call that is still to come.
IdsDistinct ==
  /\ \A p \in Procs : id[p] <= calls
  /\ \A p, q \in Procs :
       p # q /\ pc[p] # "idle" /\ pc[q] # "idle" => id[p] # id[q] \/ id[p] = NoId
  /\ entry.kind = "lock" => entry.value <= calls

\* A call that acts as the owner still has its lock in the cache.
OwnersHoldLock ==
  ~overdue => \A p \in Procs :
                pc[p] \in {"list", "set", "unlock", "delete"} =>
                  id[p] # NoId /\ entry = LockOf(id[p])

\* No references are newer than the remote's.
NothingAhead ==
  /\ newest <= head
  /\ \A p \in Procs : got[p] <= head /\ since[p] <= newest
  /\ \A p \in Procs : pc[p] = "set" => got[p] # Failed
  /\ entry.kind = "refs" => entry.value <= head

\* What can still become an answer is not older than the newest answer: the
\* references in the cache, and those that the owner has listed.
Fresh ==
  ~overdue =>
    /\ entry.kind = "refs" => entry.value >= newest
    /\ \A p \in Procs :
         pc[p] \in {"set", "unlock", "delete"} /\ got[p] # Failed => got[p] >= newest

IInv ==
  /\ TypeOK
  /\ HeadCountsPushes
  /\ IdsDistinct
  /\ OwnersHoldLock
  /\ NothingAhead
  /\ Fresh
  /\ NoStepBack

-----------------------------------------------------------------------------
(* Lemmas about the entry.                                                 *)

\* The three things that a cache entry can be.
LEMMA EntryKinds ==
  ASSUME TypeOK
  PROVE  \/ entry = Nothing /\ entry.kind = "none"
         \/ /\ entry.kind = "lock" /\ entry = LockOf(entry.value)
            /\ entry.value \in 0 .. MaxCalls
         \/ /\ entry.kind = "refs" /\ entry = RefsOf(entry.value)
            /\ entry.value \in 0 .. MaxPushes + 1
BY DEF TypeOK, Entries, Nothing, LockOf, RefsOf

\* The entries that the actions write have the type of an entry.
LEMMA EntryWritten ==
  /\ Nothing \in Entries
  /\ \A i \in 0 .. MaxCalls : LockOf(i) \in Entries
  /\ \A r \in 0 .. MaxPushes + 1 : RefsOf(r) \in Entries
BY DEF Entries

\* Locks are told apart by their ids, and from other entries by their kind.
LEMMA LocksDiffer ==
  /\ \A i, j \in Int : LockOf(i) = LockOf(j) => i = j
  /\ \A i, j \in Int : LockOf(i) # Nothing /\ LockOf(i) # RefsOf(j)
  /\ \A i \in Int : LockOf(i).kind = "lock" /\ LockOf(i).value = i
  /\ \A i \in Int : RefsOf(i).kind = "refs" /\ RefsOf(i).value = i
  /\ Nothing.kind = "none"
BY DEF LockOf, RefsOf, Nothing

-----------------------------------------------------------------------------
(* The initial states.                                                     *)

\* With an empty entry and nobody in getRefs, the invariant holds.
LEMMA InitIInv ==
  ASSUME Init
  PROVE  IInv
<1> USE BoundsAssumption DEF Init
<1>1. TypeOK
  <2>1. entry \in Entries /\ head \in 0 .. MaxPushes + 1 /\ newest \in 0 .. MaxPushes + 1
    BY EntryWritten
  <2>2. pc \in [Procs -> PCs] /\ id \in [Procs -> 0 .. MaxCalls]
    BY DEF PCs, NoId
  <2>3. /\ got \in [Procs -> Failed .. MaxPushes + 1]
        /\ answer \in [Procs -> Failed .. MaxPushes + 1]
        /\ since \in [Procs -> 0 .. MaxPushes + 1]
    BY DEF Failed
  <2>4. calls \in 0 .. MaxCalls /\ pushes \in 0 .. MaxPushes /\ faults \in 0 .. MaxFaults
    OBVIOUS
  <2>5. overdue \in BOOLEAN
    OBVIOUS
  <2> QED
    BY <2>1, <2>2, <2>3, <2>4, <2>5 DEF TypeOK
<1>2. HeadCountsPushes /\ IdsDistinct /\ OwnersHoldLock
  BY LocksDiffer DEF HeadCountsPushes, IdsDistinct, OwnersHoldLock, NoId
<1>3. NothingAhead /\ Fresh /\ NoStepBack
  BY LocksDiffer DEF NothingAhead, Fresh, NoStepBack, Failed
<1> QED
  BY <1>1, <1>2, <1>3 DEF IInv

-----------------------------------------------------------------------------
(* Type correctness.                                                       *)

\* Returning references or an error keeps the types of what it sets.
LEMMA ReturnType ==
  ASSUME TypeOK, NEW p \in Procs, NEW r \in Failed .. MaxPushes + 1, Return(p, r)
  PROVE  /\ pc' \in [Procs -> PCs]
         /\ answer' \in [Procs -> Failed .. MaxPushes + 1]
         /\ newest' \in 0 .. MaxPushes + 1
<1>1. pc' \in [Procs -> PCs] /\ answer' \in [Procs -> Failed .. MaxPushes + 1]
  BY DEF TypeOK, Return, Goto, PCs
<1>2. newest' \in 0 .. MaxPushes + 1
  BY BoundsAssumption DEF TypeOK, Return, Failed
<1> QED
  BY <1>1, <1>2

\* Becoming the owner does, too.
LEMMA BecomeOwnerType ==
  ASSUME TypeOK, NEW p \in Procs, NEW b \in BOOLEAN, BecomeOwner(p, b)
  PROVE  /\ pc' \in [Procs -> PCs]
         /\ answer' \in [Procs -> Failed .. MaxPushes + 1]
         /\ newest' \in 0 .. MaxPushes + 1
         /\ overdue' \in BOOLEAN
BY DEF TypeOK, BecomeOwner, Goto, PCs

\* GetGitReferences and the test after it keep the types.
LEMMA GetType ==
  ASSUME TypeOK, NEW p \in Procs, NEW l \in PCs, Get(p, l)
  PROVE  TypeOK'
<1>1. UNCHANGED <<head, entry, id, got, since, calls, pushes, faults>>
  BY DEF Get, bounds
<1>2. CASE BecomeOwner(p, id[p] = NoId)
  BY <1>1, <1>2, BecomeOwnerType DEF TypeOK
<1>3. CASE entry.kind = "refs" /\ Return(p, entry.value) /\ UNCHANGED overdue
  <2>1. entry.value \in Failed .. MaxPushes + 1
    BY <1>3, EntryKinds, BoundsAssumption DEF Failed
  <2> QED
    BY <1>1, <1>3, <2>1, ReturnType DEF TypeOK
<1>4. CASE Goto(p, l) /\ UNCHANGED <<answer, newest, overdue>>
  BY <1>1, <1>4 DEF TypeOK, Goto
<1> QED
  BY <1>2, <1>3, <1>4 DEF Get

\* Every step keeps the types.
LEMMA TypeStep ==
  ASSUME TypeOK, HeadCountsPushes, NothingAhead, [Next]_vars
  PROVE  TypeOK'
<1> USE BoundsAssumption
<1>1. CASE Push
  BY <1>1 DEF Push, TypeOK, HeadCountsPushes
<1>2. CASE Expire
  BY <1>2, EntryWritten DEF Expire, TypeOK, bounds
<1>3. ASSUME NEW p \in Procs, Call(p)
      PROVE  TypeOK'
  BY <1>3 DEF Call, TypeOK, Goto, PCs, NoId, Fault, NoFault
<1>4. ASSUME NEW p \in Procs, Poll(p) \/ GiveUp(p)
      PROVE  TypeOK'
  BY <1>4 DEF Poll, GiveUp, BecomeOwner, TypeOK, Goto, PCs, bounds
<1>5. ASSUME NEW p \in Procs, Read(p) \/ ReadAgain(p)
      PROVE  TypeOK'
  BY <1>5, GetType DEF Read, ReadAgain, PCs
<1>6. ASSUME NEW p \in Procs, GetFails(p) \/ Crash(p)
      PROVE  TypeOK'
  <2>1. Failed \in Failed .. MaxPushes + 1
    BY DEF Failed
  <2>2. UNCHANGED <<head, entry, id, got, since, calls, pushes>> /\ faults' \in 0 .. MaxFaults
    <3>1. CASE GetFails(p)
      BY <3>1 DEF GetFails, bounds, Fault, TypeOK
    <3>2. CASE Crash(p)
      BY <3>2 DEF Crash, bounds, Fault, TypeOK
    <3> QED
      BY <1>6, <3>1, <3>2
  <2>3. CASE BecomeOwner(p, TRUE)
    BY <2>2, <2>3, BecomeOwnerType DEF TypeOK
  <2>4. CASE Return(p, Failed) /\ UNCHANGED overdue
    BY <2>1, <2>2, <2>4, ReturnType DEF TypeOK
  <2> QED
    BY <1>6, <2>3, <2>4 DEF GetFails, Crash
<1>7. ASSUME NEW p \in Procs, TryLock(p)
      PROVE  TypeOK'
  BY <1>7, EntryWritten DEF TryLock, TypeOK, Goto, PCs, bounds, Fault, NoFault
<1>8. ASSUME NEW p \in Procs, ListRemote(p)
      PROVE  TypeOK'
  BY <1>8 DEF ListRemote, TypeOK, Goto, PCs, Failed, bounds, Fault, NoFault
<1>9. ASSUME NEW p \in Procs, SetGitReferences(p)
      PROVE  TypeOK'
  <2>1. got[p] \in Failed .. MaxPushes + 1 /\ got[p] \in 0 .. MaxPushes + 1
    BY <1>9 DEF SetGitReferences, TypeOK, NothingAhead, Failed
  <2> QED
    BY <1>9, <2>1, ReturnType, EntryWritten DEF SetGitReferences, TypeOK, bounds
<1>10. ASSUME NEW p \in Procs, SetFails(p)
       PROVE  TypeOK'
  BY <1>10 DEF SetFails, TypeOK, Goto, PCs, bounds, Fault
<1>11. ASSUME NEW p \in Procs, Unlock(p) \/ Delete(p)
       PROVE  TypeOK'
  <2>1. got[p] \in Failed .. MaxPushes + 1
    BY DEF TypeOK
  <2>2. /\ UNCHANGED <<head, id, got, since, overdue, calls, pushes>>
        /\ entry' \in Entries /\ faults' \in 0 .. MaxFaults
    BY <1>11, EntryWritten DEF Unlock, Delete, bounds, Fault, NoFault, TypeOK
  <2>3. CASE Return(p, got[p])
    BY <2>1, <2>2, <2>3, ReturnType DEF TypeOK
  <2>4. CASE Goto(p, "delete") /\ UNCHANGED <<answer, newest>>
    BY <2>2, <2>4 DEF TypeOK, Goto, PCs
  <2> QED
    BY <1>11, <2>3, <2>4 DEF Unlock, Delete
<1>12. CASE UNCHANGED vars
  BY <1>12 DEF vars, TypeOK
<1> QED
  BY <1>1, <1>2, <1>3, <1>4, <1>5, <1>6, <1>7, <1>8, <1>9, <1>10, <1>11, <1>12
     DEF Next, Step

-----------------------------------------------------------------------------
(* Ids and locks.                                                          *)

\* The steps of a goroutine p move p only.
LEMMA MovesOne ==
  ASSUME TypeOK, NEW p \in Procs, Call(p) \/ Step(p) \/ Crash(p)
  PROVE  /\ \A q \in Procs \ {p} : pc'[q] = pc[q] /\ got'[q] = got[q] /\ id'[q] = id[q]
                                   /\ answer'[q] = answer[q] /\ since'[q] = since[q]
         /\ ~Call(p) => UNCHANGED <<id, since, calls>> /\ pc[p] # "idle"
         /\ UNCHANGED <<head, pushes>>
         /\ overdue => overdue'
<1> USE DEF TypeOK, bounds, Goto, Return, BecomeOwner
<1>1. CASE Call(p)
  BY <1>1 DEF Call
<1>2. CASE Poll(p) \/ GiveUp(p) \/ TryLock(p) \/ ListRemote(p) \/ SetFails(p)
  BY <1>2 DEF Poll, GiveUp, TryLock, ListRemote, SetFails
<1>3. CASE Read(p) \/ ReadAgain(p)
  BY <1>3 DEF Read, ReadAgain, Get
<1>4. CASE GetFails(p) \/ Crash(p)
  BY <1>4 DEF GetFails, Crash
<1>5. CASE SetGitReferences(p) \/ Unlock(p) \/ Delete(p)
  BY <1>5 DEF SetGitReferences, Unlock, Delete
<1> QED
  BY <1>1, <1>2, <1>3, <1>4, <1>5 DEF Step

\* Every step keeps the ids of the calls under way distinct.
LEMMA IdsStep ==
  ASSUME TypeOK, IdsDistinct, [Next]_vars
  PROVE  IdsDistinct'
<1> USE DEF IdsDistinct
<1>1. CASE Push \/ UNCHANGED vars
  BY <1>1 DEF Push, vars
<1>2. CASE Expire
  BY <1>2, LocksDiffer DEF Expire, bounds
<1>3. ASSUME NEW p \in Procs, Call(p)
      PROVE  IdsDistinct'
  <2>1. /\ calls \in Nat /\ calls' = calls + 1 /\ entry' = entry
        /\ id'[p] = calls + 1 \/ id'[p] = NoId
        /\ \A q \in Procs \ {p} : id'[q] = id[q] /\ pc'[q] = pc[q]
        /\ \A q \in Procs : id[q] \in Nat
    BY <1>3, BoundsAssumption DEF Call, TypeOK, Goto
  <2>2. entry.kind = "lock" => entry.value \in Nat
    BY EntryKinds, BoundsAssumption
  <2> QED
    BY <2>1, <2>2 DEF NoId
<1>4. ASSUME NEW p \in Procs, Step(p) \/ Crash(p), ~Call(p)
      PROVE  IdsDistinct'
  <2>1. /\ UNCHANGED <<id, calls>> /\ pc[p] # "idle"
        /\ \A q \in Procs \ {p} : pc'[q] = pc[q]
    BY <1>4, MovesOne
  <2>2. \/ entry' = entry \/ entry' = Nothing \/ entry' = LockOf(id[p])
        \/ entry' = RefsOf(got[p])
    <3> USE DEF Goto, Return
    <3>1. CASE \/ Poll(p) \/ GiveUp(p) \/ Read(p) \/ GetFails(p) \/ ReadAgain(p)
               \/ ListRemote(p) \/ SetFails(p) \/ Unlock(p) \/ Crash(p)
      BY <3>1 DEF Poll, GiveUp, Read, Get, GetFails, ReadAgain, ListRemote, SetFails,
                  Unlock, Crash
    <3>2. CASE TryLock(p) \/ SetGitReferences(p) \/ Delete(p)
      BY <3>2 DEF TryLock, SetGitReferences, Delete
    <3> QED
      BY <1>4, <3>1, <3>2 DEF Step
  <2>3. id[p] \in Int /\ got[p] \in Int
    BY BoundsAssumption DEF TypeOK, Failed
  <2>4. entry'.kind = "lock" => entry'.value <= calls
    BY <2>2, <2>3, LocksDiffer
  <2> QED
    BY <2>1, <2>4
<1> QED
  BY <1>1, <1>2, <1>3, <1>4 DEF Next

\* Without anything overdue two calls never act as the owner at once.
LEMMA OneOwner ==
  ASSUME TypeOK, IdsDistinct, OwnersHoldLock, ~overdue,
         NEW p \in Procs, NEW q \in Procs,
         pc[p] \in {"list", "set", "unlock", "delete"},
         pc[q] # "idle", entry = LockOf(id[q])
  PROVE  p = q
<1>1. id[p] # NoId /\ entry = LockOf(id[p])
  BY DEF OwnersHoldLock
<1>2. id[p] = id[q]
  <2>1. id[p] \in Int /\ id[q] \in Int
    BY BoundsAssumption DEF TypeOK
  <2>2. LockOf(id[p]) = LockOf(id[q])
    BY <1>1
  <2> QED
    BY <2>1, <2>2 DEF LockOf
<1> QED
  BY <1>1, <1>2 DEF IdsDistinct

\* Every step leaves a lock to its owner, or something is overdue.
LEMMA OwnersStep ==
  ASSUME TypeOK, IdsDistinct, OwnersHoldLock, [Next]_vars
  PROVE  OwnersHoldLock'
<1> DEFINE Owning == {"list", "set", "unlock", "delete"}
<1> SUFFICES ASSUME ~overdue', NEW q \in Procs, pc'[q] \in Owning
             PROVE  id'[q] # NoId /\ entry' = LockOf(id'[q])
  BY DEF OwnersHoldLock
<1>1. CASE Push \/ UNCHANGED vars
  BY <1>1 DEF Push, vars, OwnersHoldLock
<1>2. CASE Expire
  BY <1>2 DEF Expire, OwnersHoldLock, Owner
<1>3. ASSUME NEW p \in Procs, Call(p)
      PROVE  id'[q] # NoId /\ entry' = LockOf(id'[q])
  BY <1>3 DEF Call, OwnersHoldLock, Goto, TypeOK
<1>4. ASSUME NEW p \in Procs, Step(p) \/ Crash(p), ~Call(p)
      PROVE  id'[q] # NoId /\ entry' = LockOf(id'[q])
  <2>1. /\ UNCHANGED id /\ pc[p] # "idle" /\ ~overdue
        /\ q # p => pc'[q] = pc[q]
    BY <1>4, MovesOne
  <2>2. q # p => id[q] # NoId /\ entry = LockOf(id[q])
    BY <2>1 DEF OwnersHoldLock
  <2>3. CASE Poll(p) \/ GiveUp(p) \/ GetFails(p) \/ Crash(p)
    BY <2>1, <2>2, <2>3 DEF Poll, GiveUp, GetFails, Crash, Goto, BecomeOwner, Return, TypeOK
  <2>4. CASE Read(p) \/ ReadAgain(p)
    <3>1. CASE q # p
      BY <2>1, <2>2, <2>4, <3>1 DEF Read, ReadAgain, Get
    <3>2. CASE q = p
      <4>1. FoundLockId(p) = id[p] /\ id[p] # NoId /\ entry' = entry
        BY <2>1, <2>4, <3>2 DEF Read, ReadAgain, Get, Goto, BecomeOwner, Return, TypeOK
      <4> QED
        BY <2>1, <3>2, <4>1, EntryKinds DEF FoundLockId
    <3> QED
      BY <3>1, <3>2
  <2>5. CASE TryLock(p)
    <3>1. q # p
      BY <2>5 DEF TryLock, Goto, TypeOK
    <3>2. entry # Nothing
      BY <2>2, <3>1, LocksDiffer, BoundsAssumption DEF TypeOK
    <3> QED
      BY <2>1, <2>2, <2>5, <3>1, <3>2 DEF TryLock
  <2>6. CASE ListRemote(p) \/ SetFails(p)
    BY <2>1, <2>6 DEF ListRemote, SetFails, Goto, TypeOK, OwnersHoldLock
  <2>7. CASE SetGitReferences(p) \/ Delete(p)
    <3>1. q # p
      BY <2>7 DEF SetGitReferences, Delete, Return, Goto, TypeOK
    <3>2. pc[p] \in Owning
      BY <2>7 DEF SetGitReferences, Delete
    <3> QED
      BY <2>1, <2>2, <3>1, <3>2, OneOwner
  <2>8. CASE Unlock(p)
    BY <2>1, <2>8 DEF Unlock, Return, Goto, TypeOK, OwnersHoldLock
  <2> QED
    BY <1>4, <2>3, <2>4, <2>5, <2>6, <2>7, <2>8 DEF Step
<1> QED
  BY <1>1, <1>2, <1>3, <1>4 DEF Next

-----------------------------------------------------------------------------
(* Old and new references.                                                 *)

\* The values of the variables are numbers.
LEMMA Numbers ==
  ASSUME TypeOK
  PROVE  /\ head \in Nat /\ newest \in Nat /\ pushes \in Nat
         /\ \A p \in Procs : got[p] \in Int /\ since[p] \in Nat /\ answer[p] \in Int
         /\ entry.kind = "refs" => entry.value \in Nat
<1>1. entry.kind = "refs" => entry.value \in Nat
  BY EntryKinds, BoundsAssumption
<1> QED
  BY <1>1, BoundsAssumption DEF TypeOK, Failed

\* Every step keeps the remote ahead of every copy of its references.
LEMMA AheadStep ==
  ASSUME TypeOK, HeadCountsPushes, NothingAhead, [Next]_vars
  PROVE  HeadCountsPushes' /\ NothingAhead'
<1> USE DEF NothingAhead, HeadCountsPushes
<1>1. CASE Push
  BY <1>1, Numbers DEF Push
<1>2. CASE Expire
  BY <1>2, LocksDiffer DEF Expire, bounds
<1>3. CASE UNCHANGED vars
  BY <1>3 DEF vars
<1>4. ASSUME NEW p \in Procs, Call(p)
      PROVE  HeadCountsPushes' /\ NothingAhead'
  BY <1>4, Numbers DEF Call, Goto, TypeOK
<1>5. ASSUME NEW p \in Procs, NEW r \in Int, Return(p, r), r <= head,
             UNCHANGED <<head, pushes, got, since>>, entry'.kind = "refs" => entry'.value <= head
      PROVE  HeadCountsPushes' /\ NothingAhead'
  <2>1. newest <= newest' /\ newest' <= head /\ newest' \in Int
    BY <1>5, Numbers DEF Return
  <2>2. \A q \in Procs : pc'[q] = "set" => pc[q] = "set"
    BY <1>5 DEF Return, Goto, TypeOK
  <2> QED
    BY <1>5, <2>1, <2>2, Numbers
<1>6. ASSUME NEW p \in Procs, Poll(p) \/ GiveUp(p) \/ SetFails(p)
      PROVE  HeadCountsPushes' /\ NothingAhead'
  BY <1>6 DEF Poll, GiveUp, SetFails, BecomeOwner, Goto, TypeOK, bounds
<1>7. ASSUME NEW p \in Procs, Read(p) \/ ReadAgain(p)
      PROVE  HeadCountsPushes' /\ NothingAhead'
  <2>1. UNCHANGED <<head, pushes, got, since, entry>>
    BY <1>7 DEF Read, ReadAgain, Get, bounds
  <2>2. \/ entry.kind = "refs" /\ Return(p, entry.value)
        \/ /\ UNCHANGED newest
           /\ \E l \in {"setnx", "top", "list"} : Goto(p, l)
    BY <1>7 DEF Read, ReadAgain, Get, BecomeOwner
  <2> QED
    BY <1>5, <2>1, <2>2, Numbers DEF Goto, TypeOK
<1>8. ASSUME NEW p \in Procs, GetFails(p) \/ Crash(p)
      PROVE  HeadCountsPushes' /\ NothingAhead'
  <2>1. UNCHANGED <<head, pushes, got, since, entry>>
    BY <1>8 DEF GetFails, Crash, bounds
  <2>2. Return(p, Failed) \/ BecomeOwner(p, TRUE)
    BY <1>8 DEF GetFails, Crash
  <2>3. Failed \in Int /\ Failed <= head
    BY Numbers DEF Failed
  <2>4. CASE BecomeOwner(p, TRUE)
    BY <2>1, <2>4 DEF BecomeOwner, Goto, TypeOK
  <2> QED
    BY <1>5, <2>1, <2>2, <2>3, <2>4
<1>9. ASSUME NEW p \in Procs, TryLock(p)
      PROVE  HeadCountsPushes' /\ NothingAhead'
  <2>1. entry' = entry \/ entry' = LockOf(id[p])
    BY <1>9 DEF TryLock
  <2>2. entry'.kind = "refs" => entry' = entry
    BY <2>1, LocksDiffer, BoundsAssumption DEF TypeOK
  <2> QED
    BY <1>9, <2>2 DEF TryLock, Goto, TypeOK, bounds
<1>10. ASSUME NEW p \in Procs, ListRemote(p)
       PROVE  HeadCountsPushes' /\ NothingAhead'
  BY <1>10, Numbers DEF ListRemote, Goto, TypeOK, bounds, Failed
<1>11. ASSUME NEW p \in Procs, SetGitReferences(p)
       PROVE  HeadCountsPushes' /\ NothingAhead'
  <2>1. entry'.value = got[p] /\ got[p] \in Int /\ got[p] <= head
    BY <1>11, LocksDiffer, Numbers DEF SetGitReferences
  <2> QED
    BY <1>5, <1>11, <2>1 DEF SetGitReferences, bounds
<1>12. ASSUME NEW p \in Procs, Unlock(p) \/ Delete(p)
       PROVE  HeadCountsPushes' /\ NothingAhead'
  <2>1. /\ UNCHANGED <<head, pushes, got, since>>
        /\ entry' = entry \/ entry' = Nothing
    BY <1>12 DEF Unlock, Delete, bounds
  <2>2. entry'.kind = "refs" => entry'.value <= head
    BY <2>1, LocksDiffer
  <2>3. Return(p, got[p]) \/ (Goto(p, "delete") /\ UNCHANGED <<newest, entry>>)
    BY <1>12 DEF Unlock, Delete
  <2> QED
    BY <1>5, <2>1, <2>2, <2>3, Numbers DEF Goto, TypeOK
<1> QED
  BY <1>1, <1>2, <1>3, <1>4, <1>6, <1>7, <1>8, <1>9, <1>10, <1>11, <1>12 DEF Next, Step

\* A call that returns what is fresh, or an error, keeps what else can become
\* an answer fresh, and does not step back.
LEMMA ReturnFresh ==
  ASSUME IInv, ~overdue, NEW p \in Procs, NEW r \in Int, Return(p, r),
         r = Failed \/ r >= newest,
         UNCHANGED <<got, since>>,
         entry'.kind = "refs" => entry'.value \in Int /\ entry'.value >= newest /\ entry'.value >= r,
         \A q \in Procs \ {p} : pc[q] \in {"set", "unlock", "delete"} /\ got[q] # Failed
                                  => got[q] >= r
  PROVE  Fresh' /\ NoStepBack'
<1>1. /\ pc'[p] = "idle" /\ answer'[p] = r
      /\ \A q \in Procs \ {p} : pc'[q] = pc[q] /\ answer'[q] = answer[q]
      /\ newest' = newest \/ newest' = r
  BY DEF IInv, TypeOK, Return, Goto
<1>2. Fresh'
  BY <1>1 DEF IInv, Fresh
<1>3. r # Failed => r >= since[p]
  BY Numbers DEF IInv, NothingAhead
<1>4. NoStepBack'
  BY <1>1, <1>3 DEF IInv, NoStepBack
<1> QED
  BY <1>2, <1>4

\* Every step keeps what can still become an answer fresh, and no answer is
\* older than the newest one at the beginning of its call.
LEMMA FreshStep ==
  ASSUME IInv, [Next]_vars
  PROVE  Fresh' /\ NoStepBack'
<1> SUFFICES ASSUME ~overdue'
             PROVE  Fresh' /\ NoStepBack'
  BY DEF Fresh, NoStepBack
<1> USE DEF IInv
<1>1. CASE Push \/ UNCHANGED vars
  BY <1>1 DEF Push, vars, Fresh, NoStepBack
<1>2. CASE Expire
  BY <1>2, LocksDiffer DEF Expire, Fresh, NoStepBack
<1>3. ASSUME NEW p \in Procs, Call(p)
      PROVE  Fresh' /\ NoStepBack'
  BY <1>3 DEF Call, Goto, TypeOK, Fresh, NoStepBack
<1>4. ASSUME NEW p \in Procs, Step(p) \/ Crash(p), ~Call(p)
      PROVE  Fresh' /\ NoStepBack'
  <2>1. /\ ~overdue /\ pc[p] # "idle" /\ UNCHANGED <<since, id>>
        /\ \A q \in Procs \ {p} : /\ pc'[q] = pc[q] /\ got'[q] = got[q]
                                  /\ answer'[q] = answer[q]
    BY <1>4, MovesOne
  <2>2. ASSUME UNCHANGED <<answer, newest>>, pc'[p] # "idle",
               entry'.kind = "refs" => entry' = entry,
               pc'[p] \in {"set", "unlock", "delete"} /\ got'[p] # Failed => got'[p] >= newest
        PROVE  Fresh' /\ NoStepBack'
    BY <2>1, <2>2 DEF Fresh, NoStepBack
  <2>3. CASE Poll(p) \/ GiveUp(p)
    BY <2>2, <2>3 DEF Poll, GiveUp, BecomeOwner, Goto, TypeOK
  <2>4. ASSUME pc[p] \in {"list", "set", "unlock", "delete"}, NEW q \in Procs \ {p}
        PROVE  pc[q] \notin {"list", "set", "unlock", "delete"}
    BY <2>1, <2>4, OneOwner DEF OwnersHoldLock
  <2>5. ASSUME entry.kind = "refs", NEW q \in Procs
        PROVE  pc[q] \notin {"list", "set", "unlock", "delete"}
    BY <2>1, <2>5, LocksDiffer, BoundsAssumption DEF OwnersHoldLock, TypeOK
  <2>6. CASE Read(p) \/ ReadAgain(p)
    <3>1. UNCHANGED <<got, entry>>
      BY <2>6 DEF Read, ReadAgain, Get
    <3>2. CASE entry.kind = "refs" /\ Return(p, entry.value)
      <4>1. entry.value \in Int /\ entry.value >= newest
        BY <2>1, <3>2, Numbers DEF Fresh
      <4>2. \A q \in Procs : pc[q] \notin {"set", "unlock", "delete"}
        BY <2>5, <3>2
      <4> QED
        BY <2>1, <3>1, <3>2, <4>1, <4>2, ReturnFresh
    <3>3. CASE UNCHANGED <<answer, newest>> /\ \E l \in {"setnx", "top", "list"} : Goto(p, l)
      BY <2>2, <3>1, <3>3 DEF Goto, TypeOK
    <3> QED
      BY <2>6, <3>2, <3>3 DEF Read, ReadAgain, Get, BecomeOwner
  <2>7. CASE GetFails(p) \/ Crash(p)
    <3>1. UNCHANGED <<got, entry>> /\ (Return(p, Failed) \/ BecomeOwner(p, TRUE))
      BY <2>7 DEF GetFails, Crash
    <3>2. CASE BecomeOwner(p, TRUE)
      BY <2>2, <3>1, <3>2 DEF BecomeOwner, Goto, TypeOK
    <3>3. CASE Return(p, Failed)
      <4>1. Failed \in Int /\ newest >= Failed /\ newest \in Nat
        BY Numbers DEF Failed
      <4>2. entry.kind = "refs" =>
              entry.value \in Int /\ entry.value >= newest /\ entry.value >= Failed
        BY <2>1, <4>1, Numbers DEF Fresh
      <4>3. \A q \in Procs : pc[q] \in {"set", "unlock", "delete"} /\ got[q] # Failed
                               => got[q] >= Failed
        BY <2>1, <4>1, Numbers DEF Fresh
      <4> QED
        BY <2>1, <3>1, <3>3, <4>1, <4>2, <4>3, ReturnFresh
    <3> QED
      BY <3>1, <3>2, <3>3
  <2>8. CASE TryLock(p)
    <3>1. entry'.kind = "refs" => entry' = entry
      BY <2>8, LocksDiffer, BoundsAssumption DEF TryLock, TypeOK
    <3> QED
      BY <2>2, <2>8, <3>1 DEF TryLock, Goto, TypeOK
  <2>9. CASE ListRemote(p)
    <3>1. head >= newest
      BY Numbers DEF NothingAhead
    <3> QED
      BY <2>2, <2>9, <3>1 DEF ListRemote, Goto, TypeOK
  <2>10. CASE SetFails(p)
    BY <2>1, <2>2, <2>10 DEF SetFails, Goto, TypeOK, Fresh
  <2>11. CASE SetGitReferences(p)
    <3>1. got[p] \in Int /\ got[p] # Failed /\ got[p] >= newest
      BY <2>1, <2>11, Numbers DEF SetGitReferences, Fresh, NothingAhead
    <3>2. entry'.kind = "refs" /\ entry'.value = got[p]
      BY <2>11, <3>1, LocksDiffer DEF SetGitReferences
    <3>3. got[p] >= got[p]
      BY <3>1
    <3> QED
      BY <2>1, <2>4, <2>11, <3>1, <3>2, <3>3, ReturnFresh DEF SetGitReferences
  <2>12. CASE Unlock(p) \/ Delete(p)
    <3>1. /\ UNCHANGED got
          /\ entry' = entry \/ entry' = Nothing
          /\ pc[p] \in {"unlock", "delete"}
      BY <2>12 DEF Unlock, Delete
    <3>2. entry'.kind # "refs"
      BY <2>5, <3>1, LocksDiffer
    <3>3. got[p] = Failed \/ got[p] >= newest
      BY <2>1, <3>1 DEF Fresh
    <3>4. CASE Return(p, got[p])
      BY <2>1, <2>4, <3>1, <3>2, <3>3, <3>4, Numbers, ReturnFresh
    <3>5. CASE Goto(p, "delete") /\ UNCHANGED <<answer, newest>>
      BY <2>1, <2>2, <3>1, <3>2, <3>3, <3>5 DEF Goto, TypeOK
    <3> QED
      BY <2>12, <3>4, <3>5 DEF Unlock, Delete
  <2> QED
    BY <1>4, <2>3, <2>6, <2>7, <2>8, <2>9, <2>10, <2>11, <2>12 DEF Step
<1> QED
  BY <1>1, <1>2, <1>3, <1>4 DEF Next

-----------------------------------------------------------------------------
(* The theorems.                                                           *)

\* The inductive invariant holds in every reachable state.
LEMMA Invariance ==
  Spec => []IInv
<1>1. Init => IInv
  BY InitIInv
<1>2. IInv /\ [Next]_vars => IInv'
  BY TypeStep, IdsStep, OwnersStep, AheadStep, FreshStep DEF IInv
<1> QED
  BY <1>1, <1>2, PTL DEF Spec

\* Type correctness, for any goroutines, calls, pushes and faults.
THEOREM TypeCorrect ==
  Spec => []TypeOK
<1>1. IInv => TypeOK
  BY DEF IInv
<1> QED
  BY <1>1, Invariance, PTL

\* As long as no owner outlives its lock, no wait ends and no id is missing,
\* one goroutine at a time lists the references, however many repo servers
\* share the cache, and whichever of their calls fail or die with the lock.
THEOREM OneLister ==
  Spec => []SingleLister
<1>1. IInv => SingleLister
  <2> SUFFICES ASSUME IInv, ~overdue
               PROVE  Cardinality(Listers) <= 1
    BY DEF SingleLister
  <2>1. \A p, q \in Listers : p = q
    BY OneOwner DEF IInv, OwnersHoldLock, Listers
  <2>2. CASE Listers = {}
    BY <2>2, FS_EmptySet
  <2>3. CASE Listers # {}
    <3>1. PICK p \in Listers : Listers = {p}
      BY <2>1, <2>3
    <3>2. Cardinality({p}) = 1
      BY FS_Singleton
    <3> QED
      BY <3>1, <3>2
  <2> QED
    BY <2>2, <2>3
<1> QED
  BY <1>1, Invariance, PTL

\* Under the same condition the references do not go back: no call gets older
\* ones than some call had got before it began.
THEOREM ReferencesNeverGoBack ==
  Spec => []NoStepBack
<1>1. IInv => NoStepBack
  BY DEF IInv
<1> QED
  BY <1>1, Invariance, PTL
=============================================================================
