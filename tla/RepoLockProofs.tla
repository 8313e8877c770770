--------------------------- MODULE RepoLockProofs ---------------------------
(***************************************************************************)
(* Proofs about RepoLock, for any finite set of goroutines, any set of     *)
(* revisions and any number of calls.                                      *)
(***************************************************************************)
EXTENDS RepoLock, FiniteSetTheorems, TLAPS

-----------------------------------------------------------------------------
(* The inductive invariant.                                                *)

\* cond.L is held across steps by the caller inside init, and only while
\* nobody has the repository; init has opened the directory.
MutexOwner ==
  /\ \A p \in Procs : pc[p] = "init" <=> condL = p
  /\ condL # NoProc => revision = NoRev /\ open

\* repositoryState describes every holder: its revision is the one the holder
\* asked for, the tree holds it, and a sharing flag that is set is the
\* holder's own wish.
StateDescribesHolders ==
  \A p \in Users :
    /\ req[p].rev = revision
    /\ tree = revision
    /\ open
    /\ allowConcurrent => req[p].conc

\* Only a repository taken for sharing has more than one holder.
SharingNeedsFlag ==
  \A p, q \in Users : p # q => allowConcurrent

IInv ==
  /\ TypeOK
  /\ MutexOwner
  /\ StateDescribesHolders
  /\ SharingNeedsFlag
  /\ CountExact
  /\ NoForgottenSleeper

-----------------------------------------------------------------------------
(* How the actions change the set of holders.                              *)

\* The holders are a finite set.
LEMMA UsersFinite ==
  IsFiniteSet(Users)
<1>1. Users \subseteq Procs
  BY DEF Users
<1> QED
  BY <1>1, FS_Subset, ProcsAssumption

\* A caller that gets in is one more holder.
LEMMA UsersAdd ==
  ASSUME TypeOK, NEW p \in Procs, pc' = [pc EXCEPT ![p] = "using"]
  PROVE  Users' = Users \cup {p}
BY DEF TypeOK, Users

\* A caller that leaves "using" for anywhere else is one holder less.
LEMMA UsersRemove ==
  ASSUME TypeOK, NEW p \in Procs, NEW to \in PCs \ {"using"},
         pc' = [pc EXCEPT ![p] = to]
  PROVE  Users' = Users \ {p}
BY DEF TypeOK, Users

\* A repository that counts as free has no holder, so cond.L is only held while
\* there is none.
LEMMA NobodyDuringInit ==
  ASSUME IInv, NEW p \in Procs, pc[p] = "init"
  PROVE  Users = {} /\ revision = NoRev /\ condL = p /\ open
<1>1. condL = p
  BY DEF IInv, MutexOwner
<1>2. revision = NoRev /\ open
  BY <1>1, ProcsAssumption DEF IInv, MutexOwner
<1> QED
  BY <1>1, <1>2 DEF IInv, CountExact

-----------------------------------------------------------------------------
(* The initial states.                                                     *)

\* A new repositoryState with nobody in Lock satisfies the invariant.
LEMMA InitIInv ==
  ASSUME Init
  PROVE  IInv
<1>1. TypeOK
  <2>1. (CHOOSE r \in Revs : TRUE) \in Revs
    BY RevsAssumption
  <2>2. req \in [Procs -> Requests]
    BY <2>1 DEF Init, Requests
  <2>3. 0 \in 0 .. MaxCalls
    BY MaxCallsAssumption
  <2> QED
    BY <2>2, <2>3 DEF Init, TypeOK, PCs
<1>2. Users = {} /\ Asleep = {}
  BY DEF Init, Users, Asleep
<1>3. MutexOwner
  BY ProcsAssumption DEF Init, MutexOwner
<1>4. StateDescribesHolders /\ SharingNeedsFlag
  BY <1>2 DEF StateDescribesHolders, SharingNeedsFlag
<1>5. CountExact
  BY <1>2, FS_EmptySet DEF Init, CountExact
<1>6. NoForgottenSleeper
  BY <1>2 DEF NoForgottenSleeper
<1> QED
  BY <1>1, <1>3, <1>4, <1>5, <1>6 DEF IInv

-----------------------------------------------------------------------------
(* One lemma per action.                                                   *)

\* A new call changes the request of a goroutine outside, of no holder.
LEMMA CallIInv ==
  ASSUME IInv, NEW p \in Procs, Call(p)
  PROVE  IInv'
<1>1. TypeOK'
  BY MaxCallsAssumption DEF IInv, Call, TypeOK, PCs
<1>2. Users' = Users /\ Asleep' = Asleep
  BY DEF IInv, TypeOK, Call, Users, Asleep
<1>3. MutexOwner'
  BY DEF IInv, TypeOK, MutexOwner, Call
<1>4. p \notin Users
  BY DEF Call, Users
<1>5. \A q \in Users : req'[q] = req[q]
  BY <1>4 DEF IInv, TypeOK, Call, Users
<1>6. StateDescribesHolders' /\ SharingNeedsFlag'
  BY <1>2, <1>5 DEF IInv, Call, StateDescribesHolders, SharingNeedsFlag
<1>7. CountExact'
  BY <1>2 DEF IInv, Call, CountExact
<1>8. NoForgottenSleeper'
  BY <1>2 DEF IInv, TypeOK, Call, NoForgottenSleeper
<1> QED
  BY <1>1, <1>3, <1>6, <1>7, <1>8 DEF IInv

\* init starts with nobody in, so what it does to the tree disturbs no holder.
LEMMA StartInitIInv ==
  ASSUME IInv, NEW p \in Procs, StartInit(p)
  PROVE  IInv'
<1>1. TypeOK'
  BY DEF IInv, StartInit, TypeOK, PCs
<1>2. Users = {}
  BY DEF IInv, CountExact, StartInit
<1>3. Users' = Users /\ Asleep' = Asleep
  BY DEF IInv, TypeOK, StartInit, Users, Asleep
<1>4. MutexOwner'
  BY ProcsAssumption DEF IInv, TypeOK, MutexOwner, StartInit
<1>5. StateDescribesHolders' /\ SharingNeedsFlag'
  BY <1>2, <1>3 DEF StateDescribesHolders, SharingNeedsFlag
<1>6. CountExact'
  BY <1>3 DEF IInv, StartInit, CountExact
<1>7. NoForgottenSleeper'
  BY <1>3 DEF IInv, TypeOK, StartInit, NoForgottenSleeper
<1> QED
  BY <1>1, <1>4, <1>5, <1>6, <1>7 DEF IInv

\* The first one in becomes the only holder, with its own revision checked out
\* and its own choice about sharing.
LEMMA FinishInitIInv ==
  ASSUME IInv, NEW p \in Procs, FinishInit(p)
  PROVE  IInv'
<1>1. TypeOK'
  BY DEF IInv, FinishInit, TypeOK, PCs, Requests
<1>2. Users = {} /\ condL = p /\ open
  BY NobodyDuringInit DEF FinishInit
<1>3. Users' = {p}
  BY <1>2, UsersAdd DEF IInv, FinishInit
<1>4. req[p].rev \in Revs
  BY DEF IInv, TypeOK, Requests
<1>5. MutexOwner'
  BY <1>2, ProcsAssumption DEF IInv, TypeOK, MutexOwner, FinishInit
<1>6. StateDescribesHolders' /\ SharingNeedsFlag'
  BY <1>2, <1>3 DEF FinishInit, StateDescribesHolders, SharingNeedsFlag
<1>7. CountExact'
  BY <1>3, <1>4, FS_Singleton, RevsAssumption DEF FinishInit, CountExact
<1>8. NoForgottenSleeper'
  BY <1>3 DEF NoForgottenSleeper
<1> QED
  BY <1>1, <1>5, <1>6, <1>7, <1>8 DEF IInv

\* A failed init wakes nobody and need not: a sleeper left over from before has
\* a broadcast ahead, because there was no holder.
LEMMA FailInitIInv ==
  ASSUME IInv, NEW p \in Procs, FailInit(p)
  PROVE  IInv'
<1>1. TypeOK'
  BY DEF IInv, FailInit, TypeOK, PCs
<1>2. Users = {} /\ condL = p
  BY NobodyDuringInit DEF FailInit
<1>3. Users' = Users /\ Asleep' = Asleep
  BY DEF IInv, TypeOK, FailInit, Users, Asleep
<1>4. MutexOwner'
  BY <1>2, ProcsAssumption DEF IInv, TypeOK, MutexOwner, FailInit
<1>5. StateDescribesHolders' /\ SharingNeedsFlag'
  BY <1>2, <1>3 DEF StateDescribesHolders, SharingNeedsFlag
<1>6. CountExact'
  BY <1>3 DEF IInv, FailInit, CountExact
<1>7. NoForgottenSleeper'
  BY <1>3 DEF IInv, TypeOK, FailInit, NoForgottenSleeper
<1> QED
  BY <1>1, <1>4, <1>5, <1>6, <1>7 DEF IInv

\* A joiner has the revision of the holder that is there, and both allow it.
LEMMA JoinIInv ==
  ASSUME IInv, NEW p \in Procs, Join(p)
  PROVE  IInv'
<1>1. TypeOK'
  BY DEF IInv, Join, TypeOK, PCs
<1>2. Users' = Users \cup {p} /\ p \notin Users
  <2>1. p \notin Users
    BY DEF Join, Users
  <2> QED
    BY <2>1, UsersAdd DEF IInv, Join
<1>3. MutexOwner'
  BY ProcsAssumption DEF IInv, TypeOK, MutexOwner, Join
<1>4. PICK q \in Users : TRUE
  BY DEF IInv, CountExact, Join
<1>5. StateDescribesHolders'
  BY <1>2, <1>4 DEF IInv, Join, MayJoin, StateDescribesHolders
<1>6. SharingNeedsFlag'
  BY DEF Join, MayJoin, SharingNeedsFlag
<1>7. CountExact'
  <2>1. Cardinality(Users') = Cardinality(Users) + 1
    BY <1>2, UsersFinite, FS_AddElement
  <2>2. Users' # {} /\ revision' # NoRev
    BY <1>2 DEF Join
  <2>3. processCount' = processCount + 1
    BY DEF Join
  <2> QED
    BY <2>1, <2>2, <2>3 DEF IInv, CountExact
<1>8. NoForgottenSleeper'
  BY <1>2 DEF NoForgottenSleeper
<1> QED
  BY <1>1, <1>3, <1>5, <1>6, <1>7, <1>8 DEF IInv

\* Whoever falls asleep does so because somebody holds the repository.
LEMMA SleepIInv ==
  ASSUME IInv, NEW p \in Procs, Sleep(p)
  PROVE  IInv'
<1>1. TypeOK'
  BY DEF IInv, Sleep, TypeOK, PCs
<1>2. Users' = Users /\ Users # {}
  <2>1. Users' = Users
    BY DEF IInv, TypeOK, Sleep, Users
  <2> QED
    BY <2>1 DEF IInv, CountExact, Sleep
<1>3. MutexOwner'
  BY ProcsAssumption DEF IInv, TypeOK, MutexOwner, Sleep
<1>4. StateDescribesHolders' /\ SharingNeedsFlag'
  BY <1>2 DEF IInv, Sleep, StateDescribesHolders, SharingNeedsFlag
<1>5. CountExact'
  BY <1>2 DEF IInv, Sleep, CountExact
<1>6. NoForgottenSleeper'
  BY <1>2 DEF NoForgottenSleeper
<1> QED
  BY <1>1, <1>3, <1>4, <1>5, <1>6 DEF IInv

\* The count tells the closer whether it is the last one out.
LEMMA CloseCount ==
  ASSUME IInv, NEW p \in Procs, Close(p)
  PROVE  /\ Users' = Users \ {p}
         /\ processCount' = Cardinality(Users')
         /\ processCount' \in Nat
         /\ processCount' = 0 <=> Users' = {}
<1>1. Users' = Users \ {p}
  BY UsersRemove DEF IInv, Close, PCs
<1>2. p \in Users
  BY DEF Close, Users
<1>3. Cardinality(Users') = Cardinality(Users) - 1
  BY <1>1, <1>2, UsersFinite, FS_RemoveElement
<1>4. processCount' = Cardinality(Users')
  BY <1>3 DEF IInv, CountExact, Close
<1>5. IsFiniteSet(Users')
  BY <1>1, UsersFinite, FS_RemoveElement
<1>6. Cardinality(Users') \in Nat /\ (Cardinality(Users') = 0 <=> Users' = {})
  BY <1>5, FS_CardinalityType, FS_EmptySet
<1> QED
  BY <1>1, <1>4, <1>6

\* The last one out is about to broadcast; any other leaves a holder behind.
LEMMA CloseIInv ==
  ASSUME IInv, NEW p \in Procs, Close(p)
  PROVE  IInv'
<1>1. TypeOK'
  BY CloseCount DEF IInv, Close, TypeOK, PCs
<1>2. MutexOwner'
  BY ProcsAssumption DEF IInv, TypeOK, MutexOwner, Close
<1>3. CASE processCount' = 0
  <2>1. Users' = {} /\ revision' = NoRev
    BY <1>3, CloseCount DEF Close
  <2>2. StateDescribesHolders' /\ SharingNeedsFlag'
    BY <2>1 DEF StateDescribesHolders, SharingNeedsFlag
  <2>3. CountExact'
    BY <2>1, CloseCount DEF CountExact
  <2>4. pc'[p] = "notify"
    BY <1>3 DEF IInv, TypeOK, Close
  <2>5. NoForgottenSleeper'
    BY <2>4 DEF NoForgottenSleeper
  <2> QED
    BY <1>1, <1>2, <2>2, <2>3, <2>5 DEF IInv
<1>4. CASE processCount' # 0
  <2>1. Users' # {} /\ Users' \subseteq Users
    BY <1>4, CloseCount
  <2>2. PICK q \in Users : TRUE
    BY <2>1
  <2>3. UNCHANGED <<revision, open, tree, req, allowConcurrent>>
    BY <1>4 DEF Close
  <2>4. StateDescribesHolders' /\ SharingNeedsFlag'
    BY <2>1, <2>3 DEF IInv, StateDescribesHolders, SharingNeedsFlag
  <2>5. revision' # NoRev
    BY <2>2, <2>3 DEF IInv, CountExact
  <2>6. CountExact'
    BY <2>1, <2>5, CloseCount DEF CountExact
  <2>7. NoForgottenSleeper'
    BY <2>1 DEF NoForgottenSleeper
  <2> QED
    BY <1>1, <1>2, <2>4, <2>6, <2>7 DEF IInv
<1> QED
  BY <1>3, <1>4

\* After the broadcast nobody is asleep.
LEMMA BroadcastIInv ==
  ASSUME IInv, NEW p \in Procs, Broadcast(p)
  PROVE  IInv'
<1>1. TypeOK'
  BY DEF IInv, Broadcast, TypeOK, PCs
<1>2. Users' = Users /\ Asleep' = {}
  BY DEF IInv, TypeOK, Broadcast, Users, Asleep
<1>3. MutexOwner'
  BY DEF IInv, TypeOK, MutexOwner, Broadcast
<1>4. StateDescribesHolders' /\ SharingNeedsFlag'
  BY <1>2 DEF IInv, Broadcast, StateDescribesHolders, SharingNeedsFlag
<1>5. CountExact'
  BY <1>2 DEF IInv, Broadcast, CountExact
<1>6. NoForgottenSleeper'
  BY <1>2 DEF NoForgottenSleeper
<1> QED
  BY <1>1, <1>3, <1>4, <1>5, <1>6 DEF IInv

\* Stuttering preserves the invariant.
LEMMA StutterIInv ==
  ASSUME IInv, UNCHANGED vars
  PROVE  IInv'
<1>1. Users' = Users /\ Asleep' = Asleep
  BY DEF vars, Users, Asleep
<1>2. TypeOK' /\ MutexOwner'
  BY DEF IInv, vars, TypeOK, MutexOwner
<1>3. StateDescribesHolders' /\ SharingNeedsFlag'
  BY <1>1 DEF IInv, vars, StateDescribesHolders, SharingNeedsFlag
<1>4. CountExact' /\ NoForgottenSleeper'
  BY <1>1 DEF IInv, vars, CountExact, NoForgottenSleeper
<1> QED
  BY <1>2, <1>3, <1>4 DEF IInv

-----------------------------------------------------------------------------
(* The theorems.                                                           *)

\* The invariant holds in every reachable state, whatever the callers of Lock
\* ask for, however their steps interleave and whichever init fails.
THEOREM Invariance ==
  Spec => []IInv
<1>1. Init => IInv
  BY InitIInv
<1>2. IInv /\ [Next]_vars => IInv'
  <2> SUFFICES ASSUME IInv, [Next]_vars
               PROVE  IInv'
    OBVIOUS
  <2>1. CASE UNCHANGED vars
    BY <2>1, StutterIInv
  <2>2. ASSUME NEW p \in Procs, Call(p) \/ Step(p)
        PROVE  IInv'
    BY <2>2, CallIInv, StartInitIInv, FinishInitIInv, FailInitIInv, JoinIInv,
       SleepIInv, CloseIInv, BroadcastIInv DEF Step
  <2> QED
    BY <2>1, <2>2 DEF Next
<1> QED
  BY <1>1, <1>2, PTL DEF Spec

\* Types; in particular processCount is never decremented below zero by the
\* closer.
THEOREM TypeCorrect ==
  Spec => []TypeOK
<1>1. IInv => TypeOK
  BY DEF IInv
<1> QED
  BY <1>1, Invariance, PTL

\* Whoever Lock let in works on the revision it asked for, in an accessible
\* directory, until it closes.
THEOREM HoldersSeeTheirRevision ==
  Spec => []UsersSeeTheirRevision
<1>1. IInv => UsersSeeTheirRevision
  BY DEF IInv, StateDescribesHolders, UsersSeeTheirRevision
<1> QED
  BY <1>1, Invariance, PTL

\* Two holders at once asked for the same revision and both allowed sharing.
THEOREM SharingIsAgreed ==
  Spec => []SharedOnlyIfAllowed
<1>1. IInv => SharedOnlyIfAllowed
  BY DEF IInv, StateDescribesHolders, SharingNeedsFlag, SharedOnlyIfAllowed
<1> QED
  BY <1>1, Invariance, PTL

\* processCount is the number of holders, so the last one out, and nobody
\* before it, gives the repository up.
THEOREM ExactCount ==
  Spec => []CountExact
<1>1. IInv => CountExact
  BY DEF IInv
<1> QED
  BY <1>1, Invariance, PTL

\* Although Broadcast is made without the mutex, a goroutine in cond.Wait
\* always has a holder or a broadcast ahead of it.
THEOREM SleepersAreWoken ==
  Spec => []NoForgottenSleeper
<1>1. IInv => NoForgottenSleeper
  BY DEF IInv
<1> QED
  BY <1>1, Invariance, PTL
=============================================================================
