------------------------------ MODULE Mailbox -------------------------------
(***************************************************************************)
(* What the application queue and its worker pool promise, without their   *)
(* data structures (mrp_controller/controller/appqueue.go): every          *)
(* application has one mailbox slot holding its newest snapshot; at most   *)
(* one handler works on an application at a time; it works on the snapshot *)
(* that was the newest when it was claimed.  Lists, maps, channels and the *)
(* condition variable are AppQueue's way to keep this promise.             *)
(***************************************************************************)
EXTENDS Integers

CONSTANTS
  Keys,        \* the applications, "namespace/name" in the code
  MaxVersion   \* bound on the number of snapshots of one application

VARIABLES
  newest,      \* newest[k]: the last snapshot of k that was submitted
  active,      \* active[k]: the snapshot of k that is claimed, 0 when none is
  handled      \* handled[k]: the last snapshot of k that a handler finished

vars == <<newest, active, handled>>

Init ==
  /\ newest = [k \in Keys |-> 0]
  /\ active = [k \in Keys |-> 0]
  /\ handled = [k \in Keys |-> 0]

\* A new snapshot supersedes whatever was waiting.
Submit(k) ==
  /\ newest[k] < MaxVersion
  /\ newest' = [newest EXCEPT ![k] = @ + 1]
  /\ UNCHANGED <<active, handled>>

\* The newest snapshot is claimed, once, and only by one handler at a time.
Claim(k) ==
  /\ active[k] = 0
  /\ handled[k] < newest[k]
  /\ active' = [active EXCEPT ![k] = newest[k]]
  /\ UNCHANGED <<newest, handled>>

\* The handler returns.
Finish(k) ==
  /\ active[k] > handled[k]
  /\ handled' = [handled EXCEPT ![k] = active[k]]
  /\ UNCHANGED <<newest, active>>

\* The application may be claimed again.
Release(k) ==
  /\ active[k] # 0
  /\ active[k] = handled[k]
  /\ active' = [active EXCEPT ![k] = 0]
  /\ UNCHANGED <<newest, handled>>

Next == \E k \in Keys : Submit(k) \/ Claim(k) \/ Finish(k) \/ Release(k)

Spec == Init /\ [][Next]_vars
=============================================================================
