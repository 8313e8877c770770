---------------------------- MODULE CommitGraph -----------------------------
(***************************************************************************)
(* The history of a commit in a git repository (external), for the modules *)
(* Checkout and RepoServer: ps gives the parents of each of the commits.   *)
(***************************************************************************)

\* S has, with a commit, its parents.
WithParents(ps, S) == \A c \in S : ps[c] \subseteq S

\* The commits reachable from c, c itself among them: those that are in every
\* set that has c and the parents of its commits.
History(commits, ps, c) ==
  {x \in commits : \A S \in SUBSET commits : c \in S /\ WithParents(ps, S) => x \in S}
=============================================================================
