---------------------------- MODULE MCRepoServer ----------------------------
(* Instances of RepoServer for TLC. *)
EXTENDS RepoServer, TLC

Symm == Permutations(Procs)
=============================================================================
