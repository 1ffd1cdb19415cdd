----------------------------- MODULE MCRepoInit -----------------------------
(* TLC instance of RepoInit. *)
EXTENDS RepoInit, TLC

\* Requests are interchangeable: nothing orders or names them.
Symm == Permutations(Requests)
=============================================================================
