---------------------------- MODULE MCFleetClaim ----------------------------
(* TLC instances of FleetClaim. *)
EXTENDS FleetClaim, TLC

\* Users and requests are interchangeable: nothing orders or names them.
Symm == Permutations(Users) \cup Permutations(Requests) \cup Permutations(Agents)
=============================================================================
