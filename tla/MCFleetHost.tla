----------------------------- MODULE MCFleetHost -----------------------------
(* TLC instances of FleetHost. *)
EXTENDS FleetHost, TLC

\* Users and requests are interchangeable: nothing orders or names them.
Symm == Permutations(Users) \cup Permutations(Requests)
=============================================================================
