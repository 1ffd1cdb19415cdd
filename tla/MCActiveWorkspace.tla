-------------------------- MODULE MCActiveWorkspace --------------------------
(* TLC instances of ActiveWorkspace. *)
EXTENDS ActiveWorkspace, TLC

\* Every user has the repo, and one below the login of each other user.
Everyones == {p \in Users \X (Users \cup {Bare}) : p[1] # p[2]}

\* Users and requests are interchangeable.
Symm == Permutations(Users) \cup Permutations(Requests)
=============================================================================
