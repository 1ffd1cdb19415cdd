---------------------------- MODULE MCManifestFile ----------------------------
(* TLC instances of ManifestFile. *)
EXTENDS ManifestFile, TLC

\* Commands and names are interchangeable: ports are picked in their own order.
Symm == Permutations(Commands) \cup Permutations(Names)
=============================================================================
