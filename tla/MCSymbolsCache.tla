---------------------------- MODULE MCSymbolsCache ----------------------------
(* TLC instances of SymbolsCache. *)
EXTENDS SymbolsCache, TLC

\* Files, slots and threads are interchangeable.
Symm == Permutations(Files) \cup Permutations(Slots) \cup Permutations(Builders)
=============================================================================
