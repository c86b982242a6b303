--------------------------- MODULE MCTokenManager ---------------------------
(* Instances of TokenManager for TLC. *)
EXTENDS TokenManager, TLC

\* Calls are interchangeable, and so are addresses.
Symmetry == Permutations(Procs) \cup Permutations(Entries)
=============================================================================
