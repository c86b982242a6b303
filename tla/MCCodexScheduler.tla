-------------------------- MODULE MCCodexScheduler --------------------------
(* Instances of CodexScheduler for TLC. *)
EXTENDS CodexScheduler, TLC

\* Goroutines are interchangeable, and so are credentials and tiers.
Symmetry == Permutations(Procs) \cup Permutations(Creds) \cup Permutations(Tiers)
=============================================================================
