---------------------------- MODULE MCHotReload ----------------------------
(* Instances of HotReload for TLC. *)
EXTENDS HotReload, TLC

Symmetry == Permutations(Requests) \cup Permutations(Browsers)
=============================================================================
