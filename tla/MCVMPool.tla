------------------------------ MODULE MCVMPool ------------------------------
(* Instances of VMPool for TLC. *)
EXTENDS VMPool, TLC

\* Clients, closers and VMs are interchangeable.
Symmetry == Permutations(Clients) \cup Permutations(VM)
=============================================================================
