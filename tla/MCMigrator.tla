------------------------------ MODULE MCMigrator ------------------------------
(* Instances of Migrator for TLC: two files of two statements, and two      *)
(* processes that may run any command.                                      *)
EXTENDS Migrator, TLC

MCTotal == <<2, 2>>
MCReversible == {1, 2}
ProcessSymmetry == Permutations(Procs)
=============================================================================
