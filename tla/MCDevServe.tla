----------------------------- MODULE MCDevServe -----------------------------
(* A small project for TLC: three files, one recent place, a round of the  *)
(* others takes two ticks.                                                 *)
EXTENDS DevServe
=============================================================================
