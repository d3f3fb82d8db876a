---------------------------- MODULE MCJSRuntime ----------------------------
(* Instances of JSRuntime for TLC. *)
EXTENDS JSRuntime, TLC

CONSTANTS f, g

OneInjector == <<{f, g}>>
Overlapping == <<{g}, {f, g}>>
=============================================================================
