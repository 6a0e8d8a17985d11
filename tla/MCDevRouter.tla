---------------------------- MODULE MCDevRouter ----------------------------
(* Instances of DevRouter for TLC: the constants are given in the .cfg.    *)
EXTENDS DevRouter, TLC

(* Issues may be exchanged, and invocations: no operator tells them apart. *)
MCSymmetry == Permutations(Issue) \cup Permutations(Runner)

(* The run of overlapping invocations goes no further where two of them    *)
(* have met on an issue: of that issue the properties say nothing more.    *)
MCUncontended == contended = {}
=============================================================================
