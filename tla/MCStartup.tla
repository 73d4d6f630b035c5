----------------------------- MODULE MCStartup -----------------------------
(* Startup for TLC: the processes are interchangeable. *)
EXTENDS Startup, TLC

ProcessSymmetry == Permutations(Process)
=============================================================================
