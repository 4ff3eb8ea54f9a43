------------------------------- MODULE MCHarness -------------------------------
(* Small instances of Harness: one run with several failing writes, and two   *)
(* runs that share the memory directories of their workspace.                 *)
EXTENDS Harness, TLC

CONSTANTS r1, r2

Symmetry == Permutations(Runs)
===============================================================================
