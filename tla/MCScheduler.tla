------------------------------ MODULE MCScheduler ------------------------------
(* Small instances of Scheduler: every mix of foreground and background        *)
(* commands over one or two workspaces.                                        *)
EXTENDS Scheduler, TLC

CONSTANTS a, b, c, w1, w2

Symmetry == Permutations(Commands) \union Permutations(Workspaces)
===============================================================================
