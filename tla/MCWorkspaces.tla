----------------------------- MODULE MCWorkspaces -----------------------------
(* A small instance of Workspaces: three commands of every kind over two      *)
(* names and two roots, so that a name can be ambiguous.                      *)
EXTENDS Workspaces, TLC

CONSTANTS a, b, c, n1, n2, d1, d2, x, y

Symmetry ==
    Permutations(Commands) \union Permutations(Names) \union Permutations(Roots)
      \union Permutations(Argvs)
===============================================================================
