--------------------------- MODULE MCAutoReorder ---------------------------
(* An instance of AutoReorder: two products, two managers, two numbers and   *)
(* one attempt given up at a time.                                            *)
EXTENDS AutoReorder, TLC

CONSTANTS bolt, nut, ann, bob, stray

Symmetric == Permutations(Products) \cup Permutations(Managers)

=============================================================================
