------------------------------ MODULE MCGraphStore ------------------------------
(* GraphStore on small instances: two or three nodes, one or two connections. *)
EXTENDS GraphStore, TLC

CONSTANTS n1, n2, c1, c2

MCSymmetry == Permutations(Nodes) \cup Permutations(Conns)
=============================================================================
