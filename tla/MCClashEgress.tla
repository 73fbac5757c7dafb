---------------------------- MODULE MCClashEgress ----------------------------
EXTENDS ClashEgress, TLC

(* Groups, nodes and control interfaces are interchangeable.                *)
Symmetry == Permutations(Groups) \cup Permutations(Nodes) \cup Permutations(Endpoints)
=============================================================================
