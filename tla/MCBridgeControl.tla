--------------------------- MODULE MCBridgeControl ---------------------------
EXTENDS BridgeControl, TLC

(* Pollers are interchangeable.                                             *)
Symmetry == Permutations(Pollers)
=============================================================================
