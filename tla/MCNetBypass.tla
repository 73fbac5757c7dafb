----------------------------- MODULE MCNetBypass -----------------------------
EXTENDS NetBypass, TLC

(* Devices, endpoints and interfaces are interchangeable.                   *)
Symmetry == Permutations(Peers) \cup Permutations(Endpoints) \cup Permutations(Exits)
=============================================================================
