----------------------------- MODULE MCPeerTrust -----------------------------
EXTENDS PeerTrust, TLC

CONSTANT Alike  \* devices whose identifiers sanitizeRulePart makes the same

Sanitized == [d \in Devices |-> IF d \in Alike THEN "device" ELSE d]

SanitizedParts == {"device"} \cup Devices

(* Callers, addresses and the devices of one label are interchangeable.     *)
Symmetry ==
    Permutations(Callers) \cup Permutations(IPs) \cup Permutations(Alike)
        \cup Permutations(Devices \ Alike)
=============================================================================
