--------------------------- MODULE TrustRegistry ---------------------------
(***************************************************************************)
(* What the direct-mode manager promises about its trusted devices, with   *)
(* no lock, no file and no command: a registry that holds at most one      *)
(* address per device, and the inbound firewall rules of the machine.  A   *)
(* device enters the registry only while both of its rules stand, leaves   *)
(* it only once both are gone, and one step changes one device.            *)
(***************************************************************************)
CONSTANTS
    Devices,    \* device identifiers
    IPs,        \* Tailscale addresses
    NoIP,       \* "not registered"
    Label       \* device -> what the names of its rules call it

VARIABLES
    registry,   \* device -> the address it is trusted at, or NoIP
    rules       \* the firewall rules <<label, address, protocol>> that stand

vars == <<registry, rules>>

Protocols == {"TCP", "UDP"}

Rules(d, ip) == {<<Label[d], ip, pr>> : pr \in Protocols}

Init ==
    /\ registry = [d \in Devices |-> NoIP]
    /\ rules = {}

Trust(d, ip) ==
    /\ Rules(d, ip) \subseteq rules
    /\ registry' = [registry EXCEPT ![d] = ip]
    /\ UNCHANGED rules

Forget(d) ==
    /\ registry[d] # NoIP
    /\ Rules(d, registry[d]) \cap rules = {}
    /\ registry' = [registry EXCEPT ![d] = NoIP]
    /\ UNCHANGED rules

(* The rules of one device at one address are being rewritten; devices with *)
(* one label have one pair of rules at an address.                          *)
Rearrange(d, ip) ==
    /\ rules' \ Rules(d, ip) = rules \ Rules(d, ip)
    /\ rules' \subseteq rules \cup Rules(d, ip)
    /\ UNCHANGED registry

Next ==
    \E d \in Devices :
        \/ Forget(d)
        \/ \E ip \in IPs : Trust(d, ip) \/ Rearrange(d, ip)

Spec == Init /\ [][Next]_vars
=============================================================================
