------------------------------ MODULE PeerTrust ------------------------------
(***************************************************************************)
(* Trusting and forgetting devices: PairPeer, TrustAuthenticatedPeer and   *)
(* RemoveTrustedPeer of internal/direct/manager/manager.go, with the       *)
(* firewall commands they run one by one (internal/firewall/firewall.go)   *)
(* and the peers file they load and replace (internal/direct/store).       *)
(*                                                                         *)
(* The callers are goroutines: the UI's, and one for each connection the   *)
(* control server has authenticated.  A call starts when the handshake is  *)
(* over, takes peerMu, and keeps it until it returns.  The peers file and  *)
(* the firewall outlive the process; everything else is lost in a crash.   *)
(*                                                                         *)
(* Of a stored record only the device and its address matter here.  The    *)
(* localhost bridge that a successful call refreshes before it returns is  *)
(* the subject of BridgeControl.                                           *)
(***************************************************************************)
CONSTANTS
    Callers,    \* goroutines that may call the manager
    Devices,    \* device identifiers (DeviceID, the record's ID)
    IPs,        \* Tailscale addresses, which are IPv4
    Labels,     \* what sanitizeRulePart can return
    Label,      \* device -> what it makes of the device's identifier
    NoCaller,   \* peerMu is free
    NoIP,       \* no record
    Faults      \* TRUE: commands and file operations may fail, the process may crash

ASSUME NoCallerAssumption == NoCaller \notin Callers
ASSUME NoIPAssumption == NoIP \notin IPs
ASSUME LabelAssumption == Label \in [Devices -> Labels]
ASSUME FaultsAssumption == Faults \in BOOLEAN

VARIABLES
    peers,      \* the peers file: device -> address of its record, or NoIP
    rules,      \* the Windows firewall: the name of each rule
    mu,         \* holder of peerMu
    pc,         \* where each caller is
    call,       \* what each caller was asked to do
    proto,      \* the protocol whose rule the caller is at
    loaded,     \* the slice the caller got from LoadPeers
    settled     \* history: what the last call that touched a device left behind

vars == <<peers, rules, mu, pc, call, proto, loaded, settled>>

-----------------------------------------------------------------------------
Registry == INSTANCE TrustRegistry WITH registry <- peers

Protocols == Registry!Protocols

(* makeRuleName: the name carries the device, the address and the protocol. *)
(* The device's part has lost every character but ASCII letters, digits and *)
(* ._- and its case, so that two devices may have the same one; netsh adds  *)
(* and deletes rules by their names.                                        *)
Rule(d, ip, pr) == <<Label[d], ip, pr>>

(* History: d, and every device whose rules have the same names as those of *)
(* d at this address.                                                       *)
Disturb(d, ip) ==
    settled' = [e \in Devices |->
                    IF e = d \/ (Label[e] = Label[d] /\ peers[e] = ip) THEN "unknown"
                    ELSE settled[e]]

Calls == [op : {"trust"}, dev : Devices, ip : IPs] \cup [op : {"remove"}, dev : Devices]

NoCall == [op |-> "none"]

NoPeers == [d \in Devices |-> NoIP]

Trusting(p) == call[p].op = "trust"

(* The address whose rules a removal deletes is the one in the record.      *)
Recorded(p) == loaded[p][call[p].dev]

Stages == {"idle", "waiting", "allow", "del", "add", "load", "revoke", "save", "refresh"}

(* Where a caller holds peerMu.                                             *)
Locked == Stages \ {"idle", "waiting"}

Init ==
    /\ peers = NoPeers
    /\ rules = {}
    /\ mu = NoCaller
    /\ pc = [p \in Callers |-> "idle"]
    /\ call = [p \in Callers |-> NoCall]
    /\ proto = [p \in Callers |-> "TCP"]
    /\ loaded = [p \in Callers |-> NoPeers]
    /\ settled = [d \in Devices |-> "unknown"]

Goto(p, stage) == pc' = [pc EXCEPT ![p] = stage]

Continue(p, stage) == Goto(p, stage) /\ UNCHANGED <<mu, call>>

(* Every return, with or without an error, releases peerMu (defer Unlock)   *)
(* and the call's variables go out of scope.                                *)
Return(p) ==
    /\ Goto(p, "idle")
    /\ mu' = NoCaller
    /\ call' = [call EXCEPT ![p] = NoCall]
    /\ proto' = [proto EXCEPT ![p] = "TCP"]
    /\ loaded' = [loaded EXCEPT ![p] = NoPeers]

Fail(p) == Faults /\ Return(p)

-----------------------------------------------------------------------------
(* A call begins: the handshake of PairPeer has succeeded, a handler of the *)
(* control server has authenticated its client (both trust a device at the  *)
(* address it was seen at), or the user removes a device.                   *)
Begin(p, c) ==
    /\ pc[p] = "idle"
    /\ Goto(p, "waiting")
    /\ call' = [call EXCEPT ![p] = c]
    /\ UNCHANGED <<peers, rules, mu, proto, loaded, settled>>

(* Mutant: load, modify and save without peerMu.                            *)
LockWithoutWaiting(p) ==
    /\ pc[p] = "waiting"
    /\ mu' = p
    /\ Goto(p, IF Trusting(p) THEN "allow" ELSE "load")
    /\ UNCHANGED <<peers, rules, call, proto, loaded, settled>>

Lock(p) ==
    /\ pc[p] = "waiting"
    /\ mu = NoCaller
    /\ mu' = p
    /\ Goto(p, IF Trusting(p) THEN "allow" ELSE "load")
    /\ UNCHANGED <<peers, rules, call, proto, loaded, settled>>

(* AllowTrustedPeer first builds its rules, which needs the local address.  *)
AllowTrustedPeer(p) ==
    /\ pc[p] = "allow"
    /\ \/ Continue(p, "del") /\ UNCHANGED <<proto, loaded>>
       \/ Fail(p)
    /\ UNCHANGED <<peers, rules, settled>>

(* The old rule of the same name is deleted; an error is ignored.           *)
DeleteOldRule(p) ==
    /\ pc[p] = "del"
    /\ \/ rules' = rules \ {Rule(call[p].dev, call[p].ip, proto[p])}
       \/ Faults /\ UNCHANGED rules
    /\ Disturb(call[p].dev, call[p].ip)
    /\ Continue(p, "add")
    /\ UNCHANGED <<peers, proto, loaded>>

(* Mutant: only the TCP rule is added.                                      *)
AddOneRule(p) ==
    /\ pc[p] = "add"
    /\ \/ /\ rules' = rules \cup {Rule(call[p].dev, call[p].ip, proto[p])}
          /\ Continue(p, "load")
          /\ UNCHANGED <<proto, loaded>>
       \/ Fail(p) /\ UNCHANGED rules
    /\ UNCHANGED <<peers, settled>>

(* Mutant: the address of the rule is taken from the record, not yet loaded. *)
AddRuleOfRecord(p) ==
    /\ pc[p] = "add"
    /\ \/ /\ rules' = rules \cup {Rule(call[p].dev, Recorded(p), proto[p])}
          /\ Continue(p, IF proto[p] = "TCP" THEN "del" ELSE "load")
          /\ proto' = [proto EXCEPT ![p] = "UDP"]
          /\ UNCHANGED loaded
       \/ Fail(p) /\ UNCHANGED rules
    /\ UNCHANGED <<peers, settled>>

AddRule(p) ==
    /\ pc[p] = "add"
    /\ \/ /\ rules' = rules \cup {Rule(call[p].dev, call[p].ip, proto[p])}
          /\ Continue(p, IF proto[p] = "TCP" THEN "del" ELSE "load")
          /\ proto' = [proto EXCEPT ![p] = "UDP"]
          /\ UNCHANGED loaded
       \/ Fail(p) /\ UNCHANGED rules
    /\ UNCHANGED <<peers, settled>>

(* LoadPeers; a removal goes on only if it finds the device.                *)
LoadPeers(p) ==
    /\ pc[p] = "load"
    /\ \/ /\ Trusting(p) \/ peers[call[p].dev] # NoIP
          /\ loaded' = [loaded EXCEPT ![p] = peers]
          /\ Continue(p, IF Trusting(p) THEN "save" ELSE "revoke")
          /\ UNCHANGED proto
       \/ /\ ~Trusting(p) /\ peers[call[p].dev] = NoIP
          /\ Return(p)
       \/ Fail(p)
    /\ UNCHANGED <<peers, rules, settled>>

(* RevokeTrustedPeer deletes rule by rule; one that is not there counts as  *)
(* deleted, any other error ends the removal.                               *)
DeleteRule(p) ==
    /\ pc[p] = "revoke"
    /\ Disturb(call[p].dev, Recorded(p))
    /\ \/ /\ rules' = rules \ {Rule(call[p].dev, Recorded(p), proto[p])}
          /\ Continue(p, IF proto[p] = "TCP" THEN "revoke" ELSE "save")
          /\ proto' = [proto EXCEPT ![p] = "UDP"]
          /\ UNCHANGED loaded
       \/ Fail(p) /\ UNCHANGED rules
    /\ UNCHANGED peers

(* SavePeers writes a temporary file and renames it over the old one, so a  *)
(* reader, and a restart, finds the old slice or the new one.               *)
SavePeers(p) ==
    /\ pc[p] = "save"
    /\ \/ /\ peers' = [loaded[p] EXCEPT ![call[p].dev] =
                           IF Trusting(p) THEN call[p].ip ELSE NoIP]
          /\ settled' = [settled EXCEPT ![call[p].dev] =
                           IF Trusting(p) THEN "trusted" ELSE "removed"]
          /\ Continue(p, "refresh")
          /\ UNCHANGED <<proto, loaded>>
       \/ Fail(p) /\ UNCHANGED <<peers, settled>>
    /\ UNCHANGED rules

(* refreshLocalhostBridge, still under peerMu: it reads the peers file      *)
(* itself and takes no lock of this module.  Then the call returns.         *)
RefreshAndReturn(p) ==
    /\ pc[p] = "refresh"
    /\ Return(p)
    /\ UNCHANGED <<peers, rules, settled>>

(* The process ends, at any point, and is started again.                    *)
Crash ==
    /\ Faults
    /\ pc' = [p \in Callers |-> "idle"]
    /\ mu' = NoCaller
    /\ call' = [p \in Callers |-> NoCall]
    /\ proto' = [p \in Callers |-> "TCP"]
    /\ loaded' = [p \in Callers |-> NoPeers]
    /\ UNCHANGED <<peers, rules, settled>>

Step(p) ==
    \/ AllowTrustedPeer(p)
    \/ DeleteOldRule(p)
    \/ AddRule(p)
    \/ LoadPeers(p)
    \/ DeleteRule(p)
    \/ SavePeers(p)
    \/ RefreshAndReturn(p)

Next ==
    \/ \E p \in Callers :
        \/ \E c \in Calls : Begin(p, c)
        \/ Lock(p)
        \/ Step(p)
    \/ Crash

Spec == Init /\ [][Next]_vars

-----------------------------------------------------------------------------
TypeOK ==
    /\ peers \in [Devices -> IPs \cup {NoIP}]
    /\ rules \subseteq Labels \X IPs \X Protocols
    /\ mu \in Callers \cup {NoCaller}
    /\ pc \in [Callers -> Stages]
    /\ call \in [Callers -> Calls \cup {NoCall}]
    /\ proto \in [Callers -> Protocols]
    /\ loaded \in [Callers -> [Devices -> IPs \cup {NoIP}]]
    /\ settled \in [Devices -> {"unknown", "trusted", "removed"}]

(* A device whose last call trusted it is stored, and both of its inbound   *)
(* rules stand for the address that is stored, whatever calls for other     *)
(* devices run, fail or crash in between (PairPeer and                      *)
(* TrustAuthenticatedPeer, manager.go:336-355 and 367-382).  Excepted is a  *)
(* device whose rules another one shares: of the same label, at the same    *)
(* address.  From the moment a call for that one touches them nothing is    *)
(* said of it until its own next call (firewall.go:143-164: a removal of    *)
(* one deletes the rules of both).                                          *)
TrustedMeansOpen ==
    \A d \in Devices :
        settled[d] = "trusted" =>
            peers[d] # NoIP /\ Registry!Rules(d, peers[d]) \subseteq rules

(* A device whose last call removed it is in no record that any later save  *)
(* writes back: another caller's slice loaded before the removal never      *)
(* replaces the file after it (manager.go:404-442 under peerMu).            *)
RemovedMeansForgotten ==
    \A d \in Devices : settled[d] = "removed" => peers[d] = NoIP

(* Every step of the calls, the failures and the crashes is a step of the   *)
(* abstract registry or changes nothing of it: no update is lost to a       *)
(* concurrent call, no device is stored before the firewall admits it, and  *)
(* none is dropped while a rule for its recorded address stands.            *)
RefinesRegistry == Registry!Spec

(* What the UI reports after a removal, "device removed and its firewall    *)
(* authorization revoked" (internal/ui/direct_controller.go:417): no rule   *)
(* of the device is left, at any address.                                   *)
RemovalRevokesEverything ==
    \A d \in Devices :
        settled[d] = "removed" => \A ip \in IPs : Registry!Rules(d, ip) \cap rules = {}

-----------------------------------------------------------------------------
(* The inductive invariant behind the safety properties.                    *)

(* The callers inside the critical section are the holder of peerMu.        *)
MutexInv == \A p \in Callers : pc[p] \in Locked <=> mu = p

(* What a caller is doing is what it was asked to do.                       *)
CallInv ==
    \A p \in Callers :
        /\ pc[p] # "idle" => call[p] \in Calls
        /\ pc[p] \in {"allow", "del", "add"} => Trusting(p)
        /\ pc[p] = "revoke" => ~Trusting(p)
        /\ pc[p] \in {"idle", "waiting", "allow"} => proto[p] = "TCP"
        /\ pc[p] = "load" /\ ~Trusting(p) => proto[p] = "TCP"

(* The slice a caller is about to save is still what the file holds.        *)
LoadedInv ==
    \A p \in Callers :
        pc[p] \in {"revoke", "save"} =>
            /\ loaded[p] = peers
            /\ ~Trusting(p) => Recorded(p) \in IPs

(* How far the caller is with the rules.                                    *)
RulesInv ==
    \A p \in Callers :
        /\ pc[p] \in {"del", "add"} /\ proto[p] = "UDP" =>
               Rule(call[p].dev, call[p].ip, "TCP") \in rules
        /\ pc[p] \in {"load", "save"} /\ Trusting(p) =>
               Registry!Rules(call[p].dev, call[p].ip) \subseteq rules
        /\ pc[p] = "revoke" /\ proto[p] = "UDP" =>
               Rule(call[p].dev, Recorded(p), "TCP") \notin rules
        /\ pc[p] = "save" /\ ~Trusting(p) =>
               Registry!Rules(call[p].dev, Recorded(p)) \cap rules = {}

IInv ==
    /\ TypeOK
    /\ MutexInv
    /\ CallInv
    /\ LoadedInv
    /\ RulesInv
    /\ TrustedMeansOpen
    /\ RemovedMeansForgotten
=============================================================================
