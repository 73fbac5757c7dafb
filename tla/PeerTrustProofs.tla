--------------------------- MODULE PeerTrustProofs ---------------------------
(***************************************************************************)
(* For any number of callers, devices and addresses, with or without       *)
(* failures: peerMu serialises the calls, no update of the peers file is   *)
(* lost, the rules of a device that a call trusted stand, and PeerTrust    *)
(* implements TrustRegistry.                                               *)
(***************************************************************************)
EXTENDS PeerTrust, TLAPS

USE NoCallerAssumption, NoIPAssumption, LabelAssumption, FaultsAssumption

(* The rules of a device at an address are exactly two.                     *)
LEMMA RulesOf ==
    ASSUME NEW d, NEW ip, NEW S
    PROVE  /\ Registry!Rules(d, ip) \subseteq S
                <=> Rule(d, ip, "TCP") \in S /\ Rule(d, ip, "UDP") \in S
           /\ Registry!Rules(d, ip) \cap S = {}
                <=> Rule(d, ip, "TCP") \notin S /\ Rule(d, ip, "UDP") \notin S
    BY DEF Rule, Registry!Rules, Registry!Protocols

LEMMA InitIInv == Init => IInv
    BY DEF Init, IInv, TypeOK, MutexInv, CallInv, LoadedInv, RulesInv, TrustedMeansOpen,
           RemovedMeansForgotten, Stages, Locked, NoPeers, NoCall, Calls, Protocols,
           Registry!Protocols

-----------------------------------------------------------------------------
(* Types.  A return, and a step to another stage, keep the variables of the *)
(* calls well typed, whatever else the action does.                         *)
LocalTypes ==
    /\ mu \in Callers \cup {NoCaller}
    /\ pc \in [Callers -> Stages]
    /\ call \in [Callers -> Calls \cup {NoCall}]
    /\ proto \in [Callers -> Protocols]
    /\ loaded \in [Callers -> [Devices -> IPs \cup {NoIP}]]

SharedTypes ==
    /\ peers \in [Devices -> IPs \cup {NoIP}]
    /\ rules \subseteq Labels \X IPs \X Protocols
    /\ settled \in [Devices -> {"unknown", "trusted", "removed"}]

LEMMA ReturnTypes ==
    ASSUME TypeOK, NEW p \in Callers, Return(p)
    PROVE  LocalTypes'
    BY DEF TypeOK, Return, Goto, LocalTypes, Stages, Protocols, Registry!Protocols, NoPeers

LEMMA ContinueTypes ==
    ASSUME TypeOK, NEW p \in Callers, NEW stage \in Stages, Continue(p, stage),
           proto' \in [Callers -> Protocols],
           loaded' \in [Callers -> [Devices -> IPs \cup {NoIP}]]
    PROVE  LocalTypes'
    BY DEF TypeOK, Continue, Goto, LocalTypes

LEMMA TypeStep == TypeOK /\ CallInv /\ [Next]_vars => TypeOK'
<1> SUFFICES ASSUME TypeOK, CallInv, [Next]_vars
             PROVE  LocalTypes' /\ SharedTypes'
    BY DEF TypeOK, LocalTypes, SharedTypes
<1> USE DEF Stages
<1>1. ASSUME NEW p \in Callers, NEW c \in Calls, Begin(p, c)
      PROVE  LocalTypes' /\ SharedTypes'
    BY <1>1 DEF Begin, Goto, TypeOK, LocalTypes, SharedTypes
<1>2. ASSUME NEW p \in Callers, Lock(p)
      PROVE  LocalTypes' /\ SharedTypes'
    BY <1>2 DEF Lock, Goto, TypeOK, LocalTypes, SharedTypes
<1>3. ASSUME NEW p \in Callers, AllowTrustedPeer(p)
      PROVE  LocalTypes' /\ SharedTypes'
    <2>1. LocalTypes'
        BY <1>3, ReturnTypes, ContinueTypes DEF AllowTrustedPeer, Fail, TypeOK
    <2>2. QED
        BY <1>3, <2>1 DEF AllowTrustedPeer, SharedTypes, TypeOK
<1>4. ASSUME NEW p \in Callers, DeleteOldRule(p)
      PROVE  LocalTypes' /\ SharedTypes'
    <2>1. LocalTypes'
        BY <1>4, ContinueTypes DEF DeleteOldRule, TypeOK
    <2>2. QED
        BY <1>4, <2>1 DEF DeleteOldRule, Disturb, SharedTypes, TypeOK
<1>5. ASSUME NEW p \in Callers, AddRule(p)
      PROVE  LocalTypes' /\ SharedTypes'
    <2>1. CASE Fail(p) /\ UNCHANGED rules
        BY <1>5, <2>1, ReturnTypes DEF AddRule, Fail, SharedTypes, TypeOK
    <2>2. CASE /\ rules' = rules \cup {Rule(call[p].dev, call[p].ip, proto[p])}
               /\ Continue(p, IF proto[p] = "TCP" THEN "del" ELSE "load")
               /\ proto' = [proto EXCEPT ![p] = "UDP"]
               /\ UNCHANGED loaded
        <3>1. proto' \in [Callers -> Protocols]
            BY <2>2 DEF TypeOK, Protocols, Registry!Protocols
        <3>2. LocalTypes'
            BY <2>2, <3>1, ContinueTypes DEF TypeOK
        <3>3. call[p].dev \in Devices /\ call[p].ip \in IPs
            BY <1>5 DEF AddRule, CallInv, Trusting, Calls
        <3>4. QED
            BY <1>5, <2>2, <3>2, <3>3 DEF AddRule, Rule, SharedTypes, TypeOK
    <2>3. QED
        BY <1>5, <2>1, <2>2 DEF AddRule
<1>6. ASSUME NEW p \in Callers, LoadPeers(p)
      PROVE  LocalTypes' /\ SharedTypes'
    <2>1. CASE Return(p)
        BY <1>6, <2>1, ReturnTypes DEF LoadPeers, SharedTypes, TypeOK
    <2>2. CASE /\ loaded' = [loaded EXCEPT ![p] = peers]
               /\ Continue(p, IF Trusting(p) THEN "save" ELSE "revoke")
               /\ UNCHANGED proto
        <3>1. loaded' \in [Callers -> [Devices -> IPs \cup {NoIP}]]
            BY <2>2 DEF TypeOK
        <3>2. LocalTypes'
            BY <2>2, <3>1, ContinueTypes DEF TypeOK
        <3>3. QED
            BY <1>6, <3>2 DEF LoadPeers, SharedTypes, TypeOK
    <2>3. QED
        BY <1>6, <2>1, <2>2 DEF LoadPeers, Fail
<1>7. ASSUME NEW p \in Callers, DeleteRule(p)
      PROVE  LocalTypes' /\ SharedTypes'
    <2>1. SharedTypes'
        BY <1>7 DEF DeleteRule, Disturb, SharedTypes, TypeOK
    <2>2. CASE Fail(p)
        BY <2>1, <2>2, ReturnTypes DEF Fail
    <2>3. CASE /\ Continue(p, IF proto[p] = "TCP" THEN "revoke" ELSE "save")
               /\ proto' = [proto EXCEPT ![p] = "UDP"]
               /\ UNCHANGED loaded
        <3>1. proto' \in [Callers -> Protocols]
            BY <2>3 DEF TypeOK, Protocols, Registry!Protocols
        <3>2. QED
            BY <2>1, <2>3, <3>1, ContinueTypes DEF TypeOK
    <2>4. QED
        BY <1>7, <2>2, <2>3 DEF DeleteRule
<1>8. ASSUME NEW p \in Callers, SavePeers(p)
      PROVE  LocalTypes' /\ SharedTypes'
    <2>1. CASE Fail(p) /\ UNCHANGED <<peers, settled>>
        BY <1>8, <2>1, ReturnTypes DEF SavePeers, Fail, SharedTypes, TypeOK
    <2>2. CASE /\ peers' = [loaded[p] EXCEPT ![call[p].dev] =
                               IF Trusting(p) THEN call[p].ip ELSE NoIP]
               /\ settled' = [settled EXCEPT ![call[p].dev] =
                               IF Trusting(p) THEN "trusted" ELSE "removed"]
               /\ Continue(p, "refresh")
               /\ UNCHANGED <<proto, loaded>>
        <3>1. LocalTypes'
            BY <2>2, ContinueTypes DEF TypeOK
        <3>2. Trusting(p) => call[p].ip \in IPs
            BY <1>8 DEF SavePeers, CallInv, Trusting, Calls
        <3>3. QED
            BY <1>8, <2>2, <3>1, <3>2 DEF SavePeers, SharedTypes, TypeOK
    <2>3. QED
        BY <1>8, <2>1, <2>2 DEF SavePeers
<1>9. ASSUME NEW p \in Callers, RefreshAndReturn(p)
      PROVE  LocalTypes' /\ SharedTypes'
    BY <1>9, ReturnTypes DEF RefreshAndReturn, SharedTypes, TypeOK
<1>10. CASE Crash
    BY <1>10 DEF Crash, NoPeers, TypeOK, LocalTypes, SharedTypes, Protocols, Registry!Protocols
<1>11. CASE UNCHANGED vars
    BY <1>11 DEF vars, TypeOK, LocalTypes, SharedTypes
<1>12. QED
    BY <1>1, <1>2, <1>3, <1>4, <1>5, <1>6, <1>7, <1>8, <1>9, <1>10, <1>11 DEF Next, Step

-----------------------------------------------------------------------------
(* A step of a call is made by the holder of peerMu, while every other      *)
(* caller is outside the critical section and stays as it is; the step      *)
(* keeps peerMu, or returns and releases it.                                *)
LEMMA Alone ==
    ASSUME TypeOK, MutexInv, NEW p \in Callers, Step(p)
    PROVE  /\ mu = p
           /\ \A q \in Callers : q # p =>
                  /\ pc[q] \in {"idle", "waiting"}
                  /\ pc'[q] = pc[q] /\ call'[q] = call[q] /\ proto'[q] = proto[q]
           /\ \/ pc'[p] \in Locked /\ mu' = p /\ call'[p] = call[p]
              \/ pc'[p] = "idle" /\ mu' = NoCaller /\ proto'[p] = "TCP"
<1>1. pc[p] \in Locked
    BY DEF Step, AllowTrustedPeer, DeleteOldRule, AddRule, LoadPeers, DeleteRule, SavePeers,
           RefreshAndReturn, Locked, Stages
<1>2. mu = p /\ \A q \in Callers : q # p => pc[q] \in {"idle", "waiting"}
    BY <1>1 DEF MutexInv, Locked, TypeOK
<1>3. ASSUME Return(p)
      PROVE  /\ \A q \in Callers : q # p =>
                    pc'[q] = pc[q] /\ call'[q] = call[q] /\ proto'[q] = proto[q]
             /\ pc'[p] = "idle" /\ mu' = NoCaller /\ proto'[p] = "TCP"
    BY <1>3 DEF Return, Goto, TypeOK
<1>4. ASSUME NEW stage \in Locked, Continue(p, stage),
             proto' = proto \/ proto' = [proto EXCEPT ![p] = "UDP"]
      PROVE  /\ \A q \in Callers : q # p =>
                    pc'[q] = pc[q] /\ call'[q] = call[q] /\ proto'[q] = proto[q]
             /\ pc'[p] \in Locked /\ mu' = p /\ call'[p] = call[p]
    BY <1>2, <1>4 DEF Continue, Goto, TypeOK
<1>5. \/ Return(p)
      \/ \E stage \in Locked :
            Continue(p, stage) /\ (proto' = proto \/ proto' = [proto EXCEPT ![p] = "UDP"])
    BY DEF Step, AllowTrustedPeer, DeleteOldRule, AddRule, LoadPeers, DeleteRule, SavePeers,
           RefreshAndReturn, Fail, Locked, Stages
<1>6. QED
    BY <1>2, <1>3, <1>4, <1>5

LEMMA MutexStep == TypeOK /\ MutexInv /\ [Next]_vars => MutexInv'
<1> SUFFICES ASSUME TypeOK, MutexInv, [Next]_vars
             PROVE  MutexInv'
    OBVIOUS
<1>1. ASSUME NEW p \in Callers, NEW c \in Calls, Begin(p, c)
      PROVE  MutexInv'
    BY <1>1 DEF Begin, Goto, MutexInv, TypeOK, Locked, Stages
<1>2. ASSUME NEW p \in Callers, Lock(p)
      PROVE  MutexInv'
    BY <1>2 DEF Lock, Goto, MutexInv, TypeOK, Locked, Stages
<1>3. ASSUME NEW p \in Callers, Step(p)
      PROVE  MutexInv'
    BY <1>3, Alone DEF MutexInv, Locked
<1>4. CASE Crash
    BY <1>4 DEF Crash, MutexInv, Locked, Stages
<1>5. CASE UNCHANGED vars
    BY <1>5 DEF vars, MutexInv
<1>6. QED
    BY <1>1, <1>2, <1>3, <1>4, <1>5 DEF Next

(* What the caller that moved is doing is what it was asked to do.          *)
LEMMA CallStep == TypeOK /\ MutexInv /\ CallInv /\ [Next]_vars => CallInv'
<1> SUFFICES ASSUME TypeOK, MutexInv, CallInv, [Next]_vars
             PROVE  CallInv'
    OBVIOUS
<1>1. ASSUME NEW p \in Callers, NEW c \in Calls, Begin(p, c)
      PROVE  CallInv'
    BY <1>1 DEF Begin, Goto, CallInv, Trusting, TypeOK
<1>2. ASSUME NEW p \in Callers, Lock(p)
      PROVE  CallInv'
    BY <1>2 DEF Lock, Goto, CallInv, Trusting, TypeOK
<1>3. ASSUME NEW p \in Callers, Step(p)
      PROVE  CallInv'
    <2>1. \A q \in Callers : q # p =>
              /\ pc'[q] = pc[q] /\ call'[q] = call[q] /\ proto'[q] = proto[q]
              /\ pc[q] \in {"idle", "waiting"}
        BY <1>3, Alone
    <2>2. /\ pc'[p] # "idle" => call'[p] \in Calls
          /\ pc'[p] \in {"allow", "del", "add"} => Trusting(p)'
          /\ pc'[p] = "revoke" => ~Trusting(p)'
          /\ pc'[p] \in {"idle", "waiting", "allow"} => proto'[p] = "TCP"
          /\ pc'[p] = "load" /\ ~Trusting(p)' => proto'[p] = "TCP"
        <3>1. CASE Return(p)
            BY <3>1 DEF Return, Goto, TypeOK
        <3>2. CASE AllowTrustedPeer(p) /\ Continue(p, "del")
            BY <3>2 DEF AllowTrustedPeer, Continue, Goto, CallInv, Trusting, TypeOK
        <3>3. CASE DeleteOldRule(p)
            BY <3>3 DEF DeleteOldRule, Continue, Goto, CallInv, Trusting, TypeOK
        <3>4. CASE AddRule(p) /\ Continue(p, IF proto[p] = "TCP" THEN "del" ELSE "load")
            BY <3>4 DEF AddRule, Continue, Goto, CallInv, Trusting, TypeOK
        <3>5. CASE LoadPeers(p) /\ Continue(p, IF Trusting(p) THEN "save" ELSE "revoke")
            BY <3>5 DEF LoadPeers, Continue, Goto, CallInv, Trusting, TypeOK
        <3>6. CASE DeleteRule(p) /\ Continue(p, IF proto[p] = "TCP" THEN "revoke" ELSE "save")
            BY <3>6 DEF DeleteRule, Continue, Goto, CallInv, Trusting, TypeOK
        <3>7. CASE SavePeers(p) /\ Continue(p, "refresh")
            BY <3>7 DEF SavePeers, Continue, Goto, CallInv, Trusting, TypeOK
        <3>8. QED
            BY <1>3, <3>1, <3>2, <3>3, <3>4, <3>5, <3>6, <3>7
            DEF Step, AllowTrustedPeer, AddRule, LoadPeers, DeleteRule, SavePeers,
                RefreshAndReturn, Fail
    <2>3. QED
        BY <2>1, <2>2 DEF CallInv, Trusting
<1>4. CASE Crash
    BY <1>4 DEF Crash, CallInv
<1>5. CASE UNCHANGED vars
    BY <1>5 DEF vars, CallInv, Trusting
<1>6. QED
    BY <1>1, <1>2, <1>3, <1>4, <1>5 DEF Next

(* The slice of the caller in the critical section is the file: nobody else *)
(* saves while it holds peerMu.                                             *)
LEMMA LoadedStep ==
    TypeOK /\ MutexInv /\ CallInv /\ LoadedInv /\ [Next]_vars => LoadedInv'
<1> SUFFICES ASSUME TypeOK, MutexInv, CallInv, LoadedInv, [Next]_vars
             PROVE  LoadedInv'
    OBVIOUS
<1>1. ASSUME NEW p \in Callers, NEW c \in Calls, Begin(p, c)
      PROVE  LoadedInv'
    BY <1>1 DEF Begin, Goto, LoadedInv, Trusting, Recorded, TypeOK
<1>2. ASSUME NEW p \in Callers, Lock(p)
      PROVE  LoadedInv'
    BY <1>2 DEF Lock, Goto, LoadedInv, Trusting, Recorded, TypeOK
<1>3. ASSUME NEW p \in Callers, Step(p)
      PROVE  LoadedInv'
    <2>1. \A q \in Callers : q # p => pc'[q] \in {"idle", "waiting"}
        BY <1>3, Alone
    <2>2. pc'[p] \in {"revoke", "save"} =>
              loaded'[p] = peers' /\ (~Trusting(p)' => Recorded(p)' \in IPs)
        <3>1. CASE Return(p) \/ DeleteOldRule(p) \/ Continue(p, "del") \/ Continue(p, "refresh")
            BY <3>1 DEF Return, DeleteOldRule, Continue, Goto, TypeOK
        <3>2. CASE AddRule(p) /\ Continue(p, IF proto[p] = "TCP" THEN "del" ELSE "load")
            BY <3>2 DEF Continue, Goto, TypeOK
        <3>3. CASE /\ Trusting(p) \/ peers[call[p].dev] # NoIP
                   /\ loaded' = [loaded EXCEPT ![p] = peers]
                   /\ Continue(p, IF Trusting(p) THEN "save" ELSE "revoke")
                   /\ UNCHANGED peers
                   /\ pc[p] = "load"
            <4>1. loaded'[p] = peers' /\ call'[p] = call[p]
                BY <3>3 DEF Continue, TypeOK
            <4>2. ~Trusting(p) => call[p].dev \in Devices
                BY <3>3 DEF CallInv, Trusting, Calls
            <4>3. QED
                BY <3>3, <4>1, <4>2 DEF Trusting, Recorded, TypeOK
        <3>4. CASE /\ DeleteRule(p) /\ UNCHANGED loaded
                   /\ Continue(p, IF proto[p] = "TCP" THEN "revoke" ELSE "save")
            BY <3>4 DEF DeleteRule, Continue, LoadedInv, Trusting, Recorded, TypeOK
        <3>5. QED
            BY <1>3, <3>1, <3>2, <3>3, <3>4
            DEF Step, AllowTrustedPeer, AddRule, LoadPeers, DeleteRule, SavePeers,
                RefreshAndReturn, Fail
    <2>3. QED
        BY <2>1, <2>2 DEF LoadedInv
<1>4. CASE Crash
    BY <1>4 DEF Crash, LoadedInv
<1>5. CASE UNCHANGED vars
    BY <1>5 DEF vars, LoadedInv, Trusting, Recorded
<1>6. QED
    BY <1>1, <1>2, <1>3, <1>4, <1>5 DEF Next

(* The rules the caller in the critical section has dealt with so far.      *)
LEMMA RulesStep ==
    TypeOK /\ MutexInv /\ CallInv /\ LoadedInv /\ RulesInv /\ [Next]_vars => RulesInv'
<1> SUFFICES ASSUME TypeOK, MutexInv, CallInv, LoadedInv, RulesInv, [Next]_vars
             PROVE  RulesInv'
    OBVIOUS
<1> DEFINE Done(p) ==
        /\ pc[p] \in {"del", "add"} /\ proto[p] = "UDP" =>
               Rule(call[p].dev, call[p].ip, "TCP") \in rules
        /\ pc[p] \in {"load", "save"} /\ Trusting(p) =>
               Registry!Rules(call[p].dev, call[p].ip) \subseteq rules
        /\ pc[p] = "revoke" /\ proto[p] = "UDP" =>
               Rule(call[p].dev, Recorded(p), "TCP") \notin rules
        /\ pc[p] = "save" /\ ~Trusting(p) =>
               Registry!Rules(call[p].dev, Recorded(p)) \cap rules = {}
<1>1. ASSUME NEW p \in Callers, NEW c \in Calls, Begin(p, c)
      PROVE  RulesInv'
    BY <1>1 DEF Begin, Goto, RulesInv, Trusting, Recorded, TypeOK
<1>2. ASSUME NEW p \in Callers, Lock(p)
      PROVE  RulesInv'
    BY <1>2 DEF Lock, Goto, RulesInv, Trusting, Recorded, TypeOK
<1>3. ASSUME NEW p \in Callers, Step(p)
      PROVE  RulesInv'
    <2>1. \A q \in Callers : q # p => pc'[q] \in {"idle", "waiting"}
        BY <1>3, Alone
    <2>2. Done(p)'
        <3>1. CASE Return(p) \/ Continue(p, "refresh")
            BY <3>1 DEF Return, Continue, Goto, TypeOK
        <3>2. CASE AllowTrustedPeer(p) /\ Continue(p, "del") /\ UNCHANGED proto
            BY <3>2 DEF AllowTrustedPeer, Continue, Goto, CallInv, TypeOK
        <3>3. CASE DeleteOldRule(p)
            BY <3>3 DEF DeleteOldRule, Continue, Goto, RulesInv, Rule, TypeOK
        <3>4. CASE /\ AddRule(p)
                   /\ rules' = rules \cup {Rule(call[p].dev, call[p].ip, proto[p])}
                   /\ Continue(p, IF proto[p] = "TCP" THEN "del" ELSE "load")
                   /\ proto' = [proto EXCEPT ![p] = "UDP"]
            <4>1. call'[p] = call[p] /\ pc'[p] = IF proto[p] = "TCP" THEN "del" ELSE "load"
                BY <3>4 DEF Continue, Goto, TypeOK
            <4>2. CASE proto[p] = "TCP"
                BY <3>4, <4>1, <4>2 DEF Rule
            <4>3. CASE proto[p] = "UDP"
                <5>1. Rule(call[p].dev, call[p].ip, "TCP") \in rules
                    BY <3>4, <4>3 DEF AddRule, RulesInv
                <5>2. Registry!Rules(call[p].dev, call[p].ip) \subseteq rules'
                    <6>1. /\ Rule(call[p].dev, call[p].ip, "TCP") \in rules'
                          /\ Rule(call[p].dev, call[p].ip, "UDP") \in rules'
                        BY <3>4, <4>3, <5>1
                    <6>2. QED
                        BY <6>1, RulesOf
                <5>3. QED
                    BY <4>1, <4>3, <5>2
            <4>4. QED
                BY <4>2, <4>3 DEF TypeOK, Protocols, Registry!Protocols
        <3>5. CASE /\ LoadPeers(p) /\ UNCHANGED <<rules, proto>>
                   /\ Continue(p, IF Trusting(p) THEN "save" ELSE "revoke")
            BY <3>5 DEF LoadPeers, Continue, Goto, CallInv, RulesInv, Trusting, TypeOK
        <3>6. CASE /\ DeleteRule(p) /\ UNCHANGED loaded
                   /\ rules' = rules \ {Rule(call[p].dev, Recorded(p), proto[p])}
                   /\ Continue(p, IF proto[p] = "TCP" THEN "revoke" ELSE "save")
                   /\ proto' = [proto EXCEPT ![p] = "UDP"]
            <4>1. /\ call'[p] = call[p] /\ Recorded(p)' = Recorded(p)
                  /\ pc'[p] = IF proto[p] = "TCP" THEN "revoke" ELSE "save"
                  /\ ~Trusting(p)
                BY <3>6 DEF DeleteRule, Continue, Goto, CallInv, Recorded, TypeOK
            <4>2. CASE proto[p] = "TCP"
                BY <3>6, <4>1, <4>2 DEF Rule
            <4>3. CASE proto[p] = "UDP"
                <5>1. Rule(call[p].dev, Recorded(p), "TCP") \notin rules
                    BY <3>6, <4>3 DEF DeleteRule, RulesInv
                <5>2. Registry!Rules(call[p].dev, Recorded(p)) \cap rules' = {}
                    <6>1. /\ Rule(call[p].dev, Recorded(p), "TCP") \notin rules'
                          /\ Rule(call[p].dev, Recorded(p), "UDP") \notin rules'
                        BY <3>6, <4>3, <5>1
                    <6>2. QED
                        BY <6>1, RulesOf
                <5>3. QED
                    BY <4>1, <4>3, <5>2 DEF Trusting
            <4>4. QED
                BY <4>2, <4>3 DEF TypeOK, Protocols, Registry!Protocols
        <3>7. QED
            BY <1>3, <3>1, <3>2, <3>3, <3>4, <3>5, <3>6
            DEF Step, AllowTrustedPeer, AddRule, LoadPeers, DeleteRule, SavePeers,
                RefreshAndReturn, Fail
    <2>3. QED
        BY <2>1, <2>2 DEF RulesInv
<1>4. CASE Crash
    BY <1>4 DEF Crash, RulesInv
<1>5. CASE UNCHANGED vars
    BY <1>5 DEF vars, RulesInv, Trusting, Recorded
<1>6. QED
    BY <1>1, <1>2, <1>3, <1>4, <1>5 DEF Next

-----------------------------------------------------------------------------
(* What a settled device keeps.  A call touches the rules of one name, and  *)
(* disturbs whoever has rules of that name.                                 *)
LEMMA SettledStep ==
    IInv /\ [Next]_vars => TrustedMeansOpen' /\ RemovedMeansForgotten'
<1> SUFFICES ASSUME IInv, [Next]_vars
             PROVE  TrustedMeansOpen' /\ RemovedMeansForgotten'
    OBVIOUS
<1> USE DEF IInv
<1>1. CASE UNCHANGED <<peers, rules, settled>>
    BY <1>1 DEF TrustedMeansOpen, RemovedMeansForgotten
<1>2. ASSUME NEW p \in Callers, UNCHANGED peers, call[p].dev \in Devices,
             NEW ip, Disturb(call[p].dev, ip),
             rules \ {Rule(call[p].dev, ip, proto[p])} \subseteq rules'
      PROVE  TrustedMeansOpen' /\ RemovedMeansForgotten'
    <2> SUFFICES ASSUME NEW d \in Devices
                 PROVE  /\ settled'[d] = "trusted" =>
                              peers[d] # NoIP /\ Registry!Rules(d, peers[d]) \subseteq rules'
                        /\ settled'[d] = "removed" => peers[d] = NoIP
        BY <1>2 DEF TrustedMeansOpen, RemovedMeansForgotten
    <2> DEFINE Shares == Label[d] = Label[call[p].dev] /\ peers[d] = ip
    <2>1. CASE d = call[p].dev \/ Shares
        BY <1>2, <2>1 DEF Disturb
    <2>2. CASE d # call[p].dev /\ ~Shares
        <3>1. settled'[d] = settled[d]
            BY <1>2, <2>2 DEF Disturb
        <3>2. \A pr : Rule(d, peers[d], pr) # Rule(call[p].dev, ip, proto[p])
            BY <2>2 DEF Rule
        <3>3. settled[d] = "trusted" =>
                  Rule(d, peers[d], "TCP") \in rules' /\ Rule(d, peers[d], "UDP") \in rules'
            BY <1>2, <3>2, RulesOf DEF TrustedMeansOpen
        <3>4. QED
            BY <3>1, <3>3, RulesOf DEF TrustedMeansOpen, RemovedMeansForgotten
    <2>3. QED
        BY <2>1, <2>2
<1>3. ASSUME NEW p \in Callers, DeleteOldRule(p)
      PROVE  TrustedMeansOpen' /\ RemovedMeansForgotten'
    <2>1. call[p].dev \in Devices
        BY <1>3 DEF DeleteOldRule, CallInv, Calls
    <2>2. QED
        BY <1>2, <1>3, <2>1 DEF DeleteOldRule
<1>4. ASSUME NEW p \in Callers, DeleteRule(p)
      PROVE  TrustedMeansOpen' /\ RemovedMeansForgotten'
    <2>1. call[p].dev \in Devices
        BY <1>4 DEF DeleteRule, CallInv, Calls
    <2>2. QED
        BY <1>2, <1>4, <2>1 DEF DeleteRule
<1>5. ASSUME NEW p \in Callers, AddRule(p)
      PROVE  TrustedMeansOpen' /\ RemovedMeansForgotten'
    <2>1. UNCHANGED <<peers, settled>> /\ rules \subseteq rules'
        BY <1>5 DEF AddRule
    <2>2. QED
        BY <2>1 DEF TrustedMeansOpen, RemovedMeansForgotten
<1>6. ASSUME NEW p \in Callers, SavePeers(p)
      PROVE  TrustedMeansOpen' /\ RemovedMeansForgotten'
    <2>1. CASE UNCHANGED <<peers, settled>>
        BY <1>1, <1>6, <2>1 DEF SavePeers
    <2>2. CASE /\ peers' = [loaded[p] EXCEPT ![call[p].dev] =
                               IF Trusting(p) THEN call[p].ip ELSE NoIP]
               /\ settled' = [settled EXCEPT ![call[p].dev] =
                               IF Trusting(p) THEN "trusted" ELSE "removed"]
        <3>1. call[p].dev \in Devices /\ (Trusting(p) => call[p].ip \in IPs)
            BY <1>6 DEF SavePeers, CallInv, Calls, Trusting
        <3>2. peers' = [peers EXCEPT ![call[p].dev] = IF Trusting(p) THEN call[p].ip ELSE NoIP]
            BY <1>6, <2>2 DEF SavePeers, LoadedInv
        <3>3. rules' = rules
              /\ (Trusting(p) => Registry!Rules(call[p].dev, call[p].ip) \subseteq rules)
            BY <1>6 DEF SavePeers, RulesInv
        <3> SUFFICES ASSUME NEW d \in Devices
                     PROVE  /\ settled'[d] = "trusted" =>
                                  peers'[d] # NoIP /\ Registry!Rules(d, peers'[d]) \subseteq rules
                            /\ settled'[d] = "removed" => peers'[d] = NoIP
            BY <3>3 DEF TrustedMeansOpen, RemovedMeansForgotten
        <3>4. CASE d = call[p].dev
            BY <2>2, <3>1, <3>2, <3>3, <3>4 DEF TypeOK
        <3>5. CASE d # call[p].dev
            BY <2>2, <3>2, <3>5 DEF TypeOK, TrustedMeansOpen, RemovedMeansForgotten
        <3>6. QED
            BY <3>4, <3>5
    <2>3. QED
        BY <1>6, <2>1, <2>2 DEF SavePeers
<1>7. QED
    BY <1>1, <1>3, <1>4, <1>5, <1>6
    DEF Next, Step, vars, Begin, Lock, AllowTrustedPeer, LoadPeers, RefreshAndReturn, Crash

-----------------------------------------------------------------------------
(* The invariant of every behaviour.                                        *)
THEOREM Invariance == Spec => []IInv
<1>1. IInv /\ [Next]_vars => IInv'
    BY TypeStep, MutexStep, CallStep, LoadedStep, RulesStep, SettledStep DEF IInv
<1>2. QED
    BY InitIInv, <1>1, PTL DEF Spec

(* Every variable keeps its type.                                           *)
THEOREM TypeCorrect == Spec => []TypeOK
<1>1. IInv => TypeOK
    BY DEF IInv
<1>2. QED
    BY Invariance, <1>1, PTL

(* The rules of a device stand from the call that trusted it until the next *)
(* call for it, or for a device that shares its rules, touches them,        *)
(* whatever the calls for other devices do, fail at, or leave behind in a   *)
(* crash (PairPeer, TrustAuthenticatedPeer and RemoveTrustedPeer under      *)
(* peerMu).                                                                 *)
THEOREM TrustedStaysOpen == Spec => []TrustedMeansOpen
<1>1. IInv => TrustedMeansOpen
    BY DEF IInv
<1>2. QED
    BY Invariance, <1>1, PTL

(* A device a call removed is not written back by a slice loaded earlier.   *)
THEOREM RemovedStaysForgotten == Spec => []RemovedMeansForgotten
<1>1. IInv => RemovedMeansForgotten
    BY DEF IInv
<1>2. QED
    BY Invariance, <1>1, PTL

(* The calls, with their failures and crashes, implement the registry: one  *)
(* device per step, stored only while the firewall admits it, dropped only  *)
(* once the rules for its recorded address are gone.                        *)
THEOREM Refinement == Spec => RefinesRegistry
<1> USE DEF Registry!vars, Registry!Next
<1>1. Init => Registry!Init
    BY DEF Init, NoPeers, Registry!Init
<1>2. IInv /\ [Next]_vars => [Registry!Next]_(Registry!vars)
    <2> SUFFICES ASSUME IInv, [Next]_vars
                 PROVE  Registry!Next \/ UNCHANGED <<peers, rules>>
        OBVIOUS
    <2> USE DEF IInv
    <2>1. ASSUME NEW p \in Callers, NEW ip \in IPs, call[p].dev \in Devices, UNCHANGED peers,
                 \/ rules' = rules \cup {Rule(call[p].dev, ip, proto[p])}
                 \/ rules' = rules \ {Rule(call[p].dev, ip, proto[p])}
                 \/ rules' = rules
          PROVE  Registry!Next
        <3>1. Rule(call[p].dev, ip, proto[p]) \in Registry!Rules(call[p].dev, ip)
            BY DEF TypeOK, Protocols, Rule, Registry!Rules
        <3>2. Registry!Rearrange(call[p].dev, ip)
            BY <2>1, <3>1 DEF Registry!Rearrange
        <3>3. QED
            BY <2>1, <3>2
    <2>2. ASSUME NEW p \in Callers, DeleteOldRule(p) \/ AddRule(p)
          PROVE  Registry!Next \/ UNCHANGED <<peers, rules>>
        <3>1. call[p].dev \in Devices /\ call[p].ip \in IPs
            BY <2>2 DEF DeleteOldRule, AddRule, CallInv, Trusting, Calls
        <3>2. QED
            BY <2>1, <2>2, <3>1 DEF DeleteOldRule, AddRule
    <2>3. ASSUME NEW p \in Callers, DeleteRule(p)
          PROVE  Registry!Next \/ UNCHANGED <<peers, rules>>
        <3>1. call[p].dev \in Devices /\ Recorded(p) \in IPs
            BY <2>3 DEF DeleteRule, CallInv, LoadedInv, Trusting, Calls
        <3>2. QED
            BY <2>1, <2>3, <3>1 DEF DeleteRule
    <2>4. ASSUME NEW p \in Callers, SavePeers(p)
          PROVE  Registry!Next \/ UNCHANGED <<peers, rules>>
        <3> DEFINE d == call[p].dev
        <3> SUFFICES ASSUME peers' = [loaded[p] EXCEPT ![d] = IF Trusting(p) THEN call[p].ip ELSE NoIP]
                     PROVE  Registry!Next
            BY <2>4 DEF SavePeers
        <3>1. loaded[p] = peers /\ rules' = rules /\ d \in Devices
            BY <2>4 DEF SavePeers, LoadedInv, CallInv, Calls
        <3>2. CASE Trusting(p)
            <4>1. call[p].ip \in IPs /\ Registry!Rules(d, call[p].ip) \subseteq rules
                BY <2>4, <3>2 DEF SavePeers, CallInv, RulesInv, Calls, Trusting
            <4>2. Registry!Trust(d, call[p].ip)
                BY <3>1, <3>2, <4>1 DEF Registry!Trust
            <4>3. QED
                BY <3>1, <4>1, <4>2
        <3>3. CASE ~Trusting(p)
            <4>1. peers[d] \in IPs /\ Registry!Rules(d, peers[d]) \cap rules = {}
                BY <2>4, <3>1, <3>3 DEF SavePeers, LoadedInv, RulesInv, Recorded
            <4>2. Registry!Forget(d)
                BY <3>1, <3>3, <4>1 DEF Registry!Forget
            <4>3. QED
                BY <3>1, <4>2
        <3>4. QED
            BY <3>2, <3>3
    <2>5. QED
        BY <2>2, <2>3, <2>4
        DEF Next, Step, vars, Begin, Lock, AllowTrustedPeer, LoadPeers, RefreshAndReturn, Crash
<1>3. QED
    BY Invariance, <1>1, <1>2, PTL DEF Spec, RefinesRegistry, Registry!Spec
=============================================================================
