------------------------ MODULE BridgeControlProofs ------------------------
(***************************************************************************)
(* For any number of pollers, tray actions, connections, ports and peers:  *)
(* no poller goes on that m.bridgeCancel would not cancel, and nothing is  *)
(* bridged once a pause of bridging or a stop of listening is over.  IInv  *)
(* ties every poller to the cancel function on record or to the goroutine  *)
(* that has taken the function out, and says who may still be on its way   *)
(* to opening a bridge: of those that matter only pollers, and while one   *)
(* of these is not cancelled a pause or a stop has not closed the bridges. *)
(***************************************************************************)
EXTENDS BridgeControl, TLAPS

LEMMA WindowIsAnActor == Window \in UIs /\ Window \in Actors /\ Trays \subseteq Actors
BY DEF UIs, Actors

LEMMA TheStagesAfter ==
    /\ DOMAIN AfterCancel = {"stop", "start", "resume"}
    /\ AfterCancel["stop"] = "detach"
    /\ AfterCancel["start"] = "poll"
    /\ AfterCancel["resume"] = "check"
BY DEF AfterCancel

LEMMA InitIInv == Init => IInv
<1> SUFFICES ASSUME Init PROVE IInv
  OBVIOUS
<1> USE ActorsAssumption, WindowIsAnActor, TheStagesAfter DEF Init
<1>1. TypeOK
  BY DEF TypeOK, Stages, NoPlan
<1>2. StageInv
  BY DEF StageInv, Actors
<1>3. PollerInv
  BY DEF PollerInv, Actors
<1>4. PausedInv
  BY DEF PausedInv
<1>5. StoppedInv
  BY DEF StoppedInv
<1> QED BY <1>1, <1>2, <1>3, <1>4, <1>5 DEF IInv

-----------------------------------------------------------------------------
(* What the operators shared by the actions do.                             *)

(* A goroutine at another stage.                                            *)
LEMMA Moves ==
    ASSUME TypeOK, NEW a \in Actors, NEW stage \in Stages, Goto(a, stage)
    PROVE  /\ pc' \in [Actors -> Stages]
           /\ pc'[a] = stage
           /\ \A b \in Actors : b # a => pc'[b] = pc[b]
BY DEF TypeOK, Goto

(* A call that returns: a poller it has made is live from now on, and so is *)
(* the server.                                                              *)
LEMMA Returns ==
    ASSUME TypeOK, NEW a \in Actors, Finish(a)
    PROVE  /\ pc' \in [Actors -> Stages]
           /\ pc'[a] = "idle"
           /\ \A b \in Actors : b # a => pc'[b] = pc[b]
           /\ peerMu' \in UIs \cup Handlers \cup {Nobody}
           /\ control' \in {"none", "made", "serving"}
           /\ control' = "none" <=> control = "none"
           /\ held' \in [UIs -> {"none", "made", "serving"}]
           /\ \A b \in UIs : held'[b] = "none" <=> held[b] = "none"
           /\ run' \in [Pollers -> {"off", "armed", "live"}]
           /\ \A q \in Pollers : run'[q] = IF q = new[a] THEN "live" ELSE run[q]
           /\ ip' \in [Actors -> BOOLEAN]
           /\ ips' \in [Actors -> SUBSET Peers]
           /\ ports' \in [Actors -> SUBSET Ports]
           /\ new' \in [Actors -> Pollers \cup {Nobody}]
           /\ new'[a] = Nobody
           /\ \A b \in Actors : b # a => new'[b] = new[b]
<1>1. pc' \in [Actors -> Stages] /\ pc'[a] = "idle" /\ \A b \in Actors : b # a => pc'[b] = pc[b]
  BY Moves DEF Finish, Stages
<1>2. /\ peerMu' \in UIs \cup Handlers \cup {Nobody}
      /\ run' \in [Pollers -> {"off", "armed", "live"}]
      /\ \A q \in Pollers : run'[q] = IF q = new[a] THEN "live" ELSE run[q]
  BY DEF TypeOK, Finish
<1>3. control' \in {"none", "made", "serving"} /\ (control' = "none" <=> control = "none")
  BY DEF TypeOK, Finish, Served
<1>4. \A b \in UIs : /\ held'[b] \in {"none", "made", "serving"}
                     /\ held'[b] = "none" <=> held[b] = "none"
  BY DEF TypeOK, Finish, Served
<1>5. held' = [b \in UIs |-> held'[b]]
  BY DEF Finish
<1>6. held' \in [UIs -> {"none", "made", "serving"}]
  BY <1>4, <1>5
<1>7. /\ ip' \in [Actors -> BOOLEAN]
      /\ ips' \in [Actors -> SUBSET Peers]
      /\ ports' \in [Actors -> SUBSET Ports]
  BY DEF TypeOK, Finish
<1>8. /\ new' \in [Actors -> Pollers \cup {Nobody}]
      /\ new'[a] = Nobody
      /\ \A b \in Actors : b # a => new'[b] = new[b]
  BY DEF TypeOK, Finish
<1> QED BY <1>1, <1>2, <1>3, <1>4, <1>6, <1>7, <1>8

(* The cancel function is taken out, to be called next if there is one.     *)
LEMMA TakesCancel ==
    ASSUME TypeOK, PollerInv, NEW a \in UIs, NEW stage \in DOMAIN AfterCancel,
           TakeCancel(a, stage), pc[a] \notin DOMAIN AfterCancel, UNCHANGED <<run, done>>
    PROVE  LET next == IF cancel = Nobody THEN AfterCancel[stage] ELSE stage IN
           /\ cancel' = Nobody
           /\ taken' \in [UIs -> Pollers \cup {Nobody}]
           /\ taken'[a] = cancel
           /\ \A b \in UIs : b # a => taken'[b] = taken[b]
           /\ next \in Stages /\ Goto(a, next)
           /\ \A q \in Pollers :
                 run'[q] # "off" /\ q \notin done' <=> \E b \in UIs : taken'[b] = q
           /\ \A b \in UIs : taken'[b] # Nobody => \A c \in UIs \ {b} : taken'[c] # taken'[b]
<1>1. /\ cancel' = Nobody
      /\ taken' \in [UIs -> Pollers \cup {Nobody}]
      /\ taken'[a] = cancel
      /\ \A b \in UIs : b # a => taken'[b] = taken[b]
  BY DEF TypeOK, TakeCancel
<1>2. taken[a] = Nobody
  BY DEF PollerInv
<1>3. \A q \in Pollers : run'[q] # "off" /\ q \notin done' <=> \E b \in UIs : taken'[b] = q
  BY <1>1, <1>2, ActorsAssumption DEF PollerInv
<1>4. \A b \in UIs : taken'[b] # Nobody => \A c \in UIs \ {b} : taken'[c] # taken'[b]
  BY <1>1, <1>2 DEF PollerInv
<1> QED BY <1>1, <1>3, <1>4, TheStagesAfter DEF TakeCancel, Stages, StopStages

(* Whoever is past the switch while bridging is paused, or after a stop     *)
(* that nothing has crossed, is a poller, and not yet cancelled only while  *)
(* its cancel function is about to be called, before the bridges are closed.*)
LEMMA OnlyPollers ==
    ASSUME IInv, NEW a \in Actors, pc[a] \in PastTheSwitch, (~enabled /\ quiet) \/ stopped
    PROVE  /\ a \in Pollers /\ a \notin UIs
           /\ a \notin done => \E b \in UIs : pc[b] = "stop"
<1>1. cancel = Nobody
  BY DEF IInv, PausedInv, StoppedInv
<1>2. a \notin UIs
  BY DEF IInv, StageInv, PausedInv, StoppedInv, UIs, PastTheSwitch, StopStages
<1>3. a \notin Handlers
  BY DEF IInv, PausedInv, StoppedInv, NobodyPastTheSwitch, PastTheSwitch
<1>4. a \in Pollers /\ run[a] # "off"
  BY <1>2, <1>3 DEF Actors, IInv, StageInv, PastTheSwitch
<1>5. ASSUME a \notin done PROVE \E b \in UIs : pc[b] = "stop"
  <2>1. PICK b \in UIs : taken[b] = a
    BY <1>1, <1>4, <1>5, ActorsAssumption DEF IInv, PollerInv
  <2>2. taken[b] # Nobody /\ pc[b] \in {"stop", "start", "resume"}
    BY <1>4, <2>1, ActorsAssumption, TheStagesAfter DEF IInv, PollerInv
  <2>3. b # Window => pc[b] = "stop"
    BY <2>2 DEF IInv, StageInv, UIs, StopStages
  <2>4. b = Window => pc[b] = "stop"
    BY <2>2 DEF IInv, PausedInv, StoppedInv, StopStages
  <2> QED BY <2>3, <2>4
<1> QED BY <1>2, <1>4, <1>5

(* So what has been closed stays closed: an emptied map is changed only by  *)
(* a step from "open", which a goroutine reaches uncancelled.               *)
LEMMA KeepsClosed ==
    ASSUME IInv, (~enabled /\ quiet) \/ stopped,
           NEW a \in Actors, pc[a] \in PastTheSwitch, NEW stage \in Stages, Goto(a, stage),
           stage = "open" => a \notin done,
           pc[a] = "open" \/ (active = NoPlan => active' = NoPlan)
    PROVE  AllClosed'
<1>1. /\ a \notin UIs
      /\ a \notin done => \E b \in UIs : pc[b] = "stop"
  BY OnlyPollers
<1>2. /\ pc'[a] = stage
      /\ \A b \in Actors : b # a => pc'[b] = pc[b]
  BY Moves DEF IInv
<1>3. AllClosed
  BY DEF IInv, PausedInv, StoppedInv
<1>4. SUFFICES ASSUME \A b \in UIs : pc'[b] \notin {"stop", "detach"}
               PROVE  active' = NoPlan' /\ \A b \in Actors : pc'[b] # "open"
  BY DEF AllClosed
<1>5. \A b \in UIs : pc[b] \notin {"stop", "detach"}
  BY <1>1, <1>2, <1>4 DEF Actors
<1>6. active = NoPlan /\ \A b \in Actors : pc[b] # "open"
  BY <1>3, <1>5 DEF AllClosed
<1>7. stage # "open"
  BY <1>1, <1>5
<1> QED BY <1>2, <1>6, <1>7 DEF NoPlan

(* What makes a step of a refresh harmless: it leaves the manager alone and *)
(* stays past the switch.                                                   *)
LEMMA GoesOn ==
    ASSUME IInv, NEW a \in Actors, NEW stage \in PastTheSwitch, pc[a] \in PastTheSwitch,
           Goto(a, stage), UNCHANGED <<manager, new, history>>,
           stage = "open" => a \notin done,
           pc[a] = "open" \/ (active = NoPlan => active' = NoPlan)
    PROVE  StageInv' /\ PollerInv' /\ PausedInv' /\ StoppedInv'
<1> USE WindowIsAnActor, ActorsAssumption DEF IInv, manager, servers, history
<1>1. /\ pc'[a] \in PastTheSwitch /\ stage \in Stages
      /\ \A b \in Actors : b # a => pc'[b] = pc[b]
  BY Moves DEF PastTheSwitch, Stages
<1>2. StageInv'
  BY <1>1 DEF StageInv, PastTheSwitch, StopStages, Actors, UIs
<1>3. PollerInv'
  BY <1>1, TheStagesAfter DEF PollerInv, PastTheSwitch, Actors
<1>4. (~enabled /\ quiet) \/ stopped => AllClosed'
  BY <1>1, KeepsClosed
<1>5. PausedInv'
  BY <1>1, <1>4 DEF PausedInv, PastTheSwitch, NobodyPastTheSwitch, Actors
<1>6. StoppedInv'
  BY <1>1, <1>4 DEF StoppedInv, Listening, PastTheSwitch, StopStages, Actors, UIs
<1> QED BY <1>2, <1>3, <1>5, <1>6

(* A return leaves the bridges as they are.                                 *)
LEMMA ReturnsIInv ==
    ASSUME IInv, NEW a \in Actors, Finish(a), pc[a] \in {"check", "poll", "close"} \cup PastTheSwitch,
           UNCHANGED <<enabled, cancel, taken, done, active, history>>,
           a \in UIs => held[a] = "none"
    PROVE  StageInv' /\ PollerInv' /\ PausedInv' /\ StoppedInv'
<1> USE WindowIsAnActor, ActorsAssumption DEF IInv, history
<1>1. /\ pc'[a] = "idle"
      /\ \A b \in Actors : b # a => pc'[b] = pc[b]
      /\ \A q \in Pollers : run'[q] = IF q = new[a] THEN "live" ELSE run[q]
      /\ new'[a] = Nobody
      /\ \A b \in Actors : b # a => new'[b] = new[b]
      /\ control' = "none" <=> control = "none"
      /\ \A b \in UIs : held'[b] = "none" <=> held[b] = "none"
  BY Returns
<1>2. StageInv'
  BY <1>1 DEF StageInv, PastTheSwitch, Actors, UIs
<1>3. PollerInv'
  <2>1. \A q \in Pollers : run'[q] # "off" <=> run[q] # "off"
    BY <1>1 DEF PollerInv, TypeOK
  <2>2. \A q \in Pollers : run'[q] = "armed" <=> new'[Window] = q
    BY <1>1 DEF PollerInv, TypeOK
  <2>3. /\ \A b \in Actors \ {Window} : new'[b] = Nobody
        /\ new'[Window] # Nobody => pc'[Window] \in {"locate", "check"} \cup PastTheSwitch
        /\ pc'[Window] \in {"start", "poll"} => cancel' = Nobody
    BY <1>1 DEF PollerInv
  <2>4. \A b \in UIs : pc'[b] \in DOMAIN AfterCancel <=> pc[b] \in DOMAIN AfterCancel
    BY <1>1, TheStagesAfter DEF Actors, PastTheSwitch
  <2> QED BY <2>1, <2>2, <2>3, <2>4 DEF PollerInv, TypeOK
<1>4. AllClosed => AllClosed'
  BY <1>1 DEF AllClosed, NoPlan, PastTheSwitch, Actors
<1>5. PausedInv'
  BY <1>1, <1>4, TheStagesAfter DEF PausedInv, PollerInv, PastTheSwitch, NobodyPastTheSwitch, Actors
<1>6. StoppedInv'
  BY <1>1, <1>4 DEF StoppedInv, Listening, Actors, UIs
<1> QED BY <1>2, <1>3, <1>5, <1>6

-----------------------------------------------------------------------------
(* Types.                                                                   *)
LEMMA RefreshTypes ==
    ASSUME TypeOK, NEW a \in Actors, Refresh(a)
    PROVE  TypeOK'
<1> USE DEF controller, machine, frame, history, manager, servers
<1>1. CASE CheckEnabled(a)
  <2>1. CASE enabled
    BY <1>1, <2>1, Moves DEF CheckEnabled, TypeOK, Stages, PastTheSwitch
  <2>2. CASE ~enabled
    BY <1>1, <2>2, Returns DEF CheckEnabled, TypeOK
  <2> QED BY <2>1, <2>2
<1>2. CASE FindAddress(a)
  BY <1>2, Moves DEF FindAddress, TypeOK, Stages, PastTheSwitch
<1>3. CASE ReadPeers(a)
  BY <1>3, Moves DEF ReadPeers, TypeOK, Stages, PastTheSwitch
<1>4. CASE SetAllowedPeers(a)
  BY <1>4, Moves DEF SetAllowedPeers, TypeOK, Stages, PastTheSwitch
<1>5. CASE Scan(a)
  <2>1. CASE Finish(a) /\ UNCHANGED <<enabled, keyed, cancel, taken, done, controller, machine,
                                      trusted, history>>
    BY <2>1, Returns DEF TypeOK
  <2>2. ASSUME NEW seen \in SUBSET Ports,
               ports' = [ports EXCEPT ![a] = seen \ Bound],
               Goto(a, "plan"),
               UNCHANGED <<enabled, keyed, cancel, taken, done, controller, machine, trusted,
                           history, servers, run, ip, ips, new, peerMu>>
        PROVE  TypeOK'
    BY <2>2, Moves DEF TypeOK, Stages, PastTheSwitch
  <2>3. (IF Faults THEN SUBSET services ELSE {services}) \subseteq SUBSET Ports
    BY DEF TypeOK
  <2> QED BY <1>5, <2>1, <2>2, <2>3 DEF Scan
<1>6. CASE Plan(a)
  BY <1>6, Moves DEF Plan, TypeOK, Stages, PastTheSwitch
<1>7. CASE Apply(a)
  BY <1>7, Moves DEF Apply, TypeOK, Stages, PastTheSwitch
<1>8. CASE Try(a)
  <2>1. CASE Finish(a)
    BY <1>8, <2>1, Returns DEF Try, TypeOK
  <2>2. CASE Goto(a, "open") /\ UNCHANGED <<servers, run, frame, peerMu>>
    BY <1>8, <2>2, Moves DEF Try, TypeOK, Stages, PastTheSwitch
  <2> QED BY <1>8, <2>1, <2>2 DEF Try
<1>9. CASE Open(a)
  <2>1. CASE Finish(a) /\ UNCHANGED active
    BY <1>9, <2>1, Returns DEF Open, TypeOK
  <2>2. ASSUME NEW p \in ports[a],
               active' = [active EXCEPT ![p] = ips[a]],
               ports' = [ports EXCEPT ![a] = @ \ {p}],
               Goto(a, "try"),
               UNCHANGED <<servers, run, ip, ips, new, peerMu>>
        PROVE  TypeOK'
    BY <1>9, <2>2, Moves DEF Open, TypeOK, Stages, PastTheSwitch
  <2> QED BY <1>9, <2>1, <2>2 DEF Open
<1> QED BY <1>1, <1>2, <1>3, <1>4, <1>5, <1>6, <1>7, <1>8, <1>9 DEF Refresh

LEMMA ActTypes ==
    ASSUME NEW a \in UIs, NEW op, Act(a, op), TypeOK
    PROVE  stopped' \in BOOLEAN /\ quiet' \in BOOLEAN
BY DEF Act, TypeOK, NobodyPastTheSwitch, Alone

LEMMA TakeServerTypes ==
    ASSUME TypeOK, NEW a \in UIs, TakeServer(a)
    PROVE  control' \in {"none", "made", "serving"} /\ held' \in [UIs -> {"none", "made", "serving"}]
BY DEF TakeServer, TypeOK

LEMMA TakeCancelTypes ==
    ASSUME TypeOK, NEW a \in UIs, NEW stage \in DOMAIN AfterCancel, TakeCancel(a, stage)
    PROVE  /\ cancel' \in Pollers \cup {Nobody}
           /\ taken' \in [UIs -> Pollers \cup {Nobody}]
           /\ pc' \in [Actors -> Stages]
<1>1. cancel' \in Pollers \cup {Nobody} /\ taken' \in [UIs -> Pollers \cup {Nobody}]
  BY DEF TakeCancel, TypeOK
<1>2. AfterCancel[stage] \in Stages /\ stage \in Stages
  BY TheStagesAfter DEF Stages, StopStages
<1>3. pc' \in [Actors -> Stages]
  BY <1>2 DEF TakeCancel, Goto, TypeOK, Actors
<1> QED BY <1>1, <1>3

LEMMA SaveTypes ==
    ASSUME TypeOK, NEW a \in UIs \cup Handlers, NEW peers \in SUBSET Peers,
           SaveAndRefresh(a, peers), stopped' \in BOOLEAN, quiet' \in BOOLEAN
    PROVE  TypeOK'
BY Moves DEF SaveAndRefresh, TypeOK, Stages, Actors, manager, servers, controller, machine, frame

LEMMA WindowTypes ==
    ASSUME TypeOK, WindowAction(Window)
    PROVE  TypeOK'
<1> USE WindowIsAnActor DEF controller, machine, frame, manager, servers
<1>1. CASE Start(Window)
  BY <1>1, ActTypes, TakeServerTypes, Moves DEF Start, TypeOK, Stages
<1>2. CASE Enable(Window)
  <2>1. CASE enabled
    BY <1>2, <2>1, ActTypes, Moves DEF Enable, TypeOK, Stages
  <2>2. CASE ~enabled
    <3>1. /\ cancel' \in Pollers \cup {Nobody}
          /\ taken' \in [UIs -> Pollers \cup {Nobody}]
          /\ pc' \in [Actors -> Stages]
      BY <1>2, <2>2, TakeCancelTypes, TheStagesAfter DEF Enable
    <3> QED BY <1>2, <3>1, ActTypes DEF Enable, TypeOK
  <2> QED BY <2>1, <2>2
<1>3. CASE Disable(Window)
  BY <1>3, ActTypes, TakeCancelTypes, TheStagesAfter DEF Disable, TypeOK
<1>4. ASSUME NEW d \in Peers, Pair(Window, d) PROVE TypeOK'
  BY <1>4, ActTypes, SaveTypes DEF Pair, TypeOK
<1>5. ASSUME NEW d \in Peers, Remove(Window, d) PROVE TypeOK'
  BY <1>5, ActTypes, SaveTypes DEF Remove, TypeOK
<1> QED BY <1>1, <1>2, <1>3, <1>4, <1>5 DEF WindowAction

LEMMA ProceedTypes ==
    ASSUME TypeOK, PollerInv, NEW a \in UIs, Stop(a) \/ Proceed(a)
    PROVE  TypeOK'
<1> USE DEF controller, machine, frame, manager, servers, history
<1>0. a \in Actors
  BY DEF Actors
<1>1. CASE Stop(a)
  BY <1>1, ActTypes, TakeServerTypes, TakeCancelTypes, TheStagesAfter DEF Stop, TypeOK
<1>2. CASE StartPolling(a)
  <2>1. CASE enabled
    BY <1>0, <1>2, <2>1, Moves DEF StartPolling, TypeOK, Stages
  <2>2. CASE ~enabled
    BY <1>0, <1>2, <2>2, Returns DEF StartPolling, TypeOK
  <2> QED BY <2>1, <2>2
<1>3. CASE Locate(a)
  BY <1>0, <1>3, Moves DEF Locate, TypeOK, Stages
<1>4. CASE CancelPoller(a)
  <2>1. taken[a] \in Pollers
    BY <1>4 DEF CancelPoller, PollerInv, TypeOK
  <2>2. AfterCancel[pc[a]] \in Stages
    BY <1>4, TheStagesAfter DEF CancelPoller, Stages, StopStages
  <2> QED BY <1>0, <1>4, <2>1, <2>2, Moves DEF CancelPoller, TypeOK
<1>5. CASE Detach(a)
  BY <1>0, <1>5, Moves DEF Detach, Bridged, NoPlan, TypeOK, Stages, StopStages
<1>6. CASE CloseBridges(a)
  <2>1. CASE held[a] = "none"
    BY <1>0, <1>6, <2>1, Returns DEF CloseBridges, TypeOK
  <2>2. CASE held[a] # "none"
    BY <1>0, <1>6, <2>2, Moves DEF CloseBridges, TypeOK, Stages, StopStages
  <2> QED BY <2>1, <2>2
<1>7. CASE CloseServer(a)
  BY <1>0, <1>7, Moves DEF CloseServer, TypeOK, Stages
<1>8. CASE Listen(a)
  <2>1. CASE TakeCancel(a, "start") /\ control' = "made" /\ keyed' = TRUE
    BY <1>8, <2>1, TakeCancelTypes, TheStagesAfter DEF Listen, TypeOK
  <2>2. CASE Goto(a, "idle") /\ UNCHANGED <<control, keyed, cancel, taken>>
    BY <1>0, <1>8, <2>2, Moves DEF Listen, TypeOK, Stages
  <2> QED BY <1>8, <2>1, <2>2 DEF Listen
<1> QED BY <1>0, <1>1, <1>2, <1>3, <1>4, <1>5, <1>6, <1>7, <1>8, RefreshTypes DEF Proceed

LEMMA OtherTypes ==
    ASSUME TypeOK,
           \/ \E h \in Handlers : Authenticate(h) \/ TrustAuthenticatedPeer(h)
           \/ \E q \in Pollers : Tick(q) \/ Exit(q)
           \/ \E p \in Ports : Machine(p)
    PROVE  TypeOK'
<1> USE DEF controller, machine, frame, manager, servers, history
<1>1. ASSUME NEW h \in Handlers, Authenticate(h) PROVE TypeOK'
  <2>1. stopped' \in BOOLEAN
    BY <1>1 DEF Authenticate, TypeOK, UserIdle
  <2> QED BY <1>1, <2>1, Moves DEF Authenticate, TypeOK, Stages, Actors
<1>2. ASSUME NEW h \in Handlers, TrustAuthenticatedPeer(h) PROVE TypeOK'
  BY <1>2, SaveTypes DEF TrustAuthenticatedPeer, TypeOK
<1>3. ASSUME NEW q \in Pollers, Tick(q) PROVE TypeOK'
  BY <1>3, Moves DEF Tick, TypeOK, Stages, Actors
<1>4. ASSUME NEW q \in Pollers, Exit(q) PROVE TypeOK'
  BY <1>4 DEF Exit, TypeOK
<1>5. ASSUME NEW p \in Ports, Machine(p) PROVE TypeOK'
  BY <1>5 DEF Machine, TypeOK
<1> QED BY <1>1, <1>2, <1>3, <1>4, <1>5

-----------------------------------------------------------------------------
(* The invariant, one lemma for each of the goroutines.                     *)
LEMMA RefreshIInv ==
    ASSUME IInv, NEW a \in Actors, Refresh(a)
    PROVE  IInv'
<1> USE DEF IInv
<1>1. TypeOK'
  BY RefreshTypes
<1>2. pc[a] \in {"check"} \cup PastTheSwitch /\ a \in UIs => held[a] = "none"
  BY DEF StageInv, StopStages, PastTheSwitch
<1>3. CASE CheckEnabled(a) /\ ~enabled
  BY <1>1, <1>2, <1>3, ReturnsIInv DEF CheckEnabled, controller, history
<1>4. CASE CheckEnabled(a) /\ enabled
  <2> USE WindowIsAnActor, ActorsAssumption
  <2>1. /\ pc'[a] = "address" /\ pc[a] = "check"
        /\ \A b \in Actors : b # a => pc'[b] = pc[b]
        /\ UNCHANGED <<enabled, control, held, cancel, taken, run, done, active, new, stopped>>
    BY <1>4, Moves DEF CheckEnabled, Stages, PastTheSwitch, frame, controller, servers, history
  <2>2. StageInv'
    BY <2>1 DEF StageInv, PastTheSwitch, StopStages, Actors, UIs
  <2>3. PollerInv'
    BY <2>1, TheStagesAfter DEF PollerInv, PastTheSwitch, Actors
  <2>4. AllClosed => AllClosed'
    BY <2>1 DEF AllClosed, NoPlan, Actors
  <2>5. PausedInv' /\ StoppedInv'
    BY <1>4, <2>1, <2>4
       DEF PausedInv, StoppedInv, Listening, StageInv, PastTheSwitch, StopStages, Actors, UIs
  <2> QED BY <1>1, <2>2, <2>3, <2>5
<1>5. CASE FindAddress(a) \/ ReadPeers(a) \/ SetAllowedPeers(a) \/ Plan(a)
  BY <1>1, <1>5, GoesOn DEF FindAddress, ReadPeers, SetAllowedPeers, Plan, PastTheSwitch,
                            controller
<1>6. CASE Scan(a)
  <2>1. CASE Finish(a)
    BY <1>1, <1>2, <1>6, <2>1, ReturnsIInv DEF Scan, PastTheSwitch, controller
  <2>2. CASE Goto(a, "plan") /\ UNCHANGED <<servers, run, new>>
    BY <1>1, <1>6, <2>2, GoesOn DEF Scan, PastTheSwitch, controller, manager
  <2> QED BY <1>6, <2>1, <2>2 DEF Scan
<1>7. CASE Apply(a)
  <2>1. active = NoPlan => active' = NoPlan
    BY <1>7 DEF Apply, NoPlan
  <2> QED BY <1>1, <1>7, <2>1, GoesOn DEF Apply, PastTheSwitch, machine
<1>8. CASE Try(a)
  <2>1. CASE Finish(a)
    BY <1>1, <1>2, <1>8, <2>1, ReturnsIInv DEF Try, PastTheSwitch, controller
  <2>2. CASE ~Cancelled(a) /\ Goto(a, "open") /\ UNCHANGED <<servers, run, frame>>
    BY <1>1, <1>8, <2>2, GoesOn DEF Try, PastTheSwitch, Cancelled, controller, frame, manager
  <2> QED BY <1>8, <2>1, <2>2 DEF Try
<1>9. CASE Open(a)
  <2>1. CASE Finish(a) /\ UNCHANGED active
    BY <1>1, <1>2, <1>9, <2>1, ReturnsIInv DEF Open, PastTheSwitch
  <2>2. CASE Goto(a, "try") /\ UNCHANGED <<servers, run, new>>
    BY <1>1, <1>9, <2>2, GoesOn DEF Open, PastTheSwitch, manager
  <2> QED BY <1>9, <2>1, <2>2 DEF Open
<1> QED BY <1>3, <1>4, <1>5, <1>6, <1>7, <1>8, <1>9 DEF Refresh

(* A user's goroutine goes to another stage and leaves the pollers alone.   *)
LEMMA UserMoves ==
    ASSUME IInv, NEW a \in UIs, NEW stage \in Stages, Goto(a, stage),
           UNCHANGED <<cancel, taken, run, done, new>>,
           pc[a] \notin DOMAIN AfterCancel, stage \notin DOMAIN AfterCancel \cup {"poll"},
           a # Window => stage \in {"idle"} \cup StopStages,
           pc[a] \in {"locate", "check"} \cup PastTheSwitch => stage = "check",
           \A b \in UIs : b # a => held'[b] = held[b],
           held'[a] # "none" => stage \in StopStages \cup {"reopen"}
    PROVE  /\ StageInv' /\ PollerInv'
           /\ pc'[a] = stage
           /\ \A b \in Actors : b # a => pc'[b] = pc[b]
<1> USE WindowIsAnActor, ActorsAssumption, TheStagesAfter DEF IInv
<1>1. a \in Actors /\ a \notin Handlers /\ a \notin Pollers /\ (a # Window => a \in Trays)
  BY DEF Actors, UIs
<1>2. /\ pc'[a] = stage
      /\ \A b \in Actors : b # a => pc'[b] = pc[b]
  BY <1>1, Moves
<1>3. StageInv'
  BY <1>1, <1>2 DEF StageInv, Actors, UIs
<1>4. PollerInv'
  <2>1. \A b \in UIs : pc'[b] \in DOMAIN AfterCancel <=> pc[b] \in DOMAIN AfterCancel
    BY <1>1, <1>2 DEF Actors
  <2>2. /\ new[Window] # Nobody => pc'[Window] \in {"locate", "check"} \cup PastTheSwitch
        /\ pc'[Window] \in {"start", "poll"} => cancel = Nobody
    BY <1>1, <1>2 DEF PollerInv
  <2> QED BY <2>1, <2>2 DEF PollerInv
<1> QED BY <1>2, <1>3, <1>4

(* It takes out the cancel function, if there is one.                       *)
LEMMA UserCancels ==
    ASSUME IInv, NEW a \in UIs, NEW stage \in DOMAIN AfterCancel, TakeCancel(a, stage),
           UNCHANGED <<run, done, new>>, pc[a] \in {"idle", "listen"},
           a # Window => stage = "stop",
           \A b \in UIs : b # a => held'[b] = held[b],
           held'[a] # "none" => stage = "stop"
    PROVE  /\ StageInv' /\ PollerInv'
           /\ pc'[a] = IF cancel = Nobody THEN AfterCancel[stage] ELSE stage
           /\ \A b \in Actors : b # a => pc'[b] = pc[b]
           /\ cancel' = Nobody
           /\ taken'[a] = cancel
           /\ \A b \in UIs : b # a => taken'[b] = taken[b]
<1> USE WindowIsAnActor, ActorsAssumption, TheStagesAfter DEF IInv
<1> DEFINE next == IF cancel = Nobody THEN AfterCancel[stage] ELSE stage
<1>1. a \in Actors /\ a \notin Handlers /\ a \notin Pollers /\ (a # Window => a \in Trays)
  BY DEF Actors, UIs
<1>2. /\ cancel' = Nobody
      /\ taken'[a] = cancel
      /\ \A b \in UIs : b # a => taken'[b] = taken[b]
      /\ next \in Stages /\ Goto(a, next)
      /\ \A q \in Pollers :
            run'[q] # "off" /\ q \notin done' <=> \E b \in UIs : taken'[b] = q
      /\ \A b \in UIs : taken'[b] # Nobody => \A c \in UIs \ {b} : taken'[c] # taken'[b]
  BY TakesCancel
<1>3. /\ pc'[a] = next
      /\ \A b \in Actors : b # a => pc'[b] = pc[b]
  BY <1>1, <1>2, Moves
<1>4. StageInv'
  BY <1>1, <1>3 DEF StageInv, StopStages, Actors, UIs
<1>5. PollerInv'
  <2>1. \A b \in UIs : taken'[b] # Nobody <=> pc'[b] \in DOMAIN AfterCancel
    BY <1>1, <1>2, <1>3 DEF PollerInv, Actors
  <2>2. new[Window] # Nobody => pc'[Window] \in {"locate", "check"} \cup PastTheSwitch
    BY <1>1, <1>3 DEF PollerInv, PastTheSwitch
  <2> QED BY <1>2, <2>1, <2>2 DEF PollerInv
<1> QED BY <1>2, <1>3, <1>4, <1>5

(* The window begins an action when the last one is over.                   *)
LEMMA WindowIInv ==
    ASSUME IInv, WindowAction(Window)
    PROVE  IInv'
<1> USE WindowIsAnActor, ActorsAssumption, TheStagesAfter DEF IInv
<1>1. TypeOK'
  BY WindowTypes
<1>2. pc[Window] = "idle" => held[Window] = "none"
  BY DEF StageInv, StopStages
<1>3. ASSUME pc[Window] = "idle", NEW stage \in {"reopen", "listen", "check"}, pc'[Window] = stage,
             \A b \in Actors : b # Window => pc'[b] = pc[b],
             UNCHANGED <<enabled, cancel, taken, active, quiet>>, stopped' = FALSE
      PROVE  PausedInv' /\ StoppedInv'
  <2>1. AllClosed => AllClosed'
    BY <1>3 DEF AllClosed, NoPlan, Actors
  <2>2. NobodyPastTheSwitch => NobodyPastTheSwitch'
    BY <1>3 DEF NobodyPastTheSwitch, Actors
  <2>3. PausedInv'
    BY <1>3, <2>1, <2>2 DEF PausedInv, PollerInv, PastTheSwitch
  <2> QED BY <1>3, <2>3 DEF StoppedInv
<1>4. CASE Start(Window)
  <2>1. PICK stage \in {"reopen", "listen"} :
            Goto(Window, stage) /\ (control # "none" => stage = "reopen")
    BY <1>4 DEF Start, Listening
  <2>2. /\ \A b \in UIs : b # Window => held'[b] = held[b]
        /\ held'[Window] = control
    BY <1>4 DEF Start, TakeServer, TypeOK
  <2>3. /\ StageInv' /\ PollerInv'
        /\ pc'[Window] = stage
        /\ \A b \in Actors : b # Window => pc'[b] = pc[b]
    BY <1>4, <2>1, <2>2, UserMoves DEF Start, Act, frame, PastTheSwitch, Stages
  <2> QED BY <1>1, <1>3, <1>4, <2>1, <2>3 DEF Start, Act, controller
<1>5. CASE Enable(Window) /\ enabled
  BY <1>1, <1>2, <1>5, UserMoves
     DEF Enable, Act, servers, frame, PastTheSwitch, Stages, PausedInv, StoppedInv
<1>6. CASE Enable(Window) /\ ~enabled
  <2>1. PICK stage \in {"start", "resume"} : TakeCancel(Window, stage)
    BY <1>6 DEF Enable
  <2> QED BY <1>1, <1>2, <1>6, <2>1, UserCancels
             DEF Enable, Act, servers, frame, PausedInv, StoppedInv
<1>7. CASE Disable(Window)
  <2>1. /\ StageInv' /\ PollerInv'
        /\ pc'[Window] \in {"stop", "detach"}
        /\ \A b \in Actors : b # Window => pc'[b] = pc[b]
        /\ cancel' = Nobody
    BY <1>2, <1>7, UserCancels DEF Disable, Act, servers, frame
  <2>2. quiet' => NobodyPastTheSwitch'
    BY <1>7, <2>1 DEF Disable, Act, NobodyPastTheSwitch, Actors
  <2>3. AllClosed'
    BY <2>1 DEF AllClosed
  <2>4. PausedInv' /\ StoppedInv'
    BY <1>7, <2>1, <2>2, <2>3 DEF Disable, Act, PausedInv, StoppedInv, PollerInv, PastTheSwitch
  <2> QED BY <1>1, <2>1, <2>4
<1>8. ASSUME NEW d \in Peers, Pair(Window, d) \/ Remove(Window, d) PROVE IInv'
  <2>1. /\ StageInv' /\ PollerInv'
        /\ pc'[Window] = "check"
        /\ \A b \in Actors : b # Window => pc'[b] = pc[b]
    BY <1>2, <1>8, UserMoves
       DEF Pair, Remove, SaveAndRefresh, Act, manager, servers, frame, PastTheSwitch, Stages
  <2> QED BY <1>1, <1>3, <1>8, <2>1 DEF Pair, Remove, SaveAndRefresh, Act, manager, controller
<1> QED BY <1>4, <1>5, <1>6, <1>7, <1>8 DEF WindowAction

(* What the window and the tray have begun.  Only the window polls, listens *)
(* and refreshes.                                                           *)
LEMMA ProceedIInv ==
    ASSUME IInv, NEW a \in UIs, Stop(a) \/ Proceed(a)
    PROVE  IInv'
<1> USE WindowIsAnActor, ActorsAssumption, TheStagesAfter DEF IInv
<1>1. TypeOK'
  BY ProceedTypes
<1>2. a \in Actors /\ a \notin Handlers /\ a \notin Pollers /\ (a # Window => a \in Trays)
  BY DEF Actors, UIs
<1>3. CASE Refresh(a)
  BY <1>2, <1>3, RefreshIInv
<1>4. CASE StartPolling(a) /\ ~enabled
  <2>1. held[a] = "none"
    BY <1>4 DEF StartPolling, StageInv, StopStages
  <2> QED BY <1>1, <1>2, <1>4, <2>1, ReturnsIInv DEF StartPolling, PastTheSwitch, controller
<1>5. CASE StartPolling(a) /\ enabled
  <2>1. a = Window
    BY <1>2, <1>5 DEF StartPolling, StageInv, StopStages
  <2>2. PICK q \in Pollers : /\ run[q] = "off"
                             /\ run' = [run EXCEPT ![q] = "armed"]
                             /\ cancel' = q
                             /\ new' = [new EXCEPT ![a] = q]
    BY <1>5 DEF StartPolling
  <2>3. /\ pc[Window] = "poll" /\ pc'[Window] = "locate"
        /\ \A b \in Actors : b # Window => pc'[b] = pc[b]
        /\ UNCHANGED <<enabled, control, held, taken, done, active, stopped, quiet>>
    BY <1>5, <2>1, Moves DEF StartPolling, Stages, history, servers, controller
  <2>4. StageInv'
    BY <1>2, <2>1, <2>2, <2>3 DEF StageInv, StopStages, PastTheSwitch, Actors, UIs, TypeOK
  <2>5. PollerInv'
    <3>1. cancel = Nobody /\ new[Window] = Nobody /\ q \notin done /\ q # Nobody
      BY <2>2, <2>3 DEF PollerInv, PastTheSwitch
    <3>2. \A b \in UIs : taken[b] # q
      BY <2>2 DEF PollerInv
    <3>3. /\ \A r \in Pollers : run'[r] = IF r = q THEN "armed" ELSE run[r]
          /\ \A b \in Actors : new'[b] = IF b = Window THEN q ELSE new[b]
      BY <2>1, <2>2 DEF TypeOK
    <3>4. \A b \in UIs : pc'[b] \in DOMAIN AfterCancel <=> pc[b] \in DOMAIN AfterCancel
      BY <2>3 DEF Actors
    <3> QED BY <2>2, <2>3, <3>1, <3>2, <3>3, <3>4 DEF PollerInv, TypeOK
  <2>6. PausedInv' /\ StoppedInv'
    BY <1>5, <2>3 DEF PausedInv, StoppedInv, StopStages
  <2> QED BY <1>1, <2>4, <2>5, <2>6
<1>6. CASE Locate(a)
  <2>1. a = Window
    BY <1>2, <1>6 DEF Locate, StageInv, StopStages
  <2>2. /\ StageInv' /\ PollerInv'
    BY <1>6, <2>1, UserMoves DEF Locate, manager, servers, frame, StageInv, StopStages, Stages
  <2>3. PausedInv' /\ StoppedInv'
    BY <1>6, <2>1 DEF Locate, PausedInv, StoppedInv, StopStages, manager, history
  <2> QED BY <1>1, <2>2, <2>3
<1>7. CASE CancelPoller(a)
  <2>1. /\ pc[a] \in {"stop", "start", "resume"} /\ taken[a] # Nobody
        /\ pc'[a] = AfterCancel[pc[a]]
        /\ \A b \in Actors : b # a => pc'[b] = pc[b]
    BY <1>2, <1>7, Moves DEF CancelPoller, PollerInv, Stages, StopStages
  <2>2. /\ done' = done \cup {taken[a]}
        /\ taken'[a] = Nobody
        /\ \A b \in UIs : b # a => taken'[b] = taken[b]
        /\ UNCHANGED <<enabled, control, held, cancel, run, active, new, stopped, quiet>>
    BY <1>7 DEF CancelPoller, TypeOK, servers, controller, frame, history
  <2>3. StageInv'
    BY <1>2, <2>1, <2>2 DEF StageInv, StopStages, Actors, UIs
  <2>4. PollerInv'
    <3>1. taken[a] \in Pollers /\ run[taken[a]] # "off"
      BY <2>1 DEF PollerInv, TypeOK
    <3>2. \A q \in Pollers :
              run[q] # "off" /\ q \notin done' <=> cancel = q \/ \E b \in UIs : taken'[b] = q
      BY <2>1, <2>2, <3>1 DEF PollerInv
    <3>3. /\ \A b \in UIs : taken'[b] # Nobody <=> pc'[b] \in DOMAIN AfterCancel
          /\ \A b \in UIs : taken'[b] # Nobody =>
                taken'[b] # cancel /\ \A c \in UIs \ {b} : taken'[c] # taken'[b]
      BY <1>2, <2>1, <2>2 DEF PollerInv, Actors
    <3>4. /\ new[Window] # Nobody => pc'[Window] \in {"locate", "check"} \cup PastTheSwitch
          /\ pc'[Window] \in {"start", "poll"} => cancel = Nobody
      BY <1>2, <2>1 DEF PollerInv, PastTheSwitch
    <3> QED BY <2>2, <3>1, <3>2, <3>3, <3>4 DEF PollerInv
  <2>5. ~enabled \/ stopped => pc[a] = "stop"
    BY <1>2, <2>1 DEF PausedInv, StoppedInv, StageInv, StopStages
  <2>6. ~enabled \/ stopped => AllClosed'
    BY <2>1, <2>5 DEF AllClosed
  <2>7. PausedInv' /\ StoppedInv'
    BY <1>2, <2>1, <2>2, <2>5, <2>6
       DEF PausedInv, StoppedInv, Listening, NobodyPastTheSwitch, PastTheSwitch, StopStages, Actors
  <2> QED BY <1>1, <2>3, <2>4, <2>7
<1>8. ASSUME NEW stage \in StopStages \cup {"idle"}, pc'[a] = stage, pc[a] \notin DOMAIN AfterCancel,
             stage \notin DOMAIN AfterCancel,
             \A b \in Actors : b # a => pc'[b] = pc[b],
             AllClosed => AllClosed',
             UNCHANGED <<enabled, control, cancel, taken, stopped, quiet>>
      PROVE  PausedInv' /\ StoppedInv'
  <2>1. NobodyPastTheSwitch => NobodyPastTheSwitch'
    BY <1>2, <1>8 DEF NobodyPastTheSwitch, Actors
  <2>2. PausedInv'
    BY <1>2, <1>8, <2>1 DEF PausedInv, PollerInv, PastTheSwitch, StopStages
  <2>3. StoppedInv'
    BY <1>2, <1>8 DEF StoppedInv, Listening, Actors
  <2> QED BY <2>2, <2>3
<1>9. CASE Detach(a)
  <2>1. /\ StageInv' /\ PollerInv'
        /\ pc'[a] = "close"
        /\ \A b \in Actors : b # a => pc'[b] = pc[b]
    BY <1>2, <1>9, UserMoves DEF Detach, manager, servers, PastTheSwitch, StopStages, Stages
  <2>2. AllClosed'
    BY <1>9, <2>1 DEF Detach, MuFree, AllClosed, NoPlan
  <2> QED BY <1>1, <1>8, <1>9, <2>1, <2>2 DEF Detach, manager, servers, history, StopStages
<1>10. CASE CloseBridges(a) /\ held[a] = "none"
  BY <1>1, <1>2, <1>10, ReturnsIInv DEF CloseBridges, controller
<1>11. CASE CloseBridges(a) /\ held[a] # "none"
  <2>1. /\ StageInv' /\ PollerInv'
        /\ pc[a] = "close" /\ pc'[a] = "hangup"
        /\ \A b \in Actors : b # a => pc'[b] = pc[b]
    BY <1>2, <1>11, UserMoves DEF CloseBridges, servers, PastTheSwitch, StopStages, Stages
  <2>2. AllClosed => AllClosed'
    BY <1>11, <2>1 DEF CloseBridges, AllClosed, NoPlan, Actors, controller
  <2> QED BY <1>1, <1>8, <1>11, <2>1, <2>2 DEF CloseBridges, servers, history, StopStages
<1>12. CASE CloseServer(a)
  <2>1. PICK stage \in {"idle", "listen"} :
            /\ Goto(a, stage)
            /\ stage = "idle" <=> pc[a] = "hangup"
            /\ pc[a] \in {"hangup", "reopen"}
    BY <1>12 DEF CloseServer
  <2>2. /\ \A b \in UIs : b # a => held'[b] = held[b]
        /\ held'[a] = "none"
    BY <1>12 DEF CloseServer, TypeOK
  <2>3. a # Window => stage = "idle"
    BY <1>2, <2>1 DEF StageInv, StopStages
  <2>4. /\ StageInv' /\ PollerInv'
        /\ pc'[a] = stage
        /\ \A b \in Actors : b # a => pc'[b] = pc[b]
    BY <1>2, <1>12, <2>1, <2>2, <2>3, UserMoves DEF CloseServer, frame, PastTheSwitch, StopStages, Stages
  <2>5. AllClosed => AllClosed'
    BY <1>12, <2>1, <2>4 DEF CloseServer, AllClosed, NoPlan, Actors, controller
  <2>6. CASE stage = "idle"
    BY <1>1, <1>8, <1>12, <2>1, <2>4, <2>5, <2>6 DEF CloseServer, history
  <2>7. CASE stage = "listen"
    <3>1. a = Window /\ ~stopped
      BY <2>1, <2>3, <2>7 DEF StoppedInv, StopStages
    <3>2. NobodyPastTheSwitch => NobodyPastTheSwitch'
      BY <1>2, <2>4 DEF NobodyPastTheSwitch, Actors
    <3> QED BY <1>1, <1>12, <2>1, <2>4, <2>5, <2>7, <3>1, <3>2
               DEF CloseServer, PausedInv, StoppedInv, PollerInv, PastTheSwitch, history
  <2> QED BY <2>6, <2>7
<1>13. CASE Stop(a)
  <2>1. /\ \A b \in UIs : b # a => held'[b] = held[b]
        /\ ~Listening'
    BY <1>13 DEF Stop, TakeServer, TypeOK, Listening
  <2>2. /\ StageInv' /\ PollerInv'
        /\ pc[a] = "idle" /\ pc'[a] \in {"stop", "detach"}
        /\ \A b \in Actors : b # a => pc'[b] = pc[b]
        /\ cancel' = Nobody
        /\ \A b \in UIs : b # a => taken'[b] = taken[b]
    BY <1>13, <2>1, UserCancels DEF Stop, Act, frame
  <2>3. AllClosed'
    BY <2>2 DEF AllClosed
  <2>4. NobodyPastTheSwitch => NobodyPastTheSwitch'
    BY <1>2, <2>2 DEF NobodyPastTheSwitch, Actors
  <2>5. PausedInv'
    BY <1>2, <1>13, <2>2, <2>3, <2>4 DEF Stop, Act, PausedInv, PollerInv, PastTheSwitch
  <2>6. StoppedInv'
    BY <1>2, <1>13, <2>1, <2>2, <2>3 DEF Stop, Act, Alone, StoppedInv, StopStages, Actors
  <2> QED BY <1>1, <2>2, <2>5, <2>6
<1>14. CASE Listen(a)
  <2>1. a = Window /\ pc[a] = "listen" /\ ~stopped /\ held[a] = "none"
    BY <1>2, <1>14 DEF Listen, StageInv, StoppedInv, StopStages
  <2>2. CASE TakeCancel(a, "start")
    <3>1. /\ StageInv' /\ PollerInv'
          /\ pc'[a] = IF cancel = Nobody THEN "poll" ELSE "start"
          /\ \A b \in Actors : b # a => pc'[b] = pc[b]
          /\ cancel' = Nobody
          /\ taken'[a] = cancel
      BY <1>14, <2>1, <2>2, UserCancels DEF Listen, frame
    <3>2. AllClosed => AllClosed'
      BY <1>14, <2>1, <3>1 DEF Listen, AllClosed, NoPlan, Actors, controller
    <3>3. NobodyPastTheSwitch => NobodyPastTheSwitch'
      BY <1>2, <3>1 DEF NobodyPastTheSwitch, Actors
    <3> QED BY <1>1, <1>14, <2>1, <3>1, <3>2, <3>3
               DEF Listen, PausedInv, StoppedInv, PastTheSwitch, history
  <2>3. CASE Goto(a, "idle") /\ UNCHANGED <<control, cancel, taken>>
    <3>1. /\ StageInv' /\ PollerInv'
          /\ pc'[a] = "idle"
          /\ \A b \in Actors : b # a => pc'[b] = pc[b]
      BY <1>14, <2>1, <2>3, UserMoves DEF Listen, frame, PastTheSwitch, Stages
    <3>2. AllClosed => AllClosed'
      BY <1>14, <2>1, <3>1 DEF Listen, AllClosed, NoPlan, Actors, controller
    <3> QED BY <1>1, <1>8, <1>14, <2>1, <2>3, <3>1, <3>2 DEF Listen, history
  <2> QED BY <1>14, <2>2, <2>3 DEF Listen
<1> QED BY <1>3, <1>4, <1>5, <1>6, <1>7, <1>9, <1>10, <1>11, <1>12, <1>13, <1>14 DEF Proceed

(* Connections, the pollers' loop, and the machine.                         *)
LEMMA OtherIInv ==
    ASSUME IInv,
           \/ \E h \in Handlers : Authenticate(h) \/ TrustAuthenticatedPeer(h)
           \/ \E q \in Pollers : Tick(q) \/ Exit(q)
           \/ \E p \in Ports : Machine(p)
    PROVE  IInv'
<1> USE WindowIsAnActor, ActorsAssumption, TheStagesAfter DEF IInv
<1>1. TypeOK'
  BY OtherTypes
<1>2. ASSUME NEW b \in Handlers \cup Pollers, NEW stage \in {"authed", "check"}, Goto(b, stage),
             b \in Handlers => ~stopped', b \in Pollers => stage = "check" /\ run[b] = "live",
             stopped' => stopped, UNCHANGED <<manager, active, new, quiet>>
      PROVE  StageInv' /\ PollerInv' /\ PausedInv' /\ StoppedInv'
  <2> USE DEF manager, servers
  <2>1. /\ b \in Actors /\ b \notin UIs
        /\ pc'[b] = stage
        /\ \A c \in Actors : c # b => pc'[c] = pc[c]
    BY <1>2, Moves DEF Stages, Actors
  <2>2. StageInv'
    BY <1>2, <2>1 DEF StageInv, PastTheSwitch, StopStages, Actors, UIs
  <2>3. PollerInv'
    BY <1>2, <2>1 DEF PollerInv, Actors, UIs
  <2>4. AllClosed => AllClosed'
    BY <1>2, <2>1 DEF AllClosed, NoPlan, Actors
  <2>5. NobodyPastTheSwitch => NobodyPastTheSwitch'
    BY <1>2, <2>1 DEF NobodyPastTheSwitch, PastTheSwitch, Actors
  <2>6. PausedInv'
    BY <1>2, <2>1, <2>4, <2>5 DEF PausedInv, UIs
  <2>7. StoppedInv'
    BY <1>2, <2>1, <2>4 DEF StoppedInv, Listening, Actors, UIs
  <2> QED BY <2>2, <2>3, <2>6, <2>7
<1>3. ASSUME NEW h \in Handlers, Authenticate(h) PROVE IInv'
  <2>1. ~stopped'
    <3> SUFFICES ASSUME stopped, UserIdle PROVE FALSE
      BY <1>3 DEF Authenticate
    <3>1. PICK a \in UIs : held[a] = "serving"
      BY <1>3 DEF Authenticate, Serving, StoppedInv, Listening
    <3> QED BY <3>1 DEF StageInv, StopStages, UserIdle
  <2> QED BY <1>1, <1>2, <1>3, <2>1 DEF Authenticate, controller, frame
<1>4. ASSUME NEW h \in Handlers, TrustAuthenticatedPeer(h) PROVE IInv'
  BY <1>1, <1>2, <1>4
     DEF TrustAuthenticatedPeer, SaveAndRefresh, StoppedInv, controller, frame, history
<1>5. ASSUME NEW q \in Pollers, Tick(q) PROVE IInv'
  BY <1>1, <1>2, <1>5 DEF Tick, controller, frame, history
<1>6. ASSUME NEW q \in Pollers, Exit(q) PROVE IInv'
  <2>1. /\ run[q] = "live" /\ pc[q] = "idle" /\ q \in done
        /\ \A r \in Pollers : run'[r] = IF r = q THEN "off" ELSE run[r]
        /\ done' = done \ {q}
        /\ UNCHANGED <<enabled, control, held, cancel, taken, active, new, pc, stopped, quiet>>
    BY <1>6 DEF Exit, TypeOK, servers, controller, frame, history
  <2>2. StageInv' /\ PollerInv'
    BY <2>1 DEF StageInv, PollerInv, TypeOK
  <2>3. PausedInv' /\ StoppedInv'
    BY <2>1 DEF PausedInv, StoppedInv, NobodyPastTheSwitch, Listening, AllClosed, NoPlan
  <2> QED BY <1>1, <2>2, <2>3
<1>7. ASSUME NEW p \in Ports, Machine(p) PROVE IInv'
  BY <1>1, <1>7 DEF Machine, StageInv, PollerInv, PausedInv, StoppedInv, NobodyPastTheSwitch,
                    Listening, AllClosed, NoPlan, manager, servers, controller, frame, history
<1> QED BY <1>3, <1>4, <1>5, <1>6, <1>7

LEMMA NextIInv == IInv /\ [Next]_vars => IInv'
<1> SUFFICES ASSUME IInv, [Next]_vars PROVE IInv'
  OBVIOUS
<1>1. CASE UNCHANGED vars
  BY <1>1 DEF vars, IInv, TypeOK, StageInv, PollerInv, PausedInv, StoppedInv, NobodyPastTheSwitch,
              Listening, AllClosed, NoPlan, manager, servers, controller, machine, frame, history
<1>2. ASSUME NEW a \in Handlers \cup Pollers, Refresh(a) PROVE IInv'
  BY <1>2, RefreshIInv DEF Actors
<1> QED BY <1>1, <1>2, WindowIInv, ProceedIInv, OtherIInv DEF Next

-----------------------------------------------------------------------------
(* What the invariant gives.                                                *)
LEMMA KeepsPollers == IInv => NoPollerLeaks
<1> SUFFICES ASSUME IInv, UserIdle
             PROVE  /\ {q \in Pollers : run[q] # "off" /\ q \notin done} = {cancel} \ {Nobody}
                    /\ \A q \in Pollers : run[q] # "armed"
  BY DEF NoPollerLeaks
<1>1. new[Window] = Nobody
  BY WindowIsAnActor DEF UserIdle, IInv, PollerInv, PastTheSwitch
<1>2. \A a \in UIs : taken[a] = Nobody
  BY TheStagesAfter DEF UserIdle, IInv, PollerInv
<1> QED BY <1>1, <1>2, ActorsAssumption DEF IInv, TypeOK, PollerInv

(* Only the window and the tray close bridges they have taken out.          *)
LEMMA NothingBound ==
    ASSUME IInv, UserIdle, AllClosed
    PROVE  active = NoPlan /\ Bound = {}
<1>1. \A b \in Actors : pc[b] # "close"
  BY DEF UserIdle, IInv, StageInv, PastTheSwitch, Actors
<1>2. active = NoPlan
  BY DEF UserIdle, AllClosed
<1>3. Bridged = {}
  BY <1>2 DEF Bridged, NoPlan
<1> QED BY <1>1, <1>2, <1>3 DEF Bound

LEMMA PausedIsClosed == IInv => PausedMeansClosed
BY NothingBound DEF IInv, PausedInv, PausedMeansClosed

LEMMA StoppedIsClosed == IInv => StoppedMeansClosed
BY NothingBound DEF IInv, StoppedInv, StoppedMeansClosed

-----------------------------------------------------------------------------
(* Types are kept; every poller is the one on record, one whose cancel      *)
(* function is about to be called, or cancelled; and while a pause or a     *)
(* stop is off to cancel or to close, and only then, a poller may open      *)
(* bridges (manager.go:187-262, 273-316, 672-713).                          *)
THEOREM Invariant == Spec => []IInv
BY InitIInv, NextIInv, PTL DEF Spec

(* However the window's and the tray's actions interleave and fail, between *)
(* two of them the one poller that is not cancelled is the one that can be  *)
(* (manager.go:182-262, 295-315, 672-685).                                  *)
THEOREM NoPollerIsLeaked == Spec => []NoPollerLeaks
BY Invariant, KeepsPollers, PTL

(* Whatever pollers were in the middle of, a pause of bridging that is over *)
(* has left no bridge and none is made while it lasts; excepted is a pause  *)
(* that met a connection's refresh past the switch (manager.go:292-310,     *)
(* bridge.go:28-31).                                                        *)
THEOREM PausedStaysClosed == Spec => []PausedMeansClosed
BY Invariant, PausedIsClosed, PTL

(* A stop that nothing but pollers was crossed by, and during which no      *)
(* connection authenticated, leaves no bridge, and no connection or poller  *)
(* makes one until the user acts again (manager.go:230-262).                *)
THEOREM StoppedStaysClosed == Spec => []StoppedMeansClosed
BY Invariant, StoppedIsClosed, PTL
=============================================================================
