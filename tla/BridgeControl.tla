---------------------------- MODULE BridgeControl ----------------------------
(***************************************************************************)
(* The automatic localhost bridges: when the manager starts, refreshes and *)
(* closes them (internal/direct/manager/manager.go), and what a refresh    *)
(* does (internal/localhostbridge/controller.go, planner.go, bridge.go).   *)
(*                                                                         *)
(* A refresh reads whether bridging is enabled, reads the peers file,      *)
(* hands the addresses to the controller, scans the machine's listeners,   *)
(* plans, and applies the plan, each at a moment of its own.  It is run by *)
(* the user interface, by the goroutine of every authenticated connection, *)
(* and every five seconds by a poller that is cancelled through its        *)
(* context.  The peers file changes only under peerMu, and the call that   *)
(* changed it keeps peerMu while it refreshes (PeerTrust has the details). *)
(*                                                                         *)
(* A control server, and the cancel function of a poller, are taken out of *)
(* the manager under controlMu, and closed or called after that.           *)
(*                                                                         *)
(* The listen address is the machine's Tailscale address and the control   *)
(* port, the same at every start.  The switch that a drawing thread sets   *)
(* by mistake (BridgeSwitch) would be one more actor, and is left out.     *)
(***************************************************************************)
CONSTANTS
    Window,     \* the goroutine that runs the window's actions, one at a time
    Trays,      \* goroutines of the tray's menu, which only stops the server
    UserOps,    \* the actions the user takes, a subset of AllOps
    Handlers,   \* goroutines of authenticated connections
    Pollers,    \* poller goroutines: bounds how many are alive at once
    Ports,      \* TCP ports
    Peers,      \* addresses of devices
    Nobody,     \* no caller, no poller
    Faults      \* TRUE: listening, scanning and asking Tailscale may fail

AllOps == {"start", "stop", "enable", "disable", "pair", "remove"}

UIs == {Window} \cup Trays

ASSUME OpsAssumption == UserOps \subseteq AllOps
ASSUME ActorsAssumption ==
    /\ Nobody \notin UIs \cup Handlers \cup Pollers
    /\ Window \notin Trays
    /\ UIs \cap (Handlers \cup Pollers) = {} /\ Handlers \cap Pollers = {}

VARIABLES
    enabled,    \* m.bridgeEnabled
    control,    \* m.controlServer and its listener: "none", "made" or "serving"
    held,       \* the server that a user's goroutine has taken out to close it
    keyed,      \* m.pairClient # nil: a control server has been started
    cancel,     \* the poller that m.bridgeCancel cancels
    taken,      \* the poller whose cancel function a user's goroutine took out
    run,        \* poller -> "off", "armed" (context made) or "live" (goroutine)
    done,       \* pollers whose context is cancelled
    trusted,    \* the addresses in the peers file
    peerMu,     \* holder of m.peerMu
    haveIP,     \* c.localTailscaleIP is not empty
    allowed,    \* c.allowedPeerIPs
    active,     \* c.active: port -> addresses its bridge admits, {} for no bridge
    services,   \* ports programs listen on at loopback addresses only
    native,     \* ports some program listens on at 0.0.0.0, :: or the Tailscale address
    pc,         \* where each goroutine is
    ip,         \* whether it has found the machine's Tailscale address
    ips,        \* its list of peer addresses
    ports,      \* its ports: scanned as loopback only, to be bridged, or being closed
    new,        \* the poller it is about to launch
    stopped,    \* history: the user's last action is a stop that nothing crosses
    quiet       \* history: no connection's refresh had passed the switch when
                \* it was last turned off

servers == <<control, held>>
manager == <<enabled, servers, keyed, cancel, taken, run, done>>
controller == <<haveIP, allowed, active>>
machine == <<services, native>>
frame == <<ip, ips, ports, new>>
history == <<stopped, quiet>>
vars == <<manager, controller, machine, frame, trusted, peerMu, pc, history>>

Actors == UIs \cup Handlers \cup Pollers

StopStages == {"stop", "detach", "close", "hangup"}

PastTheSwitch == {"address", "read", "set", "scan", "plan", "apply", "try", "open"}

Stages == {"idle", "authed", "reopen", "listen", "start", "resume", "poll", "locate", "check"}
              \cup StopStages \cup PastTheSwitch

Goto(a, stage) == pc' = [pc EXCEPT ![a] = stage]

Listening == control # "none"

UserIdle == \A a \in UIs : pc[a] = "idle"

(* Some server accepts connections: also one taken out and not yet closed.  *)
Serving == control = "serving" \/ \E a \in UIs : held[a] = "serving"

(* c.mu is held while a plan is applied; its other uses are single steps.   *)
MuFree == \A a \in Actors : pc[a] \notin {"try", "open"}

(* The context of the refresh: a poller's own, cancelled or not; the one of *)
(* a user action or of a handler is never cancelled in between.             *)
Cancelled(a) == a \in done

NoPlan == [p \in Ports |-> {}]

Bridged == {p \in Ports : active[p] # {}}

(* Sockets of bridges that are still open: bridges in the map, and those    *)
(* Close has taken out of it and not closed yet.                            *)
Bound == Bridged \cup UNION {ports[a] : a \in {b \in Actors : pc[b] = "close"}}

Init ==
    /\ enabled = TRUE
    /\ control = "none"
    /\ held = [a \in UIs |-> "none"]
    /\ keyed = FALSE
    /\ cancel = Nobody
    /\ taken = [a \in UIs |-> Nobody]
    /\ run = [q \in Pollers |-> "off"]
    /\ done = {}
    /\ trusted \in SUBSET Peers
    /\ peerMu = Nobody
    /\ haveIP = FALSE
    /\ allowed = {}
    /\ active = NoPlan
    /\ services = {}
    /\ native = {}
    /\ pc = [a \in Actors |-> "idle"]
    /\ ip = [a \in Actors |-> FALSE]
    /\ ips = [a \in Actors |-> {}]
    /\ ports = [a \in Actors |-> {}]
    /\ new = [a \in Actors |-> Nobody]
    /\ stopped = FALSE
    /\ quiet = TRUE

-----------------------------------------------------------------------------
(* The machine's own programs start and stop listening.                     *)
Machine(p) ==
    /\ \/ /\ services' = services \cup {p}
          /\ native' = native \ {p}
       \/ /\ services' = services \ {p}
          /\ native' \in {native \ {p}, native \cup {p}}
    /\ UNCHANGED <<manager, controller, frame, trusted, peerMu, pc, history>>

-----------------------------------------------------------------------------
(* A server that start has made serves when start returns (Serve is the     *)
(* last thing it does), wherever it is by then.                             *)
Served(s) == IF s = "made" THEN "serving" ELSE s

(* Mutant: peerMu is not released on return.                                *)
FinishWithoutUnlock(a) ==
    /\ Goto(a, "idle")
    /\ control' = IF a = Window THEN Served(control) ELSE control
    /\ held' = [b \in UIs |-> IF a = Window THEN Served(held[b]) ELSE held[b]]
    /\ run' = [q \in Pollers |-> IF q = new[a] THEN "live" ELSE run[q]]
    /\ ip' = [ip EXCEPT ![a] = FALSE]
    /\ ips' = [ips EXCEPT ![a] = {}]
    /\ ports' = [ports EXCEPT ![a] = {}]
    /\ new' = [new EXCEPT ![a] = Nobody]
    /\ UNCHANGED peerMu

(* A call returns: peerMu is released if it was held, the poller made by    *)
(* startLocalhostBridgePolling is launched and then the server, the locals  *)
(* go out of scope.                                                         *)
Finish(a) ==
    /\ Goto(a, "idle")
    /\ peerMu' = IF peerMu = a THEN Nobody ELSE peerMu
    /\ control' = IF a = Window THEN Served(control) ELSE control
    /\ held' = [b \in UIs |-> IF a = Window THEN Served(held[b]) ELSE held[b]]
    /\ run' = [q \in Pollers |-> IF q = new[a] THEN "live" ELSE run[q]]
    /\ ip' = [ip EXCEPT ![a] = FALSE]
    /\ ips' = [ips EXCEPT ![a] = {}]
    /\ ports' = [ports EXCEPT ![a] = {}]
    /\ new' = [new EXCEPT ![a] = Nobody]

(* refreshLocalhostBridge and Controller.Refresh, step by step.             *)
CheckEnabled(a) ==
    /\ pc[a] = "check"
    /\ IF enabled THEN Goto(a, "address") /\ UNCHANGED <<servers, run, frame, peerMu>>
                  ELSE Finish(a)
    /\ UNCHANGED <<enabled, keyed, cancel, taken, done, controller, machine, trusted, history>>

(* localTailscaleIP: the listener's address or, without a listener, what    *)
(* the Tailscale command answers; it is not run on a cancelled context.     *)
FindAddress(a) ==
    /\ pc[a] = "address"
    /\ \E found \in BOOLEAN :
          /\ Listening => found
          /\ ~Listening /\ Cancelled(a) => ~found
          /\ found \/ Cancelled(a) \/ Faults
          /\ ip' = [ip EXCEPT ![a] = found]
    /\ Goto(a, "read")
    /\ UNCHANGED <<manager, controller, machine, trusted, peerMu, ips, ports, new, history>>

(* SetLocalTailscaleIP, then trustedPeerIPs: the peers file is read without *)
(* peerMu, and a file that cannot be read counts as empty.                  *)
ReadPeers(a) ==
    /\ pc[a] = "read"
    /\ MuFree
    /\ haveIP' = ip[a]
    /\ \E seen \in {trusted} \cup (IF Faults THEN {{}} ELSE {}) :
          ips' = [ips EXCEPT ![a] = seen]
    /\ ip' = [ip EXCEPT ![a] = FALSE]
    /\ Goto(a, "set")
    /\ UNCHANGED <<manager, allowed, active, machine, trusted, peerMu, ports, new, history>>

SetAllowedPeers(a) ==
    /\ pc[a] = "set"
    /\ MuFree
    /\ allowed' = ips[a]
    /\ ips' = [ips EXCEPT ![a] = {}]
    /\ Goto(a, "scan")
    /\ UNCHANGED <<manager, haveIP, active, machine, trusted, peerMu, ip, ports, new, history>>

(* Scan lists every listening socket of the machine, the bridges' own       *)
(* included, and those of the WSL distributions that answer; it fails when  *)
(* its context is cancelled.                                                *)
Scan(a) ==
    /\ pc[a] = "scan"
    /\ \/ /\ ~Cancelled(a)
          /\ \E seen \in IF Faults THEN SUBSET services ELSE {services} :
                ports' = [ports EXCEPT ![a] = seen \ Bound]
          /\ Goto(a, "plan")
          /\ UNCHANGED <<servers, run, ip, ips, new, peerMu>>
       \/ /\ Cancelled(a) \/ Faults
          /\ Finish(a)
    /\ UNCHANGED <<enabled, keyed, cancel, taken, done, controller, machine, trusted, history>>

(* BuildPlanResult: nothing is planned without an address or a peer.        *)
Plan(a) ==
    /\ pc[a] = "plan"
    /\ MuFree
    /\ ips' = [ips EXCEPT ![a] = allowed]
    /\ ports' = [ports EXCEPT ![a] = IF haveIP /\ allowed # {} THEN @ ELSE {}]
    /\ Goto(a, "apply")
    /\ UNCHANGED <<manager, controller, machine, trusted, peerMu, ip, new, history>>

(* The bridges that are already there as planned.                           *)
Kept(a) == {p \in ports[a] : active[p] = ips[a]}

(* Mutant: bridges that are no longer planned are not closed.               *)
ApplyWithoutClosing(a) ==
    /\ pc[a] = "apply"
    /\ MuFree
    /\ ports' = [ports EXCEPT ![a] = @ \ Bridged]
    /\ Goto(a, "try")
    /\ UNCHANGED <<manager, controller, machine, trusted, peerMu, ip, ips, new, history>>

(* c.mu is taken, and every bridge that is not planned as it is is closed.  *)
Apply(a) ==
    /\ pc[a] = "apply"
    /\ MuFree
    /\ active' = [p \in Ports |-> IF p \in Kept(a) THEN active[p] ELSE {}]
    /\ ports' = [ports EXCEPT ![a] = @ \ Kept(a)]
    /\ Goto(a, "try")
    /\ UNCHANGED <<manager, haveIP, allowed, machine, trusted, peerMu, ip, ips, new, history>>

(* Mutant: Start does not look at its context.                              *)
TryOnCancelledContext(a) ==
    /\ pc[a] = "try"
    /\ IF ports[a] = {} THEN Finish(a)
                        ELSE Goto(a, "open") /\ UNCHANGED <<servers, run, frame, peerMu>>
    /\ UNCHANGED <<enabled, keyed, cancel, taken, done, controller, machine, trusted, history>>

(* The missing bridges are started one by one.  Bridge.Start first looks at *)
(* its context; the first that fails ends the refresh.                      *)
Try(a) ==
    /\ pc[a] = "try"
    /\ IF ports[a] = {} \/ Cancelled(a)
       THEN Finish(a)
       ELSE Goto(a, "open") /\ UNCHANGED <<servers, run, frame, peerMu>>
    /\ UNCHANGED <<enabled, keyed, cancel, taken, done, controller, machine, trusted, history>>

(* Then it listens.  An old bridge's socket that is still open fails it, a  *)
(* program that listens on all addresses may.                               *)
Open(a) ==
    /\ pc[a] = "open"
    /\ \E p \in ports[a] :
          \/ /\ p \notin Bound
             /\ active' = [active EXCEPT ![p] = ips[a]]
             /\ ports' = [ports EXCEPT ![a] = @ \ {p}]
             /\ Goto(a, "try")
             /\ UNCHANGED <<servers, run, ip, ips, new, peerMu>>
          \/ /\ p \in Bound \cup native \/ Faults
             /\ Finish(a)
             /\ UNCHANGED active
    /\ UNCHANGED <<enabled, keyed, cancel, taken, done, haveIP, allowed, machine, trusted, history>>

Refresh(a) ==
    \/ CheckEnabled(a)
    \/ FindAddress(a)
    \/ ReadPeers(a)
    \/ SetAllowedPeers(a)
    \/ Scan(a)
    \/ Plan(a)
    \/ Apply(a)
    \/ Try(a)
    \/ Open(a)

-----------------------------------------------------------------------------
(* startLocalhostBridgePolling: a poller's context is made and its cancel   *)
(* function stored, if bridging is enabled ...                              *)
StartPolling(a) ==
    /\ pc[a] = "poll"
    /\ \/ /\ enabled
          /\ \E q \in Pollers :
                /\ run[q] = "off"
                /\ run' = [run EXCEPT ![q] = "armed"]
                /\ cancel' = q
                /\ new' = [new EXCEPT ![a] = q]
          /\ Goto(a, "locate")
          /\ UNCHANGED <<servers, ip, ips, ports, peerMu>>
       \/ /\ ~enabled
          /\ Finish(a)
          /\ UNCHANGED cancel
    /\ UNCHANGED <<enabled, keyed, taken, done, controller, machine, trusted, history>>

(* ... SetLocalTailscaleIP, and the caller does one refresh itself before   *)
(* the poller is launched.                                                  *)
Locate(a) ==
    /\ pc[a] = "locate"
    /\ MuFree
    /\ haveIP' = TRUE
    /\ Goto(a, "check")
    /\ UNCHANGED <<manager, allowed, active, machine, frame, trusted, peerMu, history>>

AfterCancel == [stop |-> "detach", start |-> "poll", resume |-> "check"]

(* Mutant: the cancel function is called also when there is none.           *)
TakeCancelUnchecked(a, stage) ==
    /\ cancel' = Nobody
    /\ taken' = [taken EXCEPT ![a] = cancel]
    /\ Goto(a, stage)

(* bridgeCancel is taken out under controlMu; if there is one ...           *)
TakeCancel(a, stage) ==
    /\ cancel' = Nobody
    /\ taken' = [taken EXCEPT ![a] = cancel]
    /\ Goto(a, IF cancel = Nobody THEN AfterCancel[stage] ELSE stage)

(* Mutant: the cancel function is dropped without being called.             *)
DropCancelFunction(a) ==
    /\ pc[a] \in DOMAIN AfterCancel
    /\ taken' = [taken EXCEPT ![a] = Nobody]
    /\ Goto(a, AfterCancel[pc[a]])
    /\ UNCHANGED <<enabled, servers, keyed, cancel, run, done, controller, machine, frame, trusted,
                   peerMu, history>>

(* ... it is called after controlMu has been released.                      *)
CancelPoller(a) ==
    /\ pc[a] \in DOMAIN AfterCancel
    /\ done' = done \cup {taken[a]}
    /\ taken' = [taken EXCEPT ![a] = Nobody]
    /\ Goto(a, AfterCancel[pc[a]])
    /\ UNCHANGED <<enabled, servers, keyed, cancel, run, controller, machine, frame, trusted, peerMu,
                   history>>

(* Controller.Close: the map is emptied under c.mu, the bridges that were   *)
(* in it are closed after that.                                             *)
Detach(a) ==
    /\ pc[a] = "detach"
    /\ MuFree
    /\ active' = NoPlan
    /\ ports' = [ports EXCEPT ![a] = Bridged]
    /\ Goto(a, "close")
    /\ UNCHANGED <<manager, haveIP, allowed, machine, trusted, peerMu, ip, ips, new, history>>

(* Mutant: the server that a stop has taken out is not closed.              *)
CloseBridgesOnly(a) ==
    /\ pc[a] = "close"
    /\ Finish(a)
    /\ UNCHANGED <<enabled, keyed, cancel, taken, done, controller, machine, trusted, history>>

CloseBridges(a) ==
    /\ pc[a] = "close"
    /\ IF held[a] = "none"
       THEN Finish(a)
       ELSE /\ Goto(a, "hangup")
            /\ ports' = [ports EXCEPT ![a] = {}]
            /\ UNCHANGED <<servers, run, ip, ips, new, peerMu>>
    /\ UNCHANGED <<enabled, keyed, cancel, taken, done, controller, machine, trusted, history>>

(* Server.Close and the listener's, last in a stop and first in a start     *)
(* (ServerConnections has their steps).                                     *)
CloseServer(a) ==
    /\ pc[a] \in {"hangup", "reopen"}
    /\ held' = [held EXCEPT ![a] = "none"]
    /\ Goto(a, IF pc[a] = "hangup" THEN "idle" ELSE "listen")
    /\ UNCHANGED <<enabled, control, keyed, cancel, taken, run, done, controller, machine, frame,
                   trusted, peerMu, history>>

(* History: nobody but pollers is doing what a stop, or a pause, of this    *)
(* actor would not end; a pause does not end a connection's refresh once    *)
(* that has read the switch.                                                *)
Alone(a) ==
    /\ \A b \in UIs \ {a} : pc[b] \in {"idle"} \cup StopStages
    /\ \A h \in Handlers : pc[h] = "idle"

NobodyPastTheSwitch == \A h \in Handlers : pc[h] \notin PastTheSwitch

(* The user acts when the previous action is over.                          *)
Act(a, op) ==
    /\ op \in UserOps
    /\ pc[a] = "idle"
    /\ stopped' = (op = "stop" /\ Alone(a))
    /\ quiet' = IF op = "disable" THEN NobodyPastTheSwitch ELSE quiet

(* The control server is taken out under controlMu.                         *)
TakeServer(a) ==
    /\ control' = "none"
    /\ held' = [held EXCEPT ![a] = control]

(* StartControlServer: a server on the same address is closed first ...     *)
Start(a) ==
    /\ Act(a, "start")
    /\ TakeServer(a)
    /\ Goto(a, IF Listening THEN "reopen" ELSE "listen")
    /\ UNCHANGED <<enabled, keyed, cancel, taken, run, done, controller, machine, frame, trusted,
                   peerMu>>

(* ... then the new one is opened, which fails while the tray still has the *)
(* old one open; the old poller is cancelled, and a new one made if         *)
(* bridging is enabled.                                                     *)
Listen(a) ==
    /\ pc[a] = "listen"
    /\ LET inUse == \E b \in UIs : held[b] # "none" IN
       \/ /\ ~inUse
          /\ control' = "made"
          /\ keyed' = TRUE
          /\ TakeCancel(a, "start")
       \/ /\ inUse \/ Faults
          /\ Goto(a, "idle")
          /\ UNCHANGED <<control, keyed, cancel, taken>>
    /\ UNCHANGED <<enabled, held, run, done, controller, machine, frame, trusted, peerMu, history>>

(* Mutant: stopping closes the bridges but not the poller.                  *)
StopWithoutCancel(a) ==
    /\ Act(a, "stop")
    /\ TakeServer(a)
    /\ Goto(a, "detach")
    /\ UNCHANGED <<enabled, keyed, cancel, taken, run, done, controller, machine, frame, trusted,
                   peerMu>>

Stop(a) ==
    /\ Act(a, "stop")
    /\ TakeServer(a)
    /\ TakeCancel(a, "stop")
    /\ UNCHANGED <<enabled, keyed, run, done, controller, machine, frame, trusted, peerMu>>

(* SetLocalhostBridgeEnabled.                                               *)
Enable(a) ==
    /\ Act(a, "enable")
    /\ enabled' = TRUE
    /\ \/ /\ enabled
          /\ Goto(a, "check")
          /\ UNCHANGED <<cancel, taken>>
       \/ /\ ~enabled
          /\ TakeCancel(a, IF Listening THEN "start" ELSE "resume")
    /\ UNCHANGED <<servers, keyed, run, done, controller, machine, frame, trusted, peerMu>>

Disable(a) ==
    /\ Act(a, "disable")
    /\ enabled
    /\ enabled' = FALSE
    /\ TakeCancel(a, "stop")
    /\ UNCHANGED <<servers, keyed, run, done, controller, machine, frame, trusted, peerMu>>

(* The peers file is saved under peerMu, which is kept for the refresh.     *)
SaveAndRefresh(a, peers) ==
    /\ peerMu = Nobody
    /\ peerMu' = a
    /\ trusted' = peers
    /\ Goto(a, "check")
    /\ UNCHANGED <<manager, controller, machine, frame>>

Pair(a, d) ==
    /\ Act(a, "pair")
    /\ keyed
    /\ SaveAndRefresh(a, trusted \cup {d})

Remove(a, d) ==
    /\ Act(a, "remove")
    /\ d \in trusted
    /\ SaveAndRefresh(a, trusted \ {d})

WindowAction(a) ==
    \/ Start(a)
    \/ Enable(a)
    \/ Disable(a)
    \/ \E d \in Peers : Pair(a, d) \/ Remove(a, d)

(* What an action that has begun still has to do.                           *)
Proceed(a) ==
    \/ Refresh(a)
    \/ StartPolling(a)
    \/ Locate(a)
    \/ CancelPoller(a)
    \/ Detach(a)
    \/ CloseBridges(a)
    \/ CloseServer(a)
    \/ Listen(a)

-----------------------------------------------------------------------------
(* A connection is authenticated by a server that has not been closed; its  *)
(* goroutine goes on to TrustAuthenticatedPeer whatever happens to the      *)
(* server meanwhile.  A stop under way, which closes the server last, has   *)
(* then been crossed.                                                       *)
Authenticate(h) ==
    /\ pc[h] = "idle"
    /\ Serving
    /\ Goto(h, "authed")
    /\ stopped' = (stopped /\ UserIdle)
    /\ UNCHANGED <<manager, controller, machine, frame, trusted, peerMu, quiet>>

TrustAuthenticatedPeer(h) ==
    /\ pc[h] = "authed"
    /\ \E d \in Peers : SaveAndRefresh(h, trusted \cup {d})
    /\ UNCHANGED history

(* The poller's loop; with a cancelled context and a tick both there, the   *)
(* select takes either.                                                     *)
Tick(q) ==
    /\ run[q] = "live"
    /\ pc[q] = "idle"
    /\ Goto(q, "check")
    /\ UNCHANGED <<manager, controller, machine, frame, trusted, peerMu, history>>

(* Mutant: the poller's loop ends on its own.                               *)
ExitOnItsOwn(q) ==
    /\ run[q] = "live"
    /\ pc[q] = "idle"
    /\ run' = [run EXCEPT ![q] = "off"]
    /\ done' = done \ {q}
    /\ UNCHANGED <<enabled, servers, keyed, cancel, taken, controller, machine, frame, trusted,
                   peerMu, pc, history>>

Exit(q) ==
    /\ run[q] = "live"
    /\ pc[q] = "idle"
    /\ q \in done
    /\ run' = [run EXCEPT ![q] = "off"]
    /\ done' = done \ {q}
    /\ UNCHANGED <<enabled, servers, keyed, cancel, taken, controller, machine, frame, trusted,
                   peerMu, pc, history>>

Next ==
    \/ WindowAction(Window)
    \/ \E a \in UIs : Stop(a) \/ Proceed(a)
    \/ \E h \in Handlers : Authenticate(h) \/ TrustAuthenticatedPeer(h) \/ Refresh(h)
    \/ \E q \in Pollers : Tick(q) \/ Exit(q) \/ Refresh(q)
    \/ \E p \in Ports : Machine(p)

Spec == Init /\ [][Next]_vars

(* Goroutines are scheduled, commands end, tickers tick, a select with a    *)
(* cancelled context does not miss it forever, and a waiter gets peerMu and *)
(* c.mu (sync.Mutex hands over to one that has waited).  The user and the   *)
(* machine's programs owe nothing.                                          *)
Fairness ==
    /\ \A a \in UIs : SF_vars(Proceed(a))
    /\ \A h \in Handlers : SF_vars(TrustAuthenticatedPeer(h)) /\ SF_vars(Refresh(h))
    /\ \A q \in Pollers : WF_vars(Tick(q)) /\ SF_vars(Exit(q)) /\ SF_vars(Refresh(q))

FairSpec == Spec /\ Fairness

-----------------------------------------------------------------------------
TypeOK ==
    /\ enabled \in BOOLEAN /\ keyed \in BOOLEAN /\ haveIP \in BOOLEAN
    /\ control \in {"none", "made", "serving"} /\ held \in [UIs -> {"none", "made", "serving"}]
    /\ cancel \in Pollers \cup {Nobody} /\ taken \in [UIs -> Pollers \cup {Nobody}]
    /\ run \in [Pollers -> {"off", "armed", "live"}]
    /\ done \subseteq Pollers
    /\ trusted \subseteq Peers /\ allowed \subseteq Peers
    /\ peerMu \in UIs \cup Handlers \cup {Nobody}
    /\ active \in [Ports -> SUBSET Peers]
    /\ services \subseteq Ports /\ native \subseteq Ports \ services
    /\ pc \in [Actors -> Stages]
    /\ ip \in [Actors -> BOOLEAN]
    /\ ips \in [Actors -> SUBSET Peers]
    /\ ports \in [Actors -> SUBSET Ports]
    /\ new \in [Actors -> Pollers \cup {Nobody}]
    /\ stopped \in BOOLEAN /\ quiet \in BOOLEAN

(* No poller is leaked or lost: between two actions of the user the pollers *)
(* that go on are the one m.bridgeCancel would cancel, which has been       *)
(* launched, even when a start has failed half-way or the tray has stopped  *)
(* the server in the middle of one (manager.go:182-262, 295-315, 672-685).  *)
(* It takes that the window's actions follow one another.                   *)
NoPollerLeaks ==
    UserIdle => /\ {q \in Pollers : run[q] # "off" /\ q \notin done} = {cancel} \ {Nobody}
                /\ \A q \in Pollers : run[q] # "armed"

(* Once the user has paused bridging no bridge is left, whatever refresh a  *)
(* poller was in the middle of: it may open bridges between the switch and  *)
(* the call of its cancel function, but those are closed with the others    *)
(* (manager.go:292-310, controller.go:83-114, 134-148, bridge.go:28-31).    *)
(* The refresh of a connection's goroutine has no context that the pause    *)
(* would cancel: one that has read the switch before it is excepted.        *)
PausedMeansClosed == UserIdle /\ ~enabled /\ quiet => active = NoPlan /\ Bound = {}

(* Once the user has stopped listening no bridge is left either, and no     *)
(* connection authenticates that would make one (manager.go:230-253).       *)
(* Excepted is a stop that another action of the user, or a connection      *)
(* already authenticated, was about to follow with a refresh, or during     *)
(* which a connection authenticated: the server is closed last.             *)
StoppedMeansClosed == UserIdle /\ stopped => active = NoPlan /\ Bound = {}

(* "A bridge is made when the port appears and closed when it disappears"   *)
(* (docs/superpowers/specs/2026-05-08-portshare-localhost-bridge-design.md  *)
(* line 18): a poll does not close the bridge of a port that is still       *)
(* listened on, at a loopback address only, for peers that are still trusted. *)
BridgeStaysWhilePortListens ==
    [][\A q \in Pollers : Apply(q) =>
          \A p \in services :
              active[p] # {} /\ active[p] = trusted /\ q \notin done => active'[p] # {}]_vars

(* A device that is not trusted is not admitted by a bridge for long while  *)
(* the manager listens: the poller corrects what a refresh with an older    *)
(* list has applied (manager.go:703-738, controller.go:96-102).             *)
StaleBridgesEnd ==
    \A d \in Peers :
        <>[](d \notin trusted /\ Listening /\ enabled) =>
            <>[](\A p \in Ports : d \notin active[p])

(* A port that stays loopback-only is bridged sooner or later while the     *)
(* manager listens and has a trusted device.                                *)
PortsGetBridged ==
    \A p \in Ports :
        <>[](p \in services /\ trusted # {} /\ Listening /\ enabled) =>
            []<>(active[p] # {})

(* Every action of the user and every handler ends.                         *)
ActionsEnd == \A a \in UIs \cup Handlers : pc[a] # "idle" ~> pc[a] = "idle"

-----------------------------------------------------------------------------
(* Why.  The goroutines keep to their stages.                               *)
StageInv ==
    /\ \A t \in Trays : pc[t] \in {"idle"} \cup StopStages
    /\ \A h \in Handlers : pc[h] \in {"idle", "authed", "check"} \cup PastTheSwitch
    /\ \A q \in Pollers : pc[q] \in {"idle", "check"} \cup PastTheSwitch
    /\ \A q \in Pollers : pc[q] # "idle" => run[q] = "live"
    /\ \A a \in UIs : held[a] # "none" => pc[a] \in StopStages \cup {"reopen"}

(* A poller that is not cancelled is the one on record, or one whose cancel *)
(* function somebody is about to call; also while it is only armed: then    *)
(* the window is on its way to launching it.                                *)
PollerInv ==
    /\ \A q \in Pollers :
          run[q] # "off" /\ q \notin done <=> cancel = q \/ \E a \in UIs : taken[a] = q
    /\ \A a \in UIs : taken[a] # Nobody <=> pc[a] \in DOMAIN AfterCancel
    /\ \A a \in UIs : taken[a] # Nobody =>
          /\ taken[a] # cancel
          /\ \A b \in UIs \ {a} : taken[b] # taken[a]
    /\ \A q \in done : run[q] # "off"
    /\ \A q \in Pollers : run[q] = "armed" <=> new[Window] = q
    /\ \A a \in Actors \ {Window} : new[a] = Nobody
    /\ new[Window] # Nobody => pc[Window] \in {"locate", "check"} \cup PastTheSwitch
    /\ pc[Window] \in {"start", "poll"} => cancel = Nobody

(* Nobody has still to cancel a poller, or to empty the map: then there is  *)
(* no bridge, and nobody is about to open one.                              *)
AllClosed ==
    (\A a \in UIs : pc[a] \notin {"stop", "detach"}) =>
        active = NoPlan /\ \A b \in Actors : pc[b] # "open"

(* While bridging is paused nobody but pollers is past the switch, and they *)
(* are cancelled before the bridges are closed for the last time.           *)
PausedInv ==
    ~enabled =>
        /\ cancel = Nobody
        /\ pc[Window] \notin PastTheSwitch \cup {"locate"}
        /\ taken[Window] # Nobody => pc[Window] = "stop"
        /\ quiet => NobodyPastTheSwitch /\ AllClosed

(* The same of a stop that nothing has crossed, up to the next action.      *)
StoppedInv ==
    stopped =>
        /\ cancel = Nobody
        /\ ~Listening
        /\ \A b \in UIs : pc[b] \in {"idle"} \cup StopStages
        /\ \A h \in Handlers : pc[h] = "idle"
        /\ AllClosed

IInv == TypeOK /\ StageInv /\ PollerInv /\ PausedInv /\ StoppedInv
=============================================================================
