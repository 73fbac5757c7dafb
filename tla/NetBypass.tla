------------------------------ MODULE NetBypass ------------------------------
(***************************************************************************)
(* Temporary host routes that take the traffic for a peer's endpoint past  *)
(* a proxy: diagnosing a path, adding, verifying and removing a route      *)
(* (internal/netdiag/service.go), the manager's record of the route that   *)
(* stands (internal/direct/manager/manager.go), the link guardian's        *)
(* decision (internal/linkguardian/policy.go), and what the window keeps   *)
(* (internal/ui/direct_controller.go).                                     *)
(*                                                                         *)
(* The window runs one action at a time.  Every action is a sequence of    *)
(* commands; between two of them the path may change, the program may be   *)
(* left from the tray, and all that remain fail once the action's thirty   *)
(* seconds are over.  Beside it the tray's menu refreshes the same state:  *)
(* it reads the manager's record and stores what it has read.              *)
(***************************************************************************)
CONSTANTS
    Peers,      \* trusted devices
    Endpoints,  \* public addresses at which Tailscale reaches them
    Exits,      \* physical interfaces with a default route
    None,       \* no peer, no endpoint, no exit
    Faults      \* TRUE: commands may fail, with or without having their effect

ASSUME NoneAssumption == None \notin Peers \cup Endpoints \cup Exits

VARIABLES
    at,         \* peer -> the endpoint it is reached at, "relay" or "unknown"
    tun,        \* whether a proxy's interface has taken the default route
    routes,     \* host routes this program has added: <<endpoint, exit>>
    record,     \* m.activeBypass, or NoBypass
    path,       \* the window's c.state.NetworkPath
    shown,      \* the window's c.state.ActiveBypass
    tray,       \* the tray's Refresh: "idle", or "read" before it assigns
    seen,       \* the record that it has read
    pc,         \* the command that is next, "idle" or "exited"
    op,         \* the action: "detect", "apply", "clear" or "optimize"
    auto,       \* options.AutoBypass
    again,      \* optimizing: the path has been probed again
    report,     \* the latest PeerPathReport
    request,    \* the BypassRequest
    expired,    \* the action's context is over
    lost,       \* history: the removal of the route on record took effect and
                \* was reported to have failed
    overtaken,  \* history: the record has changed since the tray read it
    behind      \* history: the last to write shown was a tray so overtaken

network == <<at, tun>>
window == <<path, shown, behind>>
refresh == <<tray, seen, overtaken>>
action == <<op, auto, again, report, request, expired>>
vars == <<network, routes, record, window, refresh, pc, action, lost>>

Statuses == {"unknown", "normal", "tun_optimized", "proxy", "derp", "failed"}

Reports == [peer : Peers \cup {None}, status : Statuses, endpoint : Endpoints \cup {None},
            exits : SUBSET Exits]

Report(p, status, e, exits) == [peer |-> p, status |-> status, endpoint |-> e, exits |-> exits]

NoReport == Report(None, "unknown", None, {})

Bypasses == [peer : Peers, endpoint : Endpoints, exit : Exits]

NoBypass == [peer |-> None, endpoint |-> None, exit |-> None]

Route(b) == <<b.endpoint, b.exit>>

Init ==
    /\ at \in [Peers -> Endpoints \cup {"relay", "unknown"}]
    /\ tun = TRUE
    /\ routes = {}
    /\ record = NoBypass
    /\ path = NoReport
    /\ shown = NoBypass
    /\ tray = "idle"
    /\ seen = NoBypass
    /\ pc = "idle"
    /\ op = "none"
    /\ auto = FALSE
    /\ again = FALSE
    /\ report = NoReport
    /\ request = NoBypass
    /\ expired = FALSE
    /\ lost = FALSE
    /\ overtaken = FALSE
    /\ behind = FALSE

-----------------------------------------------------------------------------
(* Tailscale finds another way to a peer; the proxy is switched on or off.  *)
Move ==
    /\ pc # "exited"
    /\ \/ \E p \in Peers, e \in Endpoints \cup {"relay", "unknown"} :
             at' = [at EXCEPT ![p] = e] /\ UNCHANGED tun
       \/ tun' = ~tun /\ UNCHANGED at
    /\ UNCHANGED <<routes, record, lost, window, refresh, pc, action>>

Expire ==
    /\ Faults
    /\ pc \notin {"idle", "exited"}
    /\ expired' = TRUE
    /\ UNCHANGED <<network, routes, record, lost, window, refresh, pc, op, auto, again, report,
                   request>>

Fails == Faults \/ expired

(* The manager's record is replaced.                                        *)
Record(b) ==
    /\ record' = b
    /\ overtaken' = (tray = "read")
    /\ lost' = FALSE
    /\ UNCHANGED <<tray, seen>>

(* What the window shows is assigned, or left alone.                        *)
Show(b) ==
    /\ shown' = b
    /\ behind' = FALSE

ShowAsBefore == UNCHANGED <<shown, behind>>

(* What is left of an action that is over: the path the window keeps.       *)
Keep(newPath) ==
    /\ path' = newPath
    /\ op' = "none"
    /\ auto' = FALSE
    /\ again' = FALSE
    /\ report' = NoReport
    /\ request' = NoBypass
    /\ expired' = FALSE

Finish(newPath) ==
    /\ pc' = "idle"
    /\ Keep(newPath)

-----------------------------------------------------------------------------
(* The user's actions.                                                      *)
Begin(what, command) ==
    /\ pc = "idle"
    /\ pc' = command
    /\ op' = what

Detect(p) ==
    /\ Begin("detect", "diagnose")
    /\ report' = [NoReport EXCEPT !.peer = p]
    /\ UNCHANGED <<network, routes, record, lost, window, refresh, auto, again, request, expired>>

Optimize(p, bypass) ==
    /\ Begin("optimize", "diagnose")
    /\ auto' = bypass
    /\ report' = [NoReport EXCEPT !.peer = p]
    /\ UNCHANGED <<network, routes, record, lost, window, refresh, again, request, expired>>

(* A mutant of Apply: a window that does not ask for an endpoint.           *)
ApplyUnchecked(x) ==
    /\ x \in path.exits
    /\ Begin("apply", "add")
    /\ request' = [peer |-> path.peer, endpoint |-> path.endpoint, exit |-> x]
    /\ UNCHANGED <<network, routes, record, lost, window, refresh, auto, again, report, expired>>

(* The endpoint is that of the last detection, the exit one of its list.    *)
Apply(x) ==
    /\ path.endpoint # None
    /\ x \in path.exits
    /\ Begin("apply", "add")
    /\ request' = [peer |-> path.peer, endpoint |-> path.endpoint, exit |-> x]
    /\ UNCHANGED <<network, routes, record, lost, window, refresh, auto, again, report, expired>>

Clear ==
    /\ record # NoBypass
    /\ Begin("clear", "remove")
    /\ UNCHANGED <<network, routes, record, lost, window, refresh, auto, again, report, request,
                   expired>>

ClearNothing ==
    /\ pc = "idle"
    /\ record = NoBypass
    /\ Show(NoBypass)
    /\ UNCHANGED <<network, routes, record, lost, path, refresh, pc, action>>

(* Refresh, from the window's button and after a pairing.                   *)
WindowRefresh ==
    /\ pc = "idle"
    /\ Show(record)
    /\ UNCHANGED <<network, routes, record, lost, path, refresh, pc, action>>

(* Refresh from the tray's menu, at any moment of a window action: the      *)
(* record is read under networkMu ...                                       *)
TrayReads ==
    /\ pc # "exited"
    /\ tray = "idle"
    /\ tray' = "read"
    /\ seen' = record
    /\ overtaken' = FALSE
    /\ UNCHANGED <<network, routes, record, lost, window, pc, action>>

(* ... and assigned to the state after that.                                *)
TrayAssigns ==
    /\ tray = "read"
    /\ shown' = seen
    /\ behind' = overtaken
    /\ tray' = "idle"
    /\ seen' = NoBypass
    /\ overtaken' = FALSE
    /\ UNCHANGED <<network, routes, record, lost, path, pc, action>>

(* The program may be left from the tray in the middle of an action.  The   *)
(* routes outlive it, and it may be started again.                          *)
Quit ==
    /\ pc # "exited"
    /\ pc' = "exited"
    /\ record' = NoBypass
    /\ lost' = FALSE
    /\ Keep(NoReport)
    /\ Show(NoBypass)
    /\ tray' = "idle"
    /\ seen' = NoBypass
    /\ overtaken' = FALSE
    /\ UNCHANGED <<network, routes>>

Launch ==
    /\ pc = "exited"
    /\ pc' = "idle"
    /\ UNCHANGED <<network, routes, record, lost, window, refresh, action>>

-----------------------------------------------------------------------------
Continue(command) ==
    /\ pc' = command
    /\ UNCHANGED <<window, op, auto, again, expired>>

(* The reports DiagnosePeer may return: a host route is a physical          *)
(* interface, otherwise the default route decides; the latency of a path    *)
(* through the proxy is low or not.                                         *)
Diagnoses(p) ==
    {Report(p, status, e, exits) :
        status \in CASE at[p] = "relay" -> {"derp"}
                     [] at[p] = "unknown" -> {"unknown"}
                     [] OTHER -> IF tun /\ \A x \in Exits : <<at[p], x>> \notin routes
                                 THEN {"tun_optimized", "proxy"} ELSE {"normal"},
        e \in IF at[p] \in Endpoints THEN {at[p]} ELSE {None},
        exits \in {Exits, {}}}

FailedDiagnoses(p) ==
    {Report(p, "failed", e, {}) : e \in {None} \cup ({at[p]} \cap Endpoints)}

(* DetectNetworkPath keeps the report in any case.                          *)
DetectPath ==
    /\ pc = "diagnose"
    /\ op = "detect"
    /\ \/ ~expired /\ \E r \in Diagnoses(report.peer) : Finish(r)
       \/ Fails /\ \E r \in FailedDiagnoses(report.peer) : Finish(r)
    /\ ShowAsBefore
    /\ UNCHANGED <<network, routes, record, lost, refresh>>

(* Evaluate and shouldClearActiveBypass.                                    *)
Stale(r) == r.endpoint # None /\ record.endpoint # None /\ r.endpoint # record.endpoint

Decision(r) ==
    CASE Stale(r) -> "clear"
      [] ~Stale(r) /\ r.status = "proxy" /\ auto /\ r.exits # {} -> "apply"
      [] ~Stale(r) /\ r.status = "derp" -> "reprobe"
      [] OTHER -> "watch"

(* OptimizeLink: diagnose and decide.  The second time round only a route   *)
(* to add is acted on.  The window shows the manager's record.              *)
Guard ==
    /\ pc = "diagnose"
    /\ op = "optimize"
    /\ ~expired
    /\ \E r \in Diagnoses(report.peer) :
          LET decision == Decision(r) IN
          \/ /\ decision = "clear" /\ ~again
             /\ Continue("remove")
             /\ report' = r
             /\ UNCHANGED request
          \/ /\ decision = "reprobe" /\ ~again
             /\ pc' = "diagnose"
             /\ again' = TRUE
             /\ report' = r
             /\ UNCHANGED <<window, op, auto, request, expired>>
          \/ /\ decision = "apply"
             /\ Continue("add")
             /\ report' = r
             /\ \E x \in r.exits :
                   request' = [peer |-> r.peer, endpoint |-> r.endpoint, exit |-> x]
          \/ /\ decision = "watch" \/ (again /\ decision # "apply")
             /\ Finish(r)
             /\ Show(record)
    /\ UNCHANGED <<network, routes, record, lost, refresh>>

(* A failed diagnosis ends it; result.After is empty the first time, and    *)
(* the window keeps that.                                                   *)
GuardFails ==
    /\ pc = "diagnose"
    /\ op = "optimize"
    /\ Fails
    /\ IF again THEN \E r \in FailedDiagnoses(report.peer) : Finish(r)
                ELSE Finish(NoReport)
    /\ Show(record)
    /\ UNCHANGED <<network, routes, record, lost, refresh>>

(* A mutant of Add: a route that is there already is taken for our own.     *)
AddOrAdopt ==
    /\ pc = "add"
    /\ ~expired
    /\ routes' = routes \cup {Route(request)}
    /\ Continue("verify")
    /\ UNCHANGED <<network, record, lost, refresh, report, request>>

(* New-NetRoute, which fails if the route is there.                         *)
Add ==
    /\ pc = "add"
    /\ ~expired
    /\ Route(request) \notin routes
    /\ routes' = routes \cup {Route(request)}
    /\ Continue("verify")
    /\ UNCHANGED <<network, record, lost, refresh, report, request>>

(* The window after an action that has failed.                              *)
Fail ==
    /\ Finish(IF op = "optimize" THEN report ELSE path)
    /\ IF op = "optimize" THEN Show(record) ELSE ShowAsBefore

AddFails ==
    /\ pc = "add"
    /\ Fails \/ Route(request) \in routes
    /\ \/ UNCHANGED routes
       \/ Faults /\ ~expired /\ routes' = routes \cup {Route(request)}
    /\ Fail
    /\ UNCHANGED <<network, record, lost, refresh>>

(* verifyBypass: the peer is reached at the endpoint, through the exit.     *)
Exit(e) == {x \in Exits : <<e, x>> \in routes}

VerifiedPath == at[request.peer] = request.endpoint

Verify ==
    /\ pc = "verify"
    /\ ~expired
    /\ VerifiedPath
    /\ Record(request)
    /\ IF op = "optimize" THEN Continue("final") /\ UNCHANGED <<report, request>>
                          ELSE Finish(path) /\ Show(request)
    /\ UNCHANGED <<network, routes>>

VerifyFails ==
    /\ pc = "verify"
    /\ Fails \/ ~VerifiedPath \/ Exit(request.endpoint) # {request.exit}
    /\ Continue("undo")
    /\ UNCHANGED <<network, routes, record, lost, refresh, report, request>>

(* The route that was not verified is removed, on the same context; the     *)
(* outcome is not looked at.                                                *)
Undo ==
    /\ pc = "undo"
    /\ \/ ~expired /\ routes' = routes \ {Route(request)}
       \/ Fails /\ UNCHANGED routes
    /\ Fail
    /\ UNCHANGED <<network, record, lost, refresh>>

(* The report that the window shows after an optimization.                  *)
DiagnoseAgain ==
    /\ pc = "final"
    /\ \/ ~expired /\ \E r \in Diagnoses(report.peer) : Finish(r)
       \/ Fails /\ Finish(report)
    /\ Show(record)
    /\ UNCHANGED <<network, routes, record, lost, refresh>>

(* A mutant of Remove: after an optimization the window keeps what it had.  *)
RemoveUnseen ==
    /\ pc = "remove"
    /\ ~expired
    /\ Route(record) \in routes
    /\ routes' = routes \ {Route(record)}
    /\ Record(NoBypass)
    /\ Finish(IF op = "optimize" THEN report ELSE path)
    /\ IF op = "optimize" THEN ShowAsBefore ELSE Show(NoBypass)
    /\ UNCHANGED network

(* Remove-NetRoute, which fails if the route is not there; then the record  *)
(* is dropped.                                                              *)
Remove ==
    /\ pc = "remove"
    /\ ~expired
    /\ Route(record) \in routes
    /\ routes' = routes \ {Route(record)}
    /\ Record(NoBypass)
    /\ Finish(IF op = "optimize" THEN report ELSE path)
    /\ Show(NoBypass)
    /\ UNCHANGED network

RemoveFails ==
    /\ pc = "remove"
    /\ Fails \/ Route(record) \notin routes
    /\ \/ UNCHANGED <<routes, lost>>
       \/ Faults /\ ~expired /\ routes' = routes \ {Route(record)} /\ lost' = TRUE
    /\ Finish(IF op = "optimize" THEN NoReport ELSE path)
    /\ IF op = "optimize" THEN Show(record) ELSE ShowAsBefore
    /\ UNCHANGED <<network, record, refresh>>

Commands ==
    \/ DetectPath
    \/ Guard
    \/ GuardFails
    \/ Add
    \/ AddFails
    \/ Verify
    \/ VerifyFails
    \/ Undo
    \/ DiagnoseAgain
    \/ Remove
    \/ RemoveFails

Next ==
    \/ \E p \in Peers : Detect(p) \/ \E bypass \in BOOLEAN : Optimize(p, bypass)
    \/ \E x \in Exits : Apply(x)
    \/ Clear
    \/ ClearNothing
    \/ WindowRefresh
    \/ TrayReads
    \/ TrayAssigns
    \/ Quit
    \/ Launch
    \/ Commands
    \/ Move
    \/ Expire

Spec == Init /\ [][Next]_vars

-----------------------------------------------------------------------------
TypeOK ==
    /\ at \in [Peers -> Endpoints \cup {"relay", "unknown"}]
    /\ tun \in BOOLEAN
    /\ routes \subseteq Endpoints \X Exits
    /\ record \in Bypasses \cup {NoBypass}
    /\ path \in Reports
    /\ shown \in Bypasses \cup {NoBypass} /\ seen \in Bypasses \cup {NoBypass}
    /\ tray \in {"idle", "read"}
    /\ pc \in {"idle", "exited", "diagnose", "add", "verify", "undo", "final", "remove"}
    /\ op \in {"none", "detect", "apply", "clear", "optimize"}
    /\ auto \in BOOLEAN /\ again \in BOOLEAN /\ expired \in BOOLEAN
    /\ report \in Reports
    /\ request \in Bypasses \cup {NoBypass}
    /\ lost \in BOOLEAN /\ overtaken \in BOOLEAN /\ behind \in BOOLEAN

(* When no action is under way the window shows the bypass the manager has  *)
(* on record, however the last action ended (direct_controller.go:186-292)  *)
(* and whenever the tray has refreshed it, with one exception: the tray's   *)
(* refresh had read the record before an action changed it, and was the     *)
(* last to assign (direct_controller.go:146).                               *)
WindowShowsTheRecord == pc = "idle" /\ ~behind => shown = record

(* The bypass on record is there: the route the window offers to remove     *)
(* exists.  Undoing an addition never takes it away, after whatever         *)
(* failure; only a removal does that takes effect and reports an error      *)
(* (manager.go:466-500, service.go:78-106).                                 *)
RecordedRouteStands == record # NoBypass /\ ~lost => Route(record) \in routes

-----------------------------------------------------------------------------
(* Why.  An endpoint is somebody's, and what is diagnosed has a peer.       *)
ReportInv ==
    /\ path.endpoint # None => path.peer # None
    /\ report.endpoint # None => report.peer # None
    /\ pc = "diagnose" \/ op = "optimize" => report.peer \in Peers
    /\ pc = "final" => op = "optimize"

(* A route that is being added, verified or taken back is a real one.       *)
RequestInv == pc \in {"add", "verify", "undo", "final"} => request \in Bypasses

(* The window lags behind the manager only while the last report of an      *)
(* optimization that has changed the record is being made, and after an     *)
(* overtaken refresh; one that has not been overtaken is about to assign    *)
(* the record.                                                              *)
ShownInv ==
    /\ pc # "final" /\ ~behind => shown = record
    /\ tray = "read" /\ ~overtaken => seen = record

(* The route that is being verified is there, and one that may still be     *)
(* taken back is not the one on record: a route that is there cannot be     *)
(* added a second time.                                                     *)
RouteInv ==
    /\ RecordedRouteStands
    /\ pc = "verify" => Route(request) \in routes
    /\ pc \in {"verify", "undo"} /\ record # NoBypass /\ ~lost => Route(record) # Route(request)

IInv == TypeOK /\ ReportInv /\ RequestInv /\ ShownInv /\ RouteInv
=============================================================================
