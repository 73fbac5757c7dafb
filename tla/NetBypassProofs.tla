--------------------------- MODULE NetBypassProofs ---------------------------
(***************************************************************************)
(* For any peers, endpoints and exits, whatever fails and whenever the     *)
(* program is left: the window shows the bypass that the manager has on    *)
(* record unless an overtaken refresh of the tray was the last to store    *)
(* it, and the route of that bypass is there until it is removed.  The     *)
(* second rests on a route being verified, and perhaps taken back, only    *)
(* when it was not there before: it is another than the one on record.     *)
(***************************************************************************)
EXTENDS NetBypass, TLAPS

LEMMA InitIInv == Init => IInv
<1> SUFFICES ASSUME Init PROVE IInv
  OBVIOUS
<1> USE NoneAssumption DEF Init
<1>1. NoReport \in Reports /\ NoReport.endpoint = None
  BY DEF NoReport, Report, Reports, Statuses
<1>2. TypeOK
  BY <1>1 DEF TypeOK
<1> QED BY <1>1, <1>2
   DEF IInv, ReportInv, RequestInv, ShownInv, RouteInv, RecordedRouteStands

-----------------------------------------------------------------------------
(* What the operators shared by the actions do.                             *)
LEMMA NothingReported ==
    /\ NoReport \in Reports /\ NoReport.endpoint = None
    /\ \A p \in Peers : /\ [NoReport EXCEPT !.peer = p] \in Reports
                        /\ [NoReport EXCEPT !.peer = p].peer = p
                        /\ [NoReport EXCEPT !.peer = p].endpoint = None
BY DEF NoReport, Report, Reports, Statuses

(* No bypass has no route.                                                  *)
LEMMA BypassIsReal == \A b \in Bypasses : b # NoBypass /\ Route(b) \in Endpoints \X Exits
BY NoneAssumption DEF Bypasses, NoBypass, Route

(* A diagnosis is a report on the peer that was asked for, and an endpoint  *)
(* reached through the proxy is one that Tailscale knows.                   *)
LEMMA DiagnosesReport ==
    ASSUME TypeOK, NEW p \in Peers, NEW r \in Diagnoses(p) \cup FailedDiagnoses(p)
    PROVE  /\ r \in Reports /\ r.peer = p
           /\ r.status = "proxy" => r.endpoint \in Endpoints
<1>1. at[p] \in Endpoints \cup {"relay", "unknown"}
  BY DEF TypeOK
<1>2. CASE r \in FailedDiagnoses(p)
  BY <1>1, <1>2 DEF FailedDiagnoses, Report, Reports, Statuses
<1>3. CASE r \in Diagnoses(p)
  <2>1. PICK status \in CASE at[p] = "relay" -> {"derp"}
                          [] at[p] = "unknown" -> {"unknown"}
                          [] OTHER -> IF tun /\ \A x \in Exits : <<at[p], x>> \notin routes
                                      THEN {"tun_optimized", "proxy"} ELSE {"normal"},
             e \in IF at[p] \in Endpoints THEN {at[p]} ELSE {None},
             exits \in {Exits, {}} : r = Report(p, status, e, exits)
    BY <1>3 DEF Diagnoses
  <2>2. status \in Statuses
    BY <2>1 DEF Statuses
  <2>3. e \in Endpoints \cup {None} /\ exits \in SUBSET Exits
    BY <2>1
  <2>4. status = "proxy" => e \in Endpoints
    <3>1. CASE at[p] = "relay"
      BY <2>1, <3>1
    <3>2. CASE at[p] = "unknown"
      BY <2>1, <3>2
    <3>3. CASE at[p] # "relay" /\ at[p] # "unknown"
      BY <1>1, <2>1, <3>3
    <3> QED BY <3>1, <3>2, <3>3
  <2>5. /\ r = [peer |-> p, status |-> status, endpoint |-> e, exits |-> exits]
    BY <2>1 DEF Report
  <2> QED BY <2>2, <2>3, <2>4, <2>5 DEF Reports
<1> QED BY <1>2, <1>3

(* What the tray has read, as long as nothing has overtaken it.             *)
RefreshInv ==
    /\ tray \in {"idle", "read"} /\ seen \in Bypasses \cup {NoBypass} /\ overtaken \in BOOLEAN
    /\ tray = "read" /\ ~overtaken => seen = record

LEMMA RefreshKept ==
    ASSUME IInv,
           (UNCHANGED refresh /\ record' = record) \/ (\E b \in Bypasses \cup {NoBypass} : Record(b))
    PROVE  RefreshInv'
BY DEF IInv, TypeOK, ShownInv, RefreshInv, refresh, Record

(* An action that is over leaves nothing to be kept apart; the window shows *)
(* the record, or as before when that has not changed.                      *)
LEMMA FinishesIInv ==
    ASSUME IInv, NEW newPath \in Reports, Finish(newPath),
           newPath.endpoint # None => newPath.peer # None,
           UNCHANGED network,
           routes' \subseteq Endpoints \X Exits,
           record' \in Bypasses \cup {NoBypass}, lost' \in BOOLEAN,
           Show(record') \/ (ShowAsBefore /\ pc # "final" /\ record' = record),
           RefreshInv',
           RecordedRouteStands'
    PROVE  IInv'
<1> USE NothingReported DEF Finish, Keep
<1>1. shown' \in Bypasses \cup {NoBypass} /\ behind' \in BOOLEAN
  BY DEF IInv, TypeOK, Show, ShowAsBefore
<1>2. TypeOK'
  BY <1>1 DEF IInv, TypeOK, network, RefreshInv
<1>3. ~behind' => shown' = record'
  BY DEF IInv, ShownInv, Show, ShowAsBefore
<1>4. ReportInv' /\ RequestInv' /\ ShownInv' /\ RouteInv'
  BY <1>3 DEF ReportInv, RequestInv, ShownInv, RouteInv, RefreshInv
<1> QED BY <1>2, <1>4 DEF IInv

-----------------------------------------------------------------------------
(* Steps that only change what the window shows or the tray has read.       *)
LEMMA ShownIInv ==
    ASSUME IInv, UNCHANGED <<network, routes, record, lost, path, pc, action>>,
           shown' \in Bypasses \cup {NoBypass}, seen' \in Bypasses \cup {NoBypass},
           tray' \in {"idle", "read"}, overtaken' \in BOOLEAN, behind' \in BOOLEAN,
           ~behind' => shown' = record \/ pc = "final",
           tray' = "read" /\ ~overtaken' => seen' = record
    PROVE  IInv'
<1>1. TypeOK'
  BY DEF IInv, TypeOK, network, action
<1>2. ReportInv' /\ RequestInv'
  BY DEF IInv, ReportInv, RequestInv, action
<1>3. ShownInv'
  BY DEF ShownInv
<1>4. RouteInv'
  BY DEF IInv, RouteInv, RecordedRouteStands, Route, action
<1> QED BY <1>1, <1>2, <1>3, <1>4 DEF IInv

(* The world around, and the user.                                          *)
LEMMA BeginIInv ==
    ASSUME IInv,
           \/ \E p \in Peers : Detect(p) \/ \E bypass \in BOOLEAN : Optimize(p, bypass)
           \/ \E x \in Exits : Apply(x)
           \/ Clear
           \/ ClearNothing
           \/ WindowRefresh
    PROVE  IInv'
<1> USE NoneAssumption, NothingReported
    DEF IInv, TypeOK, ReportInv, RequestInv, ShownInv, RouteInv, RecordedRouteStands, Begin,
        network, window, refresh, action, Show
<1>1. ASSUME NEW p \in Peers, Detect(p) PROVE IInv'
  BY <1>1 DEF Detect
<1>2. ASSUME NEW p \in Peers, NEW bypass \in BOOLEAN, Optimize(p, bypass) PROVE IInv'
  BY <1>2 DEF Optimize
<1>3. ASSUME NEW x \in Exits, Apply(x) PROVE IInv'
  <2>1. path.peer \in Peers /\ path.endpoint \in Endpoints
    BY <1>3 DEF Apply, Reports
  <2>2. request' \in Bypasses
    BY <1>3, <2>1 DEF Apply, Bypasses
  <2> QED BY <1>3, <2>2 DEF Apply
<1>4. CASE Clear
  BY <1>4 DEF Clear
<1>5. CASE ClearNothing
  <2>1. /\ UNCHANGED <<network, routes, record, lost, path, pc, action, tray, seen, overtaken>>
        /\ shown' = record /\ behind' = FALSE
    BY <1>5 DEF ClearNothing
  <2> QED BY <2>1, ShownIInv
<1>6. CASE WindowRefresh
  <2>1. /\ UNCHANGED <<network, routes, record, lost, path, pc, action, tray, seen, overtaken>>
        /\ shown' = record /\ behind' = FALSE
    BY <1>6 DEF WindowRefresh
  <2> QED BY <2>1, ShownIInv
<1> QED BY <1>1, <1>2, <1>3, <1>4, <1>5, <1>6

LEMMA WorldIInv ==
    ASSUME IInv, TrayReads \/ TrayAssigns \/ Quit \/ Launch \/ Move \/ Expire
    PROVE  IInv'
<1> USE NothingReported
    DEF IInv, TypeOK, ReportInv, RequestInv, ShownInv, RouteInv, RecordedRouteStands,
        network, window, refresh, action
<1>1. CASE Quit
  BY <1>1 DEF Quit, Keep, Show
<1>2. CASE Launch
  BY <1>2 DEF Launch
<1>3. CASE Move
  <2>1. at' \in [Peers -> Endpoints \cup {"relay", "unknown"}] /\ tun' \in BOOLEAN
    BY <1>3 DEF Move
  <2>2. UNCHANGED <<routes, record, lost, window, pc, action>>
    BY <1>3 DEF Move
  <2> QED BY <1>3, <2>1, <2>2 DEF Move, Route
<1>4. CASE Expire
  BY <1>4 DEF Expire
<1>5. CASE TrayReads
  <2>1. /\ UNCHANGED <<network, routes, record, lost, path, pc, action, shown, behind>>
        /\ tray' = "read" /\ seen' = record /\ overtaken' = FALSE
    BY <1>5 DEF TrayReads
  <2> QED BY <2>1, ShownIInv
<1>6. CASE TrayAssigns
  <2>1. /\ UNCHANGED <<network, routes, record, lost, path, pc, action>>
        /\ tray' = "idle" /\ seen' = NoBypass /\ overtaken' = FALSE
        /\ shown' = seen /\ behind' = overtaken /\ tray = "read"
    BY <1>6 DEF TrayAssigns
  <2> QED BY <2>1, ShownIInv
<1> QED BY <1>1, <1>2, <1>3, <1>4, <1>5, <1>6

-----------------------------------------------------------------------------
(* The commands.                                                            *)
LEMMA DiagnoseIInv ==
    ASSUME IInv, DetectPath \/ Guard \/ GuardFails \/ DiagnoseAgain
    PROVE  IInv'
<1> USE NoneAssumption
<1>1. report.peer \in Peers /\ report \in Reports
  BY DEF IInv, TypeOK, ReportInv, DetectPath, Guard, GuardFails, DiagnoseAgain
<1>2. \A r \in Diagnoses(report.peer) \cup FailedDiagnoses(report.peer) :
          /\ r \in Reports /\ r.peer = report.peer
          /\ r.status = "proxy" => r.endpoint \in Endpoints
  BY <1>1, DiagnosesReport DEF IInv
<1>3. ASSUME NEW newPath \in {report, NoReport} \cup Diagnoses(report.peer)
                             \cup FailedDiagnoses(report.peer),
             Finish(newPath), UNCHANGED <<network, routes, record, lost, refresh>>,
             Show(record) \/ (ShowAsBefore /\ pc # "final")
      PROVE  IInv'
  <2>1. newPath \in Reports /\ (newPath.endpoint # None => newPath.peer # None)
    BY <1>1, <1>2, NothingReported
  <2>2. RecordedRouteStands' /\ routes' \subseteq Endpoints \X Exits
        /\ record' \in Bypasses \cup {NoBypass} /\ lost' \in BOOLEAN
    BY <1>3 DEF IInv, TypeOK, RouteInv, RecordedRouteStands
  <2>3. RefreshInv'
    BY <1>3, RefreshKept
  <2>4. Show(record') \/ (ShowAsBefore /\ pc # "final" /\ record' = record)
    BY <1>3 DEF Show
  <2> QED BY <1>3, <2>1, <2>2, <2>3, <2>4, FinishesIInv
<1>4. CASE DetectPath
  BY <1>3, <1>4 DEF DetectPath
<1>5. CASE Guard
  <2>1. PICK r \in Diagnoses(report.peer) :
            \/ Continue("remove") /\ report' = r /\ UNCHANGED request
            \/ /\ pc' = "diagnose" /\ again' = TRUE /\ report' = r
               /\ UNCHANGED <<window, op, auto, request, expired>>
            \/ /\ Decision(r) = "apply" /\ Continue("add") /\ report' = r
               /\ \E x \in r.exits :
                     request' = [peer |-> r.peer, endpoint |-> r.endpoint, exit |-> x]
            \/ Finish(r) /\ Show(record)
    BY <1>5 DEF Guard
  <2>2. /\ pc = "diagnose" /\ op = "optimize"
        /\ UNCHANGED <<network, routes, record, lost, refresh>>
    BY <1>5 DEF Guard
  <2>3. r \in Reports /\ r.peer \in Peers
    BY <1>1, <1>2
  <2> USE DEF IInv, TypeOK, ReportInv, RequestInv, ShownInv, RouteInv, RecordedRouteStands,
              Continue, network, window, refresh
  <2>4. CASE Continue("remove") /\ report' = r /\ UNCHANGED request
    BY <2>2, <2>3, <2>4
  <2>5. CASE /\ pc' = "diagnose" /\ again' = TRUE /\ report' = r
             /\ UNCHANGED <<window, op, auto, request, expired>>
    BY <2>2, <2>3, <2>5
  <2>6. CASE /\ Decision(r) = "apply" /\ Continue("add") /\ report' = r
             /\ \E x \in r.exits :
                   request' = [peer |-> r.peer, endpoint |-> r.endpoint, exit |-> x]
    <3>1. r.status = "proxy"
      BY <2>6 DEF Decision
    <3>2. r.exits \subseteq Exits /\ r.endpoint \in Endpoints
      BY <1>2, <2>3, <3>1 DEF Reports
    <3>3. request' \in Bypasses
      BY <2>3, <2>6, <3>2 DEF Bypasses
    <3> QED BY <2>2, <2>3, <2>6, <3>3
  <2>7. CASE Finish(r) /\ Show(record)
    BY <1>3, <2>2, <2>7
  <2> QED BY <2>1, <2>4, <2>5, <2>6, <2>7
<1>6. CASE GuardFails
  BY <1>3, <1>6 DEF GuardFails
<1>7. CASE DiagnoseAgain
  BY <1>3, <1>7 DEF DiagnoseAgain
<1> QED BY <1>4, <1>5, <1>6, <1>7

(* After a failure the window shows what it has shown, or the record.       *)
LEMMA FailsIInv ==
    ASSUME IInv, Fail, pc \in {"add", "undo"}, UNCHANGED <<network, record, lost, refresh>>,
           routes' \subseteq Endpoints \X Exits, RecordedRouteStands'
    PROVE  IInv'
<1> DEFINE newPath == IF op = "optimize" THEN report ELSE path
<1>1. Finish(newPath)
  BY DEF Fail
<1>2. newPath \in Reports /\ (newPath.endpoint # None => newPath.peer # None)
  BY DEF IInv, TypeOK, ReportInv
<1>3. record' \in Bypasses \cup {NoBypass} /\ record = record' /\ lost' \in BOOLEAN
      /\ UNCHANGED network
  BY DEF IInv, TypeOK
<1>4. Show(record') \/ (ShowAsBefore /\ pc # "final" /\ record' = record)
  BY DEF Fail, Show
<1>5. RefreshInv'
  BY RefreshKept
<1> HIDE DEF newPath
<1> QED BY <1>1, <1>2, <1>3, <1>4, <1>5, FinishesIInv

LEMMA AddIInv ==
    ASSUME IInv, Add \/ AddFails
    PROVE  IInv'
<1>1. request \in Bypasses /\ Route(request) \in Endpoints \X Exits
  BY BypassIsReal DEF IInv, RequestInv, Add, AddFails
<1>2. CASE Add
  <2>1. Route(request) \notin routes /\ routes' = routes \cup {Route(request)}
    BY <1>2 DEF Add
  <2>2. /\ pc = "add" /\ pc' = "verify"
        /\ UNCHANGED <<network, record, lost, report, request, window, refresh, op, auto, again,
                       expired>>
    BY <1>2 DEF Add, Continue
  <2>3. TypeOK'
    BY <1>1, <2>1, <2>2 DEF IInv, TypeOK, network, window, refresh
  <2>4. ReportInv' /\ RequestInv' /\ ShownInv'
    BY <1>1, <2>2 DEF IInv, ReportInv, RequestInv, ShownInv, window, refresh
  <2>5. RouteInv'
    BY <2>1, <2>2 DEF IInv, RouteInv, RecordedRouteStands, Route
  <2> QED BY <2>3, <2>4, <2>5 DEF IInv
<1>3. CASE AddFails
  <2>1. routes' \in {routes, routes \cup {Route(request)}}
        /\ pc = "add" /\ Fail /\ UNCHANGED <<network, record, lost, refresh>>
    BY <1>3 DEF AddFails
  <2>2. routes' \subseteq Endpoints \X Exits /\ RecordedRouteStands'
    BY <1>1, <2>1 DEF IInv, TypeOK, RouteInv, RecordedRouteStands, Route
  <2> QED BY <2>1, <2>2, FailsIInv
<1> QED BY <1>2, <1>3

(* Only what is not on record is taken back.                                *)
LEMMA VerifyIInv ==
    ASSUME IInv, Verify \/ VerifyFails \/ Undo
    PROVE  IInv'
<1>1. request \in Bypasses
  BY DEF IInv, RequestInv, Verify, VerifyFails, Undo
<1>2. CASE Verify
  <2>1. /\ pc = "verify" /\ record' = request /\ lost' = FALSE /\ UNCHANGED <<network, routes>>
        /\ Record(request) /\ Route(request) \in routes
    BY <1>2 DEF Verify, Record, IInv, RouteInv
  <2>2. RecordedRouteStands'
    BY <2>1 DEF RecordedRouteStands, Route
  <2>3. CASE op = "optimize"
    <3>1. /\ pc' = "final"
          /\ UNCHANGED <<report, request, window, op, auto, again, expired>>
      BY <1>2, <2>3 DEF Verify, Continue
    <3>2. TypeOK'
      BY <1>1, <2>1, <3>1 DEF IInv, TypeOK, network, window, Record
    <3>3. ReportInv' /\ RequestInv' /\ ShownInv' /\ RouteInv'
      BY <1>1, <2>1, <2>2, <2>3, <3>1
         DEF IInv, ReportInv, RequestInv, ShownInv, RouteInv, window, Record
    <3> QED BY <3>2, <3>3 DEF IInv
  <2>4. CASE op # "optimize"
    <3>1. /\ Finish(path) /\ Show(request)
          /\ path \in Reports /\ (path.endpoint # None => path.peer # None)
          /\ routes \subseteq Endpoints \X Exits
      BY <1>2, <2>4 DEF Verify, IInv, TypeOK, ReportInv
    <3>2. RefreshInv' /\ Show(record')
      BY <1>1, <2>1, <3>1, RefreshKept DEF Show
    <3> QED BY <1>1, <2>1, <2>2, <3>1, <3>2, FinishesIInv
  <2> QED BY <2>3, <2>4
<1>3. CASE VerifyFails
  <2>1. /\ pc = "verify" /\ pc' = "undo"
        /\ UNCHANGED <<network, routes, record, lost, report, request, window, refresh, op, auto,
                       again, expired>>
    BY <1>3 DEF VerifyFails, Continue
  <2> QED BY <1>1, <2>1
     DEF IInv, TypeOK, ReportInv, RequestInv, ShownInv, RouteInv, RecordedRouteStands, Route,
         network, window, refresh
<1>4. CASE Undo
  <2>1. routes' \in {routes, routes \ {Route(request)}}
        /\ pc = "undo" /\ Fail /\ UNCHANGED <<network, record, lost, refresh>>
    BY <1>4 DEF Undo
  <2>2. record # NoBypass /\ ~lost => Route(record) \in routes /\ Route(record) # Route(request)
    BY <2>1 DEF IInv, RouteInv, RecordedRouteStands
  <2>3. routes' \subseteq Endpoints \X Exits /\ RecordedRouteStands'
    BY <2>1, <2>2 DEF IInv, TypeOK, RecordedRouteStands, Route
  <2> QED BY <2>1, <2>3, FailsIInv
<1> QED BY <1>2, <1>3, <1>4

LEMMA RemoveIInv ==
    ASSUME IInv, Remove \/ RemoveFails
    PROVE  IInv'
<1>1. /\ path \in Reports /\ (path.endpoint # None => path.peer # None)
      /\ report \in Reports /\ (report.endpoint # None => report.peer # None)
      /\ routes \subseteq Endpoints \X Exits
      /\ record \in Bypasses \cup {NoBypass} /\ lost \in BOOLEAN
  BY DEF IInv, TypeOK, ReportInv
<1>2. CASE Remove
  <2> DEFINE newPath == IF op = "optimize" THEN report ELSE path
  <2>1. /\ Finish(newPath) /\ Show(NoBypass) /\ Record(NoBypass) /\ UNCHANGED network
        /\ record' = NoBypass /\ lost' = FALSE /\ routes' \subseteq routes
    BY <1>2 DEF Remove, Record
  <2>2. newPath \in Reports /\ (newPath.endpoint # None => newPath.peer # None)
    BY <1>1
  <2> HIDE DEF newPath
  <2>3. RecordedRouteStands'
    BY <2>1 DEF RecordedRouteStands
  <2>4. RefreshInv' /\ Show(record')
    BY <2>1, RefreshKept DEF Show
  <2> QED BY <1>1, <2>1, <2>2, <2>3, <2>4, FinishesIInv
<1>3. CASE RemoveFails
  <2> DEFINE newPath == IF op = "optimize" THEN NoReport ELSE path
  <2>1. Show(record') \/ (ShowAsBefore /\ pc # "final" /\ record' = record)
    BY <1>3 DEF RemoveFails, Show
  <2>2. /\ Finish(newPath) /\ UNCHANGED <<network, record, refresh>>
        /\ \/ UNCHANGED <<routes, lost>>
           \/ routes' \subseteq routes /\ lost' = TRUE
    BY <1>3 DEF RemoveFails
  <2>3. newPath \in Reports /\ (newPath.endpoint # None => newPath.peer # None)
    BY <1>1, NothingReported
  <2> HIDE DEF newPath
  <2>4. RecordedRouteStands'
    BY <2>2 DEF IInv, RouteInv, RecordedRouteStands, Route
  <2>5. routes' \subseteq Endpoints \X Exits /\ lost' \in BOOLEAN
    BY <1>1, <2>2
  <2>6. RefreshInv'
    BY <2>2, RefreshKept
  <2> QED BY <1>1, <2>1, <2>2, <2>3, <2>4, <2>5, <2>6, FinishesIInv
<1> QED BY <1>2, <1>3

LEMMA NextIInv == IInv /\ [Next]_vars => IInv'
<1> SUFFICES ASSUME IInv, [Next]_vars PROVE IInv'
  OBVIOUS
<1>1. CASE UNCHANGED vars
  BY <1>1 DEF vars, network, window, refresh, action, IInv, TypeOK, ReportInv, RequestInv, ShownInv,
              RouteInv, RecordedRouteStands, Route
<1>2. CASE Commands
  BY <1>2, DiagnoseIInv, AddIInv, VerifyIInv, RemoveIInv DEF Commands
<1> QED BY <1>1, <1>2, BeginIInv, WorldIInv DEF Next

-----------------------------------------------------------------------------
(* Types are kept, what is added is a real route, and what may be taken     *)
(* back is not what is on record (service.go:78-106, manager.go:445-565).   *)
THEOREM Invariant == Spec => []IInv
BY InitIInv, NextIInv, PTL DEF Spec

(* When no action is under way the window shows what the manager has on     *)
(* record, for any number of devices and endpoints and however an action,   *)
(* or the whole program, has ended, unless a refresh of the tray that an    *)
(* action had overtaken was the last to assign (direct_controller.go:146,   *)
(* 186-292).                                                                *)
THEOREM WindowIsRight == Spec => []WindowShowsTheRecord
<1>1. IInv => WindowShowsTheRecord
  BY DEF IInv, ShownInv, WindowShowsTheRecord
<1> QED BY <1>1, Invariant, PTL

(* The route on record exists until a removal has taken effect, whatever    *)
(* fails meanwhile (manager.go:466-500, service.go:78-106).                 *)
THEOREM RecordedRouteIsThere == Spec => []RecordedRouteStands
<1>1. IInv => RecordedRouteStands
  BY DEF IInv, RouteInv
<1> QED BY <1>1, Invariant, PTL
=============================================================================
