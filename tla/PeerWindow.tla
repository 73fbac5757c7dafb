------------------------------ MODULE PeerWindow ------------------------------
(***************************************************************************)
(* The list of trusted devices in the main window                          *)
(* (internal/ui/main_window.go), and the goroutine that measures latencies *)
(* every half second and draws the window again.  The window's callbacks   *)
(* run one after the other, the tray's menu beside them, and the goroutine *)
(* beside both; the window's variables and DirectController.state, which   *)
(* they all use, have no lock.                                             *)
(*                                                                         *)
(* Latencies and labels are only displayed and are left out; the switch    *)
(* for bridges is in BridgeSwitch.  What one render assigns is one step.   *)
(***************************************************************************)
CONSTANTS
    Devices,     \* devices that may be trusted
    Refreshers,  \* goroutines of startPeerLatencyRefresh
    None,        \* no device, no goroutine
    Faults       \* TRUE: commands and files fail

ASSUME NoneAssumption == None \notin Devices \cup Refreshers
ASSUME ThreadsAssumption == {"window", "tray"} \cap Refreshers = {}

VARIABLES
    stored,     \* the manager's trusted devices
    kept,       \* DirectController.state.Peers
    listed,     \* the window's copy, state.Peers
    selected,   \* selectedPeerID
    explicit,   \* hasExplicitPeerSelection
    dialog,     \* the device the open confirmation names, or None
    shown,      \* the window is visible
    cancel,     \* peerLatencyRefreshControl.cancel: whose context, or None
    cancelled,  \* goroutines whose context is over
    at          \* thread -> where it is, the list it has read, the device it removes

vars == <<stored, kept, listed, selected, explicit, dialog, shown, cancel, cancelled, at>>

Threads == {"window", "tray"} \cup Refreshers

Place(stage) == [stage |-> stage, peers |-> {}, target |-> None]
Reading(stage, peers) == [stage |-> stage, peers |-> peers, target |-> None]
Removing(d) == [stage |-> "remove", peers |-> {}, target |-> d]

(* reconcileSelectedPeer: what is no longer listed is not selected, and     *)
(* without a selection the first device is, though not by the user.         *)
First(peers) == IF peers = {} THEN None ELSE CHOOSE d \in peers : TRUE

Reconcile(peers) ==
    /\ selected' = IF selected \in peers THEN selected ELSE First(peers)
    /\ explicit' = (explicit /\ (selected \in peers \/ selected = None))

CanRemove == explicit /\ selected \in listed

(* The window has just been built.                                          *)
Init ==
    /\ stored \in SUBSET Devices
    /\ kept = {} /\ listed = {}
    /\ selected = None /\ explicit = FALSE /\ dialog = None
    /\ shown = TRUE
    /\ cancel \in Refreshers
    /\ cancelled = {}
    /\ at = [t \in Threads |-> Place(IF t = cancel THEN "wait" ELSE "idle")]

At(t, stage) == at[t].stage = stage
Goes(t, stage) == at' = [at EXCEPT ![t] = Place(stage)]
Reads(t, stage, peers) == at' = [at EXCEPT ![t] = Reading(stage, peers)]

list == <<listed, selected, explicit>>
refresh == <<shown, cancel, cancelled>>
-----------------------------------------------------------------------------
(* render: the controller's list is copied, ...                             *)
Copy(t) ==
    /\ At(t, "render")
    /\ Reads(t, "draw", kept)
    /\ UNCHANGED <<stored, kept, list, dialog, refresh>>

(* ... drawn, and the selection reconciled with it.                         *)
Draw(t) ==
    /\ At(t, "draw")
    /\ listed' = at[t].peers
    /\ Reconcile(at[t].peers)
    /\ at' = [at EXCEPT ![t] = Place(IF t \in Refreshers THEN "wait" ELSE "idle")]
    /\ UNCHANGED <<stored, kept, dialog, refresh>>

(* DirectController.Refresh: the devices are read, and kept afterwards.     *)
ReadPeers(t) ==
    /\ At(t, "refresh")
    /\ \/ Reads(t, "keep", stored)
       \/ Faults /\ Goes(t, "render")
    /\ UNCHANGED <<stored, kept, list, dialog, refresh>>

KeepPeers(t) ==
    /\ At(t, "keep")
    /\ kept' = at[t].peers
    /\ Goes(t, "render")
    /\ UNCHANGED <<stored, list, dialog, refresh>>

(* RemoveTrustedPeer (PeerTrust has its steps).                             *)
RemovePeer ==
    /\ At("window", "remove")
    /\ \/ stored' = stored \ {at["window"].target} /\ Goes("window", "refresh")
       \/ Faults /\ UNCHANGED stored /\ Goes("window", "render")
    /\ UNCHANGED <<kept, list, dialog, refresh>>

-----------------------------------------------------------------------------
(* The user at the window, between two callbacks; a confirmation that is    *)
(* open covers the rest of the window.                                      *)
Free == shown /\ At("window", "idle") /\ dialog = None

Select(d) ==
    /\ Free
    /\ d \in listed
    /\ selected' = d
    /\ explicit' = TRUE
    /\ Goes("window", "render")
    /\ UNCHANGED <<stored, kept, listed, dialog, refresh>>

(* The device is taken when the button is pressed, and confirmed later.     *)
AskToRemove ==
    /\ Free
    /\ CanRemove
    /\ dialog' = selected
    /\ UNCHANGED <<stored, kept, list, refresh, at>>

Removes(d) == at' = [at EXCEPT !["window"] = Removing(d)]

Confirm ==
    /\ shown /\ At("window", "idle") /\ dialog # None
    /\ dialog' = None
    /\ Removes(dialog)
    /\ UNCHANGED <<stored, kept, list, refresh>>

Dismiss ==
    /\ shown /\ At("window", "idle") /\ dialog # None
    /\ dialog' = None
    /\ UNCHANGED <<stored, kept, list, refresh, at>>

(* An action that reads the devices anew, or that does not.                 *)
Press ==
    /\ Free
    /\ Goes("window", "refresh") \/ Goes("window", "render")
    /\ UNCHANGED <<stored, kept, list, dialog, refresh>>

(* Mutant: the cancel function is not asked for being nil.                  *)
StopUnchecked ==
    /\ shown /\ At("window", "idle")
    /\ cancel' = None
    /\ cancelled' = cancelled \cup {cancel}
    /\ shown' = FALSE
    /\ UNCHANGED <<stored, kept, list, dialog, at>>

(* The window is closed: the refresh is stopped, and the window hidden.     *)
StopRefresh ==
    /\ shown /\ At("window", "idle")
    /\ cancel' = None
    /\ cancelled' = cancelled \cup ({cancel} \ {None})
    /\ shown' = FALSE
    /\ UNCHANGED <<stored, kept, list, dialog, at>>

(* The tray's menu.                                                         *)
TrayRefresh ==
    /\ At("tray", "idle")
    /\ Goes("tray", "refresh")
    /\ UNCHANGED <<stored, kept, list, dialog, refresh>>

Show ==
    /\ At("tray", "idle")
    /\ shown' = TRUE
    /\ Goes("tray", "start")
    /\ UNCHANGED <<stored, kept, list, dialog, cancel, cancelled>>

Launch(r) ==
    /\ At(r, "idle")
    /\ cancel' = r
    /\ at' = [at EXCEPT !["tray"] = Place("render"), ![r] = Place("wait")]

(* Mutant: whether or not one is running.                                   *)
StartAnother ==
    /\ At("tray", "start")
    /\ \E r \in Refreshers : Launch(r)
    /\ UNCHANGED <<stored, kept, list, dialog, shown, cancelled>>

(* peerLatencyRefreshControl.Start launches a goroutine unless one runs.    *)
StartRefresh ==
    /\ At("tray", "start")
    /\ \/ cancel # None /\ UNCHANGED cancel /\ Goes("tray", "render")
       \/ cancel = None /\ \E r \in Refreshers : Launch(r)
    /\ UNCHANGED <<stored, kept, list, dialog, shown, cancelled>>

-----------------------------------------------------------------------------
(* Mutant: the tick draws only while the window is hidden.                  *)
TickHidden(r) ==
    /\ At(r, "wait")
    /\ ~shown
    /\ Goes(r, "render")
    /\ UNCHANGED <<stored, kept, list, dialog, refresh>>

(* A tick measures and draws; a cancelled goroutine may still take one.     *)
Tick(r) ==
    /\ At(r, "wait")
    /\ Goes(r, "render")
    /\ UNCHANGED <<stored, kept, list, dialog, refresh>>

(* Mutant: the goroutine looks at its context only while nothing is shown.  *)
ExitWhenHidden(r) ==
    /\ r \in cancelled /\ At(r, "wait") /\ ~shown
    /\ cancelled' = cancelled \ {r}
    /\ Goes(r, "idle")
    /\ UNCHANGED <<stored, kept, list, dialog, shown, cancel>>

Exit(r) ==
    /\ r \in cancelled /\ At(r, "wait")
    /\ cancelled' = cancelled \ {r}
    /\ Goes(r, "idle")
    /\ UNCHANGED <<stored, kept, list, dialog, shown, cancel>>

(* A device pairs with this one (PeerTrust).                                *)
Trust(d) ==
    /\ d \notin stored
    /\ stored' = stored \cup {d}
    /\ UNCHANGED <<kept, list, dialog, refresh, at>>

Acts(t) == Copy(t) \/ Draw(t) \/ ReadPeers(t) \/ KeepPeers(t)

Next ==
    \/ \E t \in Threads : Acts(t)
    \/ RemovePeer \/ StartRefresh
    \/ \E r \in Refreshers : Tick(r) \/ Exit(r)
    \/ AskToRemove \/ Confirm \/ Dismiss \/ Press \/ StopRefresh
    \/ TrayRefresh \/ Show
    \/ \E d \in Devices : Select(d) \/ Trust(d)

Spec == Init /\ [][Next]_vars

(* Threads are scheduled and calls return; a select between a done context  *)
(* and a ticker does not take the tick for ever.                            *)
Fairness ==
    /\ WF_vars(Acts("window") \/ RemovePeer)
    /\ WF_vars(Acts("tray") \/ StartRefresh)
    /\ \A r \in Refreshers : WF_vars(Acts(r) \/ Tick(r)) /\ SF_vars(Exit(r))

FairSpec == Spec /\ Fairness

-----------------------------------------------------------------------------
Stages == {"idle", "wait", "render", "draw", "refresh", "keep", "remove", "start"}

TypeOK ==
    /\ stored \in SUBSET Devices /\ kept \in SUBSET Devices /\ listed \in SUBSET Devices
    /\ selected \in Devices \cup {None} /\ explicit \in BOOLEAN
    /\ dialog \in Devices \cup {None} /\ shown \in BOOLEAN
    /\ cancel \in Refreshers \cup {None} /\ cancelled \in SUBSET Refreshers
    /\ at \in [Threads -> [stage : Stages, peers : SUBSET Devices,
                           target : Devices \cup {None}]]

(* No goroutine runs that Stop could not end, whatever the window and the   *)
(* tray do at once: what runs is the one whose context is kept, or its      *)
(* context is over (main_window.go:412-439).                                *)
OneRefresher ==
    \A r \in Refreshers : ~At(r, "idle") => cancel = r \/ r \in cancelled

(* A goroutine whose context is over ends (main_window.go:448-460).         *)
RefresherEnds == \A r \in Refreshers : r \in cancelled ~> r \notin cancelled

(* While the refresh goes on, a stale copy that one thread has drawn over   *)
(* another's is replaced (main_window.go:254, 394-397).                     *)
WindowCatchesUp ==
    <>[][FALSE]_kept /\ <>[](cancel # None) => <>[](listed = kept)
=============================================================================
