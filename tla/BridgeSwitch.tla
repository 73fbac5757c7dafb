----------------------------- MODULE BridgeSwitch -----------------------------
(***************************************************************************)
(* The switch for automatic bridges in the main window                     *)
(* (internal/ui/main_window.go).  Every thread that draws the window sets  *)
(* the switch, under a flag that keeps its callback from taking that for a *)
(* tap: the window's own callbacks, the tray's menu and the goroutine that *)
(* measures latencies (PeerWindow).  Nothing they share has a lock.        *)
(*                                                                         *)
(* The control server listens throughout, so that the switch can be        *)
(* tapped.  What the manager does with it is in BridgeControl.             *)
(***************************************************************************)
EXTENDS Naturals

CONSTANTS
    Others,     \* threads that draw beside "window", which runs the callbacks
    MaxNested,  \* bound: renders nested in the switch's callback
    Faults      \* TRUE: the manager's calls fail

VARIABLES
    bridge,     \* m.bridgeEnabled
    kept,       \* DirectController.state.LocalhostBridgeEnabled
    state,      \* the same field of the window's copy
    checked,    \* bridgeEnabledCheck.Checked
    rendering,  \* renderingBridgeCheck
    at          \* thread -> where it is, and its locals

vars == <<bridge, kept, state, checked, rendering, at>>

Threads == {"window"} \cup Others

(* A thread: its stage, what it has copied or sets the switch to, whether   *)
(* the user tapped it, and the renders that wait for its callback.          *)
Idle == [stage |-> "idle", value |-> FALSE, tapped |-> FALSE, outer |-> 0]

Init ==
    /\ bridge \in BOOLEAN
    /\ kept = bridge /\ state = bridge /\ checked = bridge
    /\ rendering = FALSE
    /\ at = [t \in Threads |-> Idle]

At(t, stage) == at[t].stage = stage
Goes(t, stage) == at' = [at EXCEPT ![t].stage = stage]

-----------------------------------------------------------------------------
(* render: the controller's state is copied, assigned, ...                  *)
Copy(t) ==
    /\ At(t, "render")
    /\ at' = [at EXCEPT ![t].stage = "assign", ![t].value = kept]
    /\ UNCHANGED <<bridge, kept, state, checked, rendering>>

Assign(t) ==
    /\ At(t, "assign")
    /\ state' = at[t].value
    /\ at' = [at EXCEPT ![t].stage = "raise", ![t].value = FALSE]
    /\ UNCHANGED <<bridge, kept, checked, rendering>>

(* ... and shown by the switch while the flag is up.                        *)
Raise(t) ==
    /\ At(t, "raise")
    /\ rendering' = TRUE
    /\ Goes(t, "check")
    /\ UNCHANGED <<bridge, kept, state, checked>>

SetChecked(t) ==
    /\ At(t, "check")
    /\ checked = state \/ rendering
    /\ checked' = state
    /\ Goes(t, "lower")
    /\ UNCHANGED <<bridge, kept, state, rendering>>

(* The callback goes on when another thread has lowered the flag meanwhile. *)
SetCheckedLoud(t) ==
    /\ At(t, "check")
    /\ checked # state /\ ~rendering
    /\ checked' = state
    /\ at' = [at EXCEPT ![t].stage = "set", ![t].value = state,
                        ![t].outer = IF @ = MaxNested THEN @ ELSE @ + 1]
    /\ UNCHANGED <<bridge, kept, state, rendering>>

(* The flag is lowered, by each of the renders that wait for a callback.    *)
Lower(t) ==
    /\ At(t, "lower")
    /\ rendering' = FALSE
    /\ at' = [at EXCEPT ![t] = IF @.outer = 0 THEN Idle ELSE [@ EXCEPT !.outer = @ - 1]]
    /\ UNCHANGED <<bridge, kept, state, checked>>

-----------------------------------------------------------------------------
(* DirectController.SetLocalhostBridgeEnabled: the manager's switch, and    *)
(* then the controller's.  An error comes after the manager's change, and   *)
(* only when there is something to close or to refresh.                     *)
SetBridge(t) ==
    /\ At(t, "set")
    /\ bridge' = at[t].value
    /\ \/ Goes(t, "keep")
       \/ Faults /\ at' = [at EXCEPT ![t].stage = "render", ![t].value = FALSE,
                                     ![t].tapped = FALSE]
    /\ UNCHANGED <<kept, state, checked, rendering>>

KeepSwitch(t) ==
    /\ At(t, "keep")
    /\ kept' = at[t].value
    /\ at' = [at EXCEPT ![t].stage = "render", ![t].value = FALSE, ![t].tapped = FALSE]
    /\ UNCHANGED <<bridge, state, checked, rendering>>

(* Refresh, which the window's and the tray's actions call: the manager's   *)
(* switch is read, and kept.                                                *)
ReadSwitch(t) ==
    /\ At(t, "idle")
    /\ at' = [at EXCEPT ![t].stage = "sync", ![t].value = bridge]
    /\ UNCHANGED <<bridge, kept, state, checked, rendering>>

SyncSwitch(t) ==
    /\ At(t, "sync")
    /\ kept' = at[t].value
    /\ at' = [at EXCEPT ![t].stage = "render", ![t].value = FALSE]
    /\ UNCHANGED <<bridge, state, checked, rendering>>

(* A tick of the goroutine, or an action that does not touch the switch.    *)
JustRender(t) ==
    /\ At(t, "idle")
    /\ Goes(t, "render")
    /\ UNCHANGED <<bridge, kept, state, checked, rendering>>

(* A tap while a thread draws is not heard.                                 *)
Tap ==
    /\ At("window", "idle")
    /\ checked' = ~checked
    /\ at' = IF rendering THEN at
             ELSE [at EXCEPT !["window"].stage = "set", !["window"].value = ~checked,
                             !["window"].tapped = TRUE]
    /\ UNCHANGED <<bridge, kept, state, rendering>>

Next ==
    \/ \E t \in Threads :
          \/ Copy(t) \/ Assign(t) \/ Raise(t) \/ SetChecked(t) \/ SetCheckedLoud(t) \/ Lower(t)
          \/ SetBridge(t) \/ KeepSwitch(t) \/ ReadSwitch(t) \/ SyncSwitch(t) \/ JustRender(t)
    \/ Tap

Spec == Init /\ [][Next]_vars

-----------------------------------------------------------------------------
(* Bridging that is paused stays so until the user taps the switch: drawing *)
(* the window does not count as a tap (main_window.go:124-131, 278-280).    *)
PauseStands ==
    [][bridge' /\ ~bridge => At("window", "set") /\ at["window"].tapped]_vars
=============================================================================
