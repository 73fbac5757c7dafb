----------------------------- MODULE ClashEgress -----------------------------
(***************************************************************************)
(* Choosing the exit node of a proxy (internal/clash/discovery.go): the    *)
(* window asks the service for the nodes, applies one to a group, verifies *)
(* the path to a device with it, and goes back to the node before when the *)
(* path is not direct; a button restores it later.  The proxy is a program *)
(* of its own, whose user and whose tests change the selection too.        *)
(*                                                                         *)
(* The window runs one action at a time, on a context of thirty seconds.   *)
(* Delays, regions and the order of the nodes are left out, and so are the *)
(* ports and adapters a report lists: they are only displayed.             *)
(***************************************************************************)
CONSTANTS
    Groups,     \* groups of the proxy in which a node is selected
    Nodes,      \* nodes, each an option of every group
    Endpoints,  \* control interfaces, with their secrets
    None,       \* no node, no interface, no report
    Faults      \* TRUE: requests fail, answers get lost, the context ends

ASSUME NoneAssumption == None \notin Nodes \cup Groups \cup Endpoints

VARIABLES
    now,        \* the proxy: group -> selected node
    endpoint,   \* where the proxy listens, which is what its configuration says
    client,     \* s.client: the interface found first, or None
    slot,       \* s.previousGroup and s.previousNode
    report,     \* the window's report: group -> current node, or None
    result,     \* the window's ClashApplyResult
    action,     \* the action of the window that is under way, or the last one
    switch      \* history: the last node an apply replaced

vars == <<now, endpoint, client, slot, report, result, action, switch>>

Selection == [Groups -> Nodes]

NoSlot == [group |-> None, node |-> None]
NoResult == [node |-> None, improved |-> FALSE, restored |-> FALSE]

(* An action: where it is, the group and node it selects, the node that was *)
(* current in the report, and the report it has read.  Its history: the     *)
(* node it replaced (before), and whether nothing came in between (clean):  *)
(* no failure, and nobody else's change to the group.                       *)
Idle == [stage |-> "idle", group |-> None, node |-> None, previous |-> None,
         seen |-> None, expired |-> FALSE, before |-> None, clean |-> TRUE]

Resting == action.stage \in {"idle", "failed", "applied", "restored"}

Init ==
    /\ now \in Selection
    /\ endpoint \in Endpoints
    /\ client = None
    /\ slot = NoSlot
    /\ report = None
    /\ result = NoResult
    /\ action = Idle
    /\ switch = [group |-> None, before |-> None, known |-> FALSE]

(* A request is answered when the client is that of the running interface   *)
(* and the context is not over.                                             *)
Answered == client = endpoint /\ ~action.expired

proxy == <<now, endpoint>>
window == <<report, result>>
-----------------------------------------------------------------------------
(* Discover: the interface the configuration names is kept once found.      *)
Discovered == IF client = None THEN endpoint ELSE client

(* DetectClash: the report it leaves in the window lists no nodes.          *)
Detect ==
    /\ Resting
    /\ client' = Discovered
    /\ report' = None
    /\ action' = Idle
    /\ UNCHANGED <<proxy, slot, result, switch>>

(* RefreshClashNodes: the proxy is asked for its selection, and then for    *)
(* the delay of every node, ...                                             *)
Refresh ==
    /\ Resting
    /\ client' = Discovered
    /\ action' = IF Discovered = endpoint THEN [Idle EXCEPT !.stage = "delays", !.seen = now]
                                          ELSE Idle
    /\ UNCHANGED <<proxy, slot, window, switch>>

(* ... and the window gets the report afterwards.                           *)
ShowNodes ==
    /\ action.stage = "delays"
    /\ report' = action.seen
    /\ action' = Idle
    /\ UNCHANGED <<proxy, client, slot, result, switch>>

(* Nothing is found, or the proxy does not answer: the report stays.        *)
RefreshFails ==
    /\ Faults
    /\ Resting
    /\ client' \in {client, Discovered}
    /\ action' = Idle
    /\ UNCHANGED <<proxy, slot, window, switch>>

-----------------------------------------------------------------------------
(* ApplyClashNode: the node that was current in the report is the one to    *)
(* come back to.                                                            *)
Apply(g, n) ==
    /\ Resting
    /\ report # None
    /\ action' = [Idle EXCEPT !.stage = "select", !.group = g, !.node = n,
                              !.previous = report[g]]
    /\ UNCHANGED <<proxy, client, slot, window, switch>>

(* The outcome of an action: the window's result, and where it rests.       *)
Ends(stage, r, clean) ==
    /\ result' = r
    /\ action' = [action EXCEPT !.stage = stage, !.clean = clean]

(* History: the node that is replaced, and whether it is the one on record. *)
Replaces(known) ==
    /\ action' = [action EXCEPT !.stage = "verify", !.before = now[action.group],
                                !.clean = @ /\ known]
    /\ switch' = [group |-> action.group, before |-> now[action.group], known |-> known]

(* Mutant: the slot keeps the first node it was given.                      *)
SelectKeepingSlot ==
    /\ action.stage = "select"
    /\ Answered
    /\ now' = [now EXCEPT ![action.group] = action.node]
    /\ slot' = IF slot = NoSlot THEN [group |-> action.group, node |-> action.previous] ELSE slot
    /\ Replaces(action.previous = now[action.group])
    /\ UNCHANGED <<endpoint, client, window>>

(* Select succeeds, and the slot is filled.                                 *)
Select ==
    /\ action.stage = "select"
    /\ Answered
    /\ now' = [now EXCEPT ![action.group] = action.node]
    /\ slot' = [group |-> action.group, node |-> action.previous]
    /\ Replaces(action.previous = now[action.group])
    /\ UNCHANGED <<endpoint, client, window>>

(* Select returns an error: the action ends with an empty result.  The      *)
(* proxy may have switched all the same when only its answer was lost.      *)
SelectFails ==
    /\ action.stage = "select"
    /\ Faults \/ ~Answered
    /\ UNCHANGED <<endpoint, client, slot, report>>
    /\ \/ /\ Ends("failed", NoResult, FALSE)
          /\ UNCHANGED <<now, switch>>
       \/ /\ Faults /\ Answered
          /\ now' = [now EXCEPT ![action.group] = action.node]
          /\ switch' = [group |-> action.group, before |-> now[action.group], known |-> FALSE]
          /\ Ends("failed", NoResult, FALSE)

(* The path to the device is direct, or it is not or cannot be told.        *)
Direct ==
    /\ action.stage = "verify"
    /\ ~action.expired
    /\ Ends("applied", [node |-> action.node, improved |-> TRUE, restored |-> FALSE],
            action.clean)
    /\ UNCHANGED <<proxy, client, slot, report, switch>>

(* Mutant: only a ping that fails leads back, not a path that is relayed.   *)
KeepRelayed ==
    /\ action.stage = "verify"
    /\ \/ action' = [action EXCEPT !.stage = "undo"] /\ UNCHANGED result
       \/ Ends("failed", [node |-> action.node, improved |-> FALSE, restored |-> TRUE],
               action.clean)
    /\ UNCHANGED <<proxy, client, slot, report, switch>>

NotDirect ==
    /\ action.stage = "verify"
    /\ action' = [action EXCEPT !.stage = "undo"]
    /\ UNCHANGED <<proxy, client, slot, window, switch>>

(* restorePreviousBestEffort, on the same context: its error is dropped,    *)
(* and the result says that the node before was restored (a report marks a  *)
(* current node in every group, so there is one).                           *)
Undo ==
    /\ action.stage = "undo"
    /\ \/ /\ Answered
          /\ now' = [now EXCEPT ![slot.group] = slot.node]
          /\ Ends("failed", [node |-> action.node, improved |-> FALSE, restored |-> TRUE],
                  action.clean)
       \/ /\ Faults \/ ~Answered
          /\ UNCHANGED now
          /\ Ends("failed", [node |-> action.node, improved |-> FALSE, restored |-> TRUE], FALSE)
    /\ UNCHANGED <<endpoint, client, slot, report, switch>>

-----------------------------------------------------------------------------
(* Mutant: without asking whether there is a slot.                          *)
RestoreAnything ==
    /\ Resting
    /\ action' = [Idle EXCEPT !.stage = "restore", !.group = slot.group, !.node = slot.node]
    /\ UNCHANGED <<proxy, client, slot, window, switch>>

(* RestoreClashNode: to the slot's node, which stays there, as the result   *)
(* of the last apply stays in the window.                                   *)
Restore ==
    /\ Resting
    /\ slot # NoSlot
    /\ action' = [Idle EXCEPT !.stage = "restore", !.group = slot.group, !.node = slot.node]
    /\ UNCHANGED <<proxy, client, slot, window, switch>>

(* Without a slot to restore, the service may still look for the proxy.     *)
RestoreNothing ==
    /\ Resting
    /\ slot = NoSlot
    /\ client' \in {client, Discovered}
    /\ action' = Idle
    /\ UNCHANGED <<proxy, slot, window, switch>>

SelectPrevious ==
    /\ action.stage = "restore"
    /\ \/ /\ Answered
          /\ now' = [now EXCEPT ![slot.group] = slot.node]
          /\ action' = [action EXCEPT !.stage = "restored"]
       \/ /\ Faults \/ ~Answered
          /\ UNCHANGED now
          /\ action' = Idle
    /\ UNCHANGED <<endpoint, client, slot, window, switch>>

-----------------------------------------------------------------------------
(* The proxy's own window, or its tests, select a node.                     *)
Outside(g, n) ==
    /\ n # now[g]
    /\ now' = [now EXCEPT ![g] = n]
    /\ action' = IF g = action.group THEN [action EXCEPT !.clean = FALSE] ELSE action
    /\ UNCHANGED <<endpoint, client, slot, window, switch>>

(* The proxy starts again with another control interface or secret.         *)
Restart(e) ==
    /\ e # endpoint
    /\ endpoint' = e
    /\ UNCHANGED <<now, client, slot, window, action, switch>>

(* The thirty seconds are over.                                             *)
Expire ==
    /\ Faults
    /\ action.stage \in {"select", "verify", "undo", "restore"}
    /\ ~action.expired
    /\ action' = [action EXCEPT !.expired = TRUE]
    /\ UNCHANGED <<proxy, client, slot, window, switch>>

Steps == ShowNodes \/ Select \/ SelectFails \/ Direct \/ NotDirect \/ Undo \/ SelectPrevious

Next ==
    \/ Steps
    \/ Detect \/ Refresh \/ RefreshFails
    \/ \E g \in Groups, n \in Nodes : Apply(g, n) \/ Outside(g, n)
    \/ Restore \/ RestoreNothing
    \/ \E e \in Endpoints : Restart(e)
    \/ Expire

Spec == Init /\ [][Next]_vars

-----------------------------------------------------------------------------
Busy == {"select", "verify", "undo", "restore"}

Actions ==
    [stage : Busy \cup {"idle", "delays", "failed", "applied", "restored"},
     group : Groups \cup {None}, node : Nodes \cup {None},
     previous : Nodes \cup {None}, seen : Selection \cup {None},
     expired : BOOLEAN, before : Nodes \cup {None}, clean : BOOLEAN]

TypeOK ==
    /\ now \in Selection
    /\ endpoint \in Endpoints
    /\ client \in Endpoints \cup {None}
    /\ slot \in [group : Groups, node : Nodes] \cup {NoSlot}
    /\ report \in Selection \cup {None}
    /\ result \in [node : Nodes \cup {None}, improved : BOOLEAN, restored : BOOLEAN]
    /\ action \in Actions
    /\ action.stage \notin {"idle", "delays"} => action.group \in Groups /\ action.node \in Nodes
    /\ action.stage = "select" => action.previous \in Nodes
    /\ switch \in [group : Groups \cup {None}, before : Nodes \cup {None}, known : BOOLEAN]

(* An apply that fails leaves nothing behind: when it reports that the node *)
(* before was restored, and no request failed and nobody else changed the   *)
(* group since the report, the group has the node it had (discovery.go:     *)
(* 89-113, 191-196).                                                        *)
FailedApplyUndone ==
    action.stage = "failed" /\ result.restored /\ action.clean =>
        now[action.group] = action.before

(* Restoring goes back one switch: to the node the last apply replaced, if  *)
(* the report it was chosen from was current and its answer arrived         *)
(* (direct_controller.go:338-343, discovery.go:92-93, 123-126).             *)
RestoreGoesBack ==
    action.stage = "restored" /\ action.clean /\ switch.known =>
        now[switch.group] = switch.before

(* An action switches no group but the one it is about, even when it goes   *)
(* back to a node that was kept before (discovery.go:89-113, 191-196).      *)
OnlyTheChosenGroup ==
    [][action' # action => \A g \in Groups : now'[g] # now[g] => g = action.group]_vars

-----------------------------------------------------------------------------
(* Why: from the switch on the slot names the group of the action and the   *)
(* node it is to come back to, and what it names after an apply that knew   *)
(* what it replaced is that.                                                *)
SlotInv ==
    /\ action.stage \in {"verify", "undo"} =>
          /\ slot = [group |-> action.group, node |-> action.previous]
          /\ action.clean => action.before = action.previous
    /\ action.stage \in {"restore", "restored"} => slot # NoSlot /\ slot.group = action.group
    /\ switch.known => slot = [group |-> switch.group, node |-> switch.before]

IInv == TypeOK /\ SlotInv /\ FailedApplyUndone /\ RestoreGoesBack
=============================================================================
