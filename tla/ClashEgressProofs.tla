-------------------------- MODULE ClashEgressProofs --------------------------
(***************************************************************************)
(* For any groups, nodes and control interfaces, with every failure and    *)
(* every change from outside: an apply that fails cleanly leaves its group *)
(* as it was, restoring goes back one switch, and no action touches a      *)
(* group it is not about.                                                  *)
(***************************************************************************)
EXTENDS ClashEgress, TLAPS

USE NoneAssumption

LEMMA InitIInv == Init => IInv
BY DEF Init, IInv, TypeOK, SlotInv, FailedApplyUndone, RestoreGoesBack, Idle, NoSlot, NoResult,
       Actions, Busy

(* A group's node replaced by another.                                      *)
LEMMA Replaced ==
    ASSUME NEW s \in Selection, NEW g \in Groups, NEW n \in Nodes
    PROVE  /\ [s EXCEPT ![g] = n] \in Selection
           /\ [s EXCEPT ![g] = n][g] = n
           /\ \A h \in Groups : h # g => [s EXCEPT ![g] = n][h] = s[h]
BY DEF Selection

(* The window has no action under way, and the slot is as it was.           *)
LEMMA IdleIInv ==
    ASSUME IInv, action' = Idle, now' \in Selection, UNCHANGED <<endpoint, slot, result, switch>>,
           client' \in Endpoints \cup {None}, report' \in Selection \cup {None}
    PROVE  IInv'
<1>1. TypeOK'
  BY DEF IInv, TypeOK, Actions, Idle, Busy
<1>2. SlotInv' /\ FailedApplyUndone' /\ RestoreGoesBack'
  BY DEF IInv, SlotInv, FailedApplyUndone, RestoreGoesBack, Idle
<1> QED BY <1>1, <1>2 DEF IInv

-----------------------------------------------------------------------------
(* Looking for the proxy and reading its nodes.                             *)
LEMMA ReportIInv ==
    ASSUME IInv, Detect \/ Refresh \/ ShowNodes \/ RefreshFails \/ RestoreNothing
    PROVE  IInv'
<1>0. /\ Discovered \in Endpoints \cup {None}
      /\ now \in Selection
      /\ client \in Endpoints \cup {None}
      /\ report \in Selection \cup {None}
      /\ action.seen \in Selection \cup {None}
  BY DEF IInv, TypeOK, Actions, Discovered
<1>1. CASE Detect
  BY <1>0, <1>1, IdleIInv DEF Detect, proxy
<1>2. CASE Refresh
  <2>1. CASE action' = Idle
    BY <1>0, <1>2, <2>1, IdleIInv DEF Refresh, proxy, window
  <2>2. CASE action' = [Idle EXCEPT !.stage = "delays", !.seen = now]
    <3>1. TypeOK'
      BY <1>0, <1>2, <2>2 DEF Refresh, proxy, window, IInv, TypeOK, Actions, Idle, Busy
    <3>2. SlotInv' /\ FailedApplyUndone' /\ RestoreGoesBack'
      BY <1>2, <2>2 DEF Refresh, proxy, window, IInv, SlotInv, FailedApplyUndone,
         RestoreGoesBack, Idle
    <3> QED BY <3>1, <3>2 DEF IInv
  <2> QED BY <1>2, <2>1, <2>2 DEF Refresh
<1>3. CASE ShowNodes
  BY <1>0, <1>3, IdleIInv DEF ShowNodes, proxy
<1>4. CASE RefreshFails
  BY <1>0, <1>4, IdleIInv DEF RefreshFails, proxy, window
<1>5. CASE RestoreNothing
  BY <1>0, <1>5, IdleIInv DEF RestoreNothing, proxy, window
<1> QED BY <1>1, <1>2, <1>3, <1>4, <1>5

(* Applying a node.                                                         *)
LEMMA ApplyIInv ==
    ASSUME IInv,
           (\E g \in Groups, n \in Nodes : Apply(g, n)) \/ Select \/ SelectFails \/ Direct
               \/ NotDirect \/ Undo
    PROVE  IInv'
<1>1. ASSUME NEW g \in Groups, NEW n \in Nodes, Apply(g, n) PROVE IInv'
  <2>1. report[g] \in Nodes
    BY <1>1 DEF Apply, Selection, IInv, TypeOK
  <2>2. TypeOK'
    BY <1>1, <2>1 DEF Apply, Idle, proxy, window, IInv, TypeOK, Actions, Busy
  <2>3. SlotInv' /\ FailedApplyUndone' /\ RestoreGoesBack'
    BY <1>1 DEF Apply, Idle, proxy, window, IInv, SlotInv, FailedApplyUndone, RestoreGoesBack
  <2> QED BY <2>2, <2>3 DEF IInv
<1>2. CASE Select
  <2>1. action.group \in Groups /\ action.node \in Nodes /\ now[action.group] \in Nodes
    BY <1>2 DEF Select, Selection, IInv, TypeOK, Actions, Busy
  <2>2. now' \in Selection
    BY <1>2, <2>1, Replaced DEF Select, IInv, TypeOK
  <2>3. /\ slot' = [group |-> action.group, node |-> action.previous]
        /\ UNCHANGED <<endpoint, client, report, result>>
        /\ action' = [action EXCEPT !.stage = "verify", !.before = now[action.group],
                                     !.clean = @ /\ action.previous = now[action.group]]
        /\ switch' = [group |-> action.group, before |-> now[action.group],
                      known |-> action.previous = now[action.group]]
    BY <1>2 DEF Select, Replaces, window
  <2>4. action.previous \in Nodes
    BY <1>2 DEF Select, IInv, TypeOK
  <2>5. TypeOK'
    BY <2>1, <2>2, <2>3, <2>4 DEF IInv, TypeOK, Actions, Busy
  <2>6. SlotInv' /\ FailedApplyUndone' /\ RestoreGoesBack'
    BY <2>3 DEF IInv, TypeOK, Actions, SlotInv, FailedApplyUndone, RestoreGoesBack
  <2> QED BY <2>5, <2>6 DEF IInv
<1>3. CASE SelectFails
  <2>1. action.group \in Groups /\ action.node \in Nodes /\ now[action.group] \in Nodes
    BY <1>3 DEF SelectFails, Selection, IInv, TypeOK, Actions, Busy
  <2>2. now' \in Selection
    <3>1. now \in Selection /\ [now EXCEPT ![action.group] = action.node] \in Selection
      BY <2>1, Replaced DEF IInv, TypeOK
    <3> QED BY <1>3, <3>1 DEF SelectFails
  <2>3. /\ action' = [action EXCEPT !.stage = "failed", !.clean = FALSE]
        /\ result' = NoResult
        /\ UNCHANGED <<endpoint, client, slot, report>>
        /\ \/ UNCHANGED switch
           \/ switch' = [group |-> action.group, before |-> now[action.group], known |-> FALSE]
    BY <1>3 DEF SelectFails, Ends
  <2>4. TypeOK'
    <3>1. action' \in Actions
      BY <2>3 DEF IInv, TypeOK, Actions, Busy
    <3>2. /\ action'.stage = "failed" /\ action'.group = action.group
          /\ action'.node = action.node
      BY <2>3 DEF IInv, TypeOK, Actions
    <3>3. switch' \in [group : Groups \cup {None}, before : Nodes \cup {None}, known : BOOLEAN]
      <4>1. CASE UNCHANGED switch
        BY <4>1 DEF IInv, TypeOK
      <4>2. CASE switch' = [group |-> action.group, before |-> now[action.group], known |-> FALSE]
        BY <2>1, <4>2
      <4> QED BY <2>3, <4>1, <4>2
    <3> QED BY <2>1, <2>2, <2>3, <3>1, <3>2, <3>3 DEF IInv, TypeOK, NoResult
  <2>5. SlotInv' /\ FailedApplyUndone' /\ RestoreGoesBack'
    BY <2>3 DEF IInv, TypeOK, Actions, SlotInv, FailedApplyUndone, RestoreGoesBack, NoResult
  <2> QED BY <2>4, <2>5 DEF IInv
<1>4. CASE Direct
  <2>1. action.node \in Nodes
    BY <1>4 DEF Direct, IInv, TypeOK, Actions, Busy
  <2>2. /\ action' = [action EXCEPT !.stage = "applied", !.clean = action.clean]
        /\ result' = [node |-> action.node, improved |-> TRUE, restored |-> FALSE]
        /\ UNCHANGED <<now, endpoint, client, slot, report, switch>>
    BY <1>4 DEF Direct, Ends, proxy
  <2>3. TypeOK'
    <3>1. action' \in Actions
      BY <2>2 DEF IInv, TypeOK, Actions, Busy
    <3>2. /\ action'.stage = "applied" /\ action'.group = action.group
          /\ action'.node = action.node
      BY <2>2 DEF IInv, TypeOK, Actions
    <3>3. action.stage = "verify"
      BY <1>4 DEF Direct
    <3> QED BY <2>1, <2>2, <3>1, <3>2, <3>3 DEF IInv, TypeOK
  <2>4. SlotInv' /\ FailedApplyUndone' /\ RestoreGoesBack'
    BY <2>2 DEF IInv, TypeOK, Actions, SlotInv, FailedApplyUndone, RestoreGoesBack
  <2> QED BY <2>3, <2>4 DEF IInv
<1>5. CASE NotDirect
  <2>1. /\ action.stage = "verify"
        /\ action' = [action EXCEPT !.stage = "undo"]
        /\ UNCHANGED <<now, endpoint, client, slot, report, result, switch>>
    BY <1>5 DEF NotDirect, proxy, window
  <2>2. TypeOK'
    BY <2>1 DEF IInv, TypeOK, Actions, Busy
  <2>3. SlotInv' /\ FailedApplyUndone' /\ RestoreGoesBack'
    BY <2>1 DEF IInv, TypeOK, Actions, SlotInv, FailedApplyUndone, RestoreGoesBack
  <2> QED BY <2>2, <2>3 DEF IInv
<1>6. CASE Undo
  <2>1. /\ action.group \in Groups /\ slot.group = action.group
        /\ slot.node = action.previous /\ slot.node \in Nodes /\ action.node \in Nodes
        /\ action.clean => action.before = slot.node
    BY <1>6 DEF Undo, NoSlot, IInv, TypeOK, SlotInv, Busy
  <2>2. /\ UNCHANGED <<endpoint, client, slot, report, switch>>
        /\ result' = [node |-> action.node, improved |-> FALSE, restored |-> TRUE]
    BY <1>6 DEF Undo, Ends
  <2>3. CASE /\ now' = [now EXCEPT ![slot.group] = slot.node]
             /\ action' = [action EXCEPT !.stage = "failed", !.clean = action.clean]
    <3>1. now' \in Selection /\ now'[action.group] = slot.node
      <4>1. now \in Selection
        BY DEF IInv, TypeOK
      <4> QED BY <2>1, <2>3, <4>1 DEF Selection
    <3>2. TypeOK'
      BY <2>1, <2>2, <2>3, <3>1 DEF IInv, TypeOK, Actions, Busy
    <3>3. SlotInv' /\ FailedApplyUndone' /\ RestoreGoesBack'
      BY <2>1, <2>2, <2>3, <3>1 DEF IInv, TypeOK, Actions, SlotInv, FailedApplyUndone, RestoreGoesBack
    <3> QED BY <3>2, <3>3 DEF IInv
  <2>4. CASE /\ now' = now
             /\ action' = [action EXCEPT !.stage = "failed", !.clean = FALSE]
    <3>1. TypeOK'
      BY <2>1, <2>2, <2>4 DEF IInv, TypeOK, Actions, Busy
    <3>2. SlotInv' /\ FailedApplyUndone' /\ RestoreGoesBack'
      BY <2>2, <2>4 DEF IInv, TypeOK, Actions, SlotInv, FailedApplyUndone, RestoreGoesBack
    <3> QED BY <3>1, <3>2 DEF IInv
  <2> QED BY <1>6, <2>3, <2>4 DEF Undo, Ends
<1> QED BY <1>1, <1>2, <1>3, <1>4, <1>5, <1>6

(* Restoring a node.                                                        *)
LEMMA RestoreIInv ==
    ASSUME IInv, Restore \/ SelectPrevious
    PROVE  IInv'
<1>1. CASE Restore
  <2>1. slot \in [group : Groups, node : Nodes]
    BY <1>1 DEF Restore, IInv, TypeOK
  <2>2. /\ action' = [Idle EXCEPT !.stage = "restore", !.group = slot.group, !.node = slot.node]
        /\ slot # NoSlot
        /\ UNCHANGED <<now, endpoint, client, slot, report, result, switch>>
    BY <1>1 DEF Restore, proxy, window
  <2>3. TypeOK'
    <3>1. action' \in Actions
      BY <2>1, <2>2 DEF Actions, Idle, Busy
    <3>2. action'.stage = "restore" /\ action'.group = slot.group /\ action'.node = slot.node
      BY <2>2 DEF Idle
    <3> QED BY <2>1, <2>2, <3>1, <3>2 DEF IInv, TypeOK
  <2>4. SlotInv' /\ FailedApplyUndone' /\ RestoreGoesBack'
    BY <2>1, <2>2 DEF IInv, SlotInv, FailedApplyUndone, RestoreGoesBack, Idle
  <2> QED BY <2>3, <2>4 DEF IInv
<1>2. CASE SelectPrevious
  <2>1. /\ slot \in [group : Groups, node : Nodes] /\ slot.group = action.group
        /\ slot # NoSlot
    BY <1>2 DEF SelectPrevious, IInv, TypeOK, SlotInv
  <2>2. UNCHANGED <<endpoint, client, slot, report, result, switch>>
    BY <1>2 DEF SelectPrevious, window
  <2>3. CASE /\ now' = [now EXCEPT ![slot.group] = slot.node]
             /\ action' = [action EXCEPT !.stage = "restored"]
    <3>1. now' \in Selection /\ now'[slot.group] = slot.node
      <4>1. now \in Selection
        BY DEF IInv, TypeOK
      <4> QED BY <2>1, <2>3, <4>1 DEF Selection
    <3>2. TypeOK'
      <4>1. action' \in Actions
        BY <2>3 DEF IInv, TypeOK, Actions, Busy
      <4>2. /\ action'.stage = "restored" /\ action'.group = action.group
            /\ action'.node = action.node
        BY <2>3 DEF IInv, TypeOK, Actions
      <4>3. action.stage = "restore"
        BY <1>2 DEF SelectPrevious
      <4> QED BY <2>1, <2>2, <3>1, <4>1, <4>2, <4>3 DEF IInv, TypeOK
    <3>3. SlotInv' /\ FailedApplyUndone' /\ RestoreGoesBack'
      BY <2>1, <2>2, <2>3, <3>1 DEF IInv, TypeOK, Actions, SlotInv, FailedApplyUndone, RestoreGoesBack
    <3> QED BY <3>2, <3>3 DEF IInv
  <2>4. CASE now' = now /\ action' = Idle
    BY <2>2, <2>4, IdleIInv DEF IInv, TypeOK
  <2> QED BY <1>2, <2>3, <2>4 DEF SelectPrevious
<1> QED BY <1>1, <1>2

(* What the proxy and the clock do.                                         *)
LEMMA OutsideIInv ==
    ASSUME IInv,
           \/ \E g \in Groups, n \in Nodes : Outside(g, n)
           \/ \E e \in Endpoints : Restart(e)
           \/ Expire
    PROVE  IInv'
<1>1. ASSUME NEW g \in Groups, NEW n \in Nodes, Outside(g, n) PROVE IInv'
  <2>1. /\ now' \in Selection
        /\ \A h \in Groups : h # g => now'[h] = now[h]
    <3>1. now \in Selection /\ now' = [now EXCEPT ![g] = n]
      BY <1>1 DEF Outside, IInv, TypeOK
    <3> QED BY <3>1 DEF Selection
  <2>2. /\ UNCHANGED <<endpoint, client, slot, report, result, switch>>
        /\ action' = IF g = action.group THEN [action EXCEPT !.clean = FALSE] ELSE action
    BY <1>1 DEF Outside, window
  <2>7. /\ action' \in Actions
        /\ action'.stage = action.stage /\ action'.group = action.group
        /\ action'.node = action.node /\ action'.previous = action.previous
        /\ action'.before = action.before /\ (action'.clean => action.clean)
    <3>1. CASE action' = action
      BY <3>1 DEF IInv, TypeOK
    <3>2. CASE action' = [action EXCEPT !.clean = FALSE]
      BY <3>2 DEF IInv, TypeOK, Actions
    <3> QED BY <2>2, <3>1, <3>2
  <2>3. TypeOK'
    BY <2>1, <2>2, <2>7 DEF IInv, TypeOK
  <2>4. SlotInv'
    BY <2>2, <2>7 DEF IInv, SlotInv
  <2>5. CASE g = action.group
    <3>1. ~action'.clean
      BY <2>2, <2>5 DEF IInv, TypeOK, Actions
    <3> QED BY <2>3, <2>4, <3>1 DEF IInv, FailedApplyUndone, RestoreGoesBack
  <2>6. CASE g # action.group
    <3>1. action' = action
      BY <2>2, <2>6
    <3>2. FailedApplyUndone'
      <4> SUFFICES ASSUME action.stage = "failed", result.restored, action.clean
                   PROVE  now'[action.group] = action.before
        BY <2>2, <3>1 DEF FailedApplyUndone
      <4> QED BY <2>1, <2>6 DEF IInv, TypeOK, FailedApplyUndone
    <3>3. RestoreGoesBack'
      BY <2>1, <2>2, <2>6, <3>1 DEF IInv, TypeOK, Actions, SlotInv, RestoreGoesBack
    <3> QED BY <2>3, <2>4, <3>2, <3>3 DEF IInv
  <2> QED BY <2>5, <2>6
<1>2. ASSUME NEW e \in Endpoints, Restart(e) PROVE IInv'
  BY <1>2 DEF Restart, window, IInv, TypeOK, SlotInv, FailedApplyUndone, RestoreGoesBack
<1>3. CASE Expire
  <2>1. /\ action' = [action EXCEPT !.expired = TRUE]
        /\ UNCHANGED <<now, endpoint, client, slot, report, result, switch>>
    BY <1>3 DEF Expire, proxy, window
  <2>2. action' \in Actions
    BY <2>1 DEF IInv, TypeOK, Actions
  <2>3. /\ action'.stage = action.stage /\ action'.group = action.group
        /\ action'.node = action.node /\ action'.previous = action.previous
        /\ action'.before = action.before /\ action'.clean = action.clean
    BY <2>1 DEF IInv, TypeOK, Actions
  <2>4. TypeOK'
    BY <2>1, <2>2, <2>3 DEF IInv, TypeOK
  <2>5. SlotInv' /\ FailedApplyUndone' /\ RestoreGoesBack'
    BY <2>1, <2>3 DEF IInv, SlotInv, FailedApplyUndone, RestoreGoesBack
  <2> QED BY <2>4, <2>5 DEF IInv
<1> QED BY <1>1, <1>2, <1>3

LEMMA NextIInv == IInv /\ [Next]_vars => IInv'
<1> SUFFICES ASSUME IInv, [Next]_vars PROVE IInv'
  OBVIOUS
<1>1. CASE UNCHANGED vars
  BY <1>1 DEF vars, IInv, TypeOK, SlotInv, FailedApplyUndone, RestoreGoesBack
<1> QED BY <1>1, ReportIInv, ApplyIInv, RestoreIInv, OutsideIInv DEF Next, Steps

(* A step that changes the proxy's selection changes one group, and when it *)
(* is a step of the action, the action's.                                   *)
LEMMA StepsChosenGroup ==
    ASSUME IInv, [Next]_vars, action' # action, NEW g \in Groups, now'[g] # now[g]
    PROVE  g = action.group
<1> USE DEF IInv, TypeOK, Actions, SlotInv, Busy
<1>1. ASSUME NEW h \in Groups, NEW n, now' = [now EXCEPT ![h] = n] PROVE g = h
  BY <1>1 DEF Selection
<1>2. CASE Select \/ SelectFails
  BY <1>1, <1>2 DEF Select, SelectFails
<1>3. CASE Undo \/ SelectPrevious
  <2>1. slot.group = action.group /\ action.group \in Groups
    <3>1. action.stage \in {"undo", "restore"}
      BY <1>3 DEF Undo, SelectPrevious
    <3> QED BY <3>1
  <2> QED BY <1>1, <1>3, <2>1 DEF Undo, SelectPrevious
<1>4. ASSUME NEW h \in Groups, NEW n \in Nodes, Outside(h, n) PROVE g = action.group
  BY <1>1, <1>4 DEF Outside
<1>5. CASE UNCHANGED now
  BY <1>5
<1> QED BY <1>2, <1>3, <1>4, <1>5 DEF Next, Steps, ShowNodes, Direct, NotDirect, Detect, Refresh,
           RefreshFails, Apply, Restore, RestoreNothing, Restart, Expire, proxy, vars

-----------------------------------------------------------------------------
(* Types are kept, and the slot names what is to be restored (discovery.go: *)
(* 89-126).                                                                 *)
THEOREM Invariant == Spec => []IInv
BY InitIInv, NextIInv, PTL DEF Spec

(* An apply that fails leaves its group as it was (discovery.go:89-113,     *)
(* 191-196).                                                                *)
THEOREM Undone == Spec => []FailedApplyUndone
<1>1. IInv => FailedApplyUndone BY DEF IInv
<1> QED BY <1>1, Invariant, PTL

(* Restoring goes back one switch (discovery.go:92-93, 118-127).            *)
THEOREM GoesBack == Spec => []RestoreGoesBack
<1>1. IInv => RestoreGoesBack BY DEF IInv
<1> QED BY <1>1, Invariant, PTL

(* No action switches a group it is not about (discovery.go:89-126).        *)
THEOREM OtherGroupsStay == Spec => OnlyTheChosenGroup
<1>1. ASSUME IInv, [Next]_vars
      PROVE  [action' # action =>
                 \A g \in Groups : now'[g] # now[g] => g = action.group]_vars
  BY <1>1, StepsChosenGroup
<1> QED BY <1>1, Invariant, PTL DEF Spec, OnlyTheChosenGroup
=============================================================================
