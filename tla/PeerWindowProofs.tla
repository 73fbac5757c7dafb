--------------------------- MODULE PeerWindowProofs ---------------------------
(***************************************************************************)
(* For any devices and any number of refreshers no goroutine runs that     *)
(* nobody can stop.                                                        *)
(***************************************************************************)
EXTENDS PeerWindow, TLAPS

USE NoneAssumption, ThreadsAssumption

AtType == [Threads -> [stage : Stages, peers : SUBSET Devices, target : Devices \cup {None}]]

(* One thread goes somewhere, and the others stay.                          *)
LEMMA Moved ==
    ASSUME at \in AtType, NEW t \in Threads, NEW stage \in Stages, NEW peers \in SUBSET Devices,
           NEW target \in Devices \cup {None},
           at' = [at EXCEPT ![t] = [stage |-> stage, peers |-> peers, target |-> target]]
    PROVE  /\ at' \in AtType
           /\ at'[t].stage = stage /\ at'[t].target = target
           /\ \A u \in Threads : u # t => at'[u] = at[u]
BY DEF AtType

(* What the control of the refresh says of a goroutine depends on where it  *)
(* is, and on nobody else.                                                  *)
LEMMA StaysOne ==
    ASSUME OneRefresher, UNCHANGED <<cancel, cancelled>>,
           \A r \in Refreshers : at'[r].stage = "idle" \/ at[r].stage # "idle"
    PROVE  OneRefresher'
BY DEF OneRefresher, At

LEMMA InitInv == Init => TypeOK /\ OneRefresher
<1> SUFFICES ASSUME Init PROVE TypeOK /\ OneRefresher
  OBVIOUS
<1>1. at \in AtType
  BY DEF Init, AtType, Place, Stages
<1>2. TypeOK
  BY <1>1 DEF Init, TypeOK, AtType
<1>3. OneRefresher
  BY DEF Init, OneRefresher, At, Place, Threads
<1> QED BY <1>2, <1>3

-----------------------------------------------------------------------------
(* A thread in a render or a call.                                          *)
LEMMA ActsInv ==
    ASSUME TypeOK, OneRefresher, NEW t \in Threads, Acts(t)
    PROVE  TypeOK' /\ OneRefresher'
<1> USE DEF refresh, list, Reads, Goes, Place, Reading, At
<1>0. at \in AtType /\ at[t].peers \in SUBSET Devices
  BY DEF TypeOK, AtType
<1>1. CASE Copy(t)
  <2>1. kept \in SUBSET Devices
    BY DEF TypeOK
  <2>2. /\ at' \in AtType /\ at'[t].stage = "draw"
        /\ \A u \in Threads : u # t => at'[u] = at[u]
    <3>1. at' = [at EXCEPT ![t] = [stage |-> "draw", peers |-> kept, target |-> None]]
      BY <1>1 DEF Copy
    <3> QED BY <1>0, <2>1, <3>1, Moved DEF Stages
  <2>3. TypeOK'
    BY <1>1, <2>2 DEF Copy, TypeOK, AtType
  <2>4. OneRefresher'
    BY <1>1, <2>2, StaysOne DEF Copy, Threads
  <2> QED BY <2>3, <2>4
<1>2. CASE Draw(t)
  <2>1. /\ at' \in AtType
        /\ at'[t].stage = IF t \in Refreshers THEN "wait" ELSE "idle"
        /\ \A u \in Threads : u # t => at'[u] = at[u]
    <3>1. CASE t \in Refreshers
      <4>1. at' = [at EXCEPT ![t] = [stage |-> "wait", peers |-> {}, target |-> None]]
        BY <1>2, <3>1 DEF Draw
      <4> QED BY <1>0, <3>1, <4>1, Moved DEF Stages
    <3>2. CASE t \notin Refreshers
      BY <1>0, <1>2, <3>2, Moved DEF Draw, Stages
    <3> QED BY <3>1, <3>2
  <2>2. selected' \in Devices \cup {None} /\ explicit' \in BOOLEAN
    <3>1. First(at[t].peers) \in Devices \cup {None}
      BY <1>0 DEF First
    <3> QED BY <1>0, <1>2, <3>1 DEF Draw, Reconcile, TypeOK
  <2>3. TypeOK'
    BY <1>0, <1>2, <2>1, <2>2 DEF Draw, TypeOK, AtType
  <2>4. OneRefresher'
    BY <1>2, <2>1, StaysOne DEF Draw, Threads
  <2> QED BY <2>3, <2>4
<1>3. CASE ReadPeers(t)
  <2>1. stored \in SUBSET Devices
    BY DEF TypeOK
  <2>2. /\ at' \in AtType /\ at'[t].stage # "idle"
        /\ \A u \in Threads : u # t => at'[u] = at[u]
    <3>1. CASE at' = [at EXCEPT ![t] = [stage |-> "keep", peers |-> stored, target |-> None]]
      BY <1>0, <2>1, <3>1, Moved DEF Stages
    <3>2. CASE at' = [at EXCEPT ![t] = [stage |-> "render", peers |-> {}, target |-> None]]
      BY <1>0, <3>2, Moved DEF Stages
    <3> QED BY <1>3, <3>1, <3>2 DEF ReadPeers
  <2>3. TypeOK'
    BY <1>3, <2>2 DEF ReadPeers, TypeOK, AtType
  <2>4. OneRefresher'
    BY <1>3, <2>2, StaysOne DEF ReadPeers, Threads
  <2> QED BY <2>3, <2>4
<1>4. CASE KeepPeers(t)
  <2>1. /\ at' \in AtType /\ at'[t].stage = "render"
        /\ \A u \in Threads : u # t => at'[u] = at[u]
    <3>1. at' = [at EXCEPT ![t] = [stage |-> "render", peers |-> {}, target |-> None]]
      BY <1>4 DEF KeepPeers
    <3> QED BY <1>0, <3>1, Moved DEF Stages
  <2>2. TypeOK'
    BY <1>0, <1>4, <2>1 DEF KeepPeers, TypeOK, AtType
  <2>3. OneRefresher'
    BY <1>4, <2>1, StaysOne DEF KeepPeers, Threads
  <2> QED BY <2>2, <2>3
<1> QED BY <1>1, <1>2, <1>3, <1>4 DEF Acts

(* The user, and the end of an action of the window's.                      *)
LEMMA WindowInv ==
    ASSUME TypeOK, OneRefresher,
           RemovePeer \/ AskToRemove \/ Confirm \/ Dismiss \/ Press \/ StopRefresh
               \/ \E d \in Devices : Select(d)
    PROVE  TypeOK' /\ OneRefresher'
<1> USE DEF refresh, list
<1>0. at \in AtType /\ "window" \in Threads /\ "window" \notin Refreshers
  BY DEF TypeOK, AtType, Threads
<1>a. ASSUME NEW s \in Stages, NEW d \in Devices \cup {None}, UNCHANGED <<cancel, cancelled>>,
             at' = [at EXCEPT !["window"] = [stage |-> s, peers |-> {}, target |-> d]]
      PROVE  at' \in AtType /\ OneRefresher'
  <2>1. at' \in AtType /\ \A u \in Threads : u # "window" => at'[u] = at[u]
    BY <1>0, <1>a, Moved
  <2> QED BY <1>0, <1>a, <2>1, StaysOne DEF Threads
<1>1. CASE RemovePeer
  <2>1. \E s \in {"refresh", "render"} :
           at' = [at EXCEPT !["window"] = [stage |-> s, peers |-> {}, target |-> None]]
    BY <1>1 DEF Place, Reading, Removing, RemovePeer, Goes
  <2>2. at' \in AtType /\ OneRefresher'
    BY <1>1, <1>a, <2>1 DEF RemovePeer, Stages
  <2> QED BY <1>1, <2>2 DEF RemovePeer, TypeOK, AtType
<1>2. CASE AskToRemove
  BY <1>2 DEF AskToRemove, TypeOK, OneRefresher, At
<1>3. CASE Confirm
  <2>1. dialog \in Devices \cup {None}
    BY DEF TypeOK
  <2>2. at' = [at EXCEPT !["window"] = [stage |-> "remove", peers |-> {}, target |-> dialog]]
    BY <1>3 DEF Place, Reading, Removing, Confirm, Removes
  <2>3. at' \in AtType /\ OneRefresher'
    BY <1>3, <1>a, <2>1, <2>2 DEF Confirm, Stages
  <2> QED BY <1>3, <2>3 DEF Confirm, TypeOK, AtType
<1>4. CASE Dismiss
  BY <1>4 DEF Dismiss, TypeOK, OneRefresher, At
<1>5. CASE Press
  <2>1. \E s \in {"refresh", "render"} :
           at' = [at EXCEPT !["window"] = [stage |-> s, peers |-> {}, target |-> None]]
    BY <1>5 DEF Place, Reading, Removing, Press, Goes
  <2>2. at' \in AtType /\ OneRefresher'
    BY <1>5, <1>a, <2>1 DEF Press, Stages
  <2> QED BY <1>5, <2>2 DEF Press, TypeOK, AtType
<1>6. CASE StopRefresh
  <2>1. TypeOK'
    BY <1>6 DEF StopRefresh, TypeOK
  <2>2. OneRefresher'
    BY <1>6 DEF StopRefresh, OneRefresher, At
  <2> QED BY <2>1, <2>2
<1>7. ASSUME NEW d \in Devices, Select(d) PROVE TypeOK' /\ OneRefresher'
  <2>1. at' = [at EXCEPT !["window"] = [stage |-> "render", peers |-> {}, target |-> None]]
    BY <1>7 DEF Place, Reading, Removing, Select, Goes
  <2>2. at' \in AtType /\ OneRefresher'
    BY <1>7, <1>a, <2>1 DEF Select, Stages
  <2> QED BY <1>7, <2>2 DEF Select, TypeOK, AtType
<1> QED BY <1>1, <1>2, <1>3, <1>4, <1>5, <1>6, <1>7

(* The tray, and the goroutines it launches.                                *)
LEMMA RefreshInv ==
    ASSUME TypeOK, OneRefresher,
           TrayRefresh \/ Show \/ StartRefresh \/ \E r \in Refreshers : Tick(r) \/ Exit(r)
    PROVE  TypeOK' /\ OneRefresher'
<1> USE DEF refresh, list
<1>0. at \in AtType /\ "tray" \in Threads /\ "tray" \notin Refreshers /\ Refreshers \subseteq Threads
  BY DEF TypeOK, AtType, Threads
<1>a. ASSUME NEW t \in Threads, NEW s \in Stages, Goes(t, s)
      PROVE  at' \in AtType /\ at'[t].stage = s /\ \A u \in Threads : u # t => at'[u] = at[u]
  <2>1. at' = [at EXCEPT ![t] = [stage |-> s, peers |-> {}, target |-> None]]
    BY <1>a DEF Place, Reading, Removing, Goes
  <2> QED BY <1>0, <2>1, Moved
<1>1. CASE TrayRefresh \/ Show
  <2>1. UNCHANGED <<stored, kept, list, dialog, cancel, cancelled>> /\ shown' \in BOOLEAN
    BY <1>1 DEF TrayRefresh, Show, TypeOK
  <2>2. at' \in AtType /\ \A u \in Threads : u # "tray" => at'[u] = at[u]
    BY <1>0, <1>1, <1>a DEF TrayRefresh, Show, Stages
  <2>3. TypeOK'
    BY <2>1, <2>2 DEF TypeOK, AtType
  <2>4. OneRefresher'
    BY <1>0, <2>1, <2>2, StaysOne
  <2> QED BY <2>3, <2>4
<1>2. CASE StartRefresh
  <2>1. CASE cancel' = cancel /\ Goes("tray", "render")
    <3>1. at' \in AtType /\ \A u \in Threads : u # "tray" => at'[u] = at[u]
      BY <1>0, <1>a, <2>1 DEF Stages
    <3>2. TypeOK'
      BY <1>2, <2>1, <3>1 DEF StartRefresh, TypeOK, AtType
    <3>3. OneRefresher'
      BY <1>0, <1>2, <2>1, <3>1, StaysOne DEF StartRefresh
    <3> QED BY <3>2, <3>3
  <2>2. ASSUME cancel = None, NEW r \in Refreshers, Launch(r) PROVE TypeOK' /\ OneRefresher'
    <3>1. at' = [at EXCEPT !["tray"] = [stage |-> "render", peers |-> {}, target |-> None],
                           ![r] = [stage |-> "wait", peers |-> {}, target |-> None]]
      BY <2>2 DEF Place, Reading, Removing, Launch
    <3>2. at' \in AtType /\ \A u \in Threads : u # "tray" /\ u # r => at'[u] = at[u]
      BY <1>0, <3>1 DEF AtType, Stages
    <3>3. TypeOK'
      BY <1>2, <2>2, <3>2 DEF StartRefresh, Launch, TypeOK, AtType
    <3>4. OneRefresher'
      BY <1>0, <1>2, <2>2, <3>2 DEF StartRefresh, Launch, OneRefresher, At
    <3> QED BY <3>3, <3>4
  <2> QED BY <1>2, <2>1, <2>2 DEF StartRefresh
<1>3. ASSUME NEW r \in Refreshers, Tick(r) PROVE TypeOK' /\ OneRefresher'
  <2>1. at' \in AtType /\ at'[r].stage = "render"
        /\ \A u \in Threads : u # r => at'[u] = at[u]
    BY <1>0, <1>3, <1>a DEF Tick, Stages
  <2>2. TypeOK'
    BY <1>3, <2>1 DEF Tick, TypeOK, AtType
  <2>3. OneRefresher'
    BY <1>0, <1>3, <2>1, StaysOne DEF Tick, At
  <2> QED BY <2>2, <2>3
<1>4. ASSUME NEW r \in Refreshers, Exit(r) PROVE TypeOK' /\ OneRefresher'
  <2>1. at' \in AtType /\ at'[r].stage = "idle"
        /\ \A u \in Threads : u # r => at'[u] = at[u]
    BY <1>0, <1>4, <1>a DEF Exit, Stages
  <2>2. TypeOK'
    BY <1>4, <2>1 DEF Exit, TypeOK, AtType
  <2>3. OneRefresher'
    BY <1>0, <1>4, <2>1 DEF Exit, OneRefresher, At
  <2> QED BY <2>2, <2>3
<1> QED BY <1>1, <1>2, <1>3, <1>4

LEMMA NextInv == TypeOK /\ OneRefresher /\ [Next]_vars => TypeOK' /\ OneRefresher'
<1> SUFFICES ASSUME TypeOK, OneRefresher, [Next]_vars PROVE TypeOK' /\ OneRefresher'
  OBVIOUS
<1>1. ASSUME NEW d \in Devices, Trust(d) PROVE TypeOK' /\ OneRefresher'
  BY <1>1 DEF Trust, TypeOK, OneRefresher, At, list, refresh
<1>2. CASE UNCHANGED vars
  BY <1>2 DEF vars, TypeOK, OneRefresher, At
<1> QED BY <1>1, <1>2, ActsInv, WindowInv, RefreshInv DEF Next

-----------------------------------------------------------------------------
(* Types are kept (main_window.go:28-405).                                  *)
THEOREM TypeCorrect == Spec => []TypeOK
BY InitInv, NextInv, PTL DEF Spec

(* No goroutine runs that Stop could not end (main_window.go:412-439).      *)
THEOREM NoneLeaks == Spec => []OneRefresher
BY InitInv, NextInv, PTL DEF Spec
=============================================================================
