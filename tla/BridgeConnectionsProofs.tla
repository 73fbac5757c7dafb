---------------------- MODULE BridgeConnectionsProofs ----------------------
(***************************************************************************)
(* For any number of connections: what Close leaves of a bridge.  IInv is  *)
(* inductive, and says where an open socket may be; the moment Close has   *)
(* returned only the goroutines' hands are left.                           *)
(***************************************************************************)
EXTENDS BridgeConnections, TLAPS

(* The sockets of a connection are told apart, and belong to it.            *)
LEMMA SocketsDiffer ==
    /\ \A c : In(c)[1] = c /\ Out(c)[1] = c
    /\ \A c, d : In(c) # Out(d)
    /\ \A c, d : In(c) = In(d) => c = d
    /\ \A c, d : Out(c) = Out(d) => c = d
    /\ \A c \in Conns : In(c) \in Conns \X {"in", "out"}
    /\ \A c \in Conns : Out(c) \in Conns \X {"in", "out"}
    /\ \A s \in Conns \X {"in", "out"} : s[1] \in Conns /\ (s = In(s[1]) \/ s = Out(s[1]))
BY DEF In, Out

(* A bridge that has just been started.                                     *)
LEMMA InitIInv == Init => IInv
BY DEF Init, IInv, TypeOK, Stages, ActiveInv, OpenInv, CopyingInv, TakenInv

(* A goroutine at another stage.                                            *)
LEMMA Moves ==
    ASSUME TypeOK, NEW c \in Conns, NEW stage \in Stages, Goto(c, stage)
    PROVE  /\ pc' \in [Conns -> Stages]
           /\ pc'[c] = stage
           /\ \A d \in Conns : d # c => pc'[d] = pc[d]
BY DEF TypeOK, Goto

(* Every step of a connection, of the loop and of Close keeps the           *)
(* invariant.                                                               *)
LEMMA NextIInv == IInv /\ [Next]_vars => IInv'
<1> SUFFICES ASSUME IInv, [Next]_vars PROVE IInv'
  OBVIOUS
<1> USE SocketsDiffer DEF IInv, TypeOK, ActiveInv, OpenInv, CopyingInv, TakenInv
<1>1. ASSUME NEW c \in Conns, Accept(c) PROVE IInv'
  <2>1. pc[c] = "none" /\ Goto(c, "accepted")
    BY <1>1 DEF Accept
  <2>2. open' = open \cup {In(c)} /\ UNCHANGED <<closed, listening, serving, active,
                                                   copying, closer, taken>>
    BY <1>1 DEF Accept
  <2>3. pc' \in [Conns -> Stages] /\ pc'[c] = "accepted"
           /\ \A d \in Conns : d # c => pc'[d] = pc[d]
    BY <2>1, Moves DEF Stages
  <2>4. TypeOK'
    BY <2>2, <2>3
  <2>5. ActiveInv' /\ TakenInv'
    BY <2>1, <2>2, <2>3
  <2>6. OpenInv'
    BY <2>1, <2>2, <2>3
  <2>7. CopyingInv'
    <3> SUFFICES ASSUME NEW s \in copying
                 PROVE  pc'[s[1]] \notin {"none", "accepted", "check", "dial", "register"}
      BY <2>2
    <3>1. s \in Conns \X {"in", "out"} /\ pc[s[1]] \notin {"none", "accepted", "check",
                                                             "dial", "register"}
      OBVIOUS
    <3>2. s[1] \in Conns /\ s[1] # c
      BY <2>1, <3>1
    <3> QED BY <2>3, <3>1, <3>2
  <2> QED BY <2>4, <2>5, <2>6, <2>7
<1>2. ASSUME NEW c \in Conns, AddInbound(c) PROVE IInv'
  <2>1. CASE closed
    <3>1. pc[c] = "accepted" /\ Goto(c, "done") /\ open' = open \ {In(c)} /\ ~serving'
             /\ UNCHANGED <<active, closed, listening, copying, closer, taken>>
      BY <1>2, <2>1 DEF AddInbound
    <3>2. pc' \in [Conns -> Stages] /\ pc'[c] = "done"
             /\ \A d \in Conns : d # c => pc'[d] = pc[d]
      BY <3>1, Moves DEF Stages
    <3>3. serving' \in BOOLEAN
      BY <1>2, <2>1 DEF AddInbound
    <3>4. ActiveInv' /\ OpenInv' /\ CopyingInv'
      BY <3>1, <3>2
    <3>5. TypeOK' /\ TakenInv'
      BY <3>1, <3>2, <3>3
    <3> QED BY <3>4, <3>5
  <2>2. CASE ~closed
    BY <1>2, <2>2, Moves DEF AddInbound, Stages
  <2> QED BY <2>1, <2>2
<1>3. ASSUME NEW c \in Conns, CheckRemote(c) PROVE IInv'
  BY <1>3, Moves DEF CheckRemote, Stages
<1>4. ASSUME NEW c \in Conns, Dial(c) PROVE IInv'
  BY <1>4, Moves DEF Dial, Stages
<1>5. ASSUME NEW c \in Conns, AddOutbound(c) PROVE IInv'
  <2>1. CASE closed
    BY <1>5, <2>1, Moves DEF AddOutbound, Stages
  <2>2. CASE ~closed
    BY <1>5, <2>2, Moves DEF AddOutbound, Stages, Sockets
  <2> QED BY <2>1, <2>2
<1>6. ASSUME NEW c \in Conns, Done(c) PROVE IInv'
  BY <1>6, Moves DEF Done, Stages
<1>7. ASSUME NEW c \in Conns, CloseOut(c) PROVE IInv'
  BY <1>7, Moves DEF CloseOut, Stages
<1>8. ASSUME NEW c \in Conns, DropOut(c) PROVE IInv'
  BY <1>8, Moves DEF DropOut, Stages
<1>9. ASSUME NEW c \in Conns, CloseIn(c) PROVE IInv'
  BY <1>9, Moves DEF CloseIn, Stages
<1>10. ASSUME NEW c \in Conns, DropIn(c) PROVE IInv'
  BY <1>10, Moves DEF DropIn, Stages
<1>11. ASSUME NEW s, CopyEnds(s) PROVE IInv'
  BY <1>11 DEF CopyEnds
<1>12. CASE StopServing \/ CloseListener
  <2>1. CASE StopServing
    BY <2>1 DEF StopServing
  <2>2. CASE CloseListener
    BY <2>2 DEF CloseListener
  <2> QED BY <1>12, <2>1, <2>2
<1>13. CASE Close
  <2>1. closer = "idle" /\ closed' /\ taken' = active /\ closer' = "listener"
    BY <1>13 DEF Close
  <2>2. UNCHANGED <<listening, serving, active, open, pc, copying>> /\ closed' \in BOOLEAN
    BY <1>13 DEF Close
  <2>3. TypeOK' /\ ActiveInv' /\ OpenInv' /\ CopyingInv'
    BY <2>1, <2>2
  <2>4. TakenInv'
    BY <2>1, <2>2
  <2> QED BY <2>3, <2>4
<1>14. CASE CloseConnection
  BY <1>14 DEF CloseConnection
<1>15. CASE UNCHANGED vars
  BY <1>15 DEF vars
<1> QED BY <1>1, <1>2, <1>3, <1>4, <1>5, <1>6, <1>7, <1>8, <1>9, <1>10, <1>11, <1>12,
           <1>13, <1>14, <1>15 DEF Next, Handle

(* What is open when Close has returned is in its goroutine's hands.        *)
LEMMA CarriesNothing == IInv => ClosedCarriesNothing
<1> SUFFICES ASSUME IInv, closer = "done", NEW s \in open
             PROVE  InHand(s) /\ s \notin copying
  BY DEF ClosedCarriesNothing
<1>1. s \in Conns \X {"in", "out"} /\ s \notin active
  BY DEF IInv, TypeOK, TakenInv
<1>2. InHand(s)
  BY <1>1, SocketsDiffer DEF IInv, OpenInv, InHand
<1> QED BY <1>2 DEF IInv, CopyingInv, InHand

(* Types are kept, and where a socket is registered, open or copied follows *)
(* its goroutine and Close (bridge.go:56-119, 147-165).                     *)
THEOREM Invariant == Spec => []IInv
BY InitIInv, NextIInv, PTL DEF Spec

(* However connections come and go and whenever the bridge is closed, a     *)
(* closed bridge carries nothing (bridge.go:56-77, 96-119, 147-165).        *)
THEOREM CloseIsComplete == Spec => []ClosedCarriesNothing
BY Invariant, CarriesNothing, PTL

-----------------------------------------------------------------------------
(* To the one who closes it a bridge opens, carries sockets, and closes:    *)
(* what a step does to what is registered and open is admitting one socket  *)
(* while the bridge is open, or dropping some, and Close ends only when     *)
(* there is none (bridge.go:56-77, 96-119, 141-165).                        *)
THEOREM Refinement == Spec => RefinesClosable
<1> USE DEF Bridge!vars, Bridge!Next, Phase
<1>1. Init => Bridge!Init
  BY DEF Init, Bridge!Init
<1>2. IInv /\ [Next]_vars => [Bridge!Next]_(Bridge!vars)
  <2> SUFFICES ASSUME IInv, [Next]_vars
               PROVE  Bridge!Next \/ UNCHANGED Bridge!vars
    OBVIOUS
  <2> USE DEF IInv, TypeOK, TakenInv
  <2>1. ASSUME active' \cap open' \subseteq active \cap open, UNCHANGED closer
        PROVE  Bridge!Next
    BY <2>1 DEF Bridge!Drop
  <2>2. ASSUME NEW s \in Conns \X {"in", "out"}, ~closed,
               active' = active \cup {s}, UNCHANGED <<open, closer>>
        PROVE  Bridge!Next
    <3>1. CASE s \in open
      BY <2>2, <3>1 DEF Bridge!Admit
    <3>2. CASE s \notin open
      BY <2>1, <2>2, <3>2
    <3> QED BY <3>1, <3>2
  <2>3. ASSUME NEW c \in Conns, AddInbound(c) \/ AddOutbound(c)
        PROVE  Bridge!Next
    <3>1. In(c) \in Conns \X {"in", "out"} /\ Out(c) \in Conns \X {"in", "out"}
      BY DEF In, Out
    <3>2. CASE closed
      BY <2>1, <2>3, <3>2 DEF AddInbound, AddOutbound
    <3>3. CASE ~closed
      BY <2>2, <2>3, <3>1, <3>3 DEF AddInbound, AddOutbound
    <3> QED BY <3>2, <3>3
  <2>4. ASSUME NEW c \in Conns, Accept(c) \/ Dial(c)
        PROVE  Bridge!Next
    <3>1. CASE Accept(c)
      <4>1. In(c) \notin active
        BY <3>1 DEF Accept, ActiveInv
      <4> QED BY <2>1, <3>1, <4>1 DEF Accept
    <3>2. CASE Dial(c)
      <4>1. Out(c) \notin active
        BY <3>2 DEF Dial, ActiveInv
      <4> QED BY <2>1, <3>2, <4>1 DEF Dial
    <3> QED BY <2>4, <3>1, <3>2
  <2>5. ASSUME NEW c \in Conns,
               CheckRemote(c) \/ Done(c) \/ CloseOut(c) \/ DropOut(c) \/ CloseIn(c) \/ DropIn(c)
        PROVE  Bridge!Next
    BY <2>1, <2>5 DEF CheckRemote, Done, CloseOut, DropOut, CloseIn, DropIn
  <2>6. ASSUME NEW s, CopyEnds(s)
        PROVE  Bridge!Next
    BY <2>1, <2>6 DEF CopyEnds
  <2>7. CASE StopServing
    BY <2>1, <2>7 DEF StopServing
  <2>8. CASE Close
    BY <2>8 DEF Close, Bridge!BeginClose
  <2>9. CASE CloseListener
    BY <2>1, <2>9 DEF CloseListener
  <2>10. CASE CloseConnection
    <3>1. CASE taken = {} /\ closer' = "done" /\ UNCHANGED <<open, taken>>
      BY <2>10, <3>1 DEF CloseConnection, Bridge!EndClose
    <3>2. ASSUME NEW s \in taken, open' = open \ {s}, UNCHANGED closer
          PROVE  Bridge!Next
      BY <2>1, <2>10, <3>2 DEF CloseConnection
    <3> QED BY <2>10, <3>1, <3>2 DEF CloseConnection
  <2>11. CASE UNCHANGED vars
    BY <2>11 DEF vars
  <2> QED BY <2>3, <2>4, <2>5, <2>6, <2>7, <2>8, <2>9, <2>10, <2>11 DEF Next, Handle
<1> QED BY <1>1, <1>2, Invariant, PTL DEF Spec, RefinesClosable, Bridge!Spec
=============================================================================
