----------------------- MODULE ServerConnectionsProofs -----------------------
(***************************************************************************)
(* For any number of connections, and Close at any moment: a closed server *)
(* hears nobody and authenticates nobody.  IInv says which connections are *)
(* registered and what Close has taken of them; it is inductive, and of    *)
(* what is open when Close has returned it leaves only connections that    *)
(* some goroutine is about to close.                                       *)
(***************************************************************************)
EXTENDS ServerConnections, TLAPS

LEMMA InitIInv == Init => IInv
BY DEF Init, IInv, TypeOK, Stages, ActiveInv, OpenInv, ClosingInv

(* A connection at another stage.                                           *)
LEMMA Moves ==
    ASSUME TypeOK, NEW c \in Conns, NEW stage \in Stages, Goto(c, stage)
    PROVE  /\ pc' \in [Conns -> Stages]
           /\ pc'[c] = stage
           /\ \A d \in Conns : d # c => pc'[d] = pc[d]
BY DEF TypeOK, Goto

(* The loop of Serve, from launching to leaving.                            *)
LEMMA LoopIInv ==
    ASSUME IInv, Loop \/ AcceptFails \/ \E c \in Conns : Accept(c)
    PROVE  IInv'
<1> USE DEF IInv, TypeOK, ActiveInv, OpenInv, ClosingInv, closing
<1>1. CASE Serve
  <2>1. CASE closedState
    BY <1>1, <2>1 DEF Serve
  <2>2. CASE ~closedState
    BY <1>1, <2>2 DEF Serve
  <2> QED BY <2>1, <2>2
<1>2. CASE Leave
  BY <1>2 DEF Leave
<1>3. CASE AcceptFails
  BY <1>3 DEF AcceptFails
<1>4. ASSUME NEW c \in Conns, Accept(c) PROVE IInv'
  BY <1>4, Moves DEF Accept, Stages
<1>5. ASSUME NEW c \in Conns, CheckClosed(c) PROVE IInv'
  <2>1. CASE closed
    BY <1>5, <2>1, Moves DEF CheckClosed, Stages
  <2>2. CASE ~closed
    BY <1>5, <2>2, Moves DEF CheckClosed, Stages
  <2> QED BY <2>1, <2>2
<1>6. ASSUME NEW c \in Conns, AddActive(c) PROVE IInv'
  <2>1. CASE closedState
    BY <1>6, <2>1, Moves DEF AddActive, Stages
  <2>2. CASE ~closedState
    BY <1>6, <2>2, Moves DEF AddActive, Stages
  <2> QED BY <2>1, <2>2
<1>7. ASSUME NEW c \in Conns, CloseRefused(c) PROVE IInv'
  BY <1>7, Moves DEF CloseRefused, Stages
<1> QED BY <1>1, <1>2, <1>3, <1>4, <1>5, <1>6, <1>7 DEF Loop

(* A connection's own goroutine.                                            *)
LEMMA HandleIInv ==
    ASSUME IInv, NEW c \in Conns, Handle(c)
    PROVE  IInv'
<1> USE DEF IInv, TypeOK, ActiveInv, OpenInv, ClosingInv, closing
<1>1. CASE Authenticate(c)
  BY <1>1, Moves DEF Authenticate, Stages
<1>2. CASE HandshakeFails(c)
  BY <1>2, Moves DEF HandshakeFails, Stages
<1>3. CASE Trusted(c)
  BY <1>3, Moves DEF Trusted, Stages
<1>4. CASE DropActive(c)
  BY <1>4, Moves DEF DropActive, Stages
<1>5. CASE CloseConn(c)
  BY <1>5, Moves DEF CloseConn, Stages
<1> QED BY <1>1, <1>2, <1>3, <1>4, <1>5 DEF Handle

(* Close, and the manager's own closing of the listener.                    *)
LEMMA CloseIInv ==
    ASSUME IInv, BeginClose \/ Closing
    PROVE  IInv'
<1> USE DEF IInv, TypeOK, ActiveInv, OpenInv, ClosingInv
<1>1. CASE BeginClose
  BY <1>1 DEF BeginClose
<1>2. CASE CloseChannel
  BY <1>2 DEF CloseChannel
<1>3. CASE CloseListener
  BY <1>3 DEF CloseListener
<1>4. CASE CloseManagersListener
  BY <1>4 DEF CloseManagersListener
<1>5. ASSUME NEW c \in Conns, CloseTaken(c) PROVE IInv'
  BY <1>5 DEF CloseTaken
<1> QED BY <1>1, <1>2, <1>3, <1>4, <1>5 DEF Closing

LEMMA NextIInv == IInv /\ [Next]_vars => IInv'
<1> SUFFICES ASSUME IInv, [Next]_vars PROVE IInv'
  OBVIOUS
<1>1. CASE UNCHANGED vars
  BY <1>1 DEF vars, IInv, TypeOK, ActiveInv, OpenInv, ClosingInv
<1> QED BY <1>1, LoopIInv, HandleIInv, CloseIInv DEF Next

(* What is open when Close has returned is neither in a handshake nor being *)
(* trusted: it would be registered, so taken, so closed.                    *)
LEMMA HearsNobody == IInv => ClosedHearsNobody
<1> SUFFICES ASSUME IInv, closer = "done" PROVE ~listening /\ \A c \in open : InHand(c)
  BY DEF ClosedHearsNobody
<1>1. active \cap open = {} /\ ~listening
  BY DEF IInv, ClosingInv
<1>2. ASSUME NEW c \in open PROVE InHand(c)
  <2>1. c \in Conns /\ c \notin active /\ pc[c] \in Stages
    BY <1>1, <1>2 DEF IInv, TypeOK
  <2> QED BY <1>2, <2>1 DEF IInv, ActiveInv, OpenInv, InHand, Stages
<1> QED BY <1>1, <1>2

(* Only an open connection is authenticated.                                *)
LEMMA AuthenticatedIsOpen ==
    ASSUME TypeOK, [Next]_vars, NEW c \in Conns, pc[c] = "handshake", pc'[c] = "trusting"
    PROVE  c \in open
<1> SUFFICES ASSUME c \notin open PROVE FALSE
  OBVIOUS
<1>1. ASSUME NEW d \in Conns, NEW stage \in Stages, Goto(d, stage), d # c \/ stage # "trusting"
      PROVE  FALSE
  BY <1>1, Moves
<1>2. ASSUME NEW d \in Conns, Accept(d) \/ Handle(d) PROVE FALSE
  BY <1>1, <1>2 DEF Accept, Handle, Authenticate, HandshakeFails, Trusted, DropActive, CloseConn,
                    Stages
<1>3. ASSUME NEW d \in Conns, CheckClosed(d) \/ AddActive(d) \/ CloseRefused(d) PROVE FALSE
  BY <1>1, <1>3 DEF CheckClosed, AddActive, CloseRefused, Stages
<1>4. CASE UNCHANGED pc
  BY <1>4
<1> QED BY <1>2, <1>3, <1>4 DEF Next, Loop, Closing, Serve, Leave, AcceptFails, BeginClose,
           CloseChannel, CloseListener, CloseManagersListener, CloseTaken, vars

-----------------------------------------------------------------------------
(* Types are kept, and what is registered, open or taken follows the        *)
(* goroutines and Close (server.go:45-110, 175-193).                        *)
THEOREM Invariant == Spec => []IInv
BY InitIInv, NextIInv, PTL DEF Spec

(* However connections come and go and whenever the server is closed, a     *)
(* closed server hears nobody and its port is free (server.go:86-106,       *)
(* 175-193, manager.go:247-253).                                            *)
THEOREM CloseIsComplete == Spec => []ClosedHearsNobody
BY Invariant, HearsNobody, PTL

(* After Close has returned no handshake succeeds any more (server.go:      *)
(* 86-106, 139-157).                                                        *)
THEOREM NobodyIsLate == Spec => NoLateAuthentication
<1>1. ASSUME IInv, [Next]_vars
      PROVE  [closer = "done" => \A c \in Conns : pc[c] = "handshake" => pc'[c] # "trusting"]_vars
  <2>1. SUFFICES ASSUME closer = "done", NEW c \in Conns, pc[c] = "handshake",
                        pc'[c] = "trusting"
                 PROVE  FALSE
    OBVIOUS
  <2>2. c \in open
    BY <1>1, <2>1, AuthenticatedIsOpen DEF IInv
  <2>3. InHand(c)
    BY <1>1, <2>1, <2>2, HearsNobody DEF ClosedHearsNobody
  <2> QED BY <2>1, <2>3 DEF InHand
<1> QED BY <1>1, Invariant, PTL DEF Spec, NoLateAuthentication

-----------------------------------------------------------------------------
(* To the manager a server opens, carries connections, and closes: what a   *)
(* step does to what is registered and open is admitting one connection     *)
(* while the server is open, or dropping some, and Close ends only when     *)
(* there is none (server.go:72-106, 175-193).                               *)
THEOREM Refinement == Spec => RefinesClosable
<1> USE DEF Server!vars, Server!Next, Phase
<1>1. Init => Server!Init
  BY DEF Init, Server!Init
<1>2. IInv /\ [Next]_vars => [Server!Next]_(Server!vars)
  <2> SUFFICES ASSUME IInv, [Next]_vars
               PROVE  Server!Next \/ UNCHANGED Server!vars
    OBVIOUS
  <2> USE DEF IInv, TypeOK, ActiveInv, OpenInv, ClosingInv, closing
  <2>1. ASSUME active' \cap open' \subseteq active \cap open, UNCHANGED closer
        PROVE  Server!Next
    BY <2>1 DEF Server!Drop
  <2>2. ASSUME NEW c \in Conns, AddActive(c)
        PROVE  Server!Next
    <3>1. CASE closedState
      BY <2>1, <2>2, <3>1 DEF AddActive
    <3>2. CASE ~closedState /\ c \in open
      BY <2>2, <3>2 DEF AddActive, Server!Admit
    <3>3. CASE ~closedState /\ c \notin open
      BY <2>1, <2>2, <3>3 DEF AddActive
    <3> QED BY <3>1, <3>2, <3>3
  <2>3. ASSUME NEW c \in Conns, Accept(c) \/ CheckClosed(c) \/ CloseRefused(c) \/ Handle(c)
        PROVE  Server!Next
    BY <2>1, <2>3 DEF Accept, CheckClosed, CloseRefused, Handle, Authenticate, HandshakeFails,
                      Trusted, DropActive, CloseConn
  <2>4. CASE Serve \/ Leave \/ AcceptFails
    BY <2>1, <2>4 DEF Serve, Leave, AcceptFails
  <2>5. CASE BeginClose
    BY <2>5 DEF BeginClose, Server!BeginClose
  <2>6. CASE CloseChannel \/ CloseListener
    BY <2>1, <2>6 DEF CloseChannel, CloseListener
  <2>7. CASE CloseManagersListener
    BY <2>7 DEF CloseManagersListener, Server!EndClose
  <2>8. ASSUME NEW c \in Conns, CloseTaken(c)
        PROVE  Server!Next
    BY <2>1, <2>8 DEF CloseTaken
  <2>9. CASE UNCHANGED vars
    BY <2>9 DEF vars
  <2> QED BY <2>2, <2>3, <2>4, <2>5, <2>6, <2>7, <2>8, <2>9 DEF Next, Loop, Closing
<1> QED BY <1>1, <1>2, Invariant, PTL DEF Spec, RefinesClosable, Server!Spec
=============================================================================
