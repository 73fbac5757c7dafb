--------------------------- MODULE HandshakeProofs ---------------------------
(***************************************************************************)
(* For any devices, secrets and connections, with or without failures, and *)
(* however servers are started and stopped under a handshake: a client     *)
(* that believes it is paired has been accepted by the server of the same  *)
(* connection, and both hold the same secret; and two devices that hold    *)
(* the same secret are never told that they do not.                        *)
(***************************************************************************)
EXTENDS Handshake, TLAPS

USE NoneAssumption

LEMMA InitIInv == Init => IInv
    BY DEF Init, IInv, TypeOK, SidesInv, ChannelInv, Agreement,
           SameSecretNeverRefused, Nobody, Side, Stages, Authenticated

-----------------------------------------------------------------------------
(* The invariant is about one session at a time: c and h are its sides, i   *)
(* and o its messages to the server and to the client.                      *)
ManagerTypes ==
    /\ server \in [Devices -> Secrets \cup {None}]
    /\ starting \in [Devices -> Secrets \cup {None}]
    /\ key \in [Devices -> Secrets \cup {None}]

SessionTypes(c, h, i, o) ==
    /\ c \in Side /\ h \in Side
    /\ i \in Message \cup {None} /\ o \in Message \cup {None}

SessionInv(c, h, i, o) ==
    /\ c.stage = "idle" <=> h.stage = "idle"
    /\ c.stage # "idle" =>
          c.device \in Devices /\ c.secret \in Secrets /\ h.device \in Devices /\ h.secret \in Secrets
    /\ i # None =>
          \/ h.stage = "hello"
          \/ /\ h.stage = "proof" /\ c.stage # "hello"
             /\ i.proof = Proof(c.secret, c.device, h.device)
    /\ h.stage = "hello" => c.stage # "proof"
    /\ o # None => /\ h.stage \notin {"idle", "hello"}
                   /\ o.type \in {"hello_response", "auth_ok", "auth_error"}
    /\ o # None /\ o.type = "hello_response" =>
          c.stage # "proof" /\ o.proof = Proof(h.secret, h.device, c.device)
    /\ o # None /\ o.type = "auth_ok" => h.stage \in Authenticated
    /\ o # None /\ o.type = "auth_error" => c.secret # h.secret
    /\ c.secret = h.secret => c.stage # "refused" /\ h.stage # "refused"
    /\ c.stage \in Authenticated => h.stage \in Authenticated
    /\ h.stage \in Authenticated => c.stage # "hello" /\ c.secret = h.secret

SessionsInv ==
    \A s \in Sessions :
        /\ SessionTypes(client[s], handler[s], toServer[s], toClient[s])
        /\ SessionInv(client[s], handler[s], toServer[s], toClient[s])

LEMMA BySession ==
    ASSUME IInv
    PROVE  SessionsInv
    BY DEF IInv, TypeOK, SidesInv, ChannelInv, Agreement, SameSecretNeverRefused, SessionsInv,
           SessionTypes, SessionInv

(* A step that changes one session only.                                    *)
LEMMA OneSession ==
    ASSUME IInv, NEW s \in Sessions, ManagerTypes',
           NEW c, NEW h, NEW i, NEW o, SessionTypes(c, h, i, o), SessionInv(c, h, i, o),
           client' = [client EXCEPT ![s] = c], handler' = [handler EXCEPT ![s] = h],
           toServer' = [toServer EXCEPT ![s] = i], toClient' = [toClient EXCEPT ![s] = o]
    PROVE  IInv'
<1>1. TypeOK'
    BY DEF IInv, TypeOK, ManagerTypes, SessionTypes
<1>2. \A t \in Sessions :
          SessionInv(client'[t], handler'[t], toServer'[t], toClient'[t])
    <2> TAKE t \in Sessions
    <2>1. CASE t = s
        BY <2>1 DEF IInv, TypeOK
    <2>2. CASE t # s
        BY <2>2, BySession DEF IInv, TypeOK, SessionsInv
    <2> QED BY <2>1, <2>2
<1> QED
    BY <1>1, <1>2 DEF IInv, SidesInv, ChannelInv, Agreement, SameSecretNeverRefused, SessionInv

(* Nothing about a session changes when only its managers do.               *)
LEMMA Unchanged ==
    ASSUME IInv, NEW s \in Sessions
    PROVE  /\ client = [client EXCEPT ![s] = client[s]]
           /\ handler = [handler EXCEPT ![s] = handler[s]]
           /\ toServer = [toServer EXCEPT ![s] = toServer[s]]
           /\ toClient = [toClient EXCEPT ![s] = toClient[s]]
    BY DEF IInv, TypeOK

(* A side at another stage.                                                 *)
At(side, stage) == [side EXCEPT !.stage = stage]

LEMMA AtStage ==
    ASSUME NEW side \in Side, NEW stage \in Stages
    PROVE  /\ At(side, stage) \in Side
           /\ At(side, stage).stage = stage
           /\ At(side, stage).device = side.device
           /\ At(side, stage).secret = side.secret
    BY DEF At, Side

LEMMA MoveIsAt ==
    ASSUME NEW s, NEW stage
    PROVE  /\ ClientMoves(s, stage) => client' = [client EXCEPT ![s] = At(client[s], stage)]
           /\ ServerMoves(s, stage) => handler' = [handler EXCEPT ![s] = At(handler[s], stage)]
    BY DEF ClientMoves, ServerMoves, At

-----------------------------------------------------------------------------
(* Giving up, on either side.                                               *)
LEMMA GivesUp ==
    ASSUME IInv, NEW s \in Sessions, ClientGivesUp(s) \/ ServerGivesUp(s)
    PROVE  IInv'
<1> DEFINE c == client[s]  h == handler[s]  i == toServer[s]  o == toClient[s]
<1>0. SessionTypes(c, h, i, o) /\ SessionInv(c, h, i, o)
    BY BySession DEF SessionsInv
<1>m. ManagerTypes /\ (UNCHANGED managers => ManagerTypes')
    BY DEF IInv, TypeOK, ManagerTypes, managers
<1>1. CASE ClientGivesUp(s)
    <2>1. SessionTypes(At(c, "failed"), h, i, None) /\ SessionInv(At(c, "failed"), h, i, None)
        BY <1>0, <1>1, AtStage DEF ClientGivesUp, SessionTypes, SessionInv, Stages, Waiting,
                                   Authenticated
    <2>2. /\ client' = [client EXCEPT ![s] = At(c, "failed")]
          /\ handler' = [handler EXCEPT ![s] = h]
          /\ toServer' = [toServer EXCEPT ![s] = i]
          /\ toClient' = [toClient EXCEPT ![s] = None]
        BY <1>1, MoveIsAt, Unchanged DEF ClientGivesUp
    <2>3. ManagerTypes'
        BY <1>1, <1>m DEF ClientGivesUp
    <2> QED BY <2>1, <2>2, <2>3, OneSession
<1>2. CASE ServerGivesUp(s)
    <2>1. SessionTypes(c, At(h, "failed"), None, o) /\ SessionInv(c, At(h, "failed"), None, o)
        BY <1>0, <1>2, AtStage DEF ServerGivesUp, SessionTypes, SessionInv, Stages, Waiting,
                                   Authenticated
    <2>2. /\ client' = [client EXCEPT ![s] = c]
          /\ handler' = [handler EXCEPT ![s] = At(h, "failed")]
          /\ toServer' = [toServer EXCEPT ![s] = None]
          /\ toClient' = [toClient EXCEPT ![s] = o]
        BY <1>2, MoveIsAt, Unchanged DEF ServerGivesUp
    <2>3. ManagerTypes'
        BY <1>2, <1>m DEF ServerGivesUp
    <2> QED BY <2>1, <2>2, <2>3, OneSession
<1> QED BY <1>1, <1>2

-----------------------------------------------------------------------------
(* The steps of the handshake.                                              *)
LEMMA ServerStep ==
    ASSUME IInv, NEW s \in Sessions, Respond(s) \/ VerifyClient(s)
    PROVE  IInv'
<1> DEFINE c == client[s]  h == handler[s]  i == toServer[s]  o == toClient[s]
<1>0. SessionTypes(c, h, i, o) /\ SessionInv(c, h, i, o)
    BY BySession DEF SessionsInv
<1>m. ManagerTypes /\ (UNCHANGED managers => ManagerTypes')
    BY DEF IInv, TypeOK, ManagerTypes, managers
<1>s. ASSUME NEW m \in Message, NEW stage \in Stages, ServerSends(s, m, stage),
             Reaches(c) => SessionInv(c, At(h, stage), None, m),
             ~Reaches(c) => SessionInv(c, At(h, stage), None, o),
             SessionInv(c, At(h, "failed"), None, o)
      PROVE  IInv'
    <2>1. ManagerTypes' /\ client' = [client EXCEPT ![s] = c]
              /\ toServer' = [toServer EXCEPT ![s] = None]
        BY <1>s, <1>m, Unchanged DEF ServerSends
    <2>t. /\ SessionTypes(c, At(h, stage), None, m)
          /\ SessionTypes(c, At(h, stage), None, o)
          /\ SessionTypes(c, At(h, "failed"), None, o)
        BY <1>0, AtStage DEF SessionTypes, Stages
    <2>2. CASE Reaches(c)
        <3>1. handler' = [handler EXCEPT ![s] = At(h, stage)]
                  /\ toClient' = [toClient EXCEPT ![s] = m]
            BY <1>s, <2>2, MoveIsAt DEF ServerSends
        <3> QED BY <1>s, <2>1, <2>t, <2>2, <3>1, OneSession
    <2>3. CASE ~Reaches(c) /\ ServerMoves(s, stage)
        <3>1. handler' = [handler EXCEPT ![s] = At(h, stage)]
                  /\ toClient' = [toClient EXCEPT ![s] = o]
            BY <1>s, <2>3, MoveIsAt, Unchanged DEF ServerSends
        <3> QED BY <1>s, <2>1, <2>t, <2>3, <3>1, OneSession
    <2>4. CASE ~Reaches(c) /\ ServerMoves(s, "failed")
        <3>1. handler' = [handler EXCEPT ![s] = At(h, "failed")]
                  /\ toClient' = [toClient EXCEPT ![s] = o]
            BY <1>s, <2>4, MoveIsAt, Unchanged DEF ServerSends
        <3> QED BY <1>s, <2>1, <2>t, <3>1, OneSession
    <2> QED BY <1>s, <2>2, <2>3, <2>4 DEF ServerSends
<1>1. CASE Respond(s)
    <2> DEFINE m == [type |-> "hello_response", proof |-> Proof(h.secret, h.device, c.device)]
    <2>1. m \in Message
        BY <1>0, <1>1 DEF SessionInv, Respond, Message, Proof
    <2>2. /\ SessionInv(c, At(h, "proof"), None, m)
          /\ SessionInv(c, At(h, "proof"), None, o)
          /\ SessionInv(c, At(h, "failed"), None, o)
        BY <1>0, <1>1, AtStage DEF SessionInv, SessionTypes, Respond, Stages, Authenticated
    <2> QED BY <1>1, <1>s, <2>1, <2>2 DEF Respond, Stages
<1>2. CASE VerifyClient(s)
    <2>1. SessionInv(c, At(h, "failed"), None, o)
        BY <1>0, <1>2, AtStage DEF SessionInv, SessionTypes, VerifyClient, Stages, Authenticated
    <2>2. [type |-> "auth_ok"] \in Message /\ [type |-> "auth_error"] \in Message
        BY DEF Message
    <2>3. CASE i.proof = Proof(h.secret, c.device, h.device)
        <3>1. c.stage # "hello" /\ c.secret = h.secret
            BY <1>0, <1>2, <2>3 DEF SessionInv, VerifyClient, Proof
        <3>2. SessionInv(c, At(h, "authenticated"), None, [type |-> "auth_ok"])
                  /\ SessionInv(c, At(h, "authenticated"), None, o)
            BY <1>0, <1>2, <3>1, AtStage DEF SessionInv, SessionTypes, VerifyClient, Stages,
                                             Authenticated
        <3> QED BY <1>2, <1>s, <2>1, <2>2, <2>3, <3>2 DEF VerifyClient, Stages
    <2>4. CASE ~(i.proof = Proof(h.secret, c.device, h.device))
        <3>1. c.secret # h.secret
            BY <1>0, <1>2, <2>4 DEF SessionInv, VerifyClient
        <3>2. SessionInv(c, At(h, "refused"), None, o)
                  /\ SessionInv(c, At(h, "refused"), None, [type |-> "auth_error"])
            BY <1>0, <1>2, <3>1, AtStage DEF SessionInv, SessionTypes, VerifyClient, Stages,
                                             Authenticated
        <3> QED BY <1>2, <1>s, <2>1, <2>2, <2>4, <3>2 DEF VerifyClient, Stages
    <2> QED BY <2>3, <2>4
<1> QED BY <1>1, <1>2

LEMMA ClientStep ==
    ASSUME IInv, NEW s \in Sessions, VerifyServer(s) \/ ReadOutcome(s)
    PROVE  IInv'
<1> DEFINE c == client[s]  h == handler[s]  i == toServer[s]  o == toClient[s]
<1>0. SessionTypes(c, h, i, o) /\ SessionInv(c, h, i, o)
    BY BySession DEF SessionsInv
<1>m. ManagerTypes /\ (UNCHANGED managers => ManagerTypes')
    BY DEF IInv, TypeOK, ManagerTypes, managers
<1>t. ASSUME NEW stage \in Stages
      PROVE  SessionTypes(At(c, stage), h, i, None)
    BY <1>0, AtStage DEF SessionTypes
<1>s. ASSUME NEW stage \in Stages, ClientMoves(s, stage),
             toClient' = [toClient EXCEPT ![s] = None],
             UNCHANGED <<managers, handler, toServer>>,
             SessionInv(At(c, stage), h, i, None)
      PROVE  IInv'
    <2>1. /\ ManagerTypes' /\ client' = [client EXCEPT ![s] = At(c, stage)]
          /\ handler' = [handler EXCEPT ![s] = h] /\ toServer' = [toServer EXCEPT ![s] = i]
        BY <1>s, <1>m, MoveIsAt, Unchanged
    <2> QED BY <1>s, <1>t, <2>1, OneSession
<1>1. CASE VerifyServer(s)
    <2> DEFINE m == [type |-> "auth_proof", proof |-> Proof(c.secret, c.device, h.device)]
    <2>1. m \in Message
        BY <1>0, <1>1 DEF SessionInv, VerifyServer, Message, Proof
    <2>2. h.stage # "hello" /\ c.stage = "hello"
        BY <1>0, <1>1 DEF SessionInv, VerifyServer
    <2>3. /\ SessionInv(At(c, "proof"), h, i, None)
          /\ SessionInv(At(c, "failed"), h, i, None)
          /\ Reaches(h) => SessionInv(At(c, "proof"), h, m, None)
        BY <1>0, <2>1, <2>2, AtStage DEF SessionInv, SessionTypes, Stages, Authenticated, Reaches,
                                         Waiting
    <2>4. CASE ClientSends(s, m, "proof") /\ Reaches(h)
        <3>1. /\ ManagerTypes' /\ client' = [client EXCEPT ![s] = At(c, "proof")]
              /\ handler' = [handler EXCEPT ![s] = h] /\ toServer' = [toServer EXCEPT ![s] = m]
              /\ toClient' = [toClient EXCEPT ![s] = None]
            BY <1>m, <2>4, MoveIsAt, Unchanged DEF ClientSends
        <3>2. SessionTypes(At(c, "proof"), h, m, None)
            BY <1>0, <2>1, AtStage DEF SessionTypes, Stages
        <3> QED BY <2>3, <2>4, <3>1, <3>2, OneSession
    <2>5. CASE ClientSends(s, m, "proof") /\ ~Reaches(h)
        BY <1>s, <2>3, <2>5 DEF ClientSends, Stages
    <2>6. CASE /\ ~(o.proof = Proof(c.secret, h.device, c.device))
               /\ ClientMoves(s, "refused") /\ toClient' = [toClient EXCEPT ![s] = None]
               /\ UNCHANGED <<managers, handler, toServer>>
        <3>1. c.secret # h.secret
            BY <1>0, <1>1, <2>6 DEF SessionInv, VerifyServer
        <3>2. SessionInv(At(c, "refused"), h, i, None)
            BY <1>0, <2>2, <3>1, AtStage DEF SessionInv, SessionTypes, Stages, Authenticated
        <3> QED BY <1>s, <2>6, <3>2 DEF Stages
    <2> QED BY <1>1, <2>4, <2>5, <2>6 DEF VerifyServer
<1>2. CASE ReadOutcome(s)
    <2>1. CASE o.type = "auth_ok"
        <3>1. SessionInv(At(c, "authenticated"), h, i, None)
            BY <1>0, <1>2, <2>1, AtStage DEF SessionInv, SessionTypes, ReadOutcome, Stages,
                                             Authenticated
        <3> QED BY <1>2, <1>s, <2>1, <3>1 DEF ReadOutcome, Stages
    <2>2. CASE o.type # "auth_ok"
        <3>1. c.secret # h.secret
            BY <1>0, <1>2, <2>2 DEF SessionInv, SessionTypes, ReadOutcome, Message
        <3>2. SessionInv(At(c, "refused"), h, i, None)
            BY <1>0, <1>2, <3>1, AtStage DEF SessionInv, SessionTypes, ReadOutcome, Stages,
                                             Authenticated
        <3> QED BY <1>2, <1>s, <2>2, <3>2 DEF ReadOutcome, Stages
    <2> QED BY <2>1, <2>2
<1> QED BY <1>1, <1>2

(* Storing the peer, or failing to.                                         *)
LEMMA TrustStep ==
    ASSUME IInv, NEW s \in Sessions, ClientTrusts(s) \/ ServerTrusts(s)
    PROVE  IInv'
<1> DEFINE c == client[s]  h == handler[s]  i == toServer[s]  o == toClient[s]
<1>0. SessionTypes(c, h, i, o) /\ SessionInv(c, h, i, o)
    BY BySession DEF SessionsInv
<1>m. ManagerTypes /\ (UNCHANGED managers => ManagerTypes')
    BY DEF IInv, TypeOK, ManagerTypes, managers
<1>1. CASE ClientTrusts(s)
    <2>1. PICK stage \in {"trusted", "untrusted"} : ClientMoves(s, stage)
        BY <1>1 DEF ClientTrusts
    <2>2. SessionTypes(At(c, stage), h, i, o) /\ SessionInv(At(c, stage), h, i, o)
        BY <1>0, <1>1, AtStage DEF ClientTrusts, SessionTypes, SessionInv, Stages, Authenticated
    <2>3. /\ ManagerTypes' /\ client' = [client EXCEPT ![s] = At(c, stage)]
          /\ handler' = [handler EXCEPT ![s] = h] /\ toServer' = [toServer EXCEPT ![s] = i]
          /\ toClient' = [toClient EXCEPT ![s] = o]
        BY <1>1, <1>m, <2>1, MoveIsAt, Unchanged DEF ClientTrusts
    <2> QED BY <2>2, <2>3, OneSession
<1>2. CASE ServerTrusts(s)
    <2>1. PICK stage \in {"trusted", "untrusted"} : ServerMoves(s, stage)
        BY <1>2 DEF ServerTrusts
    <2>2. SessionTypes(c, At(h, stage), i, o) /\ SessionInv(c, At(h, stage), i, o)
        BY <1>0, <1>2, AtStage DEF ServerTrusts, SessionTypes, SessionInv, Stages, Authenticated
    <2>3. /\ ManagerTypes' /\ client' = [client EXCEPT ![s] = c]
          /\ handler' = [handler EXCEPT ![s] = At(h, stage)]
          /\ toServer' = [toServer EXCEPT ![s] = i] /\ toClient' = [toClient EXCEPT ![s] = o]
        BY <1>2, <1>m, <2>1, MoveIsAt, Unchanged DEF ServerTrusts
    <2> QED BY <2>2, <2>3, OneSession
<1> QED BY <1>1, <1>2

LEMMA DialStep ==
    ASSUME IInv, NEW s \in Sessions, NEW d \in Devices, NEW e \in Devices, Dial(s, d, e)
    PROVE  IInv'
<1> DEFINE o == toClient[s]  m == [type |-> "hello"]
<1>0. SessionTypes(client[s], handler[s], toServer[s], o)
          /\ SessionInv(client[s], handler[s], toServer[s], o)
    BY BySession DEF SessionsInv
<1>1. key[d] \in Secrets /\ server[e] \in Secrets
    BY DEF Dial, IInv, TypeOK
<1>2. o = None
    BY <1>0 DEF Dial, SessionInv, Nobody
<1>3. SessionTypes(SideOf(d, key[d]), SideOf(e, server[e]), m, o)
    BY <1>0, <1>1 DEF SessionTypes, SideOf, Side, Stages, Message
<1>4. SessionInv(SideOf(d, key[d]), SideOf(e, server[e]), m, o)
    BY <1>1, <1>2 DEF SessionInv, SideOf, Authenticated
<1>5. ManagerTypes'
    BY DEF Dial, IInv, TypeOK, ManagerTypes, managers
<1>6. /\ client' = [client EXCEPT ![s] = SideOf(d, key[d])]
      /\ handler' = [handler EXCEPT ![s] = SideOf(e, server[e])]
      /\ toServer' = [toServer EXCEPT ![s] = m]
      /\ toClient' = [toClient EXCEPT ![s] = o]
    BY Unchanged DEF Dial
<1> QED BY <1>3, <1>4, <1>5, <1>6, OneSession

-----------------------------------------------------------------------------
(* The managers.  Closing a server takes each of its sessions to a failed   *)
(* handler with nothing on its way to it.                                   *)
LEMMA CloseStep ==
    ASSUME IInv, NEW d \in Devices, CloseServer(d), ManagerTypes', UNCHANGED <<client, toClient>>
    PROVE  IInv'
<1>1. ASSUME NEW s \in Sessions
      PROVE  /\ SessionTypes(client'[s], handler'[s], toServer'[s], toClient'[s])
             /\ SessionInv(client'[s], handler'[s], toServer'[s], toClient'[s])
    <2> DEFINE c == client[s]  h == handler[s]  i == toServer[s]  o == toClient[s]
    <2>0. SessionTypes(c, h, i, o) /\ SessionInv(c, h, i, o)
        BY <1>1, BySession DEF SessionsInv
    <2>1. CASE h.device = d /\ h.stage \in Waiting
        <3>1. handler'[s] = At(h, "failed") /\ toServer'[s] = None
            BY <1>1, <2>1 DEF CloseServer, At
        <3>2. SessionTypes(c, At(h, "failed"), None, o)
            BY <2>0, AtStage DEF SessionTypes, Stages
        <3>3. SessionInv(c, At(h, "failed"), None, o)
            BY <2>0, <2>1, AtStage DEF SessionTypes, SessionInv, Stages, Authenticated, Waiting
        <3> QED BY <3>1, <3>2, <3>3
    <2>2. CASE ~(h.device = d /\ h.stage \in Waiting)
        BY <1>1, <2>0, <2>2 DEF CloseServer
    <2> QED BY <2>1, <2>2
<1>2. TypeOK'
    <2>1. handler' \in [Sessions -> Side] /\ toServer' \in [Sessions -> Message \cup {None}]
        BY <1>1 DEF CloseServer, SessionTypes
    <2> QED BY <2>1 DEF IInv, TypeOK, ManagerTypes
<1> QED BY <1>1, <1>2 DEF IInv, SidesInv, ChannelInv, Agreement, SameSecretNeverRefused, SessionInv

LEMMA ManagerStep ==
    ASSUME IInv, NEW d \in Devices, (\E k \in Secrets : Start(d, k)) \/ Serve(d) \/ Stop(d)
    PROVE  IInv'
<1>1. ASSUME NEW k \in Secrets, Start(d, k) PROVE IInv'
    <2>1. ManagerTypes'
        BY <1>1 DEF Start, IInv, TypeOK, ManagerTypes
    <2> QED BY <1>1, <2>1, CloseStep DEF Start
<1>2. CASE Stop(d)
    <2>1. ManagerTypes'
        BY <1>2 DEF Stop, IInv, TypeOK, ManagerTypes
    <2> QED BY <1>2, <2>1, CloseStep DEF Stop
<1>3. CASE Serve(d)
    BY <1>3 DEF Serve, IInv, TypeOK, SidesInv, ChannelInv, Agreement, SameSecretNeverRefused
<1> QED BY <1>1, <1>2, <1>3

LEMMA NextIInv == IInv /\ [Next]_vars => IInv'
<1> SUFFICES ASSUME IInv, [Next]_vars PROVE IInv'
    OBVIOUS
<1>1. ASSUME NEW s \in Sessions, Step(s) PROVE IInv'
    BY <1>1, ServerStep, ClientStep, TrustStep, GivesUp DEF Step
<1>2. ASSUME NEW s \in Sessions, NEW d \in Devices, NEW e \in Devices, Dial(s, d, e) PROVE IInv'
    BY <1>2, DialStep
<1>3. ASSUME NEW d \in Devices, (\E k \in Secrets : Start(d, k)) \/ Serve(d) \/ Stop(d)
      PROVE  IInv'
    BY <1>3, ManagerStep
<1>4. CASE UNCHANGED vars
    BY <1>4 DEF vars, managers, IInv, TypeOK, SidesInv, ChannelInv, Agreement,
                SameSecretNeverRefused
<1> QED BY <1>1, <1>2, <1>3, <1>4 DEF Next

(* The inductive invariant holds in every reachable state.                  *)
THEOREM Invariance == Spec => []IInv
<1>1. Init => IInv BY InitIInv
<1>2. IInv /\ [Next]_vars => IInv' BY NextIInv
<1> QED BY <1>1, <1>2, PTL DEF Spec

(* Every variable keeps its type.                                           *)
THEOREM TypeCorrect == Spec => []TypeOK
<1>1. IInv => TypeOK BY DEF IInv
<1> QED BY <1>1, Invariance, PTL

(* A client that believes it is paired was accepted by the server of the    *)
(* same connection, and both hold the same secret (client.go:107-142,       *)
(* server.go:143-157).                                                      *)
THEOREM Authentication == Spec => []Agreement
<1>1. IInv => Agreement BY DEF IInv
<1> QED BY <1>1, Invariance, PTL

(* Two devices that hold the same secret are never told that they do not:   *)
(* whatever is lost or late and however servers are restarted, neither side *)
(* refuses the other (client.go:108-142, server.go:143-149).                *)
THEOREM NeverRefused == Spec => []SameSecretNeverRefused
<1>1. IInv => SameSecretNeverRefused BY DEF IInv
<1> QED BY <1>1, Invariance, PTL
=============================================================================
