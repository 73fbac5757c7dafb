------------------------------ MODULE Handshake ------------------------------
(***************************************************************************)
(* Pairing two devices: the challenge and response between the client of   *)
(* one (internal/direct/client.go) and the server of the other             *)
(* (internal/direct/server.go), what the managers do with its outcome, and *)
(* starting and stopping the servers meanwhile                             *)
(* (internal/direct/manager/manager.go).                                   *)
(*                                                                         *)
(* A session is one TCP connection.  Each side waits for the other's       *)
(* message before it sends its own, so at most one message is on its way   *)
(* in each direction.  A side that gives up closes its end; what the other *)
(* has sent it is lost, what it has sent may still arrive.  Nonces are     *)
(* fresh in every session and a session's messages do not leave its        *)
(* connection, so a proof is told by its secret and its two devices.       *)
(***************************************************************************)
CONSTANTS
    Devices,    \* the computers that run the program
    Secrets,    \* shared secrets a user may enter
    Sessions,   \* connections: bounds how many are made
    None,       \* no secret, no device, no message
    Faults      \* TRUE: deadlines pass, connections break, trusting may fail

ASSUME NoneAssumption == None \notin Devices \cup Secrets

VARIABLES
    server,     \* device -> secret of the server that accepts connections, or None
    starting,   \* device -> secret of a StartControlServer under way, or None
    key,        \* device -> secret of m.pairClient, or None
    client,     \* session -> the side that called PairPeer
    handler,    \* session -> the goroutine of the server's connection
    toServer,   \* session -> message on its way to the server, or None
    toClient    \* session -> message on its way to the client, or None

managers == <<server, starting, key>>
vars == <<managers, client, handler, toServer, toClient>>

(* A side: where it is, its device, the secret of its Client or Server.  It *)
(* is "refused" when it has found the other's proof wrong or been told that *)
(* its own is (ErrAuthFailed), "failed" when the connection has ended.      *)
Stages == {"idle", "hello", "proof", "authenticated", "trusted", "untrusted",
           "refused", "failed"}

Side == [stage : Stages, device : Devices \cup {None}, secret : Secrets \cup {None}]

Waiting == {"hello", "proof"}
Authenticated == {"authenticated", "trusted", "untrusted"}

Nobody == [stage |-> "idle", device |-> None, secret |-> None]

SideOf(d, k) == [stage |-> "hello", device |-> d, secret |-> k]

Proof(k, from, to) == [secret |-> k, from |-> from, to |-> to]

Message ==
    [type : {"hello", "auth_ok", "auth_error"}]
        \cup [type : {"hello_response", "auth_proof"},
              proof : [secret : Secrets, from : Devices, to : Devices]]

Init ==
    /\ server = [d \in Devices |-> None]
    /\ starting = [d \in Devices |-> None]
    /\ key = [d \in Devices |-> None]
    /\ client = [s \in Sessions |-> Nobody]
    /\ handler = [s \in Sessions |-> Nobody]
    /\ toServer = [s \in Sessions |-> None]
    /\ toClient = [s \in Sessions |-> None]

-----------------------------------------------------------------------------
(* The window runs one action at a time: a pairing or a start.              *)
Busy(d) ==
    \/ starting[d] # None
    \/ \E s \in Sessions :
          client[s].device = d /\ client[s].stage \in Waiting \cup {"authenticated"}

(* Server.Close closes the listener and every connection; a handler that    *)
(* reads or writes fails, one that is past the handshake goes on.           *)
CloseServer(d) ==
    /\ handler' = [s \in Sessions |->
          IF handler[s].device = d /\ handler[s].stage \in Waiting
          THEN [handler[s] EXCEPT !.stage = "failed"] ELSE handler[s]]
    /\ toServer' = [s \in Sessions |->
          IF handler[s].device = d /\ handler[s].stage \in Waiting THEN None ELSE toServer[s]]

(* StartControlServer, at the same address as before: the old server is     *)
(* closed, the new one listens, ...                                         *)
Start(d, k) ==
    /\ ~Busy(d)
    /\ server' = [server EXCEPT ![d] = None]
    /\ starting' = [starting EXCEPT ![d] = k]
    /\ CloseServer(d)
    /\ UNCHANGED <<key, client, toClient>>

(* ... then replaces pairClient, and serves.                                *)
Serve(d) ==
    /\ starting[d] # None
    /\ starting' = [starting EXCEPT ![d] = None]
    /\ \/ /\ server' = [server EXCEPT ![d] = starting[d]]
          /\ key' = [key EXCEPT ![d] = starting[d]]
       \/ /\ Faults
          /\ UNCHANGED <<server, key>>
    /\ UNCHANGED <<client, handler, toServer, toClient>>

(* StopControlServer, of the window or of the tray: the client stays.       *)
Stop(d) ==
    /\ server[d] # None
    /\ server' = [server EXCEPT ![d] = None]
    /\ CloseServer(d)
    /\ UNCHANGED <<starting, key, client, toClient>>

-----------------------------------------------------------------------------
(* PairPeer takes the client of the moment, connects and says hello.        *)
Dial(s, d, e) ==
    /\ client[s] = Nobody
    /\ d # e
    /\ ~Busy(d)
    /\ key[d] # None
    /\ server[e] # None
    /\ client' = [client EXCEPT ![s] = SideOf(d, key[d])]
    /\ handler' = [handler EXCEPT ![s] = SideOf(e, server[e])]
    /\ toServer' = [toServer EXCEPT ![s] = [type |-> "hello"]]
    /\ UNCHANGED <<managers, toClient>>

(* Writing succeeds while the other end is open.  Once it is closed the     *)
(* message goes nowhere, and the write may fail or not.                     *)
Reaches(side) == side.stage \in Waiting

ServerMoves(s, stage) == handler' = [handler EXCEPT ![s].stage = stage]
ClientMoves(s, stage) == client' = [client EXCEPT ![s].stage = stage]

ServerSends(s, m, stage) ==
    /\ toServer' = [toServer EXCEPT ![s] = None]
    /\ IF Reaches(client[s])
       THEN toClient' = [toClient EXCEPT ![s] = m] /\ ServerMoves(s, stage)
       ELSE UNCHANGED toClient /\ (ServerMoves(s, stage) \/ ServerMoves(s, "failed"))
    /\ UNCHANGED <<managers, client>>

ClientSends(s, m, stage) ==
    /\ toClient' = [toClient EXCEPT ![s] = None]
    /\ IF Reaches(handler[s])
       THEN toServer' = [toServer EXCEPT ![s] = m] /\ ClientMoves(s, stage)
       ELSE UNCHANGED toServer /\ (ClientMoves(s, stage) \/ ClientMoves(s, "failed"))
    /\ UNCHANGED <<managers, handler>>

(* Mutant: the server's proof names the devices in the wrong order.         *)
RespondWithDevicesSwapped(s) ==
    /\ handler[s].stage = "hello"
    /\ toServer[s] # None
    /\ ServerSends(s, [type |-> "hello_response",
                       proof |-> Proof(handler[s].secret, client[s].device, handler[s].device)],
                   "proof")

(* The hello is answered with the server's proof.                           *)
Respond(s) ==
    /\ handler[s].stage = "hello"
    /\ toServer[s] # None
    /\ ServerSends(s, [type |-> "hello_response",
                       proof |-> Proof(handler[s].secret, handler[s].device, client[s].device)],
                   "proof")

(* Mutant: the client does not wait for auth_ok.                            *)
VerifyServerOnly(s) ==
    /\ client[s].stage = "hello"
    /\ toClient[s] # None
    /\ toClient[s].type = "hello_response"
    /\ LET self == client[s].device
           peer == handler[s].device
       IN  IF toClient[s].proof = Proof(client[s].secret, peer, self)
           THEN ClientSends(s, [type |-> "auth_proof",
                                proof |-> Proof(client[s].secret, self, peer)], "authenticated")
           ELSE /\ ClientMoves(s, "refused")
                /\ toClient' = [toClient EXCEPT ![s] = None]
                /\ UNCHANGED <<managers, handler, toServer>>

(* The client verifies it and sends its own, or gives up.                   *)
VerifyServer(s) ==
    /\ client[s].stage = "hello"
    /\ toClient[s] # None
    /\ toClient[s].type = "hello_response"
    /\ LET self == client[s].device
           peer == handler[s].device
       IN  IF toClient[s].proof = Proof(client[s].secret, peer, self)
           THEN ClientSends(s, [type |-> "auth_proof",
                                proof |-> Proof(client[s].secret, self, peer)], "proof")
           ELSE /\ ClientMoves(s, "refused")
                /\ toClient' = [toClient EXCEPT ![s] = None]
                /\ UNCHANGED <<managers, handler, toServer>>

VerifyClient(s) ==
    /\ handler[s].stage = "proof"
    /\ toServer[s] # None
    /\ IF toServer[s].proof = Proof(handler[s].secret, client[s].device, handler[s].device)
       THEN ServerSends(s, [type |-> "auth_ok"], "authenticated")
       ELSE ServerSends(s, [type |-> "auth_error"], "refused")

(* Mutant: the type of the answer is taken for the stage.                   *)
ReadOutcomeAsStage(s) ==
    /\ client[s].stage = "proof"
    /\ toClient[s] # None
    /\ ClientMoves(s, toClient[s].type)
    /\ toClient' = [toClient EXCEPT ![s] = None]
    /\ UNCHANGED <<managers, handler, toServer>>

ReadOutcome(s) ==
    /\ client[s].stage = "proof"
    /\ toClient[s] # None
    /\ ClientMoves(s, IF toClient[s].type = "auth_ok" THEN "authenticated" ELSE "refused")
    /\ toClient' = [toClient EXCEPT ![s] = None]
    /\ UNCHANGED <<managers, handler, toServer>>

(* OnAuthenticated: TrustAuthenticatedPeer stores the peer or fails, and    *)
(* its error is dropped.                                                    *)
ServerTrusts(s) ==
    /\ handler[s].stage = "authenticated"
    /\ ServerMoves(s, "trusted") \/ (Faults /\ ServerMoves(s, "untrusted"))
    /\ UNCHANGED <<managers, client, toServer, toClient>>

(* The rest of PairPeer: AllowTrustedPeer and upsertTrustedPeer, or failing. *)
ClientTrusts(s) ==
    /\ client[s].stage = "authenticated"
    /\ ClientMoves(s, "trusted") \/ (Faults /\ ClientMoves(s, "untrusted"))
    /\ UNCHANGED <<managers, handler, toServer, toClient>>

(* A read that ends without a message: the other end is closed, a deadline  *)
(* has passed, or the user's context is over.                               *)
ClientGivesUp(s) ==
    /\ client[s].stage \in Waiting
    /\ Faults \/ (toClient[s] = None /\ ~Reaches(handler[s]))
    /\ ClientMoves(s, "failed")
    /\ toClient' = [toClient EXCEPT ![s] = None]
    /\ UNCHANGED <<managers, handler, toServer>>

(* Mutant: the server's deadline covers the hello only.                     *)
ServerGivesUpOnHello(s) ==
    /\ handler[s].stage = "hello"
    /\ Faults \/ (toServer[s] = None /\ ~Reaches(client[s]))
    /\ ServerMoves(s, "failed")
    /\ toServer' = [toServer EXCEPT ![s] = None]
    /\ UNCHANGED <<managers, client, toClient>>

ServerGivesUp(s) ==
    /\ handler[s].stage \in Waiting
    /\ Faults \/ (toServer[s] = None /\ ~Reaches(client[s]))
    /\ ServerMoves(s, "failed")
    /\ toServer' = [toServer EXCEPT ![s] = None]
    /\ UNCHANGED <<managers, client, toClient>>

Step(s) ==
    \/ Respond(s)
    \/ VerifyServer(s)
    \/ VerifyClient(s)
    \/ ReadOutcome(s)
    \/ ServerTrusts(s)
    \/ ClientTrusts(s)
    \/ ClientGivesUp(s)
    \/ ServerGivesUp(s)

Next ==
    \/ \E s \in Sessions : Step(s)
    \/ \E s \in Sessions : \E d, e \in Devices : Dial(s, d, e)
    \/ \E d \in Devices : (\E k \in Secrets : Start(d, k)) \/ Serve(d) \/ Stop(d)

Spec == Init /\ [][Next]_vars

(* Both goroutines of a session run, messages arrive or deadlines pass, and *)
(* a start that has begun ends.  The users owe nothing.                     *)
Fairness ==
    /\ \A s \in Sessions :
          /\ WF_vars(Respond(s) \/ VerifyClient(s) \/ ServerTrusts(s) \/ ServerGivesUp(s))
          /\ WF_vars(VerifyServer(s) \/ ReadOutcome(s) \/ ClientTrusts(s) \/ ClientGivesUp(s))
    /\ \A d \in Devices : WF_vars(Serve(d))

FairSpec == Spec /\ Fairness

-----------------------------------------------------------------------------
TypeOK ==
    /\ server \in [Devices -> Secrets \cup {None}]
    /\ starting \in [Devices -> Secrets \cup {None}]
    /\ key \in [Devices -> Secrets \cup {None}]
    /\ client \in [Sessions -> Side]
    /\ handler \in [Sessions -> Side]
    /\ toServer \in [Sessions -> Message \cup {None}]
    /\ toClient \in [Sessions -> Message \cup {None}]

(* The handshake authenticates both sides to each other: a client that      *)
(* believes it is paired has been accepted by the server of that very       *)
(* connection, and a server that accepts has been verified by its client;   *)
(* either way the two hold the same secret (client.go:107-142,              *)
(* server.go:143-157).                                                      *)
Agreement ==
    \A s \in Sessions :
        /\ client[s].stage \in Authenticated => handler[s].stage \in Authenticated
        /\ handler[s].stage \in Authenticated =>
              client[s].stage # "hello" /\ client[s].secret = handler[s].secret

(* Two devices with the same secret are never told that they do not hold    *)
(* it, whatever is lost, late or restarted meanwhile: neither side finds    *)
(* the other's proof wrong (client.go:108-114, server.go:143-149), and the  *)
(* client is not sent auth_error (client.go:135-139).                       *)
SameSecretNeverRefused ==
    \A s \in Sessions :
        client[s].secret = handler[s].secret =>
            client[s].stage # "refused" /\ handler[s].stage # "refused"

(* Every session ends on both sides: neither waits for ever.                *)
SessionsEnd ==
    \A s \in Sessions :
        /\ client[s].stage \in Waiting ~> client[s].stage \notin Waiting
        /\ handler[s].stage \in Waiting ~> handler[s].stage \notin Waiting

-----------------------------------------------------------------------------
(* What makes the agreement inductive.  The two sides of a session begin    *)
(* together, on devices and with secrets.                                   *)
SidesInv ==
    \A s \in Sessions :
        /\ client[s].stage = "idle" <=> handler[s].stage = "idle"
        /\ client[s].stage # "idle" =>
              /\ client[s].device \in Devices /\ client[s].secret \in Secrets
              /\ handler[s].device \in Devices /\ handler[s].secret \in Secrets

(* A message on its way tells how far its sender is, and what it is.        *)
ChannelInv ==
    \A s \in Sessions :
        /\ toServer[s] # None =>
              \/ handler[s].stage = "hello"
              \/ /\ handler[s].stage = "proof"
                 /\ client[s].stage # "hello"
                 /\ toServer[s].proof =
                       Proof(client[s].secret, client[s].device, handler[s].device)
        /\ handler[s].stage = "hello" => client[s].stage # "proof"
        /\ toClient[s] # None =>
              /\ handler[s].stage \notin {"idle", "hello"}
              /\ toClient[s].type \in {"hello_response", "auth_ok", "auth_error"}
        /\ toClient[s] # None /\ toClient[s].type = "hello_response" =>
              /\ client[s].stage # "proof"
              /\ toClient[s].proof =
                    Proof(handler[s].secret, handler[s].device, client[s].device)
        /\ toClient[s] # None /\ toClient[s].type = "auth_ok" =>
              handler[s].stage \in Authenticated
        /\ toClient[s] # None /\ toClient[s].type = "auth_error" =>
              client[s].secret # handler[s].secret

IInv == TypeOK /\ SidesInv /\ ChannelInv /\ Agreement /\ SameSecretNeverRefused
=============================================================================
