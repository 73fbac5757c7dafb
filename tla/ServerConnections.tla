-------------------------- MODULE ServerConnections --------------------------
(***************************************************************************)
(* One control server and its connections (internal/direct/server.go), as  *)
(* the manager uses it: Serve is launched as a goroutine, accepts one      *)
(* connection after the other and gives each a goroutine that performs the *)
(* handshake and then stores the peer; Close may come at any moment, even  *)
(* before Serve has begun, and the manager closes the listener itself      *)
(* after it (manager.go StartControlServer, StopControlServer).            *)
(*                                                                         *)
(* What is said in a handshake is Handshake's; here it ends well or not,   *)
(* and well only while the connection is open.  A server is not used again *)
(* after it was closed: a restart makes a new one.                         *)
(***************************************************************************)
CONSTANT Conns      \* connections: bounds how many devices make

VARIABLES
    closedState,    \* s.closedState, read and written under s.mu
    closed,         \* the channel s.closed is closed
    kept,           \* s.listener is set
    listening,      \* the listener is open
    loop,           \* where Serve is
    active,         \* s.active
    open,           \* connections that are open on this side
    pc,             \* connection -> where it is
    closer,         \* where Close, and the manager after it, is
    found,          \* Close found s.listener set
    taken           \* the connections Close has taken and not closed yet

vars == <<closedState, closed, kept, listening, loop, active, open, pc, closer, found, taken>>

(* In the loop's hands, then with a goroutine of its own, then that         *)
(* goroutine's deferred calls.                                              *)
Stages == {"none", "accepted", "adding", "refused",
           "handshake", "trusting", "drop", "close", "done"}

Init ==
    /\ closedState = FALSE
    /\ closed = FALSE
    /\ kept = FALSE
    /\ listening = TRUE
    /\ loop = "launched"
    /\ active = {}
    /\ open = {}
    /\ pc = [c \in Conns |-> "none"]
    /\ closer = "idle"
    /\ found = FALSE
    /\ taken = {}

Goto(c, stage) == pc' = [pc EXCEPT ![c] = stage]

closing == <<closedState, closed, closer, found, taken>>

-----------------------------------------------------------------------------
(* Serve: a server that is closed already only closes the listener.         *)
Serve ==
    /\ loop = "launched"
    /\ IF closedState
       THEN loop' = "done" /\ listening' = FALSE /\ UNCHANGED kept
       ELSE loop' = "accept" /\ kept' = TRUE /\ UNCHANGED listening
    /\ UNCHANGED <<active, open, pc, closing>>

(* The loop waits in Accept, or is past it with a connection.               *)
Accepting == loop = "accept" /\ \A c \in Conns : pc[c] \notin {"accepted", "adding", "refused"}

Accept(c) ==
    /\ Accepting
    /\ listening
    /\ pc[c] = "none"
    /\ open' = open \cup {c}
    /\ Goto(c, "accepted")
    /\ UNCHANGED <<kept, listening, loop, active, closing>>

(* Accept fails on a closed listener, and may fail on an open one: either   *)
(* way the loop is over.                                                    *)
AcceptFails ==
    /\ Accepting
    /\ loop' = "leave"
    /\ UNCHANGED <<kept, listening, active, open, pc, closing>>

CheckClosed(c) ==
    /\ pc[c] = "accepted"
    /\ IF closed
       THEN Goto(c, "done") /\ open' = open \ {c} /\ loop' = "leave"
       ELSE Goto(c, "adding") /\ UNCHANGED <<open, loop>>
    /\ UNCHANGED <<kept, listening, active, closing>>

(* Mutant: the connection is added whatever the state of the server.        *)
AddAnyway(c) ==
    /\ pc[c] = "adding"
    /\ Goto(c, "handshake")
    /\ active' = active \cup {c}
    /\ UNCHANGED <<kept, listening, loop, open, closing>>

AddActive(c) ==
    /\ pc[c] = "adding"
    /\ IF closedState
       THEN Goto(c, "refused") /\ UNCHANGED active
       ELSE Goto(c, "handshake") /\ active' = active \cup {c}
    /\ UNCHANGED <<kept, listening, loop, open, closing>>

(* The loop goes on after a connection it could not add.                    *)
CloseRefused(c) ==
    /\ pc[c] = "refused"
    /\ Goto(c, "done")
    /\ open' = open \ {c}
    /\ UNCHANGED <<kept, listening, loop, active, closing>>

(* The deferred call.                                                       *)
Leave ==
    /\ loop = "leave"
    /\ loop' = "done"
    /\ kept' = FALSE
    /\ UNCHANGED <<listening, active, open, pc, closing>>

-----------------------------------------------------------------------------
(* handle: reading and writing fail on a closed connection and when the ten *)
(* seconds are over.                                                        *)
Authenticate(c) ==
    /\ pc[c] = "handshake"
    /\ c \in open
    /\ Goto(c, "trusting")
    /\ UNCHANGED <<kept, listening, loop, active, open, closing>>

HandshakeFails(c) ==
    /\ pc[c] = "handshake"
    /\ Goto(c, "drop")
    /\ UNCHANGED <<kept, listening, loop, active, open, closing>>

(* OnAuthenticated returns: Close does not end it.                          *)
Trusted(c) ==
    /\ pc[c] = "trusting"
    /\ Goto(c, "drop")
    /\ UNCHANGED <<kept, listening, loop, active, open, closing>>

(* Mutant: the connection stays registered.                                 *)
KeepActive(c) ==
    /\ pc[c] = "drop"
    /\ Goto(c, "close")
    /\ UNCHANGED <<kept, listening, loop, active, open, closing>>

(* The deferred calls: the connection is removed from s.active first, and   *)
(* closed after that.                                                       *)
DropActive(c) ==
    /\ pc[c] = "drop"
    /\ active' = active \ {c}
    /\ Goto(c, "close")
    /\ UNCHANGED <<kept, listening, loop, open, closing>>

CloseConn(c) ==
    /\ pc[c] = "close"
    /\ open' = open \ {c}
    /\ Goto(c, "done")
    /\ UNCHANGED <<kept, listening, loop, active, closing>>

Handle(c) ==
    \/ Authenticate(c)
    \/ HandshakeFails(c)
    \/ Trusted(c)
    \/ DropActive(c)
    \/ CloseConn(c)

-----------------------------------------------------------------------------
(* Mutant: the connections are taken before the state says closed.          *)
BeginCloseOpen ==
    /\ closer = "idle"
    /\ closer' = "channel"
    /\ taken' = active
    /\ found' = kept
    /\ UNCHANGED <<closedState, closed, kept, listening, loop, active, open, pc>>

(* Close, under s.mu: the state, the listener and the connections; ...      *)
BeginClose ==
    /\ closer = "idle"
    /\ closer' = "channel"
    /\ closedState' = TRUE
    /\ taken' = active
    /\ found' = kept
    /\ UNCHANGED <<closed, kept, listening, loop, active, open, pc>>

(* ... then without it the channel, the listener, ...                       *)
CloseChannel ==
    /\ closer = "channel"
    /\ closer' = "listener"
    /\ closed' = TRUE
    /\ UNCHANGED <<closedState, kept, listening, loop, active, open, pc, found, taken>>

CloseListener ==
    /\ closer = "listener"
    /\ closer' = "connections"
    /\ listening' = (listening /\ ~found)
    /\ UNCHANGED <<closedState, closed, kept, loop, active, open, pc, found, taken>>

(* ... and the connections one by one.                                      *)
CloseTaken(c) ==
    /\ closer = "connections"
    /\ c \in taken
    /\ taken' = taken \ {c}
    /\ open' = open \ {c}
    /\ UNCHANGED <<closedState, closed, kept, listening, loop, active, pc, closer, found>>

(* Mutant: the manager trusts Close with the listener.                      *)
LeaveManagersListener ==
    /\ closer = "connections"
    /\ taken = {}
    /\ closer' = "done"
    /\ UNCHANGED <<closedState, closed, kept, listening, loop, active, open, pc, found, taken>>

(* The manager closes the listener it kept.                                 *)
CloseManagersListener ==
    /\ closer = "connections"
    /\ taken = {}
    /\ closer' = "done"
    /\ listening' = FALSE
    /\ UNCHANGED <<closedState, closed, kept, loop, active, open, pc, found, taken>>

Closing == CloseChannel \/ CloseListener \/ CloseManagersListener \/ \E c \in Conns : CloseTaken(c)

Loop == Serve \/ Leave \/ \E c \in Conns : CheckClosed(c) \/ AddActive(c) \/ CloseRefused(c)

Next ==
    \/ Loop
    \/ AcceptFails
    \/ \E c \in Conns : Accept(c) \/ Handle(c)
    \/ BeginClose
    \/ Closing

Spec == Init /\ [][Next]_vars

(* Goroutines run, a handshake ends within its ten seconds, storing a peer  *)
(* ends, a Close that has begun ends, and Accept returns on a closed        *)
(* listener.  Nobody has to connect or to close the server.                 *)
Fairness ==
    /\ WF_vars(Loop)
    /\ WF_vars(~listening /\ AcceptFails)
    /\ WF_vars(Closing)
    /\ \A c \in Conns : WF_vars(Handle(c))

FairSpec == Spec /\ Fairness

-----------------------------------------------------------------------------
TypeOK ==
    /\ closedState \in BOOLEAN /\ closed \in BOOLEAN
    /\ kept \in BOOLEAN /\ listening \in BOOLEAN /\ found \in BOOLEAN
    /\ loop \in {"launched", "accept", "leave", "done"}
    /\ active \subseteq Conns
    /\ open \subseteq Conns
    /\ pc \in [Conns -> Stages]
    /\ closer \in {"idle", "channel", "listener", "connections", "done"}
    /\ taken \subseteq Conns

(* Open, and about to be closed by the goroutine that holds it.             *)
InHand(c) == pc[c] \in {"accepted", "adding", "refused", "close"}

(* When the manager has closed a server its port is free, and a connection  *)
(* that is still open is in the hands of a goroutine that closes it: no     *)
(* device is heard any more (server.go:86-106, 108-110, 175-193,            *)
(* manager.go:247-253).                                                     *)
ClosedHearsNobody ==
    closer = "done" => ~listening /\ \A c \in open : InHand(c)

(* A server that is closed authenticates nobody: after Close has returned,  *)
(* as when the user has stopped listening or started again with another     *)
(* secret, no handshake with the old one succeeds (server.go:86-106,        *)
(* 139-157).                                                                *)
NoLateAuthentication ==
    [][closer = "done" => \A c \in Conns : pc[c] = "handshake" => pc'[c] # "trusting"]_vars

(* After Close everything ends, even when it came before Serve or while the *)
(* loop held a connection: the loop and every goroutine are over, nothing   *)
(* is open or registered (server.go:45-84, 108-110).                        *)
CloseEndsEverything ==
    closedState ~> /\ loop = "done" /\ ~listening /\ ~kept
                   /\ open = {} /\ active = {}
                   /\ \A c \in Conns : pc[c] \in {"none", "done"}

(* To the manager a server is something that is open, closing or closed and *)
(* hears the connections that are registered and open: it admits none from  *)
(* the moment Close has marked it, not even one the loop had accepted, and  *)
(* is closed only when none is heard any more (server.go:72-106, 175-193).  *)
Phase == IF closer = "idle" THEN "open" ELSE IF closer = "done" THEN "closed" ELSE "closing"

Server == INSTANCE Closable
          WITH Channels <- Conns, phase <- Phase, carried <- active \cap open

RefinesClosable == Server!Spec

-----------------------------------------------------------------------------
(* Why Close misses nobody.  A connection is registered from the moment its *)
(* goroutine is begun until its deferred calls, and open without being      *)
(* registered only in somebody's hands; what was registered and open when   *)
(* the server was closed has been taken, and nothing is registered since.   *)
ActiveInv ==
    \A c \in Conns : c \in active <=> pc[c] \in {"handshake", "trusting", "drop"}

OpenInv ==
    \A c \in Conns : pc[c] \in {"none", "done"} => c \notin open

ClosingInv ==
    /\ closedState <=> closer # "idle"
    /\ closed => closedState
    /\ closedState => active \cap open \subseteq taken
    /\ closer = "done" => taken = {} /\ ~listening

IInv == TypeOK /\ ActiveInv /\ OpenInv /\ ClosingInv
=============================================================================
