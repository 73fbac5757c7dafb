-------------------------- MODULE BridgeConnections --------------------------
(***************************************************************************)
(* The connections of one localhost bridge                                 *)
(* (internal/localhostbridge/bridge.go): the loop that accepts, a          *)
(* goroutine for each connection, the two that copy between the device and *)
(* the local program, and Close, which takes the sockets it finds under    *)
(* b.mu and closes them after that.                                        *)
(*                                                                         *)
(* The controller starts a bridge before it keeps it and closes it once, so *)
(* a behaviour begins with a started bridge (BridgeControl has the rest).  *)
(***************************************************************************)
CONSTANT Conns      \* connections: bounds how many devices make

VARIABLES
    closed,     \* b.closed
    listening,  \* the listener is open
    serving,    \* the loop of serve goes on
    active,     \* b.active
    open,       \* sockets of connections that are open
    pc,         \* connection -> where its goroutine is
    copying,    \* sockets from which a goroutine copies to the other one
    closer,     \* where Close is
    taken       \* the sockets Close has taken and not closed yet

vars == <<closed, listening, serving, active, open, pc, copying, closer, taken>>

In(c) == <<c, "in">>        \* the device's connection
Out(c) == <<c, "out">>      \* the connection to the local program

Sockets(c) == {In(c), Out(c)}

(* A goroutine from accepted to done; "closeOut" and those that follow are  *)
(* its deferred calls.                                                      *)
Stages == {"none", "accepted", "check", "dial", "register", "copy",
           "closeOut", "dropOut", "closeIn", "dropIn", "done"}

Init ==
    /\ closed = FALSE
    /\ listening = TRUE
    /\ serving = TRUE
    /\ active = {}
    /\ open = {}
    /\ pc = [c \in Conns |-> "none"]
    /\ copying = {}
    /\ closer = "idle"
    /\ taken = {}

Goto(c, stage) == pc' = [pc EXCEPT ![c] = stage]

-----------------------------------------------------------------------------
(* serve: one connection at a time is accepted and registered.              *)
Accepting == serving /\ \A c \in Conns : pc[c] # "accepted"

Accept(c) ==
    /\ Accepting
    /\ listening
    /\ pc[c] = "none"
    /\ open' = open \cup {In(c)}
    /\ Goto(c, "accepted")
    /\ UNCHANGED <<closed, listening, serving, active, copying, closer, taken>>

AddInbound(c) ==
    /\ pc[c] = "accepted"
    /\ IF closed
       THEN /\ open' = open \ {In(c)}
            /\ serving' = FALSE
            /\ Goto(c, "done")
            /\ UNCHANGED active
       ELSE /\ active' = active \cup {In(c)}
            /\ Goto(c, "check")
            /\ UNCHANGED <<open, serving>>
    /\ UNCHANGED <<closed, listening, copying, closer, taken>>

(* Accept fails, always on a closed listener; the loop ends then or when    *)
(* the bridge is closed, and tries again otherwise.                         *)
StopServing ==
    /\ Accepting
    /\ ~listening \/ closed
    /\ serving' = FALSE
    /\ UNCHANGED <<closed, listening, active, open, pc, copying, closer, taken>>

-----------------------------------------------------------------------------
(* handle: a device that is not allowed is turned away.                     *)
CheckRemote(c) ==
    /\ pc[c] = "check"
    /\ Goto(c, "dial") \/ Goto(c, "closeIn")
    /\ UNCHANGED <<closed, listening, serving, active, open, copying, closer, taken>>

Dial(c) ==
    /\ pc[c] = "dial"
    /\ \/ Goto(c, "register") /\ open' = open \cup {Out(c)}
       \/ Goto(c, "closeIn") /\ UNCHANGED open
    /\ UNCHANGED <<closed, listening, serving, active, copying, closer, taken>>

(* Mutant: a connection dialled while the bridge was closed is kept.        *)
AddOutboundAnyway(c) ==
    /\ pc[c] = "register"
    /\ active' = active \cup {Out(c)}
    /\ copying' = copying \cup Sockets(c)
    /\ Goto(c, "copy")
    /\ UNCHANGED <<closed, listening, serving, open, closer, taken>>

AddOutbound(c) ==
    /\ pc[c] = "register"
    /\ IF closed
       THEN /\ open' = open \ {Out(c)}
            /\ Goto(c, "closeIn")
            /\ UNCHANGED <<active, copying>>
       ELSE /\ active' = active \cup {Out(c)}
            /\ copying' = copying \cup Sockets(c)
            /\ Goto(c, "copy")
            /\ UNCHANGED open
    /\ UNCHANGED <<closed, listening, serving, closer, taken>>

(* copyAndClose: the copy ends because an end hangs up, or a socket of the  *)
(* connection is closed here; then both sockets are closed.                 *)
CopyEnds(s) ==
    /\ s \in copying
    /\ copying' = copying \ {s}
    /\ open' = open \ Sockets(s[1])
    /\ UNCHANGED <<closed, listening, serving, active, pc, closer, taken>>

(* One of the two is done.                                                  *)
Done(c) ==
    /\ pc[c] = "copy"
    /\ ~(Sockets(c) \subseteq copying)
    /\ Goto(c, "closeOut")
    /\ UNCHANGED <<closed, listening, serving, active, open, copying, closer, taken>>

(* The deferred calls, last one first: a socket is closed before it is      *)
(* removed from b.active.                                                   *)
CloseOut(c) ==
    /\ pc[c] = "closeOut"
    /\ open' = open \ {Out(c)}
    /\ Goto(c, "dropOut")
    /\ UNCHANGED <<closed, listening, serving, active, copying, closer, taken>>

DropOut(c) ==
    /\ pc[c] = "dropOut"
    /\ active' = active \ {Out(c)}
    /\ Goto(c, "closeIn")
    /\ UNCHANGED <<closed, listening, serving, open, copying, closer, taken>>

(* Mutant: the device's connection is removed from b.active, not closed.    *)
RemoveInOpen(c) ==
    /\ pc[c] = "closeIn"
    /\ active' = active \ {In(c)}
    /\ Goto(c, "dropIn")
    /\ UNCHANGED <<closed, listening, serving, open, copying, closer, taken>>

CloseIn(c) ==
    /\ pc[c] = "closeIn"
    /\ open' = open \ {In(c)}
    /\ Goto(c, "dropIn")
    /\ UNCHANGED <<closed, listening, serving, active, copying, closer, taken>>

(* Mutant: the device's connection is never removed from b.active.          *)
KeepIn(c) ==
    /\ pc[c] = "dropIn"
    /\ Goto(c, "done")
    /\ UNCHANGED <<closed, listening, serving, active, open, copying, closer, taken>>

DropIn(c) ==
    /\ pc[c] = "dropIn"
    /\ active' = active \ {In(c)}
    /\ Goto(c, "done")
    /\ UNCHANGED <<closed, listening, serving, open, copying, closer, taken>>

Handle(c) ==
    \/ AddInbound(c)
    \/ CheckRemote(c)
    \/ Dial(c)
    \/ AddOutbound(c)
    \/ Done(c)
    \/ CloseOut(c)
    \/ DropOut(c)
    \/ CloseIn(c)
    \/ DropIn(c)

-----------------------------------------------------------------------------
(* Close.                                                                   *)
Close ==
    /\ closer = "idle"
    /\ closed' = TRUE
    /\ taken' = active
    /\ closer' = "listener"
    /\ UNCHANGED <<listening, serving, active, open, pc, copying>>

CloseListener ==
    /\ closer = "listener"
    /\ listening' = FALSE
    /\ closer' = "connections"
    /\ UNCHANGED <<closed, serving, active, open, pc, copying, taken>>

CloseConnection ==
    /\ closer = "connections"
    /\ \/ \E s \in taken :
             /\ open' = open \ {s}
             /\ taken' = taken \ {s}
             /\ UNCHANGED closer
       \/ /\ taken = {}
          /\ closer' = "done"
          /\ UNCHANGED <<open, taken>>
    /\ UNCHANGED <<closed, listening, serving, active, pc, copying>>

Next ==
    \/ \E c \in Conns : Accept(c) \/ Handle(c)
    \/ \E c \in Conns : \E s \in Sockets(c) : CopyEnds(s)
    \/ StopServing
    \/ Close
    \/ CloseListener
    \/ CloseConnection

Spec == Init /\ [][Next]_vars

(* Goroutines run, a dial ends after five seconds, Close that has begun     *)
(* ends, and a copy ends when both its sockets are closed (with one still   *)
(* open it may wait for that one).  The two ends owe nothing, and nobody    *)
(* has to close the bridge.                                                 *)
Fairness ==
    /\ WF_vars(~listening /\ StopServing)
    /\ WF_vars(CloseListener \/ CloseConnection)
    /\ \A c \in Conns :
          /\ WF_vars(Handle(c))
          /\ \A s \in Sockets(c) : WF_vars(Sockets(c) \cap open = {} /\ CopyEnds(s))

FairSpec == Spec /\ Fairness

-----------------------------------------------------------------------------
TypeOK ==
    /\ closed \in BOOLEAN /\ listening \in BOOLEAN /\ serving \in BOOLEAN
    /\ active \subseteq Conns \X {"in", "out"}
    /\ open \subseteq Conns \X {"in", "out"}
    /\ pc \in [Conns -> Stages]
    /\ copying \subseteq Conns \X {"in", "out"}
    /\ closer \in {"idle", "listener", "connections", "done"}
    /\ taken \subseteq Conns \X {"in", "out"}

(* A socket its goroutine has just got and not registered yet.              *)
InHand(s) == \/ s = In(s[1]) /\ pc[s[1]] = "accepted"
             \/ s = Out(s[1]) /\ pc[s[1]] = "register"

(* Once Close has returned the bridge carries nothing: a socket that is     *)
(* still open was accepted or dialled at that moment, and its goroutine     *)
(* will find the bridge closed; no copy goes on over an open socket         *)
(* (bridge.go:56-77, 96-119, 147-165).                                      *)
ClosedCarriesNothing ==
    closer = "done" => \A s \in open : InHand(s) /\ s \notin copying

(* After Close everything ends: no socket is open or registered, the loop   *)
(* and every goroutine are over (bridge.go:79-119).                         *)
CloseEndsEverything ==
    closed ~> /\ open = {} /\ active = {} /\ copying = {} /\ ~serving
              /\ \A c \in Conns : pc[c] \in {"none", "done"}

(* When one end hangs up the other one's socket is closed too, and nothing  *)
(* of the connection is left (bridge.go:112-126).                           *)
HangUpEndsBoth ==
    \A c \in Conns :
        pc[c] = "copy" /\ ~(Sockets(c) \subseteq copying) ~>
            Sockets(c) \cap (open \cup active \cup copying) = {}

(* To the one who closes it a bridge is something that is open, closing or  *)
(* closed, and carries what is registered and open: it admits no socket     *)
(* from the moment Close has marked it, and Close returns only when nothing *)
(* is carried any more (bridge.go:56-77, 96-119, 141-165).                  *)
Phase == IF closer = "idle" THEN "open" ELSE IF closer = "done" THEN "closed" ELSE "closing"

Bridge == INSTANCE Closable
          WITH Channels <- Conns \X {"in", "out"}, phase <- Phase, carried <- active \cap open

RefinesClosable == Bridge!Spec

-----------------------------------------------------------------------------
(* Why Close misses nothing.  A socket is registered only while its         *)
(* goroutine is between adding and dropping it, and closed before it is     *)
(* dropped; so it is open only while it is registered or in its goroutine's *)
(* hands.  What is registered and open once Close has begun has been taken. *)
ActiveInv ==
    \A c \in Conns :
        /\ In(c) \in active => pc[c] \notin {"none", "accepted", "done"}
        /\ Out(c) \in active => pc[c] \in {"copy", "closeOut", "dropOut"}

OpenInv ==
    \A c \in Conns :
        /\ In(c) \in open => (In(c) \in active /\ pc[c] # "dropIn") \/ pc[c] = "accepted"
        /\ Out(c) \in open => (Out(c) \in active /\ pc[c] # "dropOut") \/ pc[c] = "register"

CopyingInv ==
    \A s \in copying : pc[s[1]] \notin {"none", "accepted", "check", "dial", "register"}

TakenInv ==
    /\ closed <=> closer # "idle"
    /\ closed => active \cap open \subseteq taken
    /\ closer = "done" => taken = {}

IInv == TypeOK /\ ActiveInv /\ OpenInv /\ CopyingInv /\ TakenInv
=============================================================================
