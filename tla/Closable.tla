------------------------------- MODULE Closable -------------------------------
(***************************************************************************)
(* What a server or a bridge promises of being closed, with no lock, no    *)
(* loop and no goroutine: it admits connections while it is open, drops    *)
(* them at any time, admits nothing from the moment somebody begins to     *)
(* close it, and is closed only when nothing is left that it carries.      *)
(***************************************************************************)
CONSTANT Channels   \* what can be carried

VARIABLES
    phase,      \* "open", "closing" or "closed"
    carried     \* the channels that are admitted and open

vars == <<phase, carried>>

Init ==
    /\ phase = "open"
    /\ carried = {}

Admit(c) ==
    /\ phase = "open"
    /\ carried' = carried \cup {c}
    /\ UNCHANGED phase

(* One channel ends, or all of a connection's.                              *)
Drop ==
    /\ carried' \subseteq carried
    /\ UNCHANGED phase

BeginClose ==
    /\ phase = "open"
    /\ phase' = "closing"
    /\ UNCHANGED carried

EndClose ==
    /\ phase = "closing"
    /\ carried = {}
    /\ phase' = "closed"
    /\ UNCHANGED carried

Next ==
    \/ \E c \in Channels : Admit(c)
    \/ Drop
    \/ BeginClose
    \/ EndClose

Spec == Init /\ [][Next]_vars
=============================================================================
