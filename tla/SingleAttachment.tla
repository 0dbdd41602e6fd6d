-------------------------- MODULE SingleAttachment --------------------------
(***************************************************************************)
(* What the server promises about PTY children, without saying how: at     *)
(* most one runs that the server still answers for, a takeover is          *)
(* confirmed only once the displaced child is gone, and after a teardown   *)
(* that could not be confirmed nothing starts.                             *)
(***************************************************************************)
CONSTANT Attachments

VARIABLES
    phase,      \* of each attachment: "new", "running", "abandoned" or "ended"
    blocked,    \* a teardown could not be confirmed
    displaced   \* attachments whose takeover was confirmed

vars == <<phase, blocked, displaced>>

Running == {a \in Attachments : phase[a] = "running"}

Init ==
    /\ phase = [a \in Attachments |-> "new"]
    /\ blocked = FALSE
    /\ displaced = {}

Begin(a) ==
    /\ phase[a] = "new"
    /\ Running = {}
    /\ ~blocked
    /\ phase' = [phase EXCEPT ![a] = "running"]
    /\ UNCHANGED <<blocked, displaced>>

\* A failed start loses sight of its child, which may run on.
Abandon(a) ==
    /\ phase[a] = "running"
    /\ phase' = [phase EXCEPT ![a] = "abandoned"]
    /\ UNCHANGED <<blocked, displaced>>

End(a) ==
    /\ phase[a] \in {"running", "abandoned"}
    /\ phase' = [phase EXCEPT ![a] = "ended"]
    /\ UNCHANGED <<blocked, displaced>>

\* A teardown fails; its child may have ended all the same, by now or before.
Fail(a) ==
    /\ phase[a] # "new"
    /\ blocked' = TRUE
    /\ \E p \in {phase[a], "ended"} : phase' = [phase EXCEPT ![a] = p]
    /\ UNCHANGED displaced

Confirm(a) ==
    /\ phase[a] = "ended"
    /\ displaced' = displaced \cup {a}
    /\ UNCHANGED <<phase, blocked>>

Next == \E a \in Attachments : Begin(a) \/ Abandon(a) \/ End(a) \/ Fail(a) \/ Confirm(a)

Spec == Init /\ [][Next]_vars
=============================================================================
