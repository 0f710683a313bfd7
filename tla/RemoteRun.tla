------------------------------ MODULE RemoteRun ------------------------------
(***************************************************************************)
(* What winexe promises its user, without pipes, services or versions: the *)
(* command is started at most once, it writes to its streams while it      *)
(* runs, what it wrote is shown in order, and its result is known once, at *)
(* the end, when everything it wrote has been shown.                       *)
(***************************************************************************)
EXTENDS Naturals

CONSTANTS Streams, Codes

VARIABLES
    phase,   \* of the command: "idle", "running" or "ended"
    written, \* written[s]: chunks the command wrote to s
    shown,   \* shown[s]: chunks of s the user saw
    result   \* what the user knows of the command's end

vars == <<phase, written, shown, result>>

Init ==
    /\ phase = "idle"
    /\ written = [s \in Streams |-> 0]
    /\ shown = [s \in Streams |-> 0]
    /\ result = "unknown"

Start ==
    /\ phase = "idle"
    /\ phase' = "running"
    /\ UNCHANGED <<written, shown, result>>

Write(s) ==
    /\ phase = "running"
    /\ written' = [written EXCEPT ![s] = @ + 1]
    /\ UNCHANGED <<phase, shown, result>>

Show(s) ==
    /\ shown[s] < written[s]
    /\ shown' = [shown EXCEPT ![s] = @ + 1]
    /\ UNCHANGED <<phase, written, result>>

End ==
    /\ phase = "running"
    /\ phase' = "ended"
    /\ UNCHANGED <<written, shown, result>>

Learn ==
    /\ phase = "ended"
    /\ shown = written
    /\ result = "unknown"
    /\ result' \in Codes
    /\ UNCHANGED <<phase, written, shown>>

Next == Start \/ End \/ Learn \/ \E s \in Streams : Write(s) \/ Show(s)

Spec == Init /\ [][Next]_vars
=============================================================================
