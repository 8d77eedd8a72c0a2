-------------------------- MODULE DeliveryContract --------------------------
(***************************************************************************)
(* What delivering a plan promises to whoever asked for it, without saying *)
(* how: every declared step reaches an adapter at most once, attempting    *)
(* stops with the report, and the report is supported by what was really   *)
(* delivered.  An error may be returned at any time and promises nothing.  *)
(***************************************************************************)
CONSTANT Steps

VARIABLES
    attempted,  \* steps handed to an adapter
    delivered,  \* steps an adapter really delivered
    report      \* what the caller was told, "none" before that

vars == <<attempted, delivered, report>>

Init ==
    /\ attempted = {}
    /\ delivered = {}
    /\ report = "none"

Attempt(s) ==
    /\ report = "none"
    /\ s \notin attempted
    /\ attempted' = attempted \cup {s}
    /\ \/ delivered' = delivered \cup {s}
       \/ delivered' = delivered
    /\ report' \in {"none", "error"}

(* The reports that the deliveries support.                                *)
Supported ==
    {r \in {"Completed"} : delivered = Steps}
    \cup {r \in {"CompletedWithConstraints", "PartialSuccess"} :
            delivered \notin {{}, Steps}}
    \cup {r \in {"Failed", "Canceled", "Degraded"} : delivered = {}}
    \cup {"error"}

GiveReport ==
    /\ report = "none"
    /\ report' \in Supported
    /\ UNCHANGED <<attempted, delivered>>

Next == GiveReport \/ \E s \in Steps : Attempt(s)

Spec == Init /\ [][Next]_vars
=============================================================================
