---------------------------- MODULE MCAdmission ----------------------------
(* The two judgements that come before a delivery, in one run: a behaviour *)
(* is a resolution of a route decision or a validation of a plan.  The two *)
(* share no state, so what the other one holds is of no matter.            *)
EXTENDS MCRouteDecision, MCPlanValidation

SomeInputs ==
    [request |-> CHOOSE r \in Requests : TRUE, envelope |-> GoodEnvelope,
     policy |-> GoodPolicy, record |-> GoodRecord]

SomeSubmission == CHOOSE s \in Submissions : s.plan.steps = <<>>

(* No resolution: none of its stages is due.                               *)
NoResolution ==
    /\ request = SomeInputs.request
    /\ envelope = SomeInputs.envelope
    /\ policy = SomeInputs.policy
    /\ record = SomeInputs.record
    /\ pc = "idle"
    /\ denials = <<>>
    /\ admitted = TRUE
    /\ decision = NoDecision

(* No validation: none of its checks is due.                               *)
NoValidation ==
    /\ submission = SomeSubmission
    /\ checking = "idle"
    /\ item = 1
    /\ total = 0
    /\ index = [s \in StepIds |-> 0]
    /\ reason = "none"

AdmissionInit ==
    \/ Init /\ NoValidation
    \/ NoResolution /\ ValidationInit

AdmissionNext ==
    \/ Next /\ UNCHANGED validationVars
    \/ ValidationNext /\ UNCHANGED vars

AdmissionSpec == AdmissionInit /\ [][AdmissionNext]_<<vars, validationVars>>
=============================================================================
