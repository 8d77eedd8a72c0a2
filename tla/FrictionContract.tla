--------------------------- MODULE FrictionContract ---------------------------
(***************************************************************************)
(* What FrictionPayload::validate accepts: the notice that tells an        *)
(* operator why a request was stopped, waits or ended short of completion. *)
(* Its tables of postures, states and subtypes are written apart from      *)
(* those of the status contract.  A summary is the caller's own, bounded   *)
(* and without narration; the guards of a denial are represented by their  *)
(* number.                                                                 *)
(***************************************************************************)
EXTENDS StatusContract

FrictionKinds == {"Denial", "ReviewRequired", "ExplicitApprovalRequired",
                  "ExecutionConstraint"}

ConstrainedStates == {"Degraded", "PartialSuccess", "CompletedWithConstraints",
                      "Failed", "Canceled"}

MaxDenialGuards == 5

(* What each kind asks of a payload: the operator's action, the state, and *)
(* what is linked.                                                         *)
FrictionRule(kind) ==
    CASE kind = "Denial" ->
            [action |-> "Stop", states |-> {"Denied"}, route |-> May,
             linked |-> Never, package |-> Never, guards |-> 1..MaxDenialGuards]
      [] kind = "ReviewRequired" ->
            [action |-> "Review", states |-> {"ReviewRequired"}, route |-> Must,
             linked |-> Never, package |-> Never, guards |-> {0}]
      [] kind = "ExplicitApprovalRequired" ->
            [action |-> "ApproveOrDecline", states |-> {"WaitingExplicitApproval"},
             route |-> Must, linked |-> Must, package |-> Must, guards |-> {0}]
      [] kind = "ExecutionConstraint" ->
            [action |-> "Acknowledge", states |-> ConstrainedStates, route |-> May,
             linked |-> Must, package |-> Never, guards |-> {0}]

(* validate_posture_state_pair; a state without friction goes with none.   *)
FrictionPostures(state) ==
    CASE state = "Denied" -> {"Denied"}
      [] state = "ReviewRequired" -> {"ReviewRequired"}
      [] state = "WaitingExplicitApproval" -> {"ExplicitOperatorApproval"}
      [] state \in ConstrainedStates -> AdmittedPostures
      [] OTHER -> {}

(* A plausible slip: a partial success is held to be a fallback.           *)
BugFrictionSubtypes(state) ==
    CASE state = "Degraded" -> Subtypes
      [] state \in {"PartialSuccess", "CompletedWithConstraints"} -> FallbackSubtypes
      [] OTHER -> {Absent}

(* validate_degraded_subtype.                                              *)
FrictionSubtypes(state) ==
    CASE state \in {"Degraded", "PartialSuccess"} -> Subtypes
      [] state = "CompletedWithConstraints" -> FallbackSubtypes
      [] OTHER -> {Absent}

(* FrictionPayload::validate.                                              *)
ValidateFriction(payload) ==
    LET rule == FrictionRule(payload.friction_kind)
    IN  /\ payload.current_posture \in FrictionPostures(payload.execution_state)
        /\ payload.degraded_subtype \in FrictionSubtypes(payload.execution_state)
        /\ payload.operator_action = rule.action
        /\ payload.execution_state \in rule.states
        /\ (payload.route_decision_id # Absent) \in rule.route
        /\ (payload.execution_plan_id # Absent) \in rule.linked
        /\ payload.review_package \in rule.package
        /\ payload.denial_guards \in rule.guards
=============================================================================
