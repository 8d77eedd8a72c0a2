---------------------------- MODULE StatusContract ----------------------------
(***************************************************************************)
(* What ExecutionStatus::validate accepts: for every execution state, the  *)
(* approval postures it goes with and the fields it must or must not       *)
(* carry.  Every status that FA Local builds, loads or records passes      *)
(* through it.                                                             *)
(*                                                                         *)
(* A text is represented by what the checks read of it: whether it is      *)
(* empty, fits its bound of 160 bytes or is longer, and whether it speaks  *)
(* of a degraded or fallback execution.                                    *)
(***************************************************************************)
EXTENDS Integers

Absent == "None"

NoTime == 0

Postures == {"Denied", "ReviewRequired", "ExplicitOperatorApproval",
             "PolicyPreapproved", "ExecuteAllowed"}

AdmittedPostures == {"PolicyPreapproved", "ExecuteAllowed"}

PreExecutionStates == {"Denied", "ReviewRequired", "WaitingExplicitApproval"}

FinishedStates == {"PartialSuccess", "CompletedWithConstraints", "Completed",
                   "Failed", "Canceled"}

States == PreExecutionStates \union FinishedStates
            \union {"AdmittedNotStarted", "InProgress", "Degraded"}

PreStartSubtypes == {"DegradedPreStart", "UnavailableDependencyBlock"}

FallbackSubtypes == {"DegradedFallbackEquivalent", "DegradedFallbackLimited"}

InFlightSubtypes == FallbackSubtypes \union {"DegradedInFlight", "DegradedPartial"}

Subtypes == PreStartSubtypes \union InFlightSubtypes

Texts == {"plain", "degraded", "empty", "long"}

BoundedText(text) == text \notin {"empty", "long"}

MalformedHash == "malformed hash"

MalformedStep == "malformed step"

-----------------------------------------------------------------------------
(* A rule: the postures and subtypes a state goes with, and for every      *)
(* optional field whether it is there.                                     *)
Must == {TRUE}
Never == {FALSE}
May == BOOLEAN

Rule(postures, linked, started, completed, step, completion, failure, subtypes) ==
    [postures |-> postures, linked |-> linked, started |-> started,
     completed |-> completed, step |-> step, completion |-> completion,
     failure |-> failure, subtypes |-> subtypes]

(* Denied, review_required and waiting_explicit_approval: nothing of an    *)
(* execution is there.                                                     *)
PreExecutionRule(posture) ==
    Rule({posture}, Never, Never, Never, Never, Never, Never, {Absent})

AdmittedNotStartedRule ==
    Rule(AdmittedPostures, Must, Never, Never, Never, Never, Never, {Absent})

InProgressRule ==
    Rule(AdmittedPostures, Must, Must, Never, Must, Never, Never, {Absent})

(* Degraded before the start or in flight, by its subtype.                 *)
DegradedRule(subtype) ==
    IF subtype \in PreStartSubtypes
    THEN Rule(AdmittedPostures, Must, Never, Never, Never, Never, Never, PreStartSubtypes)
    ELSE Rule(AdmittedPostures, Must, Must, Never, May, Never, Never, InFlightSubtypes)

PartialSuccessRule ==
    Rule(AdmittedPostures, Must, Must, Must, Never, Must, Must, {"DegradedPartial"})

CompletedWithConstraintsRule ==
    Rule(AdmittedPostures, Must, Must, Must, Never, Must, Never, FallbackSubtypes)

CompletedRule ==
    Rule(AdmittedPostures, Must, Must, Must, Never, Must, Never, {Absent})

FailedRule ==
    Rule(AdmittedPostures, Must, Must, Must, Never, Never, Must, {Absent})

(* A plan may be canceled before it started.                               *)
CanceledRule ==
    Rule(AdmittedPostures, Must, May, Must, Never, Never, Never, {Absent})

RuleOf(status) ==
    CASE status.state = "Denied" -> PreExecutionRule("Denied")
      [] status.state = "ReviewRequired" -> PreExecutionRule("ReviewRequired")
      [] status.state = "WaitingExplicitApproval" ->
            PreExecutionRule("ExplicitOperatorApproval")
      [] status.state = "AdmittedNotStarted" -> AdmittedNotStartedRule
      [] status.state = "InProgress" -> InProgressRule
      [] status.state = "Degraded" -> DegradedRule(status.degraded_subtype)
      [] status.state = "PartialSuccess" -> PartialSuccessRule
      [] status.state = "CompletedWithConstraints" -> CompletedWithConstraintsRule
      [] status.state = "Completed" -> CompletedRule
      [] status.state = "Failed" -> FailedRule
      [] status.state = "Canceled" -> CanceledRule

Satisfies(status, rule) ==
    /\ status.current_posture \in rule.postures
    /\ (status.execution_plan_id # Absent) \in rule.linked
    /\ (status.started_at_utc # NoTime) \in rule.started
    /\ (status.completed_at_utc # NoTime) \in rule.completed
    /\ (status.current_step # Absent) \in rule.step
    /\ (status.completion_summary # Absent) \in rule.completion
    /\ (status.failure_summary # Absent) \in rule.failure
    /\ status.degraded_subtype \in rule.subtypes

-----------------------------------------------------------------------------
(* The checks that do not depend on the state.                             *)

LinkIsPaired(status) ==
    (status.execution_plan_id = Absent) = (status.stable_plan_hash = Absent)

TextsAreBounded(status) ==
    /\ BoundedText(status.completion_summary)
    /\ BoundedText(status.failure_summary)
    /\ BoundedText(status.truthful_user_visible_summary)

(* Nothing is updated before it happened, or completed before it started.  *)
TimesAreOrdered(status) ==
    /\ status.updated_at_utc >= status.started_at_utc
    /\ status.updated_at_utc >= status.completed_at_utc
    /\ status.completed_at_utc # NoTime => status.completed_at_utc >= status.started_at_utc

(* ExecutionStatus::validate.                                              *)
Validate(status) ==
    /\ LinkIsPaired(status)
    /\ status.stable_plan_hash # MalformedHash
    /\ status.current_step # MalformedStep
    /\ TextsAreBounded(status)
    /\ TimesAreOrdered(status)
    /\ Satisfies(status, RuleOf(status))
=============================================================================
