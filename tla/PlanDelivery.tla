---------------------------- MODULE PlanDelivery ----------------------------
(***************************************************************************)
(* Per-step delivery of a validated execution plan:                        *)
(* ExecutionService::deliver_plan_per_step_via_registry with               *)
(* dispatch_one_step, declared_fallback_step and                           *)
(* build_plan_outcome_status_from_route (app/execution_service.rs).        *)
(*                                                                         *)
(* The coordinator walks the declared steps in order.  A step is handed to *)
(* the adapter registered for its capability; when it does not complete,   *)
(* its declared fallback step is dispatched at once, out of order, and the *)
(* later turn of that step reuses the result.  Under                       *)
(* cancel_remaining_steps a step that stays not completed stops the rest.  *)
(* When every step has had its turn the outcomes are folded into one final *)
(* status.  Any contract error aborts the whole call and drops the trace.  *)
(*                                                                         *)
(* Steps are their positions in the plan.  A text is abstracted to its     *)
(* length in bytes, which the contract limits, and to the words in it that *)
(* the forensic recorder looks for.                                        *)
(***************************************************************************)
EXTENDS Integers, Sequences, FiniteSets

CONSTANTS
    N,             \* number of declared steps
    Capabilities,  \* capabilities a step may name
    IdBytes,       \* possible lengths of the plan's step ids
    Words,         \* words the forensic recorder looks for
    SummaryBytes,  \* possible lengths of a text an adapter returns
    MaxRefs        \* bound on the number of fallback references

(* is_valid_step_id admits ids of 1 to 48 bytes; a validated plan is never *)
(* empty.                                                                  *)
ASSUME PlanAssumption ==
    /\ N \in Nat \ {0}
    /\ IdBytes \subseteq 1..48
    /\ SummaryBytes \subseteq Nat
    /\ MaxRefs \in Nat

Steps == 1..N

NoStep == 0

(* The longest text ExecutionStatus::validate and the adapter contract     *)
(* accept.                                                                 *)
MaxSummaryBytes == 160

Summaries == [bytes : SummaryBytes, words : SUBSET Words]

Text == [bytes : Nat, words : SUBSET Words]

NoText == [bytes |-> 0, words |-> {}]

(* AdapterDeliveryResult; of the payloads only the texts matter to a       *)
(* per-step delivery.                                                      *)
TextResults == {"FailedAtDeclaredStep", "DependencyUnavailable"}

UnsupportedResults == {"CompletedWithDeclaredFallback", "Unsupported"}

SilentResults == {"DeliveredAllSteps", "CanceledAtDeclaredStep"}

AdapterResults ==
    {[kind |-> k, summary |-> t] : k \in TextResults, t \in Summaries}
    \cup {[kind |-> k, summary |-> NoText] :
            k \in SilentResults \cup UnsupportedResults}

OutcomeKinds == {"Pending", "Completed", "CompletedViaFallback", "Failed",
                 "Canceled", "Unavailable", "Skipped"}

(* StepDeliveryOutcome; "Pending" stands for a step whose turn has not     *)
(* come, or for a key absent from fallback_results.                        *)
Outcomes == [kind : OutcomeKinds, summary : Text, via : Steps \cup {NoStep}]

Outcome(kind, summary, via) ==
    [kind |-> kind, summary |-> summary, via |-> via]

Pending == Outcome("Pending", NoText, NoStep)

(* A fallback reference: a declared step and the declared later step that  *)
(* may stand in for it (ExecutionPlanValidator checks both).               *)
FallbackReferences ==
    {r \in [step_id : Steps, fallback_step_id : Steps] :
        r.step_id < r.fallback_step_id}

(* fallback_references of a valid plan: a list without repeated items, in  *)
(* which one step may have several references and one step may be the      *)
(* fallback of several others.                                             *)
ReferenceLists ==
    {refs \in UNION {[1..n -> FallbackReferences] : n \in 0..MaxRefs} :
        \A i, j \in DOMAIN refs : refs[i] = refs[j] => i = j}

Plans ==
    [fallback_references : ReferenceLists,
     cancellation_policy : {"CancelRemainingSteps", "FinishInFlightOnly"},
     capability : [Steps -> Capabilities],
     idBytes : IdBytes,
     words : [Steps -> SUBSET Words]]

-----------------------------------------------------------------------------
VARIABLES
    plan,             \* the validated plan being delivered
    routeMatches,     \* the selected route is deliverable and is this plan's
    registry,         \* capabilities with a registered adapter
    pc,               \* where deliver_plan_per_step_via_registry stands
    cursor,           \* the step whose turn it is
    outcome,          \* local variable `outcome` of the current turn
    outcomes,         \* local vector `outcomes`, by step
    fallbackResults,  \* local map `fallback_results`
    stopDispatching,  \* local flag `stop_dispatching`
    statuses,         \* the execution trace built so far
    calls,            \* how often an adapter was asked to deliver the step
    world             \* what the adapter of the step really did

inputs == <<plan, routeMatches, registry>>

locals == <<cursor, outcome, outcomes, fallbackResults, stopDispatching>>

vars == <<inputs, pc, locals, statuses, calls, world>>

(* A status of the trace: its state, its degraded subtype, the step it     *)
(* names and the words of its user-visible summary.                        *)
Status(state, subtype, step, words) ==
    [state |-> state, subtype |-> subtype, step |-> step, words |-> words]

Statuses ==
    [state : {"AdmittedNotStarted", "InProgress", "Completed",
              "CompletedWithConstraints", "PartialSuccess", "Failed",
              "Canceled", "Degraded"},
     subtype : {"None", "DegradedFallbackEquivalent", "DegradedFallbackLimited",
                "DegradedPartial", "UnavailableDependencyBlock"},
     step : Steps \cup {NoStep},
     words : SUBSET Words]

WorldStates == {"NotCalled", "DeliveredAllSteps", "FailedAtDeclaredStep",
                "CanceledAtDeclaredStep", "DependencyUnavailable",
                "CompletedWithDeclaredFallback", "Unsupported"}

(* Every variable has its type; the trace is a sequence of statuses.       *)
TypeOK ==
    /\ plan \in Plans
    /\ routeMatches \in BOOLEAN
    /\ registry \in SUBSET Capabilities
    /\ pc \in {"admit", "turn", "attempted", "settled", "returned", "error"}
    /\ cursor \in 1..(N + 1)
    /\ outcome \in Outcomes
    /\ outcomes \in [Steps -> Outcomes]
    /\ fallbackResults \in [Steps -> Outcomes]
    /\ stopDispatching \in BOOLEAN
    /\ statuses \in Seq(Statuses)
    /\ calls \in [Steps -> Nat]
    /\ world \in [Steps -> WorldStates]

Init ==
    /\ plan \in Plans
    /\ routeMatches \in BOOLEAN
    /\ registry \in SUBSET Capabilities
    /\ pc = "admit"
    /\ cursor = 1
    /\ outcome = Pending
    /\ outcomes = [s \in Steps |-> Pending]
    /\ fallbackResults = [s \in Steps |-> Pending]
    /\ stopDispatching = FALSE
    /\ statuses = <<>>
    /\ calls = [s \in Steps |-> 0]
    /\ world = [s \in Steps |-> "NotCalled"]

-----------------------------------------------------------------------------
(* An error result: the caller gets the error and no trace at all.         *)
ContractInvalid ==
    /\ pc' = "error"
    /\ statuses' = <<>>
    /\ UNCHANGED locals

(* The checks before the loop and the first status.                        *)
Admit ==
    /\ pc = "admit"
    /\ \/ /\ routeMatches
          /\ pc' = "turn"
          /\ statuses' = <<Status("AdmittedNotStarted", "None", NoStep, {})>>
          /\ UNCHANGED locals
       \/ /\ ~routeMatches
          /\ ContractInvalid
    /\ UNCHANGED <<inputs, calls, world>>

NotCompleted(o) == o.kind \in {"Failed", "Unavailable", "Canceled"}

Completing(o) == o.kind \in {"Completed", "CompletedViaFallback"}

(* validate_required_summary                                               *)
ValidSummary(text) == text.bytes \in 1..MaxSummaryBytes

InProgress(s) == Status("InProgress", "None", s, plan.words[s])

(* Without an adapter the step is Unavailable, with a text of 46 bytes and *)
(* a 36 byte capability id.                                                *)
NoAdapter == [kind |-> "NoAdapter", summary |-> [bytes |-> 82, words |-> {}]]

(* What asking the registry for the step's adapter, and that adapter for   *)
(* the delivery, may answer.                                               *)
Answers(s) ==
    IF plan.capability[s] \in registry THEN AdapterResults ELSE {NoAdapter}

(* The answers dispatch_one_step turns into a contract error.              *)
Rejected(r) ==
    \/ r.kind \in UnsupportedResults
    \/ r.kind \in TextResults /\ ~ValidSummary(r.summary)

(* A plausible slip: an answer without a case of its own keeps its name.   *)
BugOutcomeKind(r) ==
    CASE r.kind = "DeliveredAllSteps" -> "Completed"
      [] r.kind = "FailedAtDeclaredStep" -> "Failed"
      [] r.kind = "CanceledAtDeclaredStep" -> "Canceled"
      [] OTHER -> r.kind

(* The outcome it makes of any other answer.                               *)
OutcomeKind(r) ==
    CASE r.kind = "DeliveredAllSteps" -> "Completed"
      [] r.kind = "FailedAtDeclaredStep" -> "Failed"
      [] r.kind = "CanceledAtDeclaredStep" -> "Canceled"
      [] OTHER -> "Unavailable"

OutcomeOf(r) == Outcome(OutcomeKind(r), r.summary, NoStep)

(* The effect of an answer outside the coordinator.                        *)
Deliver(s, r) ==
    \/ /\ r = NoAdapter
       /\ UNCHANGED <<calls, world>>
    \/ /\ r # NoAdapter
       /\ calls' = [calls EXCEPT ![s] = @ + 1]
       /\ world' = [world EXCEPT ![s] = r.kind]

(* dispatch_one_step, preceded by the in_progress status of the step.      *)
DispatchOneStep(s, r) ==
    /\ r \in Answers(s)
    /\ ~Rejected(r)
    /\ Deliver(s, r)
    /\ statuses' = Append(statuses, InProgress(s))

(* declared_fallback_step: the target of the first reference for the step, *)
(* unless it was already dispatched as another step's fallback.            *)
DeclaredFallback(s) ==
    {f \in Steps : \E i \in DOMAIN plan.fallback_references :
        /\ plan.fallback_references[i] = [step_id |-> s, fallback_step_id |-> f]
        /\ \A j \in 1..(i - 1) : plan.fallback_references[j].step_id # s}

(* A plausible slip: a fallback that another step used up is used again.   *)
BugDeclaredFallbackStep(s) == DeclaredFallback(s)

DeclaredFallbackStep(s) ==
    {f \in DeclaredFallback(s) : fallbackResults[f] = Pending}

-----------------------------------------------------------------------------
(* One turn of the loop over the declared steps.                           *)

TurnOf(s) == pc = "turn" /\ cursor = s

(* The step was already dispatched as another step's fallback: its result  *)
(* is reused, even after dispatching has stopped.                          *)
ReuseFallbackResult ==
    \E s \in Steps :
        /\ TurnOf(s)
        /\ fallbackResults[s] # Pending
        /\ outcomes' = [outcomes EXCEPT ![s] = fallbackResults[s]]
        /\ fallbackResults' = [fallbackResults EXCEPT ![s] = Pending]
        /\ cursor' = cursor + 1
        /\ UNCHANGED <<inputs, pc, outcome, stopDispatching, statuses, calls,
                       world>>

SkipStep ==
    \E s \in Steps :
        /\ TurnOf(s)
        /\ fallbackResults[s] = Pending
        /\ stopDispatching
        /\ outcomes' = [outcomes EXCEPT ![s] = Outcome("Skipped", NoText, NoStep)]
        /\ cursor' = cursor + 1
        /\ UNCHANGED <<inputs, pc, outcome, fallbackResults, stopDispatching,
                       statuses, calls, world>>

(* Plausible slips: the loop ignores that it has stopped dispatching, or   *)
(* that the step already ran as a fallback.                                *)
BugDueAfterStop(s) == TurnOf(s) /\ fallbackResults[s] = Pending

BugDueAgain(s) == TurnOf(s) /\ ~stopDispatching

(* A plausible slip: only a failed step is given its fallback.             *)
BugDueAsFallback(s) ==
    /\ pc = "attempted"
    /\ outcome.kind = "Failed"
    /\ s \in DeclaredFallbackStep(cursor)

(* The step s is the next one to hand to its adapter, in its own turn or   *)
(* as the fallback of the step whose turn it is.                           *)
DueInTurn(s) ==
    TurnOf(s) /\ fallbackResults[s] = Pending /\ ~stopDispatching

DueAsFallback(s) ==
    /\ pc = "attempted"
    /\ NotCompleted(outcome)
    /\ s \in DeclaredFallbackStep(cursor)

DispatchStep ==
    \E s \in Steps : \E r \in Answers(s) :
        /\ DueInTurn(s)
        /\ DispatchOneStep(s, r)
        /\ outcome' = OutcomeOf(r)
        /\ pc' = "attempted"
        /\ UNCHANGED <<inputs, cursor, outcomes, fallbackResults,
                       stopDispatching>>

(* A plausible slip: the fallback's own outcome is not looked at.          *)
BugOutcomeWithFallback(o, f, fallbackOutcome) ==
    Outcome("CompletedViaFallback", NoText, f)

(* A fallback that completes turns the primary's outcome into              *)
(* CompletedViaFallback; otherwise the primary keeps its own.              *)
OutcomeWithFallback(o, f, fallbackOutcome) ==
    IF fallbackOutcome.kind = "Completed"
    THEN Outcome("CompletedViaFallback", NoText, f)
    ELSE o

DispatchFallback ==
    \E f \in Steps : \E r \in Answers(f) :
        /\ DueAsFallback(f)
        /\ DispatchOneStep(f, r)
        /\ outcome' = OutcomeWithFallback(outcome, f, OutcomeOf(r))
        /\ fallbackResults' = [fallbackResults EXCEPT ![f] = OutcomeOf(r)]
        /\ pc' = "settled"
        /\ UNCHANGED <<inputs, cursor, outcomes, stopDispatching>>

(* An answer the per-step contract does not admit ends the call with an    *)
(* error, whatever was delivered before.                                   *)
AbortDispatch ==
    \E s \in Steps : \E r \in Answers(s) :
        /\ DueInTurn(s) \/ DueAsFallback(s)
        /\ Rejected(r)
        /\ Deliver(s, r)
        /\ ContractInvalid
        /\ UNCHANGED inputs

StopsPlan(o) ==
    NotCompleted(o) /\ plan.cancellation_policy = "CancelRemainingSteps"

(* The end of the turn of a step that was dispatched.                      *)
SettleStep ==
    \E s \in Steps :
        /\ cursor = s
        /\ \/ pc = "settled"
           \/ pc = "attempted" /\ ~\E f \in Steps : DueAsFallback(f)
        /\ outcomes' = [outcomes EXCEPT ![s] = outcome]
        /\ stopDispatching' = (stopDispatching \/ StopsPlan(outcome))
        /\ cursor' = cursor + 1
        /\ pc' = "turn"
        /\ UNCHANGED <<inputs, outcome, fallbackResults, statuses, calls, world>>

-----------------------------------------------------------------------------
(* build_plan_outcome_status_from_route, once every step has had its turn. *)

LoopDone == pc = "turn" /\ cursor = N + 1

CompletedSteps == {s \in Steps : Completing(outcomes[s])}

StepsOfKind(kind) == {s \in Steps : outcomes[s].kind = kind}

FirstOf(S) == {s \in S : \A t \in S : s <= t}

Said(words) == words \cap Words

(* ExecutionStatus::validate accepts the final status only if its texts    *)
(* fit; the longest of them has this many bytes.                           *)
Publish(status, bytes) ==
    /\ LoopDone
    /\ \/ /\ bytes <= MaxSummaryBytes
          /\ statuses' = Append(statuses, status)
          /\ pc' = "returned"
          /\ UNCHANGED locals
       \/ /\ bytes > MaxSummaryBytes
          /\ ContractInvalid
    /\ UNCHANGED <<inputs, calls, world>>

ReportCompleted ==
    /\ StepsOfKind("Completed") = Steps
    /\ Publish(Status("Completed", "None", NoStep, Said({"success"})), 55)

(* The text lists every pair "step -> fallback", separated by ", ".        *)
FallbackTextBytes ==
    63 - 2 + Cardinality(StepsOfKind("CompletedViaFallback")) * (2 * plan.idBytes + 6)

(* The step ids named in the pairs, and with them their words.             *)
FallbackTextWords ==
    UNION {plan.words[s] \cup plan.words[outcomes[s].via] :
             s \in StepsOfKind("CompletedViaFallback")}

ReportCompletedViaFallback ==
    /\ CompletedSteps = Steps
    /\ StepsOfKind("CompletedViaFallback") # {}
    /\ Publish(Status("CompletedWithConstraints", "DegradedFallbackLimited", NoStep,
                      Said({"success"}) \cup FallbackTextWords),
               FallbackTextBytes)

(* The detail quoted for a step that did not complete.                     *)
DetailBytes(o) ==
    CASE o.kind \in {"Failed", "Unavailable"} -> o.summary.bytes
      [] o.kind = "Canceled" -> 17
      [] OTHER -> 55

(* "step {id} did not complete: {detail}" for the first such step.         *)
ReportPartialSuccess ==
    /\ CompletedSteps \notin {{}, Steps}
    /\ \E s \in FirstOf(Steps \ CompletedSteps) :
        Publish(Status("PartialSuccess", "DegradedPartial", s, Said({"success"})),
                24 + plan.idBytes + DetailBytes(outcomes[s]))

(* The failure text of the first failed step is the status's own text.     *)
ReportFailed ==
    /\ CompletedSteps = {}
    /\ \E s \in FirstOf(StepsOfKind("Failed")) :
        Publish(Status("Failed", "None", NoStep, outcomes[s].summary.words),
                outcomes[s].summary.bytes)

ReportCanceled ==
    /\ CompletedSteps = {}
    /\ StepsOfKind("Failed") = {}
    /\ \E s \in FirstOf(StepsOfKind("Canceled")) :
        Publish(Status("Canceled", "None", s, Said({"cancel"}) \cup plan.words[s]),
                48 + plan.idBytes)

ReportUnavailable ==
    /\ CompletedSteps = {}
    /\ StepsOfKind("Failed") = {}
    /\ StepsOfKind("Canceled") = {}
    /\ Publish(Status("Degraded", "UnavailableDependencyBlock", NoStep, {}), 52)

BuildPlanOutcomeStatus ==
    \/ ReportCompleted
    \/ ReportCompletedViaFallback
    \/ ReportPartialSuccess
    \/ ReportFailed
    \/ ReportCanceled
    \/ ReportUnavailable

-----------------------------------------------------------------------------
Next ==
    \/ Admit
    \/ ReuseFallbackResult
    \/ SkipStep
    \/ DispatchStep
    \/ DispatchFallback
    \/ AbortDispatch
    \/ SettleStep
    \/ BuildPlanOutcomeStatus

(* The coordinator is one sequential call whose adapters answer, so it     *)
(* never stops half way.                                                   *)
Spec == Init /\ [][Next]_vars

-----------------------------------------------------------------------------
(* Properties.                                                             *)

Delivered == {s \in Steps : world[s] = "DeliveredAllSteps"}

FinalStatus == statuses[Len(statuses)]

(* No step reaches an adapter twice, although a step may be dispatched     *)
(* out of turn as a fallback of several others and has a turn of its own   *)
(* (deliver_plan_per_step_via_registry, fallback_results).                 *)
AtMostOnce == \A s \in Steps : calls[s] <= 1

(* The final status claims neither more nor less than the adapters did:    *)
(* completed only if every step was delivered, completed with constraints  *)
(* only if the declared fallback of each undelivered step was, partial     *)
(* success only for a real mix, and the failure states only if nothing     *)
(* was delivered (build_plan_outcome_status_from_route).                   *)
TruthfulReport ==
    pc = "returned" =>
        /\ FinalStatus.state = "Completed" => Delivered = Steps
        /\ FinalStatus.state = "CompletedWithConstraints" =>
              /\ Delivered # Steps
              /\ \A s \in Steps \ Delivered :
                    DeclaredFallback(s) \cap Delivered # {}
        /\ FinalStatus.state = "PartialSuccess" =>
              Delivered \notin {{}, Steps}
        /\ FinalStatus.state \in {"Failed", "Canceled", "Degraded"} =>
              Delivered = {}
        /\ FinalStatus.state \notin {"AdmittedNotStarted", "InProgress"}

(* Once a step and its fallback have settled as not completed under        *)
(* cancel_remaining_steps, no adapter is called any more.                  *)
NoCallAfterStop ==
    [][ (\E s \in 1..(cursor - 1) : StopsPlan(outcomes[s])) => calls' = calls ]_vars

(* A declared fallback is never wasted: when a step stays not completed in *)
(* a returned trace, its fallback was tried and did not deliver either, or *)
(* was spent on an earlier step, or the step itself ran as the fallback of *)
(* an earlier step (declared_fallback_step).                               *)
FallbackRescues ==
    pc = "returned" =>
        \A s \in Steps : NotCompleted(outcomes[s]) =>
            \A f \in DeclaredFallback(s) :
                \/ /\ f \notin Delivered
                   /\ InProgress(f) \in {statuses[i] : i \in DOMAIN statuses}
                \/ \E t \in 1..(s - 1) : outcomes[t].via = f
                \/ \E t \in 1..(s - 1) : s \in DeclaredFallback(t)

(* What the coordinator promises, whatever the plan: DeliveryContract with *)
(* the adapters' answers as the world and the returned final status as the *)
(* report.                                                                 *)
Report ==
    CASE pc = "returned" -> FinalStatus.state
      [] pc = "error" -> "error"
      [] OTHER -> "none"

Contract == INSTANCE DeliveryContract WITH
    attempted <- {s \in Steps : calls[s] > 0},
    delivered <- Delivered,
    report <- Report

(* The loop implements the contract: each step is attempted at most once,  *)
(* nothing is attempted after the report, and the report is one that the   *)
(* deliveries support.                                                     *)
ImplementsContract == Contract!Spec
=============================================================================
