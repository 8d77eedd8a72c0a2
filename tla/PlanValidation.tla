--------------------------- MODULE PlanValidation ---------------------------
(***************************************************************************)
(* ExecutionPlanValidator::validate and compute_stable_plan_hash           *)
(* (domain/execution/mod.rs): the checks a submitted plan must pass before *)
(* a route is selected for it, in the order of the code, the first failing *)
(* one deciding the denial.                                                *)
(*                                                                         *)
(* A plan carries the hash somebody computed when it was prepared; that    *)
(* moment's plan is `signed`.  SHA-256 is taken to be injective, so a hash *)
(* stands for the canonical content it was computed from.                  *)
(***************************************************************************)
EXTENDS Integers, Sequences

CONSTANTS
    StepIds,       \* names a step or a fallback reference may use
    CapabilityIds, \* capabilities a plan may reference
    Effects,       \* SideEffectClass
    U64Max,        \* the largest u64
    Submissions    \* what may be submitted: a plan, the signed one, a registry

StepShape ==
    [step_id : StepIds, capability_id : CapabilityIds,
     declared_side_effect_class : Effects, timeout_budget_ms : 0..U64Max]

ReferenceShape == [step_id : StepIds, fallback_step_id : StepIds]

(* ExecutionPlan.  The schema keeps repeated items out of the lists of     *)
(* capabilities, side effects and fallback references.                     *)
PlanShape ==
    [steps : Seq(StepShape),
     referenced_capabilities : Seq(CapabilityIds),
     declared_max_step_count : Nat,
     declared_side_effect_classes : SUBSET Effects,
     fallback_references : Seq(ReferenceShape),
     cancellation_policy : {"CancelRemainingSteps", "FinishInFlightOnly"},
     completion_policy : {"AllStepsMustSucceed", "AllowDeclaredFallbackCompletion"},
     max_duration_budget_ms : 0..U64Max]

(* CapabilityRecord, and whether the registry has one.                     *)
CapabilityShape ==
    [registered : BOOLEAN, enabled : BOOLEAN, revoked : BOOLEAN, owned : BOOLEAN,
     side_effect_class : Effects, timeout_budget_ms : 0..U64Max]

SubmissionShape ==
    [plan : PlanShape, signed : PlanShape, registry : [CapabilityIds -> CapabilityShape]]

(* The schema asks for at least one referenced capability.                 *)
ASSUME SubmissionAssumption ==
    /\ U64Max \in Nat
    /\ \A s \in Submissions :
          s \in SubmissionShape /\ s.plan.referenced_capabilities # <<>>

VARIABLES
    submission, \* the plan, the plan its hash was computed from, the registry
    checking,   \* which checks are next
    item,       \* the item of the current list that is next
    total,      \* total_timeout_budget_ms
    index,      \* step_index_by_id: where each step id was seen, 0 if nowhere
    reason      \* the reason class of the denial

validationVars == <<submission, checking, item, total, index, reason>>

plan == submission.plan

Registry(c) == submission.registry[c]

(* A plausible slip: the canonical form sorts the steps, too.              *)
BugCanonical(p) ==
    [p EXCEPT !.steps = {p.steps[k] : k \in DOMAIN p.steps},
              !.referenced_capabilities = {@[k] : k \in DOMAIN @},
              !.fallback_references = {@[k] : k \in DOMAIN @}]

(* CanonicalExecutionPlan: everything but the steps is sorted, so its      *)
(* lists without repeated items are sets.                                  *)
Canonical(p) ==
    [p EXCEPT !.referenced_capabilities = {@[k] : k \in DOMAIN @},
              !.fallback_references = {@[k] : k \in DOMAIN @}]

ValidationInit ==
    /\ submission \in Submissions
    /\ checking = "bounds"
    /\ item = 1
    /\ total = 0
    /\ index = [s \in StepIds |-> 0]
    /\ reason = "none"

-----------------------------------------------------------------------------
Deny(class) ==
    /\ checking' = "denied"
    /\ reason' = class
    /\ UNCHANGED <<submission, item, total, index>>

(* On to the next item of the list, or to the next checks.                 *)
Advance(list, next) ==
    /\ checking' = IF item = Len(list) THEN next ELSE checking
    /\ item' = IF item = Len(list) THEN 1 ELSE item + 1
    /\ UNCHANGED <<submission, reason>>

(* At least one step, and no more than declared.                           *)
CheckBounds ==
    /\ checking = "bounds"
    /\ IF Len(plan.steps) \in 1..plan.declared_max_step_count
       THEN checking' = "capabilities" /\ UNCHANGED <<submission, item, total, index, reason>>
       ELSE Deny("ContractInvalid")

(* A referenced capability is registered, enabled, not revoked and ours.   *)
CheckCapability ==
    /\ checking = "capabilities"
    /\ LET c == Registry(plan.referenced_capabilities[item])
       IN  IF ~c.registered THEN Deny("CapabilityNotAdmitted")
           ELSE IF ~c.enabled THEN Deny("DisabledByOperator")
           ELSE IF c.revoked \/ ~c.owned THEN Deny("CapabilityNotAdmitted")
           ELSE /\ Advance(plan.referenced_capabilities, "steps")
                /\ UNCHANGED <<total, index>>

References(c) == \E k \in DOMAIN plan.referenced_capabilities :
                    plan.referenced_capabilities[k] = c

(* A plausible slip: the step's side effect is only compared with the      *)
(* plan's own declaration.                                                 *)
BugStepConforms(s) ==
    /\ References(s.capability_id)
    /\ s.declared_side_effect_class \in plan.declared_side_effect_classes
    /\ s.timeout_budget_ms <= Registry(s.capability_id).timeout_budget_ms

(* A step keeps to what the plan declares and to what its capability may   *)
(* do; the capability was found in the registry by CheckCapability.        *)
StepConforms(s) ==
    /\ References(s.capability_id)
    /\ s.declared_side_effect_class \in plan.declared_side_effect_classes
    /\ s.declared_side_effect_class = Registry(s.capability_id).side_effect_class
    /\ s.timeout_budget_ms <= Registry(s.capability_id).timeout_budget_ms

(* checked_add.                                                            *)
Fits(n) == n <= U64Max

(* An id seen for the first time, a conforming step, and its budget.       *)
CheckStep ==
    /\ checking = "steps"
    /\ LET s == plan.steps[item]
       IN  IF index[s.step_id] = 0 /\ StepConforms(s) /\ Fits(total + s.timeout_budget_ms)
           THEN /\ index' = [index EXCEPT ![s.step_id] = item]
                /\ total' = total + s.timeout_budget_ms
                /\ Advance(plan.steps, "budget")
           ELSE Deny("ContractInvalid")

(* The budgets fit together, and fallbacks are allowed if there are any.   *)
CheckBudget ==
    /\ checking = "budget"
    /\ IF \/ total > plan.max_duration_budget_ms
          \/ /\ plan.fallback_references # <<>>
             /\ plan.completion_policy # "AllowDeclaredFallbackCompletion"
       THEN Deny("ContractInvalid")
       ELSE /\ checking' = IF plan.fallback_references = <<>> THEN "hash" ELSE "fallbacks"
            /\ UNCHANGED <<submission, item, total, index, reason>>

(* Both steps are declared, and the fallback is a later one.               *)
FallbackIsLater(r) ==
    /\ 0 \notin {index[r.step_id], index[r.fallback_step_id]}
    /\ index[r.step_id] < index[r.fallback_step_id]

CheckFallback ==
    /\ checking = "fallbacks"
    /\ IF FallbackIsLater(plan.fallback_references[item])
       THEN Advance(plan.fallback_references, "hash") /\ UNCHANGED <<total, index>>
       ELSE Deny("ContractInvalid")

(* The hash the plan carries is the one of its content.                    *)
CheckHash ==
    /\ checking = "hash"
    /\ IF Canonical(submission.signed) = Canonical(plan)
       THEN checking' = "valid" /\ UNCHANGED <<submission, item, total, index, reason>>
       ELSE Deny("IntegrityFailed")

ValidationNext ==
    \/ CheckBounds
    \/ CheckCapability
    \/ CheckStep
    \/ CheckBudget
    \/ CheckFallback
    \/ CheckHash

ValidationSpec == ValidationInit /\ [][ValidationNext]_validationVars

-----------------------------------------------------------------------------
(* Properties.                                                             *)

(* Every variable has its type; the sum of the budgets is a u64.           *)
ValidationTypeOK ==
    /\ submission \in SubmissionShape
    /\ checking \in {"bounds", "capabilities", "steps", "budget", "fallbacks",
                     "hash", "valid", "denied"}
    /\ item \in Nat
    /\ total \in 0..U64Max
    /\ index \in [StepIds -> Nat]
    /\ reason \in {"none", "ContractInvalid", "CapabilityNotAdmitted",
                   "DisabledByOperator", "IntegrityFailed"}

Positions(p, id) == {k \in DOMAIN p.steps : p.steps[k].step_id = id}

(* What the delivery relies on, said without an order of checks: the ids   *)
(* are distinct, every capability in the plan is usable, every step stays  *)
(* within its capability, the budgets add up and every fallback reference  *)
(* leads forward (ExecutionPlanValidator::validate).                       *)
CapabilitiesUsable ==
    \A k \in DOMAIN plan.referenced_capabilities :
        LET c == Registry(plan.referenced_capabilities[k])
        IN  c.registered /\ c.enabled /\ ~c.revoked /\ c.owned

StepsBounded ==
    /\ Len(plan.steps) \in 1..plan.declared_max_step_count
    /\ \A k, l \in DOMAIN plan.steps :
          plan.steps[k].step_id = plan.steps[l].step_id => k = l
    /\ \A k \in DOMAIN plan.steps :
          LET s == plan.steps[k]
              c == Registry(s.capability_id)
          IN  /\ References(s.capability_id)
              /\ c.side_effect_class = s.declared_side_effect_class
              /\ c.side_effect_class \in plan.declared_side_effect_classes
              /\ c.timeout_budget_ms >= s.timeout_budget_ms

BudgetThrough[k \in 0..Len(plan.steps)] ==
    IF k = 0 THEN 0 ELSE BudgetThrough[k - 1] + plan.steps[k].timeout_budget_ms

FallbacksForward ==
    /\ plan.fallback_references # <<>> =>
          plan.completion_policy = "AllowDeclaredFallbackCompletion"
    /\ \A k \in DOMAIN plan.fallback_references :
          LET r == plan.fallback_references[k]
          IN  \E a \in Positions(plan, r.step_id), b \in Positions(plan, r.fallback_step_id) :
                 a < b

WellBounded ==
    /\ CapabilitiesUsable
    /\ StepsBounded
    /\ BudgetThrough[Len(plan.steps)] <= plan.max_duration_budget_ms
    /\ FallbacksForward

(* The verdict is exact: the loops with their early returns accept a plan  *)
(* just when it is well bounded and its hash is right, and call it altered *)
(* only when nothing else is wrong with it.                                *)
VerdictIsExact ==
    LET unaltered == Canonical(submission.signed) = Canonical(plan)
    IN  /\ checking = "valid" => WellBounded /\ unaltered
        /\ checking = "denied" =>
              /\ ~(WellBounded /\ unaltered)
              /\ reason = "IntegrityFailed" => WellBounded
              /\ reason \in {"CapabilityNotAdmitted", "DisabledByOperator"} =>
                    ~CapabilitiesUsable

(* What a delivery of the plan does: the steps in order, the cancellation  *)
(* policy, and the first fallback reference of each step.                  *)
ReferencesOf(p, s) ==
    {k \in DOMAIN p.fallback_references : p.fallback_references[k].step_id = s}

FirstFallback(p, s) ==
    {p.fallback_references[k].fallback_step_id :
        k \in {j \in ReferencesOf(p, s) : \A l \in ReferencesOf(p, s) : j <= l}}

(* The hash pins the delivery: a valid plan is delivered the way the plan  *)
(* that was signed would be, as long as no step has two fallback           *)
(* references; with two, the hash does not tell which is the first         *)
(* (compute_stable_plan_hash, declared_fallback_step).                     *)
HashPinsDelivery ==
    checking = "valid" =>
        /\ submission.signed.steps = plan.steps
        /\ submission.signed.cancellation_policy = plan.cancellation_policy
        /\ \A s \in StepIds :
              (\A k, l \in ReferencesOf(plan, s) : k = l) =>
                  FirstFallback(submission.signed, s) = FirstFallback(plan, s)
=============================================================================
