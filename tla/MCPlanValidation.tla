-------------------------- MODULE MCPlanValidation --------------------------
(* Two families of submissions.  Bounded ones: every list of up to two     *)
(* steps over two ids, capabilities, side effects and budgets, with tight  *)
(* and loose declarations, against registries with one flaw.  Edited ones: *)
(* three steps with every list of up to two fallback references, signed as *)
(* they are or before one edit.                                            *)
EXTENDS PlanValidation

GoodEntry ==
    [registered |-> TRUE, enabled |-> TRUE, revoked |-> FALSE, owned |-> TRUE,
     side_effect_class |-> "none", timeout_budget_ms |-> 3]

GoodRegistry == [c \in CapabilityIds |-> GoodEntry]

Registries ==
    {[GoodRegistry EXCEPT !["k2"] = r] :
        r \in {GoodEntry,
               [GoodEntry EXCEPT !.registered = FALSE],
               [GoodEntry EXCEPT !.enabled = FALSE],
               [GoodEntry EXCEPT !.revoked = TRUE],
               [GoodEntry EXCEPT !.owned = FALSE],
               [GoodEntry EXCEPT !.side_effect_class = "local_file_write"],
               [GoodEntry EXCEPT !.timeout_budget_ms = 1]}}

Step(id, c, e, t) ==
    [step_id |-> id, capability_id |-> c, declared_side_effect_class |-> e,
     timeout_budget_ms |-> t]

SmallSteps ==
    {Step(id, c, e, t) : id \in {"a", "b"}, c \in CapabilityIds, e \in Effects, t \in {1, 3}}

BoundedPlans ==
    {[steps |-> s, referenced_capabilities |-> c, declared_max_step_count |-> m,
      declared_side_effect_classes |-> e, fallback_references |-> <<>>,
      cancellation_policy |-> "FinishInFlightOnly",
      completion_policy |-> "AllStepsMustSucceed", max_duration_budget_ms |-> d] :
        s \in UNION {[1..n -> SmallSteps] : n \in 0..2},
        c \in {<<"k1">>, <<"k1", "k2">>}, m \in {1, 2},
        e \in {{"none"}, Effects}, d \in {2, 4}}

References2 ==
    {r \in UNION {[1..n -> ReferenceShape] : n \in 0..2} :
        Len(r) = 2 => r[1] # r[2]}

FallbackPlans ==
    {[steps |-> <<Step("a", "k1", "none", 1), Step("b", "k1", "none", 1),
                  Step("c", "k2", "none", 1)>>,
      referenced_capabilities |-> <<"k1", "k2">>, declared_max_step_count |-> 3,
      declared_side_effect_classes |-> {"none"}, fallback_references |-> r,
      cancellation_policy |-> "CancelRemainingSteps", completion_policy |-> p,
      max_duration_budget_ms |-> 3] :
        r \in References2, p \in {"AllStepsMustSucceed", "AllowDeclaredFallbackCompletion"}}

Reversed(s) == [k \in DOMAIN s |-> s[Len(s) + 1 - k]]

Edits(p) ==
    {p,
     [p EXCEPT !.steps = Reversed(@)],
     [p EXCEPT !.referenced_capabilities = Reversed(@)],
     [p EXCEPT !.fallback_references = Reversed(@)],
     [p EXCEPT !.fallback_references = <<>>],
     [p EXCEPT !.cancellation_policy = "FinishInFlightOnly"],
     [p EXCEPT !.max_duration_budget_ms = 4]}

MCSubmissions ==
    {[plan |-> p, signed |-> p, registry |-> r] : p \in BoundedPlans, r \in Registries}
    \cup UNION {{[plan |-> p, signed |-> q, registry |-> GoodRegistry] : q \in Edits(p)} :
                  p \in FallbackPlans}
=============================================================================
