--------------------------- MODULE DeliveryProofs ---------------------------
(***************************************************************************)
(* Proofs about PlanDelivery, for every number of steps, every set of      *)
(* capabilities and every validated plan, and about ExecutionPipeline,     *)
(* which extends it, for every set of adapters and both dispatch modes.    *)
(* The pipeline uses the per-step delivery through what is shown of one    *)
(* step of it (StepIInv).                                                  *)
(***************************************************************************)
EXTENDS ExecutionPipeline, TLAPS, SequenceTheorems

-----------------------------------------------------------------------------
(* Per-step delivery: the invariant.                                       *)

(* A step was dispatched in its turn and the turn is not over.             *)
MidTurn == pc \in {"attempted", "settled"}

(* The step s has not been reached by the loop.                            *)
Ahead(s) == s > cursor \/ (s = cursor /\ ~MidTurn)

(* An outcome o of the step s says what the adapters did.                  *)
Attested(s, o) ==
    /\ o.kind # "Pending"
    /\ o.kind = "Completed" <=> world[s] = "DeliveredAllSteps"
    /\ o.kind = "CompletedViaFallback" =>
         o.via \in DeclaredFallback(s) /\ world[o.via] = "DeliveredAllSteps"

(* Where the loop stands.                                                  *)
LoopInv ==
    /\ MidTurn => cursor \in Steps
    /\ statuses # <<>> \/ pc \in {"admit", "error"}

(* A step ahead of the loop was called only if its result waits in         *)
(* fallback_results, and results of steps behind the loop are used up.     *)
CallInv ==
    \A s \in Steps :
        /\ world[s] = "DeliveredAllSteps" => calls[s] = 1
        /\ calls[s] = 0 => world[s] = "NotCalled"
        /\ Ahead(s) /\ fallbackResults[s] = Pending => calls[s] = 0
        /\ ~Ahead(s) => fallbackResults[s] = Pending

(* Every recorded outcome is attested by the world.                        *)
OutcomeInv ==
    /\ \A s \in Steps : s < cursor => Attested(s, outcomes[s])
    /\ \A s \in Steps : fallbackResults[s] # Pending =>
         Attested(s, fallbackResults[s])
    /\ MidTurn => Attested(cursor, outcome)

IInv ==
    /\ TypeOK
    /\ AtMostOnce
    /\ TruthfulReport
    /\ pc # "error" => LoopInv /\ CallInv /\ OutcomeInv

-----------------------------------------------------------------------------
(* A declared fallback comes later in the plan than the step it stands in  *)
(* for (the order check of ExecutionPlanValidator).                        *)
LEMMA FallbackIsLater ==
    ASSUME plan \in Plans, NEW s \in Steps, NEW f \in DeclaredFallback(s)
    PROVE  f \in Steps /\ s < f
<1>1. PICK i \in DOMAIN plan.fallback_references :
        plan.fallback_references[i] = [step_id |-> s, fallback_step_id |-> f]
  BY DEF DeclaredFallback
<1>2. plan.fallback_references \in ReferenceLists
  BY DEF Plans
<1>3. PICK n \in 0..MaxRefs : plan.fallback_references \in [1..n -> FallbackReferences]
  BY <1>2 DEF ReferenceLists
<1>4. plan.fallback_references[i] \in FallbackReferences
  BY <1>3
<1>5. [step_id |-> s, fallback_step_id |-> f] \in FallbackReferences
  BY <1>1, <1>4
<1> QED
  BY <1>5 DEF FallbackReferences

(* Every answer dispatch_one_step accepts becomes a well-formed outcome    *)
(* that is Completed exactly when the adapter delivered the step.          *)
LEMMA AcceptedAnswer ==
    ASSUME plan \in Plans, NEW s \in Steps, NEW r \in Answers(s), ~Rejected(r)
    PROVE  /\ OutcomeOf(r) \in Outcomes
           /\ OutcomeOf(r).kind \in {"Completed", "Failed", "Canceled", "Unavailable"}
           /\ OutcomeOf(r).kind = "Completed" <=> r.kind = "DeliveredAllSteps"
<1>1. /\ r.summary \in Text
      /\ r.kind \in TextResults \cup SilentResults \cup UnsupportedResults \cup {"NoAdapter"}
  <2>1. Summaries \subseteq Text /\ NoText \in Text
    BY PlanAssumption DEF Summaries, Text, NoText
  <2>2. NoAdapter.summary \in Text /\ NoAdapter.kind = "NoAdapter"
    BY DEF NoAdapter, Text
  <2>3. CASE r \in AdapterResults
    BY <2>1, <2>3 DEF AdapterResults
  <2> QED
    BY <2>2, <2>3 DEF Answers
<1>2. /\ OutcomeKind(r) \in {"Completed", "Failed", "Canceled", "Unavailable"}
      /\ OutcomeKind(r) = "Completed" <=> r.kind = "DeliveredAllSteps"
  BY <1>1 DEF OutcomeKind, TextResults, SilentResults, UnsupportedResults
<1> QED
  BY <1>1, <1>2 DEF OutcomeOf, Outcome, Outcomes, OutcomeKinds

(* Handing a step that was never called to its adapter adds one call and   *)
(* disturbs no other step.                                                 *)
LEMMA DeliverOnce ==
    ASSUME TypeOK, AtMostOnce, CallInv,
           NEW s \in Steps, NEW r \in Answers(s), calls[s] = 0, Deliver(s, r)
    PROVE  /\ calls' \in [Steps -> Nat]
           /\ world' \in [Steps -> WorldStates]
           /\ AtMostOnce'
           /\ \A t \in Steps : t # s => calls'[t] = calls[t] /\ world'[t] = world[t]
           /\ world'[s] = "DeliveredAllSteps" <=> r.kind = "DeliveredAllSteps"
           /\ world'[s] = "DeliveredAllSteps" => calls'[s] = 1
           /\ calls'[s] = 0 => world'[s] = "NotCalled"
           /\ \A t \in Steps : world[t] = "DeliveredAllSteps" =>
                world'[t] = "DeliveredAllSteps"
<1>1. r = NoAdapter \/ r.kind \in WorldStates
  BY DEF Answers, AdapterResults, TextResults, SilentResults, UnsupportedResults, WorldStates
<1>2. world[s] = "NotCalled"
  BY DEF CallInv
<1>3. CASE r = NoAdapter
  <2>1. r.kind = "NoAdapter"
    BY <1>3 DEF NoAdapter
  <2>2. calls' = calls /\ world' = world
    BY <1>3 DEF Deliver
  <2> QED
    BY <1>2, <2>1, <2>2 DEF TypeOK, AtMostOnce
<1>4. CASE r # NoAdapter
  <2>1. /\ calls' = [calls EXCEPT ![s] = @ + 1]
        /\ world' = [world EXCEPT ![s] = r.kind]
    BY <1>4 DEF Deliver
  <2> QED
    BY <1>1, <1>2, <1>4, <2>1 DEF TypeOK, AtMostOnce, Steps
<1> QED
  BY <1>3, <1>4

-----------------------------------------------------------------------------
(* A plan does not change its fallbacks.                                   *)
LEMMA FallbackStays ==
    ASSUME UNCHANGED inputs
    PROVE  \A s \in Steps : DeclaredFallback(s)' = DeclaredFallback(s)
BY DEF DeclaredFallback, inputs

(* The invariant holds before the checks of the loop.                      *)
LEMMA InitIInv == Init => IInv
<1> SUFFICES ASSUME Init PROVE IInv
  OBVIOUS
<1>1. NoText \in Text /\ Pending \in Outcomes
  BY DEF NoText, Text, Pending, Outcome, Outcomes, OutcomeKinds
<1>2. TypeOK
  <2>1. statuses \in Seq(Statuses)
    BY DEF Init
  <2>2. cursor \in 1..(N + 1)
    BY PlanAssumption DEF Init
  <2>3. calls \in [Steps -> Nat] /\ world \in [Steps -> WorldStates]
    BY DEF Init, WorldStates
  <2> QED
    BY <1>1, <2>1, <2>2, <2>3 DEF Init, TypeOK
<1>3. AtMostOnce /\ TruthfulReport
  BY DEF Init, AtMostOnce, TruthfulReport
<1>4. LoopInv /\ CallInv /\ OutcomeInv
  BY PlanAssumption DEF Init, LoopInv, CallInv, OutcomeInv, MidTurn, Ahead, Steps
<1> QED
  BY <1>2, <1>3, <1>4 DEF IInv

(* An error drops the trace and leaves only the type to check.             *)
LEMMA ErrorIInv ==
    ASSUME TypeOK, ContractInvalid, UNCHANGED inputs, AtMostOnce',
           calls' \in [Steps -> Nat], world' \in [Steps -> WorldStates]
    PROVE  IInv'
<1>1. statuses' \in Seq(Statuses)
  BY DEF ContractInvalid
<1>2. TypeOK'
  BY <1>1 DEF TypeOK, ContractInvalid, locals, inputs
<1> QED
  BY <1>2 DEF IInv, ContractInvalid, TruthfulReport

(* The checks before the loop establish an empty loop state.               *)
LEMMA AdmitIInv == ASSUME IInv, Admit PROVE IInv'
<1>1. CASE routeMatches
  <2> DEFINE first == Status("AdmittedNotStarted", "None", NoStep, {})
  <2>1. first \in Statuses
    BY DEF Status, Statuses
  <2>2. /\ pc = "admit" /\ pc' = "turn" /\ statuses' = <<first>>
        /\ UNCHANGED <<inputs, locals, calls, world>>
    BY <1>1 DEF Admit
  <2>3. TypeOK'
    BY <2>1, <2>2 DEF IInv, TypeOK, inputs, locals
  <2>4. AtMostOnce' /\ TruthfulReport'
    BY <2>2 DEF IInv, AtMostOnce, TruthfulReport
  <2>5. CallInv'
    BY <2>2 DEF IInv, CallInv, Ahead, MidTurn, locals
  <2>6. OutcomeInv' /\ LoopInv'
    <3>1. \A t \in Steps : DeclaredFallback(t)' = DeclaredFallback(t)
      BY <2>2, FallbackStays
    <3>2. statuses' # <<>>
      BY <2>2
    <3> QED
      BY <2>2, <3>1, <3>2 DEF IInv, OutcomeInv, LoopInv, Attested, MidTurn, locals
  <2> QED
    BY <2>3, <2>4, <2>5, <2>6 DEF IInv
<1>2. CASE ~routeMatches
  BY <1>2, ErrorIInv DEF Admit, IInv, TypeOK, AtMostOnce, inputs
<1> QED
  BY <1>1, <1>2

(* A reused fallback result attests the step it is recorded for.           *)
LEMMA ReuseIInv == ASSUME IInv, ReuseFallbackResult PROVE IInv'
<1>1. PICK s \in Steps :
        /\ TurnOf(s)
        /\ fallbackResults[s] # Pending
        /\ outcomes' = [outcomes EXCEPT ![s] = fallbackResults[s]]
        /\ fallbackResults' = [fallbackResults EXCEPT ![s] = Pending]
        /\ cursor' = cursor + 1
        /\ UNCHANGED <<inputs, pc, outcome, stopDispatching, statuses, calls, world>>
  BY DEF ReuseFallbackResult
<1>2. pc = "turn" /\ cursor = s /\ pc' = "turn"
  BY <1>1 DEF TurnOf
<1>3. Pending \in Outcomes
  BY DEF NoText, Text, Pending, Outcome, Outcomes, OutcomeKinds
<1>4. TypeOK'
  BY <1>1, <1>2, <1>3, PlanAssumption DEF IInv, TypeOK, inputs, Steps
<1>5. AtMostOnce' /\ TruthfulReport'
  BY <1>1, <1>2 DEF IInv, AtMostOnce, TruthfulReport
<1>6. CallInv'
  BY <1>1, <1>2, PlanAssumption DEF IInv, TypeOK, CallInv, Ahead, MidTurn, Steps
<1>7. OutcomeInv'
  <2>1. fallbackResults[s] \in Outcomes /\ Attested(s, fallbackResults[s])
    BY <1>1, <1>2 DEF IInv, TypeOK, OutcomeInv
  <2>2. /\ outcomes'[s] = fallbackResults[s] /\ fallbackResults'[s] = Pending
        /\ \A t \in Steps : t # s =>
             outcomes'[t] = outcomes[t] /\ fallbackResults'[t] = fallbackResults[t]
    BY <1>1 DEF IInv, TypeOK
  <2>3. \A t \in Steps : t < cursor' => t < cursor \/ t = s
    BY <1>1, <1>2 DEF Steps
  <2>4. \A t \in Steps : DeclaredFallback(t)' = DeclaredFallback(t)
    BY <1>1, FallbackStays
  <2> QED
    BY <1>1, <1>2, <2>1, <2>2, <2>3, <2>4 DEF IInv, OutcomeInv, Attested, MidTurn
<1>8. LoopInv'
  BY <1>1, <1>2 DEF IInv, LoopInv, MidTurn
<1> QED
  BY <1>4, <1>5, <1>6, <1>7, <1>8 DEF IInv

(* A skipped step was not delivered and will not be.                       *)
LEMMA SkipIInv == ASSUME IInv, SkipStep PROVE IInv'
<1> DEFINE skipped == Outcome("Skipped", NoText, NoStep)
<1>1. PICK s \in Steps :
        /\ TurnOf(s)
        /\ fallbackResults[s] = Pending
        /\ outcomes' = [outcomes EXCEPT ![s] = skipped]
        /\ cursor' = cursor + 1
        /\ UNCHANGED <<inputs, pc, outcome, fallbackResults, stopDispatching,
                       statuses, calls, world>>
  BY DEF SkipStep
<1>2. pc = "turn" /\ cursor = s /\ pc' = "turn"
  BY <1>1 DEF TurnOf
<1>3. skipped \in Outcomes /\ skipped.kind = "Skipped"
  BY DEF NoText, Text, Outcome, Outcomes, OutcomeKinds
<1>4. TypeOK'
  BY <1>1, <1>2, <1>3, PlanAssumption DEF IInv, TypeOK, inputs, Steps
<1>5. AtMostOnce' /\ TruthfulReport'
  BY <1>1, <1>2 DEF IInv, AtMostOnce, TruthfulReport
<1>6. CallInv'
  BY <1>1, <1>2, PlanAssumption DEF IInv, TypeOK, CallInv, Ahead, MidTurn, Steps
<1>7. OutcomeInv'
  <2>1. world[s] = "NotCalled"
    BY <1>1, <1>2 DEF IInv, CallInv, Ahead, MidTurn
  <2>2. Attested(s, skipped)
    BY <1>3, <2>1 DEF Attested
  <2>3. outcomes'[s] = skipped /\ \A t \in Steps : t # s => outcomes'[t] = outcomes[t]
    BY <1>1 DEF IInv, TypeOK
  <2>4. \A t \in Steps : t < cursor' => t < cursor \/ t = s
    BY <1>1, <1>2 DEF Steps
  <2>5. \A t \in Steps : DeclaredFallback(t)' = DeclaredFallback(t)
    BY <1>1, FallbackStays
  <2> QED
    BY <1>1, <1>2, <2>2, <2>3, <2>4, <2>5 DEF IInv, OutcomeInv, Attested, MidTurn
<1>8. LoopInv'
  BY <1>1, <1>2 DEF IInv, LoopInv, MidTurn
<1> QED
  BY <1>4, <1>5, <1>6, <1>7, <1>8 DEF IInv

(* The in_progress status is a status, so announcing a step keeps the      *)
(* trace well formed.                                                      *)
LEMMA AnnounceTyped ==
    ASSUME TypeOK, NEW s \in Steps, statuses' = Append(statuses, InProgress(s))
    PROVE  statuses' \in Seq(Statuses) /\ statuses' # <<>>
<1>1. plan.words[s] \in SUBSET Words
  BY DEF TypeOK, Plans
<1>2. InProgress(s) \in Statuses
  BY <1>1 DEF InProgress, Status, Statuses
<1> QED
  BY <1>2 DEF TypeOK

(* A step handed over in its turn was never called before.                 *)
LEMMA DispatchIInv == ASSUME IInv, DispatchStep PROVE IInv'
<1>a. PICK s \in Steps : \E r \in Answers(s) :
        /\ DueInTurn(s)
        /\ DispatchOneStep(s, r)
        /\ outcome' = OutcomeOf(r)
        /\ pc' = "attempted"
        /\ UNCHANGED <<inputs, cursor, outcomes, fallbackResults, stopDispatching>>
  BY DEF DispatchStep
<1>1. PICK r \in Answers(s) :
        /\ DueInTurn(s)
        /\ DispatchOneStep(s, r)
        /\ outcome' = OutcomeOf(r)
        /\ pc' = "attempted"
        /\ UNCHANGED <<inputs, cursor, outcomes, fallbackResults, stopDispatching>>
  BY <1>a
<1>2. /\ pc = "turn" /\ cursor = s /\ fallbackResults[s] = Pending
      /\ ~Rejected(r) /\ Deliver(s, r)
      /\ statuses' = Append(statuses, InProgress(s))
  BY <1>1 DEF DueInTurn, TurnOf, DispatchOneStep
<1>3. TypeOK /\ AtMostOnce /\ CallInv /\ OutcomeInv /\ plan \in Plans
  BY <1>2 DEF IInv, TypeOK
<1>4. calls[s] = 0 /\ world[s] # "DeliveredAllSteps"
  BY <1>2, <1>3 DEF CallInv, Ahead, MidTurn
<1>5. /\ calls' \in [Steps -> Nat]
      /\ world' \in [Steps -> WorldStates]
      /\ AtMostOnce'
      /\ \A t \in Steps : t # s => calls'[t] = calls[t] /\ world'[t] = world[t]
      /\ world'[s] = "DeliveredAllSteps" <=> r.kind = "DeliveredAllSteps"
      /\ world'[s] = "DeliveredAllSteps" => calls'[s] = 1
      /\ calls'[s] = 0 => world'[s] = "NotCalled"
      /\ \A t \in Steps : world[t] = "DeliveredAllSteps" =>
           world'[t] = "DeliveredAllSteps"
  BY <1>2, <1>3, <1>4, DeliverOnce
<1>6. /\ OutcomeOf(r) \in Outcomes
      /\ OutcomeOf(r).kind \in {"Completed", "Failed", "Canceled", "Unavailable"}
      /\ OutcomeOf(r).kind = "Completed" <=> r.kind = "DeliveredAllSteps"
  BY <1>2, <1>3, AcceptedAnswer
<1>7. statuses' \in Seq(Statuses) /\ statuses' # <<>>
  BY <1>2, <1>3, AnnounceTyped
<1>8. TypeOK'
  BY <1>1, <1>3, <1>5, <1>6, <1>7 DEF TypeOK, inputs
<1>9. TruthfulReport'
  BY <1>1 DEF TruthfulReport
<1>10. CallInv'
  BY <1>1, <1>2, <1>3, <1>5, PlanAssumption DEF TypeOK, CallInv, Ahead, MidTurn, Steps
<1>11. OutcomeInv'
  <2>1. \A t \in Steps : DeclaredFallback(t)' = DeclaredFallback(t)
    BY <1>1, FallbackStays
  <2>2. \A t \in Steps : \A f \in DeclaredFallback(t) : f \in Steps
    BY DEF DeclaredFallback
  <2>3. \A t \in Steps : t < cursor => t # s
    BY <1>2 DEF Steps
  <2>4. \A t \in Steps : fallbackResults[t] # Pending => t # s
    BY <1>2
  <2>5. \A t \in Steps : t < cursor => Attested(t, outcomes[t])'
    BY <1>1, <1>3, <1>5, <2>1, <2>2, <2>3 DEF OutcomeInv, Attested
  <2>6. \A t \in Steps : fallbackResults[t] # Pending => Attested(t, fallbackResults[t])'
    BY <1>1, <1>3, <1>5, <2>1, <2>2, <2>4 DEF OutcomeInv, Attested
  <2>7. Attested(cursor, outcome)'
    BY <1>1, <1>2, <1>5, <1>6 DEF Attested
  <2> QED
    BY <1>1, <2>5, <2>6, <2>7 DEF OutcomeInv
<1>12. LoopInv'
  BY <1>1, <1>2, <1>7 DEF LoopInv, MidTurn
<1> QED
  BY <1>5, <1>8, <1>9, <1>10, <1>11, <1>12 DEF IInv

(* A step handed over as a fallback was never called before.               *)
LEMMA FallbackIInv == ASSUME IInv, DispatchFallback PROVE IInv'
<1>a. PICK f \in Steps : \E r \in Answers(f) :
        /\ DueAsFallback(f)
        /\ DispatchOneStep(f, r)
        /\ outcome' = OutcomeWithFallback(outcome, f, OutcomeOf(r))
        /\ fallbackResults' = [fallbackResults EXCEPT ![f] = OutcomeOf(r)]
        /\ pc' = "settled"
        /\ UNCHANGED <<inputs, cursor, outcomes, stopDispatching>>
  BY DEF DispatchFallback
<1>1. PICK r \in Answers(f) :
        /\ DueAsFallback(f)
        /\ DispatchOneStep(f, r)
        /\ outcome' = OutcomeWithFallback(outcome, f, OutcomeOf(r))
        /\ fallbackResults' = [fallbackResults EXCEPT ![f] = OutcomeOf(r)]
        /\ pc' = "settled"
        /\ UNCHANGED <<inputs, cursor, outcomes, stopDispatching>>
  BY <1>a
<1>2. /\ pc = "attempted" /\ NotCompleted(outcome)
      /\ f \in DeclaredFallback(cursor) /\ fallbackResults[f] = Pending
      /\ ~Rejected(r) /\ Deliver(f, r)
      /\ statuses' = Append(statuses, InProgress(f))
  BY <1>1 DEF DueAsFallback, DeclaredFallbackStep, DispatchOneStep
<1>3. TypeOK /\ AtMostOnce /\ CallInv /\ OutcomeInv /\ LoopInv /\ plan \in Plans
  BY <1>2 DEF IInv, TypeOK
<1>4. cursor \in Steps /\ cursor < f
  BY <1>2, <1>3, FallbackIsLater DEF LoopInv, MidTurn
<1>5. calls[f] = 0 /\ world[f] # "DeliveredAllSteps"
  BY <1>2, <1>3, <1>4 DEF CallInv, Ahead, Steps
<1>6. /\ calls' \in [Steps -> Nat]
      /\ world' \in [Steps -> WorldStates]
      /\ AtMostOnce'
      /\ \A t \in Steps : t # f => calls'[t] = calls[t] /\ world'[t] = world[t]
      /\ world'[f] = "DeliveredAllSteps" <=> r.kind = "DeliveredAllSteps"
      /\ world'[f] = "DeliveredAllSteps" => calls'[f] = 1
      /\ calls'[f] = 0 => world'[f] = "NotCalled"
      /\ \A t \in Steps : world[t] = "DeliveredAllSteps" =>
           world'[t] = "DeliveredAllSteps"
  BY <1>2, <1>3, <1>5, DeliverOnce
<1>7. /\ OutcomeOf(r) \in Outcomes
      /\ OutcomeOf(r).kind \in {"Completed", "Failed", "Canceled", "Unavailable"}
      /\ OutcomeOf(r).kind = "Completed" <=> r.kind = "DeliveredAllSteps"
  BY <1>2, <1>3, AcceptedAnswer
<1>8. statuses' \in Seq(Statuses) /\ statuses' # <<>>
  BY <1>2, <1>3, AnnounceTyped
<1>9. /\ outcome' \in Outcomes
      /\ \/ /\ OutcomeOf(r).kind = "Completed"
            /\ outcome'.kind = "CompletedViaFallback" /\ outcome'.via = f
         \/ outcome' = outcome
  BY <1>1, <1>3, <1>7
    DEF OutcomeWithFallback, Outcome, Outcomes, OutcomeKinds, NoText, Text, TypeOK
<1>10. TypeOK'
  BY <1>1, <1>3, <1>6, <1>7, <1>8, <1>9 DEF TypeOK, inputs
<1>11. TruthfulReport'
  BY <1>1 DEF TruthfulReport
<1>12. /\ fallbackResults'[f] = OutcomeOf(r)
       /\ \A t \in Steps : t # f => fallbackResults'[t] = fallbackResults[t]
       /\ OutcomeOf(r) # Pending
  BY <1>1, <1>3, <1>7 DEF TypeOK, Pending, Outcome
<1>13. CallInv'
  <2>1. \A t \in Steps : Ahead(t)' <=> Ahead(t)
    BY <1>1, <1>2 DEF Ahead, MidTurn
  <2>2. Ahead(f)
    BY <1>4 DEF Ahead
  <2> QED
    BY <1>3, <1>6, <1>12, <2>1, <2>2 DEF CallInv
<1>14. OutcomeInv'
  <2>1. \A t \in Steps : DeclaredFallback(t)' = DeclaredFallback(t)
    BY <1>1, FallbackStays
  <2>2. \A t \in Steps : \A g \in DeclaredFallback(t) : g \in Steps
    BY DEF DeclaredFallback
  <2>3. cursor # f /\ \A t \in Steps : t < cursor => t # f
    BY <1>4 DEF Steps
  <2>4. \A t \in Steps : t < cursor => Attested(t, outcomes[t])'
    BY <1>1, <1>3, <1>6, <2>1, <2>2, <2>3 DEF OutcomeInv, Attested
  <2>5. \A t \in Steps : t # f /\ fallbackResults[t] # Pending =>
          Attested(t, fallbackResults[t])'
    BY <1>3, <1>6, <1>12, <2>1, <2>2 DEF OutcomeInv, Attested
  <2>6. Attested(f, fallbackResults[f])'
    BY <1>6, <1>7, <1>12 DEF Attested
  <2>7. Attested(cursor, outcome)
    BY <1>2, <1>3 DEF OutcomeInv, MidTurn
  <2>8. Attested(cursor, outcome)'
    <3>1. CASE outcome' = outcome
      BY <1>1, <1>4, <1>6, <2>1, <2>2, <2>3, <2>7, <3>1 DEF Attested
    <3>2. CASE /\ OutcomeOf(r).kind = "Completed"
               /\ outcome'.kind = "CompletedViaFallback" /\ outcome'.via = f
      BY <1>1, <1>2, <1>4, <1>6, <1>7, <2>1, <2>3, <2>7, <3>2
        DEF Attested, NotCompleted
    <3> QED
      BY <1>9, <3>1, <3>2
  <2> QED
    BY <1>1, <1>12, <2>4, <2>5, <2>6, <2>8 DEF OutcomeInv
<1>15. LoopInv'
  BY <1>1, <1>4, <1>8 DEF LoopInv, MidTurn
<1> QED
  BY <1>6, <1>10, <1>11, <1>13, <1>14, <1>15 DEF IInv

(* A rejected answer is still the only call of its step.                   *)
LEMMA AbortIInv == ASSUME IInv, AbortDispatch PROVE IInv'
<1>a. PICK s \in Steps : \E r \in Answers(s) :
        /\ DueInTurn(s) \/ DueAsFallback(s)
        /\ Deliver(s, r)
        /\ ContractInvalid
        /\ UNCHANGED inputs
  BY DEF AbortDispatch
<1>1. PICK r \in Answers(s) :
        /\ DueInTurn(s) \/ DueAsFallback(s)
        /\ Deliver(s, r)
        /\ ContractInvalid
        /\ UNCHANGED inputs
  BY <1>a
<1>2. /\ pc \in {"turn", "attempted"}
      /\ fallbackResults[s] = Pending
      /\ pc = "turn" => cursor = s
      /\ pc = "attempted" => s \in DeclaredFallback(cursor)
  BY <1>1 DEF DueInTurn, DueAsFallback, TurnOf, DeclaredFallbackStep
<1>3. TypeOK /\ AtMostOnce /\ CallInv /\ LoopInv /\ plan \in Plans
  BY <1>2 DEF IInv, TypeOK
<1>4. Ahead(s)
  <2>1. CASE pc = "turn"
    BY <1>2, <2>1 DEF Ahead, MidTurn
  <2>2. CASE pc = "attempted"
    BY <1>2, <1>3, <2>2, FallbackIsLater DEF Ahead, MidTurn, LoopInv
  <2> QED
    BY <1>2, <2>1, <2>2
<1>5. calls[s] = 0
  BY <1>2, <1>3, <1>4 DEF CallInv
<1>6. calls' \in [Steps -> Nat] /\ world' \in [Steps -> WorldStates] /\ AtMostOnce'
  BY <1>1, <1>3, <1>5, DeliverOnce
<1> QED
  BY <1>1, <1>3, <1>6, ErrorIInv

(* The outcome recorded at the end of a turn is attested.                  *)
LEMMA SettleIInv == ASSUME IInv, SettleStep PROVE IInv'
<1>1. PICK s \in Steps :
        /\ cursor = s
        /\ MidTurn
        /\ outcomes' = [outcomes EXCEPT ![s] = outcome]
        /\ stopDispatching' = (stopDispatching \/ StopsPlan(outcome))
        /\ cursor' = cursor + 1
        /\ pc' = "turn"
        /\ UNCHANGED <<inputs, outcome, fallbackResults, statuses, calls, world>>
  BY DEF SettleStep, MidTurn
<1>2. pc # "error" /\ pc # "admit"
  BY <1>1 DEF MidTurn
<1>3. stopDispatching' \in BOOLEAN
  BY <1>1 DEF StopsPlan, NotCompleted
<1>4. TypeOK'
  BY <1>1, <1>3, PlanAssumption DEF IInv, TypeOK, inputs, Steps
<1>5. AtMostOnce' /\ TruthfulReport'
  BY <1>1 DEF IInv, AtMostOnce, TruthfulReport
<1>6. CallInv'
  BY <1>1, <1>2, PlanAssumption DEF IInv, TypeOK, CallInv, Ahead, MidTurn, Steps
<1>7. OutcomeInv'
  <2>1. Attested(s, outcome)
    BY <1>1, <1>2 DEF IInv, OutcomeInv
  <2>2. outcomes'[s] = outcome /\ \A t \in Steps : t # s => outcomes'[t] = outcomes[t]
    BY <1>1 DEF IInv, TypeOK
  <2>3. \A t \in Steps : t < cursor' => t < cursor \/ t = s
    BY <1>1 DEF Steps
  <2>4. \A t \in Steps : DeclaredFallback(t)' = DeclaredFallback(t)
    BY <1>1, FallbackStays
  <2> QED
    BY <1>1, <1>2, <2>1, <2>2, <2>3, <2>4 DEF IInv, OutcomeInv, Attested, MidTurn
<1>8. LoopInv'
  BY <1>1, <1>2 DEF IInv, LoopInv, MidTurn
<1> QED
  BY <1>4, <1>5, <1>6, <1>7, <1>8 DEF IInv

-----------------------------------------------------------------------------
(* Once every step has had its turn, the deliveries are read off the       *)
(* outcomes.                                                               *)
LEMMA OutcomesAttest ==
    ASSUME IInv, LoopDone
    PROVE  /\ StepsOfKind("Completed") = Delivered
           /\ \A s \in StepsOfKind("CompletedViaFallback") :
                /\ outcomes[s].via \in DeclaredFallback(s)
                /\ outcomes[s].via \in Delivered
                /\ s \notin Delivered
           /\ CompletedSteps = Delivered \cup StepsOfKind("CompletedViaFallback")
<1>1. \A s \in Steps : Attested(s, outcomes[s])
  BY PlanAssumption DEF IInv, OutcomeInv, LoopDone, Steps
<1>2. \A s \in Steps : DeclaredFallback(s) \subseteq Steps
  BY DEF DeclaredFallback
<1> QED
  BY <1>1, <1>2 DEF Attested, StepsOfKind, Delivered, CompletedSteps, Completing

(* A published status that the deliveries support keeps the invariant,     *)
(* whether or not its texts fit.                                           *)
LEMMA PublishIInv ==
    ASSUME IInv, NEW status \in Statuses, NEW bytes, Publish(status, bytes),
           status.state = "Completed" => Delivered = Steps,
           status.state = "CompletedWithConstraints" =>
              /\ Delivered # Steps
              /\ \A s \in Steps \ Delivered : DeclaredFallback(s) \cap Delivered # {},
           status.state = "PartialSuccess" => Delivered \notin {{}, Steps},
           status.state \in {"Failed", "Canceled", "Degraded"} => Delivered = {},
           status.state \notin {"AdmittedNotStarted", "InProgress"}
    PROVE  IInv'
<1>1. /\ pc = "turn" /\ cursor = N + 1
      /\ UNCHANGED <<inputs, calls, world>>
  BY DEF Publish, LoopDone
<1>2. TypeOK /\ AtMostOnce /\ CallInv /\ OutcomeInv
  BY <1>1 DEF IInv
<1>3. calls' \in [Steps -> Nat] /\ world' \in [Steps -> WorldStates] /\ AtMostOnce'
  BY <1>1, <1>2 DEF TypeOK, AtMostOnce
<1>4. CASE ContractInvalid
  BY <1>1, <1>2, <1>3, <1>4, ErrorIInv
<1>5. CASE /\ statuses' = Append(statuses, status)
           /\ pc' = "returned"
           /\ UNCHANGED locals
  <2>1. statuses' \in Seq(Statuses) /\ statuses' # <<>> /\ FinalStatus' = status
    <3>1. statuses \in Seq(Statuses)
      BY <1>2 DEF TypeOK
    <3>2. /\ Append(statuses, status) \in Seq(Statuses)
          /\ Len(Append(statuses, status)) = Len(statuses) + 1
          /\ Append(statuses, status)[Len(statuses) + 1] = status
          /\ Append(statuses, status) # <<>>
      BY <3>1
    <3>3. FinalStatus' = statuses'[Len(statuses')]
      BY DEF FinalStatus
    <3> QED
      BY <1>5, <3>2, <3>3
  <2>2. TypeOK'
    BY <1>1, <1>2, <1>3, <1>5, <2>1 DEF TypeOK, inputs, locals
  <2>3. \A t \in Steps : DeclaredFallback(t)' = DeclaredFallback(t)
    BY <1>1, FallbackStays
  <2>4. Delivered' = Delivered
    BY <1>1 DEF Delivered
  <2>5. TruthfulReport'
    BY <2>1, <2>3, <2>4 DEF TruthfulReport
  <2>6. CallInv'
    BY <1>1, <1>2, <1>5 DEF CallInv, Ahead, MidTurn, locals
  <2>7. OutcomeInv'
    BY <1>1, <1>2, <1>5, <2>3 DEF OutcomeInv, Attested, MidTurn, locals
  <2>8. LoopInv'
    BY <1>5, <2>1 DEF LoopInv, MidTurn
  <2> QED
    BY <1>3, <2>2, <2>5, <2>6, <2>7, <2>8 DEF IInv
<1> QED
  BY <1>4, <1>5 DEF Publish

(* Each arm of the outcome fold publishes a supported status.              *)
LEMMA ReportIInv == ASSUME IInv, BuildPlanOutcomeStatus PROVE IInv'
<1>1. LoopDone /\ TypeOK /\ plan \in Plans
  BY DEF BuildPlanOutcomeStatus, ReportCompleted, ReportCompletedViaFallback,
         ReportPartialSuccess, ReportFailed, ReportCanceled, ReportUnavailable,
         Publish, IInv, TypeOK
<1>2. /\ StepsOfKind("Completed") = Delivered
      /\ \A s \in StepsOfKind("CompletedViaFallback") :
           /\ outcomes[s].via \in DeclaredFallback(s)
           /\ outcomes[s].via \in Delivered
           /\ s \notin Delivered
      /\ CompletedSteps = Delivered \cup StepsOfKind("CompletedViaFallback")
  BY <1>1, OutcomesAttest
<1>3. /\ plan.words \in [Steps -> SUBSET Words]
      /\ outcomes \in [Steps -> Outcomes]
      /\ Delivered \subseteq Steps
      /\ \A kind : StepsOfKind(kind) \subseteq Steps
  BY <1>1 DEF TypeOK, Plans, Delivered, StepsOfKind
<1>4. CASE ReportCompleted
  <2> DEFINE status == Status("Completed", "None", NoStep, Said({"success"}))
  <2>1. status \in Statuses /\ status.state = "Completed"
    BY DEF Status, Statuses, Said
  <2>2. Publish(status, 55) /\ Delivered = Steps
    BY <1>2, <1>4 DEF ReportCompleted
  <2> QED
    BY <2>1, <2>2, PublishIInv
<1>5. CASE ReportCompletedViaFallback
  <2> DEFINE status == Status("CompletedWithConstraints", "DegradedFallbackLimited",
                              NoStep, Said({"success"}) \cup FallbackTextWords)
  <2>1. FallbackTextWords \subseteq Words
    <3>1. \A s \in StepsOfKind("CompletedViaFallback") :
            plan.words[s] \subseteq Words /\ plan.words[outcomes[s].via] \subseteq Words
      BY <1>2, <1>3
    <3> QED
      BY <3>1 DEF FallbackTextWords
  <2>2. status \in Statuses /\ status.state = "CompletedWithConstraints"
    BY <2>1 DEF Status, Statuses, Said
  <2>3. /\ Publish(status, FallbackTextBytes)
        /\ CompletedSteps = Steps /\ StepsOfKind("CompletedViaFallback") # {}
    BY <1>5 DEF ReportCompletedViaFallback
  <2>4. Delivered # Steps
    BY <1>2, <1>3, <2>3
  <2>5. \A s \in Steps \ Delivered : DeclaredFallback(s) \cap Delivered # {}
    BY <1>2, <2>3
  <2> QED
    BY <2>2, <2>3, <2>4, <2>5, PublishIInv
<1>6. CASE ReportPartialSuccess
  <2>1. PICK s \in FirstOf(Steps \ CompletedSteps) :
          Publish(Status("PartialSuccess", "DegradedPartial", s, Said({"success"})),
                  24 + plan.idBytes + DetailBytes(outcomes[s]))
    BY <1>6 DEF ReportPartialSuccess
  <2> DEFINE status == Status("PartialSuccess", "DegradedPartial", s, Said({"success"}))
  <2>2. s \in Steps /\ s \notin Delivered
    BY <1>2 DEF FirstOf
  <2>3. status \in Statuses /\ status.state = "PartialSuccess"
    BY <2>2 DEF Status, Statuses, Said
  <2>4. Delivered \notin {{}, Steps}
    BY <1>2, <1>6, <2>2 DEF ReportPartialSuccess
  <2> QED
    BY <2>1, <2>3, <2>4, PublishIInv
<1>7. CASE ReportFailed
  <2>1. PICK s \in FirstOf(StepsOfKind("Failed")) :
          Publish(Status("Failed", "None", NoStep, outcomes[s].summary.words),
                  outcomes[s].summary.bytes)
    BY <1>7 DEF ReportFailed
  <2> DEFINE status == Status("Failed", "None", NoStep, outcomes[s].summary.words)
  <2>2. outcomes[s].summary.words \subseteq Words
    BY <1>3 DEF FirstOf, Outcomes, Text
  <2>3. status \in Statuses /\ status.state = "Failed"
    BY <2>2 DEF Status, Statuses
  <2>4. Delivered = {}
    BY <1>2, <1>7 DEF ReportFailed
  <2> QED
    BY <2>1, <2>3, <2>4, PublishIInv
<1>8. CASE ReportCanceled
  <2>1. PICK s \in FirstOf(StepsOfKind("Canceled")) :
          Publish(Status("Canceled", "None", s, Said({"cancel"}) \cup plan.words[s]),
                  48 + plan.idBytes)
    BY <1>8 DEF ReportCanceled
  <2> DEFINE status == Status("Canceled", "None", s, Said({"cancel"}) \cup plan.words[s])
  <2>2. s \in Steps /\ plan.words[s] \subseteq Words
    BY <1>3 DEF FirstOf
  <2>3. status \in Statuses /\ status.state = "Canceled"
    BY <2>2 DEF Status, Statuses, Said
  <2>4. Delivered = {}
    BY <1>2, <1>8 DEF ReportCanceled
  <2> QED
    BY <2>1, <2>3, <2>4, PublishIInv
<1>9. CASE ReportUnavailable
  <2> DEFINE status == Status("Degraded", "UnavailableDependencyBlock", NoStep, {})
  <2>1. status \in Statuses /\ status.state = "Degraded"
    BY DEF Status, Statuses
  <2>2. Publish(status, 52) /\ Delivered = {}
    BY <1>2, <1>9 DEF ReportUnavailable
  <2> QED
    BY <2>1, <2>2, PublishIInv
<1> QED
  BY <1>4, <1>5, <1>6, <1>7, <1>8, <1>9 DEF BuildPlanOutcomeStatus

-----------------------------------------------------------------------------
(* Steps that change nothing keep the invariant.                           *)
LEMMA StutterIInv == ASSUME IInv, UNCHANGED vars PROVE IInv'
<1>1. UNCHANGED <<plan, routeMatches, registry, pc, cursor, outcome, outcomes,
                  fallbackResults, stopDispatching, statuses, calls, world>>
  BY DEF vars, inputs, locals
<1>2. TypeOK' /\ AtMostOnce'
  BY <1>1 DEF IInv, TypeOK, AtMostOnce
<1>3. \A t \in Steps : DeclaredFallback(t)' = DeclaredFallback(t)
  BY <1>1 DEF DeclaredFallback
<1>4. TruthfulReport'
  BY <1>1, <1>3 DEF IInv, TruthfulReport, FinalStatus, Delivered
<1>5. (pc # "error" => LoopInv /\ CallInv /\ OutcomeInv)'
  BY <1>1, <1>3 DEF IInv, LoopInv, CallInv, OutcomeInv, Attested, MidTurn, Ahead
<1> QED
  BY <1>2, <1>4, <1>5 DEF IInv

(* Every step of the coordinator keeps the invariant.                      *)
LEMMA StepIInv == IInv /\ [Next]_vars => IInv'
BY AdmitIInv, ReuseIInv, SkipIInv, DispatchIInv, FallbackIInv, AbortIInv,
   SettleIInv, ReportIInv, StutterIInv DEF Next

(* The invariant holds throughout a delivery.                              *)
LEMMA Invariance == Spec => []IInv
<1>1. Init => IInv
  BY InitIInv
<1>2. IInv /\ [Next]_vars => IInv'
  BY StepIInv
<1> QED
  BY <1>1, <1>2, PTL DEF Spec

(* Type correctness of the delivery loop.                                  *)
THEOREM TypeCorrect == Spec => []TypeOK
<1>1. IInv => TypeOK
  BY DEF IInv
<1> QED
  BY <1>1, Invariance, PTL

(* No plan, registry or sequence of adapter answers makes the loop deliver *)
(* a step twice.                                                           *)
THEOREM DeliversAtMostOnce == Spec => []AtMostOnce
<1>1. IInv => AtMostOnce
  BY DEF IInv
<1> QED
  BY <1>1, Invariance, PTL

(* The final status of every returned trace is supported by what the       *)
(* adapters really delivered.                                              *)
THEOREM ReportsTruthfully == Spec => []TruthfulReport
<1>1. IInv => TruthfulReport
  BY DEF IInv
<1> QED
  BY <1>1, Invariance, PTL

-----------------------------------------------------------------------------
(* Stopping: what has to be known for NoCallAfterStop.                     *)

(* A settled step that stops the plan has set stop_dispatching; no turn    *)
(* begins after that.  A fallback that did not complete waits in           *)
(* fallback_results only if the step it was tried for has stopped the      *)
(* plan, or is about to.                                                   *)
StopInv ==
    /\ \A s \in Steps : s < cursor /\ StopsPlan(outcomes[s]) => stopDispatching
    /\ stopDispatching => ~MidTurn
    /\ \A f \in Steps : StopsPlan(fallbackResults[f]) =>
          stopDispatching \/ (pc = "settled" /\ StopsPlan(outcome))

(* Nothing stops the plan that is pending, skipped or completed.           *)
LEMMA StopKinds ==
    ASSUME NEW o, StopsPlan(o)
    PROVE  o.kind \in {"Failed", "Unavailable", "Canceled"} /\ o # Pending
  BY DEF StopsPlan, NotCompleted, Pending, Outcome

(* Every step of the coordinator keeps StopInv.                            *)
LEMMA StepStopInv ==
    ASSUME IInv, pc # "error" => StopInv, [Next]_vars
    PROVE  pc' # "error" => StopInv'
<1> SUFFICES ASSUME pc # "error", StopInv, pc' # "error"
             PROVE  StopInv'
  BY DEF Next, vars, Admit, ReuseFallbackResult, SkipStep, DispatchStep, DispatchFallback,
         AbortDispatch, SettleStep, BuildPlanOutcomeStatus, ReportCompleted,
         ReportCompletedViaFallback, ReportPartialSuccess, ReportFailed, ReportCanceled,
         ReportUnavailable, Publish, LoopDone, TurnOf, DueInTurn, DueAsFallback
<1>1. TypeOK /\ CallInv /\ OutcomeInv /\ LoopInv
  BY DEF IInv
<1>2. ASSUME UNCHANGED inputs
      PROVE  \A o : StopsPlan(o)' <=> StopsPlan(o)
  BY <1>2 DEF StopsPlan, inputs
<1>3. CASE Admit
  <2>1. pc = "admit" /\ pc' = "turn" /\ UNCHANGED <<inputs, locals>>
    BY <1>3 DEF Admit, ContractInvalid
  <2> QED
    BY <2>1 DEF StopInv, MidTurn, StopsPlan, inputs, locals
<1>4. CASE ReuseFallbackResult
  <2>1. PICK s \in Steps :
          /\ pc = "turn" /\ cursor = s /\ pc' = "turn" /\ cursor' = cursor + 1
          /\ outcomes' = [outcomes EXCEPT ![s] = fallbackResults[s]]
          /\ fallbackResults' = [fallbackResults EXCEPT ![s] = Pending]
          /\ UNCHANGED <<inputs, outcome, stopDispatching>>
    BY <1>4 DEF ReuseFallbackResult, TurnOf
  <2>2. /\ outcomes'[s] = fallbackResults[s] /\ fallbackResults'[s] = Pending
        /\ \A t \in Steps : t # s =>
             outcomes'[t] = outcomes[t] /\ fallbackResults'[t] = fallbackResults[t]
    BY <1>1, <2>1 DEF TypeOK
  <2>3. \A t \in Steps : t < cursor' => t < cursor \/ t = s
    BY <2>1 DEF Steps
  <2>4. ~StopsPlan(Pending)
    BY StopKinds
  <2> QED
    BY <2>1, <2>2, <2>3, <2>4 DEF StopInv, MidTurn, StopsPlan, inputs
<1>5. CASE SkipStep
  <2> DEFINE skipped == Outcome("Skipped", NoText, NoStep)
  <2>1. PICK s \in Steps :
          /\ pc = "turn" /\ cursor = s /\ pc' = "turn" /\ cursor' = cursor + 1
          /\ outcomes' = [outcomes EXCEPT ![s] = skipped]
          /\ UNCHANGED <<inputs, outcome, fallbackResults, stopDispatching>>
    BY <1>5 DEF SkipStep, TurnOf
  <2>2. outcomes'[s] = skipped /\ \A t \in Steps : t # s => outcomes'[t] = outcomes[t]
    BY <1>1, <2>1 DEF TypeOK
  <2>3. \A t \in Steps : t < cursor' => t < cursor \/ t = s
    BY <2>1 DEF Steps
  <2>4. ~StopsPlan(skipped)
    BY DEF StopsPlan, NotCompleted, Outcome
  <2> QED
    BY <2>1, <2>2, <2>3, <2>4 DEF StopInv, MidTurn, StopsPlan, inputs
<1>6. CASE DispatchStep
  <2>1. /\ pc = "turn" /\ pc' = "attempted" /\ ~stopDispatching
        /\ UNCHANGED <<inputs, cursor, outcomes, fallbackResults, stopDispatching>>
    BY <1>6 DEF DispatchStep, DueInTurn, TurnOf
  <2> QED
    BY <2>1 DEF StopInv, MidTurn, StopsPlan, inputs
<1>7. CASE DispatchFallback
  <2>a. PICK f \in Steps : \E r \in Answers(f) :
          /\ DueAsFallback(f)
          /\ outcome' = OutcomeWithFallback(outcome, f, OutcomeOf(r))
          /\ fallbackResults' = [fallbackResults EXCEPT ![f] = OutcomeOf(r)]
          /\ pc' = "settled"
          /\ UNCHANGED <<inputs, cursor, outcomes, stopDispatching>>
    BY <1>7 DEF DispatchFallback
  <2>1. PICK r \in Answers(f) :
          /\ DueAsFallback(f)
          /\ outcome' = OutcomeWithFallback(outcome, f, OutcomeOf(r))
          /\ fallbackResults' = [fallbackResults EXCEPT ![f] = OutcomeOf(r)]
          /\ pc' = "settled"
          /\ UNCHANGED <<inputs, cursor, outcomes, stopDispatching>>
    BY <2>a
  <2>2. pc = "attempted" /\ NotCompleted(outcome) /\ ~stopDispatching
    BY <2>1 DEF DueAsFallback, StopInv, MidTurn
  <2>3. /\ fallbackResults'[f] = OutcomeOf(r)
        /\ \A t \in Steps : t # f => fallbackResults'[t] = fallbackResults[t]
    BY <1>1, <2>1 DEF TypeOK
  <2>4. \A t \in Steps : ~StopsPlan(fallbackResults[t])
    BY <2>2 DEF StopInv
  <2>5. StopsPlan(OutcomeOf(r)) => StopsPlan(outcome')
    BY <2>1, <2>2, StopKinds DEF OutcomeWithFallback, StopsPlan
  <2> QED
    BY <2>1, <2>2, <2>3, <2>4, <2>5 DEF StopInv, MidTurn, StopsPlan, inputs
<1>8. CASE SettleStep
  <2>1. PICK s \in Steps :
          /\ cursor = s /\ MidTurn
          /\ outcomes' = [outcomes EXCEPT ![s] = outcome]
          /\ stopDispatching' = (stopDispatching \/ StopsPlan(outcome))
          /\ cursor' = cursor + 1
          /\ pc' = "turn"
          /\ UNCHANGED <<inputs, outcome, fallbackResults>>
    BY <1>8 DEF SettleStep, MidTurn
  <2>2. outcomes'[s] = outcome /\ \A t \in Steps : t # s => outcomes'[t] = outcomes[t]
    BY <1>1, <2>1 DEF TypeOK
  <2>3. \A t \in Steps : t < cursor' => t < cursor \/ t = s
    BY <2>1 DEF Steps
  <2>4. \A o : StopsPlan(o)' <=> StopsPlan(o)
    BY <1>2, <2>1
  <2>5. \A t \in Steps : t < cursor' /\ StopsPlan(outcomes'[t]) => stopDispatching'
    BY <2>1, <2>2, <2>3 DEF StopInv
  <2>6. \A t \in Steps : StopsPlan(fallbackResults'[t]) => stopDispatching'
    BY <2>1 DEF StopInv
  <2> QED
    BY <2>1, <2>5, <2>6 DEF StopInv, MidTurn, StopsPlan, inputs
<1>9. CASE BuildPlanOutcomeStatus
  <2>1. pc = "turn" /\ pc' = "returned" /\ UNCHANGED <<inputs, locals>>
    BY <1>9 DEF BuildPlanOutcomeStatus, ReportCompleted, ReportCompletedViaFallback,
                ReportPartialSuccess, ReportFailed, ReportCanceled, ReportUnavailable,
                Publish, LoopDone, ContractInvalid
  <2> QED
    BY <2>1 DEF StopInv, MidTurn, StopsPlan, inputs, locals
<1>10. CASE AbortDispatch
  BY <1>10 DEF AbortDispatch, ContractInvalid
<1>11. CASE UNCHANGED vars
  BY <1>11 DEF vars, StopInv, MidTurn, StopsPlan, inputs, locals
<1> QED
  BY <1>3, <1>4, <1>5, <1>6, <1>7, <1>8, <1>9, <1>10, <1>11 DEF Next

(* Once a step has settled as not completed under cancel_remaining_steps,  *)
(* no adapter is called any more, whatever fallbacks are still declared    *)
(* (stop_dispatching).                                                     *)
THEOREM CallsNothingAfterStop == Spec => NoCallAfterStop
<1>1. Init => (pc # "error" => StopInv)
  BY PlanAssumption DEF Init, StopInv, MidTurn, StopsPlan, NotCompleted, Pending, Outcome,
                        Steps
<1>2. IInv /\ (pc # "error" => StopInv) /\ [Next]_vars => (pc # "error" => StopInv)'
  BY StepStopInv
<1>3. IInv /\ (pc # "error" => StopInv) /\ [Next]_vars =>
        [(\E s \in 1..(cursor - 1) : StopsPlan(outcomes[s])) => calls' = calls]_vars
  <2> SUFFICES ASSUME IInv, pc # "error" => StopInv, Next,
                      NEW s \in 1..(cursor - 1), StopsPlan(outcomes[s])
               PROVE  calls' = calls
    OBVIOUS
  <2>1. CASE DispatchStep \/ DispatchFallback \/ AbortDispatch
    <3>1. pc # "error" /\ (MidTurn \/ ~stopDispatching)
      BY <2>1 DEF DispatchStep, DispatchFallback, AbortDispatch, DueInTurn, DueAsFallback,
                  TurnOf, MidTurn
    <3>2. s \in Steps /\ s < cursor
      BY PlanAssumption DEF IInv, TypeOK, Steps
    <3> QED
      BY <3>1, <3>2 DEF StopInv
  <2>2. CASE Admit \/ ReuseFallbackResult \/ SkipStep \/ SettleStep
    BY <2>2 DEF Admit, ReuseFallbackResult, SkipStep, SettleStep
  <2>3. CASE BuildPlanOutcomeStatus
    BY <2>3 DEF BuildPlanOutcomeStatus, ReportCompleted, ReportCompletedViaFallback,
                ReportPartialSuccess, ReportFailed, ReportCanceled, ReportUnavailable, Publish
  <2> QED
    BY <2>1, <2>2, <2>3 DEF Next
<1> QED
  BY <1>1, <1>2, <1>3, Invariance, PTL DEF Spec, NoCallAfterStop

-----------------------------------------------------------------------------
(* Fallbacks: what has to be known for FallbackRescues.                    *)

Announced(s) == \E i \in DOMAIN statuses : statuses[i] = InProgress(s)

(* The result of the fallback f that waits in fallback_results was got for *)
(* the step t, and completed t if it completed.                            *)
TriedFor(t, f) ==
    /\ f \in DeclaredFallback(t)
    /\ \/ t < cursor /\ (fallbackResults[f].kind = "Completed" => outcomes[t].via = f)
       \/ /\ t = cursor /\ pc = "settled"
          /\ fallbackResults[f].kind = "Completed" => outcome.via = f

(* Why the fallback f could not rescue the step s.                         *)
NoRescue(s, f) ==
    \/ f \notin Delivered /\ Announced(f)
    \/ \E t \in 1..(s - 1) : outcomes[t].via = f
    \/ \E t \in 1..(s - 1) : s \in DeclaredFallback(t)

(* The trace is empty before the loop and complete when it is returned.    *)
TraceInv ==
    /\ pc = "admit" => statuses = <<>>
    /\ pc = "returned" => cursor = N + 1

(* A step ahead of the loop that was announced was dispatched as a         *)
(* fallback, and its result waits for its turn.                            *)
AnnouncedInv ==
    \A f \in Steps : Announced(f) /\ Ahead(f) => fallbackResults[f] # Pending

TriedInv ==
    \A f \in Steps : fallbackResults[f] # Pending =>
        Announced(f) /\ \E t \in Steps : TriedFor(t, f)

(* The fallback of the step whose turn it is was just tried in vain.       *)
SettledInv ==
    pc = "settled" /\ NotCompleted(outcome) =>
        \A f \in DeclaredFallback(cursor) : f \notin Delivered /\ Announced(f)

RescuedInv ==
    \A s \in Steps : s < cursor /\ NotCompleted(outcomes[s]) =>
        \A f \in DeclaredFallback(s) : NoRescue(s, f)

RescueInv ==
    /\ TraceInv
    /\ AnnouncedInv
    /\ TriedInv
    /\ SettledInv
    /\ RescuedInv

(* A step has one declared fallback at most: the first reference for it    *)
(* counts (declared_fallback_step).                                        *)
LEMMA FallbackIsUnique ==
    ASSUME plan \in Plans, NEW s \in Steps,
           NEW f \in DeclaredFallback(s), NEW g \in DeclaredFallback(s)
    PROVE  f = g
<1> DEFINE refs == plan.fallback_references
<1>1. PICK n \in 0..MaxRefs : refs \in [1..n -> FallbackReferences]
  BY DEF Plans, ReferenceLists
<1>2. PICK i \in DOMAIN refs :
        /\ refs[i] = [step_id |-> s, fallback_step_id |-> f]
        /\ \A j \in 1..(i - 1) : refs[j].step_id # s
  BY DEF DeclaredFallback
<1>3. PICK k \in DOMAIN refs :
        /\ refs[k] = [step_id |-> s, fallback_step_id |-> g]
        /\ \A j \in 1..(k - 1) : refs[j].step_id # s
  BY DEF DeclaredFallback
<1> HIDE DEF refs
<1>4. i \in 1..n /\ k \in 1..n /\ n \in Nat
  BY <1>1, PlanAssumption
<1>5. refs[i].step_id = s /\ refs[k].step_id = s
  BY <1>2, <1>3
<1>6. ~(i < k) /\ ~(k < i)
  BY <1>2, <1>3, <1>4, <1>5
<1>7. i = k
  BY <1>4, <1>6
<1> QED
  BY <1>2, <1>3, <1>7

(* The in_progress status of a step names the step, and is not any other   *)
(* status.                                                                 *)
LEMMA InProgressNames ==
    ASSUME NEW s, NEW t, InProgress(s) = InProgress(t)
    PROVE  s = t
<1>1. InProgress(s).step = s /\ InProgress(t).step = t
  BY DEF InProgress, Status
<1> QED
  BY <1>1

(* Appending a status to the trace announces what it announces, and keeps  *)
(* the rest.                                                               *)
LEMMA AppendAnnounces ==
    ASSUME TypeOK, UNCHANGED inputs, NEW status \in Statuses,
           statuses' = Append(statuses, status)
    PROVE  \A s \in Steps : Announced(s)' <=> Announced(s) \/ status = InProgress(s)
<1>1. \A s \in Steps : InProgress(s)' = InProgress(s)
  BY DEF InProgress, inputs
<1>2. statuses \in Seq(Statuses)
  BY DEF TypeOK
<1>3. /\ DOMAIN statuses' = 1..(Len(statuses) + 1)
      /\ DOMAIN statuses = 1..Len(statuses) /\ Len(statuses) \in Nat
      /\ \A i \in 1..Len(statuses) : statuses'[i] = statuses[i]
      /\ statuses'[Len(statuses) + 1] = status
  BY <1>2
<1>4. \A i \in 1..(Len(statuses) + 1) : i \in 1..Len(statuses) \/ i = Len(statuses) + 1
  BY <1>3
<1>5. \A i \in 1..Len(statuses) : i \in 1..(Len(statuses) + 1)
  BY <1>3
<1>6. Len(statuses) + 1 \in 1..(Len(statuses) + 1)
  BY <1>3
<1> QED
  BY <1>1, <1>3, <1>4, <1>5, <1>6 DEF Announced

(* A reason why a step was not rescued stays one when its fallback is not  *)
(* called again.                                                           *)
LEMMA NoRescueStays ==
    ASSUME NEW s \in Steps, NEW f \in Steps, NoRescue(s, f), UNCHANGED inputs,
           Announced(f) => Announced(f)',
           f \notin Delivered /\ Announced(f) => f \notin Delivered',
           \A t \in Steps : t < s => outcomes'[t] = outcomes[t]
    PROVE  NoRescue(s, f)'
<1>1. CASE f \notin Delivered /\ Announced(f)
  BY <1>1 DEF NoRescue
<1>2. ASSUME NEW t \in 1..(s - 1), outcomes[t].via = f
      PROVE  NoRescue(s, f)'
  <2>1. t \in Steps /\ t < s
    BY PlanAssumption DEF Steps
  <2> QED
    BY <1>2, <2>1 DEF NoRescue
<1>3. ASSUME NEW t \in 1..(s - 1), s \in DeclaredFallback(t)
      PROVE  NoRescue(s, f)'
  <2>1. t \in Steps
    BY PlanAssumption DEF Steps
  <2>2. DeclaredFallback(t)' = DeclaredFallback(t)
    BY <2>1, FallbackStays
  <2> QED
    BY <1>3, <2>2 DEF NoRescue
<1> QED
  BY <1>1, <1>2, <1>3 DEF NoRescue

(* The in_progress status is a status.                                     *)
LEMMA InProgressTyped ==
    ASSUME TypeOK, NEW s \in Steps
    PROVE  InProgress(s) \in Statuses
<1>1. plan.words[s] \in SUBSET Words
  BY DEF TypeOK, Plans
<1> QED
  BY <1>1 DEF InProgress, Status, Statuses

(* Calling an adapter changes what is known of its step alone.             *)
LEMMA OthersUntouched ==
    ASSUME TypeOK, NEW s \in Steps, NEW r, Deliver(s, r)
    PROVE  \A t \in Steps : t # s => world'[t] = world[t]
  BY DEF Deliver, TypeOK

(* A step of the loop that calls no adapter and leaves the trace alone.    *)
LEMMA UntouchedStays ==
    ASSUME UNCHANGED <<inputs, statuses, world>>
    PROVE  /\ \A s \in Steps : Announced(s)' <=> Announced(s)
           /\ \A s \in Steps : DeclaredFallback(s)' = DeclaredFallback(s)
           /\ Delivered' = Delivered
<1>1. \A s \in Steps : InProgress(s)' = InProgress(s)
  BY DEF InProgress, inputs
<1> QED
  BY <1>1, FallbackStays DEF Announced, Delivered

(* The turns that dispatch nothing.                                        *)
LEMMA QuietTurnRescue ==
    ASSUME IInv, RescueInv, ReuseFallbackResult \/ SkipStep
    PROVE  RescueInv'
<1> DEFINE skipped == Outcome("Skipped", NoText, NoStep)
<1>1. PICK s \in Steps :
        /\ pc = "turn" /\ pc' = "turn" /\ cursor = s /\ cursor' = cursor + 1
        /\ UNCHANGED <<inputs, outcome, statuses, calls, world>>
        /\ \/ /\ fallbackResults[s] # Pending
              /\ outcomes' = [outcomes EXCEPT ![s] = fallbackResults[s]]
              /\ fallbackResults' = [fallbackResults EXCEPT ![s] = Pending]
           \/ /\ outcomes' = [outcomes EXCEPT ![s] = skipped]
              /\ fallbackResults[s] = Pending
              /\ fallbackResults' = fallbackResults
  BY DEF ReuseFallbackResult, SkipStep, TurnOf
<1>2. TypeOK /\ plan \in Plans
  BY DEF IInv, TypeOK
<1>3. /\ \A t \in Steps : t # s =>
           outcomes'[t] = outcomes[t] /\ fallbackResults'[t] = fallbackResults[t]
      /\ fallbackResults'[s] = Pending
      /\ \/ fallbackResults[s] # Pending /\ outcomes'[s] = fallbackResults[s]
         \/ outcomes'[s] = skipped
  BY <1>1, <1>2 DEF TypeOK
<1>4. /\ \A t \in Steps : Announced(t)' <=> Announced(t)
      /\ \A t \in Steps : DeclaredFallback(t)' = DeclaredFallback(t)
      /\ Delivered' = Delivered
  BY <1>1, UntouchedStays
<1>5. \A t \in Steps : t < cursor' <=> t < cursor \/ t = s
  BY <1>1 DEF Steps
<1>6. \A t \in Steps : Ahead(t)' => Ahead(t) /\ t # s
  BY <1>1 DEF Ahead, MidTurn, Steps
<1>7. AnnouncedInv'
  BY <1>3, <1>4, <1>6 DEF RescueInv, AnnouncedInv
<1>8. TriedInv'
  <2> SUFFICES ASSUME NEW f \in Steps, fallbackResults'[f] # Pending
               PROVE  Announced(f)' /\ \E t \in Steps : TriedFor(t, f)'
    BY DEF TriedInv
  <2>1. f # s /\ fallbackResults'[f] = fallbackResults[f]
    BY <1>3
  <2>2. Announced(f) /\ \E t \in Steps : TriedFor(t, f)
    BY <2>1 DEF RescueInv, TriedInv
  <2>3. PICK t \in Steps : TriedFor(t, f)
    BY <2>2
  <2>4. t < cursor /\ f \in DeclaredFallback(t)
        /\ (fallbackResults[f].kind = "Completed" => outcomes[t].via = f)
    BY <1>1, <2>3 DEF TriedFor
  <2>5. t # s /\ t < cursor'
    BY <1>1, <1>5, <2>4 DEF Steps
  <2>6. TriedFor(t, f)'
    BY <1>3, <1>4, <2>1, <2>4, <2>5 DEF TriedFor
  <2> QED
    BY <1>4, <2>2, <2>6
<1>9. SettledInv'
  BY <1>1 DEF SettledInv
<1>10. RescuedInv'
  <2> SUFFICES ASSUME NEW t \in Steps, t < cursor', NotCompleted(outcomes'[t]),
                      NEW f \in DeclaredFallback(t)
               PROVE  NoRescue(t, f)'
    BY <1>4 DEF RescuedInv, NotCompleted
  <2>1. f \in Steps
    BY DEF DeclaredFallback
  <2>2. CASE t # s
    <3>1. t < cursor /\ outcomes'[t] = outcomes[t]
      BY <1>3, <1>5, <2>2
    <3>2. NoRescue(t, f)
      BY <3>1 DEF RescueInv, RescuedInv
    <3>3. \A u \in Steps : u < t => outcomes'[u] = outcomes[u]
      BY <1>1, <1>3, <3>1 DEF Steps
    <3> QED
      BY <1>1, <1>4, <2>1, <3>2, <3>3, NoRescueStays
  <2>3. CASE t = s
    <3>1. fallbackResults[s] # Pending
      BY <1>3, <2>3 DEF NotCompleted, Outcome
    <3>2. PICK u \in Steps : TriedFor(u, s)
      BY <3>1 DEF RescueInv, TriedInv
    <3>3. s \in DeclaredFallback(u) /\ u \in 1..(s - 1)
      BY <1>1, <3>2 DEF TriedFor, Steps
    <3> QED
      BY <1>4, <2>3, <3>3 DEF NoRescue
  <2> QED
    BY <2>2, <2>3
<1> QED
  BY <1>1, <1>7, <1>8, <1>9, <1>10 DEF RescueInv, TraceInv

(* A step handed over in its turn has not been announced before.           *)
LEMMA DispatchRescue ==
    ASSUME IInv, RescueInv, DispatchStep
    PROVE  RescueInv'
<1>a. PICK s \in Steps : \E r \in Answers(s) :
        /\ DueInTurn(s)
        /\ DispatchOneStep(s, r)
        /\ pc' = "attempted"
        /\ UNCHANGED <<inputs, cursor, outcomes, fallbackResults, stopDispatching>>
  BY DEF DispatchStep
<1>1. PICK r \in Answers(s) :
        /\ DueInTurn(s)
        /\ DispatchOneStep(s, r)
        /\ pc' = "attempted"
        /\ UNCHANGED <<inputs, cursor, outcomes, fallbackResults, stopDispatching>>
  BY <1>a
<1>2. /\ pc = "turn" /\ cursor = s /\ fallbackResults[s] = Pending
      /\ Deliver(s, r) /\ statuses' = Append(statuses, InProgress(s))
  BY <1>1 DEF DueInTurn, TurnOf, DispatchOneStep
<1>3. TypeOK /\ plan \in Plans
  BY DEF IInv, TypeOK
<1>4. \A t \in Steps : Announced(t)' <=> Announced(t) \/ t = s
  BY <1>1, <1>2, <1>3, InProgressTyped, AppendAnnounces, InProgressNames
<1>5. ~Announced(s)
  BY <1>2 DEF RescueInv, AnnouncedInv, Ahead, MidTurn
<1>6. \A t \in Steps : t # s => (t \in Delivered' <=> t \in Delivered)
  BY <1>2, <1>3, OthersUntouched DEF Delivered
<1>7. \A t \in Steps : DeclaredFallback(t)' = DeclaredFallback(t)
  BY <1>1, FallbackStays
<1>8. AnnouncedInv'
  <2>1. \A t \in Steps : Ahead(t)' => Ahead(t) /\ t # s
    BY <1>1, <1>2 DEF Ahead, MidTurn, Steps
  <2> QED
    BY <1>1, <1>4, <2>1 DEF RescueInv, AnnouncedInv
<1>9. TriedInv'
  <2> SUFFICES ASSUME NEW f \in Steps, fallbackResults[f] # Pending
               PROVE  Announced(f)' /\ \E t \in Steps : TriedFor(t, f)'
    BY <1>1 DEF TriedInv
  <2>1. Announced(f) /\ \E t \in Steps : TriedFor(t, f)
    BY DEF RescueInv, TriedInv
  <2>2. \A t \in Steps : TriedFor(t, f) => TriedFor(t, f)'
    BY <1>1, <1>2, <1>7 DEF TriedFor
  <2> QED
    BY <1>4, <2>1, <2>2
<1>10. SettledInv'
  BY <1>1 DEF SettledInv
<1>11. RescuedInv'
  <2> SUFFICES ASSUME NEW t \in Steps, t < cursor, NotCompleted(outcomes[t]),
                      NEW f \in DeclaredFallback(t)
               PROVE  NoRescue(t, f)'
    BY <1>1, <1>7 DEF RescuedInv, NotCompleted
  <2>1. f \in Steps
    BY DEF DeclaredFallback
  <2>2. NoRescue(t, f)
    BY DEF RescueInv, RescuedInv
  <2>3. f \notin Delivered /\ Announced(f) => f \notin Delivered'
    BY <1>5, <1>6, <2>1
  <2> QED
    BY <1>1, <1>4, <2>1, <2>2, <2>3, NoRescueStays
<1> QED
  BY <1>1, <1>8, <1>9, <1>10, <1>11 DEF RescueInv, TraceInv

(* Neither has a step handed over as a fallback, and the step it is tried  *)
(* for is the one whose turn it is.                                        *)
LEMMA FallbackRescue ==
    ASSUME IInv, RescueInv, DispatchFallback
    PROVE  RescueInv'
<1>a. PICK f \in Steps : \E r \in Answers(f) :
        /\ DueAsFallback(f)
        /\ DispatchOneStep(f, r)
        /\ outcome' = OutcomeWithFallback(outcome, f, OutcomeOf(r))
        /\ fallbackResults' = [fallbackResults EXCEPT ![f] = OutcomeOf(r)]
        /\ pc' = "settled"
        /\ UNCHANGED <<inputs, cursor, outcomes, stopDispatching>>
  BY DEF DispatchFallback
<1>1. PICK r \in Answers(f) :
        /\ DueAsFallback(f)
        /\ DispatchOneStep(f, r)
        /\ outcome' = OutcomeWithFallback(outcome, f, OutcomeOf(r))
        /\ fallbackResults' = [fallbackResults EXCEPT ![f] = OutcomeOf(r)]
        /\ pc' = "settled"
        /\ UNCHANGED <<inputs, cursor, outcomes, stopDispatching>>
  BY <1>a
<1>2. /\ pc = "attempted" /\ f \in DeclaredFallback(cursor) /\ fallbackResults[f] = Pending
      /\ ~Rejected(r) /\ Deliver(f, r) /\ statuses' = Append(statuses, InProgress(f))
  BY <1>1 DEF DueAsFallback, DeclaredFallbackStep, DispatchOneStep
<1>3. TypeOK /\ plan \in Plans /\ LoopInv /\ CallInv
  BY <1>2 DEF IInv, TypeOK
<1>4. cursor \in Steps /\ cursor < f
  BY <1>2, <1>3, FallbackIsLater DEF LoopInv, MidTurn
<1>5. \A t \in Steps : Announced(t)' <=> Announced(t) \/ t = f
  BY <1>1, <1>2, <1>3, InProgressTyped, AppendAnnounces, InProgressNames
<1>6. ~Announced(f)
  BY <1>2, <1>4 DEF RescueInv, AnnouncedInv, Ahead
<1>7. \A t \in Steps : t # f => (t \in Delivered' <=> t \in Delivered)
  BY <1>2, <1>3, OthersUntouched DEF Delivered
<1>8. \A t \in Steps : DeclaredFallback(t)' = DeclaredFallback(t)
  BY <1>1, FallbackStays
<1>9. /\ fallbackResults'[f] = OutcomeOf(r)
      /\ \A t \in Steps : t # f => fallbackResults'[t] = fallbackResults[t]
  BY <1>1, <1>3 DEF TypeOK
<1>10. /\ OutcomeOf(r).kind \in {"Completed", "Failed", "Canceled", "Unavailable"}
       /\ OutcomeOf(r).kind = "Completed" <=> r.kind = "DeliveredAllSteps"
       /\ OutcomeOf(r) # Pending
  BY <1>2, <1>3, AcceptedAnswer DEF Pending, Outcome
<1>11. AnnouncedInv'
  <2>1. \A t \in Steps : Ahead(t)' <=> Ahead(t)
    BY <1>1, <1>2 DEF Ahead, MidTurn
  <2> QED
    BY <1>5, <1>9, <1>10, <2>1 DEF RescueInv, AnnouncedInv
<1>12. TriedInv'
  <2> SUFFICES ASSUME NEW g \in Steps, fallbackResults'[g] # Pending
               PROVE  Announced(g)' /\ \E t \in Steps : TriedFor(t, g)'
    BY DEF TriedInv
  <2>1. CASE g = f
    <3>1. OutcomeOf(r).kind = "Completed" => outcome'.via = f
      BY <1>1 DEF OutcomeWithFallback, Outcome
    <3>2. TriedFor(cursor, f)'
      BY <1>1, <1>2, <1>4, <1>8, <1>9, <3>1 DEF TriedFor
    <3>3. \E t \in Steps : TriedFor(t, f)'
      BY <1>1, <1>4, <3>2 DEF TriedFor
    <3> QED
      BY <1>5, <2>1, <3>3
  <2>2. CASE g # f
    <3>1. fallbackResults'[g] = fallbackResults[g]
      BY <1>9, <2>2
    <3>2. Announced(g) /\ \E t \in Steps : TriedFor(t, g)
      BY <3>1 DEF RescueInv, TriedInv
    <3>3. \A t \in Steps : TriedFor(t, g) => TriedFor(t, g)'
      BY <1>1, <1>2, <1>8, <3>1 DEF TriedFor
    <3> QED
      BY <1>5, <3>2, <3>3
  <2> QED
    BY <2>1, <2>2
<1>13. SettledInv'
  <2> SUFFICES ASSUME NotCompleted(outcome'), NEW g \in DeclaredFallback(cursor)
               PROVE  g \notin Delivered' /\ Announced(g)'
    BY <1>1, <1>4, <1>8 DEF SettledInv, NotCompleted
  <2>1. g = f
    BY <1>2, <1>3, <1>4, FallbackIsUnique
  <2>2. r.kind # "DeliveredAllSteps"
    BY <1>1, <1>10 DEF OutcomeWithFallback, Outcome, NotCompleted
  <2>3. f \notin Delivered'
    <3>1. calls[f] = 0
      BY <1>2, <1>3, <1>4 DEF CallInv, Ahead
    <3>2. world[f] # "DeliveredAllSteps"
      BY <1>3, <3>1 DEF CallInv
    <3> QED
      BY <1>2, <1>3, <2>2, <3>2 DEF Deliver, Delivered, TypeOK
  <2> QED
    BY <1>5, <2>1, <2>3
<1>14. RescuedInv'
  <2> SUFFICES ASSUME NEW t \in Steps, t < cursor, NotCompleted(outcomes[t]),
                      NEW g \in DeclaredFallback(t)
               PROVE  NoRescue(t, g)'
    BY <1>1, <1>8 DEF RescuedInv, NotCompleted
  <2>1. g \in Steps
    BY DEF DeclaredFallback
  <2>2. NoRescue(t, g)
    BY DEF RescueInv, RescuedInv
  <2>3. g \notin Delivered /\ Announced(g) => g \notin Delivered'
    BY <1>6, <1>7, <2>1
  <2> QED
    BY <1>1, <1>5, <2>1, <2>2, <2>3, NoRescueStays
<1> QED
  BY <1>1, <1>11, <1>12, <1>13, <1>14 DEF RescueInv, TraceInv

(* At the end of a turn a step without a fallback left to try has one that *)
(* was spent, or that was tried and did not deliver.                       *)
LEMMA SettleRescue ==
    ASSUME IInv, RescueInv, SettleStep
    PROVE  RescueInv'
<1>1. PICK s \in Steps :
        /\ cursor = s
        /\ \/ pc = "settled"
           \/ pc = "attempted" /\ ~\E f \in Steps : DueAsFallback(f)
        /\ outcomes' = [outcomes EXCEPT ![s] = outcome]
        /\ cursor' = cursor + 1
        /\ pc' = "turn"
        /\ UNCHANGED <<inputs, outcome, fallbackResults, statuses, calls, world>>
  BY DEF SettleStep
<1>2. TypeOK /\ plan \in Plans /\ OutcomeInv
  BY <1>1 DEF IInv, TypeOK
<1>3. outcomes'[s] = outcome /\ \A t \in Steps : t # s => outcomes'[t] = outcomes[t]
  BY <1>1, <1>2 DEF TypeOK
<1>4. /\ \A t \in Steps : Announced(t)' <=> Announced(t)
      /\ \A t \in Steps : DeclaredFallback(t)' = DeclaredFallback(t)
      /\ Delivered' = Delivered
  BY <1>1, UntouchedStays
<1>5. \A t \in Steps : t < cursor' <=> t < cursor \/ t = s
  BY <1>1 DEF Steps
<1>6. AnnouncedInv'
  <2>1. \A t \in Steps : Ahead(t)' => Ahead(t)
    BY <1>1 DEF Ahead, MidTurn, Steps
  <2> QED
    BY <1>1, <1>4, <2>1 DEF RescueInv, AnnouncedInv
<1>7. TriedInv'
  <2> SUFFICES ASSUME NEW f \in Steps, fallbackResults[f] # Pending
               PROVE  Announced(f)' /\ \E t \in Steps : TriedFor(t, f)'
    BY <1>1 DEF TriedInv
  <2>1. Announced(f) /\ \E t \in Steps : TriedFor(t, f)
    BY DEF RescueInv, TriedInv
  <2>2. ASSUME NEW t \in Steps, TriedFor(t, f)
        PROVE  TriedFor(t, f)'
    <3>1. CASE t < cursor
      <4>1. t # s /\ t < cursor' /\ ~(t = cursor)
        BY <1>1, <1>5, <3>1 DEF Steps
      <4> QED
        BY <1>1, <1>3, <1>4, <2>2, <4>1 DEF TriedFor
    <3>2. CASE t = cursor
      <4>1. t < cursor' /\ ~(t < cursor)
        BY <1>1, <3>2 DEF Steps
      <4> QED
        BY <1>1, <1>3, <1>4, <2>2, <3>2, <4>1 DEF TriedFor
    <3> QED
      BY <2>2, <3>1, <3>2 DEF TriedFor
  <2> QED
    BY <1>4, <2>1, <2>2
<1>8. SettledInv'
  BY <1>1 DEF SettledInv
<1>9. RescuedInv'
  <2> SUFFICES ASSUME NEW t \in Steps, t < cursor', NotCompleted(outcomes'[t]),
                      NEW f \in DeclaredFallback(t)
               PROVE  NoRescue(t, f)'
    BY <1>4 DEF RescuedInv, NotCompleted
  <2>1. f \in Steps
    BY DEF DeclaredFallback
  <2>2. CASE t # s
    <3>1. t < cursor /\ outcomes'[t] = outcomes[t]
      BY <1>3, <1>5, <2>2
    <3>2. NoRescue(t, f)
      BY <3>1 DEF RescueInv, RescuedInv
    <3>3. \A u \in Steps : u < t => outcomes'[u] = outcomes[u]
      BY <1>1, <1>3, <3>1 DEF Steps
    <3> QED
      BY <1>1, <1>4, <2>1, <3>2, <3>3, NoRescueStays
  <2>3. CASE t = s
    <3>1. NotCompleted(outcome)
      BY <1>3, <2>3 DEF NotCompleted
    <3>2. NoRescue(s, f)
      <4>1. CASE pc = "settled"
        BY <1>1, <2>3, <3>1, <4>1 DEF RescueInv, SettledInv, NoRescue
      <4>2. CASE pc = "attempted"
        <5>1. fallbackResults[f] # Pending
          BY <1>1, <2>1, <2>3, <3>1, <4>2 DEF DueAsFallback, DeclaredFallbackStep
        <5>2. Announced(f) /\ \E u \in Steps : TriedFor(u, f)
          BY <2>1, <5>1 DEF RescueInv, TriedInv
        <5>3. PICK u \in Steps : TriedFor(u, f)
          BY <5>2
        <5>4. u \in 1..(s - 1) /\ (fallbackResults[f].kind = "Completed" => outcomes[u].via = f)
          BY <1>1, <4>2, <5>3 DEF TriedFor, Steps
        <5>5. fallbackResults[f].kind # "Completed" => f \notin Delivered
          BY <1>2, <2>1, <5>1 DEF OutcomeInv, Attested, Delivered
        <5> QED
          BY <5>2, <5>4, <5>5 DEF NoRescue
      <4> QED
        BY <1>1, <4>1, <4>2
    <3>3. \A u \in Steps : u < s => outcomes'[u] = outcomes[u]
      BY <1>3 DEF Steps
    <3> QED
      BY <1>1, <1>4, <2>1, <2>3, <3>2, <3>3, NoRescueStays
  <2> QED
    BY <2>2, <2>3
<1> QED
  BY <1>1, <1>6, <1>7, <1>8, <1>9 DEF RescueInv, TraceInv

(* The first and the last status of the trace announce no step.            *)
LEMMA TraceEndsRescue ==
    ASSUME IInv, RescueInv, pc' # "error", Admit \/ BuildPlanOutcomeStatus \/ UNCHANGED vars
    PROVE  RescueInv'
<1>1. /\ UNCHANGED <<inputs, locals, calls, world>>
      /\ pc' = pc \/ (pc \in {"admit", "turn"} /\ pc' \in {"turn", "returned"})
      /\ pc' = "returned" /\ pc # "returned" => cursor = N + 1
  BY DEF vars, Admit, BuildPlanOutcomeStatus, ReportCompleted, ReportCompletedViaFallback,
         ReportPartialSuccess, ReportFailed, ReportCanceled, ReportUnavailable, Publish,
         LoopDone, ContractInvalid
<1>2. \A s \in Steps : InProgress(s)' = InProgress(s) /\ InProgress(s).state = "InProgress"
  BY <1>1 DEF InProgress, Status, inputs
<1>3. \A s \in Steps : Announced(s)' <=> Announced(s)
  <2>1. CASE Admit
    <3>1. /\ pc = "admit"
          /\ statuses' = <<Status("AdmittedNotStarted", "None", NoStep, {})>>
      BY <2>1 DEF Admit, ContractInvalid
    <3>2. \A s \in Steps : ~Announced(s)'
      BY <1>2, <3>1 DEF Announced, Status
    <3>3. \A s \in Steps : ~Announced(s)
      BY <3>1 DEF RescueInv, TraceInv, Announced
    <3> QED
      BY <3>2, <3>3
  <2>2. CASE BuildPlanOutcomeStatus
    <3>0. \A state, subtype, step, words :
            Status(state, subtype, step, words).state = state
      BY DEF Status
    <3>1. PICK status, bytes :
            /\ Publish(status, bytes)
            /\ status.state # "InProgress"
      <4>1. CASE ReportCompleted
        BY <3>0, <4>1 DEF ReportCompleted
      <4>2. CASE ReportCompletedViaFallback
        BY <3>0, <4>2 DEF ReportCompletedViaFallback
      <4>3. CASE ReportPartialSuccess
        BY <3>0, <4>3 DEF ReportPartialSuccess
      <4>4. CASE ReportFailed
        BY <3>0, <4>4 DEF ReportFailed
      <4>5. CASE ReportCanceled
        BY <3>0, <4>5 DEF ReportCanceled
      <4>6. CASE ReportUnavailable
        BY <3>0, <4>6 DEF ReportUnavailable
      <4> QED
        BY <2>2, <4>1, <4>2, <4>3, <4>4, <4>5, <4>6 DEF BuildPlanOutcomeStatus
    <3>2. statuses' = Append(statuses, status) /\ statuses \in Seq(Statuses)
      BY <3>1 DEF Publish, ContractInvalid, IInv, TypeOK
    <3>3. /\ DOMAIN statuses' = 1..(Len(statuses) + 1)
          /\ DOMAIN statuses = 1..Len(statuses) /\ Len(statuses) \in Nat
          /\ \A i \in 1..Len(statuses) : statuses'[i] = statuses[i]
          /\ statuses'[Len(statuses) + 1] = status
      BY <3>2
    <3>4. \A i \in 1..(Len(statuses) + 1) : i \in 1..Len(statuses) \/ i = Len(statuses) + 1
      BY <3>3
    <3>5. \A i \in 1..Len(statuses) : i \in 1..(Len(statuses) + 1)
      BY <3>3
    <3> QED
      BY <1>2, <3>1, <3>3, <3>4, <3>5 DEF Announced
  <2>3. CASE UNCHANGED vars
    BY <1>2, <2>3 DEF vars, Announced
  <2> QED
    BY <2>1, <2>2, <2>3
<1>4. /\ \A t \in Steps : DeclaredFallback(t)' = DeclaredFallback(t)
      /\ Delivered' = Delivered
  BY <1>1, FallbackStays DEF Delivered
<1>5. pc' = "settled" <=> pc = "settled"
  BY <1>1
<1>6. \A t \in Steps : Ahead(t)' <=> Ahead(t)
  BY <1>1 DEF Ahead, MidTurn, locals
<1>7. \A t, f \in Steps : TriedFor(t, f)' <=> TriedFor(t, f)
  BY <1>1, <1>4, <1>5 DEF TriedFor, locals
<1>8. AnnouncedInv' /\ TriedInv'
  BY <1>1, <1>3, <1>6, <1>7 DEF RescueInv, AnnouncedInv, TriedInv, locals
<1>9. SettledInv'
  <2> SUFFICES ASSUME pc = "settled", NotCompleted(outcome), NEW f \in DeclaredFallback(cursor)'
               PROVE  f \notin Delivered /\ Announced(f)'
    BY <1>1, <1>4, <1>5 DEF SettledInv, NotCompleted, locals
  <2>1. cursor \in Steps
    BY DEF IInv, LoopInv, MidTurn
  <2>2. f \in DeclaredFallback(cursor) /\ f \in Steps
    BY <1>1, <2>1 DEF DeclaredFallback, inputs, locals
  <2> QED
    BY <1>3, <2>2 DEF RescueInv, SettledInv
<1>10. RescuedInv'
  <2> SUFFICES ASSUME NEW t \in Steps, t < cursor, NotCompleted(outcomes[t]),
                      NEW f \in DeclaredFallback(t)
               PROVE  NoRescue(t, f)'
    BY <1>1, <1>4 DEF RescuedInv, NotCompleted, locals
  <2>1. f \in Steps /\ NoRescue(t, f)
    BY DEF DeclaredFallback, RescueInv, RescuedInv
  <2> QED
    BY <1>1, <1>3, <1>4, <2>1, NoRescueStays DEF locals
<1>11. TraceInv'
  <2>1. CASE Admit
    BY <2>1 DEF TraceInv, Admit, ContractInvalid
  <2>2. CASE BuildPlanOutcomeStatus
    <3>1. pc' = "returned" \/ pc' = "error"
      BY <2>2 DEF BuildPlanOutcomeStatus, ReportCompleted, ReportCompletedViaFallback,
                  ReportPartialSuccess, ReportFailed, ReportCanceled, ReportUnavailable,
                  Publish, ContractInvalid
    <3>2. LoopDone
      BY <2>2 DEF BuildPlanOutcomeStatus, ReportCompleted, ReportCompletedViaFallback,
                  ReportPartialSuccess, ReportFailed, ReportCanceled, ReportUnavailable, Publish
    <3>3. cursor' = cursor
      BY <1>1 DEF locals
    <3> QED
      BY <3>1, <3>2, <3>3 DEF LoopDone, TraceInv
  <2>3. CASE UNCHANGED vars
    BY <2>3 DEF RescueInv, TraceInv, vars, locals
  <2> QED
    BY <2>1, <2>2, <2>3
<1> QED
  BY <1>8, <1>9, <1>10, <1>11 DEF RescueInv

(* Every step of the coordinator keeps RescueInv.                          *)
LEMMA StepRescueInv ==
    ASSUME IInv, pc # "error" => RescueInv, [Next]_vars
    PROVE  pc' # "error" => RescueInv'
<1> SUFFICES ASSUME pc # "error", RescueInv, pc' # "error"
             PROVE  RescueInv'
  BY DEF Next, vars, Admit, ReuseFallbackResult, SkipStep, DispatchStep, DispatchFallback,
         AbortDispatch, SettleStep, BuildPlanOutcomeStatus, ReportCompleted,
         ReportCompletedViaFallback, ReportPartialSuccess, ReportFailed, ReportCanceled,
         ReportUnavailable, Publish, LoopDone, TurnOf, DueInTurn, DueAsFallback
<1>1. ~AbortDispatch
  BY DEF AbortDispatch, ContractInvalid
<1> QED
  BY <1>1, QuietTurnRescue, DispatchRescue, FallbackRescue, SettleRescue, TraceEndsRescue
  DEF Next

(* A declared fallback is never wasted: a step that stays not completed in *)
(* a returned trace had one that was tried in vain or spent on an earlier  *)
(* step, or ran as a fallback itself (declared_fallback_step).             *)
THEOREM FallbacksRescue == Spec => []FallbackRescues
<1>1. Init => (pc # "error" => RescueInv)
  <2> SUFFICES ASSUME Init
               PROVE  RescueInv
    OBVIOUS
  <2>1. \A s \in Steps : ~Announced(s)
    BY DEF Init, Announced
  <2> QED
    BY <2>1, PlanAssumption
    DEF Init, RescueInv, TraceInv, AnnouncedInv, TriedInv, SettledInv, RescuedInv, Steps
<1>2. IInv /\ (pc # "error" => RescueInv) /\ [Next]_vars => (pc # "error" => RescueInv)'
  BY StepRescueInv
<1>3. IInv /\ (pc # "error" => RescueInv) => FallbackRescues
  <2> SUFFICES ASSUME IInv, RescueInv, pc = "returned",
                      NEW s \in Steps, NotCompleted(outcomes[s]), NEW f \in DeclaredFallback(s)
               PROVE  \/ /\ f \notin Delivered
                         /\ InProgress(f) \in {statuses[i] : i \in DOMAIN statuses}
                      \/ \E t \in 1..(s - 1) : outcomes[t].via = f
                      \/ \E t \in 1..(s - 1) : s \in DeclaredFallback(t)
    BY DEF FallbackRescues
  <2>1. s < cursor
    BY PlanAssumption DEF RescueInv, TraceInv, Steps
  <2>2. NoRescue(s, f)
    BY <2>1 DEF RescueInv, RescuedInv
  <2> QED
    BY <2>2 DEF NoRescue, Announced
<1> QED
  BY <1>1, <1>2, <1>3, Invariance, PTL DEF Spec

-----------------------------------------------------------------------------
(* The loop implements DeliveryContract.                                   *)

attempted == {s \in Steps : calls[s] > 0}

(* A step that calls no adapter and gives no report is a stuttering step   *)
(* of the contract.                                                        *)
LEMMA SilentStep ==
    ASSUME UNCHANGED <<calls, world>>, Report' = Report
    PROVE  UNCHANGED Contract!vars
  BY DEF Contract!vars, Delivered

(* Calling the adapter of a step that was never called is an attempt, with *)
(* no report yet or with an error.                                         *)
LEMMA AttemptStep ==
    ASSUME TypeOK, AtMostOnce, CallInv, NEW s \in Steps, NEW r \in Answers(s),
           calls[s] = 0, r # NoAdapter, Deliver(s, r),
           Report = "none", Report' \in {"none", "error"}
    PROVE  Contract!Attempt(s)
<1>1. /\ \A t \in Steps : t # s => calls'[t] = calls[t] /\ world'[t] = world[t]
      /\ world[s] # "DeliveredAllSteps"
      /\ calls'[s] = 1
  BY DEF Deliver, TypeOK, CallInv
<1>2. s \notin attempted /\ attempted' = attempted \cup {s}
  BY <1>1 DEF attempted
<1>3. Delivered' = Delivered \cup {s} \/ Delivered' = Delivered
  BY <1>1 DEF Delivered
<1> QED
  BY <1>2, <1>3 DEF Contract!Attempt, attempted

(* A step is handed over, in its turn or as a fallback, before any report. *)
LEMMA DispatchRefines ==
    ASSUME IInv, DispatchStep \/ DispatchFallback \/ AbortDispatch
    PROVE  [Contract!Next]_Contract!vars
<1>a. PICK s \in Steps : \E r \in Answers(s) :
        /\ DueInTurn(s) \/ DueAsFallback(s)
        /\ Deliver(s, r)
        /\ pc' \in {"attempted", "settled", "error"}
        /\ pc' = "error" => Rejected(r)
  BY DEF DispatchStep, DispatchFallback, AbortDispatch, DispatchOneStep, ContractInvalid
<1>1. PICK r \in Answers(s) :
        /\ DueInTurn(s) \/ DueAsFallback(s)
        /\ Deliver(s, r)
        /\ pc' \in {"attempted", "settled", "error"}
        /\ pc' = "error" => Rejected(r)
  BY <1>a
<1>2. /\ pc \in {"turn", "attempted"}
      /\ fallbackResults[s] = Pending
      /\ pc = "turn" => cursor = s
      /\ pc = "attempted" => s \in DeclaredFallback(cursor)
  BY <1>1 DEF DueInTurn, DueAsFallback, TurnOf, DeclaredFallbackStep
<1>3. TypeOK /\ AtMostOnce /\ CallInv /\ LoopInv /\ plan \in Plans
  BY <1>2 DEF IInv, TypeOK
<1>4. Ahead(s)
  <2>1. CASE pc = "turn"
    BY <1>2, <2>1 DEF Ahead, MidTurn
  <2>2. CASE pc = "attempted"
    BY <1>2, <1>3, <2>2, FallbackIsLater DEF Ahead, MidTurn, LoopInv
  <2> QED
    BY <1>2, <2>1, <2>2
<1>5. calls[s] = 0
  BY <1>2, <1>3, <1>4 DEF CallInv
<1>6. Report = "none" /\ Report' \in {"none", "error"}
  BY <1>1, <1>2 DEF Report
<1>7. CASE r = NoAdapter
  <2>1. ~Rejected(r)
    BY <1>7 DEF NoAdapter, Rejected, UnsupportedResults, TextResults
  <2>2. Report' = Report /\ UNCHANGED <<calls, world>>
    BY <1>1, <1>6, <1>7, <2>1 DEF Deliver, Report
  <2> QED
    BY <2>2, SilentStep
<1>8. CASE r # NoAdapter
  BY <1>1, <1>3, <1>5, <1>6, <1>8, AttemptStep DEF Contract!Next
<1> QED
  BY <1>7, <1>8

(* The final status, which TruthfulReport ties to the deliveries, is a     *)
(* report the contract supports.                                           *)
LEMMA ReportRefines ==
    ASSUME IInv, IInv', BuildPlanOutcomeStatus
    PROVE  Contract!Next
<1>1. /\ pc = "turn" /\ pc' \in {"returned", "error"}
      /\ UNCHANGED <<calls, world>>
  BY DEF BuildPlanOutcomeStatus, ReportCompleted, ReportCompletedViaFallback,
         ReportPartialSuccess, ReportFailed, ReportCanceled, ReportUnavailable,
         Publish, LoopDone, ContractInvalid
<1>2. Report = "none" /\ Delivered' = Delivered /\ attempted' = attempted
  BY <1>1 DEF Report, Delivered, attempted
<1>3. CASE pc' = "error"
  BY <1>1, <1>2, <1>3 DEF Report, Contract!Next, Contract!GiveReport, Contract!Supported,
                          attempted
<1>4. CASE pc' = "returned"
  <2>1. Report' = FinalStatus'.state
    BY <1>4 DEF Report
  <2>2. FinalStatus' \in Statuses
    <3>1. statuses' \in Seq(Statuses) /\ statuses' # <<>>
      BY <1>4 DEF IInv, TypeOK, LoopInv
    <3> QED
      BY <3>1 DEF FinalStatus
  <2>3. Report' \in {"Completed", "CompletedWithConstraints", "PartialSuccess",
                     "Failed", "Canceled", "Degraded"}
    BY <1>4, <2>1, <2>2 DEF IInv, TruthfulReport, Statuses
  <2>4. Report' = "Completed" => Delivered = Steps
    BY <1>2, <1>4, <2>1 DEF IInv, TruthfulReport
  <2>5. Report' \in {"CompletedWithConstraints", "PartialSuccess"} =>
           Delivered \notin {{}, Steps}
    BY <1>2, <1>4, <2>1 DEF IInv, TruthfulReport, Delivered
  <2>6. Report' \in {"Failed", "Canceled", "Degraded"} => Delivered = {}
    BY <1>2, <1>4, <2>1 DEF IInv, TruthfulReport
  <2>7. Report' \in Contract!Supported
    BY <2>3, <2>4, <2>5, <2>6 DEF Contract!Supported
  <2> QED
    BY <1>2, <2>7 DEF Contract!Next, Contract!GiveReport, attempted
<1> QED
  BY <1>1, <1>3, <1>4

(* Whatever the plan, the registry and the adapters' answers, a delivery   *)
(* keeps what DeliveryContract promises: each step is attempted at most    *)
(* once, nothing is attempted after the report, and the report is          *)
(* supported by the deliveries.                                            *)
THEOREM LoopImplementsContract == Spec => ImplementsContract
<1>1. Init => Contract!Init
  BY DEF Init, Contract!Init, Report, Delivered
<1>2. IInv /\ IInv' /\ [Next]_vars => [Contract!Next]_Contract!vars
  <2> SUFFICES ASSUME IInv, IInv', [Next]_vars
               PROVE  [Contract!Next]_Contract!vars
    OBVIOUS
  <2>1. CASE Admit
    <3>1. /\ pc = "admit" /\ pc' \in {"turn", "error"} /\ UNCHANGED <<calls, world>>
      BY <2>1 DEF Admit, ContractInvalid
    <3>2. CASE pc' = "turn"
      BY <3>1, <3>2, SilentStep DEF Report
    <3>3. CASE pc' = "error"
      BY <3>1, <3>3 DEF Report, Delivered, Contract!Next, Contract!GiveReport,
                        Contract!Supported
    <3> QED
      BY <3>1, <3>2, <3>3
  <2>2. CASE ReuseFallbackResult \/ SkipStep
    <3>1. pc = "turn" /\ pc' = "turn" /\ UNCHANGED <<calls, world>>
      BY <2>2 DEF ReuseFallbackResult, SkipStep, TurnOf
    <3> QED
      BY <3>1, SilentStep DEF Report
  <2>3. CASE SettleStep
    <3>1. /\ pc \in {"attempted", "settled"} /\ pc' = "turn"
          /\ UNCHANGED <<calls, world>>
      BY <2>3 DEF SettleStep
    <3> QED
      BY <3>1, SilentStep DEF Report
  <2>4. CASE DispatchStep \/ DispatchFallback \/ AbortDispatch
    BY <2>4, DispatchRefines
  <2>5. CASE BuildPlanOutcomeStatus
    BY <2>5, ReportRefines
  <2>6. CASE UNCHANGED vars
    <3>1. UNCHANGED <<pc, statuses, calls, world>>
      BY <2>6 DEF vars
    <3> QED
      BY <3>1, SilentStep DEF Report, FinalStatus
  <2> QED
    BY <2>1, <2>2, <2>3, <2>4, <2>5, <2>6 DEF Next
<1> QED
  BY <1>1, <1>2, Invariance, PTL DEF Spec, ImplementsContract, Contract!Spec

-----------------------------------------------------------------------------
(* The execution pipeline: the invariant.                                  *)

FinalStates == {"Completed", "CompletedWithConstraints", "PartialSuccess",
                "Failed", "Canceled", "Degraded"}

Admitted == decision.posture \in AdmittedPostures

(* No adapter was called and nothing is traced.                            *)
Untouched ==
    /\ pc = "admit"
    /\ statuses = <<>>
    /\ answer = NoAnswer
    /\ calls = [s \in Steps |-> 0]
    /\ world = [s \in Steps |-> "NotCalled"]

(* Only an admitted run with a valid plan leaves the untouched state.      *)
AdmissionInv ==
    /\ Untouched \/ (Admitted /\ ~planDenied)
    /\ stage \in {"decide", "refuse", "plan", "route"} \/ planDenied => Untouched

(* What is known at each stage of run().                                   *)
StageInv ==
    /\ stage = "decide" => decision = NoDecision
    /\ stage = "refuse" => decision \in RouteDecisions /\ ~Admitted
    /\ stage \in {"plan", "route", "deliver", "record"} => Admitted /\ ~planDenied
    /\ planDenied => stage = "done"
    /\ stage = "deliver" =>
          /\ pc \notin {"returned", "error"}
          /\ answer = NoAnswer
          /\ mode = "WholeRoute" => Untouched
    /\ stage = "record" => pc = "returned"
    /\ stage = "done" => decision \in RouteDecisions
    /\ stage = "done" /\ ~planDenied => (Admitted <=> pc = "returned")

(* Only the last status of a returned trace is a final one.                *)
HeadInv ==
    \A i \in DOMAIN statuses : i < Len(statuses) \/ pc # "returned" =>
        statuses[i].state \in {"AdmittedNotStarted", "InProgress"}

(* As long as the delivery may go on, the loop's own invariant holds.      *)
LoopKept ==
    stage \in {"decide", "refuse", "plan", "route", "deliver"} => IInv /\ HeadInv

Success == {"Completed", "CompletedWithConstraints", "PartialSuccess"}

(* The final status of a returned trace tells what the adapters did, in    *)
(* either dispatch mode.                                                   *)
TraceTells ==
    pc = "returned" =>
        /\ statuses # <<>>
        /\ HeadInv
        /\ FinalStatus.state \in FinalStates
        /\ FinalStatus.state = "Completed" =>
              Delivered = Steps \/ answer.kind = "DeliveredAllSteps"
        /\ FinalStatus.state \in Success <=> Delivered # {} \/ RouteDelivered

Prefix(es) == \A i \in DOMAIN es : i \in DOMAIN Owed /\ es[i] = Owed[i]

(* What is recorded and exported is the beginning of what is owed.         *)
EvidenceInv ==
    /\ Prefix(exported)
    /\ decision = NoDecision \/ stage \in {"refuse", "plan", "route", "deliver"} =>
          exported = <<>> /\ records = <<>>
    /\ exported # <<>> /\ Admitted => pc = "returned"
    /\ stage # "failed" =>
          /\ Prefix(records)
          /\ exporter => exported = records
    /\ stage = "record" => Len(records) < Len(statuses)
    /\ stage = "done" => Len(records) = Len(Owed)

PipelineInv ==
    /\ PipelineTypeOK
    /\ AdmissionInv
    /\ StageInv
    /\ LoopKept
    /\ TraceTells
    /\ EvidenceInv

-----------------------------------------------------------------------------
(* The delivery loop, seen from the pipeline.                              *)

(* A trace that grows by one status keeps its early statuses early.        *)
LEMMA AppendHead ==
    ASSUME statuses \in Seq(Statuses), HeadInv, pc # "returned", NEW status,
           statuses' = Append(statuses, status),
           pc' = "returned" \/ status.state \in {"AdmittedNotStarted", "InProgress"}
    PROVE  HeadInv'
<1>1. /\ Len(statuses) \in Nat /\ DOMAIN statuses = 1..Len(statuses)
      /\ DOMAIN statuses' = 1..(Len(statuses) + 1)
      /\ Len(statuses') = Len(statuses) + 1
      /\ \A i \in 1..Len(statuses) : statuses'[i] = statuses[i]
      /\ statuses'[Len(statuses) + 1] = status
  OBVIOUS
<1>2. \A i \in 1..Len(statuses) :
        statuses[i].state \in {"AdmittedNotStarted", "InProgress"}
  BY <1>1 DEF HeadInv
<1> SUFFICES ASSUME NEW i \in 1..(Len(statuses) + 1),
                    i < Len(statuses) + 1 \/ pc' # "returned"
             PROVE  statuses'[i].state \in {"AdmittedNotStarted", "InProgress"}
  BY <1>1 DEF HeadInv
<1>3. CASE i = Len(statuses) + 1
  BY <1>1, <1>3
<1>4. CASE i # Len(statuses) + 1
  <2>1. i \in 1..Len(statuses)
    BY <1>1, <1>4
  <2> QED
    BY <1>1, <1>2, <2>1
<1> QED
  BY <1>3, <1>4

(* Every step of the loop keeps final statuses at the end of the trace.    *)
LEMMA HeadStep == ASSUME IInv, HeadInv, Next PROVE HeadInv'
<1>1. statuses \in Seq(Statuses) /\ \A s : InProgress(s).state = "InProgress"
  BY DEF IInv, TypeOK, InProgress, Status
<1> SUFFICES ASSUME statuses' # <<>> PROVE HeadInv'
  BY DEF HeadInv
<1>2. CASE Admit
  <2>1. /\ statuses' = <<Status("AdmittedNotStarted", "None", NoStep, {})>>
        /\ Status("AdmittedNotStarted", "None", NoStep, {}).state = "AdmittedNotStarted"
    BY <1>2 DEF Admit, ContractInvalid, Status
  <2> QED
    BY <2>1 DEF HeadInv
<1>3. CASE ReuseFallbackResult \/ SkipStep \/ SettleStep
  <2>1. statuses' = statuses /\ pc # "returned"
    BY <1>3 DEF ReuseFallbackResult, SkipStep, SettleStep, TurnOf
  <2> QED
    BY <2>1 DEF HeadInv
<1>4. CASE DispatchStep
  BY <1>1, <1>4, AppendHead DEF DispatchStep, DispatchOneStep, DueInTurn, TurnOf
<1>5. CASE DispatchFallback
  BY <1>1, <1>5, AppendHead DEF DispatchFallback, DispatchOneStep, DueAsFallback
<1>6. CASE AbortDispatch
  BY <1>6 DEF AbortDispatch, ContractInvalid
<1>7. CASE BuildPlanOutcomeStatus
  <2>1. PICK status, bytes : Publish(status, bytes)
    BY <1>7 DEF BuildPlanOutcomeStatus, ReportCompleted, ReportCompletedViaFallback,
                ReportPartialSuccess, ReportFailed, ReportCanceled, ReportUnavailable
  <2>2. /\ pc # "returned"
        /\ \/ statuses' = Append(statuses, status) /\ pc' = "returned"
           \/ statuses' = <<>>
    BY <2>1 DEF Publish, LoopDone, ContractInvalid
  <2> QED
    BY <1>1, <2>2, AppendHead
<1> QED
  BY <1>2, <1>3, <1>4, <1>5, <1>6, <1>7 DEF Next

(* The per-step delivery returns a trace that tells what was delivered:    *)
(* every final state of TruthfulReport fixes whether there was a delivery. *)
LEMMA PerStepTells ==
    ASSUME IInv', HeadInv', answer' = NoAnswer
    PROVE  TraceTells'
<1> SUFFICES ASSUME pc' = "returned" PROVE TraceTells'
  BY DEF TraceTells
<1>1. /\ TypeOK' /\ TruthfulReport'
      /\ statuses' \in Seq(Statuses) /\ statuses' # <<>>
  BY DEF IInv, TypeOK, LoopInv
<1>2. FinalStatus' \in Statuses
  BY <1>1 DEF FinalStatus
<1>3. FinalStatus'.state \in FinalStates
  BY <1>1, <1>2 DEF TruthfulReport, Statuses, FinalStates
<1>4. answer'.kind = "none"
  BY DEF NoAnswer
<1>5. Steps # {} /\ Delivered' \subseteq Steps
  BY PlanAssumption DEF Steps, Delivered
<1>6. ~RouteDelivered'
  BY <1>4 DEF RouteDelivered
<1>7. FinalStatus'.state \in Success <=> Delivered' # {}
  <2>1. CASE FinalStatus'.state = "CompletedWithConstraints"
    <3>1. PICK s \in Steps : s \notin Delivered'
      BY <1>1, <1>5, <2>1 DEF TruthfulReport
    <3> QED
      BY <1>1, <2>1, <3>1 DEF TruthfulReport, Success
  <2>2. CASE FinalStatus'.state \in {"Completed", "PartialSuccess"}
    BY <1>1, <1>5, <2>2 DEF TruthfulReport, Success
  <2>3. CASE FinalStatus'.state \in {"Failed", "Canceled", "Degraded"}
    BY <1>1, <2>3 DEF TruthfulReport, Success
  <2> QED
    BY <1>3, <2>1, <2>2, <2>3 DEF FinalStates
<1>8. FinalStatus'.state = "Completed" => Delivered' = Steps
  BY <1>1 DEF TruthfulReport
<1> QED
  BY <1>1, <1>3, <1>6, <1>7, <1>8 DEF TraceTells

-----------------------------------------------------------------------------
(* The whole-route delivery.                                               *)

(* What an adapter may answer to a whole-route delivery.                   *)
LEMMA RouteAnswerShape ==
    ASSUME NEW r \in RouteAnswers
    PROVE  /\ r.kind \in {"DeliveredAllSteps", "Unsupported",
                          "CompletedWithDeclaredFallback", "FailedAtDeclaredStep",
                          "CanceledAtDeclaredStep", "DependencyUnavailable", "NoAdapter"}
           /\ r.summary.words \subseteq Words
           /\ r # NoAnswer
<1>1. /\ NoText.words = {} /\ NoAdapter.summary.words = {} /\ NoAnswer.kind = "none"
      /\ \A t \in Summaries : t.words \subseteq Words
  BY DEF NoText, NoAdapter, NoAnswer, Summaries
<1>2. \A k, s, f, d, t : /\ RouteAnswer(k, s, f, d, t).kind = k
                         /\ RouteAnswer(k, s, f, d, t).summary = t
  BY DEF RouteAnswer
<1>3. \E k \in {"DeliveredAllSteps", "Unsupported", "CompletedWithDeclaredFallback",
                "FailedAtDeclaredStep", "CanceledAtDeclaredStep",
                "DependencyUnavailable", "NoAdapter"} :
      \E s, f, d : \E t \in Summaries \cup {NoText, NoAdapter.summary} :
         r = RouteAnswer(k, s, f, d, t)
  BY DEF RouteAnswers
<1> QED
  BY <1>1, <1>2, <1>3

(* An accepted answer names a declared step, or none.                      *)
LEMMA LastStepDeclared ==
    ASSUME TypeOK, NEW r \in RouteAnswers, ~RouteRejected(r)
    PROVE  LastStep(r) \in 0..N
<1>1. N \in Nat /\ N \in 0..N /\ 0 \in 0..N /\ Steps \subseteq 0..N
  BY PlanAssumption DEF Steps
<1>2. CASE r.kind = "CompletedWithDeclaredFallback"
  <2>1. DeclaredPair(r.step, r.via)
    BY <1>2 DEF RouteRejected
  <2>2. PICK i \in DOMAIN plan.fallback_references :
          plan.fallback_references[i] = [step_id |-> r.step, fallback_step_id |-> r.via]
    BY <2>1 DEF DeclaredPair
  <2>3. PICK n \in 0..MaxRefs : plan.fallback_references \in [1..n -> FallbackReferences]
    BY DEF TypeOK, Plans, ReferenceLists
  <2>4. [step_id |-> r.step, fallback_step_id |-> r.via] \in FallbackReferences
    BY <2>2, <2>3
  <2>5. r.via \in Steps
    BY <2>4 DEF FallbackReferences
  <2> QED
    BY <1>1, <1>2, <2>5 DEF LastStep
<1>3. CASE r.kind # "CompletedWithDeclaredFallback"
  BY <1>1, <1>3 DEF LastStep, RouteRejected
<1> QED
  BY <1>2, <1>3

(* The final status of an accepted answer is a final status, and reports a *)
(* success exactly when the adapter completed the plan.                    *)
LEMMA FinalRouteStatusTells ==
    ASSUME TypeOK, NEW r \in RouteAnswers, ~RouteRejected(r)
    PROVE  /\ FinalRouteStatus(r) \in Statuses
           /\ FinalRouteStatus(r).state \in FinalStates
           /\ FinalRouteStatus(r).state = "Completed" => r.kind = "DeliveredAllSteps"
           /\ FinalRouteStatus(r).state \in Success <=>
                r.kind \in {"DeliveredAllSteps", "CompletedWithDeclaredFallback"}
<1>1. /\ r.kind \in {"DeliveredAllSteps", "Unsupported",
                     "CompletedWithDeclaredFallback", "FailedAtDeclaredStep",
                     "CanceledAtDeclaredStep", "DependencyUnavailable", "NoAdapter"}
      /\ r.summary.words \subseteq Words
      /\ \A ws : Said(ws) \subseteq Words
  BY RouteAnswerShape DEF Said
<1> DEFINE Tells(status) ==
      /\ status \in Statuses
      /\ status.state \in FinalStates
      /\ status.state = "Completed" => r.kind = "DeliveredAllSteps"
      /\ status.state \in Success <=>
           r.kind \in {"DeliveredAllSteps", "CompletedWithDeclaredFallback"}
<1> SUFFICES Tells(FinalRouteStatus(r))
  OBVIOUS
<1>2. CASE r.kind = "DeliveredAllSteps"
  BY <1>1, <1>2 DEF FinalRouteStatus, Status, Statuses, FinalStates, Success, NoStep
<1>3. CASE r.kind = "CompletedWithDeclaredFallback"
  BY <1>1, <1>3 DEF FinalRouteStatus, RouteRejected, FallbackSubtypes, Status, Statuses,
                    FinalStates, Success, NoStep
<1>4. CASE r.kind = "FailedAtDeclaredStep"
  BY <1>1, <1>4 DEF FinalRouteStatus, Status, Statuses, FinalStates, Success, NoStep
<1>5. CASE r.kind = "CanceledAtDeclaredStep"
  <2>1. r.step \in Steps /\ plan.words \in [Steps -> SUBSET Words]
    BY <1>5 DEF RouteRejected, TypeOK, Plans
  <2>2. Said({"cancel"}) \cup plan.words[r.step] \in SUBSET Words
    BY <1>1, <2>1
  <2> QED
    BY <1>5, <2>1, <2>2 DEF FinalRouteStatus, Status, Statuses, FinalStates, Success
<1>6. CASE r.kind \in {"DependencyUnavailable", "NoAdapter"}
  BY <1>1, <1>6 DEF FinalRouteStatus, Status, Statuses, FinalStates, Success, NoStep
<1> QED
  BY <1>1, <1>2, <1>3, <1>4, <1>5, <1>6 DEF RouteRejected

(* The trace of an accepted answer: early statuses, then the final one.    *)
LEMMA RouteTraceShape ==
    ASSUME TypeOK, NEW r \in RouteAnswers, ~RouteRejected(r)
    PROVE  /\ RouteTrace(r) \in Seq(Statuses)
           /\ Len(RouteTrace(r)) = LastStep(r) + 2
           /\ RouteTrace(r)[LastStep(r) + 2] = FinalRouteStatus(r)
           /\ \A i \in 1..(LastStep(r) + 1) :
                RouteTrace(r)[i].state \in {"AdmittedNotStarted", "InProgress"}
<1> DEFINE first == Status("AdmittedNotStarted", "None", 0, {})
           middle == [s \in 1..LastStep(r) |-> InProgress(s)]
           last == FinalRouteStatus(r)
           n == LastStep(r)
<1>1. n \in Nat /\ \A s \in 1..n : s \in Steps
  BY LastStepDeclared, PlanAssumption DEF Steps
<1>2. last \in Statuses
  BY FinalRouteStatusTells
<1>3. first \in Statuses /\ first.state = "AdmittedNotStarted"
  BY DEF Status, Statuses, NoStep
<1>4. \A s \in 1..n : InProgress(s) \in Statuses /\ InProgress(s).state = "InProgress"
  <2> SUFFICES ASSUME NEW s \in 1..n
               PROVE  InProgress(s) \in Statuses /\ InProgress(s).state = "InProgress"
    OBVIOUS
  <2>1. InProgress(s) \in Statuses
    BY <1>1, InProgressTyped
  <2> QED
    BY <2>1 DEF InProgress, Status
<1>5. /\ middle \in Seq(Statuses) /\ Len(middle) = n
      /\ \A i \in 1..n : middle[i] = InProgress(i)
  BY <1>1, <1>4
<1>6. <<first>> \in Seq(Statuses) /\ Len(<<first>>) = 1 /\ <<first>>[1] = first
  BY <1>3
<1>7. <<last>> \in Seq(Statuses) /\ Len(<<last>>) = 1 /\ <<last>>[1] = last
  BY <1>2
<1>8. RouteTrace(r) = (<<first>> \o middle) \o <<last>>
  BY DEF RouteTrace
<1> HIDE DEF first, middle, last, n
<1>9. /\ <<first>> \o middle \in Seq(Statuses)
      /\ Len(<<first>> \o middle) = 1 + n
      /\ \A i \in 1..(1 + n) : (<<first>> \o middle)[i] =
            IF i <= 1 THEN <<first>>[i] ELSE middle[i - 1]
  BY <1>5, <1>6, ConcatProperties
<1>10. /\ RouteTrace(r) \in Seq(Statuses)
       /\ Len(RouteTrace(r)) = (1 + n) + 1
       /\ \A i \in 1..((1 + n) + 1) : RouteTrace(r)[i] =
            IF i <= 1 + n THEN (<<first>> \o middle)[i] ELSE <<last>>[i - (1 + n)]
  BY <1>7, <1>8, <1>9, ConcatProperties
<1>11. RouteTrace(r)[n + 2] = last
  BY <1>1, <1>7, <1>10
<1>12. ASSUME NEW i \in 1..(n + 1)
       PROVE  RouteTrace(r)[i].state \in {"AdmittedNotStarted", "InProgress"}
  <2>0. i \in 1..(1 + n) /\ i \in 1..((1 + n) + 1) /\ i <= 1 + n
    BY <1>1
  <2>1. RouteTrace(r)[i] = IF i <= 1 THEN <<first>>[i] ELSE middle[i - 1]
    <3>1. RouteTrace(r)[i] = (<<first>> \o middle)[i]
      BY <1>10, <2>0
    <3> QED
      BY <1>9, <2>0, <3>1
  <2>2. CASE i = 1
    BY <1>3, <1>6, <2>1, <2>2
  <2>3. CASE i # 1
    <3>1. i - 1 \in 1..n /\ ~(i <= 1)
      BY <1>1, <2>3
    <3> QED
      BY <1>4, <1>5, <2>1, <3>1
  <2> QED
    BY <2>2, <2>3
<1> QED
  BY <1>1, <1>10, <1>11, <1>12 DEF n, last

-----------------------------------------------------------------------------
(* The evidence.                                                           *)

(* The events a run owes are events: one for each status of the trace, or  *)
(* the one of the refusal.                                                 *)
LEMMA OwedShape ==
    ASSUME PipelineTypeOK
    PROVE  /\ Owed \in Seq(Events)
           /\ Admitted => /\ Len(Owed) = Len(statuses)
                          /\ \A i \in 1..Len(statuses) : Owed[i] = StatusEvent(statuses[i])
           /\ ~Admitted => Owed = <<DecisionEvent>>
<1>1. statuses \in Seq(Statuses) /\ Len(statuses) \in Nat /\ DOMAIN statuses = 1..Len(statuses)
  BY DEF PipelineTypeOK, TypeOK
<1>2. CASE Admitted
  <2>1. Owed = [i \in 1..Len(statuses) |-> StatusEvent(statuses[i])]
    BY <1>1, <1>2 DEF Owed, Admitted
  <2>2. ASSUME NEW i \in 1..Len(statuses) PROVE StatusEvent(statuses[i]) \in Events
    <3>1. statuses[i] \in Statuses
      BY <1>1
    <3> QED
      BY <3>1 DEF Statuses, StatusEvent, Event, Events
  <2> QED
    BY <1>1, <1>2, <2>1, <2>2
<1>3. CASE ~Admitted
  <2>1. decision.words \subseteq Words
    BY DEF PipelineTypeOK, RouteDecisions, NoDecision, Said
  <2>2. DecisionEvent \in Events
    BY <2>1 DEF DecisionEvent, PreExecutionState, Event, Events
  <2> QED
    BY <1>3, <2>2 DEF Owed, Admitted
<1> QED
  BY <1>2, <1>3

(* Recording the event that is due keeps records and sink at the beginning *)
(* of what is owed, whether the sink takes it, refuses it or breaks.       *)
LEMMA RecordStep ==
    ASSUME records \in Seq(Events), exported \in Seq(Events), Owed \in Seq(Events),
           Prefix(records), Prefix(exported), exporter => exported = records,
           Len(records) < Len(Owed), Owed' = Owed, NEW next,
           Record(Owed[Len(records) + 1], next)
    PROVE  /\ records' \in Seq(Events) /\ exported' \in Seq(Events)
           /\ Prefix(exported)'
           /\ \/ stage' = "failed"
              \/ /\ stage' = next
                 /\ Prefix(records)'
                 /\ Len(records') = Len(records) + 1
                 /\ exporter => exported' = records'
<1> DEFINE e == Owed[Len(records) + 1]
<1>1. /\ Len(records) \in Nat /\ Len(Owed) \in Nat /\ DOMAIN Owed = 1..Len(Owed)
      /\ Len(records) + 1 \in DOMAIN Owed /\ e \in Events
  OBVIOUS
<1>2. /\ Append(records, e) \in Seq(Events)
      /\ Len(Append(records, e)) = Len(records) + 1
      /\ \A i \in DOMAIN Append(records, e) : i \in DOMAIN Owed /\ Append(records, e)[i] = Owed[i]
  <2>1. /\ Append(records, e) \in Seq(Events)
        /\ Len(Append(records, e)) = Len(records) + 1
        /\ DOMAIN Append(records, e) = 1..(Len(records) + 1)
        /\ DOMAIN records = 1..Len(records)
        /\ \A i \in 1..Len(records) : Append(records, e)[i] = records[i]
        /\ Append(records, e)[Len(records) + 1] = e
    BY <1>1
  <2>2. ASSUME NEW i \in 1..(Len(records) + 1)
        PROVE  i \in DOMAIN Owed /\ Append(records, e)[i] = Owed[i]
    <3>1. CASE i = Len(records) + 1
      BY <1>1, <2>1, <3>1
    <3>2. CASE i # Len(records) + 1
      <4>1. i \in 1..Len(records)
        BY <1>1, <3>2
      <4> QED
        BY <2>1, <4>1 DEF Prefix
    <3> QED
      BY <3>1, <3>2
  <2> QED
    BY <2>1, <2>2
<1> HIDE DEF e
<1>3. ASSUME exported' = exported PROVE exported' \in Seq(Events) /\ Prefix(exported)'
  BY <1>3 DEF Prefix
<1>4. ASSUME exported' = Append(exported, e), exporter
      PROVE  exported' \in Seq(Events) /\ Prefix(exported)'
  BY <1>2, <1>4 DEF Prefix
<1>5. CASE Recordable(e) /\ records' = Append(records, e) /\ stage' = next
           /\ exported' = IF exporter THEN Append(exported, e) ELSE exported
  BY <1>2, <1>3, <1>4, <1>5 DEF Prefix
<1>6. CASE Fail /\ (NotRecordable(e) \/ ExportFails(e))
  <2>1. stage' = "failed" /\ records' \in Seq(Events)
    BY <1>6 DEF Fail
  <2>2. exported' = exported \/ (exporter /\ exported' = Append(exported, e))
    BY <1>6 DEF NotRecordable, ExportFails
  <2> QED
    BY <1>3, <1>4, <2>1, <2>2
<1> QED
  BY <1>5, <1>6 DEF Record, e

(* A beginning of what is owed is a subsequence of it.                     *)
LEMMA PrefixIsSubSeq ==
    ASSUME PipelineTypeOK, Prefix(exported)
    PROVE  exported = SubSeq(Owed, 1, Len(exported))
<1>1. /\ Owed \in Seq(Events) /\ exported \in Seq(Events)
      /\ Len(exported) \in Nat /\ DOMAIN exported = 1..Len(exported)
  BY OwedShape DEF PipelineTypeOK
<1>2. \A i \in 1..Len(exported) : Owed[i] \in Events /\ exported[i] = Owed[i]
  BY <1>1 DEF Prefix
<1>3. /\ SubSeq(Owed, 1, Len(exported)) \in Seq(Events)
      /\ Len(SubSeq(Owed, 1, Len(exported))) =
            IF 1 <= Len(exported) THEN Len(exported) - 1 + 1 ELSE 0
      /\ \A i \in 1..(Len(exported) - 1 + 1) :
            SubSeq(Owed, 1, Len(exported))[i] = Owed[1 + i - 1]
  BY <1>1, <1>2, SubSeqProperties
<1>4. /\ Len(SubSeq(Owed, 1, Len(exported))) = Len(exported)
      /\ \A i \in 1..Len(exported) : SubSeq(Owed, 1, Len(exported))[i] = exported[i]
  BY <1>1, <1>2, <1>3
<1> QED
  BY <1>1, <1>3, <1>4, SeqEqual

(* A whole beginning is all that is owed.                                  *)
LEMMA WholePrefix ==
    ASSUME PipelineTypeOK, Prefix(records), Len(records) = Len(Owed)
    PROVE  records = Owed
<1>1. Owed \in Seq(Events) /\ records \in Seq(Events)
  BY OwedShape DEF PipelineTypeOK
<1>2. \A i \in 1..Len(records) : records[i] = Owed[i]
  BY <1>1 DEF Prefix
<1> QED
  BY <1>1, <1>2, SeqEqual

-----------------------------------------------------------------------------
(* Every action keeps PipelineInv.                                         *)

(* The steps of run() around the delivery leave its state alone.           *)
LEMMA DeliveryKept ==
    ASSUME UNCHANGED <<vars, answer>>
    PROVE  /\ TypeOK => TypeOK'
           /\ IInv => IInv'
           /\ HeadInv => HeadInv'
           /\ Untouched' <=> Untouched
           /\ TraceTells => TraceTells'
           /\ pc' = pc /\ statuses' = statuses /\ registry' = registry
<1>1. UNCHANGED <<plan, routeMatches, registry, pc, cursor, outcome, outcomes,
                  fallbackResults, stopDispatching, statuses, calls, world, answer>>
  BY DEF vars, inputs, locals
<1>2. TypeOK => TypeOK'
  BY <1>1 DEF TypeOK
<1>3. IInv => IInv'
  BY StutterIInv
<1>4. HeadInv => HeadInv'
  BY <1>1 DEF HeadInv
<1>5. Untouched' <=> Untouched
  BY <1>1 DEF Untouched
<1>6. TraceTells => TraceTells'
  BY <1>1, <1>4 DEF TraceTells, FinalStatus, Delivered, RouteDelivered
<1> QED
  BY <1>1, <1>2, <1>3, <1>4, <1>5, <1>6

(* The decision: only an admitted one leads on to the plan.                *)
LEMMA DecideInv == ASSUME PipelineInv, Decide PROVE PipelineInv'
<1>1. /\ stage = "decide" /\ decision = NoDecision /\ ~planDenied
      /\ Untouched /\ exported = <<>> /\ records = <<>>
  BY DEF PipelineInv, Decide, StageInv, EvidenceInv, AdmissionInv
<1>2. /\ UNCHANGED <<vars, answer>>
      /\ UNCHANGED <<requested, mode, exporter, planDenied, exported>>
      /\ records' = <<>>
  BY <1>1 DEF Decide, options, Fail
<1>3. \/ /\ decision' \in RouteDecisions
         /\ \/ stage' = "plan" /\ decision'.posture \in AdmittedPostures
            \/ stage' = "refuse" /\ decision'.posture \notin AdmittedPostures
      \/ stage' = "failed" /\ decision' = decision
  BY DEF Decide, Fail
<1>4. PipelineTypeOK'
  BY <1>2, <1>3, DeliveryKept DEF PipelineInv, PipelineTypeOK, RouteAnswers
<1>5. AdmissionInv' /\ StageInv'
  BY <1>1, <1>2, <1>3, DeliveryKept DEF AdmissionInv, StageInv, Admitted
<1>6. LoopKept' /\ TraceTells'
  BY <1>1, <1>2, DeliveryKept DEF PipelineInv, LoopKept
<1>7. EvidenceInv'
  BY <1>1, <1>2, <1>3 DEF EvidenceInv, Prefix
<1> QED
  BY <1>4, <1>5, <1>6, <1>7 DEF PipelineInv

(* A refusal is the whole evidence of its run.                             *)
LEMMA RefusalInv == ASSUME PipelineInv, RecordRefusal PROVE PipelineInv'
<1>1. /\ stage = "refuse" /\ decision \in RouteDecisions /\ ~Admitted /\ ~planDenied
      /\ Untouched /\ exported = <<>> /\ records = <<>> /\ PipelineTypeOK
  BY DEF PipelineInv, RecordRefusal, StageInv, EvidenceInv, AdmissionInv
<1>2. /\ UNCHANGED <<vars, answer>>
      /\ UNCHANGED <<requested, mode, exporter, planDenied, decision>>
      /\ Record(DecisionEvent, "done")
  BY DEF RecordRefusal, options
<1>3. Owed \in Seq(Events) /\ Owed = <<DecisionEvent>>
  BY <1>1, OwedShape
<1>4. Owed' = Owed
  BY <1>1, <1>2 DEF Owed, Admitted, DecisionEvent, PreExecutionState
<1>5. Len(records) = 0 /\ Len(Owed) = 1 /\ Owed[1] = DecisionEvent
  BY <1>1, <1>3
<1>6. /\ records' \in Seq(Events) /\ exported' \in Seq(Events)
      /\ Prefix(exported)'
      /\ \/ stage' = "failed"
         \/ /\ stage' = "done"
            /\ Prefix(records)'
            /\ Len(records') = Len(Owed)
            /\ exporter => exported' = records'
  <2>1. Prefix(records) /\ Prefix(exported) /\ (exporter => exported = records)
    BY <1>1 DEF Prefix
  <2>2. Record(Owed[Len(records) + 1], "done") /\ Len(records) < Len(Owed)
    BY <1>2, <1>5
  <2> QED
    BY <1>1, <1>3, <1>4, <1>5, <2>1, <2>2, RecordStep DEF PipelineTypeOK
<1>7. PipelineTypeOK'
  BY <1>1, <1>2, <1>6, DeliveryKept DEF PipelineTypeOK, RouteAnswers
<1>8. AdmissionInv' /\ StageInv'
  BY <1>1, <1>2, <1>6, DeliveryKept DEF AdmissionInv, StageInv, Admitted, Untouched
<1>9. LoopKept' /\ TraceTells'
  BY <1>1, <1>2, <1>6, DeliveryKept DEF PipelineInv, LoopKept
<1>10. EvidenceInv'
  <2>1. decision # NoDecision
    BY <1>1 DEF RouteDecisions, Postures, NoDecision
  <2> QED
    BY <1>1, <1>2, <1>4, <1>6, <2>1 DEF EvidenceInv, Admitted
<1> QED
  BY <1>7, <1>8, <1>9, <1>10 DEF PipelineInv

(* A denied plan ends the run before anything is delivered.                *)
LEMMA ValidatePlanInv == ASSUME PipelineInv, ValidatePlan PROVE PipelineInv'
<1>1. /\ stage = "plan" /\ Admitted /\ ~planDenied
      /\ Untouched /\ exported = <<>> /\ records = <<>> /\ PipelineTypeOK
  BY DEF PipelineInv, ValidatePlan, StageInv, EvidenceInv, AdmissionInv
<1>2. /\ UNCHANGED <<vars, answer>>
      /\ UNCHANGED <<requested, mode, exporter, decision, exported>>
      /\ records' = <<>>
      /\ \/ stage' = "done" /\ planDenied' = TRUE
         \/ stage' \in {"route", "failed"} /\ planDenied' = planDenied
  BY <1>1 DEF ValidatePlan, options, Fail
<1>3. decision \in RouteDecisions
  BY <1>1 DEF PipelineTypeOK, Admitted, NoDecision, AdmittedPostures
<1>4. PipelineTypeOK'
  <2>1. planDenied' \in BOOLEAN
    BY <1>1, <1>2 DEF PipelineTypeOK
  <2>2. UNCHANGED registry
    BY <1>2, DeliveryKept
  <2> QED
    BY <1>1, <1>2, <2>1, <2>2, DeliveryKept DEF PipelineTypeOK, RouteAnswers
<1>5. AdmissionInv' /\ StageInv'
  BY <1>1, <1>2, <1>3, DeliveryKept DEF AdmissionInv, StageInv, Admitted
<1>6. LoopKept' /\ TraceTells'
  BY <1>1, <1>2, DeliveryKept DEF PipelineInv, LoopKept
<1>7. Len(records') = Len(Owed')
  <2>1. statuses' = <<>> /\ Admitted'
    BY <1>1, <1>2, DeliveryKept DEF Untouched, Admitted
  <2>2. Owed' = [i \in DOMAIN statuses' |-> StatusEvent(statuses[i])']
    BY <2>1 DEF Owed, Admitted
  <2>3. Owed' = <<>>
    BY <2>1, <2>2
  <2> QED
    BY <1>2, <2>3
<1>8. EvidenceInv'
  BY <1>1, <1>2, <1>7 DEF EvidenceInv, Prefix
<1> QED
  BY <1>4, <1>5, <1>6, <1>8 DEF PipelineInv

(* Registering adapters disturbs nothing the loop relies on.               *)
LEMMA SelectRouteInv == ASSUME PipelineInv, SelectRoute PROVE PipelineInv'
<1>1. /\ stage = "route" /\ Admitted /\ ~planDenied /\ IInv /\ HeadInv
      /\ Untouched /\ exported = <<>> /\ records = <<>> /\ PipelineTypeOK
  BY DEF PipelineInv, SelectRoute, StageInv, EvidenceInv, AdmissionInv, LoopKept
<1>2. /\ UNCHANGED <<plan, routeMatches, pc, cursor, outcome, outcomes, fallbackResults,
                     stopDispatching, statuses, calls, world, answer>>
      /\ UNCHANGED <<requested, mode, exporter, planDenied, decision, exported>>
      /\ records' = <<>>
      /\ stage' \in {"deliver", "failed"}
  BY <1>1 DEF SelectRoute, options, locals, Fail
<1>3. registry' \in SUBSET Capabilities
  <2>1. CASE registry' = registry
    BY <1>1, <2>1 DEF PipelineTypeOK, TypeOK
  <2>2. ASSUME NEW list \in AdapterOptions, registry' = {list[i] : i \in DOMAIN list}
        PROVE  registry' \in SUBSET Capabilities
    <3> DEFINE Implicit == {<<>>, <<requested>>}
               Extra == UNION {[1..n -> Capabilities] : n \in 0..MaxAdditional}
    <3>1. list \in {implicit \o extra : implicit \in Implicit, extra \in Extra}
      BY DEF AdapterOptions
    <3>2. Implicit \subseteq Seq(Capabilities)
      <4>1. <<requested>> \in Seq(Capabilities) /\ <<>> \in Seq(Capabilities)
        BY <1>1 DEF PipelineTypeOK
      <4> QED
        BY <4>1, Zenon
    <3> HIDE DEF Implicit, Extra
    <3>3. PICK implicit \in Implicit : \E extra \in Extra : list = implicit \o extra
      BY <3>1
    <3>4. PICK extra \in Extra : list = implicit \o extra
      BY <3>3
    <3>5. extra \in Seq(Capabilities)
      <4>1. PICK n \in 0..MaxAdditional : extra \in [1..n -> Capabilities]
        BY DEF Extra
      <4>2. n \in Nat
        OBVIOUS
      <4> QED
        BY <4>1, <4>2
    <3>6. list \in Seq(Capabilities)
      BY <3>2, <3>4, <3>5, ConcatProperties
    <3>7. \A i \in DOMAIN list : list[i] \in Capabilities
      BY <3>6
    <3> QED
      BY <2>2, <3>7
  <2> QED
    BY <2>1, <2>2 DEF SelectRoute
<1>4. PipelineTypeOK' /\ TypeOK'
  BY <1>1, <1>2, <1>3 DEF PipelineTypeOK, TypeOK, Untouched
<1>5. IInv'
  <2>1. \A t \in Steps : DeclaredFallback(t)' = DeclaredFallback(t)
    BY <1>2 DEF DeclaredFallback
  <2>2. AtMostOnce' /\ TruthfulReport'
    BY <1>1, <1>2 DEF IInv, AtMostOnce, TruthfulReport, Untouched
  <2>3. (pc # "error" => LoopInv /\ CallInv /\ OutcomeInv)'
    BY <1>1, <1>2, <2>1
    DEF IInv, LoopInv, CallInv, OutcomeInv, Attested, MidTurn, Ahead
  <2> QED
    BY <1>4, <2>2, <2>3 DEF IInv
<1>6. HeadInv' /\ Untouched'
  BY <1>1, <1>2 DEF HeadInv, Untouched
<1>7. AdmissionInv' /\ StageInv'
  BY <1>1, <1>2, <1>6 DEF AdmissionInv, StageInv, Admitted, Untouched
<1>8. LoopKept' /\ TraceTells'
  BY <1>5, <1>6 DEF LoopKept, TraceTells, Untouched
<1>9. EvidenceInv'
  BY <1>1, <1>2 DEF EvidenceInv, Prefix
<1> QED
  BY <1>4, <1>7, <1>8, <1>9 DEF PipelineInv

(* When a delivery ends, nothing is recorded yet and the whole trace is    *)
(* owed.                                                                   *)
LEMMA DeliveredInv ==
    ASSUME PipelineInv, stage = "deliver", stage' = StageAfterDelivery,
           UNCHANGED <<decision, options, planDenied, evidence>>,
           PipelineTypeOK', TraceTells',
           pc' \notin {"returned", "error"} => mode = "PerStep" /\ answer' = NoAnswer /\ IInv' /\ HeadInv'
    PROVE  PipelineInv'
<1>1. Admitted /\ ~planDenied /\ exported = <<>> /\ records = <<>>
  BY DEF PipelineInv, StageInv, EvidenceInv
<1>2. /\ Admitted' /\ ~planDenied' /\ exported' = <<>> /\ records' = <<>>
      /\ mode' = mode
  BY <1>1 DEF Admitted, options, evidence
<1>3. \/ stage' = "record" /\ pc' = "returned"
      \/ stage' = "failed" /\ pc' = "error"
      \/ stage' = "deliver" /\ pc' \notin {"returned", "error"}
  BY DEF StageAfterDelivery
<1>4. AdmissionInv' /\ StageInv'
  BY <1>2, <1>3 DEF AdmissionInv, StageInv
<1>5. LoopKept'
  BY <1>3 DEF LoopKept
<1>6. stage' = "record" => Len(records') < Len(statuses')
  <2>1. statuses' \in Seq(Statuses)
    BY DEF PipelineTypeOK, TypeOK
  <2>2. stage' = "record" => statuses' # <<>>
    BY <1>3 DEF TraceTells
  <2> QED
    BY <1>2, <2>1, <2>2
<1>7. EvidenceInv'
  BY <1>2, <1>3, <1>6 DEF EvidenceInv, Prefix
<1> QED
  BY <1>4, <1>5, <1>7 DEF PipelineInv

(* One step of the per-step delivery.                                      *)
LEMMA DeliverPerStepInv == ASSUME PipelineInv, DeliverPerStep PROVE PipelineInv'
<1>1. /\ stage = "deliver" /\ answer = NoAnswer /\ IInv /\ HeadInv /\ Next
      /\ stage' = StageAfterDelivery /\ mode = "PerStep"
      /\ UNCHANGED <<decision, options, planDenied, answer, evidence>>
  BY DEF PipelineInv, DeliverPerStep, StageInv, LoopKept
<1>2. IInv' /\ HeadInv'
  BY <1>1, StepIInv, HeadStep
<1>3. TraceTells'
  BY <1>1, <1>2, PerStepTells
<1>4. PipelineTypeOK'
  <2>1. TypeOK'
    BY <1>2 DEF IInv
  <2>2. UNCHANGED <<decision, requested, mode, exporter, planDenied, answer, records, exported>>
    BY <1>1 DEF options, evidence
  <2>3. stage' \in {"record", "failed", "deliver"}
    BY <1>1 DEF StageAfterDelivery
  <2> QED
    BY <1>1, <2>1, <2>2, <2>3 DEF PipelineInv, PipelineTypeOK
<1> QED
  BY <1>1, <1>2, <1>3, <1>4, DeliveredInv

(* The whole-route delivery.                                               *)
LEMMA DeliverWholeRouteInv == ASSUME PipelineInv, DeliverWholeRoute PROVE PipelineInv'
<1>1. /\ stage = "deliver" /\ Untouched /\ PipelineTypeOK /\ TypeOK
      /\ stage' = StageAfterDelivery /\ mode = "WholeRoute"
      /\ UNCHANGED <<decision, options, planDenied, evidence>>
      /\ UNCHANGED <<plan, routeMatches, registry, cursor, outcome, outcomes,
                     fallbackResults, stopDispatching, calls, world>>
  BY DEF PipelineInv, DeliverWholeRoute, StageInv, PipelineTypeOK, inputs, locals
<1>2. PICK r \in RouteAnswers :
        /\ answer' = r
        /\ pc' = IF RouteRejected(r) THEN "error" ELSE "returned"
        /\ statuses' = IF RouteRejected(r) THEN <<>> ELSE RouteTrace(r)
  BY DEF DeliverWholeRoute
<1>3. statuses' \in Seq(Statuses)
  BY <1>1, <1>2, RouteTraceShape
<1>4. PipelineTypeOK'
  <2>1. TypeOK'
    BY <1>1, <1>2, <1>3 DEF TypeOK
  <2>2. UNCHANGED <<decision, requested, mode, exporter, planDenied, records, exported>>
    BY <1>1 DEF options, evidence
  <2>3. answer' \in RouteAnswers'
    BY <1>1, <1>2, <2>2 DEF RouteAnswers
  <2>4. stage' \in {"record", "failed", "deliver"}
    BY <1>1 DEF StageAfterDelivery
  <2> QED
    BY <1>1, <2>1, <2>2, <2>3, <2>4 DEF PipelineTypeOK
<1>5. TraceTells'
  <2> SUFFICES ASSUME pc' = "returned" PROVE TraceTells'
    BY DEF TraceTells
  <2>1. ~RouteRejected(r) /\ statuses' = RouteTrace(r)
    BY <1>2
  <2>2. LastStep(r) \in Nat
    BY <1>1, <2>1, LastStepDeclared, PlanAssumption
  <2>3. /\ Len(statuses') = LastStep(r) + 2
        /\ DOMAIN statuses' = 1..(LastStep(r) + 2)
        /\ statuses'[LastStep(r) + 2] = FinalRouteStatus(r)
        /\ \A i \in 1..(LastStep(r) + 1) :
              statuses'[i].state \in {"AdmittedNotStarted", "InProgress"}
    BY <1>1, <1>3, <2>1, RouteTraceShape
  <2>4. statuses' # <<>> /\ FinalStatus' = FinalRouteStatus(r)
    BY <2>2, <2>3 DEF FinalStatus
  <2>5. HeadInv'
    <3> SUFFICES ASSUME NEW i \in 1..(LastStep(r) + 2), i < LastStep(r) + 2
                 PROVE  statuses'[i].state \in {"AdmittedNotStarted", "InProgress"}
      BY <2>3 DEF HeadInv
    <3>1. i \in 1..(LastStep(r) + 1)
      BY <2>2
    <3> QED
      BY <2>3, <3>1
  <2>6. Delivered' = {}
    BY <1>1 DEF Untouched, Delivered
  <2>7. RouteDelivered' <=> r.kind \in {"DeliveredAllSteps", "CompletedWithDeclaredFallback"}
    BY <1>2 DEF RouteDelivered
  <2>8. /\ FinalRouteStatus(r).state \in FinalStates
        /\ FinalRouteStatus(r).state = "Completed" => answer'.kind = "DeliveredAllSteps"
        /\ FinalRouteStatus(r).state \in Success <=>
             r.kind \in {"DeliveredAllSteps", "CompletedWithDeclaredFallback"}
    BY <1>1, <1>2, <2>1, FinalRouteStatusTells
  <2> QED
    BY <2>4, <2>5, <2>6, <2>7, <2>8 DEF TraceTells
<1> QED
  BY <1>1, <1>2, <1>4, <1>5, DeliveredInv

(* One status of the trace goes into the evidence.                         *)
LEMMA RecordStatusInv == ASSUME PipelineInv, RecordStatus PROVE PipelineInv'
<1>1. /\ stage = "record" /\ Admitted /\ ~planDenied /\ pc = "returned" /\ PipelineTypeOK
      /\ Prefix(records) /\ Prefix(exported) /\ (exporter => exported = records)
      /\ Len(records) < Len(statuses)
  BY DEF PipelineInv, RecordStatus, StageInv, EvidenceInv
<1>2. /\ UNCHANGED <<vars, answer>>
      /\ UNCHANGED <<requested, mode, exporter, planDenied, decision>>
  BY DEF RecordStatus, options
<1> DEFINE next == IF Len(records) + 1 = Len(statuses) THEN "done" ELSE "record"
<1>3. Record(StatusEvent(statuses[Len(records) + 1]), next)
  BY DEF RecordStatus
<1>4. /\ Owed \in Seq(Events) /\ Len(Owed) = Len(statuses)
      /\ \A i \in 1..Len(statuses) : Owed[i] = StatusEvent(statuses[i])
  BY <1>1, OwedShape
<1>5. /\ records \in Seq(Events) /\ exported \in Seq(Events)
      /\ Len(records) \in Nat /\ Len(statuses) \in Nat
      /\ Len(records) + 1 \in 1..Len(statuses)
  BY <1>1 DEF PipelineTypeOK, TypeOK
<1>6. Owed' = Owed /\ statuses' = statuses /\ Admitted'
  BY <1>1, <1>2, DeliveryKept DEF Owed, Admitted
<1>7. Record(Owed[Len(records) + 1], next)
  BY <1>3, <1>4, <1>5
<1>8. /\ records' \in Seq(Events) /\ exported' \in Seq(Events)
      /\ Prefix(exported)'
      /\ \/ stage' = "failed"
         \/ /\ stage' = next
            /\ Prefix(records)'
            /\ Len(records') = Len(records) + 1
            /\ exporter => exported' = records'
  <2> HIDE DEF next
  <2> QED
    BY <1>1, <1>4, <1>5, <1>6, <1>7, RecordStep
<1>9. decision \in RouteDecisions /\ decision # NoDecision
  BY <1>1 DEF PipelineTypeOK, Admitted, NoDecision, AdmittedPostures
<1>10. PipelineTypeOK'
  BY <1>1, <1>2, <1>8, DeliveryKept DEF PipelineTypeOK, RouteAnswers
<1>11. AdmissionInv' /\ StageInv'
  BY <1>1, <1>2, <1>6, <1>8, <1>9, DeliveryKept DEF AdmissionInv, StageInv
<1>12. LoopKept' /\ TraceTells'
  BY <1>2, <1>8, DeliveryKept DEF PipelineInv, LoopKept
<1>13. EvidenceInv'
  BY <1>1, <1>2, <1>4, <1>5, <1>6, <1>8, <1>9, DeliveryKept DEF EvidenceInv
<1> QED
  BY <1>10, <1>11, <1>12, <1>13 DEF PipelineInv

(* The invariant holds throughout a run.                                   *)
LEMMA PipelineInvariance == PipelineSpec => []PipelineInv
<1>1. PipelineInit => PipelineInv
  <2> SUFFICES ASSUME PipelineInit PROVE PipelineInv
    OBVIOUS
  <2>1. Untouched /\ IInv /\ HeadInv
    BY InitIInv DEF PipelineInit, Init, Untouched, HeadInv
  <2>2. PipelineTypeOK
    <3>1. planDenied \in BOOLEAN
      BY DEF PipelineInit
    <3>2. records \in Seq(Events) /\ exported \in Seq(Events)
      BY DEF PipelineInit
    <3> QED
      BY <2>1, <3>1, <3>2 DEF PipelineInit, PipelineTypeOK, IInv
  <2>3. AdmissionInv /\ StageInv /\ LoopKept /\ TraceTells
    BY <2>1 DEF PipelineInit, AdmissionInv, StageInv, LoopKept, TraceTells, Untouched
  <2>4. EvidenceInv
    BY DEF PipelineInit, EvidenceInv, Prefix
  <2> QED
    BY <2>2, <2>3, <2>4 DEF PipelineInv
<1>2. PipelineInv /\ [PipelineNext]_pipelineVars => PipelineInv'
  <2> SUFFICES ASSUME PipelineInv, [PipelineNext]_pipelineVars PROVE PipelineInv'
    OBVIOUS
  <2>1. CASE UNCHANGED pipelineVars
    <3>1. /\ UNCHANGED <<vars, answer>>
          /\ UNCHANGED <<stage, decision, requested, mode, exporter, planDenied,
                         records, exported>>
      BY <2>1 DEF pipelineVars, options, evidence
    <3>2. PipelineTypeOK'
      BY <3>1, DeliveryKept DEF PipelineInv, PipelineTypeOK, RouteAnswers
    <3>3. AdmissionInv' /\ StageInv' /\ LoopKept' /\ TraceTells'
      BY <3>1, DeliveryKept
      DEF PipelineInv, AdmissionInv, StageInv, LoopKept, Admitted
    <3>4. Owed' = Owed
      BY <3>1, DeliveryKept DEF Owed, DecisionEvent, PreExecutionState
    <3>5. EvidenceInv'
      BY <3>1, <3>4, DeliveryKept DEF PipelineInv, EvidenceInv, Prefix, Admitted
    <3> QED
      BY <3>2, <3>3, <3>5 DEF PipelineInv
  <2> QED
    BY <2>1, DecideInv, RefusalInv, ValidatePlanInv, SelectRouteInv, DeliverPerStepInv,
       DeliverWholeRouteInv, RecordStatusInv DEF PipelineNext
<1> QED
  BY <1>1, <1>2, PTL DEF PipelineSpec

-----------------------------------------------------------------------------
(* No dispatch mode, plan or adapter leads to a delivery that the decision *)
(* and the plan validation did not admit (the early returns of run).       *)
THEOREM OnlyAdmittedIsDelivered == PipelineSpec => []DeliveryIsAdmitted
<1>1. PipelineInv => DeliveryIsAdmitted
  <2> SUFFICES ASSUME PipelineInv, Called
               PROVE  Admitted /\ ~planDenied
    BY DEF DeliveryIsAdmitted, Admitted, AdmittedPostures
  <2>1. ~Untouched
    BY DEF Called, Untouched
  <2> QED
    BY <2>1 DEF PipelineInv, AdmissionInv
<1> QED
  BY <1>1, PipelineInvariance, PTL

(* Whatever fails, the sink holds a beginning of the run's evidence, and a *)
(* run that returns has recorded and exported all of it: the refusal, or   *)
(* every status of the trace, and nothing of a plan that was denied.       *)
THEOREM EvidenceNeverGaps == PipelineSpec => []EvidenceIsComplete
<1>1. PipelineInv => EvidenceIsComplete
  <2> SUFFICES ASSUME PipelineInv PROVE EvidenceIsComplete
    OBVIOUS
  <2>1. exported = SubSeq(Owed, 1, Len(exported))
    BY PrefixIsSubSeq DEF PipelineInv, EvidenceInv
  <2>2. ASSUME stage = "done"
        PROVE  records = Owed /\ (exporter => exported = Owed)
    <3>1. records = Owed
      BY <2>2, WholePrefix DEF PipelineInv, EvidenceInv
    <3> QED
      BY <2>2, <3>1 DEF PipelineInv, EvidenceInv
  <2> QED
    BY <2>1, <2>2 DEF EvidenceIsComplete
<1> QED
  BY <1>1, PipelineInvariance, PTL

(* Exported evidence never claims a completion that no adapter delivered,  *)
(* nor a failure behind which something was delivered.                     *)
THEOREM EvidenceNeverLies == PipelineSpec => []EvidenceIsTruthful
<1>1. PipelineInv => EvidenceIsTruthful
  <2> SUFFICES ASSUME PipelineInv, NEW i \in DOMAIN exported
               PROVE  /\ exported[i].state = "Completed" =>
                            Delivered = Steps \/ answer.kind = "DeliveredAllSteps"
                      /\ exported[i].state \in {"Failed", "Canceled", "Degraded"} =>
                            Delivered = {} /\ ~RouteDelivered
    BY DEF EvidenceIsTruthful
  <2>1. PipelineTypeOK /\ i \in DOMAIN Owed /\ exported[i] = Owed[i] /\ exported # <<>>
    BY DEF PipelineInv, EvidenceInv, Prefix
  <2>2. CASE ~Admitted
    <3>1. Owed = <<DecisionEvent>>
      BY <2>1, <2>2, OwedShape
    <3>2. exported[i] = DecisionEvent
      BY <2>1, <3>1
    <3>3. DecisionEvent.state \in {"Denied", "ReviewRequired", "WaitingExplicitApproval"}
      BY DEF DecisionEvent, PreExecutionState, Event
    <3> QED
      BY <3>2, <3>3
  <2>3. CASE Admitted
    <3>1. pc = "returned" /\ TraceTells
      BY <2>1, <2>3 DEF PipelineInv, EvidenceInv
    <3>2. statuses \in Seq(Statuses) /\ Len(statuses) \in Nat /\ DOMAIN statuses = 1..Len(statuses)
      BY <2>1 DEF PipelineTypeOK, TypeOK
    <3>3. i \in 1..Len(statuses) /\ exported[i] = StatusEvent(statuses[i])
      BY <2>1, <2>3, OwedShape
    <3>4. exported[i].state = statuses[i].state
      BY <3>3 DEF StatusEvent, Event
    <3>5. CASE i < Len(statuses)
      BY <3>1, <3>2, <3>3, <3>4, <3>5 DEF TraceTells, HeadInv
    <3>6. CASE i = Len(statuses)
      BY <3>1, <3>4, <3>6 DEF TraceTells, FinalStatus, Success
    <3> QED
      BY <3>2, <3>3, <3>5, <3>6
  <2> QED
    BY <2>2, <2>3
<1> QED
  BY <1>1, PipelineInvariance, PTL

(* The exit code of execute is zero exactly when something was delivered.  *)
THEOREM ExitCodeIsHonest == PipelineSpec => []ExitCodeTellsDelivery
<1>1. PipelineInv => ExitCodeTellsDelivery
  <2> SUFFICES ASSUME PipelineInv, stage = "done"
               PROVE  ExitCode = 0 <=> Delivered # {} \/ RouteDelivered
    BY DEF ExitCodeTellsDelivery
  <2>1. CASE Untouched /\ (planDenied \/ ~Admitted)
    <3>1. Delivered = {} /\ ~RouteDelivered /\ statuses = <<>>
      BY <2>1 DEF Untouched, Delivered, RouteDelivered, NoAnswer
    <3> QED
      BY <2>1, <3>1 DEF ExitCode, Traced, Admitted
  <2>2. CASE ~planDenied /\ Admitted
    <3>1. pc = "returned" /\ TraceTells
      BY <2>2 DEF PipelineInv, StageInv
    <3>2. Traced
      BY <3>1 DEF TraceTells, Traced
    <3>3. ExitCode = IF FinalStatus.state \in Success THEN 0 ELSE 1
      BY <2>2, <3>2 DEF ExitCode, Success
    <3> QED
      BY <3>1, <3>3 DEF TraceTells
  <2> QED
    BY <2>1, <2>2 DEF PipelineInv, AdmissionInv
<1> QED
  BY <1>1, PipelineInvariance, PTL
=============================================================================
