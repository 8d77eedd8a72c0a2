-------------------------- MODULE ExecutionPipeline --------------------------
(***************************************************************************)
(* One run of ExecutionPipelineService::run and of the `execute` command   *)
(* around it: resolve a route decision, record a refusal, otherwise        *)
(* validate the plan, select the route, register the adapters, deliver the *)
(* plan (whole route or per step) and record every status of the trace,    *)
(* exporting each record when a sink is configured.                        *)
(*                                                                         *)
(* Composes PlanDelivery (the per-step delivery, whose variables and       *)
(* actions are taken over as they are) with the whole-route delivery and   *)
(* the forensic recorder.  The decision is what RouteDecision resolves: a  *)
(* posture and the words of its summary.                                   *)
(***************************************************************************)
EXTENDS PlanDelivery

CONSTANT
    MaxAdditional  \* bound on the number of --adapter options

VARIABLES
    stage,      \* where run() stands
    decision,   \* the resolved route decision
    requested,  \* the capability the request asks for
    mode,       \* DispatchMode
    exporter,   \* a forensic export adapter is configured
    planDenied, \* the outcome carries a plan denial
    answer,     \* what the adapter answered to a whole-route delivery
    records,    \* forensic_records of this run
    exported    \* what the sink holds of this run

options == <<requested, mode, exporter>>

evidence == <<records, exported>>

pipelineVars == <<vars, stage, decision, options, planDenied, answer, evidence>>

Postures == {"Denied", "ReviewRequired", "ExplicitOperatorApproval",
             "PolicyPreapproved", "ExecuteAllowed"}

(* A plausible slip: a route that waits for an operator counts as admitted.*)
BugAdmittedPostures == {"ExplicitOperatorApproval", "PolicyPreapproved", "ExecuteAllowed"}

AdmittedPostures == {"PolicyPreapproved", "ExecuteAllowed"}

(* A denial's summary quotes the first denial; the one for a malformed     *)
(* requester envelope or policy says "schema validation failed for ...".   *)
RouteDecisions ==
    {[posture |-> p, words |-> {}] : p \in Postures}
    \cup {[posture |-> "Denied", words |-> Said({"failed"})]}

NoDecision == [posture |-> "none", words |-> {}]

NoAnswer ==
    [kind |-> "none", step |-> 0, via |-> 0, subtype |-> "None", summary |-> NoText]

PipelineInit ==
    /\ Init
    /\ routeMatches
    /\ registry = {}
    /\ stage = "decide"
    /\ decision = NoDecision
    /\ requested \in Capabilities
    /\ mode \in {"WholeRoute", "PerStep"}
    /\ exporter \in BOOLEAN
    /\ planDenied = FALSE
    /\ answer = NoAnswer
    /\ records = <<>>
    /\ exported = <<>>

-----------------------------------------------------------------------------
(* The forensic recorder.                                                  *)

(* An event: its type, the execution state and subtype it claims, and the  *)
(* words of its summary.                                                   *)
Event(type, state, subtype, words) ==
    [type |-> type, state |-> state, subtype |-> subtype, words |-> words]

PreExecutionState ==
    CASE decision.posture = "Denied" -> "Denied"
      [] decision.posture = "ReviewRequired" -> "ReviewRequired"
      [] OTHER -> "WaitingExplicitApproval"

DecisionEvent ==
    Event(IF decision.posture = "Denied" THEN "DenialIssued" ELSE "RouteDecisionResolved",
          PreExecutionState, "None", decision.words)

StatusEvent(status) ==
    Event("ExecutionStatusObserved", status.state, status.subtype, status.words)

(* validate_record_kind: what is recorded fits the decision it refers to.  *)
KindAgrees(event) ==
    /\ event.type = "DenialIssued" => decision.posture = "Denied"
    /\ event.type = "ExecutionStatusObserved" =>
          decision.posture \in {"PolicyPreapproved", "ExecuteAllowed"}

(* ForensicEvent::validate: the states an event of a type may report, ...  *)
StatesOf(type) ==
    CASE type = "DenialIssued" -> {"Denied"}
      [] type = "RouteDecisionResolved" ->
            {"Denied", "ReviewRequired", "WaitingExplicitApproval", "AdmittedNotStarted"}
      [] OTHER ->
            {"AdmittedNotStarted", "InProgress", "Degraded", "PartialSuccess",
             "CompletedWithConstraints", "Completed", "Failed", "Canceled"}

(* ... the postures that go with a state ...                               *)
PosturesFor(state) ==
    CASE state = "Denied" -> {"Denied"}
      [] state = "ReviewRequired" -> {"ReviewRequired"}
      [] state = "WaitingExplicitApproval" -> {"ExplicitOperatorApproval"}
      [] OTHER -> {"PolicyPreapproved", "ExecuteAllowed"}

(* ... and the subtypes.                                                   *)
SubtypeAgrees(event) ==
    CASE event.state \in {"Degraded", "PartialSuccess"} -> event.subtype # "None"
      [] event.state = "CompletedWithConstraints" ->
            event.subtype \in {"DegradedFallbackEquivalent", "DegradedFallbackLimited"}
      [] OTHER -> event.subtype = "None"

ValidEvent(event) ==
    /\ event.state \in StatesOf(event.type)
    /\ decision.posture \in PosturesFor(event.state)
    /\ SubtypeAgrees(event)
    /\ "planner" \notin event.words

(* validate_summary_truthfulness: the recorder refuses an event whose      *)
(* summary holds a word its state does not license.                        *)
TruthfulWords(event) ==
    /\ "success" \in event.words =>
          event.state \in {"Completed", "CompletedWithConstraints", "PartialSuccess"}
    /\ "failed" \in event.words => event.state = "Failed"
    /\ "cancel" \in event.words => event.state = "Canceled"
    /\ "degraded" \in event.words => event.subtype # "None"

Recordable(event) == KindAgrees(event) /\ TruthfulWords(event) /\ ValidEvent(event)

(* An error of run(): the caller gets no outcome, the sink keeps what it   *)
(* has.                                                                    *)
Fail ==
    /\ stage' = "failed"
    /\ records' = <<>>

(* A sink that cannot take the event; the line of a JSONL sink is already  *)
(* there when only its newline cannot be written.                          *)
ExportFails(event) ==
    /\ exporter
    /\ Recordable(event)
    /\ exported' \in {exported, Append(exported, event)}

NotRecordable(event) ==
    /\ ~Recordable(event)
    /\ UNCHANGED exported

(* A plausible slip: a failed export does not stop the run.                *)
BugRecord(event, next) ==
    \/ /\ Recordable(event)
       /\ records' = Append(records, event)
       /\ exported' \in IF exporter THEN {Append(exported, event), exported} ELSE {exported}
       /\ stage' = next
    \/ NotRecordable(event) /\ Fail

(* ExecutionPipelineService::record: validate, export if asked to, keep.   *)
Record(event, next) ==
    \/ /\ Recordable(event)
       /\ records' = Append(records, event)
       /\ exported' = IF exporter THEN Append(exported, event) ELSE exported
       /\ stage' = next
    \/ /\ NotRecordable(event) \/ ExportFails(event)
       /\ Fail

-----------------------------------------------------------------------------
Decide ==
    /\ stage = "decide"
    /\ \/ /\ decision' \in RouteDecisions
          /\ stage' = IF decision'.posture \in AdmittedPostures
                      THEN "plan" ELSE "refuse"
          /\ UNCHANGED records
       \/ /\ Fail  \* the request or the registry does not load
          /\ UNCHANGED decision
    /\ UNCHANGED <<vars, options, planDenied, answer, exported>>

(* A denied, review-required or approval-requiring decision is recorded    *)
(* and ends the run.                                                       *)
RecordRefusal ==
    /\ stage = "refuse"
    /\ Record(DecisionEvent, "done")
    /\ UNCHANGED <<vars, decision, options, planDenied, answer>>

(* No plan, or one that does not load, is an error; one that does not      *)
(* validate ends the run with a plan denial and without a record.          *)
ValidatePlan ==
    /\ stage = "plan"
    /\ \/ /\ stage' = "route"
          /\ UNCHANGED <<planDenied, records>>
       \/ /\ stage' = "done"
          /\ planDenied' = TRUE
          /\ UNCHANGED records
       \/ /\ Fail
          /\ UNCHANGED planDenied
    /\ UNCHANGED <<vars, decision, options, answer, exported>>

(* RoutingService refuses a plan of another request; AdapterRegistry       *)
(* refuses a second adapter for a capability.                              *)
AdapterOptions ==
    {implicit \o extra :
        implicit \in {<<>>, <<requested>>},
        extra \in UNION {[1..n -> Capabilities] : n \in 0..MaxAdditional}}

Distinct(list) == \A i, j \in DOMAIN list : list[i] = list[j] => i = j

SelectRoute ==
    /\ stage = "route"
    /\ \/ \E list \in AdapterOptions :
            /\ Distinct(list)
            /\ registry' = {list[i] : i \in DOMAIN list}
            /\ stage' = "deliver"
            /\ UNCHANGED records
       \/ /\ Fail
          /\ UNCHANGED registry
    /\ UNCHANGED <<plan, routeMatches, pc, locals, statuses, calls, world,
                   decision, options, planDenied, answer, exported>>

-----------------------------------------------------------------------------
(* Delivery of the admitted plan.                                          *)

StageAfterDelivery ==
    CASE pc' = "returned" -> "record"
      [] pc' = "error" -> "failed"
      [] OTHER -> "deliver"

DeliverPerStep ==
    /\ stage = "deliver"
    /\ mode = "PerStep"
    /\ Next
    /\ stage' = StageAfterDelivery
    /\ UNCHANGED <<decision, options, planDenied, answer, evidence>>

(* Ids an adapter may name: the declared steps and anything else.          *)
NamedSteps == Steps \cup {NoStep}

RouteAnswer(kind, step, via, subtype, summary) ==
    [kind |-> kind, step |-> step, via |-> via, subtype |-> subtype,
     summary |-> summary]

FallbackSubtypes == {"DegradedFallbackEquivalent", "DegradedFallbackLimited"}

RouteAnswers ==
    IF requested \in registry
    THEN {RouteAnswer("DeliveredAllSteps", 0, 0, "None", NoText),
          RouteAnswer("Unsupported", 0, 0, "None", NoText)}
         \cup {RouteAnswer("CompletedWithDeclaredFallback", s, f, d, NoText) :
                 s \in NamedSteps, f \in NamedSteps,
                 d \in FallbackSubtypes \cup {"DegradedPartial"}}
         \cup {RouteAnswer("FailedAtDeclaredStep", s, 0, "None", t) :
                 s \in NamedSteps, t \in Summaries}
         \cup {RouteAnswer("CanceledAtDeclaredStep", s, 0, "None", NoText) :
                 s \in NamedSteps}
         \cup {RouteAnswer("DependencyUnavailable", 0, 0, "None", t) :
                 t \in Summaries}
    ELSE {RouteAnswer("NoAdapter", 0, 0, "None", NoAdapter.summary)}

DeclaredPair(s, f) ==
    \E i \in DOMAIN plan.fallback_references :
        plan.fallback_references[i] = [step_id |-> s, fallback_step_id |-> f]

(* The answers deliver_via_adapter turns into a contract error.            *)
RouteRejected(r) ==
    \/ r.kind = "Unsupported"
    \/ r.kind \in TextResults /\ ~ValidSummary(r.summary)
    \/ r.kind \in {"FailedAtDeclaredStep", "CanceledAtDeclaredStep"}
       /\ r.step \notin Steps
    \/ r.kind = "CompletedWithDeclaredFallback"
       /\ (r.subtype \notin FallbackSubtypes \/ ~DeclaredPair(r.step, r.via))

(* The steps reported as in progress, up to the one the answer names.      *)
LastStep(r) ==
    CASE r.kind = "DeliveredAllSteps" -> N
      [] r.kind = "CompletedWithDeclaredFallback" -> r.via
      [] r.kind \in {"FailedAtDeclaredStep", "CanceledAtDeclaredStep"} -> r.step
      [] OTHER -> 0

(* A plausible slip: a cancellation is reported like a completion.         *)
BugFinalRouteStatus(r) ==
    CASE r.kind = "FailedAtDeclaredStep" ->
           Status("Failed", "None", 0, r.summary.words)
      [] r.kind \in {"DependencyUnavailable", "NoAdapter"} ->
           Status("Degraded", "UnavailableDependencyBlock", 0, r.summary.words)
      [] OTHER -> Status("Completed", "None", 0, Said({"success"}))

FinalRouteStatus(r) ==
    CASE r.kind = "DeliveredAllSteps" ->
           Status("Completed", "None", 0, Said({"success"}))
      [] r.kind = "CompletedWithDeclaredFallback" ->
           Status("CompletedWithConstraints", r.subtype, 0, Said({"success"}))
      [] r.kind = "FailedAtDeclaredStep" ->
           Status("Failed", "None", 0, r.summary.words)
      [] r.kind = "CanceledAtDeclaredStep" ->
           Status("Canceled", "None", r.step, Said({"cancel"}) \cup plan.words[r.step])
      [] OTHER ->
           Status("Degraded", "UnavailableDependencyBlock", 0, r.summary.words)

RouteTrace(r) ==
    <<Status("AdmittedNotStarted", "None", 0, {})>>
    \o [s \in 1..LastStep(r) |-> InProgress(s)]
    \o <<FinalRouteStatus(r)>>

(* One adapter serves the whole plan in one call; the trace is written     *)
(* after it has answered.                                                  *)
DeliverWholeRoute ==
    /\ stage = "deliver"
    /\ mode = "WholeRoute"
    /\ \E r \in RouteAnswers :
        /\ answer' = r
        /\ pc' = IF RouteRejected(r) THEN "error" ELSE "returned"
        /\ statuses' = IF RouteRejected(r) THEN <<>> ELSE RouteTrace(r)
    /\ stage' = StageAfterDelivery
    /\ UNCHANGED <<inputs, locals, calls, world, decision, options,
                   planDenied, evidence>>

-----------------------------------------------------------------------------
(* Every status of the trace is recorded, in order; the first failure ends *)
(* the run with an error.                                                  *)
RecordStatus ==
    /\ stage = "record"
    /\ LET i == Len(records) + 1
       IN  Record(StatusEvent(statuses[i]),
                  IF i = Len(statuses) THEN "done" ELSE "record")
    /\ UNCHANGED <<vars, decision, options, planDenied, answer>>

PipelineNext ==
    \/ Decide
    \/ RecordRefusal
    \/ ValidatePlan
    \/ SelectRoute
    \/ DeliverPerStep
    \/ DeliverWholeRoute
    \/ RecordStatus

(* One sequential call; adapters and sinks answer.                         *)
PipelineSpec == PipelineInit /\ [][PipelineNext]_pipelineVars

Traced == stage = "done" /\ statuses # <<>>

(* A plausible slip: only a failed plan exits with a failure.              *)
BugExitCode ==
    CASE stage = "failed" \/ planDenied -> 1
      [] Traced -> IF FinalStatus.state = "Failed" THEN 1 ELSE 0
      [] OTHER -> IF decision.posture \in AdmittedPostures THEN 0 ELSE 1

(* The exit code of the execute command.                                   *)
ExitCode ==
    CASE stage = "failed" \/ planDenied -> 1
      [] Traced -> IF FinalStatus.state \in
                        {"Completed", "CompletedWithConstraints", "PartialSuccess"}
                   THEN 0 ELSE 1
      [] OTHER -> IF decision.posture \in AdmittedPostures THEN 0 ELSE 1

-----------------------------------------------------------------------------
(* Properties.                                                             *)

Events == [type : {"DenialIssued", "RouteDecisionResolved", "ExecutionStatusObserved"},
           state : {"Denied", "ReviewRequired", "WaitingExplicitApproval",
                    "AdmittedNotStarted", "InProgress", "Completed",
                    "CompletedWithConstraints", "PartialSuccess", "Failed",
                    "Canceled", "Degraded"},
           subtype : {"None", "DegradedFallbackEquivalent", "DegradedFallbackLimited",
                      "DegradedPartial", "UnavailableDependencyBlock"},
           words : SUBSET Words]

(* Every variable has its type.                                            *)
PipelineTypeOK ==
    /\ TypeOK
    /\ stage \in {"decide", "refuse", "plan", "route", "deliver", "record",
                  "done", "failed"}
    /\ decision \in RouteDecisions \cup {NoDecision}
    /\ requested \in Capabilities
    /\ mode \in {"WholeRoute", "PerStep"}
    /\ exporter \in BOOLEAN
    /\ planDenied \in BOOLEAN
    /\ answer = NoAnswer \/ answer \in RouteAnswers
    /\ records \in Seq(Events)
    /\ exported \in Seq(Events)

Called == answer # NoAnswer \/ \E s \in Steps : calls[s] > 0

(* A whole route that is failed at a declared step counts as not delivered *)
(* although its adapter may have done the steps before: run() is not told. *)
RouteDelivered ==
    answer.kind \in {"DeliveredAllSteps", "CompletedWithDeclaredFallback"}

(* No adapter is called for a request that was denied, sent to review or   *)
(* left for an operator to approve, nor for a plan that was denied, in     *)
(* either dispatch mode (the early returns of run).                        *)
DeliveryIsAdmitted ==
    Called => /\ decision.posture \in {"PolicyPreapproved", "ExecuteAllowed"}
              /\ ~planDenied

(* The evidence of run(): the refusal, or one event for each status of the *)
(* trace.  A plan that is denied has no trace and leaves no evidence; only *)
(* plan_denial of the outcome tells it (see EveryOutcomeIsRecorded).       *)
Owed ==
    IF decision.posture \in AdmittedPostures
    THEN [i \in DOMAIN statuses |-> StatusEvent(statuses[i])]
    ELSE <<DecisionEvent>>

(* Evidence has no gap: what the sink holds is always a beginning of it,   *)
(* whatever failed, and all of it, in the order of the trace, once the run *)
(* has returned; so have the records.                                      *)
EvidenceIsComplete ==
    /\ decision # NoDecision => exported = SubSeq(Owed, 1, Len(exported))
    /\ stage = "done" =>
          /\ records = Owed
          /\ exporter => exported = Owed

(* Exported evidence agrees with the adapters: a completion was delivered, *)
(* and nothing was delivered behind a failure, a cancellation or an        *)
(* unavailability (recorder and delivery composed).                        *)
EvidenceIsTruthful ==
    \A i \in DOMAIN exported :
        LET state == exported[i].state
        IN  /\ state = "Completed" =>
                  Delivered = Steps \/ answer.kind = "DeliveredAllSteps"
            /\ state \in {"Failed", "Canceled", "Degraded"} =>
                  Delivered = {} /\ ~RouteDelivered

(* The exit code of a run that returns is zero exactly when an adapter     *)
(* delivered something (execute command).                                  *)
ExitCodeTellsDelivery ==
    stage = "done" => (ExitCode = 0 <=> Delivered # {} \/ RouteDelivered)

-----------------------------------------------------------------------------
(* What documents of the code say and the code does not do.                *)

(* "record forensic evidence for every truthful outcome along the way      *)
(* (including denied, review-required, and plan-invalid paths": a run that *)
(* returns an outcome has recorded something.                              *)
EveryOutcomeIsRecorded == stage = "done" => records # <<>>
=============================================================================
