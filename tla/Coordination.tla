----------------------------- MODULE Coordination -----------------------------
(***************************************************************************)
(* The services a caller of the library composes around one route          *)
(* decision: ExecutionService::coordinate, which turns a directive into a  *)
(* trace of statuses; ReviewService, which hands a pending request to an   *)
(* operator; the forensic record of that handoff; and DfLocalAdapter,      *)
(* which writes a status back to DataForge Local.                          *)
(*                                                                         *)
(* The services keep no state.  The caller does: it holds the decisions    *)
(* and plans of several requests, old and new, and passes them from one    *)
(* service to the next.                                                    *)
(***************************************************************************)
EXTENDS FrictionContract, FiniteSets, Sequences, SequencesExt

CONSTANTS
    Decisions,        \* the route decisions the caller holds
    Plans,            \* the validated plans it holds
    LoadedStatuses,   \* the statuses it reads from documents
    Contexts,         \* the times it passes: coordinated, started, completed
    OptionLists,      \* the approval options it passes
    MaxCoordinations, \* how many statuses or traces it obtains
    MaxCalls          \* how many calls it makes

RouteDecisionShape ==
    [route_decision_id : STRING, request_id : STRING, correlation_id : STRING,
     resolved_approval_posture : Postures, execution_allowed : BOOLEAN,
     review_required : BOOLEAN, explicit_approval_required : BOOLEAN,
     requested_capability_id : STRING, operator_visible_summary : Texts,
     degraded_subtype : Subtypes \union {Absent}]

(* A plan that was loaded: its id, which stands for its hash too, and the  *)
(* ids of its steps have the form that the schema asks of them.            *)
PlanShape ==
    [execution_plan_id : STRING \ {Absent, MalformedHash},
     originating_request_id : STRING, correlation_id : STRING,
     steps : Seq(STRING \ {Absent, MalformedStep}), capabilities : SUBSET STRING]

Times == Nat \ {NoTime}

ASSUME InputAssumption ==
    /\ Decisions \subseteq RouteDecisionShape
    /\ Plans \subseteq PlanShape
    \* ExecutionPlanValidator: a plan has steps, all different.
    /\ \A p \in Plans : p.steps # <<>> /\ IsInjective(p.steps)
    /\ \A status \in LoadedStatuses : status.state \in States
    /\ Contexts \subseteq [coordinated : Times, started : Times, completed : Times]
    /\ MaxCoordinations \in Nat /\ MaxCalls \in Nat

VARIABLES
    obtained,   \* how many of its calls asked for statuses
    calls,      \* how many calls it made
    result,     \* the last coordination: its arguments, and its trace if any
    held,       \* the statuses the caller holds
    handed,     \* what the package was made from (history)
    package,    \* the review package
    event,      \* the forensic event of the package
    posts,      \* the writebacks, in order, and what each returned
    stored      \* the artifacts DataForge Local has

vars == <<obtained, calls, result, held, handed, package, event, posts, stored>>
review == <<handed, package, event>>
writeback == <<posts, stored>>

NoPlan == [execution_plan_id |-> Absent]

NoStatus == [state |-> Absent]

NoPackage == [current_posture |-> Absent]

NoEvent == [execution_state |-> Absent]

NoResult == [verdict |-> "none"]

Init ==
    /\ obtained = 0
    /\ calls = 0
    /\ result = NoResult
    /\ held = {}
    /\ handed = [plan |-> NoPlan, status |-> NoStatus]
    /\ package = NoPackage
    /\ event = NoEvent
    /\ posts = <<>>
    /\ stored = {}

Call == calls < MaxCalls /\ calls' = calls + 1

-----------------------------------------------------------------------------
(* What the coordinator, the review service and the recorder ask of a      *)
(* decision and of a plan that comes with it.                              *)

(* validate_route_decision_surface: the flags say what the posture says.   *)
SurfaceHolds(d) ==
    /\ d.execution_allowed = (d.resolved_approval_posture \in AdmittedPostures)
    /\ d.review_required = (d.resolved_approval_posture = "ReviewRequired")
    /\ d.explicit_approval_required =
          (d.resolved_approval_posture = "ExplicitOperatorApproval")

(* validate_plan_matches_route of the coordinator.                         *)
PlanMatchesRoute(d, p) ==
    /\ p # NoPlan
    /\ p.correlation_id = d.correlation_id
    /\ p.originating_request_id = d.request_id

(* validate_plan_matches_route of the review service, which also asks for  *)
(* the requested capability.                                               *)
ReviewedPlanMatchesRoute(d, p) ==
    /\ PlanMatchesRoute(d, p)
    /\ d.requested_capability_id \in p.capabilities

-----------------------------------------------------------------------------
(* ExecutionService::coordinate.                                           *)

Directive(kind, step, summary) == [kind |-> kind, step |-> step, summary |-> summary]

(* A directive names a declared step of some plan, or one of none.         *)
NamedSteps == (UNION {Range(p.steps) : p \in Plans}) \union {"undeclared"}

Directives ==
    {Directive("NoExecution", Absent, Absent),
     Directive("CompleteDeclaredPlan", Absent, Absent)}
      \union
    {Directive("FailAtDeclaredStep", s, t) : s \in NamedSteps, t \in {"plain", "long"}}
      \union
    {Directive("CancelInFlight", s, Absent) : s \in NamedSteps}
      \union
    {Directive("UnsupportedRuntimeCondition", Absent, "plain")}

(* CoordinationInput::new.                                                 *)
InputHolds(d, p, directive) ==
    /\ SurfaceHolds(d)
    /\ d.resolved_approval_posture \in {"Denied", "ReviewRequired"} => p = NoPlan
    /\ d.resolved_approval_posture \notin {"Denied", "ReviewRequired"} =>
          PlanMatchesRoute(d, p)
    /\ directive.kind # "NoExecution" => d.resolved_approval_posture \in AdmittedPostures

Status(d, p, posture, state, started, updated, completed, step, completion, failure, summary) ==
    [request_id |-> d.request_id, correlation_id |-> d.correlation_id,
     execution_plan_id |-> p.execution_plan_id, stable_plan_hash |-> p.execution_plan_id,
     current_posture |-> posture, state |-> state, degraded_subtype |-> Absent,
     started_at_utc |-> started, updated_at_utc |-> updated,
     completed_at_utc |-> completed, current_step |-> step,
     completion_summary |-> completion, failure_summary |-> failure,
     truthful_user_visible_summary |-> summary]

(* The one status of a route that is not admitted; it names no plan.       *)
PendingStatus(d, context) ==
    LET Pending(state, summary) ==
            Status(d, NoPlan, d.resolved_approval_posture, state, NoTime,
                   context.coordinated, NoTime, Absent, Absent, Absent, summary)
    IN  CASE d.resolved_approval_posture = "Denied" ->
                Pending("Denied", d.operator_visible_summary)
          [] d.resolved_approval_posture = "ReviewRequired" ->
                Pending("ReviewRequired", d.operator_visible_summary)
          [] d.resolved_approval_posture = "ExplicitOperatorApproval" ->
                Pending("WaitingExplicitApproval", "plain")

AdmittedNotStartedStatus(d, p, context) ==
    Status(d, p, d.resolved_approval_posture, "AdmittedNotStarted", NoTime,
           context.coordinated, NoTime, Absent, Absent, Absent, "plain")

(* A plausible slip: the step that failed or was canceled is left out.     *)
BugDeclaredStepsThrough(p, step) ==
    SubSeq(p.steps, 1, SelectInSeq(p.steps, LAMBDA s : s = step) - 1)

(* declared_steps_through: the declared steps up to the one named.         *)
DeclaredStepsThrough(p, step) ==
    SubSeq(p.steps, 1, SelectInSeq(p.steps, LAMBDA s : s = step))

InProgressStatuses(d, p, steps, context) ==
    [i \in DOMAIN steps |->
        Status(d, p, d.resolved_approval_posture, "InProgress", context.started,
               context.started, NoTime, steps[i], Absent, Absent, "plain")]

(* build_completed_status, build_failed_status, build_canceled_status.     *)
FinalStatus(d, p, directive, context) ==
    LET Final(state, completion, failure, summary) ==
            Status(d, p, d.resolved_approval_posture, state, context.started,
                   context.completed, context.completed, Absent,
                   completion, failure, summary)
    IN  CASE directive.kind = "CompleteDeclaredPlan" ->
                Final("Completed", "plain", Absent, "plain")
          [] directive.kind = "FailAtDeclaredStep" ->
                Final("Failed", Absent, directive.summary, directive.summary)
          [] directive.kind = "CancelInFlight" ->
                Final("Canceled", Absent, Absent, "plain")

(* What the directive itself must satisfy on an admitted route.            *)
DirectiveHolds(d, p, directive) ==
    d.resolved_approval_posture \in AdmittedPostures =>
        /\ directive.kind # "UnsupportedRuntimeCondition"
        /\ directive.kind = "FailAtDeclaredStep" => BoundedText(directive.summary)
        /\ directive.kind \in {"FailAtDeclaredStep", "CancelInFlight"} =>
              directive.step \in Range(p.steps)

TraceOf(d, p, directive, context) ==
    IF d.resolved_approval_posture \notin AdmittedPostures
    THEN <<PendingStatus(d, context)>>
    ELSE LET admitted == <<AdmittedNotStartedStatus(d, p, context)>>
             steps == IF directive.kind = "CompleteDeclaredPlan" THEN p.steps
                      ELSE DeclaredStepsThrough(p, directive.step)
         IN  IF directive.kind = "NoExecution" THEN admitted
             ELSE admitted \o InProgressStatuses(d, p, steps, context)
                    \o <<FinalStatus(d, p, directive, context)>>

(* Every status is validated when it is built; the first that fails ends   *)
(* the call, and no status is returned.                                    *)
Coordinate(d, p, directive, context) ==
    LET arguments == [decision |-> d, plan |-> p, directive |-> directive,
                      context |-> context]
        trace == TraceOf(d, p, directive, context)
    IN  IF /\ InputHolds(d, p, directive)
           /\ DirectiveHolds(d, p, directive)
           /\ \A i \in DOMAIN trace : Validate(trace[i])
        THEN /\ result' = [verdict |-> "ok", call |-> arguments, trace |-> trace]
             /\ held' = held \union Range(trace)
        ELSE /\ result' = [verdict |-> "error", call |-> arguments]
             /\ UNCHANGED held

(* ExecutionStatus::load_contract_value, and ValidatedExecutionStatus::new.*)
LoadStatus(status) ==
    /\ Validate(status)
    /\ held' = held \union {status}
    /\ result' = NoResult

ObtainStatuses ==
    /\ Call
    /\ obtained < MaxCoordinations
    /\ obtained' = obtained + 1
    /\ \/ \E d \in Decisions, p \in Plans \union {NoPlan}, directive \in Directives,
             context \in Contexts : Coordinate(d, p, directive, context)
       \/ \E status \in LoadedStatuses : LoadStatus(status)
    /\ UNCHANGED <<review, writeback>>

-----------------------------------------------------------------------------
(* ReviewService.                                                          *)

ReviewPostures == {"ReviewRequired", "ExplicitOperatorApproval"}

PendingStateOf(posture) ==
    IF posture = "ReviewRequired" THEN "ReviewRequired" ELSE "WaitingExplicitApproval"

(* A plausible slip: any status of a request that waits will do.           *)
BugStatusMatchesReviewRoute(d, status) ==
    /\ status.current_posture = d.resolved_approval_posture
    /\ status.state = PendingStateOf(d.resolved_approval_posture)

(* validate_status_matches_review_route.                                   *)
StatusMatchesReviewRoute(d, status) ==
    /\ Validate(status)
    /\ status.request_id = d.request_id
    /\ status.correlation_id = d.correlation_id
    /\ status.current_posture = d.resolved_approval_posture
    /\ status.degraded_subtype = Absent
    /\ status.state = PendingStateOf(d.resolved_approval_posture)

(* ReviewEmissionInput::new, for the postures that lead to a package.      *)
EmissionHolds(d, p, status) ==
    /\ SurfaceHolds(d)
    /\ IF d.resolved_approval_posture = "ReviewRequired" THEN p = NoPlan
       ELSE ReviewedPlanMatchesRoute(d, p)
    /\ status # NoStatus => StatusMatchesReviewRoute(d, status)

(* ReviewPackage::validate, for what the caller contributes to it.         *)
PackageHolds(d, proposal, options) ==
    /\ BoundedText(proposal)
    /\ IsInjective(options)
    /\ {"ApproveExecute", "DeclineRequest"} \subseteq Range(options)
    /\ proposal = "degraded" => d.degraded_subtype # Absent

(* review_status_context_from_status: what the package says of the status; *)
(* what it asks of it, StatusMatchesReviewRoute asked before.              *)
StatusContextOf(status) == status.state

PackageOf(d, p, status) ==
    [originating_request_id |-> d.request_id, correlation_id |-> d.correlation_id,
     route_decision_id |-> d.route_decision_id,
     execution_plan_id |-> p.execution_plan_id,
     current_posture |-> d.resolved_approval_posture,
     execution_status_context |-> StatusContextOf(status),
     degraded_or_fallback_posture |-> d.degraded_subtype]

(* emit_review_package.  On the other postures it answers NotEmitted, and  *)
(* an error leaves nothing behind.                                         *)
EmitReviewPackage(d, p, status, proposal, options) ==
    /\ d.resolved_approval_posture \in ReviewPostures
    /\ EmissionHolds(d, p, status)
    /\ PackageHolds(d, proposal, options)
    /\ package' = PackageOf(d, p, status)
    /\ handed' = [plan |-> p, status |-> status]

HandOver ==
    /\ Call
    /\ package = NoPackage
    /\ \E d \in Decisions, p \in Plans \union {NoPlan}, status \in held \union {NoStatus},
          proposal \in {"plain", "degraded", "long"}, options \in OptionLists :
             EmitReviewPackage(d, p, status, proposal, options)
    /\ result' = NoResult
    /\ UNCHANGED <<obtained, held, event, writeback>>

-----------------------------------------------------------------------------
(* ForensicService::record_event of a ReviewPackagePrepared.               *)

(* validate_record_kind.                                                   *)
RecordHolds(d) ==
    /\ SurfaceHolds(d)
    /\ d.resolved_approval_posture = "ExplicitOperatorApproval"
    /\ package.current_posture = "ExplicitOperatorApproval"
    /\ package.originating_request_id = d.request_id
    /\ package.correlation_id = d.correlation_id
    /\ package.route_decision_id = d.route_decision_id

(* ForensicEvent::validate, for an event that links a plan and a package.  *)
EventHolds(e) ==
    /\ e.execution_plan_id # Absent
    /\ e.current_posture = "ExplicitOperatorApproval"
    /\ e.execution_state = "WaitingExplicitApproval"
    /\ e.degraded_subtype \in FallbackSubtypes \union {Absent}

EventOf(d) ==
    [request_id |-> d.request_id, correlation_id |-> d.correlation_id,
     route_decision_id |-> d.route_decision_id,
     execution_plan_id |-> package.execution_plan_id,
     current_posture |-> package.current_posture,
     execution_state |-> IF package.execution_status_context = Absent
                         THEN "WaitingExplicitApproval"
                         ELSE package.execution_status_context,
     degraded_subtype |-> package.degraded_or_fallback_posture]

(* record_event: a package the recorder refuses leaves no event.           *)
RecordReviewPackage(d) ==
    /\ Call
    /\ package # NoPackage
    /\ event = NoEvent
    /\ RecordHolds(d)
    /\ EventHolds(EventOf(d))
    /\ event' = EventOf(d)
    /\ result' = NoResult
    /\ UNCHANGED <<obtained, held, handed, package, writeback>>

-----------------------------------------------------------------------------
(* DfLocalAdapter::post_execution_status_event.                            *)

(* A plausible slip: the key of the retry, and of every other status of    *)
(* the chain, is derived from the correlation id.                          *)
BugArtifactId(status) == <<status.correlation_id, 0>>

(* A fresh id for every post; the idempotency key is a digest of it.       *)
ArtifactId(status) == <<status.correlation_id, Len(posts) + 1>>

InFlight == {i \in DOMAIN posts : posts[i].returned = "nothing"}

PostStatus(status) ==
    /\ Call
    /\ InFlight = {}
    /\ posts' = Append(posts, [artifact_id |-> ArtifactId(status), status |-> status,
                               returned |-> "nothing"])
    /\ result' = NoResult
    /\ UNCHANGED <<obtained, held, review, stored>>

(* DataForge Local records an artifact whose key it does not know, even    *)
(* when the request has timed out in the meantime.                         *)
DataForgeRecords(i) ==
    /\ posts[i].returned \in {"nothing", "error"}
    /\ \A a \in stored : a.artifact_id # posts[i].artifact_id
    /\ stored' = stored \union {[artifact_id |-> posts[i].artifact_id,
                                 payload |-> posts[i].status]}
    /\ UNCHANGED <<obtained, calls, result, held, review, posts>>

Return(i, returned) ==
    /\ posts' = [posts EXCEPT ![i].returned = returned]
    /\ UNCHANGED <<obtained, calls, result, held, review, stored>>

(* 201 for a new key and 200 for a known one; another 2xx says only that   *)
(* the request arrived.  That a known key with another payload is refused  *)
(* is the peer's affair and not relied on.                                 *)
DataForgeAnswers(i) ==
    /\ i \in InFlight
    /\ \/ /\ \E a \in stored : a.artifact_id = posts[i].artifact_id
          /\ Return(i, "acknowledged")
       \/ Return(i, "unacknowledged")

(* A refusal, a connection that breaks, or the deadline of ten seconds.    *)
WritebackFails(i) ==
    /\ i \in InFlight
    /\ Return(i, "error")

-----------------------------------------------------------------------------
Next ==
    \/ ObtainStatuses
    \/ HandOver
    \/ \E d \in Decisions : RecordReviewPackage(d)
    \/ \E status \in held : PostStatus(status)
    \/ \E i \in DOMAIN posts :
          DataForgeRecords(i) \/ DataForgeAnswers(i) \/ WritebackFails(i)

Spec == Init /\ [][Next]_vars

-----------------------------------------------------------------------------
(* Every variable has its type.                                            *)
TypeOK ==
    /\ obtained \in 0..MaxCoordinations
    /\ result.verdict \in {"none", "ok", "error"}
    /\ \A status \in held : status.state \in States
    /\ handed.plan \in Plans \union {NoPlan}
    /\ handed.status \in held \union {NoStatus}
    /\ package.current_posture \in
          {"ReviewRequired", "ExplicitOperatorApproval", Absent}
    /\ event.execution_state \in {"WaitingExplicitApproval", Absent}
    /\ calls \in obtained..MaxCalls
    /\ \A i \in DOMAIN posts :
          posts[i].returned \in {"nothing", "acknowledged", "unacknowledged", "error"}
    /\ \A a \in stored : \E i \in DOMAIN posts : a.payload = posts[i].status

(* A lawful history of the call: one request, posture and plan throughout; *)
(* nothing after a final status; and, right after its first status, one    *)
(* for each of the first `told` declared steps, in order: none of them     *)
(* unless the route is admitted, all when the plan completed, and those up *)
(* to the named one when it failed or was canceled.                        *)
LawfulHistory(call, trace) ==
    LET d == call.decision
        p == call.plan
        final == Last(trace)
    IN  /\ \A i \in DOMAIN trace :
              /\ trace[i].request_id = d.request_id
              /\ trace[i].current_posture = d.resolved_approval_posture
              /\ trace[i].execution_plan_id # Absent =>
                    /\ d.execution_allowed
                    /\ p.execution_plan_id = trace[i].execution_plan_id
                    /\ p.originating_request_id = d.request_id
              /\ i < Len(trace) => trace[i].state \notin FinishedStates
        /\ \E told \in 0..Len(trace) :
              /\ \A i \in DOMAIN trace :
                    trace[i].state = "InProgress" <=> i \in 2..(told + 1)
              /\ told > 0 => d.execution_allowed /\ told <= Len(p.steps)
              /\ \A i \in 1..told : trace[i + 1].current_step = p.steps[i]
              /\ final.state = "Completed" => told = Len(p.steps)
              /\ final.state \in {"Failed", "Canceled"} =>
                    told > 0 /\ p.steps[told] = call.directive.step

(* What can be wrong with a call of coordinate.                            *)
CallerErrs(call) ==
    LET d == call.decision
        posture == d.resolved_approval_posture
        admitted == posture \in AdmittedPostures
        directive == call.directive
    IN  \/ <<d.execution_allowed, d.review_required, d.explicit_approval_required>> #
              <<admitted, posture = "ReviewRequired", posture = "ExplicitOperatorApproval">>
        \/ call.plan = NoPlan /\ posture \notin {"Denied", "ReviewRequired"}
        \/ /\ call.plan # NoPlan
           /\ \/ posture \in {"Denied", "ReviewRequired"}
              \/ call.plan.correlation_id # d.correlation_id
              \/ call.plan.originating_request_id # d.request_id
        \/ directive.kind # "NoExecution" /\ ~admitted
        \/ directive.kind = "UnsupportedRuntimeCondition"
        \/ directive.kind = "FailAtDeclaredStep" /\ directive.summary = "long"
        \/ directive.step # Absent /\ directive.step \notin Range(call.plan.steps)
        \/ directive.kind # "NoExecution" /\ call.context.completed < call.context.started
        \/ /\ posture \in {"Denied", "ReviewRequired"}
           /\ d.operator_visible_summary \in {"empty", "long"}

(* Whoever calls coordinate lawfully gets a lawful history, and only the   *)
(* caller's own fault is an error: the statuses the coordinator builds     *)
(* always satisfy the status contract, so no lawful directive loses its    *)
(* trace to a mismatch between the two.                                    *)
LawfulCallsSucceed ==
    /\ result.verdict = "ok" => LawfulHistory(result.call, result.trace)
    /\ result.verdict = "error" => CallerErrs(result.call)

(* What an operator is asked to approve is one request: the plan, the      *)
(* status and the decision behind a package, and behind its forensic       *)
(* event, are of the same request even when the caller holds several that  *)
(* share a correlation id; and none of them has begun.                     *)
HandoffIsOneRequest ==
    /\ package # NoPackage =>
          /\ handed.plan # NoPlan =>
                /\ handed.plan.originating_request_id = package.originating_request_id
                /\ handed.plan.execution_plan_id = package.execution_plan_id
          /\ handed.status # NoStatus =>
                /\ handed.status.request_id = package.originating_request_id
                /\ handed.status.correlation_id = package.correlation_id
                /\ handed.status.state \in PreExecutionStates
    /\ event # NoEvent =>
          /\ event.request_id = package.originating_request_id
          /\ event.route_decision_id = package.route_decision_id
          /\ event.execution_plan_id = package.execution_plan_id
          /\ event.execution_plan_id # Absent

Friction(kind, action, status, route, plan, packaged, guards) ==
    [friction_kind |-> kind, operator_action |-> action,
     current_posture |-> status.current_posture, execution_state |-> status.state,
     degraded_subtype |-> status.degraded_subtype, route_decision_id |-> route,
     execution_plan_id |-> plan, review_package |-> packaged, denial_guards |-> guards]

(* The kinds of friction a status can be told as, once it is known what    *)
(* there is to link: its own plan, or the package that hands it over.      *)
WaysToTell(status) ==
    LET packaged == /\ status.state = "WaitingExplicitApproval"
                    /\ package # NoPackage
                    /\ package.originating_request_id = status.request_id
        plan == IF packaged THEN package.execution_plan_id ELSE status.execution_plan_id
        Told(kind, action, guards) ==
            ValidateFriction(Friction(kind, action, status, "route", plan, packaged, guards))
    IN  {kind \in FrictionKinds :
            \/ Told(kind, "Stop", 1)
            \/ Told(kind, "Review", 0)
            \/ Told(kind, "ApproveOrDecline", 0)
            \/ Told(kind, "Acknowledge", 0)}

(* The friction contract agrees with the status contract: a request that   *)
(* is stopped, waits or ended short of completion can be told to the       *)
(* operator in exactly one way, one that is on course or complete in none, *)
(* and one that waits for approval once its package was made, of which the *)
(* explicit kind must name the plan.                                       *)
FrictionCanBeTold ==
    \A status \in held :
        \/ Cardinality(WaysToTell(status)) =
              IF status.state \in {"AdmittedNotStarted", "InProgress", "Completed"}
              THEN 0 ELSE 1
        \/ /\ status.state = "WaitingExplicitApproval"
           /\ package.current_posture # "ExplicitOperatorApproval"
                 \/ package.originating_request_id # status.request_id

(* A writeback that returned acknowledged is stored, with the status that  *)
(* was posted, although DataForge Local answers a known key from what it   *)
(* has.  A writeback that failed may be stored too: nothing is said of it. *)
AcknowledgedIsStored ==
    \A i \in DOMAIN posts :
        posts[i].returned = "acknowledged" =>
            \E a \in stored : /\ a.artifact_id = posts[i].artifact_id
                              /\ a.payload = posts[i].status
=============================================================================
