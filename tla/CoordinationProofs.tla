------------------------- MODULE CoordinationProofs -------------------------
(***************************************************************************)
(* Proofs about Coordination, for every set of decisions, plans, documents *)
(* and times the caller holds, and for every number of calls it makes.     *)
(***************************************************************************)
EXTENDS Coordination, FiniteSetTheorems, SequenceTheorems, WellFoundedInduction, TLAPS

(* Whatever the caller holds has passed ExecutionStatus::validate.         *)
HeldInv == \A status \in held : status.state \in States /\ Validate(status)

(* An event has its package, and a package that asks for approval its plan.*)
PackageInv ==
    /\ event # NoEvent => package # NoPackage
    /\ package.current_posture = "ExplicitOperatorApproval" =>
          package.execution_plan_id # Absent

Returns == {"nothing", "acknowledged", "unacknowledged", "error"}

Posts == [artifact_id : {status.correlation_id : status \in held} \X Nat,
          status : held, returned : Returns]

(* No two writebacks share an artifact id, and what DataForge Local has is *)
(* what one of them posted.                                                *)
PostInv ==
    /\ posts \in Seq(Posts)
    /\ \A i \in DOMAIN posts : posts[i].artifact_id[2] = i
    /\ \A a \in stored : \E i \in DOMAIN posts :
          a.artifact_id = posts[i].artifact_id /\ a.payload = posts[i].status

CoordinationInv ==
    /\ HeldInv
    /\ PackageInv
    /\ PostInv
    /\ LawfulCallsSucceed
    /\ HandoffIsOneRequest
    /\ AcknowledgedIsStored

-----------------------------------------------------------------------------
(* Writebacks.                                                             *)

(* Every step leaves what the caller holds in place, or adds to it, so the *)
(* writebacks keep their type.                                             *)
LEMMA PostsStay ==
    ASSUME PostInv, held \subseteq held', UNCHANGED <<posts, stored>>
    PROVE  PostInv'
<1>1. Posts \subseteq Posts'
  BY DEF Posts
<1>2. posts' \in Seq(Posts')
  BY <1>1 DEF PostInv
<1> QED
  BY <1>2 DEF PostInv

(* A new writeback takes the next artifact id (post_execution_status_event).*)
LEMMA PostStatusKeeps ==
    ASSUME PostInv, AcknowledgedIsStored, NEW status \in held, PostStatus(status)
    PROVE  PostInv' /\ AcknowledgedIsStored'
<1> DEFINE new == [artifact_id |-> ArtifactId(status), status |-> status,
                   returned |-> "nothing"]
<1>1. posts' = Append(posts, new) /\ UNCHANGED <<held, stored>>
  BY DEF PostStatus
<1>2. posts \in Seq(Posts) /\ Len(posts) \in Nat
  BY DEF PostInv
<1>3. new \in Posts /\ new.artifact_id[2] = Len(posts) + 1 /\ new.returned = "nothing"
  BY <1>2 DEF Posts, Returns, ArtifactId
<1> HIDE DEF new
<1>4. /\ posts' \in Seq(Posts) /\ DOMAIN posts' = 1..(Len(posts) + 1)
      /\ DOMAIN posts = 1..Len(posts)
      /\ posts'[Len(posts) + 1] = new
      /\ \A i \in DOMAIN posts : i \in DOMAIN posts' /\ posts'[i] = posts[i]
  BY <1>1, <1>2, <1>3
<1>5. \A i \in DOMAIN posts' : \/ i = Len(posts) + 1 /\ posts'[i] = new
                               \/ i \in DOMAIN posts /\ posts'[i] = posts[i]
  BY <1>2, <1>4
<1>6. Posts' = Posts
  BY <1>1 DEF Posts
<1>7. PostInv'
  <2>1. \A i \in DOMAIN posts' : posts'[i].artifact_id[2] = i
    BY <1>3, <1>5 DEF PostInv
  <2>2. \A a \in stored : \E i \in DOMAIN posts' :
          a.artifact_id = posts'[i].artifact_id /\ a.payload = posts'[i].status
    BY <1>4 DEF PostInv
  <2> QED
    BY <1>1, <1>4, <1>6, <2>1, <2>2 DEF PostInv
<1>8. AcknowledgedIsStored'
  BY <1>1, <1>3, <1>5 DEF AcknowledgedIsStored
<1> QED
  BY <1>7, <1>8

(* DataForge Local stores what a writeback posted, under its id.           *)
LEMMA RecordsKeeps ==
    ASSUME PostInv, AcknowledgedIsStored, NEW i \in DOMAIN posts, DataForgeRecords(i)
    PROVE  PostInv' /\ AcknowledgedIsStored'
<1>1. /\ stored' = stored \union {[artifact_id |-> posts[i].artifact_id,
                                   payload |-> posts[i].status]}
      /\ UNCHANGED <<held, posts>>
  BY DEF DataForgeRecords
<1>2. Posts' = Posts
  BY <1>1 DEF Posts
<1>3. PostInv'
  BY <1>1, <1>2 DEF PostInv
<1>4. AcknowledgedIsStored'
  BY <1>1 DEF AcknowledgedIsStored
<1> QED
  BY <1>3, <1>4

(* What DataForge Local answers is acknowledged only when it has the id,   *)
(* and the id is that of this writeback alone.                             *)
LEMMA ReturnKeeps ==
    ASSUME PostInv, AcknowledgedIsStored, NEW i \in DOMAIN posts,
           DataForgeAnswers(i) \/ WritebackFails(i)
    PROVE  PostInv' /\ AcknowledgedIsStored'
<1>1. PICK r \in Returns :
        /\ Return(i, r)
        /\ r = "acknowledged" => \E a \in stored : a.artifact_id = posts[i].artifact_id
  BY DEF DataForgeAnswers, WritebackFails, Returns
<1>2. posts' = [posts EXCEPT ![i].returned = r] /\ UNCHANGED <<held, stored>>
  BY <1>1 DEF Return
<1>3. posts \in Seq(Posts) /\ DOMAIN posts = 1..Len(posts) /\ Len(posts) \in Nat
  BY DEF PostInv
<1>4. posts[i] \in Posts
  BY <1>3
<1>5. /\ DOMAIN posts' = DOMAIN posts
      /\ \A j \in DOMAIN posts : j # i => posts'[j] = posts[j]
      /\ posts'[i] \in Posts /\ posts'[i].returned = r
      /\ posts'[i].artifact_id = posts[i].artifact_id
      /\ posts'[i].status = posts[i].status
  BY <1>1, <1>2, <1>3, <1>4 DEF Posts
<1>6. Posts' = Posts
  BY <1>2 DEF Posts
<1>7. \A j \in DOMAIN posts : /\ posts'[j] \in Posts
                              /\ posts'[j].artifact_id = posts[j].artifact_id
                              /\ posts'[j].status = posts[j].status
  BY <1>3, <1>5
<1>8. posts' \in Seq(Posts)
  <2>1. posts' = [j \in 1..Len(posts) |-> posts'[j]]
    BY <1>2, <1>3
  <2> QED
    BY <1>3, <1>7, <2>1
<1>9. PostInv'
  BY <1>2, <1>5, <1>6, <1>7, <1>8 DEF PostInv
<1>10. AcknowledgedIsStored'
  <2> SUFFICES ASSUME NEW j \in DOMAIN posts, posts'[j].returned = "acknowledged"
               PROVE  \E a \in stored : /\ a.artifact_id = posts[j].artifact_id
                                        /\ a.payload = posts[j].status
    BY <1>2, <1>5, <1>7 DEF AcknowledgedIsStored
  <2>1. CASE j # i
    BY <1>5, <2>1 DEF AcknowledgedIsStored
  <2>2. CASE j = i
    <3>1. PICK a \in stored : a.artifact_id = posts[i].artifact_id
      BY <1>1, <1>5, <2>2
    <3>2. PICK k \in DOMAIN posts :
            a.artifact_id = posts[k].artifact_id /\ a.payload = posts[k].status
      BY DEF PostInv
    <3>3. k = i
      BY <3>1, <3>2 DEF PostInv
    <3> QED
      BY <2>2, <3>1, <3>2, <3>3
  <2> QED
    BY <2>1, <2>2
<1> QED
  BY <1>9, <1>10

-----------------------------------------------------------------------------
(* The handoff.                                                            *)

(* A package is made from one decision and from what belongs to it         *)
(* (emit_review_package).                                                  *)
LEMMA HandOverKeeps ==
    ASSUME PackageInv, HandOver
    PROVE  PackageInv' /\ HandoffIsOneRequest'
<1>1. /\ package = NoPackage /\ UNCHANGED event
      /\ \E d \in Decisions, p \in Plans \union {NoPlan}, status \in held \union {NoStatus},
            proposal \in {"plain", "degraded", "long"}, options \in OptionLists :
               EmitReviewPackage(d, p, status, proposal, options)
  BY DEF HandOver
<1>2. PICK d \in Decisions : \E p \in Plans \union {NoPlan}, status \in held \union {NoStatus} :
        /\ d.resolved_approval_posture \in ReviewPostures
        /\ EmissionHolds(d, p, status)
        /\ package' = PackageOf(d, p, status)
        /\ handed' = [plan |-> p, status |-> status]
  BY <1>1 DEF EmitReviewPackage
<1>3. PICK p \in Plans \union {NoPlan} : \E status \in held \union {NoStatus} :
        /\ d.resolved_approval_posture \in ReviewPostures
        /\ EmissionHolds(d, p, status)
        /\ package' = PackageOf(d, p, status)
        /\ handed' = [plan |-> p, status |-> status]
  BY <1>2
<1>4. PICK status \in held \union {NoStatus} :
        /\ d.resolved_approval_posture \in ReviewPostures
        /\ EmissionHolds(d, p, status)
        /\ package' = PackageOf(d, p, status)
        /\ handed' = [plan |-> p, status |-> status]
  BY <1>3
<1>5. event' = NoEvent
  BY <1>1 DEF PackageInv
<1>6. /\ package'.originating_request_id = d.request_id
      /\ package'.correlation_id = d.correlation_id
      /\ package'.execution_plan_id = p.execution_plan_id
      /\ package'.current_posture = d.resolved_approval_posture
      /\ handed'.plan = p /\ handed'.status = status
  BY <1>4 DEF PackageOf
<1>7. p # NoPlan =>
        p \in Plans /\ p.originating_request_id = d.request_id /\ p.execution_plan_id # Absent
  <2> SUFFICES ASSUME p # NoPlan
               PROVE  p \in Plans /\ p.originating_request_id = d.request_id
                      /\ p.execution_plan_id # Absent
    OBVIOUS
  <2>1. p \in Plans /\ p \in PlanShape
    BY InputAssumption
  <2>2. p.execution_plan_id # Absent
    BY <2>1 DEF PlanShape
  <2>3. p.originating_request_id = d.request_id
    BY <1>4 DEF EmissionHolds, ReviewedPlanMatchesRoute, PlanMatchesRoute
  <2> QED
    BY <2>1, <2>2, <2>3
<1>8. status # NoStatus =>
        /\ status.request_id = d.request_id /\ status.correlation_id = d.correlation_id
        /\ status.state \in PreExecutionStates
  BY <1>4 DEF EmissionHolds, StatusMatchesReviewRoute, PendingStateOf, PreExecutionStates
<1>9. package'.current_posture = "ExplicitOperatorApproval" => p # NoPlan
  BY <1>4, <1>6 DEF EmissionHolds, ReviewedPlanMatchesRoute, PlanMatchesRoute
<1>10. PackageInv'
  BY <1>5, <1>6, <1>7, <1>9 DEF PackageInv
<1>11. HandoffIsOneRequest'
  BY <1>5, <1>6, <1>7, <1>8 DEF HandoffIsOneRequest
<1> QED
  BY <1>10, <1>11

(* The event of a package is of the package's request, decision and plan   *)
(* (record_event of a ReviewPackagePrepared).                              *)
LEMMA RecordKeeps ==
    ASSUME PackageInv, HandoffIsOneRequest, NEW d \in Decisions, RecordReviewPackage(d)
    PROVE  PackageInv' /\ HandoffIsOneRequest'
<1>1. /\ package # NoPackage /\ RecordHolds(d) /\ EventHolds(EventOf(d))
      /\ event' = EventOf(d) /\ UNCHANGED <<handed, package>>
  BY DEF RecordReviewPackage
<1>2. /\ event'.request_id = package.originating_request_id
      /\ event'.route_decision_id = package.route_decision_id
      /\ event'.execution_plan_id = package.execution_plan_id
      /\ event'.execution_plan_id # Absent
  BY <1>1 DEF RecordHolds, EventHolds, EventOf
<1>3. PackageInv'
  BY <1>1 DEF PackageInv
<1>4. HandoffIsOneRequest'
  BY <1>1, <1>2 DEF HandoffIsOneRequest
<1> QED
  BY <1>3, <1>4

-----------------------------------------------------------------------------
(* Coordination: the statuses it builds.                                   *)

(* A field that must be there, or must not, is or is not.                  *)
LEMMA Presence ==
    ASSUME NEW P \in BOOLEAN
    PROVE  (P \in Must <=> P) /\ (P \in Never <=> ~P) /\ P \in May
BY Zenon DEF Must, Never, May

(* The status of a route that is not admitted passes its own contract      *)
(* unless the summary of the decision is out of bounds                     *)
(* (build_denied_status and its siblings).                                 *)
LEMMA PendingStatusHolds ==
    ASSUME NEW d \in Decisions, NEW context \in Contexts,
           d.resolved_approval_posture \notin AdmittedPostures
    PROVE  LET status == PendingStatus(d, context)
           IN  /\ status.request_id = d.request_id
               /\ status.current_posture = d.resolved_approval_posture
               /\ status.execution_plan_id = Absent
               /\ status.state \in PreExecutionStates
               /\ (d.resolved_approval_posture \in {"Denied", "ReviewRequired"} =>
                     BoundedText(d.operator_visible_summary)) => Validate(status)
<1> DEFINE status == PendingStatus(d, context)
           posture == d.resolved_approval_posture
<1>1. posture \in {"Denied", "ReviewRequired", "ExplicitOperatorApproval"}
  BY InputAssumption DEF RouteDecisionShape, Postures, AdmittedPostures
<1>2. /\ status.request_id = d.request_id
      /\ status.current_posture = posture
      /\ status.execution_plan_id = Absent /\ status.stable_plan_hash = Absent
      /\ status.degraded_subtype = Absent /\ status.current_step = Absent
      /\ status.started_at_utc = NoTime /\ status.completed_at_utc = NoTime
      /\ status.updated_at_utc = context.coordinated
      /\ status.completion_summary = Absent /\ status.failure_summary = Absent
  BY <1>1 DEF PendingStatus, Status, NoPlan
<1>3. /\ posture = "Denied" => status.state = "Denied"
      /\ posture = "ReviewRequired" => status.state = "ReviewRequired"
      /\ posture = "ExplicitOperatorApproval" => status.state = "WaitingExplicitApproval"
      /\ posture \in {"Denied", "ReviewRequired"} =>
            status.truthful_user_visible_summary = d.operator_visible_summary
      /\ posture = "ExplicitOperatorApproval" =>
            status.truthful_user_visible_summary = "plain"
  BY <1>1 DEF PendingStatus, Status
<1> HIDE DEF status
<1>4. (posture \in {"Denied", "ReviewRequired"} => BoundedText(d.operator_visible_summary))
        => Validate(status)
  <2> SUFFICES ASSUME posture \in {"Denied", "ReviewRequired"} =>
                        BoundedText(d.operator_visible_summary)
               PROVE  Validate(status)
    OBVIOUS
  <2>1. RuleOf(status) = PreExecutionRule(posture)
    BY <1>1, <1>3 DEF RuleOf
  <2>2. Satisfies(status, PreExecutionRule(posture))
    BY <1>2, Presence DEF Satisfies, PreExecutionRule, Rule
  <2>3. TextsAreBounded(status)
    BY <1>1, <1>2, <1>3 DEF TextsAreBounded, BoundedText, Absent
  <2>4. TimesAreOrdered(status)
    <3>1. context.coordinated \in Nat
      BY InputAssumption DEF Times
    <3> QED
      BY <1>2, <3>1 DEF TimesAreOrdered, NoTime
  <2>5. LinkIsPaired(status) /\ status.stable_plan_hash # MalformedHash
        /\ status.current_step # MalformedStep
    BY <1>2 DEF LinkIsPaired, MalformedHash, MalformedStep, Absent
  <2> QED
    BY <2>1, <2>2, <2>3, <2>4, <2>5 DEF Validate
<1>5. status.state \in PreExecutionStates
  BY <1>1, <1>3 DEF PreExecutionStates
<1> QED
  BY <1>2, <1>4, <1>5 DEF status

(* The statuses of an admitted route name its plan and pass their own      *)
(* contract: the first of them,                                            *)
LEMMA AdmittedStatusHolds ==
    ASSUME NEW d \in Decisions, NEW p \in Plans, NEW context \in Contexts,
           d.resolved_approval_posture \in AdmittedPostures
    PROVE  LET status == AdmittedNotStartedStatus(d, p, context)
           IN  /\ status.request_id = d.request_id
               /\ status.current_posture = d.resolved_approval_posture
               /\ status.execution_plan_id = p.execution_plan_id
               /\ status.state = "AdmittedNotStarted"
               /\ Validate(status)
<1> DEFINE status == AdmittedNotStartedStatus(d, p, context)
<1>1. p.execution_plan_id \notin {Absent, MalformedHash} /\ context.coordinated \in Nat
  BY InputAssumption DEF PlanShape, Times
<1>2. /\ status.request_id = d.request_id
      /\ status.current_posture = d.resolved_approval_posture
      /\ status.execution_plan_id = p.execution_plan_id
      /\ status.stable_plan_hash = p.execution_plan_id
      /\ status.state = "AdmittedNotStarted"
      /\ status.degraded_subtype = Absent /\ status.current_step = Absent
      /\ status.started_at_utc = NoTime /\ status.completed_at_utc = NoTime
      /\ status.updated_at_utc = context.coordinated
      /\ status.completion_summary = Absent /\ status.failure_summary = Absent
      /\ status.truthful_user_visible_summary = "plain"
  BY DEF AdmittedNotStartedStatus, Status
<1> HIDE DEF status
<1>3. RuleOf(status) = AdmittedNotStartedRule
  BY <1>2 DEF RuleOf
<1>4. Satisfies(status, AdmittedNotStartedRule)
  BY <1>1, <1>2, Presence DEF Satisfies, AdmittedNotStartedRule, Rule
<1>5. TextsAreBounded(status) /\ TimesAreOrdered(status)
  BY <1>1, <1>2 DEF TextsAreBounded, BoundedText, Absent, TimesAreOrdered, NoTime
<1>6. /\ LinkIsPaired(status) /\ status.stable_plan_hash # MalformedHash
      /\ status.current_step # MalformedStep
  BY <1>1, <1>2 DEF LinkIsPaired, MalformedStep, Absent
<1>7. Validate(status)
  BY <1>3, <1>4, <1>5, <1>6 DEF Validate
<1> QED
  BY <1>2, <1>7 DEF status

(* one for each declared step,                                             *)
LEMMA InProgressStatusHolds ==
    ASSUME NEW d \in Decisions, NEW p \in Plans, NEW context \in Contexts,
           d.resolved_approval_posture \in AdmittedPostures,
           NEW steps, NEW i \in DOMAIN steps, steps[i] \notin {Absent, MalformedStep}
    PROVE  LET status == InProgressStatuses(d, p, steps, context)[i]
           IN  /\ status.request_id = d.request_id
               /\ status.current_posture = d.resolved_approval_posture
               /\ status.execution_plan_id = p.execution_plan_id
               /\ status.state = "InProgress"
               /\ status.current_step = steps[i]
               /\ Validate(status)
<1> DEFINE status == InProgressStatuses(d, p, steps, context)[i]
<1>1. p.execution_plan_id \notin {Absent, MalformedHash} /\ context.started \in Nat \ {NoTime}
  BY InputAssumption DEF PlanShape, Times
<1>2. /\ status.request_id = d.request_id
      /\ status.current_posture = d.resolved_approval_posture
      /\ status.execution_plan_id = p.execution_plan_id
      /\ status.stable_plan_hash = p.execution_plan_id
      /\ status.state = "InProgress"
      /\ status.degraded_subtype = Absent /\ status.current_step = steps[i]
      /\ status.started_at_utc = context.started /\ status.completed_at_utc = NoTime
      /\ status.updated_at_utc = context.started
      /\ status.completion_summary = Absent /\ status.failure_summary = Absent
      /\ status.truthful_user_visible_summary = "plain"
  BY DEF InProgressStatuses, Status
<1> HIDE DEF status
<1>3. RuleOf(status) = InProgressRule
  BY <1>2 DEF RuleOf
<1>4. Satisfies(status, InProgressRule)
  BY <1>1, <1>2, Presence DEF Satisfies, InProgressRule, Rule
<1>5. TextsAreBounded(status) /\ TimesAreOrdered(status)
  BY <1>1, <1>2 DEF TextsAreBounded, BoundedText, Absent, TimesAreOrdered, NoTime
<1>6. /\ LinkIsPaired(status) /\ status.stable_plan_hash # MalformedHash
      /\ status.current_step # MalformedStep
  BY <1>1, <1>2 DEF LinkIsPaired
<1>7. Validate(status)
  BY <1>3, <1>4, <1>5, <1>6 DEF Validate
<1> QED
  BY <1>2, <1>7 DEF status

(* and the final one, unless the caller's summary is out of bounds or its  *)
(* times are in the wrong order.                                           *)
LEMMA FinalStatusHolds ==
    ASSUME NEW d \in Decisions, NEW p \in Plans, NEW context \in Contexts,
           NEW directive,
           d.resolved_approval_posture \in AdmittedPostures,
           directive.kind \in {"CompleteDeclaredPlan", "FailAtDeclaredStep", "CancelInFlight"}
    PROVE  LET status == FinalStatus(d, p, directive, context)
           IN  /\ status.request_id = d.request_id
               /\ status.current_posture = d.resolved_approval_posture
               /\ status.execution_plan_id = p.execution_plan_id
               /\ directive.kind = "CompleteDeclaredPlan" => status.state = "Completed"
               /\ directive.kind = "FailAtDeclaredStep" => status.state = "Failed"
               /\ directive.kind = "CancelInFlight" => status.state = "Canceled"
               /\ context.started <= context.completed =>
                    ((directive.kind = "FailAtDeclaredStep" => directive.summary = "plain")
                       => Validate(status))
<1> DEFINE status == FinalStatus(d, p, directive, context)
<1>1. /\ p.execution_plan_id \notin {Absent, MalformedHash}
      /\ context.started \in Nat \ {NoTime} /\ context.completed \in Nat \ {NoTime}
  BY InputAssumption DEF PlanShape, Times
<1>2. /\ status.request_id = d.request_id
      /\ status.current_posture = d.resolved_approval_posture
      /\ status.execution_plan_id = p.execution_plan_id
      /\ status.stable_plan_hash = p.execution_plan_id
      /\ status.degraded_subtype = Absent /\ status.current_step = Absent
      /\ status.started_at_utc = context.started
      /\ status.completed_at_utc = context.completed
      /\ status.updated_at_utc = context.completed
  BY DEF FinalStatus, Status
<1>3. directive.kind = "CompleteDeclaredPlan" =>
        /\ status.state = "Completed" /\ status.completion_summary = "plain"
        /\ status.failure_summary = Absent /\ status.truthful_user_visible_summary = "plain"
  BY DEF FinalStatus, Status
<1>4. directive.kind = "FailAtDeclaredStep" =>
        /\ status.state = "Failed" /\ status.completion_summary = Absent
        /\ status.failure_summary = directive.summary
        /\ status.truthful_user_visible_summary = directive.summary
  BY DEF FinalStatus, Status
<1>5. directive.kind = "CancelInFlight" =>
        /\ status.state = "Canceled" /\ status.completion_summary = Absent
        /\ status.failure_summary = Absent /\ status.truthful_user_visible_summary = "plain"
  BY DEF FinalStatus, Status
<1> HIDE DEF status
<1>6. ASSUME directive.kind = "FailAtDeclaredStep" => directive.summary = "plain",
             context.started <= context.completed
      PROVE  Validate(status)
  <2>1. TextsAreBounded(status)
    BY <1>3, <1>4, <1>5, <1>6 DEF TextsAreBounded, BoundedText, Absent
  <2>2. TimesAreOrdered(status)
    BY <1>1, <1>2, <1>6 DEF TimesAreOrdered, NoTime
  <2>3. /\ LinkIsPaired(status) /\ status.stable_plan_hash # MalformedHash
        /\ status.current_step # MalformedStep
    BY <1>1, <1>2 DEF LinkIsPaired, MalformedStep, Absent
  <2>4. CASE directive.kind = "CompleteDeclaredPlan"
    <3>1. RuleOf(status) = CompletedRule
      BY <1>3, <2>4 DEF RuleOf
    <3>2. Satisfies(status, CompletedRule)
      BY <1>1, <1>2, <1>3, <2>4, Presence DEF Satisfies, CompletedRule, Rule, Absent
    <3> QED
      BY <2>1, <2>2, <2>3, <3>1, <3>2 DEF Validate
  <2>5. CASE directive.kind = "FailAtDeclaredStep"
    <3>1. RuleOf(status) = FailedRule
      BY <1>4, <2>5 DEF RuleOf
    <3>2. Satisfies(status, FailedRule)
      BY <1>1, <1>2, <1>4, <1>6, <2>5, Presence DEF Satisfies, FailedRule, Rule, Absent
    <3> QED
      BY <2>1, <2>2, <2>3, <3>1, <3>2 DEF Validate
  <2>6. CASE directive.kind = "CancelInFlight"
    <3>1. RuleOf(status) = CanceledRule
      BY <1>5, <2>6 DEF RuleOf
    <3>2. Satisfies(status, CanceledRule)
      BY <1>1, <1>2, <1>5, <2>6, Presence DEF Satisfies, CanceledRule, Rule, Absent
    <3> QED
      BY <2>1, <2>2, <2>3, <3>1, <3>2 DEF Validate
  <2> QED
    BY <2>4, <2>5, <2>6
<1> QED
  BY <1>2, <1>3, <1>4, <1>5, <1>6 DEF status

-----------------------------------------------------------------------------
(* Coordination: the trace.                                                *)

(* Every non-empty set of naturals has a least element.                    *)
LEMMA LeastOf ==
    ASSUME NEW T, T \subseteq Nat, T # {}
    PROVE  \E x \in T : \A y \in T : x <= y
<1>1. PICK x \in T : \A y \in T : ~(<<y, x>> \in OpToRel(<, Nat))
  BY NatLessThanWellFounded, WFMin
<1> SUFFICES ASSUME NEW y \in T, ~(x <= y) PROVE FALSE
  OBVIOUS
<1>2. y \in Nat /\ x \in Nat /\ y < x
  OBVIOUS
<1>3. <<y, x>> \in OpToRel(<, Nat)
  BY <1>2 DEF OpToRel
<1> QED
  BY <1>1, <1>3

(* The declared steps through a declared one are those up to its place     *)
(* (declared_steps_through).                                               *)
LEMMA StepsThrough ==
    ASSUME NEW p \in Plans, NEW step \in Range(p.steps)
    PROVE  \E n \in 1..Len(p.steps) :
             p.steps[n] = step /\ DeclaredStepsThrough(p, step) = SubSeq(p.steps, 1, n)
<1> DEFINE I == {i \in 1..Len(p.steps) : p.steps[i] = step}
<1>1. p.steps \in Seq(STRING \ {Absent, MalformedStep})
  BY InputAssumption DEF PlanShape
<1>2. I # {} /\ I \subseteq Nat
  BY <1>1 DEF Range
<1>3. SelectInSeq(p.steps, LAMBDA s : s = step) = Min(I)
  BY <1>2 DEF SelectInSeq
<1>4. Min(I) \in I
  <2> HIDE DEF I
  <2>1. \E x \in I : \A y \in I : x <= y
    BY <1>2, LeastOf
  <2> QED
    BY <2>1 DEF Min
<1> QED
  BY <1>3, <1>4 DEF DeclaredStepsThrough

(* A sequence with one element before it and one after it.                 *)
LEMMA Framed ==
    ASSUME NEW a, NEW b, NEW S, NEW m \in Seq(S)
    PROVE  LET t == <<a>> \o m \o <<b>>
           IN  /\ DOMAIN t = 1..(Len(m) + 2) /\ Len(t) = Len(m) + 2
               /\ t[1] = a /\ t[Len(m) + 2] = b
               /\ \A i \in 1..Len(m) : t[i + 1] = m[i]
<1> DEFINE U == S \union {a, b}
           t == <<a>> \o m \o <<b>>
<1>1. <<a>> \in Seq(U) /\ <<b>> \in Seq(U) /\ m \in Seq(U) /\ Len(m) \in Nat
  OBVIOUS
<1>2. Len(<<a>>) = 1 /\ Len(<<b>>) = 1 /\ <<a>>[1] = a /\ <<b>>[1] = b
  OBVIOUS
<1> HIDE DEF U
<1>3. /\ <<a>> \o m \in Seq(U) /\ Len(<<a>> \o m) = Len(m) + 1
      /\ \A i \in 1..(Len(m) + 1) :
            (<<a>> \o m)[i] = IF i <= 1 THEN <<a>>[i] ELSE m[i - 1]
  BY <1>1, <1>2, ConcatProperties
<1> DEFINE am == <<a>> \o m
<1> HIDE DEF am
<1>4. /\ am \o <<b>> \in Seq(U) /\ Len(am \o <<b>>) = Len(m) + 2
      /\ \A i \in 1..(Len(m) + 2) :
            (am \o <<b>>)[i] = IF i <= Len(m) + 1 THEN am[i] ELSE <<b>>[i - (Len(m) + 1)]
  <2>1. am \in Seq(U) /\ Len(am) = Len(m) + 1
    BY <1>3 DEF am
  <2>2. /\ am \o <<b>> \in Seq(U) /\ Len(am \o <<b>>) = Len(am) + Len(<<b>>)
        /\ \A i \in 1..(Len(am) + Len(<<b>>)) :
              (am \o <<b>>)[i] = IF i <= Len(am) THEN am[i] ELSE <<b>>[i - Len(am)]
    BY <1>1, <2>1, ConcatProperties
  <2> QED
    BY <1>1, <1>2, <2>1, <2>2
<1>5. t = am \o <<b>>
  BY DEF am
<1> HIDE DEF t
<1>6. DOMAIN t = 1..(Len(m) + 2) /\ Len(t) = Len(m) + 2
  BY <1>1, <1>4, <1>5
<1>7. t[1] = a /\ \A i \in 1..Len(m) : t[i + 1] = m[i]
  <2>1. \A i \in 1..(Len(m) + 1) : t[i] = IF i <= 1 THEN <<a>>[i] ELSE m[i - 1]
    BY <1>1, <1>3, <1>4, <1>5 DEF am
  <2>2. t[1] = a
    BY <1>1, <1>2, <2>1
  <2>3. \A i \in 1..Len(m) : t[i + 1] = m[i]
    BY <1>1, <2>1
  <2> QED
    BY <2>2, <2>3
<1>8. t[Len(m) + 2] = b
  <2>1. t[Len(m) + 2] = <<b>>[(Len(m) + 2) - (Len(m) + 1)]
    BY <1>1, <1>4, <1>5
  <2>2. (Len(m) + 2) - (Len(m) + 1) = 1
    BY <1>1
  <2> QED
    BY <1>2, <2>1, <2>2
<1> QED
  BY <1>6, <1>7, <1>8 DEF t

Working == {"CompleteDeclaredPlan", "FailAtDeclaredStep", "CancelInFlight"}

(* The trace of a directive that works off the first n declared steps: the *)
(* admitted status, one for each of the steps, the final status.           *)
WorksThrough(n, d, p, directive, context) ==
    LET trace == TraceOf(d, p, directive, context)
    IN  /\ DOMAIN trace = 1..(n + 2) /\ Len(trace) = n + 2
        /\ trace[1] = AdmittedNotStartedStatus(d, p, context)
        /\ trace[n + 2] = FinalStatus(d, p, directive, context)
        /\ \A i \in 1..n :
              /\ trace[i + 1].request_id = d.request_id
              /\ trace[i + 1].current_posture = d.resolved_approval_posture
              /\ trace[i + 1].execution_plan_id = p.execution_plan_id
              /\ trace[i + 1].state = "InProgress"
              /\ trace[i + 1].current_step = p.steps[i]
              /\ Validate(trace[i + 1])
        /\ directive.kind = "CompleteDeclaredPlan" => n = Len(p.steps)
        /\ directive.kind # "CompleteDeclaredPlan" => p.steps[n] = directive.step

(* A directive works off the declared steps up to the last that it reaches *)
(* (coordinate_admitted_route).                                            *)
LEMMA WorkTrace ==
    ASSUME NEW d \in Decisions, NEW p \in Plans, NEW directive, NEW context \in Contexts,
           d.resolved_approval_posture \in AdmittedPostures,
           directive.kind \in Working,
           directive.kind # "CompleteDeclaredPlan" => directive.step \in Range(p.steps)
    PROVE  \E n \in 1..Len(p.steps) : WorksThrough(n, d, p, directive, context)
<1> DEFINE StepIds == STRING \ {Absent, MalformedStep}
           steps == IF directive.kind = "CompleteDeclaredPlan" THEN p.steps
                    ELSE DeclaredStepsThrough(p, directive.step)
<1>1. p.steps \in Seq(StepIds) /\ p.steps # <<>> /\ Len(p.steps) \in Nat \ {0}
  BY InputAssumption DEF PlanShape
<1>2. \E n \in 1..Len(p.steps) :
        /\ steps = SubSeq(p.steps, 1, n)
        /\ directive.kind = "CompleteDeclaredPlan" => n = Len(p.steps)
        /\ directive.kind # "CompleteDeclaredPlan" => p.steps[n] = directive.step
  <2>1. CASE directive.kind = "CompleteDeclaredPlan"
    <3>1. steps = SubSeq(p.steps, 1, Len(p.steps))
      BY <1>1, <2>1
    <3> QED
      BY <1>1, <2>1, <3>1
  <2>2. CASE directive.kind # "CompleteDeclaredPlan"
    BY <2>2, StepsThrough
  <2> QED
    BY <2>1, <2>2
<1>3. PICK n \in 1..Len(p.steps) :
        /\ steps = SubSeq(p.steps, 1, n)
        /\ directive.kind = "CompleteDeclaredPlan" => n = Len(p.steps)
        /\ directive.kind # "CompleteDeclaredPlan" => p.steps[n] = directive.step
  BY <1>2
<1>4. /\ DOMAIN steps = 1..n
      /\ \A i \in 1..n : steps[i] = p.steps[i] /\ steps[i] \in StepIds
  BY <1>1, <1>3
<1> HIDE DEF steps, StepIds
<1> DEFINE working == InProgressStatuses(d, p, steps, context)
           S == {working[i] : i \in 1..n}
           first == AdmittedNotStartedStatus(d, p, context)
           final == FinalStatus(d, p, directive, context)
           trace == TraceOf(d, p, directive, context)
<1>5. working \in Seq(S) /\ Len(working) = n
  <2>1. working = [i \in 1..n |-> working[i]]
    BY <1>4 DEF InProgressStatuses
  <2> HIDE DEF working
  <2>2. working \in [1..n -> S]
    BY <2>1
  <2> QED
    BY <2>2, <1>1
<1>6. \A i \in 1..n :
        /\ working[i].request_id = d.request_id
        /\ working[i].current_posture = d.resolved_approval_posture
        /\ working[i].execution_plan_id = p.execution_plan_id
        /\ working[i].state = "InProgress"
        /\ working[i].current_step = p.steps[i]
        /\ Validate(working[i])
  <2> SUFFICES ASSUME NEW i \in 1..n
               PROVE  /\ working[i].request_id = d.request_id
                      /\ working[i].current_posture = d.resolved_approval_posture
                      /\ working[i].execution_plan_id = p.execution_plan_id
                      /\ working[i].state = "InProgress"
                      /\ working[i].current_step = p.steps[i]
                      /\ Validate(working[i])
    OBVIOUS
  <2>1. i \in DOMAIN steps /\ steps[i] \notin {Absent, MalformedStep} /\ steps[i] = p.steps[i]
    BY <1>4 DEF StepIds
  <2> QED
    BY <2>1, InProgressStatusHolds
<1>7. trace = <<first>> \o working \o <<final>>
  BY DEF TraceOf, Working, steps
<1> HIDE DEF working, first, final, trace, S
<1>8. /\ DOMAIN trace = 1..(n + 2) /\ Len(trace) = n + 2
      /\ trace[1] = first /\ trace[n + 2] = final
      /\ \A i \in 1..n : trace[i + 1] = working[i]
  BY <1>5, <1>7, Framed
<1>9. \A i \in 1..n :
        /\ trace[i + 1].request_id = d.request_id
        /\ trace[i + 1].current_posture = d.resolved_approval_posture
        /\ trace[i + 1].execution_plan_id = p.execution_plan_id
        /\ trace[i + 1].state = "InProgress"
        /\ trace[i + 1].current_step = p.steps[i]
        /\ Validate(trace[i + 1])
  BY <1>6, <1>8
<1> QED
  BY <1>3, <1>8, <1>9 DEF WorksThrough, first, final, trace

(* A call whose input and directive hold gives a lawful history of         *)
(* statuses that have a state each.                                        *)
LEMMA TraceIsLawful ==
    ASSUME NEW d \in Decisions, NEW p \in Plans \union {NoPlan},
           NEW directive \in Directives, NEW context \in Contexts,
           InputHolds(d, p, directive), DirectiveHolds(d, p, directive)
    PROVE  LET trace == TraceOf(d, p, directive, context)
           IN  /\ LawfulHistory([decision |-> d, plan |-> p, directive |-> directive,
                                 context |-> context], trace)
               /\ \A i \in DOMAIN trace : trace[i].state \in States
<1> DEFINE trace == TraceOf(d, p, directive, context)
           call == [decision |-> d, plan |-> p, directive |-> directive, context |-> context]
           posture == d.resolved_approval_posture
<1>1. d.execution_allowed = (posture \in AdmittedPostures)
  BY DEF InputHolds, SurfaceHolds
<1>2. CASE posture \notin AdmittedPostures
  <2> DEFINE status == PendingStatus(d, context)
  <2>1. trace = <<status>>
    BY <1>2 DEF TraceOf
  <2>2. /\ status.request_id = d.request_id
        /\ status.current_posture = posture
        /\ status.execution_plan_id = Absent
        /\ status.state \in PreExecutionStates
    BY <1>2, PendingStatusHolds
  <2> HIDE DEF status, trace
  <2>3. DOMAIN trace = {1} /\ Len(trace) = 1 /\ trace[1] = status /\ Last(trace) = status
    BY <2>1 DEF Last
  <2>4. status.state \notin FinishedStates \union {"InProgress"} /\ status.state \in States
    BY <2>2 DEF PreExecutionStates, FinishedStates, States
  <2>5. LawfulHistory(call, trace)
    <3>1. 0 \in 0..Len(trace) /\ \A i \in DOMAIN trace : i \notin 2..(0 + 1)
      BY <2>3
    <3>2. \A i \in DOMAIN trace : trace[i].state # "InProgress"
      BY <2>3, <2>4
    <3>3. Last(trace).state \notin {"Completed", "Failed", "Canceled"}
      BY <2>3, <2>4 DEF FinishedStates
    <3>4. \A i \in DOMAIN trace :
            /\ trace[i].request_id = d.request_id
            /\ trace[i].current_posture = posture
            /\ trace[i].execution_plan_id = Absent
            /\ trace[i].state \notin FinishedStates
      BY <2>2, <2>3, <2>4
    <3> QED
      BY <3>1, <3>2, <3>3, <3>4 DEF LawfulHistory
  <2> QED
    BY <2>3, <2>4, <2>5 DEF trace
<1>3. CASE posture \in AdmittedPostures
  <2>1. /\ p \in Plans /\ p.originating_request_id = d.request_id
        /\ d.execution_allowed
    BY <1>1, <1>3 DEF InputHolds, PlanMatchesRoute, AdmittedPostures
  <2>2. directive.kind \in Working \union {"NoExecution"}
    BY <1>3 DEF DirectiveHolds, Directives, Directive, Working
  <2>3. CASE directive.kind = "NoExecution"
    <3> DEFINE status == AdmittedNotStartedStatus(d, p, context)
    <3>1. trace = <<status>>
      BY <1>3, <2>3 DEF TraceOf
    <3>2. /\ status.request_id = d.request_id
          /\ status.current_posture = posture
          /\ status.execution_plan_id = p.execution_plan_id
          /\ status.state = "AdmittedNotStarted"
      BY <1>3, <2>1, AdmittedStatusHolds
    <3> HIDE DEF status, trace
    <3>3. DOMAIN trace = {1} /\ Len(trace) = 1 /\ trace[1] = status /\ Last(trace) = status
      BY <3>1 DEF Last
    <3>4. 0 \in 0..Len(trace) /\ \A i \in DOMAIN trace : i \notin 2..(0 + 1)
      BY <3>3
    <3>5. \A i \in DOMAIN trace :
            /\ trace[i].request_id = d.request_id
            /\ trace[i].current_posture = posture
            /\ trace[i].execution_plan_id = p.execution_plan_id
            /\ trace[i].state \notin FinishedStates /\ trace[i].state # "InProgress"
      BY <3>2, <3>3 DEF FinishedStates
    <3>6. Last(trace).state \notin {"Completed", "Failed", "Canceled"}
      BY <3>2, <3>3
    <3>7. LawfulHistory(call, trace)
      BY <2>1, <3>4, <3>5, <3>6 DEF LawfulHistory
    <3>8. \A i \in DOMAIN trace : trace[i].state \in States
      BY <3>2, <3>3 DEF States
    <3> QED
      BY <3>7, <3>8 DEF trace
  <2>4. CASE directive.kind \in Working
    <3>1. directive.kind # "CompleteDeclaredPlan" => directive.step \in Range(p.steps)
      BY <1>3, <2>4 DEF DirectiveHolds, Working
    <3> DEFINE final == FinalStatus(d, p, directive, context)
    <3>a. PICK n \in 1..Len(p.steps) : WorksThrough(n, d, p, directive, context)
      BY <1>3, <2>1, <2>4, <3>1, WorkTrace
    <3>2. /\ DOMAIN trace = 1..(n + 2) /\ Len(trace) = n + 2
          /\ trace[1] = AdmittedNotStartedStatus(d, p, context)
          /\ trace[n + 2] = final
          /\ \A i \in 1..n :
                /\ trace[i + 1].request_id = d.request_id
                /\ trace[i + 1].current_posture = posture
                /\ trace[i + 1].execution_plan_id = p.execution_plan_id
                /\ trace[i + 1].state = "InProgress"
                /\ trace[i + 1].current_step = p.steps[i]
                /\ Validate(trace[i + 1])
          /\ directive.kind = "CompleteDeclaredPlan" => n = Len(p.steps)
          /\ directive.kind # "CompleteDeclaredPlan" => p.steps[n] = directive.step
      BY <3>a DEF WorksThrough
    <3>3. /\ trace[1].request_id = d.request_id
          /\ trace[1].current_posture = posture
          /\ trace[1].execution_plan_id = p.execution_plan_id
          /\ trace[1].state = "AdmittedNotStarted"
      BY <1>3, <2>1, <3>2, AdmittedStatusHolds
    <3>4. /\ final.request_id = d.request_id
          /\ final.current_posture = posture
          /\ final.execution_plan_id = p.execution_plan_id
          /\ directive.kind = "CompleteDeclaredPlan" => final.state = "Completed"
          /\ directive.kind = "FailAtDeclaredStep" => final.state = "Failed"
          /\ directive.kind = "CancelInFlight" => final.state = "Canceled"
      BY <1>3, <2>1, <2>4, FinalStatusHolds DEF Working
    <3> HIDE DEF trace, final
    <3>5. n \in Nat /\ Last(trace) = final /\ n \in 0..Len(trace)
      <4>1. n \in Nat
        OBVIOUS
      <4> QED
        BY <3>2, <4>1 DEF Last
    <3>6. \A i \in DOMAIN trace : i = 1 \/ i = n + 2 \/ \E j \in 1..n : i = j + 1
      <4> SUFFICES ASSUME NEW i \in 1..(n + 2), i # 1, i # n + 2
                   PROVE  \E j \in 1..n : i = j + 1
        BY <3>2
      <4>1. i - 1 \in 1..n /\ i = (i - 1) + 1
        BY <3>5
      <4> QED
        BY <4>1
    <3>7. \A i \in DOMAIN trace :
            /\ trace[i].request_id = d.request_id
            /\ trace[i].current_posture = posture
            /\ trace[i].execution_plan_id = p.execution_plan_id
      BY <3>2, <3>3, <3>4, <3>6
    <3>8. \A i \in DOMAIN trace : trace[i].state = "InProgress" <=> i \in 2..(n + 1)
      <4> SUFFICES ASSUME NEW i \in 1..(n + 2)
                   PROVE  trace[i].state = "InProgress" <=> i \in 2..(n + 1)
        BY <3>2
      <4>1. CASE i = 1
        BY <3>3, <4>1
      <4>2. CASE i = n + 2
        BY <2>4, <3>2, <3>4, <3>5, <4>2 DEF Working
      <4>3. CASE i \in 2..(n + 1)
        <5>1. PICK j \in 1..n : i = j + 1
          BY <3>2, <3>5, <3>6, <4>3
        <5> QED
          BY <3>2, <4>3, <5>1
      <4> QED
        BY <3>5, <4>1, <4>2, <4>3
    <3>9. \A i \in DOMAIN trace : i < Len(trace) => trace[i].state \notin FinishedStates
      <4> SUFFICES ASSUME NEW i \in DOMAIN trace, i < Len(trace)
                   PROVE  trace[i].state \notin FinishedStates
        OBVIOUS
      <4>1. i # n + 2
        BY <3>2, <3>5
      <4>2. trace[i].state \in {"AdmittedNotStarted", "InProgress"}
        BY <3>2, <3>3, <3>6, <4>1
      <4> QED
        BY <4>2 DEF FinishedStates
    <3>10. /\ final.state = "Completed" => n = Len(p.steps)
           /\ final.state \in {"Failed", "Canceled"} => p.steps[n] = directive.step
      BY <2>4, <3>2, <3>4 DEF Working
    <3>11. LawfulHistory(call, trace)
      <4>1. n > 0 /\ n <= Len(p.steps)
        BY <3>5
      <4>2. \A i \in 1..n : trace[i + 1].current_step = p.steps[i]
        BY <3>2
      <4>3. \E told \in 0..Len(trace) :
              /\ \A i \in DOMAIN trace :
                    trace[i].state = "InProgress" <=> i \in 2..(told + 1)
              /\ told > 0 => d.execution_allowed /\ told <= Len(p.steps)
              /\ \A i \in 1..told : trace[i + 1].current_step = p.steps[i]
              /\ final.state = "Completed" => told = Len(p.steps)
              /\ final.state \in {"Failed", "Canceled"} =>
                    told > 0 /\ p.steps[told] = directive.step
        BY <2>1, <3>5, <3>8, <3>10, <4>1, <4>2
      <4> QED
        BY <2>1, <3>5, <3>7, <3>9, <4>3 DEF LawfulHistory
    <3>12. \A i \in DOMAIN trace : trace[i].state \in States
      <4>1. final.state \in States
        BY <2>4, <3>4 DEF Working, States, FinishedStates
      <4>2. "InProgress" \in States /\ "AdmittedNotStarted" \in States
        BY DEF States
      <4> QED
        BY <3>2, <3>3, <3>6, <4>1, <4>2
    <3> QED
      BY <3>11, <3>12 DEF trace
  <2> QED
    BY <2>2, <2>3, <2>4
<1> QED
  BY <1>2, <1>3

(* What the caller got right, in the terms of the checks.                  *)
LEMMA NoFault ==
    ASSUME NEW d \in Decisions, NEW p \in Plans \union {NoPlan},
           NEW directive \in Directives, NEW context \in Contexts,
           ~CallerErrs([decision |-> d, plan |-> p, directive |-> directive,
                        context |-> context])
    PROVE  /\ InputHolds(d, p, directive)
           /\ DirectiveHolds(d, p, directive)
           /\ d.resolved_approval_posture \in {"Denied", "ReviewRequired"} =>
                 BoundedText(d.operator_visible_summary)
           /\ directive.kind = "FailAtDeclaredStep" => directive.summary = "plain"
           /\ directive.kind # "NoExecution" => context.started <= context.completed
<1> DEFINE posture == d.resolved_approval_posture
           admitted == posture \in AdmittedPostures
<1>1. /\ d.execution_allowed \in BOOLEAN /\ d.review_required \in BOOLEAN
      /\ d.explicit_approval_required \in BOOLEAN /\ posture \in Postures
      /\ d.operator_visible_summary \in Texts
  BY InputAssumption DEF RouteDecisionShape
<1>2. /\ context.started \in Nat /\ context.completed \in Nat
  BY InputAssumption DEF Times
<1>3. /\ ~(<<d.execution_allowed, d.review_required, d.explicit_approval_required>> #
             <<admitted, posture = "ReviewRequired", posture = "ExplicitOperatorApproval">>)
      /\ ~(p = NoPlan /\ posture \notin {"Denied", "ReviewRequired"})
      /\ p # NoPlan => /\ posture \notin {"Denied", "ReviewRequired"}
                       /\ p.correlation_id = d.correlation_id
                       /\ p.originating_request_id = d.request_id
      /\ directive.kind # "NoExecution" => admitted
      /\ directive.kind # "UnsupportedRuntimeCondition"
      /\ ~(directive.kind = "FailAtDeclaredStep" /\ directive.summary = "long")
      /\ ~(directive.step # Absent /\ directive.step \notin Range(p.steps))
      /\ ~(directive.kind # "NoExecution" /\ context.completed < context.started)
      /\ ~(posture \in {"Denied", "ReviewRequired"}
             /\ d.operator_visible_summary \in {"empty", "long"})
  BY DEF CallerErrs
<1>4. SurfaceHolds(d)
  <2>1. /\ d.execution_allowed = admitted
        /\ d.review_required = (posture = "ReviewRequired")
        /\ d.explicit_approval_required = (posture = "ExplicitOperatorApproval")
    BY <1>3
  <2> QED
    BY <2>1 DEF SurfaceHolds
<1>5. InputHolds(d, p, directive)
  BY <1>3, <1>4 DEF InputHolds, PlanMatchesRoute
<1>6. /\ directive.kind = "FailAtDeclaredStep" => directive.summary = "plain"
      /\ directive.kind \in {"FailAtDeclaredStep", "CancelInFlight"} =>
            directive.step # Absent
  <2>1. \A q \in Plans : \A s \in Range(q.steps) : s # Absent
    BY InputAssumption DEF PlanShape, Range
  <2>2. \A s \in NamedSteps : s # Absent
    BY <2>1 DEF NamedSteps, Absent
  <2> HIDE DEF admitted
  <2> QED
    BY <1>3, <2>2 DEF Directives, Directive
<1>7. DirectiveHolds(d, p, directive)
  BY <1>3, <1>6 DEF DirectiveHolds, BoundedText
<1> QED
  BY <1>2, <1>3, <1>5, <1>6, <1>7 DEF BoundedText

(* A call without a fault of the caller builds statuses that all pass.     *)
LEMMA FaultlessTrace ==
    ASSUME NEW d \in Decisions, NEW p \in Plans \union {NoPlan},
           NEW directive \in Directives, NEW context \in Contexts,
           ~CallerErrs([decision |-> d, plan |-> p, directive |-> directive,
                        context |-> context])
    PROVE  \A i \in DOMAIN TraceOf(d, p, directive, context) :
              Validate(TraceOf(d, p, directive, context)[i])
<1> DEFINE trace == TraceOf(d, p, directive, context)
           posture == d.resolved_approval_posture
<1>1. /\ InputHolds(d, p, directive)
      /\ DirectiveHolds(d, p, directive)
      /\ posture \in {"Denied", "ReviewRequired"} => BoundedText(d.operator_visible_summary)
      /\ directive.kind = "FailAtDeclaredStep" => directive.summary = "plain"
      /\ directive.kind # "NoExecution" => context.started <= context.completed
  BY NoFault
<1>2. CASE posture \notin AdmittedPostures
  <2>1. trace = <<PendingStatus(d, context)>>
    BY <1>2 DEF TraceOf
  <2>2. Validate(PendingStatus(d, context))
    BY <1>1, <1>2, PendingStatusHolds
  <2> QED
    BY <2>1, <2>2
<1>3. CASE posture \in AdmittedPostures
  <2>1. p \in Plans
    BY <1>1, <1>3 DEF InputHolds, PlanMatchesRoute, AdmittedPostures
  <2>2. directive.kind \in Working \union {"NoExecution"}
    BY <1>1, <1>3 DEF DirectiveHolds, Directives, Directive, Working
  <2>3. Validate(AdmittedNotStartedStatus(d, p, context))
    BY <1>3, <2>1, AdmittedStatusHolds
  <2>4. CASE directive.kind = "NoExecution"
    <3>1. trace = <<AdmittedNotStartedStatus(d, p, context)>>
      BY <1>3, <2>4 DEF TraceOf
    <3> QED
      BY <2>3, <3>1
  <2>5. CASE directive.kind \in Working
    <3>1. directive.kind # "CompleteDeclaredPlan" => directive.step \in Range(p.steps)
      BY <1>1, <1>3, <2>5 DEF DirectiveHolds, Working
    <3>2. PICK n \in 1..Len(p.steps) : WorksThrough(n, d, p, directive, context)
      BY <1>3, <2>1, <2>5, <3>1, WorkTrace
    <3>3. Validate(FinalStatus(d, p, directive, context))
      BY <1>1, <1>3, <2>1, <2>5, FinalStatusHolds DEF Working
    <3>4. n \in Nat
      OBVIOUS
    <3>a. /\ DOMAIN trace = 1..(n + 2)
          /\ trace[1] = AdmittedNotStartedStatus(d, p, context)
          /\ trace[n + 2] = FinalStatus(d, p, directive, context)
          /\ \A i \in 1..n : Validate(trace[i + 1])
      BY <3>2, Zenon DEF WorksThrough
    <3> HIDE DEF trace
    <3>5. ASSUME NEW i \in 1..(n + 2) PROVE Validate(trace[i])
      <4>1. CASE i = 1 \/ i = n + 2
        BY <2>3, <3>3, <3>a, <4>1
      <4>2. CASE i # 1 /\ i # n + 2
        <5>1. i - 1 \in 1..n /\ (i - 1) + 1 = i
          BY <3>4, <4>2
        <5> QED
          BY <3>a, <5>1
      <4> QED
        BY <4>1, <4>2
    <3> QED
      BY <3>a, <3>5 DEF trace
  <2> QED
    BY <2>2, <2>4, <2>5
<1> QED
  BY <1>2, <1>3

(* A coordination keeps what the caller holds valid, and its history       *)
(* lawful or its error the caller's own.                                   *)
LEMMA CoordinateKeeps ==
    ASSUME HeldInv, NEW d \in Decisions, NEW p \in Plans \union {NoPlan},
           NEW directive \in Directives, NEW context \in Contexts,
           Coordinate(d, p, directive, context)
    PROVE  HeldInv' /\ LawfulCallsSucceed' /\ held \subseteq held'
<1> DEFINE arguments == [decision |-> d, plan |-> p, directive |-> directive,
                         context |-> context]
           trace == TraceOf(d, p, directive, context)
           accepted == /\ InputHolds(d, p, directive)
                       /\ DirectiveHolds(d, p, directive)
                       /\ \A i \in DOMAIN trace : Validate(trace[i])
<1>1. CASE accepted
  <2>1. /\ result' = [verdict |-> "ok", call |-> arguments, trace |-> trace]
        /\ held' = held \union Range(trace)
    BY <1>1 DEF Coordinate
  <2>2. /\ LawfulHistory(arguments, trace)
        /\ \A i \in DOMAIN trace : trace[i].state \in States /\ Validate(trace[i])
    BY <1>1, TraceIsLawful
  <2> HIDE DEF trace, arguments
  <2>3. HeldInv' /\ held \subseteq held'
    BY <2>1, <2>2 DEF HeldInv, Range
  <2>4. result'.verdict = "ok" /\ result'.call = arguments /\ result'.trace = trace
    BY <2>1
  <2>5. LawfulHistory(result.call, result.trace)'
    BY <2>2, <2>4
  <2> QED
    BY <2>3, <2>4, <2>5 DEF LawfulCallsSucceed
<1>2. CASE ~accepted
  <2>1. result' = [verdict |-> "error", call |-> arguments] /\ held' = held
    BY <1>2 DEF Coordinate
  <2>2. CallerErrs(arguments)
    <3> SUFFICES ASSUME ~CallerErrs(arguments)
                 PROVE  FALSE
      OBVIOUS
    <3>1. InputHolds(d, p, directive) /\ DirectiveHolds(d, p, directive)
      BY NoFault
    <3>2. \A i \in DOMAIN trace : Validate(trace[i])
      BY FaultlessTrace
    <3> QED
      BY <1>2, <3>1, <3>2
  <2> HIDE DEF arguments
  <2>3. result'.verdict = "error" /\ result'.call = arguments
    BY <2>1
  <2>4. CallerErrs(result.call)'
    BY <2>2, <2>3
  <2> QED
    BY <2>1, <2>3, <2>4 DEF HeldInv, LawfulCallsSucceed
<1> QED
  BY <1>1, <1>2

(* Statuses come from the coordinator or from documents, validated in      *)
(* either case.                                                            *)
LEMMA ObtainKeeps ==
    ASSUME HeldInv, ObtainStatuses
    PROVE  HeldInv' /\ LawfulCallsSucceed' /\ held \subseteq held'
<1>1. CASE \E d \in Decisions, p \in Plans \union {NoPlan}, directive \in Directives,
              context \in Contexts : Coordinate(d, p, directive, context)
  BY <1>1, CoordinateKeeps
<1>2. CASE \E status \in LoadedStatuses : LoadStatus(status)
  <2>1. PICK status \in LoadedStatuses : LoadStatus(status)
    BY <1>2
  <2>2. Validate(status) /\ held' = held \union {status} /\ result' = NoResult
    BY <2>1 DEF LoadStatus
  <2>3. status.state \in States
    BY InputAssumption
  <2>4. HeldInv' /\ held \subseteq held'
    BY <2>2, <2>3 DEF HeldInv
  <2>5. LawfulCallsSucceed'
    BY <2>2 DEF LawfulCallsSucceed, NoResult
  <2> QED
    BY <2>4, <2>5
<1> QED
  BY <1>1, <1>2 DEF ObtainStatuses

-----------------------------------------------------------------------------
(* The invariant.                                                          *)

(* A caller that has done nothing holds nothing.                           *)
LEMMA InitCoordinationInv == Init => CoordinationInv
<1> SUFFICES ASSUME Init PROVE CoordinationInv
  OBVIOUS
<1>1. HeldInv /\ PackageInv
  BY DEF Init, HeldInv, PackageInv, NoPackage, Absent
<1>2. posts \in Seq(Posts) /\ DOMAIN posts = {}
  BY DEF Init
<1>3. PostInv /\ AcknowledgedIsStored
  BY <1>2 DEF Init, PostInv, AcknowledgedIsStored
<1>4. LawfulCallsSucceed /\ HandoffIsOneRequest
  BY DEF Init, LawfulCallsSucceed, NoResult, HandoffIsOneRequest
<1> QED
  BY <1>1, <1>3, <1>4 DEF CoordinationInv

(* Steps that leave a part of the state alone keep what is said of it.     *)
LEMMA ReviewStays ==
    ASSUME PackageInv, HandoffIsOneRequest, UNCHANGED review
    PROVE  PackageInv' /\ HandoffIsOneRequest'
<1>1. handed' = handed /\ package' = package /\ event' = event
  BY DEF review
<1> QED
  BY <1>1 DEF PackageInv, HandoffIsOneRequest

LEMMA CallerStays ==
    ASSUME HeldInv, LawfulCallsSucceed, UNCHANGED held, result' \in {result, NoResult}
    PROVE  HeldInv' /\ LawfulCallsSucceed'
<1>1. HeldInv'
  BY DEF HeldInv
<1>2. CASE result' = NoResult
  BY <1>1, <1>2 DEF LawfulCallsSucceed, NoResult
<1>3. CASE result' = result
  BY <1>1, <1>3 DEF LawfulCallsSucceed
<1> QED
  BY <1>2, <1>3

(* Every step of the caller and of DataForge Local keeps the invariant.    *)
LEMMA StepCoordinationInv == CoordinationInv /\ [Next]_vars => CoordinationInv'
<1> SUFFICES ASSUME CoordinationInv, [Next]_vars
             PROVE  CoordinationInv'
  OBVIOUS
<1> USE DEF CoordinationInv
<1>1. CASE ObtainStatuses
  <2>1. HeldInv' /\ LawfulCallsSucceed' /\ held \subseteq held'
    BY <1>1, ObtainKeeps
  <2>2. UNCHANGED review /\ UNCHANGED <<posts, stored>>
    BY <1>1 DEF ObtainStatuses, writeback
  <2>3. AcknowledgedIsStored'
    BY <2>2 DEF AcknowledgedIsStored
  <2> QED
    BY <2>1, <2>2, <2>3, ReviewStays, PostsStay
<1>2. CASE HandOver
  <2>1. UNCHANGED <<held, posts, stored>> /\ result' = NoResult
    BY <1>2 DEF HandOver, writeback
  <2>2. AcknowledgedIsStored'
    BY <2>1 DEF AcknowledgedIsStored
  <2> QED
    BY <1>2, <2>1, <2>2, HandOverKeeps, CallerStays, PostsStay
<1>3. CASE \E d \in Decisions : RecordReviewPackage(d)
  <2>1. UNCHANGED <<held, posts, stored>> /\ result' = NoResult
    BY <1>3 DEF RecordReviewPackage, writeback
  <2>2. AcknowledgedIsStored'
    BY <2>1 DEF AcknowledgedIsStored
  <2> QED
    BY <1>3, <2>1, <2>2, RecordKeeps, CallerStays, PostsStay
<1>4. CASE \E status \in held : PostStatus(status)
  <2>1. UNCHANGED held /\ UNCHANGED review /\ result' = NoResult
    BY <1>4 DEF PostStatus
  <2> QED
    BY <1>4, <2>1, PostStatusKeeps, ReviewStays, CallerStays
<1>5. CASE \E i \in DOMAIN posts :
             DataForgeRecords(i) \/ DataForgeAnswers(i) \/ WritebackFails(i)
  <2>1. UNCHANGED held /\ UNCHANGED review /\ result' = result
    BY <1>5 DEF DataForgeRecords, DataForgeAnswers, WritebackFails, Return
  <2> QED
    BY <1>5, <2>1, RecordsKeeps, ReturnKeeps, ReviewStays, CallerStays
<1>6. CASE UNCHANGED vars
  <2>1. UNCHANGED held /\ UNCHANGED review /\ UNCHANGED <<posts, stored>> /\ result' = result
    BY <1>6 DEF vars, review
  <2>2. AcknowledgedIsStored'
    BY <2>1 DEF AcknowledgedIsStored
  <2> QED
    BY <2>1, <2>2, ReviewStays, CallerStays, PostsStay
<1> QED
  BY <1>1, <1>2, <1>3, <1>4, <1>5, <1>6 DEF Next

(* The invariant holds in every state a caller can bring the services to.  *)
THEOREM CoordinationInvariance == Spec => []CoordinationInv
BY InitCoordinationInv, StepCoordinationInv, PTL DEF Spec

(* Every variable has its type.                                            *)
LEMMA StepTypeOK ==
    ASSUME TypeOK, CoordinationInv, CoordinationInv', [Next]_vars
    PROVE  TypeOK'
<1>1. /\ \A status \in held' : status.state \in States
      /\ \A i \in DOMAIN posts' : posts'[i].returned \in Returns
      /\ \A a \in stored' : \E i \in DOMAIN posts' : a.payload = posts'[i].status
  <2>1. HeldInv' /\ PostInv'
    BY DEF CoordinationInv
  <2>2. \A i \in DOMAIN posts' : posts'[i] \in Posts'
    BY <2>1 DEF PostInv
  <2> QED
    BY <2>1, <2>2 DEF HeldInv, PostInv, Posts
<1>2. /\ obtained \in Nat /\ calls \in Nat /\ obtained <= calls
      /\ obtained <= MaxCoordinations /\ calls <= MaxCalls
  BY InputAssumption DEF TypeOK
<1>3. obtained' \in 0..MaxCoordinations /\ calls' \in obtained'..MaxCalls
  <2>1. CASE ObtainStatuses
    BY <1>2, <2>1, InputAssumption DEF ObtainStatuses, Call
  <2>2. CASE HandOver \/ (\E d \in Decisions : RecordReviewPackage(d))
             \/ (\E status \in held : PostStatus(status))
    <3>1. Call /\ obtained' = obtained
      BY <2>2 DEF HandOver, RecordReviewPackage, PostStatus
    <3> QED
      BY <1>2, <3>1, InputAssumption DEF Call
  <2>3. CASE (\E i \in DOMAIN posts :
                DataForgeRecords(i) \/ DataForgeAnswers(i) \/ WritebackFails(i))
             \/ UNCHANGED vars
    BY <1>2, <2>3, InputAssumption
    DEF DataForgeRecords, DataForgeAnswers, WritebackFails, Return, vars
  <2> QED
    BY <2>1, <2>2, <2>3 DEF Next
<1>4. result'.verdict \in {"none", "ok", "error"}
  <2>1. CASE ObtainStatuses
    BY <2>1 DEF ObtainStatuses, Coordinate, LoadStatus, NoResult
  <2>2. CASE ~ObtainStatuses
    <3>1. result' \in {result, NoResult}
      BY <2>2 DEF Next, HandOver, RecordReviewPackage, PostStatus, DataForgeRecords,
                  DataForgeAnswers, WritebackFails, Return, vars
    <3> QED
      BY <3>1 DEF TypeOK, NoResult
  <2> QED
    BY <2>1, <2>2
<1>5. held \subseteq held'
  BY DEF Next, ObtainStatuses, Coordinate, LoadStatus, HandOver, RecordReviewPackage,
         PostStatus, DataForgeRecords, DataForgeAnswers, WritebackFails, Return, vars
<1>6. /\ handed'.plan \in Plans \union {NoPlan}
      /\ handed'.status \in held' \union {NoStatus}
      /\ package'.current_posture \in {"ReviewRequired", "ExplicitOperatorApproval", Absent}
  <2>1. CASE HandOver
    BY <1>5, <2>1 DEF HandOver, EmitReviewPackage, PackageOf, ReviewPostures
  <2>2. CASE ~HandOver
    <3>1. handed' = handed /\ package' = package
      BY <2>2 DEF Next, ObtainStatuses, RecordReviewPackage, PostStatus, DataForgeRecords,
                  DataForgeAnswers, WritebackFails, Return, vars, review
    <3> QED
      BY <1>5, <3>1 DEF TypeOK
  <2> QED
    BY <2>1, <2>2
<1>7. event'.execution_state \in {"WaitingExplicitApproval", Absent}
  <2>1. CASE \E d \in Decisions : RecordReviewPackage(d)
    BY <2>1 DEF RecordReviewPackage, EventHolds
  <2>2. CASE ~(\E d \in Decisions : RecordReviewPackage(d))
    <3>1. event' = event
      BY <2>2 DEF Next, ObtainStatuses, HandOver, PostStatus, DataForgeRecords,
                  DataForgeAnswers, WritebackFails, Return, vars, review
    <3> QED
      BY <3>1 DEF TypeOK
  <2> QED
    BY <2>1, <2>2
<1> QED
  BY <1>1, <1>3, <1>4, <1>6, <1>7 DEF TypeOK, Returns

(* What the caller holds, hands over and posts is always well formed.      *)
THEOREM CoordinationTyped == Spec => []TypeOK
<1>1. Init => TypeOK
  <2> SUFFICES ASSUME Init PROVE TypeOK
    OBVIOUS
  <2>1. DOMAIN posts = {}
    BY DEF Init
  <2> QED
    BY <2>1, InputAssumption DEF Init, TypeOK, NoResult, NoPackage, NoEvent, Absent
<1>2. TypeOK /\ CoordinationInv /\ CoordinationInv' /\ [Next]_vars => TypeOK'
  BY StepTypeOK
<1> QED
  BY <1>1, <1>2, CoordinationInvariance, PTL DEF Spec

(* A lawful call of coordinate gives a lawful history and only the         *)
(* caller's own fault is an error (ExecutionService::coordinate).          *)
THEOREM LawfulCallsAlwaysSucceed == Spec => []LawfulCallsSucceed
<1>1. CoordinationInv => LawfulCallsSucceed
  BY DEF CoordinationInv
<1> QED
  BY <1>1, CoordinationInvariance, PTL

(* A package, what it was made from and its forensic event are of one      *)
(* request (emit_review_package, record_event).                            *)
THEOREM HandoffIsAlwaysOneRequest == Spec => []HandoffIsOneRequest
<1>1. CoordinationInv => HandoffIsOneRequest
  BY DEF CoordinationInv
<1> QED
  BY <1>1, CoordinationInvariance, PTL

(* What DataForge Local acknowledged it has, as it was posted              *)
(* (post_execution_status_event).                                          *)
THEOREM AcknowledgedIsAlwaysStored == Spec => []AcknowledgedIsStored
<1>1. CoordinationInv => AcknowledgedIsStored
  BY DEF CoordinationInv
<1> QED
  BY <1>1, CoordinationInvariance, PTL

-----------------------------------------------------------------------------
(* The friction contract.                                                  *)

(* Where the two contracts speak of the same state, the friction contract  *)
(* takes every posture and subtype that the status contract does.          *)
LEMMA ContractsAgree ==
    ASSUME NEW status, status.state \in States, Validate(status)
    PROVE  /\ status.state \in PreExecutionStates => status.execution_plan_id = Absent
           /\ status.state \in ConstrainedStates => status.execution_plan_id # Absent
           /\ status.state \in PreExecutionStates \union ConstrainedStates =>
                 /\ status.current_posture \in FrictionPostures(status.state)
                 /\ status.degraded_subtype \in FrictionSubtypes(status.state)
<1> DEFINE rule == RuleOf(status)
<1>1. /\ status.current_posture \in rule.postures
      /\ (status.execution_plan_id # Absent) \in rule.linked
      /\ status.degraded_subtype \in rule.subtypes
  BY DEF Validate, Satisfies
<1> HIDE DEF rule
<1>2. CASE status.state \in PreExecutionStates
  <2>1. /\ rule.postures = FrictionPostures(status.state)
        /\ rule.linked = Never /\ rule.subtypes = {Absent}
    <3>1. CASE status.state = "Denied"
      BY <3>1 DEF rule, RuleOf, PreExecutionRule, Rule, FrictionPostures, ConstrainedStates
    <3>2. CASE status.state = "ReviewRequired"
      BY <3>2 DEF rule, RuleOf, PreExecutionRule, Rule, FrictionPostures, ConstrainedStates
    <3>3. CASE status.state = "WaitingExplicitApproval"
      BY <3>3 DEF rule, RuleOf, PreExecutionRule, Rule, FrictionPostures, ConstrainedStates
    <3> QED
      BY <1>2, <3>1, <3>2, <3>3 DEF PreExecutionStates
  <2>2. FrictionSubtypes(status.state) = {Absent}
    BY <1>2 DEF PreExecutionStates, FrictionSubtypes
  <2>3. status.execution_plan_id = Absent
    BY <1>1, <2>1, Presence
  <2> QED
    BY <1>1, <1>2, <2>1, <2>2, <2>3 DEF PreExecutionStates, ConstrainedStates
<1>3. CASE status.state \in ConstrainedStates
  <2>1. rule.postures = AdmittedPostures /\ rule.linked = Must
    BY <1>3 DEF rule, RuleOf, DegradedRule, PartialSuccessRule, CompletedWithConstraintsRule,
                FailedRule, CanceledRule, Rule, ConstrainedStates
  <2>2. FrictionPostures(status.state) = AdmittedPostures
    BY <1>3 DEF ConstrainedStates, FrictionPostures
  <2>3. status.degraded_subtype \in FrictionSubtypes(status.state)
    <3>1. CASE status.state = "Degraded"
      <4>1. rule.subtypes \subseteq Subtypes
        BY <3>1 DEF rule, RuleOf, DegradedRule, Rule, Subtypes
      <4> QED
        BY <1>1, <3>1, <4>1 DEF FrictionSubtypes
    <3>2. CASE status.state = "PartialSuccess"
      <4>1. rule.subtypes \subseteq Subtypes
        BY <3>2 DEF rule, RuleOf, PartialSuccessRule, Rule, Subtypes, InFlightSubtypes
      <4> QED
        BY <1>1, <3>2, <4>1 DEF FrictionSubtypes
    <3>3. CASE status.state = "CompletedWithConstraints"
      <4>1. rule.subtypes = FallbackSubtypes
        BY <3>3 DEF rule, RuleOf, CompletedWithConstraintsRule, Rule
      <4> QED
        BY <1>1, <3>3, <4>1 DEF FrictionSubtypes
    <3>4. CASE status.state \in {"Failed", "Canceled"}
      <4>1. rule.subtypes = {Absent}
        BY <3>4 DEF rule, RuleOf, FailedRule, CanceledRule, Rule
      <4> QED
        BY <1>1, <3>4, <4>1 DEF FrictionSubtypes
    <3> QED
      BY <1>3, <3>1, <3>2, <3>3, <3>4 DEF ConstrainedStates
  <2>4. status.execution_plan_id # Absent
    BY <1>1, <2>1, Presence
  <2> QED
    BY <1>1, <1>3, <2>1, <2>2, <2>3, <2>4 DEF PreExecutionStates, ConstrainedStates
<1> QED
  BY <1>2, <1>3

(* A payload of a kind can be validated when its posture, state, subtype   *)
(* and links are those of the kind: an action and a number of guards can   *)
(* always be found (FrictionPayload::validate).                            *)
LEMMA KindFits ==
    ASSUME NEW kind \in FrictionKinds, NEW status, NEW plan, NEW packaged
    PROVE  (\/ ValidateFriction(Friction(kind, "Stop", status, "route", plan, packaged, 1))
            \/ ValidateFriction(Friction(kind, "Review", status, "route", plan, packaged, 0))
            \/ ValidateFriction(Friction(kind, "ApproveOrDecline", status, "route", plan,
                                         packaged, 0))
            \/ ValidateFriction(Friction(kind, "Acknowledge", status, "route", plan,
                                         packaged, 0)))
           <=>
           (/\ status.current_posture \in FrictionPostures(status.state)
            /\ status.degraded_subtype \in FrictionSubtypes(status.state)
            /\ status.state \in FrictionRule(kind).states
            /\ (plan # Absent) \in FrictionRule(kind).linked
            /\ packaged \in FrictionRule(kind).package)
<1> DEFINE rule == FrictionRule(kind)
           Fits == /\ status.current_posture \in FrictionPostures(status.state)
                   /\ status.degraded_subtype \in FrictionSubtypes(status.state)
                   /\ status.state \in rule.states
                   /\ (plan # Absent) \in rule.linked
                   /\ packaged \in rule.package
<1>1. ("route" # Absent) \in rule.route
  <2>1. rule.route \in {Must, May}
    BY DEF FrictionRule, FrictionKinds
  <2>2. "route" # Absent
    BY DEF Absent
  <2> QED
    BY <2>1, <2>2, Presence
<1>2. /\ rule.action \in {"Stop", "Review", "ApproveOrDecline", "Acknowledge"}
      /\ (IF rule.action = "Stop" THEN 1 ELSE 0) \in rule.guards
  BY DEF FrictionRule, FrictionKinds, MaxDenialGuards
<1> HIDE DEF rule
<1>3. ASSUME NEW action, NEW guards
      PROVE  ValidateFriction(Friction(kind, action, status, "route", plan, packaged, guards))
               <=> Fits /\ action = rule.action /\ guards \in rule.guards
  BY <1>1 DEF ValidateFriction, Friction, rule
<1> HIDE DEF Fits
<1>4. (\/ ValidateFriction(Friction(kind, "Stop", status, "route", plan, packaged, 1))
       \/ ValidateFriction(Friction(kind, "Review", status, "route", plan, packaged, 0))
       \/ ValidateFriction(Friction(kind, "ApproveOrDecline", status, "route", plan,
                                    packaged, 0))
       \/ ValidateFriction(Friction(kind, "Acknowledge", status, "route", plan,
                                    packaged, 0)))
      <=> Fits
  BY <1>2, <1>3
<1> QED
  BY <1>4 DEF Fits, rule

(* The kinds a held status can be told as, by its state.                   *)
LEMMA TellingKinds ==
    ASSUME NEW status, status.state \in States, Validate(status), PackageInv
    PROVE  /\ status.state \in {"AdmittedNotStarted", "InProgress", "Completed"} =>
                 WaysToTell(status) = {}
           /\ status.state = "Denied" => WaysToTell(status) = {"Denial"}
           /\ status.state = "ReviewRequired" => WaysToTell(status) = {"ReviewRequired"}
           /\ status.state \in ConstrainedStates =>
                 WaysToTell(status) = {"ExecutionConstraint"}
           /\ (/\ status.state = "WaitingExplicitApproval"
               /\ package.current_posture = "ExplicitOperatorApproval"
               /\ package.originating_request_id = status.request_id)
              => WaysToTell(status) = {"ExplicitApprovalRequired"}
<1> DEFINE packaged == /\ status.state = "WaitingExplicitApproval"
                       /\ package # NoPackage
                       /\ package.originating_request_id = status.request_id
           plan == IF packaged THEN package.execution_plan_id ELSE status.execution_plan_id
           Fits(kind) ==
               /\ status.current_posture \in FrictionPostures(status.state)
               /\ status.degraded_subtype \in FrictionSubtypes(status.state)
               /\ status.state \in FrictionRule(kind).states
               /\ (plan # Absent) \in FrictionRule(kind).linked
               /\ packaged \in FrictionRule(kind).package
<1>1. WaysToTell(status) = {kind \in FrictionKinds : Fits(kind)}
  <2> DEFINE Told(kind, action, guards) ==
                 ValidateFriction(Friction(kind, action, status, "route", plan, packaged, guards))
             CanBeTold(kind) == \/ Told(kind, "Stop", 1)
                                \/ Told(kind, "Review", 0)
                                \/ Told(kind, "ApproveOrDecline", 0)
                                \/ Told(kind, "Acknowledge", 0)
  <2>1. WaysToTell(status) = {kind \in FrictionKinds : CanBeTold(kind)}
    BY DEF WaysToTell
  <2> HIDE DEF packaged, plan
  <2>2. ASSUME NEW kind \in FrictionKinds PROVE CanBeTold(kind) <=> Fits(kind)
    BY KindFits
  <2> HIDE DEF CanBeTold, Fits
  <2> QED
    BY <2>1, <2>2
<1>2. packaged \in BOOLEAN
  OBVIOUS
<1>3. status.state # "WaitingExplicitApproval" =>
        packaged = FALSE /\ plan = status.execution_plan_id
  OBVIOUS
<1>4. (/\ package.current_posture = "ExplicitOperatorApproval"
       /\ package.originating_request_id = status.request_id
       /\ status.state = "WaitingExplicitApproval")
      => packaged = TRUE /\ plan # Absent
  <2> SUFFICES ASSUME package.current_posture = "ExplicitOperatorApproval",
                      package.originating_request_id = status.request_id,
                      status.state = "WaitingExplicitApproval"
               PROVE  packaged = TRUE /\ plan # Absent
    OBVIOUS
  <2>1. package # NoPackage
    BY DEF NoPackage, Absent
  <2>2. packaged
    BY <2>1
  <2> QED
    BY <2>2 DEF PackageInv
<1> HIDE DEF packaged, plan
<1>5. /\ FrictionRule("Denial").states = {"Denied"}
      /\ FrictionRule("ReviewRequired").states = {"ReviewRequired"}
      /\ FrictionRule("ExplicitApprovalRequired").states = {"WaitingExplicitApproval"}
      /\ FrictionRule("ExecutionConstraint").states = ConstrainedStates
      /\ FrictionRule("Denial").linked = Never /\ FrictionRule("Denial").package = Never
      /\ FrictionRule("ReviewRequired").linked = Never
      /\ FrictionRule("ReviewRequired").package = Never
      /\ FrictionRule("ExplicitApprovalRequired").linked = Must
      /\ FrictionRule("ExplicitApprovalRequired").package = Must
      /\ FrictionRule("ExecutionConstraint").linked = Must
      /\ FrictionRule("ExecutionConstraint").package = Never
  BY DEF FrictionRule
<1>6. CASE status.state \in {"AdmittedNotStarted", "InProgress", "Completed"}
  <2>1. \A kind \in FrictionKinds : ~Fits(kind)
    BY <1>5, <1>6 DEF FrictionKinds, ConstrainedStates
  <2> HIDE DEF Fits
  <2> QED
    BY <1>1, <1>6, <2>1 DEF ConstrainedStates
<1>7. CASE status.state = "Denied"
  <2>1. Fits("Denial")
    BY <1>2, <1>3, <1>5, <1>7, ContractsAgree, Presence DEF PreExecutionStates
  <2>2. \A kind \in FrictionKinds : kind # "Denial" => ~Fits(kind)
    BY <1>5, <1>7 DEF FrictionKinds, ConstrainedStates
  <2> HIDE DEF Fits
  <2> QED
    BY <1>1, <1>7, <2>1, <2>2 DEF ConstrainedStates, FrictionKinds
<1>8. CASE status.state = "ReviewRequired"
  <2>1. Fits("ReviewRequired")
    BY <1>2, <1>3, <1>5, <1>8, ContractsAgree, Presence DEF PreExecutionStates
  <2>2. \A kind \in FrictionKinds : kind # "ReviewRequired" => ~Fits(kind)
    BY <1>5, <1>8 DEF FrictionKinds, ConstrainedStates
  <2> HIDE DEF Fits
  <2> QED
    BY <1>1, <1>8, <2>1, <2>2 DEF ConstrainedStates, FrictionKinds
<1>9. CASE status.state \in ConstrainedStates
  <2>1. status.state # "WaitingExplicitApproval"
    BY <1>9 DEF ConstrainedStates
  <2>2. Fits("ExecutionConstraint")
    BY <1>2, <1>3, <1>5, <1>9, <2>1, ContractsAgree, Presence
  <2>3. \A kind \in FrictionKinds : kind # "ExecutionConstraint" => ~Fits(kind)
    BY <1>5, <1>9 DEF FrictionKinds, ConstrainedStates
  <2> HIDE DEF Fits
  <2> QED
    BY <1>1, <1>9, <2>2, <2>3 DEF ConstrainedStates, FrictionKinds
<1>10. CASE status.state = "WaitingExplicitApproval"
  <2>1. \A kind \in FrictionKinds : kind # "ExplicitApprovalRequired" => ~Fits(kind)
    BY <1>5, <1>10 DEF FrictionKinds, ConstrainedStates
  <2>2. packaged = TRUE /\ plan # Absent => Fits("ExplicitApprovalRequired")
    BY <1>5, <1>10, ContractsAgree, Presence DEF PreExecutionStates
  <2> HIDE DEF Fits
  <2> QED
    BY <1>1, <1>4, <1>10, <2>1, <2>2 DEF ConstrainedStates, FrictionKinds
<1> QED
  BY <1>6, <1>7, <1>8, <1>9, <1>10 DEF States, PreExecutionStates, FinishedStates,
     ConstrainedStates

(* Whatever a caller holds that is friction can be told to the operator in *)
(* exactly one way, and what is none in none: the tables of                *)
(* FrictionPayload::validate agree with those of ExecutionStatus::validate.*)
THEOREM FrictionCanAlwaysBeTold == Spec => []FrictionCanBeTold
<1>1. CoordinationInv => FrictionCanBeTold
  <2> SUFFICES ASSUME HeldInv, PackageInv, NEW status \in held
               PROVE  \/ Cardinality(WaysToTell(status)) =
                            IF status.state \in {"AdmittedNotStarted", "InProgress", "Completed"}
                            THEN 0 ELSE 1
                      \/ /\ status.state = "WaitingExplicitApproval"
                         /\ \/ package.current_posture # "ExplicitOperatorApproval"
                            \/ package.originating_request_id # status.request_id
    BY DEF CoordinationInv, FrictionCanBeTold
  <2>1. status.state \in States /\ Validate(status)
    BY DEF HeldInv
  <2>2. CASE status.state \in {"AdmittedNotStarted", "InProgress", "Completed"}
    <3>1. WaysToTell(status) = {}
      BY <2>1, <2>2, TellingKinds
    <3> QED
      BY <2>2, <3>1, FS_EmptySet
  <2>3. CASE status.state \notin {"AdmittedNotStarted", "InProgress", "Completed"}
    <3> SUFFICES ASSUME \/ status.state # "WaitingExplicitApproval"
                        \/ /\ package.current_posture = "ExplicitOperatorApproval"
                           /\ package.originating_request_id = status.request_id
                 PROVE  Cardinality(WaysToTell(status)) = 1
      BY <2>3
    <3>1. \/ status.state \in {"Denied", "ReviewRequired", "WaitingExplicitApproval"}
          \/ status.state \in ConstrainedStates
      BY <2>1, <2>3 DEF States, PreExecutionStates, FinishedStates, ConstrainedStates
    <3>2. \E kind : WaysToTell(status) = {kind}
      BY <2>1, <3>1, TellingKinds
    <3> QED
      BY <3>2, FS_Singleton
  <2> QED
    BY <2>2, <2>3
<1> QED
  BY <1>1, CoordinationInvariance, PTL
=============================================================================
