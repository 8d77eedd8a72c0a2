--------------------------- MODULE MCCoordination ---------------------------
(***************************************************************************)
(* Two requests of one correlation, with decisions of every posture, one   *)
(* whose flags disagree with its posture and two whose summary is too long *)
(* or empty; two plans of the first request, one without the requested     *)
(* capability, and one plan of the second.                                 *)
(***************************************************************************)
EXTENDS Coordination

Decision(id, request, posture, summary, subtype) ==
    [route_decision_id |-> id, request_id |-> request, correlation_id |-> "c1",
     resolved_approval_posture |-> posture,
     execution_allowed |-> posture \in {"PolicyPreapproved", "ExecuteAllowed"},
     review_required |-> posture = "ReviewRequired",
     explicit_approval_required |-> posture = "ExplicitOperatorApproval",
     requested_capability_id |-> "read", operator_visible_summary |-> summary,
     degraded_subtype |-> subtype]

MCDecisions ==
    {Decision("denied", "r1", "Denied", "plain", "None"),
     Decision("denied2", "r1", "Denied", "long", "None"),
     Decision("denied3", "r1", "Denied", "empty", "None"),
     Decision("review", "r1", "ReviewRequired", "plain", "None"),
     Decision("explicit1", "r1", "ExplicitOperatorApproval", "plain", "None"),
     Decision("explicit2", "r2", "ExplicitOperatorApproval", "plain",
              "DegradedFallbackLimited"),
     Decision("explicit3", "r1", "ExplicitOperatorApproval", "plain", "DegradedPreStart"),
     Decision("preapproved", "r1", "PolicyPreapproved", "plain", "None"),
     Decision("allowed", "r2", "ExecuteAllowed", "plain", "None"),
     [Decision("odd", "r1", "PolicyPreapproved", "plain", "None")
        EXCEPT !.review_required = TRUE]}

Plan(id, request, steps, capabilities) ==
    [execution_plan_id |-> id, originating_request_id |-> request,
     correlation_id |-> "c1", steps |-> steps, capabilities |-> capabilities]

MCPlans == {Plan("p1", "r1", <<"s1", "s2">>, {"read"}),
            Plan("p2", "r2", <<"s2">>, {"read"}),
            Plan("p3", "r1", <<"s1">>, {"write"})}

MCContexts == [coordinated : {2}, started : {1, 2}, completed : {1, 2}]

MCOptionLists == {<<"ApproveExecute", "DeclineRequest">>,
                  <<"DeferWithoutExecution", "DeclineRequest">>,
                  <<"ApproveExecute", "DeclineRequest", "ApproveExecute">>}

(* Statuses from documents: every state with every choice of the fields    *)
(* that its rule speaks of.                                                *)
MCLoadedStatuses ==
    {[request_id |-> "r1", correlation_id |-> "c1", execution_plan_id |-> link[1],
      stable_plan_hash |-> link[2], current_posture |-> posture, state |-> state,
      degraded_subtype |-> subtype, started_at_utc |-> started, updated_at_utc |-> 1,
      completed_at_utc |-> completed, current_step |-> step,
      completion_summary |-> completion, failure_summary |-> failure,
      truthful_user_visible_summary |-> "plain"] :
        link \in {<<"None", "None">>, <<"p1", "p1">>, <<"p1", "None">>},
        posture \in {"ExplicitOperatorApproval", "PolicyPreapproved"},
        state \in States,
        subtype \in {"None", "DegradedPreStart", "DegradedFallbackLimited",
                     "DegradedPartial"},
        started \in {0, 1}, completed \in {0, 1}, step \in {"None", "s1"},
        completion \in {"None", "plain"}, failure \in {"None", "plain"}}
=============================================================================
