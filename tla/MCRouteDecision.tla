--------------------------- MODULE MCRouteDecision ---------------------------
(* Inputs for the resolution: every combination of the six posture         *)
(* factors, and around an admissible request every single flaw of each     *)
(* input, combined with every flaw of the others.                          *)
EXTENDS RouteDecision

MCRequests ==
    {[loads |-> TRUE, registry_loads |-> TRUE, side_effect |-> c] : c \in SideEffectClasses}
    \cup {[loads |-> l, registry_loads |-> ~l, side_effect |-> "None"] : l \in BOOLEAN}

NoError == [narrow |-> 0, wide |-> 0]

(* "schema validation failed for ...", cut inside a two-byte character, at *)
(* one, before the first, and not at all.                                  *)
Errors == {[narrow |-> n, wide |-> w] : n \in {60, 61, 130}, w \in {0, 120}}

GoodEnvelope ==
    [form |-> "valid", error |-> NoError, requester_class |-> "TrustedAppSurface",
     same_requester |-> TRUE, same_environment |-> TRUE, window_valid |-> TRUE,
     token_valid |-> TRUE, expired |-> FALSE, user_intent |-> "ExplicitUserAction"]

MCEnvelopes ==
    {[GoodEnvelope EXCEPT !.user_intent = u] : u \in UserIntents}
    \cup {[GoodEnvelope EXCEPT !.form = f] : f \in {"not_an_object", "no_trust_basis"}}
    \cup {[GoodEnvelope EXCEPT !.form = "invalid", !.error = e] : e \in Errors}
    \cup {[GoodEnvelope EXCEPT !.requester_class = "UntrustedUnknown"],
          [GoodEnvelope EXCEPT !.same_requester = FALSE],
          [GoodEnvelope EXCEPT !.same_environment = FALSE],
          [GoodEnvelope EXCEPT !.window_valid = FALSE],
          [GoodEnvelope EXCEPT !.token_valid = FALSE],
          [GoodEnvelope EXCEPT !.expired = TRUE]}

GoodRule ==
    [present |-> TRUE, allowed |-> TRUE, class_allowed |-> TRUE,
     side_effect_allowed |-> TRUE, required_approval_posture |-> "ExecuteAllowed"]

GoodPolicy ==
    [loads |-> TRUE, error |-> NoError, service_scope |-> TRUE, environment |-> TRUE,
     capability_rule |-> GoodRule, max_posture |-> "ExecuteAllowed",
     side_effect_rule |-> "allowed"]

MCPolicies ==
    {[GoodPolicy EXCEPT !.max_posture = m,
                        !.capability_rule.required_approval_posture = q] :
        m \in Postures, q \in Postures}
    \cup {[GoodPolicy EXCEPT !.loads = FALSE, !.error = e] :
            e \in {[narrow |-> 60, wide |-> 0], [narrow |-> 61, wide |-> 120]}}
    \cup {[GoodPolicy EXCEPT !.side_effect_rule = r] : r \in {"denied", "no rule"}}
    \cup {[GoodPolicy EXCEPT !.service_scope = FALSE],
          [GoodPolicy EXCEPT !.environment = FALSE],
          [GoodPolicy EXCEPT !.max_posture = "no rule"],
          [GoodPolicy EXCEPT !.capability_rule.present = FALSE],
          [GoodPolicy EXCEPT !.capability_rule.allowed = FALSE],
          [GoodPolicy EXCEPT !.capability_rule.class_allowed = FALSE],
          [GoodPolicy EXCEPT !.capability_rule.side_effect_allowed = FALSE]}

GoodRecord ==
    [present |-> TRUE, enabled |-> TRUE, revocation_state |-> "Active", owned |-> TRUE,
     class_allowed |-> TRUE, same_side_effect |-> TRUE,
     approval_posture |-> "ExecuteAllowed", review_class |-> "None"]

MCRecords ==
    {[GoodRecord EXCEPT !.approval_posture = p] : p \in Postures}
    \cup {[GoodRecord EXCEPT !.revocation_state = r] : r \in {"Disabled", "Revoked"}}
    \cup {[GoodRecord EXCEPT !.present = FALSE],
          [GoodRecord EXCEPT !.enabled = FALSE],
          [GoodRecord EXCEPT !.owned = FALSE],
          [GoodRecord EXCEPT !.class_allowed = FALSE],
          [GoodRecord EXCEPT !.same_side_effect = FALSE],
          [GoodRecord EXCEPT !.review_class = "Operator"]}
=============================================================================
