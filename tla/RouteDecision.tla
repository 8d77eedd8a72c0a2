---------------------------- MODULE RouteDecision ----------------------------
(***************************************************************************)
(* The resolution of one execution request into a route decision:          *)
(* DecisionService::resolve_route_decision with RequesterTrustEngine,      *)
(* PolicyArtifactLoader, CapabilityRegistryLoader::admit_execution_request *)
(* and ApprovalPostureResolver.                                            *)
(*                                                                         *)
(* Trust, policy and capability admission are judged in that order.  Each  *)
(* failure is kept as a denial; consistency is checked only when all three *)
(* succeed; only a request without any denial gets a posture, the most     *)
(* restrictive of six factors.                                             *)
(*                                                                         *)
(* An input is a record of what the checks read of it.  A comparison of    *)
(* two inputs (same requester, same environment, ...) is one field, and a  *)
(* rule list is represented by its first match for the request.            *)
(***************************************************************************)
EXTENDS Integers, Sequences

CONSTANTS
    Requests,   \* the execution requests that may arrive
    Envelopes,  \* the requester trust envelopes that may come with them
    Policies,   \* the policy artifacts that may be in force
    Records     \* the registry's possible records of the capability

Postures == {"Denied", "ReviewRequired", "ExplicitOperatorApproval",
             "PolicyPreapproved", "ExecuteAllowed"}

SideEffectClasses == {"None", "LocalFileWrite", "LocalDbMutation",
                      "LocalProcessSpawn", "OtherGoverned",
                      "ExternalNetworkDeniedByDefault"}

RequesterClasses == {"TrustedAppSurface", "TrustedInternalService",
                     "ReviewSurface", "DevelopmentTestSurface",
                     "UntrustedUnknown"}

UserIntents == {"none", "ExplicitUserAction", "OperatorApproval"}

(* A text: one-byte characters followed by two-byte characters.            *)
Text == [narrow : Nat, wide : Nat]

RequestShape ==
    [loads : BOOLEAN, registry_loads : BOOLEAN, side_effect : SideEffectClasses]

EnvelopeShape ==
    [form : {"valid", "not_an_object", "no_trust_basis", "invalid"},
     error : Text,
     requester_class : RequesterClasses,
     same_requester : BOOLEAN,
     same_environment : BOOLEAN,
     window_valid : BOOLEAN,
     token_valid : BOOLEAN,
     expired : BOOLEAN,
     user_intent : UserIntents]

CapabilityRules ==
    [present : BOOLEAN, allowed : BOOLEAN, class_allowed : BOOLEAN,
     side_effect_allowed : BOOLEAN, required_approval_posture : Postures]

PolicyShape ==
    [loads : BOOLEAN,
     error : Text,
     service_scope : BOOLEAN,
     environment : BOOLEAN,
     capability_rule : CapabilityRules,
     max_posture : Postures \cup {"no rule"},
     side_effect_rule : {"allowed", "denied", "no rule"}]

RecordShape ==
    [present : BOOLEAN,
     enabled : BOOLEAN,
     revocation_state : {"Active", "Disabled", "Revoked"},
     owned : BOOLEAN,
     class_allowed : BOOLEAN,
     same_side_effect : BOOLEAN,
     approval_posture : Postures,
     review_class : {"None", "Operator"}]

ASSUME InputAssumption ==
    /\ Requests \subseteq RequestShape
    /\ Envelopes \subseteq EnvelopeShape
    /\ Policies \subseteq PolicyShape
    /\ Records \subseteq RecordShape

-----------------------------------------------------------------------------
VARIABLES
    request, envelope, policy, record,  \* the inputs of this resolution
    pc,        \* the stage of the resolution, or how it ended
    denials,   \* local vector `denials`, by the check that pushed it
    admitted,  \* trust, policy and capability are all Ok so far
    decision   \* the route decision, once resolved

inputs == <<request, envelope, policy, record>>

vars == <<inputs, pc, denials, admitted, decision>>

Stages == {"load", "trust", "policy", "admit", "consistency", "resolve"}

(* How a resolution ends: with a decision, with an error of the inputs     *)
(* that are not judged, or with a panic.                                   *)
Ends == {"decided", "error", "panicked"}

NoDecision == [posture |-> "none", execution_allowed |-> FALSE,
               review_required |-> FALSE, explicit_approval_required |-> FALSE,
               summary |-> [narrow |-> 0, wide |-> 0]]

Decisions ==
    [posture : Postures \cup {"none"}, execution_allowed : BOOLEAN,
     review_required : BOOLEAN, explicit_approval_required : BOOLEAN,
     summary : Text]

Denials == {"not_an_object", "no_trust_basis", "invalid_envelope",
            "unknown_requester", "environment_mismatch", "invalid_window",
            "invalid_token", "expired", "invalid_policy", "prerequisite",
            "unregistered", "disabled", "revoked", "not_owned",
            "class_not_admitted", "side_effect_mismatch", "no_capability_rule",
            "capability_denied", "environment_not_admitted",
            "class_not_allowed", "side_effect_not_allowed",
            "requester_mismatch", "service_scope", "no_approval_rule",
            "side_effect_denied", "posture_denied"}

(* Every variable has its type.                                            *)
TypeOK ==
    /\ request \in Requests
    /\ envelope \in Envelopes
    /\ policy \in Policies
    /\ record \in Records
    /\ pc \in Stages \cup Ends
    /\ denials \in Seq(Denials)
    /\ admitted \in BOOLEAN
    /\ decision \in Decisions

Init ==
    /\ request \in Requests
    /\ envelope \in Envelopes
    /\ policy \in Policies
    /\ record \in Records
    /\ pc = "load"
    /\ denials = <<>>
    /\ admitted = TRUE
    /\ decision = NoDecision

-----------------------------------------------------------------------------
(* The first check of a list that does not hold, as the early returns of   *)
(* the code find it; a check is a pair of its condition and its denial.    *)
Failing(checks) ==
    {checks[i].denial : i \in {j \in DOMAIN checks :
        ~checks[j].holds /\ \A k \in 1..(j - 1) : checks[k].holds}}

Check(holds, denial) == [holds |-> holds, denial |-> denial]

(* A malformed registry or request is an error, not a denial.              *)
Load ==
    /\ pc = "load"
    /\ pc' = IF request.registry_loads /\ request.loads THEN "trust" ELSE "error"
    /\ UNCHANGED <<inputs, denials, admitted, decision>>

(* A plausible slip: a later denial is put before the earlier ones.        *)
BugJudge(stage, next, failing) ==
    /\ pc = stage
    /\ pc' = next
    /\ \/ /\ failing = {}
          /\ UNCHANGED <<denials, admitted>>
       \/ /\ \E d \in failing : denials' = <<d>> \o denials
          /\ admitted' = FALSE
    /\ UNCHANGED <<inputs, decision>>

(* One stage of the resolution: go on to the next, keeping what was denied.*)
Judge(stage, next, failing) ==
    /\ pc = stage
    /\ pc' = next
    /\ \/ /\ failing = {}
          /\ UNCHANGED <<denials, admitted>>
       \/ /\ \E d \in failing : denials' = Append(denials, d)
          /\ admitted' = FALSE
    /\ UNCHANGED <<inputs, decision>>

(* RequesterTrustEngine::load_and_evaluate                                 *)
TrustChecks ==
    << Check(envelope.form # "not_an_object", "not_an_object"),
       Check(envelope.form # "no_trust_basis", "no_trust_basis"),
       Check(envelope.form # "invalid", "invalid_envelope"),
       Check(envelope.requester_class # "UntrustedUnknown", "unknown_requester"),
       Check(envelope.same_environment, "environment_mismatch"),
       Check(envelope.window_valid, "invalid_window"),
       Check(envelope.token_valid, "invalid_token"),
       Check(~envelope.expired, "expired") >>

EvaluateTrust == Judge("trust", "policy", Failing(TrustChecks))

(* PolicyArtifactLoader::load_required_value                               *)
LoadPolicy ==
    Judge("policy", "admit", Failing(<<Check(policy.loads, "invalid_policy")>>))

(* CapabilityRegistryLoader::admit_execution_request                       *)
AdmissionChecks ==
    << Check(record.present, "unregistered"),
       Check(record.enabled, "disabled"),
       Check(record.revocation_state # "Revoked", "revoked"),
       Check(record.owned, "not_owned"),
       Check(record.class_allowed, "class_not_admitted"),
       Check(record.same_side_effect, "side_effect_mismatch"),
       Check(policy.capability_rule.present, "no_capability_rule"),
       Check(policy.capability_rule.allowed, "capability_denied"),
       Check(policy.environment, "environment_not_admitted"),
       Check(policy.capability_rule.class_allowed, "class_not_allowed"),
       Check(policy.capability_rule.side_effect_allowed, "side_effect_not_allowed") >>

(* Without a trusted requester and a policy the capability is not even     *)
(* looked up.                                                              *)
AdmitCapability ==
    Judge("admit", "consistency",
          IF admitted THEN Failing(AdmissionChecks) ELSE {"prerequisite"})

(* One check of validate_consistency, which pushes and goes on.            *)
Push(holds, denial) == IF holds THEN <<>> ELSE <<denial>>

(* A plausible slip: nobody checks that the requester has a rule.          *)
BugConsistencyDenials ==
    Push(envelope.same_requester, "requester_mismatch")
        \o Push(policy.service_scope, "service_scope")
        \o Push(policy.side_effect_rule = "allowed", "side_effect_denied")

(* validate_consistency pushes every failing check, not just the first.    *)
ConsistencyDenials ==
    Push(envelope.same_requester, "requester_mismatch")
        \o Push(envelope.same_environment, "environment_mismatch")
        \o Push(policy.service_scope, "service_scope")
        \o Push(policy.environment, "environment_not_admitted")
        \o Push(record.owned, "not_owned")
        \o Push(record.same_side_effect, "side_effect_mismatch")
        \o Push(policy.capability_rule.present, "no_capability_rule")
        \o Push(policy.max_posture # "no rule", "no_approval_rule")
        \o Push(policy.side_effect_rule = "allowed", "side_effect_denied")

ValidateConsistency ==
    /\ pc = "consistency"
    /\ pc' = "resolve"
    /\ denials' = IF admitted THEN denials \o ConsistencyDenials ELSE denials
    /\ UNCHANGED <<inputs, admitted, decision>>

-----------------------------------------------------------------------------
(* The posture and the decision.                                           *)

Rank(posture) ==
    CASE posture = "Denied" -> 0
      [] posture = "ReviewRequired" -> 1
      [] posture = "ExplicitOperatorApproval" -> 2
      [] posture = "PolicyPreapproved" -> 3
      [] posture = "ExecuteAllowed" -> 4

SideEffectMinimum(c) ==
    CASE c = "None" -> "ExecuteAllowed"
      [] c \in {"LocalFileWrite", "LocalDbMutation"} -> "PolicyPreapproved"
      [] c \in {"LocalProcessSpawn", "OtherGoverned"} -> "ExplicitOperatorApproval"
      [] c = "ExternalNetworkDeniedByDefault" -> "Denied"

ReviewClassMinimum(c) ==
    IF c = "None" THEN "ExecuteAllowed" ELSE "ExplicitOperatorApproval"

(* A plausible slip: a requester without user intent is not held back.     *)
BugUserIntentMinimum(b) == "ExecuteAllowed"

UserIntentMinimum(b) ==
    IF b = "none" THEN "ReviewRequired" ELSE "ExecuteAllowed"

Factors ==
    {policy.max_posture,
     policy.capability_rule.required_approval_posture,
     record.approval_posture,
     ReviewClassMinimum(record.review_class),
     SideEffectMinimum(request.side_effect),
     UserIntentMinimum(envelope.user_intent)}

MostRestrictive(F) == CHOOSE p \in F : \A q \in F : Rank(p) <= Rank(q)

(* The text of a denial.  Only the two that quote a validator's error can  *)
(* be long or hold two-byte characters; the longest of the others has 78.  *)
DenialText(d) ==
    CASE d = "invalid_envelope" ->
           [narrow |-> 30 + envelope.error.narrow, wide |-> envelope.error.wide]
      [] d = "invalid_policy" ->
           [narrow |-> 25 + policy.error.narrow, wide |-> policy.error.wide]
      [] OTHER -> [narrow |-> 78, wide |-> 0]

MaxSummaryChars == 160

Shorter(m, n) == IF m <= n THEN m ELSE n

(* bounded_summary cuts to 160 characters and then, to make room for the   *)
(* dots, to 157 bytes.                                                     *)
TooLong(t) == t.narrow + t.wide > MaxSummaryChars

KeptNarrow(t) == Shorter(t.narrow, MaxSummaryChars - 3)

SplitsCharacter(t) == TooLong(t) /\ (MaxSummaryChars - 3 - KeptNarrow(t)) % 2 = 1

BoundedSummary(t) ==
    IF TooLong(t)
    THEN [narrow |-> KeptNarrow(t) + 3,
          wide |-> (MaxSummaryChars - 3 - KeptNarrow(t)) \div 2]
    ELSE t

Decision(posture, text) ==
    [posture |-> posture,
     execution_allowed |-> posture \in {"PolicyPreapproved", "ExecuteAllowed"},
     review_required |-> posture = "ReviewRequired",
     explicit_approval_required |-> posture = "ExplicitOperatorApproval",
     summary |-> BoundedSummary(text)]

(* denied_decision: "request denied: " and the first denial's text.        *)
DenyWith(guards) ==
    LET first == DenialText(guards[1])
        text == [first EXCEPT !.narrow = @ + 16]
    IN  /\ denials' = guards
        /\ \/ /\ SplitsCharacter(text)
              /\ pc' = "panicked"
              /\ UNCHANGED decision
           \/ /\ ~SplitsCharacter(text)
              /\ pc' = "decided"
              /\ decision' = Decision("Denied", text)

ResolveDenied ==
    /\ pc = "resolve"
    /\ denials # <<>>
    /\ DenyWith(denials)
    /\ UNCHANGED <<inputs, admitted>>

(* The code takes both rules with expect(): without them it goes nowhere.  *)
RulesPresent == policy.capability_rule.present /\ policy.max_posture # "no rule"

ResolvePosture ==
    /\ pc = "resolve"
    /\ denials = <<>>
    /\ RulesPresent
    /\ LET posture == MostRestrictive(Factors)
       IN  \/ /\ posture = "Denied"
              /\ DenyWith(<<"posture_denied">>)
           \/ /\ posture # "Denied"
              /\ pc' = "decided"
              /\ decision' = Decision(posture, [narrow |-> 95, wide |-> 0])
              /\ UNCHANGED denials
    /\ UNCHANGED <<inputs, admitted>>

Next ==
    \/ Load
    \/ EvaluateTrust
    \/ LoadPolicy
    \/ AdmitCapability
    \/ ValidateConsistency
    \/ ResolveDenied
    \/ ResolvePosture

(* The resolution is one sequential call without waiting.                  *)
Spec == Init /\ [][Next]_vars

-----------------------------------------------------------------------------
(* Properties.                                                             *)

(* Execution is allowed only to a request that every party admits: a       *)
(* known, live requester with user intent, a policy in scope whose rules   *)
(* for capability, requester and side effect all allow it without an       *)
(* operator, and an enabled, owned, unreviewed capability of the same side *)
(* effect class (resolve_route_decision as a whole: no early return, first *)
(* match or missing rule lets a request slip past a later check).          *)
AdmissionIsEarned ==
    pc = "decided" /\ decision.execution_allowed =>
        /\ request.loads /\ request.registry_loads
        /\ envelope.form = "valid"
        /\ envelope.requester_class # "UntrustedUnknown"
        /\ envelope.same_requester /\ envelope.same_environment
        /\ envelope.window_valid /\ envelope.token_valid /\ ~envelope.expired
        /\ envelope.user_intent # "none"
        /\ policy.loads /\ policy.service_scope /\ policy.environment
        /\ policy.capability_rule.present /\ policy.capability_rule.allowed
        /\ policy.capability_rule.class_allowed
        /\ policy.capability_rule.side_effect_allowed
        /\ policy.side_effect_rule = "allowed"
        /\ record.present /\ record.enabled /\ record.owned
        /\ record.revocation_state # "Revoked"
        /\ record.class_allowed /\ record.same_side_effect
        /\ record.review_class = "None"
        /\ request.side_effect \in {"None", "LocalFileWrite", "LocalDbMutation"}
        /\ {policy.max_posture, record.approval_posture,
            policy.capability_rule.required_approval_posture}
              \subseteq {"PolicyPreapproved", "ExecuteAllowed"}

(* A decision is a denial exactly when it carries denials, and the first   *)
(* of them, the one the operator reads, names a cause: never the follow-up *)
(* denial that capability admission had no requester or policy             *)
(* (first_denial_summary over the order of the pushes).                    *)
DenialIsExplained ==
    pc = "decided" =>
        /\ decision.posture = "Denied" <=> denials # <<>>
        /\ denials # <<>> => denials[1] # "prerequisite"

(* The two expect() calls of the resolver are safe: a request without      *)
(* denials has both rules, although one is looked up by capability         *)
(* admission and both again by validate_consistency.                       *)
RulesAreThere == pc = "resolve" /\ denials = <<>> => RulesPresent

-----------------------------------------------------------------------------
(* What documents of the code say and the code does not do.                *)

(* "A failing requester-trust or policy evaluation instead folds into the  *)
(* resolved RouteDecision as a truthful Denied posture": an envelope or a  *)
(* policy that does not load is a denial.                                  *)
FailureFoldsIntoDenial ==
    pc \in Ends \ {"error"} /\ (envelope.form # "valid" \/ ~policy.loads) =>
        pc = "decided" /\ decision.posture = "Denied"
=============================================================================
