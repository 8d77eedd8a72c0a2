--------------------------- MODULE AdmissionProofs ---------------------------
(***************************************************************************)
(* Proofs about the two decisions that precede a delivery: RouteDecision,  *)
(* for every request, trust envelope, policy and capability record, and    *)
(* PlanValidation, for plans of every length, every plan that was signed   *)
(* and every width of the integers.  The two modules share no variable.    *)
(***************************************************************************)
EXTENDS RouteDecision, PlanValidation, TLAPS, SequenceTheorems, WellFoundedInduction

(* Every non-empty set of naturals has a least element: the induction the  *)
(* lemmas about chains of checks and sums of budgets use.                  *)
LEMMA LeastOf ==
    ASSUME NEW T, T \subseteq Nat, T # {}
    PROVE  \E x \in T : \A y \in T : x <= y
<1>1. PICK x \in T : \A y \in T : ~(<<y, x>> \in OpToRel(<, Nat))
  BY NatLessThanWellFounded, WFMin
<1>2. \A y \in T : x <= y
  <2>1. SUFFICES ASSUME NEW y \in T, ~(x <= y) PROVE FALSE
    OBVIOUS
  <2>2. y \in Nat /\ x \in Nat /\ y < x
    BY <2>1
  <2>3. <<y, x>> \in OpToRel(<, Nat)
    BY <2>2 DEF OpToRel
  <2> QED
    BY <1>1, <2>3
<1> QED
  BY <1>2

-----------------------------------------------------------------------------
(* Route decision: the invariant.                                          *)

(* What each party admits, as one conjunction per list of checks.          *)
Trusted ==
    /\ envelope.form = "valid"
    /\ envelope.requester_class # "UntrustedUnknown"
    /\ envelope.same_environment /\ envelope.window_valid
    /\ envelope.token_valid /\ ~envelope.expired

Admissible ==
    /\ record.present /\ record.enabled /\ record.owned
    /\ record.revocation_state # "Revoked"
    /\ record.class_allowed /\ record.same_side_effect
    /\ policy.capability_rule.present /\ policy.capability_rule.allowed
    /\ policy.environment
    /\ policy.capability_rule.class_allowed
    /\ policy.capability_rule.side_effect_allowed

Consistent ==
    /\ envelope.same_requester /\ policy.service_scope
    /\ policy.max_posture # "no rule"
    /\ policy.side_effect_rule = "allowed"

(* The denials that name a cause of their own.                             *)
Causes == Denials \ {"prerequisite"}

(* `admitted` and the vector of denials say the same until the consistency *)
(* is checked, and the first denial is a cause.                            *)
DenialInv ==
    /\ pc \in {"load", "trust"} => denials = <<>> /\ admitted
    /\ pc \in {"policy", "admit", "consistency"} => (admitted <=> denials = <<>>)
    /\ pc = "resolve" /\ denials = <<>> => admitted
    /\ denials # <<>> => denials[1] # "prerequisite"

(* As long as nothing is denied, each stage that is over has admitted.     *)
StageInv ==
    /\ pc \notin {"load", "error"} => request.loads /\ request.registry_loads
    /\ admitted /\ pc \notin {"load", "error", "trust"} => Trusted
    /\ admitted /\ pc \notin {"load", "error", "trust", "policy"} => policy.loads
    /\ admitted /\ pc \in {"consistency", "resolve", "decided", "panicked"} => Admissible
    /\ pc \in {"resolve", "decided"} /\ denials = <<>> => Consistent

(* A decision without a denial is the one of the six factors.              *)
DecisionInv ==
    pc = "decided" =>
        \/ /\ denials # <<>>
           /\ decision.posture = "Denied" /\ ~decision.execution_allowed
        \/ /\ denials = <<>> /\ admitted
           /\ decision.posture = MostRestrictive(Factors)
           /\ decision.posture # "Denied"
           /\ decision.execution_allowed <=>
                 decision.posture \in {"PolicyPreapproved", "ExecuteAllowed"}

IInv == TypeOK /\ DenialInv /\ StageInv /\ DecisionInv

-----------------------------------------------------------------------------
(* Lemmas about the operators.                                             *)

(* Early returns: when no check of a list is the first to fail, every      *)
(* check of it holds (load_and_evaluate, admit_execution_request).         *)
LEMMA NoneFailing ==
    ASSUME NEW checks, NEW n \in Nat, DOMAIN checks = 1..n, Failing(checks) = {}
    PROVE  \A i \in 1..n : checks[i].holds
<1> DEFINE T == {j \in 1..n : ~checks[j].holds}
<1>1. SUFFICES ASSUME T # {} PROVE FALSE
  OBVIOUS
<1>2. PICK x \in T : \A y \in T : x <= y
  <2>1. T \subseteq Nat
    OBVIOUS
  <2> HIDE DEF T
  <2> QED
    BY <1>1, <2>1, LeastOf
<1>3. \A k \in 1..(x - 1) : checks[k].holds
  <2> SUFFICES ASSUME NEW k \in 1..(x - 1), ~checks[k].holds PROVE FALSE
    OBVIOUS
  <2>1. k \in T /\ k < x
    OBVIOUS
  <2> QED
    BY <1>2, <2>1
<1>4. checks[x].denial \in Failing(checks)
  BY <1>3 DEF Failing
<1> QED
  BY <1>4

(* What a list of checks denies is the denial of one of them.              *)
LEMMA FailingIsOneOf ==
    ASSUME NEW checks, NEW D, \A i \in DOMAIN checks : checks[i].denial \in D
    PROVE  Failing(checks) \subseteq D
BY DEF Failing

(* Pushing keeps the kind of the denials, and nothing is pushed exactly    *)
(* when nothing was before and the check holds (validate_consistency).     *)
LEMMA PushOne ==
    ASSUME NEW s \in Seq(Causes), NEW holds \in BOOLEAN, NEW d \in Causes
    PROVE  /\ s \o Push(holds, d) \in Seq(Causes)
           /\ s \o Push(holds, d) = <<>> => s = <<>> /\ holds
<1>1. Push(holds, d) \in Seq(Causes)
  BY DEF Push
<1>2. Len(Push(holds, d)) = IF holds THEN 0 ELSE 1
  BY DEF Push
<1>3. s \o Push(holds, d) \in Seq(Causes)
      /\ Len(s \o Push(holds, d)) = Len(s) + Len(Push(holds, d))
  BY <1>1, ConcatProperties
<1>4. ASSUME s \o Push(holds, d) = <<>> PROVE s = <<>> /\ holds
  <2>1. Len(s) + Len(Push(holds, d)) = 0
    BY <1>3, <1>4, EmptySeq
  <2>2. Len(s) \in Nat /\ (s # <<>> => Len(s) \in Nat \ {0})
    BY EmptySeq, LenProperties
  <2> QED
    BY <1>2, <2>1, <2>2
<1> QED
  BY <1>3, <1>4

(* Every non-empty set of postures has a most restrictive one, so the      *)
(* resolver's minimum over the factors is a factor below all others        *)
(* (posture_rank).                                                         *)
LEMMA MostRestrictiveIsLeast ==
    ASSUME NEW F, F \subseteq Postures, F # {}
    PROVE  /\ MostRestrictive(F) \in F
           /\ \A q \in F : Rank(MostRestrictive(F)) <= Rank(q)
<1>1. \E p \in F : \A q \in F : Rank(p) <= Rank(q)
  <2>1. CASE "Denied" \in F
    BY <2>1 DEF Postures, Rank
  <2>2. CASE "Denied" \notin F /\ "ReviewRequired" \in F
    BY <2>2 DEF Postures, Rank
  <2>3. CASE "Denied" \notin F /\ "ReviewRequired" \notin F
             /\ "ExplicitOperatorApproval" \in F
    BY <2>3 DEF Postures, Rank
  <2>4. CASE F \subseteq {"PolicyPreapproved", "ExecuteAllowed"}
    BY <2>4 DEF Postures, Rank
  <2> QED
    BY <2>1, <2>2, <2>3, <2>4 DEF Postures
<1> QED
  BY <1>1 DEF MostRestrictive

(* Which checks the trust stage and capability admission make, and that    *)
(* they deny for causes of their own.                                      *)
LEMMA TrustDecides ==
    ASSUME TypeOK
    PROVE  /\ Failing(TrustChecks) \subseteq Causes
           /\ Failing(TrustChecks) = {} => Trusted
<1> DEFINE c == TrustChecks
<1>1. DOMAIN c = 1..8
  BY DEF TrustChecks
<1>2. \A i \in DOMAIN c : c[i].denial \in Causes
  BY DEF TrustChecks, Check, Causes, Denials
<1>3. ASSUME Failing(c) = {} PROVE Trusted
  <2>1. \A i \in 1..8 : c[i].holds
    <3> HIDE DEF c
    <3> QED
      BY <1>1, <1>3, NoneFailing
  <2>2. envelope.form \in {"valid", "not_an_object", "no_trust_basis", "invalid"}
    BY InputAssumption DEF TypeOK, EnvelopeShape
  <2>3. c[1].holds /\ c[2].holds /\ c[3].holds /\ c[4].holds /\ c[5].holds
        /\ c[6].holds /\ c[7].holds /\ c[8].holds
    BY <2>1
  <2> QED
    BY <2>2, <2>3 DEF TrustChecks, Check, Trusted
<1>4. Failing(c) \subseteq Causes
  <2> HIDE DEF c
  <2> QED
    BY <1>2, FailingIsOneOf
<1> QED
  BY <1>3, <1>4

(* The same for the policy: it loads or it is the cause.                   *)
LEMMA PolicyDecides ==
    /\ Failing(<<Check(policy.loads, "invalid_policy")>>) \subseteq Causes
    /\ Failing(<<Check(policy.loads, "invalid_policy")>>) = {} => policy.loads
<1> DEFINE c == <<Check(policy.loads, "invalid_policy")>>
<1>1. DOMAIN c = 1..1
  OBVIOUS
<1>2. \A i \in DOMAIN c : c[i].denial \in Causes
  BY DEF Check, Causes, Denials
<1>3. c[1].holds = policy.loads
  BY DEF Check
<1> HIDE DEF c
<1>4. Failing(c) = {} => c[1].holds
  <2>1. Failing(c) = {} => \A i \in 1..1 : c[i].holds
    BY <1>1, NoneFailing
  <2> QED
    BY <2>1
<1>5. Failing(c) \subseteq Causes
  BY <1>2, FailingIsOneOf
<1> QED
  BY <1>3, <1>4, <1>5 DEF c

(* The same for the admission of the capability.                           *)
LEMMA AdmissionDecides ==
    /\ Failing(AdmissionChecks) \subseteq Causes
    /\ Failing(AdmissionChecks) = {} => Admissible
<1> DEFINE c == AdmissionChecks
<1>1. DOMAIN c = 1..11
  BY DEF AdmissionChecks
<1>2. \A i \in DOMAIN c : c[i].denial \in Causes
  BY DEF AdmissionChecks, Check, Causes, Denials
<1>3. ASSUME Failing(c) = {} PROVE Admissible
  <2>1. \A i \in 1..11 : c[i].holds
    <3> HIDE DEF c
    <3> QED
      BY <1>1, <1>3, NoneFailing
  <2>2. c[1].holds /\ c[2].holds /\ c[3].holds /\ c[4].holds /\ c[5].holds
        /\ c[6].holds /\ c[7].holds /\ c[8].holds /\ c[9].holds
        /\ c[10].holds /\ c[11].holds
    BY <2>1
  <2> QED
    BY <2>2 DEF AdmissionChecks, Check, Admissible
<1>4. Failing(c) \subseteq Causes
  <2> HIDE DEF c
  <2> QED
    BY <1>2, FailingIsOneOf
<1> QED
  BY <1>3, <1>4

(* validate_consistency pushes causes, and nothing only when everything    *)
(* is consistent.                                                          *)
LEMMA ConsistencyDecides ==
    ASSUME TypeOK
    PROVE  /\ ConsistencyDenials \in Seq(Causes)
           /\ ConsistencyDenials = <<>> => Consistent
<1>0. /\ envelope.same_requester \in BOOLEAN /\ envelope.same_environment \in BOOLEAN
      /\ policy.service_scope \in BOOLEAN /\ policy.environment \in BOOLEAN
      /\ record.owned \in BOOLEAN /\ record.same_side_effect \in BOOLEAN
      /\ policy.capability_rule.present \in BOOLEAN
  BY InputAssumption
     DEF TypeOK, EnvelopeShape, PolicyShape, RecordShape, CapabilityRules
<1>c. /\ "requester_mismatch" \in Causes /\ "environment_mismatch" \in Causes
      /\ "service_scope" \in Causes /\ "environment_not_admitted" \in Causes
      /\ "not_owned" \in Causes /\ "side_effect_mismatch" \in Causes
      /\ "no_capability_rule" \in Causes /\ "no_approval_rule" \in Causes
      /\ "side_effect_denied" \in Causes
  BY DEF Causes, Denials
<1> DEFINE s1 == Push(envelope.same_requester, "requester_mismatch")
           s2 == s1 \o Push(envelope.same_environment, "environment_mismatch")
           s3 == s2 \o Push(policy.service_scope, "service_scope")
           s4 == s3 \o Push(policy.environment, "environment_not_admitted")
           s5 == s4 \o Push(record.owned, "not_owned")
           s6 == s5 \o Push(record.same_side_effect, "side_effect_mismatch")
           s7 == s6 \o Push(policy.capability_rule.present, "no_capability_rule")
           s8 == s7 \o Push(policy.max_posture # "no rule", "no_approval_rule")
           s9 == s8 \o Push(policy.side_effect_rule = "allowed", "side_effect_denied")
<1>d. ConsistencyDenials = s9
  BY DEF ConsistencyDenials
<1>1. s1 \in Seq(Causes) /\ (s1 = <<>> => envelope.same_requester)
  BY <1>0, <1>c DEF Push
<1> HIDE DEF s1
<1>2. s2 \in Seq(Causes) /\ (s2 = <<>> => s1 = <<>>)
  BY <1>0, <1>1, <1>c, PushOne
<1> HIDE DEF s2
<1>3. s3 \in Seq(Causes) /\ (s3 = <<>> => s2 = <<>> /\ policy.service_scope)
  BY <1>0, <1>2, <1>c, PushOne
<1> HIDE DEF s3
<1>4. s4 \in Seq(Causes) /\ (s4 = <<>> => s3 = <<>>)
  BY <1>0, <1>3, <1>c, PushOne
<1> HIDE DEF s4
<1>5. s5 \in Seq(Causes) /\ (s5 = <<>> => s4 = <<>>)
  BY <1>0, <1>4, <1>c, PushOne
<1> HIDE DEF s5
<1>6. s6 \in Seq(Causes) /\ (s6 = <<>> => s5 = <<>>)
  BY <1>0, <1>5, <1>c, PushOne
<1> HIDE DEF s6
<1>7. s7 \in Seq(Causes) /\ (s7 = <<>> => s6 = <<>>)
  BY <1>0, <1>6, <1>c, PushOne
<1> HIDE DEF s7
<1>8. s8 \in Seq(Causes) /\ (s8 = <<>> => s7 = <<>> /\ policy.max_posture # "no rule")
  BY <1>0, <1>7, <1>c, PushOne
<1> HIDE DEF s8
<1>9. s9 \in Seq(Causes)
      /\ (s9 = <<>> => s8 = <<>> /\ policy.side_effect_rule = "allowed")
  BY <1>0, <1>8, <1>c, PushOne
<1> HIDE DEF s9
<1> QED
  BY <1>d, <1>1, <1>2, <1>3, <1>4, <1>5, <1>6, <1>7, <1>8, <1>9 DEF Consistent

-----------------------------------------------------------------------------
(* The inductive invariant.                                                *)

(* A resolution starts with no denial and no decision.                     *)
LEMMA InitIInv == Init => IInv
BY DEF Init, IInv, TypeOK, DenialInv, StageInv, DecisionInv, NoDecision,
       Decisions, Postures, Text, Stages, Ends

(* The first denial after an append (the pushes of `resolve`).             *)
LEMMA FirstAfterAppend ==
    ASSUME NEW D, NEW s \in Seq(D), NEW d \in D
    PROVE  /\ Append(s, d) \in Seq(D)
           /\ Append(s, d) # <<>>
           /\ Append(s, d)[1] = IF s = <<>> THEN d ELSE s[1]
<1>1. CASE s = <<>>
  BY <1>1
<1>2. CASE s # <<>>
  <2>1. Len(s) \in Nat \ {0}
    BY <1>2, EmptySeq
  <2>2. 1 \in 1..Len(s)
    BY <2>1
  <2> QED
    BY <1>2, <2>2, AppendProperties
<1> QED
  BY <1>1, <1>2

(* A stage that judges appends at most one denial of its own.              *)
LEMMA JudgeEffect ==
    ASSUME NEW stage, NEW next, NEW failing, TypeOK,
           failing \subseteq Denials, Judge(stage, next, failing)
    PROVE  /\ pc = stage /\ pc' = next
           /\ UNCHANGED <<inputs, decision>>
           /\ denials' \in Seq(Denials) /\ admitted' \in BOOLEAN
           /\ \/ failing = {} /\ denials' = denials /\ admitted' = admitted
              \/ /\ failing # {} /\ denials' # <<>> /\ admitted' = FALSE
                 /\ \E d \in failing :
                       denials'[1] = IF denials = <<>> THEN d ELSE denials[1]
<1>1. CASE failing = {} /\ UNCHANGED <<denials, admitted>>
  BY <1>1 DEF Judge, TypeOK
<1>2. CASE (\E d \in failing : denials' = Append(denials, d)) /\ admitted' = FALSE
  <2>1. PICK d \in failing : denials' = Append(denials, d)
    BY <1>2
  <2>2. /\ denials' \in Seq(Denials) /\ denials' # <<>>
        /\ denials'[1] = IF denials = <<>> THEN d ELSE denials[1]
    <3>1. d \in Denials /\ denials \in Seq(Denials)
      BY DEF TypeOK
    <3> QED
      BY <2>1, <3>1, FirstAfterAppend
  <2> QED
    BY <1>2, <2>2 DEF Judge
<1> QED
  BY <1>1, <1>2 DEF Judge

(* Loading: a request or registry that does not load is an error.          *)
LEMMA LoadKeeps ==
    ASSUME IInv, Load PROVE IInv'
<1>1. TypeOK'
  BY DEF IInv, TypeOK, Load, inputs, Stages, Ends
<1>2. (DenialInv /\ StageInv /\ DecisionInv)'
  BY DEF IInv, DenialInv, StageInv, DecisionInv, TypeOK, Load, inputs
<1> QED
  BY <1>1, <1>2 DEF IInv

(* The trust of the requester: the first cause there can be.               *)
LEMMA TrustKeeps ==
    ASSUME IInv, EvaluateTrust PROVE IInv'
<1> DEFINE F == Failing(TrustChecks)
<1>1. TypeOK /\ F \subseteq Causes /\ (F = {} => Trusted)
  BY TrustDecides DEF IInv
<1>2. Causes \subseteq Denials /\ "prerequisite" \notin Causes
  BY DEF Causes
<1>j. Judge("trust", "policy", F)
  BY DEF EvaluateTrust
<1> HIDE DEF F
<1>3. /\ pc = "trust" /\ pc' = "policy"
      /\ UNCHANGED <<inputs, decision>>
      /\ denials' \in Seq(Denials) /\ admitted' \in BOOLEAN
      /\ \/ F = {} /\ denials' = denials /\ admitted' = admitted
         \/ /\ F # {} /\ denials' # <<>> /\ admitted' = FALSE
            /\ \E d \in F : denials'[1] = IF denials = <<>> THEN d ELSE denials[1]
  BY <1>1, <1>2, <1>j, JudgeEffect
<1>4. TypeOK'
  BY <1>1, <1>3 DEF TypeOK, inputs, Stages
<1>5. DenialInv'
  <2>1. denials = <<>> /\ admitted
    BY <1>3 DEF IInv, DenialInv
  <2>2. CASE F = {} /\ denials' = denials /\ admitted' = admitted
    BY <1>3, <2>1, <2>2 DEF DenialInv
  <2>3. CASE F # {}
    BY <1>1, <1>2, <1>3, <2>1, <2>3 DEF DenialInv
  <2> QED
    BY <1>3, <2>2, <2>3
<1>6. Trusted' = Trusted
  BY <1>3 DEF Trusted, inputs
<1>7. StageInv'
  BY <1>1, <1>3, <1>6 DEF IInv, StageInv, DenialInv, inputs
<1>8. DecisionInv'
  BY <1>3 DEF DecisionInv
<1> QED
  BY <1>4, <1>5, <1>7, <1>8 DEF IInv

(* The policy artifact.                                                    *)
LEMMA PolicyKeeps ==
    ASSUME IInv, LoadPolicy PROVE IInv'
<1> DEFINE F == Failing(<<Check(policy.loads, "invalid_policy")>>)
<1>1. TypeOK /\ F \subseteq Causes /\ (F = {} => policy.loads)
  BY PolicyDecides DEF IInv
<1>2. Causes \subseteq Denials /\ "prerequisite" \notin Causes
  BY DEF Causes
<1>j. Judge("policy", "admit", F)
  BY DEF LoadPolicy
<1> HIDE DEF F
<1>3. /\ pc = "policy" /\ pc' = "admit"
      /\ UNCHANGED <<inputs, decision>>
      /\ denials' \in Seq(Denials) /\ admitted' \in BOOLEAN
      /\ \/ F = {} /\ denials' = denials /\ admitted' = admitted
         \/ /\ F # {} /\ denials' # <<>> /\ admitted' = FALSE
            /\ \E d \in F : denials'[1] = IF denials = <<>> THEN d ELSE denials[1]
  BY <1>1, <1>2, <1>j, JudgeEffect
<1>4. TypeOK'
  BY <1>1, <1>3 DEF TypeOK, inputs, Stages
<1>5. DenialInv'
  BY <1>1, <1>2, <1>3 DEF IInv, DenialInv
<1>6. Trusted' = Trusted
  BY <1>3 DEF Trusted, inputs
<1>7. StageInv'
  BY <1>1, <1>3, <1>6 DEF IInv, StageInv, inputs
<1>8. DecisionInv'
  BY <1>3 DEF DecisionInv
<1> QED
  BY <1>4, <1>5, <1>7, <1>8 DEF IInv

(* The capability: looked up only for an admitted request, so that the     *)
(* follow-up denial is never the first.                                    *)
LEMMA AdmitKeeps ==
    ASSUME IInv, AdmitCapability PROVE IInv'
<1> DEFINE F == IF admitted THEN Failing(AdmissionChecks) ELSE {"prerequisite"}
<1>1. /\ TypeOK /\ F \subseteq Denials
      /\ admitted => F \subseteq Causes
      /\ F = {} => admitted /\ Admissible
  BY AdmissionDecides DEF IInv, Causes, Denials
<1>2. "prerequisite" \notin Causes
  BY DEF Causes
<1>j. Judge("admit", "consistency", F)
  BY DEF AdmitCapability
<1> HIDE DEF F
<1>3. /\ pc = "admit" /\ pc' = "consistency"
      /\ UNCHANGED <<inputs, decision>>
      /\ denials' \in Seq(Denials) /\ admitted' \in BOOLEAN
      /\ \/ F = {} /\ denials' = denials /\ admitted' = admitted
         \/ /\ F # {} /\ denials' # <<>> /\ admitted' = FALSE
            /\ \E d \in F : denials'[1] = IF denials = <<>> THEN d ELSE denials[1]
  BY <1>1, <1>j, JudgeEffect
<1>4. TypeOK'
  BY <1>1, <1>3 DEF TypeOK, inputs, Stages
<1>5. DenialInv'
  BY <1>1, <1>2, <1>3 DEF IInv, DenialInv
<1>6. Trusted' = Trusted /\ Admissible' = Admissible
  BY <1>3 DEF Trusted, Admissible, inputs
<1>7. StageInv'
  BY <1>1, <1>3, <1>6 DEF IInv, StageInv, inputs
<1>8. DecisionInv'
  BY <1>3 DEF DecisionInv
<1> QED
  BY <1>4, <1>5, <1>7, <1>8 DEF IInv

(* The consistency of the three: every failing check is pushed.            *)
LEMMA ConsistencyKeeps ==
    ASSUME IInv, ValidateConsistency PROVE IInv'
<1>1. TypeOK /\ ConsistencyDenials \in Seq(Causes)
      /\ (ConsistencyDenials = <<>> => Consistent)
  BY ConsistencyDecides DEF IInv
<1>2. Causes \subseteq Denials /\ "prerequisite" \notin Causes
  BY DEF Causes
<1> DEFINE C == ConsistencyDenials
<1>3. /\ pc = "consistency" /\ pc' = "resolve"
      /\ denials' = IF admitted THEN denials \o C ELSE denials
      /\ UNCHANGED <<inputs, admitted, decision>>
  BY DEF ValidateConsistency
<1>u. UNCHANGED <<Trusted, Admissible, Consistent>>
  BY <1>3 DEF Trusted, Admissible, Consistent, inputs
<1>4. /\ C \in Seq(Causes) /\ (C = <<>> => Consistent)
      /\ admitted <=> denials = <<>>
      /\ admitted => Trusted /\ policy.loads /\ Admissible
      /\ request.loads /\ request.registry_loads
      /\ denials # <<>> => denials[1] # "prerequisite"
  BY <1>1, <1>3 DEF IInv, DenialInv, StageInv
<1> HIDE DEF C
<1>5. CASE admitted
  <2>1. denials' = C
    <3>1. denials' = <<>> \o C
      BY <1>3, <1>4, <1>5
    <3> QED
      BY <1>4, <3>1, ConcatEmptySeq
  <2>2. C \in Seq(Denials)
    BY <1>2, <1>4
  <2>3. C # <<>> => C[1] # "prerequisite"
    <3>1. C # <<>> => Len(C) \in Nat \ {0}
      BY <1>4, EmptySeq
    <3>2. C # <<>> => 1 \in 1..Len(C)
      BY <3>1
    <3> QED
      BY <1>2, <1>4, <3>2
  <2>4. TypeOK'
    BY <1>1, <1>3, <2>1, <2>2 DEF TypeOK, inputs, Stages
  <2>5. DenialInv'
    BY <1>3, <1>5, <2>1, <2>3 DEF DenialInv
  <2>6. StageInv'
    BY <1>3, <1>u, <1>4, <1>5, <2>1 DEF StageInv, inputs
  <2>7. DecisionInv'
    BY <1>3 DEF DecisionInv
  <2> QED
    BY <2>4, <2>5, <2>6, <2>7 DEF IInv
<1>6. CASE ~admitted
  <2>1. TypeOK'
    BY <1>1, <1>3, <1>6 DEF TypeOK, inputs, Stages
  <2>2. DenialInv'
    BY <1>3, <1>4, <1>6 DEF DenialInv
  <2>3. StageInv'
    BY <1>3, <1>u, <1>4, <1>6 DEF StageInv, inputs
  <2>4. DecisionInv'
    BY <1>3 DEF DecisionInv
  <2> QED
    BY <2>1, <2>2, <2>3, <2>4 DEF IInv
<1> QED
  BY <1>5, <1>6

(* The text of any denial, with its prefix, is a text: its bounded form    *)
(* too (bounded_summary).                                                  *)
LEMMA BoundedSummaryType ==
    ASSUME NEW t \in Text PROVE BoundedSummary(t) \in Text
<1>1. KeptNarrow(t) \in 0..157
  BY DEF KeptNarrow, Shorter, MaxSummaryChars, Text
<1>2. (MaxSummaryChars - 3 - KeptNarrow(t)) \div 2 \in Nat
  BY <1>1 DEF MaxSummaryChars
<1> QED
  BY <1>1, <1>2 DEF BoundedSummary, Text

(* A decision is well typed.                                               *)
LEMMA DecisionType ==
    ASSUME NEW p \in Postures, NEW t \in Text PROVE Decision(p, t) \in Decisions
<1>1. BoundedSummary(t) \in Text
  BY BoundedSummaryType
<1> QED
  BY <1>1 DEF Decision, Decisions

(* denied_decision: whatever the first denial, the decision is Denied and  *)
(* carries the denials, unless the cut splits a character.                 *)
LEMMA DenyEffect ==
    ASSUME TypeOK, NEW guards, DenyWith(guards)
    PROVE  /\ denials' = guards /\ decision' \in Decisions
           /\ \/ pc' = "panicked"
              \/ /\ pc' = "decided"
                 /\ decision'.posture = "Denied" /\ ~decision'.execution_allowed
<1> DEFINE first == DenialText(guards[1])
           text == [first EXCEPT !.narrow = @ + 16]
<1>1. envelope.error \in Text /\ policy.error \in Text
  BY InputAssumption DEF TypeOK, EnvelopeShape, PolicyShape
<1>2. first \in Text
  BY <1>1 DEF DenialText, Text
<1>3. text \in Text
  <2> HIDE DEF first
  <2> QED
    BY <1>2 DEF Text
<1>4. /\ denials' = guards
      /\ \/ pc' = "panicked" /\ UNCHANGED decision
         \/ pc' = "decided" /\ decision' = Decision("Denied", text)
  BY DEF DenyWith
<1> HIDE DEF text
<1>5. Decision("Denied", text) \in Decisions
  BY <1>3, DecisionType DEF Postures
<1>6. Decision("Denied", text).posture = "Denied"
      /\ ~Decision("Denied", text).execution_allowed
  <2>1. Decision("Denied", text).execution_allowed
          = ("Denied" \in {"PolicyPreapproved", "ExecuteAllowed"})
    BY DEF Decision
  <2>2. "Denied" \notin {"PolicyPreapproved", "ExecuteAllowed"}
    OBVIOUS
  <2> QED
    BY <2>1, <2>2 DEF Decision
<1> QED
  BY <1>4, <1>5, <1>6 DEF TypeOK

(* The six factors of a request with both rules are postures (the          *)
(* arguments of the resolver's minimum).                                   *)
LEMMA FactorsArePostures ==
    ASSUME TypeOK, policy.max_posture # "no rule"
    PROVE  Factors \subseteq Postures /\ Factors # {}
<1>1. /\ policy.max_posture \in Postures
      /\ policy.capability_rule.required_approval_posture \in Postures
      /\ record.approval_posture \in Postures
      /\ request.side_effect \in SideEffectClasses
  BY InputAssumption
     DEF TypeOK, PolicyShape, CapabilityRules, RecordShape, RequestShape
<1>2. ReviewClassMinimum(record.review_class) \in Postures
  BY DEF ReviewClassMinimum, Postures
<1>3. SideEffectMinimum(request.side_effect) \in Postures
  BY <1>1 DEF SideEffectMinimum, SideEffectClasses, Postures
<1>4. UserIntentMinimum(envelope.user_intent) \in Postures
  BY DEF UserIntentMinimum, Postures
<1> QED
  BY <1>1, <1>2, <1>3, <1>4 DEF Factors

(* A request with denials is denied with them.                             *)
LEMMA ResolveDeniedKeeps ==
    ASSUME IInv, ResolveDenied PROVE IInv'
<1>1. TypeOK /\ pc = "resolve" /\ denials # <<>> /\ DenyWith(denials)
      /\ UNCHANGED <<inputs, admitted>>
  BY DEF IInv, ResolveDenied
<1>2. /\ denials' = denials /\ decision' \in Decisions
      /\ \/ pc' = "panicked"
         \/ /\ pc' = "decided"
            /\ decision'.posture = "Denied" /\ ~decision'.execution_allowed
  BY <1>1, DenyEffect
<1>3. TypeOK'
  BY <1>1, <1>2 DEF TypeOK, inputs, Ends
<1>4. DenialInv'
  BY <1>1, <1>2 DEF IInv, DenialInv
<1>5. UNCHANGED <<Trusted, Admissible, Consistent>>
  BY <1>1 DEF Trusted, Admissible, Consistent, inputs
<1>6. StageInv'
  BY <1>1, <1>2, <1>5 DEF IInv, StageInv, inputs
<1>7. DecisionInv'
  BY <1>1, <1>2 DEF DecisionInv
<1> QED
  BY <1>3, <1>4, <1>6, <1>7 DEF IInv

(* A request without denials gets the most restrictive of the factors,     *)
(* which may itself be a denial.                                           *)
LEMMA ResolvePostureKeeps ==
    ASSUME IInv, ResolvePosture PROVE IInv'
<1> DEFINE p == MostRestrictive(Factors)
           text == [narrow |-> 95, wide |-> 0]
<1>1. /\ TypeOK /\ pc = "resolve" /\ denials = <<>> /\ RulesPresent
      /\ UNCHANGED <<inputs, admitted>>
  BY DEF IInv, ResolvePosture
<1>2. /\ request.loads /\ request.registry_loads
      /\ admitted /\ Trusted /\ policy.loads /\ Admissible /\ Consistent
  BY <1>1 DEF IInv, DenialInv, StageInv
<1>3. \/ p = "Denied" /\ DenyWith(<<"posture_denied">>)
      \/ /\ p # "Denied" /\ pc' = "decided"
         /\ decision' = Decision(p, text) /\ UNCHANGED denials
  BY DEF ResolvePosture
<1>4. p \in Postures
  BY <1>1, FactorsArePostures, MostRestrictiveIsLeast DEF RulesPresent
<1>5. UNCHANGED <<Trusted, Admissible, Consistent>>
  BY <1>1 DEF Trusted, Admissible, Consistent, inputs
<1>6. MostRestrictive(Factors)' = p
  <2>1. Factors' = Factors
    BY <1>1 DEF Factors, inputs
  <2> QED
    BY <2>1 DEF MostRestrictive, Rank
<1> HIDE DEF p
<1>7. CASE p = "Denied" /\ DenyWith(<<"posture_denied">>)
  <2>1. /\ denials' = <<"posture_denied">> /\ decision' \in Decisions
        /\ \/ pc' = "panicked"
           \/ /\ pc' = "decided"
              /\ decision'.posture = "Denied" /\ ~decision'.execution_allowed
    BY <1>1, <1>7, DenyEffect
  <2>2. denials' \in Seq(Denials) /\ denials' # <<>> /\ denials'[1] # "prerequisite"
    BY <2>1 DEF Denials
  <2>3. TypeOK'
    BY <1>1, <2>1, <2>2 DEF TypeOK, inputs, Ends
  <2>4. DenialInv'
    BY <2>1, <2>2 DEF DenialInv
  <2>5. StageInv'
    BY <1>1, <1>2, <1>5, <2>1, <2>2 DEF StageInv, inputs
  <2>6. DecisionInv'
    BY <2>1, <2>2 DEF DecisionInv
  <2> QED
    BY <2>3, <2>4, <2>5, <2>6 DEF IInv
<1>8. CASE p # "Denied" /\ pc' = "decided"
           /\ decision' = Decision(p, text) /\ UNCHANGED denials
  <2>1. decision' \in Decisions
    BY <1>4, <1>8, DecisionType DEF Text
  <2>2. decision'.posture = p
        /\ decision'.execution_allowed = (p \in {"PolicyPreapproved", "ExecuteAllowed"})
    BY <1>8 DEF Decision
  <2>3. TypeOK'
    BY <1>1, <1>8, <2>1 DEF TypeOK, inputs, Ends
  <2>4. DenialInv'
    BY <1>1, <1>8 DEF DenialInv
  <2>5. StageInv'
    BY <1>1, <1>2, <1>5, <1>8 DEF StageInv, inputs
  <2>6. DecisionInv'
    <3>1. denials' = <<>> /\ admitted'
      BY <1>1, <1>2, <1>8
    <3>2. decision'.posture = MostRestrictive(Factors)' /\ decision'.posture # "Denied"
      BY <1>6, <1>8, <2>2
    <3>3. decision'.execution_allowed
            <=> decision'.posture \in {"PolicyPreapproved", "ExecuteAllowed"}
      BY <2>2
    <3> QED
      BY <3>1, <3>2, <3>3 DEF DecisionInv
  <2> QED
    BY <2>3, <2>4, <2>5, <2>6 DEF IInv
<1> QED
  BY <1>3, <1>7, <1>8

(* Every step of the resolution keeps the invariant.                       *)
LEMMA StepIInv ==
    ASSUME IInv, [Next]_vars PROVE IInv'
<1>1. CASE UNCHANGED vars
  BY <1>1 DEF vars, inputs, IInv, TypeOK, DenialInv, StageInv, DecisionInv,
      Trusted, Admissible, Consistent, Factors, MostRestrictive
<1> QED
  BY <1>1, LoadKeeps, TrustKeeps, PolicyKeeps, AdmitKeeps, ConsistencyKeeps,
     ResolveDeniedKeeps, ResolvePostureKeeps DEF Next

(* The invariant holds in every reachable state of the resolution.         *)
THEOREM Invariance == Spec => []IInv
<1>1. IInv /\ [Next]_vars => IInv'
  BY StepIInv
<1> QED
  BY InitIInv, <1>1, PTL DEF Spec

-----------------------------------------------------------------------------
(* What it gives.                                                          *)

(* Execution is allowed only to a request that requester trust, policy,    *)
(* capability registry and every posture factor admit                      *)
(* (resolve_route_decision).                                               *)
THEOREM AdmissionIsAlwaysEarned == Spec => []AdmissionIsEarned
<1>1. IInv => AdmissionIsEarned
  <2>1. SUFFICES ASSUME IInv, pc = "decided", decision.execution_allowed
                 PROVE  AdmissionIsEarned
    BY DEF AdmissionIsEarned
  <2>2. /\ TypeOK /\ denials = <<>> /\ admitted
        /\ MostRestrictive(Factors) \in {"PolicyPreapproved", "ExecuteAllowed"}
    BY <2>1 DEF IInv, DecisionInv
  <2>3. /\ request.loads /\ request.registry_loads
        /\ Trusted /\ policy.loads /\ Admissible /\ Consistent
    BY <2>1, <2>2 DEF IInv, StageInv
  <2>4. Factors \subseteq Postures /\ Factors # {}
    BY <2>2, <2>3, FactorsArePostures DEF Consistent
  <2>5. Factors \subseteq {"PolicyPreapproved", "ExecuteAllowed"}
    <3>1. \A q \in Factors : Rank(MostRestrictive(Factors)) <= Rank(q)
      BY <2>4, MostRestrictiveIsLeast
    <3>2. Rank(MostRestrictive(Factors)) \in {3, 4}
      BY <2>2 DEF Rank
    <3>3. SUFFICES ASSUME NEW q \in Factors
                   PROVE  q \in {"PolicyPreapproved", "ExecuteAllowed"}
      OBVIOUS
    <3>4. q \in Postures /\ Rank(MostRestrictive(Factors)) <= Rank(q)
      BY <2>4, <3>1
    <3>5. Rank(q) \in 0..4
      BY <3>4 DEF Rank, Postures
    <3>6. Rank(q) \notin {0, 1, 2}
      BY <3>2, <3>4, <3>5
    <3> QED
      BY <3>4, <3>6 DEF Rank, Postures
  <2>6. {policy.max_posture, record.approval_posture,
         policy.capability_rule.required_approval_posture}
            \subseteq {"PolicyPreapproved", "ExecuteAllowed"}
    BY <2>5 DEF Factors
  <2>7. envelope.user_intent # "none"
    BY <2>5 DEF Factors, UserIntentMinimum
  <2>8. record.review_class = "None"
    BY <2>5 DEF Factors, ReviewClassMinimum
  <2>9. request.side_effect \in {"None", "LocalFileWrite", "LocalDbMutation"}
    <3>1. request.side_effect \in SideEffectClasses
      BY <2>2, InputAssumption DEF TypeOK, RequestShape
    <3>2. SideEffectMinimum(request.side_effect) \in {"PolicyPreapproved", "ExecuteAllowed"}
      BY <2>5 DEF Factors
    <3> QED
      BY <3>1, <3>2 DEF SideEffectClasses, SideEffectMinimum
  <2> QED
    BY <2>3, <2>6, <2>7, <2>8, <2>9
       DEF AdmissionIsEarned, Trusted, Admissible, Consistent
<1> QED
  BY Invariance, <1>1, PTL

(* A decision is a denial exactly when it carries denials, and the first   *)
(* of them is a cause, not a consequence (first_denial_summary).           *)
THEOREM DenialsAreExplained == Spec => []DenialIsExplained
<1>1. IInv => DenialIsExplained
  BY DEF IInv, DenialInv, DecisionInv, DenialIsExplained
<1> QED
  BY Invariance, <1>1, PTL

(* The two expect() calls of the resolver never fail.                      *)
THEOREM RulesAreAlwaysThere == Spec => []RulesAreThere
<1>1. IInv => RulesAreThere
  BY DEF IInv, DenialInv, StageInv, RulesAreThere, RulesPresent, Admissible,
      Consistent
<1> QED
  BY Invariance, <1>1, PTL

-----------------------------------------------------------------------------
(* Plan validation: the invariant.                                         *)

Usable(c) == c.registered /\ c.enabled /\ ~c.revoked /\ c.owned

CapabilitiesUsableTo(n) ==
    \A k \in 1..n : Usable(Registry(plan.referenced_capabilities[k]))

(* The index is exact for the first n steps: it holds each of their ids    *)
(* with its one place, and no other.                                       *)
IndexTo(n) ==
    /\ \A k \in 1..n : index[plan.steps[k].step_id] = k
    /\ \A id \in StepIds : index[id] # 0 =>
          index[id] \in 1..n /\ plan.steps[index[id]].step_id = id

StepsConformTo(n) == \A k \in 1..n : StepConforms(plan.steps[k])

FallbacksLaterTo(n) == \A k \in 1..n : FallbackIsLater(plan.fallback_references[k])

AfterBounds == {"capabilities", "steps", "budget", "fallbacks", "hash", "valid"}
AfterCapabilities == {"steps", "budget", "fallbacks", "hash", "valid"}
AfterSteps == {"budget", "fallbacks", "hash", "valid"}
AfterBudget == {"fallbacks", "hash", "valid"}

(* Where the loops stand.                                                  *)
ItemInv ==
    /\ checking \in {"bounds", "budget"} => item = 1
    /\ checking = "capabilities" => item \in 1..Len(plan.referenced_capabilities)
    /\ checking = "steps" => item \in 1..Len(plan.steps)
    /\ checking = "fallbacks" => item \in 1..Len(plan.fallback_references)

(* What the checks that are over have found, and what they have left.      *)
FoundInv ==
    /\ checking \in AfterBounds => Len(plan.steps) \in 1..plan.declared_max_step_count
    /\ checking = "capabilities" => CapabilitiesUsableTo(item - 1)
    /\ checking \in AfterCapabilities =>
          CapabilitiesUsableTo(Len(plan.referenced_capabilities))
    /\ checking \in {"bounds", "capabilities"} =>
          total = 0 /\ index = [s \in StepIds |-> 0]
    /\ checking = "steps" =>
          /\ IndexTo(item - 1) /\ StepsConformTo(item - 1)
          /\ total = BudgetThrough[item - 1]
    /\ checking \in AfterSteps =>
          /\ IndexTo(Len(plan.steps)) /\ StepsConformTo(Len(plan.steps))
          /\ total = BudgetThrough[Len(plan.steps)]
    /\ checking \in AfterBudget =>
          /\ total <= plan.max_duration_budget_ms
          /\ plan.fallback_references # <<>> =>
                plan.completion_policy = "AllowDeclaredFallbackCompletion"
    /\ checking = "fallbacks" => FallbacksLaterTo(item - 1)
    /\ checking \in {"hash", "valid"} => FallbacksLaterTo(Len(plan.fallback_references))

ValidationInv ==
    /\ ValidationTypeOK
    /\ submission \in Submissions
    /\ ItemInv
    /\ FoundInv
    /\ VerdictIsExact

-----------------------------------------------------------------------------
(* The sum of the budgets.                                                 *)

Times(k) == plan.steps[k].timeout_budget_ms

(* There is a function that sums the budgets of the first k steps, for     *)
(* every k: it exists for the first m of them for every m.                 *)
LEMMA SumExists ==
    ASSUME NEW n \in Nat, \A k \in 1..n : Times(k) \in Nat
    PROVE  \E f \in [0..n -> Nat] :
              f[0] = 0 /\ \A k \in 1..n : f[k] = f[k - 1] + Times(k)
<1> DEFINE Sums(m) == {f \in [0..m -> Nat] :
                          f[0] = 0 /\ \A k \in 1..m : f[k] = f[k - 1] + Times(k)}
           T == {m \in 0..n : Sums(m) = {}}
<1>1. SUFFICES T = {}
  <2>1. n \in 0..n
    OBVIOUS
  <2> QED
    BY <2>1
<1>2. SUFFICES ASSUME T # {} PROVE FALSE
  OBVIOUS
<1>3. PICK x \in T : \A y \in T : x <= y
  <2>1. T \subseteq Nat
    OBVIOUS
  <2> HIDE DEF T
  <2> QED
    BY <1>2, <2>1, LeastOf
<1>4. x \in 0..n /\ Sums(x) = {}
  OBVIOUS
<1>5. CASE x = 0
  <2>1. [k \in 0..0 |-> 0] \in Sums(0)
    OBVIOUS
  <2> QED
    BY <1>4, <1>5, <2>1
<1>6. CASE x # 0
  <2>1. x - 1 \in 0..n /\ x \in 1..n /\ x \in Nat
    BY <1>4, <1>6
  <2>2. Sums(x - 1) # {}
    <3>1. x - 1 \notin T
      <4>1. ~(x <= x - 1)
        BY <2>1
      <4> HIDE DEF T
      <4> QED
        BY <1>3, <4>1
    <3> QED
      BY <2>1, <3>1
  <2>3. PICK f \in [0..(x - 1) -> Nat] :
           f[0] = 0 /\ \A k \in 1..(x - 1) : f[k] = f[k - 1] + Times(k)
    BY <2>2
  <2> DEFINE g == [k \in 0..x |-> IF k = x THEN f[x - 1] + Times(x) ELSE f[k]]
  <2>4. g \in [0..x -> Nat]
    <3>1. f[x - 1] \in Nat /\ Times(x) \in Nat
      BY <2>1, <2>3
    <3>2. f[x - 1] + Times(x) \in Nat
      BY <3>1
    <3>3. \A k \in 0..x : k # x => k \in 0..(x - 1)
      BY <2>1
    <3> QED
      BY <3>2, <3>3
  <2>5. g[0] = 0
    BY <1>6, <2>1, <2>3
  <2>6. ASSUME NEW k \in 1..x PROVE g[k] = g[k - 1] + Times(k)
    <3>1. k \in 0..x /\ k - 1 \in 0..x /\ k - 1 # x /\ k - 1 \in 0..(x - 1)
      BY <2>1
    <3>2. CASE k = x
      BY <3>1, <3>2
    <3>3. CASE k # x
      <4>1. k \in 1..(x - 1)
        BY <2>1, <3>3
      <4> QED
        BY <2>3, <3>1, <3>3, <4>1
    <3> QED
      BY <3>2, <3>3
  <2>7. g \in Sums(x)
    <3> HIDE DEF g
    <3> QED
      BY <2>4, <2>5, <2>6
  <2> QED
    BY <1>4, <2>7
<1> QED
  BY <1>5, <1>6

(* The steps of a submitted plan have natural budgets.                     *)
LEMMA TimesAreNat ==
    ASSUME ValidationTypeOK
    PROVE  /\ Len(plan.steps) \in Nat /\ DOMAIN plan.steps = 1..Len(plan.steps)
           /\ \A k \in 1..Len(plan.steps) : plan.steps[k] \in StepShape
           /\ \A k \in 1..Len(plan.steps) : Times(k) \in Nat
<1>1. plan.steps \in Seq(StepShape)
  BY DEF ValidationTypeOK, SubmissionShape, PlanShape, plan
<1>2. Len(plan.steps) \in Nat /\ DOMAIN plan.steps = 1..Len(plan.steps)
      /\ \A k \in 1..Len(plan.steps) : plan.steps[k] \in StepShape
  BY <1>1
<1>3. \A k \in 1..Len(plan.steps) : Times(k) \in Nat
  BY <1>2, SubmissionAssumption DEF StepShape, Times
<1> QED
  BY <1>2, <1>3

(* BudgetThrough is that function.                                         *)
LEMMA BudgetUnfolds ==
    ASSUME ValidationTypeOK
    PROVE  /\ BudgetThrough[0] = 0
           /\ \A k \in 1..Len(plan.steps) :
                 BudgetThrough[k] = BudgetThrough[k - 1] + Times(k)
           /\ \A k \in 0..Len(plan.steps) : BudgetThrough[k] \in Nat
<1> DEFINE n == Len(plan.steps)
           Def(f) == f = [k \in 0..n |-> IF k = 0 THEN 0
                                        ELSE f[k - 1] + plan.steps[k].timeout_budget_ms]
<1>1. n \in Nat /\ \A k \in 1..n : Times(k) \in Nat
  BY TimesAreNat
<1>2. PICK f \in [0..n -> Nat] :
         f[0] = 0 /\ \A k \in 1..n : f[k] = f[k - 1] + Times(k)
  <2> HIDE DEF n
  <2> QED
    BY <1>1, SumExists
<1>3. Def(f)
  <2> DEFINE g == [k \in 0..n |-> IF k = 0 THEN 0
                                 ELSE f[k - 1] + plan.steps[k].timeout_budget_ms]
  <2>1. ASSUME NEW k \in 0..n PROVE f[k] = g[k]
    <3>1. CASE k = 0
      BY <1>2, <3>1
    <3>2. CASE k # 0
      <4>1. k \in 1..n
        BY <1>1, <3>2
      <4> QED
        BY <1>2, <3>2, <4>1 DEF Times
    <3> QED
      BY <3>1, <3>2
  <2>2. f = g
    <3> HIDE DEF n
    <3> QED
      BY <1>2, <2>1
  <2> QED
    BY <2>2
<1>4. Def(BudgetThrough)
  <2>1. BudgetThrough = CHOOSE h : Def(h)
    BY DEF BudgetThrough
  <2> HIDE DEF Def
  <2> QED
    BY <1>3, <2>1
<1> DEFINE B == BudgetThrough
<1>5. B[0] = 0 /\ \A k \in 1..n : B[k] = B[k - 1] + Times(k)
  <2>1. \A k \in 0..n : B[k] = IF k = 0 THEN 0
                              ELSE B[k - 1] + plan.steps[k].timeout_budget_ms
    <3> HIDE DEF n, B
    <3> QED
      BY <1>4 DEF B
  <2> HIDE DEF B
  <2> QED
    BY <1>1, <2>1 DEF Times
<1>6. \A k \in 0..n : B[k] \in Nat
  <2> DEFINE T == {m \in 0..n : B[m] \notin Nat}
  <2>1. SUFFICES ASSUME T # {} PROVE FALSE
    OBVIOUS
  <2> HIDE DEF B, n
  <2>2. PICK x \in T : \A y \in T : x <= y
    <3>1. T \subseteq Nat
      BY <1>1
    <3> HIDE DEF T
    <3> QED
      BY <2>1, <3>1, LeastOf
  <2>3. x \in 0..n /\ B[x] \notin Nat /\ x # 0
    BY <1>5
  <2>4. x \in 1..n /\ x - 1 \in 0..n /\ x - 1 \notin T
    BY <1>1, <2>2, <2>3
  <2>5. B[x - 1] \in Nat /\ Times(x) \in Nat /\ B[x] = B[x - 1] + Times(x)
    BY <1>1, <1>5, <2>4
  <2> QED
    BY <2>3, <2>5
<1> QED
  BY <1>5, <1>6

(* More steps never take less.                                             *)
LEMMA BudgetGrows ==
    ASSUME ValidationTypeOK, NEW a \in 0..Len(plan.steps)
    PROVE  BudgetThrough[a] <= BudgetThrough[Len(plan.steps)]
<1> DEFINE n == Len(plan.steps)
           B == BudgetThrough
           T == {m \in a..n : ~(B[a] <= B[m])}
<1>1. n \in Nat /\ \A k \in 1..n : Times(k) \in Nat
  BY TimesAreNat
<1>2. /\ \A k \in 1..n : B[k] = B[k - 1] + Times(k)
      /\ \A k \in 0..n : B[k] \in Nat
  BY BudgetUnfolds
<1>3. a \in 0..n
  OBVIOUS
<1>4. SUFFICES ASSUME ~(B[a] <= B[n]) PROVE FALSE
  OBVIOUS
<1> HIDE DEF B, n
<1>5. n \in T
  BY <1>1, <1>3, <1>4
<1>6. PICK x \in T : \A y \in T : x <= y
  <2>1. T \subseteq Nat
    BY <1>1, <1>3
  <2> HIDE DEF T
  <2> QED
    BY <1>5, <2>1, LeastOf
<1>7. x \in a..n /\ ~(B[a] <= B[x])
  OBVIOUS
<1>8. x # a
  BY <1>2, <1>3, <1>7
<1>9. x \in 1..n /\ x - 1 \in a..n /\ x - 1 \in 0..n /\ x \in 0..n
  BY <1>1, <1>3, <1>7, <1>8
<1>10. B[a] <= B[x - 1]
  <2>1. x - 1 \notin T
    BY <1>6, <1>9
  <2> QED
    BY <1>9, <2>1
<1>11. B[x] = B[x - 1] + Times(x) /\ Times(x) \in Nat /\ B[x - 1] \in Nat
       /\ B[x] \in Nat /\ B[a] \in Nat
  BY <1>1, <1>2, <1>3, <1>9
<1>12. B[a] <= B[x]
  BY <1>10, <1>11
<1> QED
  BY <1>7, <1>12

-----------------------------------------------------------------------------
(* The loops, and what they establish.                                     *)

(* The lists of a submitted plan.                                          *)
LEMMA PlanLists ==
    ASSUME ValidationInv
    PROVE  /\ plan \in PlanShape
           /\ plan.referenced_capabilities # <<>>
           /\ Len(plan.referenced_capabilities) \in Nat \ {0}
           /\ DOMAIN plan.referenced_capabilities = 1..Len(plan.referenced_capabilities)
           /\ Len(plan.fallback_references) \in Nat
           /\ DOMAIN plan.fallback_references = 1..Len(plan.fallback_references)
           /\ plan.fallback_references = <<>> <=> Len(plan.fallback_references) = 0
           /\ \A k \in 1..Len(plan.fallback_references) :
                 plan.fallback_references[k] \in ReferenceShape
           /\ plan.max_duration_budget_ms \in 0..U64Max
<1>1. submission \in SubmissionShape /\ submission.plan.referenced_capabilities # <<>>
  BY SubmissionAssumption DEF ValidationInv
<1>2. plan \in PlanShape /\ plan.referenced_capabilities # <<>>
  BY <1>1 DEF SubmissionShape, plan
<1>3. plan.referenced_capabilities \in Seq(CapabilityIds)
      /\ plan.fallback_references \in Seq(ReferenceShape)
      /\ plan.max_duration_budget_ms \in 0..U64Max
  BY <1>2 DEF PlanShape
<1> QED
  BY <1>2, <1>3, EmptySeq, LenProperties

(* A plan whose steps all conform, each with an id of its own, is bounded  *)
(* (the loop over the steps).                                              *)
LEMMA StepsAreBounded ==
    ASSUME ValidationInv, Len(plan.steps) \in 1..plan.declared_max_step_count,
           IndexTo(Len(plan.steps)), StepsConformTo(Len(plan.steps))
    PROVE  StepsBounded
<1> DEFINE n == Len(plan.steps)
<1>1. /\ n \in Nat /\ DOMAIN plan.steps = 1..n
      /\ \A k \in 1..n : plan.steps[k] \in StepShape
  BY TimesAreNat DEF ValidationInv
<1>2. \A k, l \in 1..n : plan.steps[k].step_id = plan.steps[l].step_id => k = l
  BY DEF IndexTo
<1>3. ASSUME NEW k \in 1..n
      PROVE  LET s == plan.steps[k]
                 c == Registry(s.capability_id)
             IN  /\ References(s.capability_id)
                 /\ c.side_effect_class = s.declared_side_effect_class
                 /\ c.side_effect_class \in plan.declared_side_effect_classes
                 /\ c.timeout_budget_ms >= s.timeout_budget_ms
  <2>1. StepConforms(plan.steps[k])
    BY <1>3 DEF StepsConformTo
  <2>2. References(plan.steps[k].capability_id)
        /\ plan.steps[k].declared_side_effect_class \in plan.declared_side_effect_classes
        /\ plan.steps[k].declared_side_effect_class
             = Registry(plan.steps[k].capability_id).side_effect_class
        /\ plan.steps[k].timeout_budget_ms
             <= Registry(plan.steps[k].capability_id).timeout_budget_ms
    BY <2>1 DEF StepConforms
  <2> QED
    BY <2>2
<1> QED
  BY <1>1, <1>2, <1>3 DEF StepsBounded

(* A step that does not conform is out of the plan's bounds.               *)
LEMMA UnboundedStep ==
    ASSUME ValidationInv, NEW k \in 1..Len(plan.steps), ~StepConforms(plan.steps[k])
    PROVE  ~StepsBounded
<1>1. SUFFICES ASSUME StepsBounded PROVE StepConforms(plan.steps[k])
  OBVIOUS
<1>2. k \in DOMAIN plan.steps
  BY TimesAreNat DEF ValidationInv
<1>3. /\ References(plan.steps[k].capability_id)
      /\ Registry(plan.steps[k].capability_id).side_effect_class
           = plan.steps[k].declared_side_effect_class
      /\ Registry(plan.steps[k].capability_id).side_effect_class
           \in plan.declared_side_effect_classes
      /\ Registry(plan.steps[k].capability_id).timeout_budget_ms
           >= plan.steps[k].timeout_budget_ms
  BY <1>1, <1>2 DEF StepsBounded
<1> QED
  BY <1>3 DEF StepConforms

(* With the index complete, a fallback reference leads forward in the      *)
(* index exactly when it does in the plan.                                 *)
LEMMA IndexTells ==
    ASSUME ValidationInv, IndexTo(Len(plan.steps)), NEW r \in ReferenceShape
    PROVE  FallbackIsLater(r) <=>
              \E a \in Positions(plan, r.step_id), b \in Positions(plan, r.fallback_step_id) :
                 a < b
<1> DEFINE n == Len(plan.steps)
<1>1. n \in Nat /\ DOMAIN plan.steps = 1..n
  BY TimesAreNat DEF ValidationInv
<1>2. r.step_id \in StepIds /\ r.fallback_step_id \in StepIds
  BY DEF ReferenceShape
<1>3. ASSUME NEW id \in StepIds
      PROVE  /\ index[id] # 0 => index[id] \in Positions(plan, id)
             /\ \A a \in Positions(plan, id) : a = index[id] /\ index[id] # 0
  <2>1. index[id] # 0 => index[id] \in Positions(plan, id)
    BY <1>1 DEF IndexTo, Positions
  <2>2. \A a \in Positions(plan, id) : a \in 1..n /\ a = index[id] /\ a # 0
    BY <1>1 DEF IndexTo, Positions
  <2> QED
    BY <2>1, <2>2
<1>4. FallbackIsLater(r) =>
         \E a \in Positions(plan, r.step_id), b \in Positions(plan, r.fallback_step_id) : a < b
  BY <1>2, <1>3 DEF FallbackIsLater
<1>5. ASSUME NEW a \in Positions(plan, r.step_id),
             NEW b \in Positions(plan, r.fallback_step_id), a < b
      PROVE  FallbackIsLater(r)
  BY <1>2, <1>3, <1>5 DEF FallbackIsLater
<1> QED
  BY <1>4, <1>5

(* CapabilitiesUsable is what the loop over the capabilities checks.       *)
LEMMA CapabilitiesLoop ==
    ASSUME ValidationInv
    PROVE  CapabilitiesUsable <=> CapabilitiesUsableTo(Len(plan.referenced_capabilities))
BY PlanLists DEF CapabilitiesUsable, CapabilitiesUsableTo, Usable

(* FallbacksForward is what the loop over the references checks.           *)
LEMMA FallbacksLoop ==
    ASSUME ValidationInv, IndexTo(Len(plan.steps))
    PROVE  FallbacksForward <=>
              /\ plan.fallback_references # <<>> =>
                    plan.completion_policy = "AllowDeclaredFallbackCompletion"
              /\ FallbacksLaterTo(Len(plan.fallback_references))
<1> DEFINE R == plan.fallback_references
           Forward(r) == \E a \in Positions(plan, r.step_id),
                            b \in Positions(plan, r.fallback_step_id) : a < b
<1>1. DOMAIN R = 1..Len(R) /\ \A k \in 1..Len(R) : R[k] \in ReferenceShape
  BY PlanLists
<1>2. \A k \in 1..Len(R) : FallbackIsLater(R[k]) <=> Forward(R[k])
  BY <1>1, IndexTells
<1>3. FallbacksForward <=>
         /\ R # <<>> => plan.completion_policy = "AllowDeclaredFallbackCompletion"
         /\ \A k \in DOMAIN R : Forward(R[k])
  BY DEF FallbacksForward
<1> HIDE DEF Forward, R
<1> QED
  BY <1>1, <1>2, <1>3 DEF FallbacksLaterTo, R

-----------------------------------------------------------------------------
(* The steps of the validation.                                            *)

Unaltered == Canonical(submission.signed) = Canonical(plan)

(* Nothing in the validation changes the submission.                       *)
LEMMA SubmissionFixed ==
    ASSUME UNCHANGED submission
    PROVE  /\ plan' = plan /\ BudgetThrough' = BudgetThrough
           /\ WellBounded' = WellBounded /\ CapabilitiesUsable' = CapabilitiesUsable
           /\ Unaltered' = Unaltered
           /\ \A n : CapabilitiesUsableTo(n)' = CapabilitiesUsableTo(n)
           /\ \A n : StepsConformTo(n)' = StepsConformTo(n)
<1>1. plan' = plan /\ \A c : Registry(c)' = Registry(c)
  BY DEF plan, Registry
<1>2. BudgetThrough' = BudgetThrough
  BY <1>1 DEF BudgetThrough
<1>3. CapabilitiesUsable' = CapabilitiesUsable
  BY DEF CapabilitiesUsable, Registry, plan
<1>4. WellBounded' = WellBounded
  BY <1>2, <1>3 DEF WellBounded, StepsBounded, References, Registry, plan,
      FallbacksForward
<1>5. Unaltered' = Unaltered
  BY DEF Unaltered, plan
<1>6. \A n : CapabilitiesUsableTo(n)' = CapabilitiesUsableTo(n)
  BY DEF CapabilitiesUsableTo, Usable, Registry, plan
<1>7. \A n : StepsConformTo(n)' = StepsConformTo(n)
  BY DEF StepsConformTo, StepConforms, References, Registry, plan
<1> QED
  BY <1>1, <1>2, <1>3, <1>4, <1>5, <1>6, <1>7

(* With the index left alone, too, so are the findings about it.           *)
LEMMA IndexFixed ==
    ASSUME UNCHANGED <<submission, index>>
    PROVE  /\ \A n : IndexTo(n)' = IndexTo(n)
           /\ \A n : FallbacksLaterTo(n)' = FallbacksLaterTo(n)
BY DEF IndexTo, FallbacksLaterTo, FallbackIsLater, plan

(* A denial is right when something is wrong with the plan, and of the     *)
(* kind it names.                                                          *)
LEMMA DenyKeeps ==
    ASSUME ValidationInv, NEW class, Deny(class),
           class \in {"ContractInvalid", "CapabilityNotAdmitted",
                      "DisabledByOperator", "IntegrityFailed"},
           ~(WellBounded /\ Unaltered),
           class = "IntegrityFailed" => WellBounded,
           class \in {"CapabilityNotAdmitted", "DisabledByOperator"} => ~CapabilitiesUsable
    PROVE  ValidationInv'
<1>1. checking' = "denied" /\ reason' = class /\ UNCHANGED <<submission, item, total, index>>
  BY DEF Deny
<1>2. ValidationTypeOK' /\ (submission \in Submissions)'
  BY <1>1 DEF ValidationInv, ValidationTypeOK
<1>3. ItemInv'
  BY <1>1 DEF ItemInv
<1>4. FoundInv'
  BY <1>1 DEF FoundInv, AfterBounds, AfterCapabilities, AfterSteps, AfterBudget
<1>5. VerdictIsExact'
  <2>1. WellBounded' = WellBounded /\ CapabilitiesUsable' = CapabilitiesUsable
        /\ Unaltered' = Unaltered
    BY <1>1, SubmissionFixed
  <2> QED
    BY <1>1, <2>1 DEF VerdictIsExact, Unaltered
<1> QED
  BY <1>2, <1>3, <1>4, <1>5 DEF ValidationInv

(* The first check: how many steps there are.                              *)
LEMMA BoundsKeeps ==
    ASSUME ValidationInv, CheckBounds PROVE ValidationInv'
<1>1. CASE Len(plan.steps) \in 1..plan.declared_max_step_count
  <2>1. checking = "bounds" /\ checking' = "capabilities"
        /\ UNCHANGED <<submission, item, total, index, reason>>
    BY <1>1 DEF CheckBounds
  <2>2. ValidationTypeOK' /\ (submission \in Submissions)'
    BY <2>1 DEF ValidationInv, ValidationTypeOK
  <2>3. plan' = plan
    BY <2>1, SubmissionFixed
  <2>4. item = 1 /\ total = 0 /\ index = [s \in StepIds |-> 0]
    BY <2>1 DEF ValidationInv, ItemInv, FoundInv
  <2>5. ItemInv'
    BY <2>1, <2>3, <2>4, PlanLists DEF ItemInv
  <2>6. FoundInv'
    BY <1>1, <2>1, <2>3, <2>4
       DEF FoundInv, CapabilitiesUsableTo, AfterBounds, AfterCapabilities,
           AfterSteps, AfterBudget
  <2>7. VerdictIsExact'
    BY <2>1 DEF VerdictIsExact
  <2> QED
    BY <2>2, <2>5, <2>6, <2>7 DEF ValidationInv
<1>2. CASE Len(plan.steps) \notin 1..plan.declared_max_step_count
  <2>1. Deny("ContractInvalid")
    BY <1>2 DEF CheckBounds
  <2>2. ~WellBounded
    BY <1>2 DEF WellBounded, StepsBounded
  <2> QED
    BY <2>1, <2>2, DenyKeeps
<1> QED
  BY <1>1, <1>2

(* The capabilities, one by one.                                           *)
LEMMA CapabilityKeeps ==
    ASSUME ValidationInv, CheckCapability PROVE ValidationInv'
<1> DEFINE L == Len(plan.referenced_capabilities)
           c == Registry(plan.referenced_capabilities[item])
<1>1. checking = "capabilities" /\ item \in 1..L /\ L \in Nat \ {0}
  BY PlanLists DEF CheckCapability, ValidationInv, ItemInv
<1>2. CASE ~Usable(c)
  <2>1. ~CapabilitiesUsable
    BY <1>1, <1>2, CapabilitiesLoop DEF CapabilitiesUsableTo
  <2>2. Deny("CapabilityNotAdmitted") \/ Deny("DisabledByOperator")
    BY <1>2 DEF CheckCapability, Usable
  <2>3. ~WellBounded
    BY <2>1 DEF WellBounded
  <2> QED
    BY <2>1, <2>2, <2>3, DenyKeeps
<1>3. CASE Usable(c)
  <2>1. Advance(plan.referenced_capabilities, "steps") /\ UNCHANGED <<total, index>>
    BY <1>3 DEF CheckCapability, Usable
  <2>2. /\ checking' = IF item = L THEN "steps" ELSE "capabilities"
        /\ item' = IF item = L THEN 1 ELSE item + 1
        /\ UNCHANGED <<submission, reason, total, index>>
    BY <1>1, <2>1 DEF Advance
  <2>3. plan' = plan /\ BudgetThrough' = BudgetThrough
        /\ \A n : CapabilitiesUsableTo(n)' = CapabilitiesUsableTo(n)
    BY <2>2, SubmissionFixed
  <2>4. /\ Len(plan.steps) \in 1..plan.declared_max_step_count
        /\ CapabilitiesUsableTo(item - 1)
        /\ total = 0 /\ index = [s \in StepIds |-> 0]
    BY <1>1 DEF ValidationInv, FoundInv, AfterBounds
  <2>5. CapabilitiesUsableTo(item)
    BY <1>1, <1>3, <2>4 DEF CapabilitiesUsableTo
  <2>6. ValidationTypeOK' /\ (submission \in Submissions)'
    BY <1>1, <2>2 DEF ValidationInv, ValidationTypeOK
  <2>7. VerdictIsExact'
    BY <2>2 DEF VerdictIsExact
  <2>8. CASE item = L
    <3>1. ItemInv'
      BY <2>2, <2>3, <2>4, <2>8, TimesAreNat DEF ItemInv, ValidationInv
    <3>2. IndexTo(0)' /\ StepsConformTo(0)' /\ BudgetThrough[0] = 0
      BY <2>2, <2>4, BudgetUnfolds DEF IndexTo, StepsConformTo, ValidationInv
    <3>3. FoundInv'
      BY <2>2, <2>3, <2>4, <2>5, <2>8, <3>2
         DEF FoundInv, AfterBounds, AfterCapabilities, AfterSteps, AfterBudget
    <3> QED
      BY <2>6, <2>7, <3>1, <3>3 DEF ValidationInv
  <2>9. CASE item # L
    <3>1. ItemInv'
      BY <1>1, <2>2, <2>3, <2>9 DEF ItemInv
    <3>2. item' - 1 = item
      BY <1>1, <2>2, <2>9
    <3>3. FoundInv'
      BY <2>2, <2>3, <2>4, <2>5, <2>9, <3>2
         DEF FoundInv, AfterBounds, AfterCapabilities, AfterSteps, AfterBudget
    <3> QED
      BY <2>6, <2>7, <3>1, <3>3 DEF ValidationInv
  <2> QED
    BY <2>8, <2>9
<1> QED
  BY <1>2, <1>3

(* The steps, one by one: an id that was seen, a step that does not        *)
(* conform and a sum that overflows are each a reason to deny.             *)
LEMMA StepKeeps ==
    ASSUME ValidationInv, CheckStep PROVE ValidationInv'
<1> DEFINE n == Len(plan.steps)
           s == plan.steps[item]
<1>1. /\ checking = "steps" /\ item \in 1..n /\ n \in Nat
      /\ item - 1 \in 0..n /\ item \in 0..n /\ item - 1 \in Nat
      /\ s \in StepShape /\ DOMAIN plan.steps = 1..n
  BY TimesAreNat DEF CheckStep, ValidationInv, ItemInv
<1>2. /\ Len(plan.steps) \in 1..plan.declared_max_step_count
      /\ CapabilitiesUsableTo(Len(plan.referenced_capabilities))
      /\ IndexTo(item - 1) /\ StepsConformTo(item - 1)
      /\ total = BudgetThrough[item - 1]
  BY <1>1 DEF ValidationInv, FoundInv, AfterBounds, AfterCapabilities
<1>3. /\ s.step_id \in StepIds /\ s.timeout_budget_ms \in Nat
      /\ s.timeout_budget_ms = Times(item)
      /\ index \in [StepIds -> Nat] /\ total \in Nat /\ U64Max \in Nat
  BY <1>1, TimesAreNat, SubmissionAssumption
     DEF StepShape, Times, ValidationInv, ValidationTypeOK
<1>4. BudgetThrough[item] = total + s.timeout_budget_ms
  BY <1>1, <1>2, <1>3, BudgetUnfolds DEF ValidationInv
<1>5. CASE ~(index[s.step_id] = 0 /\ StepConforms(s) /\ Fits(total + s.timeout_budget_ms))
  <2>1. Deny("ContractInvalid")
    BY <1>5 DEF CheckStep
  <2>2. ASSUME index[s.step_id] # 0 PROVE ~WellBounded
    <3> DEFINE k == index[s.step_id]
    <3>1. k \in 1..(item - 1) /\ plan.steps[k].step_id = s.step_id
      BY <1>2, <1>3, <2>2 DEF IndexTo
    <3>2. k \in DOMAIN plan.steps /\ item \in DOMAIN plan.steps /\ k # item
      BY <1>1, <3>1
    <3> QED
      BY <3>1, <3>2 DEF WellBounded, StepsBounded
  <2>3. ASSUME ~StepConforms(s) PROVE ~WellBounded
    BY <1>1, <2>3, UnboundedStep DEF WellBounded
  <2>4. ASSUME ~Fits(total + s.timeout_budget_ms) PROVE ~WellBounded
    <3>1. BudgetThrough[item] > U64Max /\ BudgetThrough[item] \in Nat
      BY <1>3, <1>4, <2>4 DEF Fits
    <3>2. BudgetThrough[item] <= BudgetThrough[n] /\ BudgetThrough[n] \in Nat
      <4>1. n \in 0..n
        BY <1>1
      <4> QED
        BY <1>1, <4>1, BudgetGrows, BudgetUnfolds DEF ValidationInv
    <3>3. plan.max_duration_budget_ms \in 0..U64Max
      BY PlanLists
    <3>4. ~(BudgetThrough[n] <= plan.max_duration_budget_ms)
      BY <1>3, <3>1, <3>2, <3>3
    <3> QED
      BY <3>4 DEF WellBounded
  <2> QED
    BY <1>5, <2>1, <2>2, <2>3, <2>4, DenyKeeps
<1>6. CASE index[s.step_id] = 0 /\ StepConforms(s) /\ Fits(total + s.timeout_budget_ms)
  <2>1. /\ index' = [index EXCEPT ![s.step_id] = item]
        /\ total' = total + s.timeout_budget_ms
        /\ Advance(plan.steps, "budget")
    BY <1>6 DEF CheckStep
  <2>2. /\ checking' = IF item = n THEN "budget" ELSE "steps"
        /\ item' = IF item = n THEN 1 ELSE item + 1
        /\ UNCHANGED <<submission, reason>>
    BY <1>1, <2>1 DEF Advance
  <2>3. plan' = plan /\ BudgetThrough' = BudgetThrough
        /\ (\A k : CapabilitiesUsableTo(k)' = CapabilitiesUsableTo(k))
        /\ (\A k : StepsConformTo(k)' = StepsConformTo(k))
    BY <2>2, SubmissionFixed
  <2>4. StepsConformTo(item)
    BY <1>1, <1>2, <1>6 DEF StepsConformTo
  <2>m. PICK m \in 1..n : m = item
    BY <1>1
  <2>5. IndexTo(m)'
    <3>1. ASSUME NEW k \in 1..item PROVE index'[plan.steps[k].step_id] = k
      <4>1. plan.steps[k].step_id \in StepIds
        BY <1>1, TimesAreNat DEF StepShape, ValidationInv
      <4>2. CASE k = item
        BY <1>3, <2>1, <4>2
      <4>3. CASE k # item
        <5>1. k \in 1..(item - 1)
          BY <1>1, <4>3
        <5>2. index[plan.steps[k].step_id] = k /\ k # 0
          BY <1>2, <5>1 DEF IndexTo
        <5>3. plan.steps[k].step_id # s.step_id
          BY <1>6, <5>2
        <5> QED
          BY <1>3, <2>1, <4>1, <5>2, <5>3
      <4> QED
        BY <4>2, <4>3
    <3>2. ASSUME NEW id \in StepIds, index'[id] # 0
          PROVE  index'[id] \in 1..item /\ plan.steps[index'[id]].step_id = id
      <4>1. CASE id = s.step_id
        BY <1>1, <1>3, <2>1, <4>1
      <4>2. CASE id # s.step_id
        <5>1. index'[id] = index[id]
          BY <1>3, <2>1, <4>2
        <5>2. index[id] \in 1..(item - 1) /\ plan.steps[index[id]].step_id = id
          BY <1>2, <3>2, <5>1 DEF IndexTo
        <5> QED
          BY <1>1, <5>1, <5>2
      <4> QED
        BY <4>1, <4>2
    <3> QED
      BY <2>3, <2>m, <3>1, <3>2 DEF IndexTo
  <2>6. ValidationTypeOK' /\ (submission \in Submissions)'
    <3>1. total' \in 0..U64Max
      BY <1>3, <1>6, <2>1 DEF Fits
    <3>2. index' \in [StepIds -> Nat]
      BY <1>1, <1>3, <2>1
    <3> QED
      BY <1>1, <2>2, <3>1, <3>2 DEF ValidationInv, ValidationTypeOK
  <2>7. VerdictIsExact'
    BY <2>2 DEF VerdictIsExact
  <2>8. total' = BudgetThrough[item]
    BY <1>4, <2>1
  <2>9. CASE item = n
    <3>1. ItemInv'
      BY <2>2, <2>9 DEF ItemInv
    <3>2. FoundInv'
      BY <1>2, <2>2, <2>3, <2>4, <2>m, <2>5, <2>8, <2>9
         DEF FoundInv, AfterBounds, AfterCapabilities, AfterSteps, AfterBudget
    <3> QED
      BY <2>6, <2>7, <3>1, <3>2 DEF ValidationInv
  <2>10. CASE item # n
    <3>1. ItemInv'
      BY <1>1, <2>2, <2>3, <2>10 DEF ItemInv
    <3>2. item' - 1 = item
      BY <1>1, <2>2, <2>10
    <3>3. FoundInv'
      BY <1>2, <2>2, <2>3, <2>4, <2>m, <2>5, <2>8, <2>10, <3>2
         DEF FoundInv, AfterBounds, AfterCapabilities, AfterSteps, AfterBudget
    <3> QED
      BY <2>6, <2>7, <3>1, <3>3 DEF ValidationInv
  <2> QED
    BY <2>9, <2>10
<1> QED
  BY <1>5, <1>6

(* The sum of the budgets, and whether fallbacks are allowed.              *)
LEMMA BudgetKeeps ==
    ASSUME ValidationInv, CheckBudget PROVE ValidationInv'
<1> DEFINE n == Len(plan.steps)
           R == plan.fallback_references
           Policy == plan.completion_policy = "AllowDeclaredFallbackCompletion"
<1>1. /\ checking = "budget" /\ item = 1
      /\ n \in 1..plan.declared_max_step_count
      /\ CapabilitiesUsableTo(Len(plan.referenced_capabilities))
      /\ IndexTo(n) /\ StepsConformTo(n) /\ total = BudgetThrough[n]
  BY DEF CheckBudget, ValidationInv, ItemInv, FoundInv, AfterBounds,
         AfterCapabilities, AfterSteps
<1>2. total \in Nat /\ plan.max_duration_budget_ms \in Nat
  BY PlanLists, SubmissionAssumption DEF ValidationInv, ValidationTypeOK
<1>3. CASE total > plan.max_duration_budget_ms \/ (R # <<>> /\ ~Policy)
  <2>1. Deny("ContractInvalid")
    BY <1>3 DEF CheckBudget
  <2>2. ~WellBounded
    BY <1>1, <1>2, <1>3 DEF WellBounded, FallbacksForward
  <2> QED
    BY <2>1, <2>2, DenyKeeps
<1>4. CASE ~(total > plan.max_duration_budget_ms \/ (R # <<>> /\ ~Policy))
  <2>1. /\ checking' = IF R = <<>> THEN "hash" ELSE "fallbacks"
        /\ UNCHANGED <<submission, item, total, index, reason>>
    BY <1>4 DEF CheckBudget
  <2>2. total <= plan.max_duration_budget_ms /\ (R # <<>> => Policy)
    BY <1>2, <1>4
  <2>3. /\ plan' = plan /\ BudgetThrough' = BudgetThrough
        /\ (\A m : CapabilitiesUsableTo(m)' = CapabilitiesUsableTo(m))
        /\ (\A m : StepsConformTo(m)' = StepsConformTo(m))
        /\ (\A m : IndexTo(m)' = IndexTo(m))
        /\ (\A m : FallbacksLaterTo(m)' = FallbacksLaterTo(m))
    BY <2>1, SubmissionFixed, IndexFixed
  <2>4. Len(R) \in Nat /\ (R = <<>> <=> Len(R) = 0)
    BY PlanLists
  <2>5. FallbacksLaterTo(0)
    BY DEF FallbacksLaterTo
  <2>6. ValidationTypeOK' /\ (submission \in Submissions)'
    BY <2>1 DEF ValidationInv, ValidationTypeOK
  <2>7. ItemInv'
    BY <1>1, <2>1, <2>3, <2>4 DEF ItemInv
  <2>8. FoundInv'
    BY <1>1, <2>1, <2>2, <2>3, <2>4, <2>5
       DEF FoundInv, AfterBounds, AfterCapabilities, AfterSteps, AfterBudget
  <2>9. VerdictIsExact'
    BY <2>1 DEF VerdictIsExact
  <2> QED
    BY <2>6, <2>7, <2>8, <2>9 DEF ValidationInv
<1> QED
  BY <1>3, <1>4

(* The fallback references, one by one.                                    *)
LEMMA FallbackKeeps ==
    ASSUME ValidationInv, CheckFallback PROVE ValidationInv'
<1> DEFINE n == Len(plan.steps)
           R == plan.fallback_references
<1>1. /\ checking = "fallbacks" /\ item \in 1..Len(R) /\ Len(R) \in Nat
      /\ R # <<>> => plan.completion_policy = "AllowDeclaredFallbackCompletion"
      /\ n \in 1..plan.declared_max_step_count
      /\ CapabilitiesUsableTo(Len(plan.referenced_capabilities))
      /\ IndexTo(n) /\ StepsConformTo(n) /\ total = BudgetThrough[n]
      /\ total <= plan.max_duration_budget_ms
      /\ FallbacksLaterTo(item - 1)
  BY PlanLists DEF CheckFallback, ValidationInv, ItemInv, FoundInv, AfterBounds,
                   AfterCapabilities, AfterSteps, AfterBudget
<1>2. CASE ~FallbackIsLater(R[item])
  <2>1. Deny("ContractInvalid")
    BY <1>2 DEF CheckFallback
  <2>2. ~FallbacksForward
    BY <1>1, <1>2, FallbacksLoop DEF FallbacksLaterTo
  <2> QED
    BY <2>1, <2>2, DenyKeeps DEF WellBounded
<1>3. CASE FallbackIsLater(R[item])
  <2>1. /\ checking' = IF item = Len(R) THEN "hash" ELSE "fallbacks"
        /\ item' = IF item = Len(R) THEN 1 ELSE item + 1
        /\ UNCHANGED <<submission, reason, total, index>>
    BY <1>1, <1>3 DEF CheckFallback, Advance
  <2>2. /\ plan' = plan /\ BudgetThrough' = BudgetThrough
        /\ (\A m : CapabilitiesUsableTo(m)' = CapabilitiesUsableTo(m))
        /\ (\A m : StepsConformTo(m)' = StepsConformTo(m))
        /\ (\A m : IndexTo(m)' = IndexTo(m))
        /\ (\A m : FallbacksLaterTo(m)' = FallbacksLaterTo(m))
    BY <2>1, SubmissionFixed, IndexFixed
  <2>3. FallbacksLaterTo(item)
    BY <1>1, <1>3 DEF FallbacksLaterTo
  <2>4. ValidationTypeOK' /\ (submission \in Submissions)'
    BY <1>1, <2>1 DEF ValidationInv, ValidationTypeOK
  <2>5. VerdictIsExact'
    BY <2>1 DEF VerdictIsExact
  <2>6. CASE item = Len(R)
    <3>1. ItemInv'
      BY <2>1, <2>6 DEF ItemInv
    <3>2. FoundInv'
      BY <1>1, <2>1, <2>2, <2>3, <2>6
         DEF FoundInv, AfterBounds, AfterCapabilities, AfterSteps, AfterBudget
    <3> QED
      BY <2>4, <2>5, <3>1, <3>2 DEF ValidationInv
  <2>7. CASE item # Len(R)
    <3>1. ItemInv'
      BY <1>1, <2>1, <2>2, <2>7 DEF ItemInv
    <3>2. item' - 1 = item
      BY <1>1, <2>1, <2>7
    <3>3. FoundInv'
      BY <1>1, <2>1, <2>2, <2>3, <2>7, <3>2
         DEF FoundInv, AfterBounds, AfterCapabilities, AfterSteps, AfterBudget
    <3> QED
      BY <2>4, <2>5, <3>1, <3>3 DEF ValidationInv
  <2> QED
    BY <2>6, <2>7
<1> QED
  BY <1>2, <1>3

(* The hash, last: by then the plan is well bounded.                       *)
LEMMA HashKeeps ==
    ASSUME ValidationInv, CheckHash PROVE ValidationInv'
<1> DEFINE n == Len(plan.steps)
           R == plan.fallback_references
<1>1. /\ checking = "hash"
      /\ R # <<>> => plan.completion_policy = "AllowDeclaredFallbackCompletion"
      /\ n \in 1..plan.declared_max_step_count
      /\ CapabilitiesUsableTo(Len(plan.referenced_capabilities))
      /\ IndexTo(n) /\ StepsConformTo(n) /\ total = BudgetThrough[n]
      /\ total <= plan.max_duration_budget_ms
      /\ FallbacksLaterTo(Len(R))
  BY DEF CheckHash, ValidationInv, FoundInv, AfterBounds, AfterCapabilities,
         AfterSteps, AfterBudget
<1>2. WellBounded
  <2>1. CapabilitiesUsable
    BY <1>1, CapabilitiesLoop
  <2>2. StepsBounded
    BY <1>1, StepsAreBounded
  <2>3. FallbacksForward
    BY <1>1, FallbacksLoop
  <2>4. BudgetThrough[n] <= plan.max_duration_budget_ms
    BY <1>1
  <2> QED
    BY <2>1, <2>2, <2>3, <2>4 DEF WellBounded
<1>3. CASE ~Unaltered
  BY <1>2, <1>3, DenyKeeps DEF CheckHash, Unaltered
<1>4. CASE Unaltered
  <2>1. checking' = "valid" /\ UNCHANGED <<submission, item, total, index, reason>>
    BY <1>4 DEF CheckHash, Unaltered
  <2>2. /\ plan' = plan /\ BudgetThrough' = BudgetThrough
        /\ WellBounded' = WellBounded /\ Unaltered' = Unaltered
        /\ (\A m : CapabilitiesUsableTo(m)' = CapabilitiesUsableTo(m))
        /\ (\A m : StepsConformTo(m)' = StepsConformTo(m))
        /\ (\A m : IndexTo(m)' = IndexTo(m))
        /\ (\A m : FallbacksLaterTo(m)' = FallbacksLaterTo(m))
    BY <2>1, SubmissionFixed, IndexFixed
  <2>3. ValidationTypeOK' /\ (submission \in Submissions)'
    BY <2>1 DEF ValidationInv, ValidationTypeOK
  <2>4. ItemInv'
    BY <2>1 DEF ItemInv
  <2>5. FoundInv'
    BY <1>1, <2>1, <2>2
       DEF FoundInv, AfterBounds, AfterCapabilities, AfterSteps, AfterBudget
  <2>6. VerdictIsExact'
    BY <1>2, <1>4, <2>1, <2>2 DEF VerdictIsExact, Unaltered
  <2> QED
    BY <2>3, <2>4, <2>5, <2>6 DEF ValidationInv
<1> QED
  BY <1>3, <1>4

(* A validation starts with everything still to be checked.                *)
LEMMA InitValidationInv == ValidationInit => ValidationInv
<1> SUFFICES ASSUME ValidationInit PROVE ValidationInv
  OBVIOUS
<1>1. ValidationTypeOK /\ submission \in Submissions
  BY SubmissionAssumption DEF ValidationInit, ValidationTypeOK
<1>2. ItemInv /\ FoundInv /\ VerdictIsExact
  BY DEF ValidationInit, ItemInv, FoundInv, VerdictIsExact, AfterBounds,
         AfterCapabilities, AfterSteps, AfterBudget
<1> QED
  BY <1>1, <1>2 DEF ValidationInv

(* Every check keeps the invariant.                                        *)
LEMMA StepValidationInv ==
    ASSUME ValidationInv, [ValidationNext]_validationVars PROVE ValidationInv'
<1>1. CASE UNCHANGED validationVars
  <2>1. UNCHANGED <<submission, checking, item, total, index, reason>>
    BY <1>1 DEF validationVars
  <2>2. /\ plan' = plan /\ BudgetThrough' = BudgetThrough
        /\ WellBounded' = WellBounded /\ Unaltered' = Unaltered
        /\ CapabilitiesUsable' = CapabilitiesUsable
        /\ (\A m : CapabilitiesUsableTo(m)' = CapabilitiesUsableTo(m))
        /\ (\A m : StepsConformTo(m)' = StepsConformTo(m))
        /\ (\A m : IndexTo(m)' = IndexTo(m))
        /\ (\A m : FallbacksLaterTo(m)' = FallbacksLaterTo(m))
    BY <2>1, SubmissionFixed, IndexFixed
  <2>3. ValidationTypeOK' /\ (submission \in Submissions)' /\ ItemInv'
    BY <2>1, <2>2 DEF ValidationInv, ValidationTypeOK, ItemInv
  <2>4. FoundInv'
    BY <2>1, <2>2 DEF ValidationInv, FoundInv, AfterBounds, AfterCapabilities,
                      AfterSteps, AfterBudget
  <2>5. VerdictIsExact'
    BY <2>1, <2>2 DEF ValidationInv, VerdictIsExact, Unaltered
  <2> QED
    BY <2>3, <2>4, <2>5 DEF ValidationInv
<1> QED
  BY <1>1, BoundsKeeps, CapabilityKeeps, StepKeeps, BudgetKeeps, FallbackKeeps,
     HashKeeps DEF ValidationNext

(* The invariant holds in every state of a validation.                     *)
THEOREM ValidationInvariance == ValidationSpec => []ValidationInv
<1>1. ValidationInv /\ [ValidationNext]_validationVars => ValidationInv'
  BY StepValidationInv
<1> QED
  BY InitValidationInv, <1>1, PTL DEF ValidationSpec

(* The chain of checks accepts exactly the plans that are well bounded and *)
(* unaltered, and denies for a reason that holds, for plans of every       *)
(* length and every width of the integers (ExecutionPlanValidator).        *)
THEOREM VerdictIsAlwaysExact == ValidationSpec => []VerdictIsExact
<1>1. ValidationInv => VerdictIsExact
  BY DEF ValidationInv
<1> QED
  BY ValidationInvariance, <1>1, PTL

(* What equal hashes say of two plans: the same steps and policy, and the  *)
(* same fallback references in some order (CanonicalExecutionPlan).        *)
LEMMA CanonicalTells ==
    ASSUME NEW p \in PlanShape, NEW q \in PlanShape, Canonical(p) = Canonical(q)
    PROVE  /\ p.steps = q.steps /\ p.cancellation_policy = q.cancellation_policy
           /\ \A k \in DOMAIN p.fallback_references :
                 \E l \in DOMAIN q.fallback_references :
                    p.fallback_references[k] = q.fallback_references[l]
           /\ \A l \in DOMAIN q.fallback_references :
                 \E k \in DOMAIN p.fallback_references :
                    q.fallback_references[l] = p.fallback_references[k]
<1> DEFINE F(r) == {r.fallback_references[k] : k \in DOMAIN r.fallback_references}
           C(r) == {r.referenced_capabilities[k] : k \in DOMAIN r.referenced_capabilities}
<1>1. \A r \in PlanShape :
         /\ Canonical(r).steps = r.steps
         /\ Canonical(r).cancellation_policy = r.cancellation_policy
         /\ Canonical(r).fallback_references = F(r)
  <2>1. SUFFICES ASSUME NEW r \in PlanShape
                 PROVE  /\ Canonical(r).steps = r.steps
                        /\ Canonical(r).cancellation_policy = r.cancellation_policy
                        /\ Canonical(r).fallback_references = F(r)
    OBVIOUS
  <2>2. Canonical(r) = [r EXCEPT !.referenced_capabilities = C(r),
                                 !.fallback_references = F(r)]
    BY DEF Canonical
  <2> HIDE DEF C, F
  <2> QED
    BY <2>2 DEF PlanShape
<1>2. p.steps = q.steps /\ p.cancellation_policy = q.cancellation_policy
  BY <1>1
<1>3. F(p) = F(q)
  <2> HIDE DEF F
  <2> QED
    BY <1>1
<1> QED
  BY <1>2, <1>3

(* The hash pins the delivery: what is accepted is delivered the way the   *)
(* signed plan would be, unless a step has two fallback references         *)
(* (compute_stable_plan_hash, declared_fallback_step).                     *)
THEOREM HashAlwaysPins == ValidationSpec => []HashPinsDelivery
<1>1. ValidationInv => HashPinsDelivery
  <2>1. SUFFICES ASSUME ValidationInv, checking = "valid" PROVE HashPinsDelivery
    BY DEF HashPinsDelivery
  <2> DEFINE p == submission.signed
             P == p.fallback_references
             Q == plan.fallback_references
  <2>2. p \in PlanShape /\ plan \in PlanShape
    BY <2>1 DEF ValidationInv, ValidationTypeOK, SubmissionShape, plan
  <2>3. Canonical(p) = Canonical(plan)
    BY <2>1 DEF ValidationInv, VerdictIsExact
  <2>4. /\ p.steps = plan.steps /\ p.cancellation_policy = plan.cancellation_policy
        /\ \A k \in DOMAIN P : \E l \in DOMAIN Q : P[k] = Q[l]
        /\ \A l \in DOMAIN Q : \E k \in DOMAIN P : Q[l] = P[k]
    BY <2>2, <2>3, CanonicalTells
  <2>5. ASSUME NEW s \in StepIds, \A k, l \in ReferencesOf(plan, s) : k = l
        PROVE  FirstFallback(p, s) = FirstFallback(plan, s)
    <3> DEFINE A == ReferencesOf(p, s)
               B == ReferencesOf(plan, s)
    <3>1. \A k \in A : \E l \in B : P[k] = Q[l]
      BY <2>4 DEF ReferencesOf
    <3>2. \A l \in B : \E k \in A : Q[l] = P[k]
      BY <2>4 DEF ReferencesOf
    <3>3. A \subseteq Nat /\ B \subseteq Nat
      <4>1. P \in Seq(ReferenceShape) /\ Q \in Seq(ReferenceShape)
        BY <2>2 DEF PlanShape
      <4>2. DOMAIN P \subseteq Nat /\ DOMAIN Q \subseteq Nat
        BY <4>1
      <4> QED
        BY <4>2 DEF ReferencesOf
    <3>4. FirstFallback(p, s) =
             {P[k].fallback_step_id : k \in {j \in A : \A l \in A : j <= l}}
          /\ FirstFallback(plan, s) =
             {Q[k].fallback_step_id : k \in {j \in B : \A l \in B : j <= l}}
      BY DEF FirstFallback
    <3>5. CASE B = {}
      BY <3>1, <3>4, <3>5
    <3>6. CASE B # {}
      <4>1. PICK b \in B : B = {b}
        BY <2>5, <3>6
      <4>2. \A k \in A : P[k] = Q[b]
        BY <3>1, <4>1
      <4>3. PICK a \in A : \A l \in A : a <= l
        <5>1. A # {}
          BY <3>2, <4>1
        <5> HIDE DEF A
        <5> QED
          BY <3>3, <5>1, LeastOf
      <4>4. FirstFallback(p, s) = {Q[b].fallback_step_id}
        <5> HIDE DEF A, B
        <5> QED
          BY <3>4, <4>2, <4>3
      <4>5. FirstFallback(plan, s) = {Q[b].fallback_step_id}
        <5>1. b <= b
          BY <3>3, <4>1
        <5> HIDE DEF A, B
        <5> QED
          BY <3>4, <4>1, <5>1
      <4> QED
        BY <4>4, <4>5
    <3> QED
      BY <3>5, <3>6
  <2> QED
    BY <2>4, <2>5 DEF HashPinsDelivery
<1> QED
  BY ValidationInvariance, <1>1, PTL
=============================================================================
