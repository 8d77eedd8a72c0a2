---------------------------- MODULE Reconnaissance ----------------------------
(***************************************************************************)
(* One reuse reconnaissance: ReuseReconnaissanceService::run, which admits *)
(* the run, reads the sealed corpus with SealedCorpusReadAdapter, has      *)
(* DeterministicReuseReconnaissanceEngine analyze it and reports the       *)
(* completed plan through the coordinator.                                 *)
(*                                                                         *)
(* The corpus lies in files.  Another process may rewrite them, or the     *)
(* manifest, or put a link in place of a file, between any two of the      *)
(* reader's steps; the only thing that ties the run to the corpus that was *)
(* sealed is the aggregate digest in its input.                            *)
(*                                                                         *)
(* A digest is represented by the content it is taken of, a member's path  *)
(* by its place in the order of paths.                                     *)
(***************************************************************************)
EXTENDS Integers, Sequences, FiniteSetsExt, Functions

CONSTANTS
    Paths,          \* the paths a manifest may name
    ForbiddenPaths, \* those that leave the root or name the hidden oracle
    Corpora,        \* the manifests: sequences of [path, sha256, size_bytes]
    Contents,       \* what a file may be overwritten with
    Calls,          \* what the caller passes besides the corpus
    MaxTotalBytes,  \* the request's bound on the corpus
    MaxMemberBytes, \* the reader's bound on one member
    MaxMemberCount, \* and on their number
    MaxRewrites     \* how often another process interferes

(* What the checks before the first read find.                             *)
CallShape ==
    [authority : BOOLEAN,    \* the input denies network, model, mutation, oracle
     capability : BOOLEAN,   \* a registered local_file_read without side effects
     plan : {"authorized", "invalid", "other_steps", "broader_scope"},
     posture : STRING,       \* of the route decision
     flags : BOOLEAN,        \* the decision's flags agree with its posture
     same_request : BOOLEAN, \* the plan is of the decision's request
     application : STRING,   \* the target, and its posture, that the input names
     started : Nat, completed : Nat]

ASSUME InputAssumption ==
    /\ Paths \subseteq Nat
    /\ ForbiddenPaths \subseteq Paths
    /\ Calls \subseteq CallShape
    /\ \A corpus \in Corpora :
          /\ corpus \in Seq(Range(corpus))
          /\ \A m \in Range(corpus) : m.path \in Paths /\ m.size_bytes \in Nat
    /\ {MaxTotalBytes, MaxMemberBytes, MaxMemberCount, MaxRewrites} \subseteq Nat

VARIABLES
    call,      \* the caller's arguments
    sealed,    \* the corpus whose aggregate the input names
    manifest,  \* the manifest on disk
    files,     \* the files on disk: what a read of each path yields
    rewrites,  \* how often another process interfered
    pc,        \* where run() stands
    members,   \* the manifest as it was read, in the order of paths
    documents, \* the documents read
    total,     \* the bytes of the members checked so far
    result,    \* the frozen result
    told       \* the final state of the execution trace

vars == <<call, sealed, manifest, files, rewrites, pc, members, documents, total, result,
          told>>
inputs == <<call, sealed>>
disk == <<manifest, files, rewrites>>

Missing == [kind |-> "missing", size |-> 0]

File(content, link) == [content |-> content, link |-> link]

NoResult == [corpus |-> <<>>]

(* What is sorted before the i-th item, and what a stable sort by integer  *)
(* keys, as sort_by is, makes of those items that were chosen.             *)
Before(chosen, key, i) ==
    {j \in chosen : key[j] < key[i] \/ (key[j] = key[i] /\ j < i)}

Arrange(s, chosen, key) ==
    [k \in 1..Cardinality(chosen) |->
        s[CHOOSE i \in chosen : Cardinality(Before(chosen, key, i)) = k - 1]]

ByPath(corpus) ==
    Arrange(corpus, DOMAIN corpus, [i \in DOMAIN corpus |-> corpus[i].path])

Init ==
    /\ call \in Calls
    /\ sealed \in Corpora
    /\ manifest = sealed
    /\ files = [p \in Paths |->
                  IF \E i \in DOMAIN sealed : sealed[i].path = p
                  THEN File((CHOOSE m \in Range(sealed) : m.path = p).sha256, FALSE)
                  ELSE File(Missing, FALSE)]
    /\ rewrites = 0
    /\ pc = "admit"
    /\ members = <<>>
    /\ documents = <<>>
    /\ total = 0
    /\ result = NoResult
    /\ told = "nothing"

(* An error ends the run, and nothing of it is returned.                   *)
Fail ==
    /\ pc' = "failed"
    /\ UNCHANGED <<members, documents, total, result, told>>

-----------------------------------------------------------------------------
(* validate_cp1_plan_shape: the six authorized steps in their order, and   *)
(* no capability, side effect or fallback beyond the corpus reader's.      *)
PlanShapeHolds == call.plan \notin {"other_steps", "broader_scope"}

(* validate_authority_boundary, the capability, the plan, and a            *)
(* policy_preapproved route that RoutingService finds executable.          *)
Admitted ==
    /\ call.authority
    /\ call.capability
    /\ call.plan # "invalid" /\ PlanShapeHolds
    /\ call.posture = "PolicyPreapproved"
    /\ call.flags
    /\ call.same_request

Admit ==
    /\ pc = "admit"
    /\ IF Admitted
       THEN pc' = "manifest" /\ UNCHANGED <<members, documents, total, result, told>>
       ELSE Fail
    /\ UNCHANGED <<inputs, disk>>

-----------------------------------------------------------------------------
(* SealedCorpusReadAdapter::read_candidate_visible.                        *)

(* The manifest is read whole, and its members are taken in path order;    *)
(* one that is no file inside the root, does not parse or has another      *)
(* identity or exposure class is refused.                                  *)
ReadManifest ==
    /\ pc = "manifest"
    /\ \/ /\ Len(manifest) \in 1..MaxMemberCount
          /\ members' = ByPath(manifest)
          /\ pc' = "check"
          /\ UNCHANGED <<documents, total, result, told>>
       \/ Fail
    /\ UNCHANGED <<inputs, disk>>

NextMember == members[Len(documents) + 1]

(* validate_relative_path, reject_oracle_component.                        *)
PathHolds(p) == p \notin ForbiddenPaths

(* confined_regular_file: there, and not a link.                           *)
ConfinedRegularFile(p) == ~files[p].link /\ files[p].content # Missing

(* Before a member is read: its path, which no other member has; that it   *)
(* is a regular file inside the root; and its size against the manifest    *)
(* and the bounds.                                                         *)
MemberHolds(m) ==
    /\ \A i \in 1..Len(documents) : members[i].path # m.path
    /\ PathHolds(m.path)
    /\ ConfinedRegularFile(m.path)
    /\ files[m.path].content.size = m.size_bytes
    /\ m.size_bytes <= MaxMemberBytes
    /\ total + m.size_bytes <= MaxTotalBytes

CheckMember ==
    /\ pc = "check"
    /\ IF MemberHolds(NextMember)
       THEN /\ total' = total + NextMember.size_bytes
            /\ pc' = "read"
            /\ UNCHANGED <<members, documents, result, told>>
       ELSE Fail
    /\ UNCHANGED <<inputs, disk>>

(* A plausible slip: the size was checked, so the digest is not.           *)
BugDigestHolds(m, content) == content # Missing /\ content.size = m.size_bytes

DigestHolds(m, content) == content # Missing /\ content = m.sha256

Accept(content) ==
    /\ documents' = Append(documents, content)
    /\ pc' = IF Len(documents) + 1 = Len(members) THEN "analyze" ELSE "check"
    /\ UNCHANGED <<members, total, result, told>>

(* What is read is what is there by now, through a link or not; a member   *)
(* that is not UTF-8 is refused although its digest holds.                 *)
ReadMember ==
    /\ pc = "read"
    /\ LET content == files[NextMember.path].content
       IN  \/ DigestHolds(NextMember, content) /\ Accept(content)
           \/ Fail
    /\ UNCHANGED <<inputs, disk>>

-----------------------------------------------------------------------------
(* DeterministicReuseReconnaissanceEngine::analyze.                        *)

Modes == {"DirectDependency", "Vendoring", "BoundedExtraction", "InterfaceReuse",
          "TestVectorReuse", "PatternReimplementation", "ServiceConsumption", "Hold", "Reject"}

DonorShape ==
    [capability_id : Nat, behavior_proven : BOOLEAN, allowed_modes : SUBSET Modes,
     prohibited_modes : SUBSET Modes, blockers : SUBSET STRING]

OptionShape ==
    [topology_id : Nat, complexity_rank : Nat, supports_new_application : BOOLEAN,
     separate_actors : BOOLEAN, hard_blockers : SUBSET STRING]

(* The documents that can be deserialized.                                 *)
DocumentShape ==
    [kind : {"target_brief"}, size : Nat, application : STRING, new_application : BOOLEAN,
     separate_actors : BOOLEAN, owned : BOOLEAN]
    \union [kind : {"donor_evidence"}, size : Nat, donors : Seq(DonorShape)]
    \union [kind : {"topology_options"}, size : Nat, options : Seq(OptionShape)]
    \union [kind : {"constraints"}, size : Nat, critical_blockers : SUBSET STRING]

Kinds == {"target_brief", "donor_evidence", "topology_options", "constraints"}

(* One document of every kind, and no other.                               *)
KindsHold(docs) ==
    /\ \A i \in DOMAIN docs : docs[i] \in DocumentShape
    /\ \A k \in Kinds : Cardinality({i \in DOMAIN docs : docs[i].kind = k}) = 1

TheDocument(docs, k) == docs[CHOOSE i \in DOMAIN docs : docs[i].kind = k]

(* The ways to reuse, the preferred ones first.                            *)
ReuseModes == <<"ServiceConsumption", "InterfaceReuse", "BoundedExtraction", "TestVectorReuse",
                "PatternReimplementation", "DirectDependency", "Vendoring">>

(* A plausible slip: a prohibition is only heeded where it is the only one.*)
BugSelectReuseMode(donor) ==
    LET open == {i \in DOMAIN ReuseModes : ReuseModes[i] \in donor.allowed_modes}
    IN  IF ~donor.behavior_proven \/ open = {} THEN "Reject" ELSE ReuseModes[Min(open)]

(* select_reuse_mode: the first mode that the evidence allows and nothing  *)
(* prohibits.                                                              *)
SelectReuseMode(donor) ==
    LET open == {i \in DOMAIN ReuseModes :
                    ReuseModes[i] \in donor.allowed_modes \ donor.prohibited_modes}
    IN  IF ~donor.behavior_proven \/ open = {} THEN "Reject" ELSE ReuseModes[Min(open)]

ClassifyDonor(donor) ==
    [capability_id |-> donor.capability_id,
     reuse_mode |-> SelectReuseMode(donor),
     blockers |-> donor.blockers,
     disposition |-> IF SelectReuseMode(donor) = "Reject" THEN "Rejected"
                     ELSE IF donor.blockers = {} THEN "QualifiedCandidate"
                     ELSE "Held"]

Candidates(donors) ==
    Arrange([i \in DOMAIN donors |-> ClassifyDonor(donors[i])], DOMAIN donors,
            [i \in DOMAIN donors |-> donors[i].capability_id])

(* The donors that stay in the blueprint.                                  *)
Kept(candidates) ==
    Arrange([i \in DOMAIN candidates |-> candidates[i].capability_id],
            {i \in DOMAIN candidates : candidates[i].disposition # "Rejected"},
            [i \in DOMAIN candidates |-> i])

Eligible(target, options) ==
    {i \in DOMAIN options :
        /\ options[i].hard_blockers = {}
        /\ target.new_application => options[i].supports_new_application
        /\ target.separate_actors => options[i].separate_actors}

(* select_topology: the first of the eligible options when they are sorted *)
(* by complexity, then by id.                                              *)
ComesFirst(options, i, j) ==
    \/ options[i].complexity_rank < options[j].complexity_rank
    \/ /\ options[i].complexity_rank = options[j].complexity_rank
       /\ \/ options[i].topology_id < options[j].topology_id
          \/ options[i].topology_id = options[j].topology_id /\ i <= j

SelectTopology(target, options) ==
    LET eligible == Eligible(target, options)
    IN  options[CHOOSE i \in eligible : \A j \in eligible : ComesFirst(options, i, j)]

Assess(option, selected) ==
    [topology_id |-> option.topology_id, hard_blockers |-> option.hard_blockers,
     selected |-> option.topology_id = selected.topology_id]

Alternatives(options, selected) ==
    Arrange([i \in DOMAIN options |-> Assess(options[i], selected)], DOMAIN options,
            [i \in DOMAIN options |-> options[i].topology_id])

ResultOf(corpus, docs) ==
    LET target == TheDocument(docs, "target_brief")
        options == TheDocument(docs, "topology_options").options
        candidates == Candidates(TheDocument(docs, "donor_evidence").donors)
        selected == SelectTopology(target, options)
    IN  [corpus |-> corpus,
         donor_candidates |-> candidates,
         critical_blockers |-> UNION {c.blockers : c \in Range(candidates)}
                                 \union TheDocument(docs, "constraints").critical_blockers,
         alternatives |-> Alternatives(options, selected),
         selected_topology |-> selected.topology_id,
         donor_capability_ids |-> Kept(candidates)]

(* The schema of the result: donors are there, those kept are at least one *)
(* and different, and the execution owner is FA Local.                     *)
SchemaHolds(r, target) ==
    /\ Len(r.donor_capability_ids) > 0
    /\ IsInjective(r.donor_capability_ids)
    /\ target.owned

(* A plausible slip: a corpus that is whole in itself is good enough.      *)
BugAnalysisHolds ==
    /\ KindsHold(documents)
    /\ LET target == TheDocument(documents, "target_brief")
           options == TheDocument(documents, "topology_options").options
       IN  /\ target.application = call.application
           /\ Eligible(target, options) # {}
           /\ SchemaHolds(ResultOf(members, documents), target)

(* The aggregate, the documents, the target binding, a topology; then the  *)
(* result is frozen with its own hash.                                     *)
AnalysisHolds ==
    /\ members = ByPath(sealed)
    /\ KindsHold(documents)
    /\ LET target == TheDocument(documents, "target_brief")
           options == TheDocument(documents, "topology_options").options
       IN  /\ target.application = call.application
           /\ Eligible(target, options) # {}
           /\ SchemaHolds(ResultOf(members, documents), target)

Analyze ==
    /\ pc = "analyze"
    /\ IF AnalysisHolds
       THEN /\ result' = ResultOf(members, documents)
            /\ pc' = "coordinate"
            /\ UNCHANGED <<members, documents, total, told>>
       ELSE Fail
    /\ UNCHANGED <<inputs, disk>>

(* CompleteDeclaredPlan, which the coordinator refuses when the plan would *)
(* have completed before it started; then the result is lost as well.      *)
CoordinateCompletion ==
    /\ pc = "coordinate"
    /\ IF call.started <= call.completed
       THEN /\ told' = "Completed"
            /\ pc' = "returned"
            /\ UNCHANGED <<members, documents, total, result>>
       ELSE Fail
    /\ UNCHANGED <<inputs, disk>>

-----------------------------------------------------------------------------
(* Another process overwrites a member, replaces it by a link to other     *)
(* content, or installs another manifest.                                  *)
RewriteMember(p, content, link) ==
    /\ rewrites < MaxRewrites
    /\ rewrites' = rewrites + 1
    /\ files' = [files EXCEPT ![p] = File(content, link)]
    /\ UNCHANGED <<inputs, manifest, pc, members, documents, total, result, told>>

RewriteManifest(corpus) ==
    /\ rewrites < MaxRewrites
    /\ rewrites' = rewrites + 1
    /\ manifest' = corpus
    /\ UNCHANGED <<inputs, files, pc, members, documents, total, result, told>>

Run == \/ Admit \/ ReadManifest \/ CheckMember \/ ReadMember
       \/ Analyze \/ CoordinateCompletion

(* Interference that nobody can see any more is left out: the manifest is  *)
(* read once, and after the last member nothing is.                        *)
Interference ==
    \/ /\ pc \in {"manifest", "check", "read"}
       /\ \E p \in Paths, content \in Contents, link \in BOOLEAN :
             RewriteMember(p, content, link)
    \/ /\ pc = "manifest"
       /\ \E corpus \in Corpora : RewriteManifest(corpus)

Next == Run \/ Interference

(* The service runs by itself to its end; nobody has to interfere.         *)
Spec == Init /\ [][Next]_vars

-----------------------------------------------------------------------------
(* Every variable has its type.                                            *)
TypeOK ==
    /\ call \in Calls
    /\ sealed \in Corpora
    /\ manifest \in Corpora
    /\ \A p \in Paths : files[p].link \in BOOLEAN
    /\ rewrites \in 0..MaxRewrites
    /\ pc \in {"admit", "manifest", "check", "read", "analyze", "coordinate",
              "returned", "failed"}
    /\ Len(documents) <= Len(members)
    /\ total \in Nat
    /\ pc \in {"check", "read"} => Len(documents) < Len(members)
    /\ told \in {"nothing", "Completed"}

(* The running sums of the sizes that a list of members declares.          *)
BytesThrough(corpus) ==
    LET sum[k \in 0..Len(corpus)] ==
            IF k = 0 THEN 0 ELSE sum[k - 1] + corpus[k].size_bytes
    IN  sum

(* A result is only ever made of the corpus that was sealed: whatever      *)
(* another process did to the files and the manifest while they were       *)
(* checked and read, the documents that were analyzed are the sealed ones, *)
(* all of them, none twice, none from a forbidden path, and within the     *)
(* bounds on the corpus; and completion is told only with such a result.   *)
OnlySealedIsAnalyzed ==
    result # NoResult \/ told = "Completed" =>
        /\ result # NoResult
        /\ Len(documents) = Len(sealed)
        /\ Range(documents) = {m.sha256 : m \in Range(sealed)}
        /\ IsInjective([i \in DOMAIN sealed |-> sealed[i].path])
        /\ \A m \in Range(sealed) :
              m.path \notin ForbiddenPaths /\ m.size_bytes <= MaxMemberBytes
        /\ BytesThrough(sealed)[Len(sealed)] <= MaxTotalBytes

SealedDocument(k) == (CHOOSE m \in Range(sealed) : m.sha256.kind = k).sha256

(* The ways in which the evidence lets a donor be reused.                  *)
Ways(donor) ==
    IF donor.behavior_proven
    THEN donor.allowed_modes \ (donor.prohibited_modes \union {"Hold", "Reject"})
    ELSE {}

(* A topology that nothing blocks and that the target can be built in.     *)
Suits(option, target) ==
    /\ option.hard_blockers = {}
    /\ ~target.new_application \/ option.supports_new_application
    /\ ~target.separate_actors \/ option.separate_actors

(* What the result claims is borne out by the sealed documents, and by     *)
(* them alone: no donor is reused in a way that is unproven or prohibited, *)
(* none is open while it has blockers, every blocker is among the critical *)
(* ones, a donor that may be reused is in the blueprint and no other is,   *)
(* and the topology suits the target, has no blockers, and is the simplest *)
(* that does.                                                              *)
ResultIsSound ==
    result # NoResult =>
        LET donors == Range(SealedDocument("donor_evidence").donors)
            options == Range(SealedDocument("topology_options").options)
            target == SealedDocument("target_brief")
        IN  /\ \A c \in Range(result.donor_candidates) :
                  \E d \in donors :
                     /\ d.capability_id = c.capability_id
                     /\ c.reuse_mode \in (IF Ways(d) = {} THEN {"Reject"} ELSE Ways(d))
                     /\ c.disposition = "QualifiedCandidate" => d.blockers = {}
            /\ \A d \in donors : d.blockers \subseteq result.critical_blockers
            /\ Range(result.donor_capability_ids) =
                  {d.capability_id : d \in {e \in donors : Ways(e) # {}}}
            /\ \E o \in options :
                  /\ o.topology_id = result.selected_topology
                  /\ Suits(o, target)
                  /\ \A other \in options :
                        Suits(other, target) => o.complexity_rank <= other.complexity_rank
            /\ \E a \in Range(result.alternatives) :
                  a.selected /\ a.topology_id = result.selected_topology
=============================================================================
