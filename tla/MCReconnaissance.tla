-------------------------- MODULE MCReconnaissance --------------------------
(***************************************************************************)
(* Corpora of four documents, listed in path order and not, one of each    *)
(* kind or not; donors of every disposition and two topologies to choose   *)
(* from.                                                                   *)
(***************************************************************************)
EXTENDS Reconnaissance

Donor(id, proven, allowed, prohibited, blockers) ==
    [capability_id |-> id, behavior_proven |-> proven, allowed_modes |-> allowed,
     prohibited_modes |-> prohibited, blockers |-> blockers]

Held == Donor(1, TRUE, {"InterfaceReuse", "Vendoring"}, {"InterfaceReuse"}, {"licence"})
Qualified == Donor(2, TRUE, {"ServiceConsumption", "Vendoring"}, {}, {})
Unproven == Donor(3, FALSE, {"ServiceConsumption"}, {}, {"untested"})
Prohibited == Donor(4, TRUE, {"DirectDependency"}, {"DirectDependency"}, {})
OnHold == Donor(5, TRUE, {"Hold", "Reject"}, {}, {"owner"})

Donors(list) == [kind |-> "donor_evidence", size |-> 2, donors |-> list]

Target(new, separate, owned) ==
    [kind |-> "target_brief", size |-> 1, application |-> "app", new_application |-> new,
     separate_actors |-> separate, owned |-> owned]

Option(id, rank, new, separate, blockers) ==
    [topology_id |-> id, complexity_rank |-> rank, supports_new_application |-> new,
     separate_actors |-> separate, hard_blockers |-> blockers]

Topologies(options) == [kind |-> "topology_options", size |-> 2, options |-> options]

Single == Option(1, 1, TRUE, FALSE, {})
Split == Option(2, 2, TRUE, TRUE, {})
Blocked == Option(3, 0, TRUE, TRUE, {"no budget"})

NoOptions == [kind |-> "topology_options", size |-> 2]

Constraints == [kind |-> "constraints", size |-> 1, critical_blockers |-> {"review"}]

Member(path, content) == [path |-> path, sha256 |-> content, size_bytes |-> content.size]

Corpus(target, donors, topologies) ==
    <<Member(1, target), Member(2, donors), Member(3, topologies), Member(4, Constraints)>>

Good == Corpus(Target(TRUE, FALSE, TRUE), Donors(<<Unproven, Held, Qualified>>),
               Topologies(<<Split, Blocked, Single>>))

MCCorpora ==
    {Good,
     <<Good[4], Good[2], Good[1], Good[3]>>,
     Corpus(Target(TRUE, TRUE, TRUE), Donors(<<Prohibited, OnHold, Qualified>>),
            Topologies(<<Split, Single>>)),
     Corpus(Target(FALSE, TRUE, TRUE), Donors(<<Unproven, Prohibited>>),
            Topologies(<<Split, Single>>)),
     Corpus(Target(FALSE, FALSE, TRUE), Donors(<<Qualified, Qualified>>),
            Topologies(<<Single>>)),
     Corpus(Target(TRUE, FALSE, TRUE), Donors(<<Qualified>>), Topologies(<<Blocked>>)),
     Corpus(Target(TRUE, FALSE, FALSE), Donors(<<Held>>), Topologies(<<Single>>)),
     <<Good[1], Good[2], Good[3]>>,
     <<Good[1], Good[2], Good[3], Member(4, Target(TRUE, FALSE, TRUE))>>,
     <<Good[1], Good[2], Member(3, NoOptions), Good[4]>>,
     <<Good[1], Good[2], Good[3], Good[3]>>,
     <<Good[1], Good[2], Good[3], Member(5, Constraints)>>,
     <<Good[1], Good[2], Good[3], Member(4, Donors(<<Held>>))>>,
     Append(Good, Member(5, Constraints)),
     <<>>}

(* Overwritten by another document of the same size, or of another size.   *)
MCContents == {Donors(<<Qualified>>), Target(FALSE, FALSE, FALSE), Missing}

Call(authority, capability, plan, posture, flags, same, application, completed) ==
    [authority |-> authority, capability |-> capability, plan |-> plan,
     posture |-> posture, flags |-> flags, same_request |-> same,
     application |-> application, started |-> 1, completed |-> completed]

MCCalls ==
    {Call(TRUE, TRUE, "authorized", "PolicyPreapproved", TRUE, TRUE, "app", 1),
     Call(TRUE, TRUE, "authorized", "PolicyPreapproved", TRUE, TRUE, "app", 0),
     Call(TRUE, TRUE, "authorized", "PolicyPreapproved", TRUE, TRUE, "other", 1),
     Call(TRUE, TRUE, "authorized", "ExecuteAllowed", TRUE, TRUE, "app", 1),
     Call(TRUE, FALSE, "authorized", "PolicyPreapproved", TRUE, TRUE, "app", 1),
     Call(TRUE, TRUE, "invalid", "PolicyPreapproved", TRUE, TRUE, "app", 1),
     Call(TRUE, TRUE, "other_steps", "PolicyPreapproved", TRUE, TRUE, "app", 1),
     Call(TRUE, TRUE, "broader_scope", "PolicyPreapproved", TRUE, TRUE, "app", 1),
     Call(TRUE, TRUE, "authorized", "PolicyPreapproved", FALSE, TRUE, "app", 1),
     Call(TRUE, TRUE, "authorized", "PolicyPreapproved", TRUE, FALSE, "app", 1),
     Call(FALSE, TRUE, "authorized", "PolicyPreapproved", TRUE, TRUE, "app", 1)}
=============================================================================
