--------------------------- MODULE MCGnatDispatch ---------------------------
(* One or two shards over two ids and two worker types, of which one is    *)
(* authorized.  Every list of shards meets every declaration of worker     *)
(* types; the flaws of an envelope come one at a time, and so does what a  *)
(* ready FA Local lacks.                                                   *)
EXTENDS GnatDispatch

ShardLists == UNION {[1..n -> Shards] : n \in 1..2}

GoodEnvelopes ==
    {[surface |-> TRUE, wideRunId |-> FALSE, shards |-> s, worker_types |-> w,
      supported_contract_versions |-> Versions, serial_fallback_allowed |-> f] :
        s \in ShardLists, w \in SUBSET WorkerTypes \ {{}}, f \in BOOLEAN}

FallbackEnvelopes == {e \in GoodEnvelopes : e.serial_fallback_allowed}

MCEnvelopes ==
    GoodEnvelopes
    \cup {[e EXCEPT !.surface = FALSE] : e \in FallbackEnvelopes}
    \cup {[e EXCEPT !.wideRunId = TRUE] : e \in FallbackEnvelopes}

Ready ==
    [fa_local_state |-> "Ready", supported_contract_versions |-> Versions,
     admitted_worker_types |-> WorkerTypes, cancellation_supported |-> TRUE]

MCCapabilityStates ==
    {Ready,
     [Ready EXCEPT !.fa_local_state = "Degraded"],
     [Ready EXCEPT !.supported_contract_versions = {}],
     [Ready EXCEPT !.cancellation_supported = FALSE],
     [fa_local_state |-> "Unavailable", supported_contract_versions |-> {},
      admitted_worker_types |-> {}, cancellation_supported |-> FALSE]}
    \cup {[Ready EXCEPT !.admitted_worker_types = {w}] : w \in WorkerTypes}
=============================================================================
