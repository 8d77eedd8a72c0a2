---------------------------- MODULE GnatDispatch ----------------------------
(***************************************************************************)
(* One Gnat run that Cortex hands to FA Local:                             *)
(* GnatDispatchPipelineService::run with GnatDispatchValidator::negotiate, *)
(* and the exit code of the gnat-dispatch command around it.               *)
(*                                                                         *)
(* The run completes every declared shard with its enrichment, negotiates  *)
(* once, and only a run that FA Local itself may route is delivered, shard *)
(* by shard in declared order.  The negotiation and every shard leave one  *)
(* forensic event, which goes to the sink when there is one; an event that *)
(* cannot be built or stored ends the run with an error and no result.     *)
(*                                                                         *)
(* One delivery is one step here; ShardDispatch opens it up.               *)
(***************************************************************************)
EXTENDS Integers, Sequences

CONSTANTS
    WorkerTypes,           \* GnatWorkerType
    AUTHORIZED_WORKER_TYPES, \* the ones a shard is dispatched for
    Versions,              \* contract versions
    ShardIds,              \* ids a shard may have
    Envelopes,             \* envelopes Cortex may send
    CapabilityStates       \* what FA Local may declare it can do

(* GnatDispatchShard: two shards may share an id, and with it the          *)
(* enrichment.                                                             *)
Shards == [shard_id : ShardIds, worker_type : WorkerTypes]

(* GnatDispatchEnvelope.  `surface` says that every field that must have   *)
(* one given value has it and that shard_count is right; `wideRunId` that  *)
(* run_id keeps within 120 characters and not within 120 bytes.            *)
EnvelopeShape ==
    [surface : BOOLEAN,
     wideRunId : BOOLEAN,
     shards : Seq(Shards),
     worker_types : SUBSET WorkerTypes,
     supported_contract_versions : SUBSET Versions,
     serial_fallback_allowed : BOOLEAN]

(* GnatFaLocalCapabilityState.                                             *)
CapabilityShape ==
    [fa_local_state : {"Ready", "Degraded", "Unavailable"},
     supported_contract_versions : SUBSET Versions,
     admitted_worker_types : SUBSET WorkerTypes,
     cancellation_supported : BOOLEAN]

(* The schema asks for at least one shard.                                 *)
ASSUME GnatAssumption ==
    /\ AUTHORIZED_WORKER_TYPES \subseteq WorkerTypes
    /\ \A e \in Envelopes : e \in EnvelopeShape /\ e.shards # <<>>
    /\ CapabilityStates \subseteq CapabilityShape

VARIABLES
    envelope,      \* the envelope of the run
    capabilities,  \* FA Local's capability state
    enrichments,   \* by shard id: none, or one whose file exists or not
    hasSink,       \* a forensic export adapter is configured
    pc,            \* where run() stands
    negotiation,   \* what negotiate returned
    results,       \* what each delivered shard came back with
    cortexRan,     \* by shard, how often Cortex's runner was spawned for it
    events,        \* forensic_events of the run
    stored         \* what the sink holds of this run

inputs == <<envelope, capabilities, enrichments, hasSink>>

vars == <<inputs, pc, negotiation, results, cortexRan, events, stored>>

Declared == DOMAIN envelope.shards

Negotiations == {"none", "Denied", "SerialFallbackPermitted", "ReadyForFaLocalDispatch"}

(* GnatReceiptState, and a state of Cortex that FA Local does not know.    *)
KnownStates == {"complete", "denied", "stale", "failed"}

NoState == "none"

(* GnatShardDispatchResult: Completed carries a complete receipt,          *)
(* NotCompleted one in any other state, DispatchUnavailable none.          *)
Result(outcome, state) == [outcome |-> outcome, receipt_state |-> state]

Unavailable == Result("DispatchUnavailable", NoState)

RunnerResults ==
    {Result("Completed", "complete"), Unavailable}
    \cup {Result("NotCompleted", s) : s \in {"denied", "stale", "failed", "unrecognized"}}

(* GnatDispatchForensicEvent; a shard is named by its place in the run.    *)
Event(type, outcome, shard, result) ==
    [event_type |-> type, negotiation_outcome |-> outcome,
     shard |-> shard, result |-> result]

NegotiationEvent(outcome) ==
    Event("GnatDispatchNegotiated", outcome, 0, Result("none", NoState))

ShardEvent(i, result) ==
    Event("GnatShardDispatched", "ReadyForFaLocalDispatch", i, result)

Init ==
    /\ envelope \in Envelopes
    /\ capabilities \in CapabilityStates
    /\ enrichments \in [ShardIds -> {"none", "file", "no_file"}]
    /\ hasSink \in BOOLEAN
    /\ pc = "requests"
    /\ negotiation = "none"
    /\ results = <<>>
    /\ cortexRan = [i \in Declared |-> 0]
    /\ events = <<>>
    /\ stored = <<>>

-----------------------------------------------------------------------------
Fail == pc' = "error" /\ UNCHANGED <<events, stored>>

(* Every declared shard needs an enrichment under its id.                  *)
BuildShardRequests ==
    /\ pc = "requests"
    /\ pc' = IF \A i \in Declared : enrichments[envelope.shards[i].shard_id] # "none"
             THEN "negotiate" ELSE "error"
    /\ UNCHANGED <<inputs, negotiation, results, cortexRan, events, stored>>

(* A plausible slip: shards are not held to the declared worker types.     *)
BugPlanSurface == envelope.surface

(* What the envelope itself must satisfy (validate_plan_surface).          *)
PlanSurface ==
    /\ envelope.surface
    /\ \A i \in Declared : envelope.shards[i].worker_type \in envelope.worker_types

(* What a ready FA Local must support (validate_supported_contracts,       *)
(* validate_worker_admission, validate_cancellation).                      *)
Supported ==
    /\ envelope.supported_contract_versions \subseteq capabilities.supported_contract_versions
    /\ envelope.worker_types \subseteq capabilities.admitted_worker_types
    /\ capabilities.cancellation_supported

(* GnatDispatchValidator::negotiate.  A ready FA Local that lacks support  *)
(* denies: the serial fallback is only for one that is not ready.          *)
NegotiationOutcome ==
    CASE ~PlanSurface -> "Denied"
      [] PlanSurface /\ capabilities.fa_local_state = "Ready" ->
            IF Supported THEN "ReadyForFaLocalDispatch" ELSE "Denied"
      [] OTHER -> IF envelope.serial_fallback_allowed
                  THEN "SerialFallbackPermitted" ELSE "Denied"

Negotiate ==
    /\ pc = "negotiate"
    /\ negotiation' = NegotiationOutcome
    /\ pc' = "record_negotiation"
    /\ UNCHANGED <<inputs, results, cortexRan, events, stored>>

(* GnatDispatchForensicEvent::validate, as far as an event of this run can *)
(* fail it: run_id is measured in bytes; bounded_summary has already cut   *)
(* the summary to its limit in characters.                                 *)
ValidEvent == ~envelope.wideRunId

(* A sink that cannot take the event ends the run; the object of a JSONL   *)
(* line is already there when only its newline cannot be written.          *)
ExportFails(e) ==
    /\ hasSink
    /\ stored' \in {stored, Append(stored, e)}
    /\ pc' = "error"
    /\ UNCHANGED events

(* A plausible slip: an event that the sink refused is still returned.     *)
BugRecord(e, next) ==
    /\ events' = Append(events, e)
    /\ stored' \in IF hasSink THEN {stored, Append(stored, e)} ELSE {stored}
    /\ pc' = next

(* record_forensic_event, after the event was built and validated.         *)
Record(e, next) ==
    \/ /\ ValidEvent
       /\ events' = Append(events, e)
       /\ stored' = IF hasSink THEN Append(stored, e) ELSE stored
       /\ pc' = next
    \/ /\ ~ValidEvent
       /\ Fail
    \/ /\ ValidEvent
       /\ ExportFails(e)

(* Only a ready run goes on to deliver.                                    *)
AfterNegotiation ==
    IF negotiation = "ReadyForFaLocalDispatch" THEN "deliver" ELSE "returned"

RecordNegotiation ==
    /\ pc = "record_negotiation"
    /\ Record(NegotiationEvent(negotiation), AfterNegotiation)
    /\ UNCHANGED <<inputs, negotiation, results, cortexRan>>

(* The shard whose turn it is; the events before it are the negotiation's  *)
(* and those of the earlier shards.                                        *)
Current == Len(events)

(* What deliver_shard refuses before it spawns anything.                   *)
Dispatchable(shard) ==
    /\ shard.worker_type \in AUTHORIZED_WORKER_TYPES
    /\ enrichments[shard.shard_id] = "file"

(* adapter.deliver_shard: without a spawn when the shard is not            *)
(* dispatchable or the descriptor or the process cannot be created.        *)
DeliverShard ==
    /\ pc = "deliver"
    /\ Current \in Declared
    /\ \/ /\ results' = Append(results, Unavailable)
          /\ UNCHANGED cortexRan
       \/ /\ Dispatchable(envelope.shards[Current])
          /\ \E r \in RunnerResults : results' = Append(results, r)
          /\ cortexRan' = [cortexRan EXCEPT ![Current] = @ + 1]
    /\ pc' = "record_shard"
    /\ UNCHANGED <<inputs, negotiation, events, stored>>

(* receipt_state_from_receipt.                                             *)
Recognized(result) == result.receipt_state \in KnownStates \cup {NoState}

(* A receipt in a state FA Local does not know cannot be recorded: the run *)
(* ends although shards ran.                                               *)
RecordShard ==
    /\ pc = "record_shard"
    /\ IF Recognized(results[Current])
       THEN Record(ShardEvent(Current, results[Current]), "deliver")
       ELSE Fail
    /\ UNCHANGED <<inputs, negotiation, results, cortexRan>>

(* Every declared shard has had its turn.                                  *)
ShardsDone == Current \notin Declared

ReturnRun ==
    /\ pc = "deliver"
    /\ ShardsDone
    /\ pc' = "returned"
    /\ UNCHANGED <<inputs, negotiation, results, cortexRan, events, stored>>

Next ==
    \/ BuildShardRequests
    \/ Negotiate
    \/ RecordNegotiation
    \/ DeliverShard
    \/ RecordShard
    \/ ReturnRun

(* run() is one sequential call; every delivery returns (ShardDispatch).   *)
Spec == Init /\ [][Next]_vars

(* A plausible slip: a shard without a receipt does not count as failed.   *)
BugExitCode ==
    IF /\ pc = "returned"
       /\ negotiation = "ReadyForFaLocalDispatch"
       /\ \A i \in DOMAIN results : results[i].outcome # "NotCompleted"
    THEN 0 ELSE 1

(* Zero only for a dispatched run whose shards all completed.              *)
ExitCode ==
    IF /\ pc = "returned"
       /\ negotiation = "ReadyForFaLocalDispatch"
       /\ \A i \in DOMAIN results : results[i].outcome = "Completed"
    THEN 0 ELSE 1

-----------------------------------------------------------------------------
(* Properties.                                                             *)

Results == RunnerResults \cup {Result("none", NoState)}

Events ==
    [event_type : {"GnatDispatchNegotiated", "GnatShardDispatched"},
     negotiation_outcome : Negotiations,
     shard : Nat,
     result : Results]

(* Every variable has its type.                                            *)
TypeOK ==
    /\ envelope \in Envelopes
    /\ capabilities \in CapabilityStates
    /\ enrichments \in [ShardIds -> {"none", "file", "no_file"}]
    /\ hasSink \in BOOLEAN
    /\ pc \in {"requests", "negotiate", "record_negotiation", "deliver",
               "record_shard", "returned", "error"}
    /\ negotiation \in Negotiations
    /\ results \in Seq(RunnerResults)
    /\ Len(results) <= Len(envelope.shards)
    /\ cortexRan \in [Declared -> Nat]
    /\ events \in Seq(Events)
    /\ stored \in Seq(Events)

(* Cortex's runner is started only in a run that a ready FA Local          *)
(* negotiated as its own, for a worker type that is declared, admitted and *)
(* authorized, and never for a run that Cortex was told to run serially    *)
(* itself: no shard is run by both (negotiate, run, deliver_shard).        *)
RunsOnlyWhatIsAdmitted ==
    \A i \in Declared : cortexRan[i] > 0 =>
        /\ negotiation = "ReadyForFaLocalDispatch"
        /\ capabilities.fa_local_state = "Ready"
        /\ capabilities.cancellation_supported
        /\ envelope.shards[i].worker_type \in
              envelope.worker_types \cap capabilities.admitted_worker_types
                                    \cap AUTHORIZED_WORKER_TYPES

(* The trail is the run: the negotiation and then every delivered shard    *)
(* with its own result, in declared order; only the event that is due, or  *)
(* that ended the run, may be missing.  The sink holds the same trail, and *)
(* of a run that ended in an error perhaps the event whose export was      *)
(* reported as failed: it is never behind, out of order or further ahead.  *)
Owed == <<NegotiationEvent(negotiation)>>
            \o [i \in DOMAIN results |-> ShardEvent(i, results[i])]

TrailIsTheRun ==
    /\ negotiation # "none" =>
          /\ events = SubSeq(Owed, 1, Len(events))
          /\ Len(events) >= Len(Owed) - 1
    /\ pc = "returned" =>
          /\ events = Owed
          /\ negotiation = "ReadyForFaLocalDispatch" => DOMAIN results = Declared
    /\ hasSink => \/ stored = events
                  \/ pc = "error" /\ stored = Owed

(* Exit code zero means that Cortex ran every declared shard once, that    *)
(* every receipt is complete, and that the trail says so.                  *)
ZeroMeansComplete ==
    ExitCode = 0 => \A i \in Declared :
        /\ cortexRan[i] = 1
        /\ \E k \in DOMAIN events :
              events[k] = ShardEvent(i, Result("Completed", "complete"))
=============================================================================
