----------------------------- MODULE CortexProofs -----------------------------
(***************************************************************************)
(* Proofs about a Gnat run that Cortex hands over and about the delivery   *)
(* of one of its shards: GnatDispatch, for every envelope, capability      *)
(* state and number of shards, and ShardDispatch, for pipes of every       *)
(* capacity and outputs of every length.                                   *)
(***************************************************************************)
EXTENDS GnatDispatch, ShardDispatch, TLAPS, SequenceTheorems

-----------------------------------------------------------------------------
(* The run.                                                                *)

ReadyRun == "ReadyForFaLocalDispatch"

(* A negotiation is the one of this envelope and this capability state,    *)
(* and only a ready run has results.                                       *)
NegotiationInv ==
    /\ pc \in {"requests", "negotiate"} => negotiation = "none"
    /\ pc \in {"record_negotiation", "returned"} => negotiation # "none"
    /\ pc \in {"deliver", "record_shard"} => negotiation = ReadyRun
    /\ negotiation # "none" => negotiation = NegotiationOutcome
    /\ results # <<>> => negotiation = ReadyRun

(* How far the trail is behind the results.                                *)
ProgressInv ==
    /\ negotiation = "none" => events = <<>>
    /\ pc = "record_negotiation" => events = <<>> /\ results = <<>>
    /\ pc \in {"deliver", "returned"} => Len(events) = Len(results) + 1
    /\ pc = "record_shard" => Len(events) = Len(results) /\ results # <<>>
    /\ negotiation # "none" => Len(events) \in {Len(results), Len(results) + 1}
    /\ pc = "returned" /\ negotiation = ReadyRun => Len(results) = Len(envelope.shards)

(* The event that is owed at a place of the trail.                         *)
OwedAt(k) ==
    IF k = 1 THEN NegotiationEvent(negotiation) ELSE ShardEvent(k - 1, results[k - 1])

(* Every event of the trail is the one owed at its place.                  *)
EventInv ==
    \A k \in DOMAIN events : k \in 1..(Len(results) + 1) /\ events[k] = OwedAt(k)

(* The sink holds the trail and, after an export that failed, perhaps the  *)
(* one event that was due.                                                 *)
SinkInv ==
    hasSink =>
        \/ stored = events
        \/ /\ pc = "error"
           /\ Len(events) = Len(results)
           /\ stored = Append(events, OwedAt(Len(events) + 1))

(* Cortex ran a shard at most once, in its turn, and only if the shard may *)
(* be dispatched; a completed result comes from such a run.                *)
RanInv ==
    \A i \in Declared :
        /\ cortexRan[i] \in {0, 1}
        /\ cortexRan[i] = 1 => i \in DOMAIN results /\ Dispatchable(envelope.shards[i])
        /\ i \in DOMAIN results /\ results[i].outcome = "Completed" =>
              results[i] = Result("Completed", "complete") /\ cortexRan[i] = 1

IInv ==
    /\ TypeOK
    /\ NegotiationInv
    /\ ProgressInv
    /\ EventInv
    /\ SinkInv
    /\ RanInv

-----------------------------------------------------------------------------
(* What the schema says of an envelope.                                    *)
LEMMA EnvelopeTyped ==
    ASSUME TypeOK
    PROVE  /\ envelope.shards \in Seq(Shards)
           /\ Declared = 1..Len(envelope.shards) /\ Len(envelope.shards) \in Nat
<1>1. envelope \in EnvelopeShape
  BY GnatAssumption DEF TypeOK
<1> QED
  BY <1>1 DEF EnvelopeShape, Declared

(* The results and the events of a run are results and events.             *)
LEMMA EventsTyped ==
    ASSUME NEW outcome \in Negotiations, NEW i \in Nat, NEW r \in RunnerResults
    PROVE  NegotiationEvent(outcome) \in Events /\ ShardEvent(i, r) \in Events
<1>1. Result("none", NoState) \in Results /\ r \in Results
  BY DEF Results
<1> QED
  BY <1>1 DEF NegotiationEvent, ShardEvent, Event, Events, Negotiations

(* What a run is negotiated to does not change with its progress.          *)
LEMMA InputsStay ==
    ASSUME UNCHANGED inputs
    PROVE  /\ envelope' = envelope /\ capabilities' = capabilities
           /\ enrichments' = enrichments /\ hasSink' = hasSink
           /\ Declared' = Declared /\ NegotiationOutcome' = NegotiationOutcome
           /\ \A shard : Dispatchable(shard)' <=> Dispatchable(shard)
<1>1. /\ envelope' = envelope /\ capabilities' = capabilities
      /\ enrichments' = enrichments /\ hasSink' = hasSink
  BY DEF inputs
<1> QED
  BY <1>1 DEF Declared, NegotiationOutcome, PlanSurface, Supported, Dispatchable

(* Recording an event appends it to the trail and, with a sink, to what    *)
(* the sink holds; a refused one ends the run.                             *)
LEMMA RecordGrows ==
    ASSUME events \in Seq(Events), stored \in Seq(Events), NEW e \in Events, NEW next,
           hasSink => stored = events, Record(e, next)
    PROVE  /\ stored' \in Seq(Events) /\ events' \in Seq(Events)
           /\ \/ /\ pc' = next /\ events' = Append(events, e)
                 /\ hasSink => stored' = events'
              \/ /\ pc' = "error" /\ events' = events
                 /\ hasSink => stored' \in {events, Append(events, e)}
<1>1. CASE Fail
  BY <1>1 DEF Fail
<1>2. CASE ExportFails(e)
  BY <1>2 DEF ExportFails
<1>3. CASE ~Fail /\ ~ExportFails(e)
  BY <1>3 DEF Record
<1> QED
  BY <1>1, <1>2, <1>3

(* While the run goes on, the sink holds what the trail holds.             *)
LEMMA SinkHoldsTrail ==
    ASSUME SinkInv, pc # "error"
    PROVE  hasSink => stored = events
  BY DEF SinkInv

(* A trail that grows by the event that is owed next stays the trail, and  *)
(* the sink is ahead of it by that event at most.                          *)
LEMMA TrailGrows ==
    ASSUME EventInv, events \in Seq(Events), results \in Seq(RunnerResults),
           UNCHANGED <<results, negotiation, hasSink>>, NEW e, NEW next,
           Len(events) = Len(results), e = OwedAt(Len(events) + 1),
           \/ /\ pc' = next /\ events' = Append(events, e)
              /\ hasSink => stored' = events'
           \/ /\ pc' = "error" /\ events' = events
              /\ hasSink => stored' \in {events, Append(events, e)}
    PROVE  EventInv' /\ SinkInv'
<1>1. CASE events' = events
  BY <1>1 DEF EventInv, SinkInv, OwedAt
<1>2. CASE events' # events
  <2>1. events' = Append(events, e)
    BY <1>2
  <2>2. /\ Len(events) \in Nat /\ Len(results) \in Nat
        /\ DOMAIN events = 1..Len(events)
        /\ DOMAIN events' = 1..(Len(events) + 1)
        /\ \A k \in 1..Len(events) : events'[k] = events[k]
        /\ events'[Len(events) + 1] = e
    BY <2>1
  <2> SUFFICES ASSUME NEW k \in 1..(Len(events) + 1)
               PROVE  k \in 1..(Len(results) + 1) /\ events'[k] = OwedAt(k)
    BY <1>2, <2>2 DEF EventInv, SinkInv, OwedAt
  <2>3. CASE k = Len(events) + 1
    BY <2>2, <2>3
  <2>4. CASE k # Len(events) + 1
    <3>1. k \in 1..Len(events)
      BY <2>2, <2>4
    <3> QED
      BY <2>2, <3>1 DEF EventInv
  <2> QED
    BY <2>3, <2>4
<1> QED
  BY <1>1, <1>2

(* A run starts with nothing done.                                         *)
LEMMA InitIInv == Init => IInv
<1> SUFFICES ASSUME Init PROVE IInv
  OBVIOUS
<1>1. /\ envelope \in Envelopes /\ envelope.shards \in Seq(Shards)
      /\ Len(envelope.shards) \in Nat
  BY GnatAssumption DEF Init, EnvelopeShape
<1>2. /\ results \in Seq(RunnerResults) /\ Len(results) = 0
      /\ events \in Seq(Events) /\ stored \in Seq(Events)
  BY DEF Init
<1>3. TypeOK
  BY <1>1, <1>2 DEF Init, TypeOK, Negotiations
<1> QED
  BY <1>2, <1>3 DEF Init, IInv, NegotiationInv, ProgressInv, EventInv, SinkInv, RanInv

(* The checks of the requests and the negotiation do nothing else.         *)
LEMMA NegotiateIInv ==
    ASSUME IInv, BuildShardRequests \/ Negotiate \/ ReturnRun \/ UNCHANGED vars
    PROVE  IInv'
<1>1. /\ UNCHANGED inputs
      /\ UNCHANGED <<results, cortexRan, events, stored>>
      /\ TypeOK /\ Declared' = Declared
  BY InputsStay DEF BuildShardRequests, Negotiate, ReturnRun, vars, IInv
<1>2. NegotiationOutcome \in Negotiations \ {"none"}
  BY DEF NegotiationOutcome, Negotiations
<1>3. TypeOK'
  BY <1>1, <1>2, InputsStay
  DEF TypeOK, BuildShardRequests, Negotiate, ReturnRun, vars, Negotiations
<1>4. NegotiationInv'
  BY <1>1, <1>2, InputsStay
  DEF IInv, NegotiationInv, BuildShardRequests, Negotiate, ReturnRun, vars, ReadyRun
<1>5. Len(envelope.shards) \in Nat /\ Declared = 1..Len(envelope.shards)
      /\ Len(results) \in Nat /\ Len(results) <= Len(envelope.shards)
  BY <1>1, EnvelopeTyped DEF TypeOK
<1>6. ProgressInv'
  <2>1. CASE BuildShardRequests \/ UNCHANGED vars
    BY <1>1, <2>1, InputsStay DEF IInv, NegotiationInv, ProgressInv, BuildShardRequests, vars
  <2>2. CASE Negotiate
    BY <1>1, <1>2, <2>2, InputsStay DEF IInv, NegotiationInv, ProgressInv, Negotiate, ReadyRun
  <2>3. CASE ReturnRun
    BY <1>1, <1>5, <2>3, InputsStay
    DEF IInv, NegotiationInv, ProgressInv, ReturnRun, ShardsDone, Current
  <2> QED
    BY <2>1, <2>2, <2>3
<1>7. EventInv' /\ SinkInv'
  <2>1. CASE Negotiate
    <3>1. events = <<>> /\ pc # "error"
      BY <2>1 DEF Negotiate, IInv, NegotiationInv, ProgressInv
    <3> QED
      BY <1>1, <3>1, InputsStay DEF IInv, EventInv, SinkInv
  <2>2. CASE ~Negotiate
    <3>1. negotiation' = negotiation /\ (pc = "error" => pc' = pc)
      BY <2>2 DEF BuildShardRequests, ReturnRun, vars
    <3> QED
      BY <1>1, <3>1, InputsStay DEF IInv, EventInv, SinkInv, OwedAt
  <2> QED
    BY <2>1, <2>2
<1>8. RanInv'
  BY <1>1, InputsStay DEF IInv, RanInv
<1> QED
  BY <1>3, <1>4, <1>6, <1>7, <1>8 DEF IInv

(* The negotiation is the first event of the trail.                        *)
LEMMA RecordNegotiationIInv == ASSUME IInv, RecordNegotiation PROVE IInv'
<1>1. /\ UNCHANGED inputs /\ UNCHANGED <<negotiation, results, cortexRan>>
      /\ Record(NegotiationEvent(negotiation), AfterNegotiation)
      /\ pc = "record_negotiation" /\ TypeOK
  BY DEF RecordNegotiation, IInv
<1>2. /\ negotiation \in Negotiations \ {"none"}
      /\ events = <<>> /\ results = <<>> /\ Len(events) = 0 /\ Len(results) = 0
  BY <1>1 DEF IInv, NegotiationInv, ProgressInv, TypeOK
<1>3. NegotiationEvent(negotiation) \in Events
  <2>1. Unavailable \in RunnerResults
    BY DEF RunnerResults
  <2> QED
    BY <1>2, <2>1, EventsTyped
<1> DEFINE e == NegotiationEvent(negotiation)
<1>4. /\ stored' \in Seq(Events) /\ events' \in Seq(Events)
      /\ \/ /\ pc' = AfterNegotiation /\ events' = Append(events, e)
            /\ hasSink => stored' = events'
         \/ /\ pc' = "error" /\ events' = events
            /\ hasSink => stored' \in {events, Append(events, e)}
  BY <1>1, <1>3, SinkHoldsTrail, RecordGrows DEF IInv, TypeOK
<1>5. AfterNegotiation = IF negotiation = ReadyRun THEN "deliver" ELSE "returned"
  BY DEF AfterNegotiation, ReadyRun
<1>6. TypeOK'
  BY <1>1, <1>4, <1>5, InputsStay DEF TypeOK
<1>7. NegotiationInv'
  BY <1>1, <1>2, <1>4, <1>5, InputsStay DEF IInv, NegotiationInv, ReadyRun
<1>8. ProgressInv'
  BY <1>1, <1>2, <1>4, <1>5, InputsStay DEF ProgressInv
<1>9. EventInv' /\ SinkInv'
  <2>1. e = OwedAt(Len(events) + 1) /\ Len(events) = Len(results)
    BY <1>2 DEF OwedAt
  <2>2. events \in Seq(Events) /\ results \in Seq(RunnerResults) /\ EventInv
    BY DEF IInv, TypeOK
  <2> QED
    BY <1>1, <1>4, <2>1, <2>2, InputsStay, TrailGrows
<1>10. RanInv'
  BY <1>1, InputsStay DEF IInv, RanInv
<1> QED
  BY <1>6, <1>7, <1>8, <1>9, <1>10 DEF IInv

(* A delivery adds the result of the shard whose turn it is.               *)
LEMMA DeliverShardIInv == ASSUME IInv, DeliverShard PROVE IInv'
<1>1. /\ UNCHANGED inputs /\ UNCHANGED <<negotiation, events, stored>>
      /\ pc = "deliver" /\ pc' = "record_shard" /\ TypeOK
      /\ Current \in Declared
  BY DEF DeliverShard, IInv
<1>2. /\ Declared = 1..Len(envelope.shards) /\ Len(envelope.shards) \in Nat
      /\ results \in Seq(RunnerResults) /\ Len(results) \in Nat
      /\ DOMAIN results = 1..Len(results)
      /\ cortexRan \in [Declared -> Nat]
  BY <1>1, EnvelopeTyped DEF TypeOK
<1>3. /\ negotiation = ReadyRun /\ Current = Len(results) + 1
      /\ Len(events) = Len(results) + 1
  BY <1>1 DEF IInv, NegotiationInv, ProgressInv, Current
<1>4. PICK r \in RunnerResults :
        /\ results' = Append(results, r)
        /\ \/ r = Unavailable /\ cortexRan' = cortexRan
           \/ /\ Dispatchable(envelope.shards[Current])
              /\ cortexRan' = [cortexRan EXCEPT ![Current] = @ + 1]
  BY DEF DeliverShard, RunnerResults
<1>5. /\ results' \in Seq(RunnerResults) /\ Len(results') = Len(results) + 1
      /\ DOMAIN results' = 1..(Len(results) + 1)
      /\ \A i \in 1..Len(results) : results'[i] = results[i]
      /\ results'[Len(results) + 1] = r
      /\ results' # <<>>
  BY <1>2, <1>4
<1>6. TypeOK'
  <2>1. cortexRan' \in [Declared -> Nat]
    BY <1>2, <1>4
  <2> QED
    BY <1>1, <1>2, <1>3, <1>5, <2>1, InputsStay DEF TypeOK
<1>7. NegotiationInv'
  BY <1>1, <1>3, InputsStay DEF IInv, NegotiationInv
<1>8. ProgressInv'
  BY <1>1, <1>3, <1>5, InputsStay DEF ProgressInv, ReadyRun
<1>9. EventInv' /\ SinkInv'
  <2>1. DOMAIN events = 1..Len(events) /\ Len(events) \in Nat
    BY <1>1 DEF TypeOK
  <2>0. SinkInv'
    BY <1>1, SinkHoldsTrail, InputsStay DEF IInv, SinkInv
  <2> SUFFICES ASSUME NEW k \in 1..Len(events)
               PROVE  /\ k \in 1..(Len(results') + 1)
                      /\ k = 1 => events[k] = NegotiationEvent(negotiation)
                      /\ k # 1 => events[k] = ShardEvent(k - 1, results'[k - 1])
    BY <1>1, <2>0, <2>1, InputsStay DEF EventInv, OwedAt
  <2>2. k # 1 => k - 1 \in 1..Len(results)
    BY <1>2, <1>3
  <2>3. k \in 1..(Len(results') + 1)
    BY <1>2, <1>3, <1>5
  <2> QED
    BY <1>5, <2>1, <2>2, <2>3 DEF IInv, EventInv, OwedAt
<1>10. RanInv'
  <2> SUFFICES ASSUME NEW i \in Declared
               PROVE  /\ cortexRan'[i] \in {0, 1}
                      /\ cortexRan'[i] = 1 =>
                            i \in DOMAIN results' /\ Dispatchable(envelope.shards[i])
                      /\ i \in DOMAIN results' /\ results'[i].outcome = "Completed" =>
                            /\ results'[i] = Result("Completed", "complete")
                            /\ cortexRan'[i] = 1
    BY <1>1, InputsStay DEF RanInv
  <2>1. CASE i = Current
    <3>1. i \notin DOMAIN results /\ cortexRan[i] = 0
      BY <1>2, <1>3, <2>1 DEF IInv, RanInv
    <3>2. r.outcome = "Completed" => r = Result("Completed", "complete") /\ r # Unavailable
      BY DEF RunnerResults, Unavailable, Result
    <3>3. i \in DOMAIN results' /\ results'[i] = r
      BY <1>2, <1>3, <1>5, <2>1
    <3>4. CASE r = Unavailable /\ cortexRan' = cortexRan
      BY <3>1, <3>2, <3>3, <3>4
    <3>5. CASE /\ Dispatchable(envelope.shards[Current])
               /\ cortexRan' = [cortexRan EXCEPT ![Current] = @ + 1]
      <4>1. cortexRan'[i] = 1
        BY <1>2, <2>1, <3>1, <3>5
      <4> QED
        BY <2>1, <3>2, <3>3, <3>5, <4>1
    <3> QED
      BY <1>4, <3>4, <3>5
  <2>2. CASE i # Current
    <3>1. cortexRan'[i] = cortexRan[i]
      BY <1>1, <1>2, <1>4, <2>2
    <3>2. i \in DOMAIN results' <=> i \in DOMAIN results
      BY <1>2, <1>3, <1>5, <2>2
    <3>3. i \in DOMAIN results => results'[i] = results[i]
      BY <1>2, <1>5
    <3> QED
      BY <3>1, <3>2, <3>3 DEF IInv, RanInv
  <2> QED
    BY <2>1, <2>2
<1> QED
  BY <1>6, <1>7, <1>8, <1>9, <1>10 DEF IInv

(* The event of a shard follows its result.                                *)
LEMMA RecordShardIInv == ASSUME IInv, RecordShard PROVE IInv'
<1>1. /\ UNCHANGED inputs /\ UNCHANGED <<negotiation, results, cortexRan>>
      /\ pc = "record_shard" /\ TypeOK
      /\ \/ Record(ShardEvent(Current, results[Current]), "deliver")
         \/ Fail
  BY DEF RecordShard, IInv
<1>2. /\ negotiation = ReadyRun /\ Current = Len(results) /\ results # <<>>
      /\ Len(events) = Len(results) /\ results \in Seq(RunnerResults)
      /\ Len(results) \in Nat \ {0}
  BY <1>1 DEF IInv, NegotiationInv, ProgressInv, Current, TypeOK
<1>3. results[Current] \in RunnerResults /\ Current \in Nat
  BY <1>2
<1>4. ShardEvent(Current, results[Current]) \in Events
  BY <1>1, <1>3, EventsTyped DEF TypeOK
<1> DEFINE e == ShardEvent(Current, results[Current])
<1>5. /\ stored' \in Seq(Events) /\ events' \in Seq(Events)
      /\ \/ /\ pc' = "deliver" /\ events' = Append(events, e)
            /\ hasSink => stored' = events'
         \/ /\ pc' = "error" /\ events' = events
            /\ hasSink => stored' \in {events, Append(events, e)}
  <2>0. hasSink => stored = events
    BY <1>1, SinkHoldsTrail DEF IInv
  <2>1. CASE Fail
    BY <1>1, <2>0, <2>1 DEF Fail, TypeOK
  <2>2. CASE ~Fail
    BY <1>1, <1>4, <2>0, <2>2, RecordGrows DEF TypeOK
  <2> QED
    BY <2>1, <2>2
<1>6. TypeOK'
  BY <1>1, <1>5, InputsStay DEF TypeOK
<1>7. NegotiationInv'
  BY <1>1, <1>2, <1>5, InputsStay DEF IInv, NegotiationInv, ReadyRun
<1>8. ProgressInv'
  <2>1. events \in Seq(Events)
    BY <1>1 DEF TypeOK
  <2> QED
    BY <1>1, <1>2, <1>5, <2>1, InputsStay DEF ProgressInv, ReadyRun
<1>9. EventInv' /\ SinkInv'
  <2>1. events \in Seq(Events) /\ EventInv
    BY DEF IInv, TypeOK
  <2>2. e = OwedAt(Len(events) + 1)
    BY <1>2 DEF OwedAt
  <2> QED
    BY <1>1, <1>2, <1>5, <2>1, <2>2, InputsStay, TrailGrows
<1>10. RanInv'
  BY <1>1, InputsStay DEF IInv, RanInv
<1> QED
  BY <1>6, <1>7, <1>8, <1>9, <1>10 DEF IInv

(* The invariant holds throughout a run.                                   *)
LEMMA Invariance == Spec => []IInv
<1>1. Init => IInv
  BY InitIInv
<1>2. IInv /\ [Next]_vars => IInv'
  BY NegotiateIInv, RecordNegotiationIInv, DeliverShardIInv, RecordShardIInv DEF Next
<1> QED
  BY <1>1, <1>2, PTL DEF Spec

-----------------------------------------------------------------------------
(* What FA Local did not negotiate as its own, or may not dispatch, is     *)
(* never run by Cortex on its behalf (negotiate, run, deliver_shard).      *)
THEOREM OnlyAdmittedRuns == Spec => []RunsOnlyWhatIsAdmitted
<1>1. IInv => RunsOnlyWhatIsAdmitted
  <2> SUFFICES ASSUME IInv, NEW i \in Declared, cortexRan[i] > 0
               PROVE  /\ negotiation = "ReadyForFaLocalDispatch"
                      /\ capabilities.fa_local_state = "Ready"
                      /\ capabilities.cancellation_supported
                      /\ envelope.shards[i].worker_type \in
                            envelope.worker_types \cap capabilities.admitted_worker_types
                                                  \cap AUTHORIZED_WORKER_TYPES
    BY DEF RunsOnlyWhatIsAdmitted
  <2>1. cortexRan[i] = 1
    BY DEF IInv, RanInv
  <2>2. i \in DOMAIN results /\ Dispatchable(envelope.shards[i])
    BY <2>1 DEF IInv, RanInv
  <2>3. negotiation = "ReadyForFaLocalDispatch" /\ negotiation = NegotiationOutcome
    BY <2>2 DEF IInv, NegotiationInv, ReadyRun
  <2>4. PlanSurface /\ capabilities.fa_local_state = "Ready" /\ Supported
    BY <2>3 DEF NegotiationOutcome
  <2> QED
    BY <2>2, <2>3, <2>4 DEF PlanSurface, Supported, Dispatchable
<1> QED
  BY <1>1, Invariance, PTL

(* What the run owes, place by place.                                      *)
LEMMA OwedShape ==
    ASSUME TypeOK
    PROVE  /\ Owed \in Seq(Events)
           /\ Len(Owed) = Len(results) + 1
           /\ \A k \in 1..(Len(results) + 1) :
                Owed[k] = IF k = 1 THEN NegotiationEvent(negotiation)
                                   ELSE ShardEvent(k - 1, results[k - 1])
<1> DEFINE head == <<NegotiationEvent(negotiation)>>
           tail == [i \in DOMAIN results |-> ShardEvent(i, results[i])]
           n == Len(results)
<1>1. /\ results \in Seq(RunnerResults) /\ n \in Nat /\ DOMAIN results = 1..n
      /\ negotiation \in Negotiations
  BY DEF TypeOK
<1>2. Unavailable \in RunnerResults /\ \A i \in 1..n : results[i] \in RunnerResults /\ i \in Nat
  BY <1>1 DEF RunnerResults
<1>3. NegotiationEvent(negotiation) \in Events /\ \A i \in 1..n : ShardEvent(i, results[i]) \in Events
  BY <1>1, <1>2, EventsTyped
<1>4. /\ head \in Seq(Events) /\ Len(head) = 1 /\ head[1] = NegotiationEvent(negotiation)
  BY <1>3
<1>5. /\ tail \in Seq(Events) /\ Len(tail) = n
      /\ \A i \in 1..n : tail[i] = ShardEvent(i, results[i])
  BY <1>1, <1>3
<1>6. Owed = head \o tail
  BY DEF Owed
<1> HIDE DEF head, tail, n
<1>7. /\ Owed \in Seq(Events) /\ Len(Owed) = 1 + n
      /\ \A k \in 1..(1 + n) : Owed[k] = IF k <= 1 THEN head[k] ELSE tail[k - 1]
  BY <1>4, <1>5, <1>6, ConcatProperties
<1>8. ASSUME NEW k \in 1..(n + 1)
      PROVE  Owed[k] = IF k = 1 THEN NegotiationEvent(negotiation)
                                ELSE ShardEvent(k - 1, results[k - 1])
  <2>1. k \in 1..(1 + n) /\ (k <= 1 <=> k = 1) /\ (k # 1 => k - 1 \in 1..n)
    BY <1>1
  <2>2. Owed[k] = IF k <= 1 THEN head[k] ELSE tail[k - 1]
    BY <1>7, <2>1
  <2> QED
    BY <1>4, <1>5, <2>1, <2>2
<1> QED
  BY <1>1, <1>7, <1>8 DEF n

(* The trail is the run, whatever the runner answers and wherever the sink *)
(* fails, with or without the line that it reports as not written (run,    *)
(* record_forensic_event).                                                 *)
THEOREM TrailStaysTheRun == Spec => []TrailIsTheRun
<1>1. IInv => TrailIsTheRun
  <2> SUFFICES ASSUME IInv PROVE TrailIsTheRun
    OBVIOUS
  <2>1. /\ events \in Seq(Events) /\ Len(events) \in Nat /\ DOMAIN events = 1..Len(events)
        /\ Len(results) \in Nat /\ DOMAIN results = 1..Len(results) /\ TypeOK
    BY DEF IInv, TypeOK
  <2>2. /\ Owed \in Seq(Events) /\ Len(Owed) = Len(results) + 1
        /\ DOMAIN Owed = 1..(Len(results) + 1)
    BY <2>1, OwedShape
  <2>3. \A k \in 1..Len(events) : k \in 1..(Len(results) + 1) /\ events[k] = Owed[k]
    BY <2>1, OwedShape DEF IInv, EventInv, OwedAt
  <2>4. events = SubSeq(Owed, 1, Len(events))
    <3>1. \A k \in 1..Len(events) : Owed[k] \in Events
      BY <2>2, <2>3
    <3>2. /\ SubSeq(Owed, 1, Len(events)) \in Seq(Events)
          /\ Len(SubSeq(Owed, 1, Len(events))) =
                IF 1 <= Len(events) THEN Len(events) - 1 + 1 ELSE 0
          /\ \A k \in 1..(Len(events) - 1 + 1) :
                SubSeq(Owed, 1, Len(events))[k] = Owed[1 + k - 1]
      BY <2>1, <3>1, SubSeqProperties
    <3>3. /\ Len(SubSeq(Owed, 1, Len(events))) = Len(events)
          /\ \A k \in 1..Len(events) : SubSeq(Owed, 1, Len(events))[k] = events[k]
      BY <2>1, <2>3, <3>2
    <3> QED
      BY <2>1, <3>2, <3>3, SeqEqual
  <2>5. negotiation # "none" => Len(events) >= Len(Owed) - 1
    <3>1. negotiation # "none" => Len(events) = Len(results) \/ Len(events) = Len(results) + 1
      BY DEF IInv, ProgressInv
    <3>2. /\ Len(results) \in Int /\ Len(results) + 1 >= Len(results)
          /\ Len(results) >= Len(results) /\ Len(Owed) - 1 = Len(results)
      BY <2>1, <2>2
    <3> QED
      BY <3>1, <3>2, Zenon
  <2>6. ASSUME pc = "returned"
        PROVE  /\ events = Owed
               /\ negotiation = "ReadyForFaLocalDispatch" => DOMAIN results = Declared
    <3>1. Len(events) = Len(Owed)
      BY <2>2, <2>6 DEF IInv, ProgressInv
    <3>2. events = Owed
      BY <2>1, <2>2, <2>3, <3>1, SeqEqual
    <3>3. negotiation = "ReadyForFaLocalDispatch" => DOMAIN results = Declared
      BY <2>1, <2>6, EnvelopeTyped DEF IInv, ProgressInv, ReadyRun
    <3> QED
      BY <3>2, <3>3
  <2>7. ASSUME hasSink, stored # events
        PROVE  pc = "error" /\ stored = Owed
    <3>1. /\ pc = "error" /\ Len(events) = Len(results)
          /\ stored = Append(events, OwedAt(Len(events) + 1))
      BY <2>7 DEF IInv, SinkInv
    <3>2. /\ stored \in Seq(Events) /\ Len(stored) = Len(Owed)
          /\ \A k \in 1..Len(events) : stored[k] = events[k]
          /\ stored[Len(events) + 1] = OwedAt(Len(events) + 1)
      BY <2>1, <2>2, <3>1 DEF TypeOK
    <3>3. OwedAt(Len(events) + 1) = Owed[Len(events) + 1]
      BY <2>1, <3>1, OwedShape DEF OwedAt
    <3>4. \A k \in 1..(Len(events) + 1) : k \in 1..Len(events) \/ k = Len(events) + 1
      BY <2>1
    <3>5. \A k \in 1..Len(stored) : stored[k] = Owed[k]
      BY <2>1, <2>2, <2>3, <3>1, <3>2, <3>3, <3>4
    <3> QED
      BY <2>2, <3>1, <3>2, <3>5, SeqEqual
  <2> QED
    BY <2>4, <2>5, <2>6, <2>7 DEF TrailIsTheRun
<1> QED
  BY <1>1, Invariance, PTL

(* Exit code zero is never given for a shard that Cortex did not run, ran  *)
(* twice or did not complete, nor without the trail that shows it.         *)
THEOREM ZeroIsComplete == Spec => []ZeroMeansComplete
<1>1. IInv => ZeroMeansComplete
  <2> SUFFICES ASSUME IInv, ExitCode = 0, NEW i \in Declared
               PROVE  /\ cortexRan[i] = 1
                      /\ \E k \in DOMAIN events :
                            events[k] = ShardEvent(i, Result("Completed", "complete"))
    BY DEF ZeroMeansComplete
  <2>1. /\ pc = "returned" /\ negotiation = ReadyRun
        /\ \A j \in DOMAIN results : results[j].outcome = "Completed"
    BY DEF ExitCode, ReadyRun
  <2>2. /\ Declared = 1..Len(envelope.shards) /\ Len(envelope.shards) \in Nat
        /\ events \in Seq(Events) /\ results \in Seq(RunnerResults)
    BY EnvelopeTyped DEF IInv, TypeOK
  <2>3. Len(results) = Len(envelope.shards) /\ Len(events) = Len(results) + 1
    BY <2>1 DEF IInv, ProgressInv
  <2>4. i \in DOMAIN results /\ i + 1 \in DOMAIN events /\ (i + 1) - 1 = i /\ i + 1 # 1
    BY <2>2, <2>3
  <2>5. results[i] = Result("Completed", "complete") /\ cortexRan[i] = 1
    BY <2>1, <2>4 DEF IInv, RanInv
  <2>6. events[i + 1] = ShardEvent(i, results[i])
    BY <2>4 DEF IInv, EventInv, OwedAt
  <2> QED
    BY <2>4, <2>5, <2>6
<1> QED
  BY <1>1, Invariance, PTL

-----------------------------------------------------------------------------
(* The delivery of a shard.                                                *)

(* The delivering thread's knowledge of the child at each stage.           *)
ChildAtStage ==
    /\ stage \in {"start", "descriptor"} => child = "none"
    /\ stage \in {"poll", "kill"} => child \in {"running", "exited"}
    /\ stage = "reap" => child \in {"killed", "exited"}
    /\ stage \in {"poll", "kill", "reap"} => waitOutcome = "none"
    /\ waitOutcome \in {"Exited", "DeadlineExceeded"} => child = "reaped"

(* Once the group was signaled, the child starts nothing any more.         *)
GroupIsGone ==
    stage = "reap" \/ waitOutcome = "DeadlineExceeded" => helper # "in_group"

(* A reader that is done has emptied a pipe that nobody writes to.         *)
DoneIsEmpty ==
    \A p \in Pipes : reader[p] = "done" => pipe[p] = 0 /\ child # "running"

(* What is known once the threads are waited for.                          *)
JoinedInOrder ==
    /\ stage \in {"join_stdout", "join_stderr"} => waitOutcome # "none" /\ ~shardFile
    /\ stage = "join_stderr" => reader["stdout"] = "done"
    /\ stage = "returned" /\ waitOutcome # "none" =>
          ~shardFile /\ \A p \in Pipes : reader[p] = "done"
    /\ waitOutcome # "none" => stage \in {"join_stdout", "join_stderr", "returned"}
    /\ result # "none" <=> stage = "returned"

ShardInv ==
    /\ ShardTypeOK
    /\ ChildAtStage
    /\ GroupIsGone
    /\ DoneIsEmpty
    /\ JoinedInOrder
    /\ ReceiptIsWhole

(* The invariant's parts, expanded together in the leaves below.           *)
USE DEF ShardInv, ShardTypeOK, ChildAtStage, GroupIsGone, DoneIsEmpty, JoinedInOrder,
        ReceiptIsWhole, Pipes, Stages, ChildStates, HelperStates, DeliveryResults, Receipts

(* The first state: nothing is spawned, read or returned.                  *)
LEMMA ShardInitInv == ShardInit => ShardInv
<1> SUFFICES ASSUME ShardInit
             PROVE  ShardInv
  OBVIOUS
<1>1. pipe \in [Pipes -> 0..PipeCapacity]
  BY PipeAssumption DEF ShardInit
<1>2. reader \in [Pipes -> {"none", "reading", "done"}] /\ \A p \in Pipes : reader[p] = "none"
  BY DEF ShardInit
<1>3. ShardTypeOK
  BY <1>1, <1>2 DEF ShardInit
<1> QED
  BY <1>2, <1>3 DEF ShardInit

(* The steps of the delivering thread keep the invariant.                  *)
LEMMA ParentStep ==
    ASSUME ShardInv, Deliver \/ RefuseShard \/ PollFails
    PROVE  ShardInv'
<1>1. CASE RefuseShard
  BY <1>1 DEF RefuseShard, Return, output
<1>2. CASE PollFails
  BY <1>2 DEF PollFails, Waited, output
<1>3. CASE WriteDescriptor
  BY <1>3 DEF WriteDescriptor, output
<1>4. CASE SpawnFails
  BY <1>4 DEF SpawnFails, Return, output
<1>5. CASE Spawn
  BY <1>5 DEF Spawn, output
<1>6. CASE PollExited
  BY <1>6 DEF PollExited, Waited, output
<1>7. CASE PollDeadline
  BY <1>7 DEF PollDeadline, output
<1>8. CASE KillProcessGroup
  BY <1>8 DEF KillProcessGroup, KilledHelper, output
<1>9. CASE ReapKilled
  BY <1>9 DEF ReapKilled, Waited, output
<1>10. CASE JoinStdout
  BY <1>10 DEF JoinStdout, output
<1>11. CASE JoinStderr
  BY <1>11 DEF JoinStderr, Return, ResultOf, Parsed, output
<1> QED
  BY <1>1, <1>2, <1>3, <1>4, <1>5, <1>6, <1>7, <1>8, <1>9, <1>10, <1>11 DEF Deliver

(* So do the reader threads: a pipe has ended only when the child is gone. *)
LEMMA ReaderStep ==
    ASSUME ShardInv, NEW p \in Pipes, Read(p) \/ ReadToEnd(p)
    PROVE  ShardInv'
<1>1. CASE Read(p)
  BY <1>1, PipeAssumption DEF Read, parent
<1>2. CASE ReadToEnd(p)
  BY <1>2 DEF ReadToEnd, Held, parent
<1> QED
  BY <1>1, <1>2

(* So do the child, what it starts, and the clock.                         *)
LEMMA EnvironmentStep ==
    ASSUME ShardInv, Environment \/ DeadlinePasses
    PROVE  ShardInv'
<1>1. ASSUME NEW p \in Pipes, ChildWrites(p)
      PROVE  ShardInv'
  BY <1>1, PipeAssumption DEF ChildWrites, parent
<1>2. CASE ChildStartsHelper
  BY <1>2 DEF ChildStartsHelper, parent, output
<1>3. CASE ChildExits
  BY <1>3 DEF ChildExits, parent, output
<1>4. CASE HelperExits
  BY <1>4 DEF HelperExits, parent, output
<1>5. CASE DeadlinePasses
  BY <1>5 DEF DeadlinePasses, parent, output
<1> QED
  BY <1>1, <1>2, <1>3, <1>4, <1>5 DEF Environment

(* Nothing changes in a stuttering step.                                   *)
LEMMA StutterStep ==
    ASSUME ShardInv, UNCHANGED shardVars
    PROVE  ShardInv'
  BY DEF shardVars, parent, output

HIDE DEF ShardInv, ShardTypeOK, ChildAtStage, GroupIsGone, DoneIsEmpty, JoinedInOrder,
         ReceiptIsWhole, Pipes, Stages, ChildStates, HelperStates, DeliveryResults, Receipts

(* The invariant holds for good: initially, and after a step of any party. *)
THEOREM ShardInvariance == ShardSpec => []ShardInv
<1>1. ShardInit => ShardInv
  BY ShardInitInv
<1>2. ShardInv /\ [ShardNext]_shardVars => ShardInv'
  BY ParentStep, ReaderStep, EnvironmentStep, StutterStep DEF ShardNext
<1> QED
  BY <1>1, <1>2, PTL DEF ShardSpec

(* A reported receipt was written and read to the end by a child that      *)
(* exited of its own accord, however long the output and small the pipe.   *)
THEOREM ReceiptsAreWhole == ShardSpec => []ReceiptIsWhole
<1>1. ShardInv => ReceiptIsWhole
  BY DEF ShardInv
<1> QED
  BY <1>1, ShardInvariance, PTL

(* After a deadline nothing of the child's process group runs.             *)
THEOREM DeadlineKillsTheGroup == ShardSpec => []DeadlineKillsGroup
<1>1. ShardInv => DeadlineKillsGroup
  BY DEF ShardInv, ChildAtStage, GroupIsGone, DeadlineKillsGroup
<1> QED
  BY <1>1, ShardInvariance, PTL

(* The process group is signaled only while its id belongs to the child.   *)
THEOREM KillingIsSafe == ShardSpec => []KillIsSafe
<1>1. ShardInv => KillIsSafe
  BY DEF ShardInv, ChildAtStage, KillIsSafe
<1> QED
  BY <1>1, ShardInvariance, PTL

(* A delivery that waited for its child leaves nothing behind.             *)
THEOREM LeavesNothingBehind == ShardSpec => []NothingLeftBehind
<1>1. ShardInv => NothingLeftBehind
  BY DEF ShardInv, ChildAtStage, DoneIsEmpty, JoinedInOrder, NothingLeftBehind
<1> QED
  BY <1>1, ShardInvariance, PTL

-----------------------------------------------------------------------------
(* GnatDispatch takes a delivery for one step: what comes back is one of   *)
(* the results it expects, and nothing but an unavailable dispatch when no *)
(* child was ever started.                                                 *)
DeliveryFitsTheRun ==
    stage = "returned" =>
        \E r \in RunnerResults :
            /\ r.outcome = result
            /\ result = "Completed" => receipt = r.receipt_state
            /\ child = "none" => r = Unavailable

(* So the step that GnatDispatch's DeliverShard takes covers every way in  *)
(* which deliver_shard can return.                                         *)
THEOREM DeliveryIsOneStep == ShardSpec => []DeliveryFitsTheRun
<1>1. ShardInv => DeliveryFitsTheRun
  <2> SUFFICES ASSUME ShardInv, stage = "returned"
               PROVE  \E r \in RunnerResults :
                         /\ r.outcome = result
                         /\ result = "Completed" => receipt = r.receipt_state
                         /\ child = "none" => r = Unavailable
    BY DEF DeliveryFitsTheRun
  <2>1. result \in {"Completed", "NotCompleted", "DispatchUnavailable"}
    BY DEF ShardInv, ShardTypeOK, DeliveryResults, JoinedInOrder
  <2>2. CASE result = "DispatchUnavailable"
    <3>1. Unavailable \in RunnerResults /\ Unavailable.outcome = result
      BY <2>2 DEF RunnerResults, Unavailable, Result
    <3> QED
      BY <2>2, <3>1
  <2>3. result \in {"Completed", "NotCompleted"} =>
           child # "none" /\ (result = "Completed" => receipt = "complete")
    BY DEF ShardInv, ReceiptIsWhole, ChildAtStage
  <2>4. CASE result = "Completed"
    <3> DEFINE r == Result("Completed", "complete")
    <3>1. r \in RunnerResults /\ r.outcome = result /\ r.receipt_state = "complete"
      BY <2>4 DEF RunnerResults, Result
    <3> HIDE DEF r
    <3> QED
      BY <2>3, <2>4, <3>1
  <2>5. CASE result = "NotCompleted"
    <3> DEFINE r == Result("NotCompleted", "denied")
    <3>1. r \in RunnerResults /\ r.outcome = result
      BY <2>5 DEF RunnerResults, Result
    <3> HIDE DEF r
    <3> QED
      BY <2>3, <2>5, <3>1
  <2> QED
    BY <2>1, <2>2, <2>4, <2>5
<1> QED
  BY <1>1, ShardInvariance, PTL
===============================================================================
