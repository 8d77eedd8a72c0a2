---------------------- MODULE NeuronForgeDispatchProofs ----------------------
(***************************************************************************)
(* Proofs about NeuronForgeDispatch, for failure texts and ids of every    *)
(* length and alphabet.                                                    *)
(***************************************************************************)
EXTENDS NeuronForgeDispatch, TLAPS

(* What came over HTTP is what NeuronForge Local answered: a status is the *)
(* status of a task that is done, and nothing comes before the POST.       *)
ResponseInv ==
    /\ pc = "dispatch" => response = "none"
    /\ response \in ReceiptStatuses =>
          peer.state = "done" /\ peer.status = response

(* The adapter's result rests on the response it read.                     *)
OutcomeInv ==
    /\ pc \in {"dispatch", "waiting"} <=> outcome.kind = "none" /\ pc # "killed"
    /\ outcome.kind = "Completed" => outcome.receipt = "valid"
    /\ outcome.kind = "NotCompleted" => outcome.receipt \in {"degraded", "failed"}
    /\ outcome.kind = "DispatchUnavailable" => outcome.receipt = "none"
    /\ outcome.kind \in {"Completed", "NotCompleted"} =>
          peer.state = "done" /\ peer.status = outcome.receipt

(* The event, once it is built, tells the adapter's result, and it is in   *)
(* the sink when run() returns.                                            *)
EventInv ==
    /\ event.outcome # "none" \/ pc \in {"record", "returned"} =>
          event.outcome = outcome.kind /\ event.receipt = outcome.receipt
    /\ pc \in {"dispatch", "waiting", "build"} => sink = {}
    /\ pc = "returned" /\ exporter => event \in sink

IInv ==
    /\ TypeOK
    /\ ResponseInv
    /\ OutcomeInv
    /\ EventInv
    /\ EveryOutcomeCanBeTold

-----------------------------------------------------------------------------
(* Lemmas about bounded_summary and validate.                              *)

(* bounded_summary leaves a text that validate accepts, whatever it is     *)
(* given: not empty, and at most as long as an event may be.               *)
LEMMA BoundedSummaryFits ==
    ASSUME NEW text \in [chars : Nat, bytes : Nat]
    PROVE  /\ BoundedSummary(text) \in [chars : Nat, bytes : Nat]
           /\ BoundedSummary(text).chars \in 1..MaxSummaryChars
<1>1. CASE text.chars = 0
  BY <1>1 DEF BoundedSummary, MaxSummaryChars
<1>2. CASE text.chars \in 1..MaxSummaryChars
  BY <1>2 DEF BoundedSummary, MaxSummaryChars
<1>3. CASE text.chars > MaxSummaryChars
  <2>1. text.chars \in Nat /\ text.bytes \in Nat /\ text.chars > 0
    BY <1>3 DEF MaxSummaryChars
  <2>2. text.bytes \div text.chars \in Nat
    BY <2>1
  <2>3. (MaxSummaryChars - 1) * (text.bytes \div text.chars) + 3 \in Nat
    BY <2>2 DEF MaxSummaryChars
  <2> QED
    BY <1>3, <2>3 DEF BoundedSummary, MaxSummaryChars
<1> QED
  BY <1>1, <1>2, <1>3 DEF MaxSummaryChars

(* The event's own text is a text.                                         *)
LEMMA SummaryOfIsText ==
    ASSUME TypeOK
    PROVE  SummaryOf(outcome) \in [chars : Nat, bytes : Nat]
<1>1. request.ids["dispatch_id"] \in Nat /\ request.ids["task_id"] \in Nat
  BY DEF TypeOK, IdNames
<1>2. outcome.summary \in [chars : Nat, bytes : Nat]
  BY DEF TypeOK
<1> QED
  BY <1>1, <1>2 DEF SummaryOf

-----------------------------------------------------------------------------
(* The invariant.                                                          *)

USE DEF ResponseInv, OutcomeInv, EventInv, EveryOutcomeCanBeTold, Kinds, Stages,
        RecognizedStatuses, ReceiptStatuses

(* The first state: nothing is posted, built or exported.                  *)
LEMMA InitInv == Init => IInv
<1> SUFFICES ASSUME Init
             PROVE  IInv
  OBVIOUS
<1>1. request \in [admitted : BOOLEAN, ids : [IdNames -> Nat]]
  <2>1. PICK ids \in [IdNames -> IdBytes], admitted \in BOOLEAN :
          request = [admitted |-> admitted,
                     ids |-> IF admitted THEN [ids EXCEPT !["task_id"] = AdmittedTaskBytes]
                             ELSE ids]
    BY DEF Init
  <2>2. ids \in [IdNames -> Nat]
    BY TextsAssumption
  <2>3. [ids EXCEPT !["task_id"] = AdmittedTaskBytes] \in [IdNames -> Nat]
    BY <2>2 DEF AdmittedTaskBytes
  <2> QED
    BY <2>1, <2>2, <2>3
<1> QED
  BY <1>1 DEF Init, IInv, TypeOK, NoOutcome, NoEvent, Outcome, Event, NoText

(* The adapter's steps: a result is backed by what was read.               *)
LEMMA AdapterStep ==
    ASSUME IInv, RefuseTask \/ PostTask \/ TransportFails \/ ReadResponse
    PROVE  IInv'
<1> USE DEF IInv, TypeOK, call, world
<1>1. CASE RefuseTask
  BY <1>1, TextsAssumption DEF RefuseTask, Settle, Outcome
<1>2. CASE PostTask
  BY <1>2 DEF PostTask
<1>3. CASE TransportFails
  BY <1>3, TextsAssumption DEF TransportFails, Settle, Outcome
<1>4. CASE ReadResponse
  BY <1>4, TextsAssumption DEF ReadResponse, Settle, Outcome, NoText
<1> QED
  BY <1>1, <1>2, <1>3, <1>4

(* NeuronForge Local's steps: nothing it does later unsays its receipt.    *)
LEMMA PeerStep ==
    ASSUME IInv, PeerRefuses \/ PeerFinishes
    PROVE  IInv'
<1> USE DEF IInv, TypeOK, call
<1>1. CASE PeerRefuses
  BY <1>1 DEF PeerRefuses, Answer
<1>2. CASE PeerFinishes
  BY <1>2 DEF PeerFinishes, Answer
<1> QED
  BY <1>1, <1>2

(* The event: it is refused only for the caller's own ids, because a       *)
(* bounded summary always fits and the adapter's results are well formed.  *)
LEMMA BuildStep ==
    ASSUME IInv, BuildForensicEvent
    PROVE  IInv'
<1> DEFINE e == Event(outcome.kind, outcome.receipt, BoundedSummary(SummaryOf(outcome)))
<1>1. /\ BoundedSummary(SummaryOf(outcome)) \in [chars : Nat, bytes : Nat]
      /\ BoundedSummary(SummaryOf(outcome)).chars \in 1..MaxSummaryChars
  BY SummaryOfIsText, BoundedSummaryFits DEF IInv
<1>2. e \in [outcome : Kinds, receipt : RecognizedStatuses \union {"none"},
             summary : [chars : Nat, bytes : Nat]]
  BY <1>1 DEF Event, IInv, TypeOK
<1>3. e.outcome = outcome.kind /\ e.receipt = outcome.receipt
  BY DEF Event
<1>4. ~ValidEvent(e) => \E id \in IdNames : request.ids[id] \notin 1..MaxIdBytes
  BY <1>1 DEF ValidEvent, Event, IInv, TypeOK
<1> HIDE DEF e
<1>5. \/ ValidEvent(e) /\ event' = e /\ pc' = "record" /\ UNCHANGED failure
      \/ ~ValidEvent(e) /\ failure' = "event" /\ pc' = "failed" /\ UNCHANGED event
  BY DEF BuildForensicEvent, e
<1>6. pc = "build" /\ UNCHANGED <<call, world, outcome, sink>>
  BY DEF BuildForensicEvent
<1> QED
  BY <1>2, <1>3, <1>4, <1>5, <1>6 DEF IInv, TypeOK, call, world

(* The export, and the end of the process.                                 *)
LEMMA RecordStep ==
    ASSUME IInv, RecordForensicEvent \/ Kill \/ UNCHANGED vars
    PROVE  IInv'
<1> USE DEF IInv, TypeOK, call, world
<1>1. CASE RecordForensicEvent
  BY <1>1 DEF RecordForensicEvent
<1>2. CASE Kill
  BY <1>2 DEF Kill, Over
<1>3. CASE UNCHANGED vars
  BY <1>3 DEF vars
<1> QED
  BY <1>1, <1>2, <1>3

(* The invariant holds for good.                                           *)
THEOREM Invariance == Spec => []IInv
<1>1. Init => IInv
  BY InitInv
<1>2. IInv /\ [Next]_vars => IInv'
  BY AdapterStep, PeerStep, BuildStep, RecordStep DEF Next, Run
<1> QED
  BY <1>1, <1>2, PTL DEF Spec

-----------------------------------------------------------------------------
(* The properties.                                                         *)

(* Whatever the deadline cuts off and whatever NeuronForge Local answers,  *)
(* the event claims of the task only what NeuronForge Local really did     *)
(* (dispatch_task, build_forensic_event).                                  *)
THEOREM ClaimsAreAlwaysBacked == Spec => []ClaimsAreBacked
<1>1. IInv => ClaimsAreBacked
  BY DEF IInv, TypeOK, ClaimsAreBacked
<1> QED
  BY <1>1, Invariance, PTL

(* No failure text, of any length and alphabet, keeps an outcome from      *)
(* being recorded (bounded_summary against validate).                      *)
THEOREM OutcomesCanBeTold == Spec => []EveryOutcomeCanBeTold
<1>1. IInv => EveryOutcomeCanBeTold
  BY DEF IInv
<1> QED
  BY <1>1, Invariance, PTL

(* Exit code zero means a task done validly, and evidence in the sink.     *)
THEOREM ZeroIsAPromise == Spec => []ZeroMeansDoneAndTold
<1>1. IInv => ZeroMeansDoneAndTold
  BY DEF IInv, TypeOK, ZeroMeansDoneAndTold, ExitCode
<1> QED
  BY <1>1, Invariance, PTL
=============================================================================
