------------------------- MODULE NeuronForgeDispatch -------------------------
(***************************************************************************)
(* One dispatch of a bounded task to NeuronForge Local:                    *)
(* NeuronForgeDispatchPipelineService::run around the HTTP adapter, and    *)
(* the exit code of `neuronforge-dispatch`.                                *)
(*                                                                         *)
(* The request is posted once, with one deadline over the whole exchange.  *)
(* NeuronForge Local goes on working when the deadline has passed, so what *)
(* it does and what is recorded of it are two things.  One event is built, *)
(* checked and exported after the exchange.                                *)
(***************************************************************************)
EXTENDS Integers

CONSTANTS
    Texts,   \* the texts of failures: [chars, bytes], in characters and bytes
    IdBytes  \* the lengths of the ids a caller may pass

ASSUME TextsAssumption ==
    /\ Texts \subseteq [chars : Nat, bytes : Nat]
    /\ \A t \in Texts : t.chars <= t.bytes
    /\ IdBytes \subseteq Nat

VARIABLES
    request,   \* the request: its task and the lengths of its ids
    exporter,  \* a sink was given
    pc,        \* where run() stands
    peer,      \* what NeuronForge Local has done, and with which result
    response,  \* what came back over HTTP
    outcome,   \* the adapter's result
    event,     \* the forensic event
    sink,      \* the events in the sink
    failure    \* why run() returned an error

vars == <<request, exporter, pc, peer, response, outcome, event, sink, failure>>
call == <<request, exporter>>
world == <<peer, response>>

MaxSummaryChars == 160
MaxIdBytes == 200

AdmittedTaskBytes == 22  \* analyze.style.scene.v1

IdNames == {"dispatch_id", "request_id", "task_id"}

RecognizedStatuses == {"valid", "degraded", "failed"}

(* A receipt is a JSON document with a schema_validation_status, which may *)
(* be missing or unheard of.                                               *)
ReceiptStatuses == RecognizedStatuses \union {"unrecognized"}

NoText == [chars |-> 0, bytes |-> 0]

Outcome(kind, receipt, summary) ==
    [kind |-> kind, receipt |-> receipt, summary |-> summary]

NoOutcome == Outcome("none", "none", NoText)

Event(kind, receipt, summary) ==
    [outcome |-> kind, receipt |-> receipt, summary |-> summary]

NoEvent == Event("none", "none", NoText)

Kinds == {"none", "Completed", "NotCompleted", "DispatchUnavailable"}

Stages == {"dispatch", "waiting", "build", "record", "returned", "failed", "killed"}

(* Every variable has its type.                                            *)
TypeOK ==
    /\ request \in [admitted : BOOLEAN, ids : [IdNames -> Nat]]
    /\ exporter \in BOOLEAN
    /\ pc \in Stages
    /\ peer \in [state : {"idle", "working", "refused", "done"},
                 status : ReceiptStatuses \union {"none"}]
    /\ response \in ReceiptStatuses \union {"none", "garbage", "refusal"}
    /\ outcome \in [kind : Kinds, receipt : RecognizedStatuses \union {"none"},
                    summary : [chars : Nat, bytes : Nat]]
    /\ event \in [outcome : Kinds, receipt : RecognizedStatuses \union {"none"},
                  summary : [chars : Nat, bytes : Nat]]
    /\ sink \in SUBSET {event}
    /\ failure \in {"none", "event", "export"}

Init ==
    /\ \E ids \in [IdNames -> IdBytes], admitted \in BOOLEAN :
          request = [admitted |-> admitted,
                     ids |-> IF admitted THEN [ids EXCEPT !["task_id"] = AdmittedTaskBytes]
                             ELSE ids]
    /\ exporter \in BOOLEAN
    /\ pc = "dispatch"
    /\ peer = [state |-> "idle", status |-> "none"]
    /\ response = "none"
    /\ outcome = NoOutcome
    /\ event = NoEvent
    /\ sink = {}
    /\ failure = "none"

-----------------------------------------------------------------------------
(* HttpNeuronForgeLocalAdapter::dispatch_task.                             *)

Settle(result) ==
    /\ outcome' = result
    /\ pc' = "build"

(* A task other than the admitted one never leaves the process.            *)
RefuseTask ==
    /\ pc = "dispatch"
    /\ ~request.admitted
    /\ \E t \in Texts : Settle(Outcome("DispatchUnavailable", "none", t))
    /\ UNCHANGED <<call, world, event, sink, failure>>

(* The POST is sent; it may not arrive.                                    *)
PostTask ==
    /\ pc = "dispatch"
    /\ request.admitted
    /\ pc' = "waiting"
    /\ \/ /\ peer' = [state |-> "working", status |-> "none"]
       \/ UNCHANGED peer
    /\ UNCHANGED <<call, response, outcome, event, sink, failure>>

(* A plausible slip: a timeout is reported as a failure of the task.       *)
BugTransportFails ==
    /\ pc = "waiting"
    /\ \E t \in Texts : Settle(Outcome("NotCompleted", "failed", t))
    /\ UNCHANGED <<call, world, event, sink, failure>>

(* A plausible slip: there is no deadline, only refused connections.       *)
BugNoDeadline ==
    /\ pc = "waiting"
    /\ peer.state = "idle"
    /\ \E t \in Texts : Settle(Outcome("DispatchUnavailable", "none", t))
    /\ UNCHANGED <<call, world, event, sink, failure>>

(* The connection fails, or the deadline passes, at whatever point of the  *)
(* exchange; nobody tells NeuronForge Local.                               *)
TransportFails ==
    /\ pc = "waiting"
    /\ \E t \in Texts : Settle(Outcome("DispatchUnavailable", "none", t))
    /\ UNCHANGED <<call, world, event, sink, failure>>

(* The response is read: a receipt says how the task went; a document      *)
(* without a known status, one that is no JSON, or an error status, leaves *)
(* that unknown.                                                           *)
ReadResponse ==
    /\ pc = "waiting"
    /\ response # "none"
    /\ \/ /\ response = "valid"
          /\ Settle(Outcome("Completed", response, NoText))
       \/ /\ response \in {"degraded", "failed"}
          /\ Settle(Outcome("NotCompleted", response, NoText))
       \/ /\ response \notin RecognizedStatuses
          /\ \E t \in Texts : Settle(Outcome("DispatchUnavailable", "none", t))
    /\ UNCHANGED <<call, world, event, sink, failure>>

-----------------------------------------------------------------------------
(* NeuronForge Local (external), in its own time: it may answer after the  *)
(* dispatch has given up, or never.                                        *)

Answer(body) == response' = IF pc = "waiting" THEN body ELSE response

PeerRefuses ==
    /\ peer.state = "working"
    /\ peer' = [peer EXCEPT !.state = "refused"]
    /\ Answer("refusal")
    /\ UNCHANGED <<call, pc, outcome, event, sink, failure>>

PeerFinishes ==
    /\ peer.state = "working"
    /\ \E status \in ReceiptStatuses :
          /\ peer' = [state |-> "done", status |-> status]
          /\ \E body \in {status, "garbage"} : Answer(body)
    /\ UNCHANGED <<call, pc, outcome, event, sink, failure>>

-----------------------------------------------------------------------------
(* The pipeline.                                                           *)

(* A plausible slip: the mark of a cut is not counted.                     *)
BugBoundedSummary(text) ==
    CASE text.chars = 0 -> [chars |-> 21, bytes |-> 21]
      [] text.chars \in 1..MaxSummaryChars -> text
      [] OTHER -> [chars |-> MaxSummaryChars + 1,
                   bytes |-> MaxSummaryChars * (text.bytes \div text.chars) + 3]

(* bounded_summary counts characters; the cut ends in a character of three *)
(* bytes.                                                                  *)
BoundedSummary(text) ==
    CASE text.chars = 0 -> [chars |-> 21, bytes |-> 21]
      [] text.chars \in 1..MaxSummaryChars -> text
      [] OTHER -> [chars |-> MaxSummaryChars,
                   bytes |-> (MaxSummaryChars - 1) * (text.bytes \div text.chars) + 3]

(* The event's own text, around the ids it names.                          *)
SummaryOf(result) ==
    LET chars ==
        CASE result.kind = "Completed" ->
                48 + request.ids["dispatch_id"] + request.ids["task_id"]
          [] OTHER ->
                48 + request.ids["dispatch_id"] + (IF result.receipt = "failed" THEN 6 ELSE 8)
    IN  IF result.kind = "DispatchUnavailable" THEN result.summary
        ELSE [chars |-> chars, bytes |-> chars]

(* NeuronForgeTaskDispatchForensicEvent::validate.                         *)
ValidEvent(e) ==
    /\ e.summary.chars \in 1..MaxSummaryChars
    /\ \A id \in IdNames : request.ids[id] \in 1..MaxIdBytes
    /\ e.outcome = "DispatchUnavailable" => e.receipt = "none"
    /\ e.outcome = "Completed" => e.receipt = "valid"
    /\ e.outcome = "NotCompleted" => e.receipt \in {"degraded", "failed"}

(* build_forensic_event: an event that is refused is an error of run(),    *)
(* whatever was dispatched.                                                *)
BuildForensicEvent ==
    /\ pc = "build"
    /\ LET e == Event(outcome.kind, outcome.receipt, BoundedSummary(SummaryOf(outcome)))
       IN  \/ /\ ValidEvent(e)
              /\ event' = e
              /\ pc' = "record"
              /\ UNCHANGED failure
           \/ /\ ~ValidEvent(e)
              /\ failure' = "event"
              /\ pc' = "failed"
              /\ UNCHANGED event
    /\ UNCHANGED <<call, world, outcome, sink>>

(* A plausible slip: an export that fails is passed over.                  *)
BugRecordForensicEvent ==
    /\ pc = "record"
    /\ pc' = "returned"
    /\ sink' \in {sink, IF exporter THEN sink \union {event} ELSE sink}
    /\ UNCHANGED <<call, world, outcome, event, failure>>

(* record_forensic_event: an export that fails is an error, although the   *)
(* event may be in the sink.                                               *)
RecordForensicEvent ==
    /\ pc = "record"
    /\ \/ /\ sink' = IF exporter THEN sink \union {event} ELSE sink
          /\ pc' = "returned"
          /\ UNCHANGED failure
       \/ /\ exporter
          /\ sink' \in {sink, sink \union {event}}
          /\ failure' = "export"
          /\ pc' = "failed"
    /\ UNCHANGED <<call, world, outcome, event>>

Over == pc \in {"returned", "failed", "killed"}

(* The process is killed; no event is written ahead of the dispatch.       *)
Kill ==
    /\ ~Over
    /\ pc' = "killed"
    /\ UNCHANGED <<call, world, outcome, event, sink, failure>>

Run ==
    \/ RefuseTask
    \/ PostTask
    \/ TransportFails
    \/ ReadResponse
    \/ BuildForensicEvent
    \/ RecordForensicEvent

Next == Run \/ PeerRefuses \/ PeerFinishes \/ Kill

(* run() goes on, by its deadline if by nothing else; NeuronForge Local    *)
(* may take for ever.                                                      *)
Spec == Init /\ [][Next]_vars /\ WF_vars(Run)

(* The exit code of the command.                                           *)
ExitCode == IF pc = "returned" /\ outcome.kind = "Completed" THEN 0 ELSE 1

-----------------------------------------------------------------------------
(* Properties.                                                             *)

(* What is recorded, or was about to be, is what NeuronForge Local really  *)
(* did: nothing is called completed, degraded or failed on the strength of *)
(* silence, an error or a document that does not say so (dispatch_task's   *)
(* match, build_forensic_event).                                           *)
ClaimsAreBacked ==
    event.outcome \in {"Completed", "NotCompleted"} =>
        /\ peer.state = "done"
        /\ peer.status = event.receipt
        /\ (event.outcome = "Completed") = (peer.status = "valid")

(* No text keeps a dispatch out of the evidence: after the exchange an     *)
(* event can be built of every outcome, of any length and alphabet, unless *)
(* the caller's own ids are out of bounds (bounded_summary and validate    *)
(* count the same thing).                                                  *)
EveryOutcomeCanBeTold ==
    failure = "event" => \E id \in IdNames : request.ids[id] \notin 1..MaxIdBytes

(* Exit code zero is a promise: the task was done, validly, and the        *)
(* evidence is where it was asked for.                                     *)
ZeroMeansDoneAndTold ==
    ExitCode = 0 =>
        /\ peer = [state |-> "done", status |-> "valid"]
        /\ event.outcome = "Completed"
        /\ exporter => event \in sink

(* A dispatch ends although NeuronForge Local never answers.               *)
Ends == <>Over
=============================================================================
