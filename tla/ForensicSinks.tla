---------------------------- MODULE ForensicSinks ----------------------------
(***************************************************************************)
(* The evidence several processes leave in one place: the append-only      *)
(* JSONL file (--forensic-export) and the SQLite store (--forensic-sqlite, *)
(* of which a run is given at most one), with their twins for Gnat and     *)
(* NeuronForge events, called once per event by                            *)
(* record_and_export_event_via.                                            *)
(*                                                                         *)
(* A JSONL export opens the file for appending and formats one line into   *)
(* it with writeln!, which hands the JSON text and the newline to the file *)
(* one after the other; nothing locks the file.  An insert into the store  *)
(* is one transaction, and `forensics-query` reads the store in the order  *)
(* of the timestamps' texts.  An export that fails ends its run; a process *)
(* may be killed between any two writes.                                   *)
(***************************************************************************)
EXTENDS Integers, Sequences, FiniteSets

CONSTANTS
    Runs,      \* the processes sharing the file
    MaxEvents, \* bound on the events one run exports
    Times      \* the instants at which runs may start: [second, digits]

ASSUME EventsAssumption == MaxEvents \in Nat

ASSUME TimesAssumption == Times \subseteq [second : Nat, digits : (0..9) \X (0..9)]

VARIABLES
    file,    \* the pieces in the file, in order
    pc,      \* where each run stands in export_event
    event,   \* the event each run is exporting, or will export next
    receipts,\* how many exports of each run returned Exported
    sink,    \* which sink each run was given
    now,     \* the timestamp all events of a run carry
    table,   \* the rows of the SQLite store
    result   \* the rows the last query returned

vars == <<file, pc, event, receipts, sink, now, table, result>>
given == <<sink, now>>
store == <<table, result>>

(* A JSON text, the beginning of one, or a newline; each remembers who     *)
(* wrote it and for which event.                                           *)
Pieces == [run : Runs, event : 1..MaxEvents, part : {"json", "torn", "newline"}]

Piece(r, part) == [run |-> r, event |-> event[r], part |-> part]

(* A run is between exports, in one of them, or over.                      *)
Stages == {"ready", "opened", "written", "inserting", "committed",
           "returned", "failed", "killed"}

Row(r) == [run |-> r, event |-> event[r]]

Rows == [run : Runs, event : 1..MaxEvents]

(* Every variable has its type.                                            *)
TypeOK ==
    /\ file \in Seq(Pieces)
    /\ pc \in [Runs -> Stages]
    /\ event \in [Runs -> 1..(MaxEvents + 1)]
    /\ receipts \in [Runs -> 0..MaxEvents]
    /\ sink \in [Runs -> {"jsonl", "sqlite"}]
    /\ now \in [Runs -> Times]
    /\ table \subseteq Rows
    /\ result \in Seq(Rows)

Init ==
    /\ file = <<>>
    /\ pc = [r \in Runs |-> "ready"]
    /\ event = [r \in Runs |-> 1]
    /\ receipts = [r \in Runs |-> 0]
    /\ sink \in [Runs -> {"jsonl", "sqlite"}]
    /\ now \in [Runs -> Times]
    /\ table = {}
    /\ result = <<>>

-----------------------------------------------------------------------------
Goto(r, stage) == pc' = [pc EXCEPT ![r] = stage]

(* Opened for appending: every write goes to the end of the file.          *)
OpenSink(r) ==
    /\ pc[r] = "ready"
    /\ sink[r] = "jsonl"
    /\ event[r] <= MaxEvents
    /\ Goto(r, "opened")
    /\ UNCHANGED <<file, event, receipts, given, store>>

(* A plausible slip: the receipt is given for the text alone.              *)
BugWriteJson(r) ==
    /\ pc[r] = "opened"
    /\ file' = Append(file, Piece(r, "json"))
    /\ receipts' = [receipts EXCEPT ![r] = event[r]]
    /\ Goto(r, "written")
    /\ UNCHANGED <<event, given, store>>

WriteJson(r) ==
    /\ pc[r] = "opened"
    /\ file' = Append(file, Piece(r, "json"))
    /\ Goto(r, "written")
    /\ UNCHANGED <<event, receipts, given, store>>

(* The second half of writeln!; the export returns its receipt.            *)
WriteNewline(r) ==
    /\ pc[r] = "written"
    /\ file' = Append(file, Piece(r, "newline"))
    /\ event' = [event EXCEPT ![r] = @ + 1]
    /\ receipts' = [receipts EXCEPT ![r] = @ + 1]
    /\ Goto(r, "ready")
    /\ UNCHANGED <<given, store>>

(* SqliteForensicStore::insert, under its mutex.                           *)
BeginInsert(r) ==
    /\ pc[r] = "ready"
    /\ sink[r] = "sqlite"
    /\ event[r] <= MaxEvents
    /\ Goto(r, "inserting")
    /\ UNCHANGED <<file, event, receipts, given, store>>

(* A plausible slip: the row of the run's last event is replaced.          *)
BugCommitInsert(r) ==
    /\ pc[r] = "inserting"
    /\ table' = {row \in table : row.run # r} \union {Row(r)}
    /\ Goto(r, "committed")
    /\ UNCHANGED <<file, event, receipts, given, result>>

(* The transaction of the INSERT: the row is there as a whole or not.      *)
CommitInsert(r) ==
    /\ pc[r] = "inserting"
    /\ table' = table \union {Row(r)}
    /\ Goto(r, "committed")
    /\ UNCHANGED <<file, event, receipts, given, result>>

(* The export returns its receipt.                                         *)
ReturnReceipt(r) ==
    /\ pc[r] = "committed"
    /\ event' = [event EXCEPT ![r] = @ + 1]
    /\ receipts' = [receipts EXCEPT ![r] = @ + 1]
    /\ Goto(r, "ready")
    /\ UNCHANGED <<file, given, store>>

(* A plausible slip: a failed export is skipped and the run goes on.       *)
BugAfterFailure(r) ==
    /\ Goto(r, "ready")
    /\ event' = [event EXCEPT ![r] = @ + 1]
    /\ UNCHANGED receipts

(* map_export_result: an export that failed is an error of the run.        *)
AfterFailure(r) ==
    /\ Goto(r, "failed")
    /\ UNCHANGED <<event, receipts>>

(* The sink is unavailable, or a write fails after a part of the text or   *)
(* none of it; an insert that fails is rolled back.                        *)
ExportFails(r) ==
    /\ \/ /\ pc[r] = "ready"
          /\ event[r] <= MaxEvents
          /\ UNCHANGED file
       \/ /\ pc[r] = "opened"
          /\ file' \in {file, Append(file, Piece(r, "torn"))}
       \/ /\ pc[r] \in {"written", "inserting"}
          /\ UNCHANGED file
    /\ AfterFailure(r)
    /\ UNCHANGED <<given, store>>

(* A run that has nothing more to export returns.                          *)
ReturnRun(r) ==
    /\ pc[r] = "ready"
    /\ Goto(r, "returned")
    /\ UNCHANGED <<file, event, receipts, given, store>>

Over(r) == pc[r] \in {"returned", "failed", "killed"}

(* The process is killed, between two writes or in the middle of one.      *)
KillRun(r) ==
    /\ \/ /\ ~Over(r)
          /\ UNCHANGED file
       \/ /\ pc[r] = "opened"
          /\ file' = Append(file, Piece(r, "torn"))
    /\ Goto(r, "killed")
    /\ UNCHANGED <<event, receipts, given, store>>

-----------------------------------------------------------------------------
(* Reading the store.                                                      *)

(* A plausible slip: the zone is written as Z, which sorts after the       *)
(* digits and the point.                                                   *)
BugToRfc3339(t) ==
    <<48 + t.second>>
        \o (CASE t.digits = <<0, 0>> -> <<>>
              [] t.digits[2] = 0 /\ t.digits[1] # 0 -> <<46, 48 + t.digits[1]>>
              [] OTHER -> <<46, 48 + t.digits[1], 48 + t.digits[2]>>)
        \o <<90>>

(* to_rfc3339: a point and the digits of the fraction as far as they are   *)
(* needed, in groups (of one digit here, of three there), then +00:00;     *)
(* characters are their codes, of which + is the least.                    *)
ToRfc3339(t) ==
    <<48 + t.second>>
        \o (CASE t.digits = <<0, 0>> -> <<>>
              [] t.digits[2] = 0 /\ t.digits[1] # 0 -> <<46, 48 + t.digits[1]>>
              [] OTHER -> <<46, 48 + t.digits[1], 48 + t.digits[2]>>)
        \o <<43>>

(* SQLite compares texts character by character.                           *)
TextBefore(a, b) ==
    \E k \in 1..Len(b) :
        /\ \A i \in 1..(k - 1) : i <= Len(a) /\ a[i] = b[i]
        /\ k > Len(a) \/ a[k] < b[k]

(* The orders ORDER BY timestamp_utc ASC allows: rows of one timestamp, as *)
(* all of a run are, come in any.                                          *)
OrderedByTime(rows) ==
    {s \in [1..Cardinality(rows) -> rows] :
        /\ \A i, j \in DOMAIN s : s[i] = s[j] => i = j
        /\ \A i, j \in DOMAIN s :
              TextBefore(ToRfc3339(now[s[i].run]), ToRfc3339(now[s[j].run])) => i < j}

(* query_where, from another process; by correlation id it returns the     *)
(* rows of one run, by event type those of any.                            *)
Query ==
    /\ \E rs \in SUBSET Runs :
          result' \in OrderedByTime({row \in table : row.run \in rs})
    /\ UNCHANGED <<file, pc, event, receipts, given, table>>

Next ==
    \/ Query
    \/ \E r \in Runs :
        \/ OpenSink(r)
        \/ WriteJson(r)
        \/ WriteNewline(r)
        \/ BeginInsert(r)
        \/ CommitInsert(r)
        \/ ReturnReceipt(r)
        \/ ExportFails(r)
        \/ ReturnRun(r)
        \/ KillRun(r)

Spec == Init /\ [][Next]_vars

-----------------------------------------------------------------------------
(* Properties.                                                             *)

Holds(i, r, e, part) == file[i] = [run |-> r, event |-> e, part |-> part]

(* A receipt is worth something, whatever else runs or is killed: the      *)
(* event is in the store, or in the file as a whole with the newline of    *)
(* its export after it (Exported is returned only after the insert or the  *)
(* writeln! succeeded).                                                    *)
ReceiptMeansStored ==
    \A r \in Runs : \A e \in 1..receipts[r] :
        \/ [run |-> r, event |-> e] \in table
        \/ \E i, j \in 1..Len(file) :
              i < j /\ Holds(i, r, e, "json") /\ Holds(j, r, e, "newline")

Earlier(t, u) ==
    \/ t.second < u.second
    \/ t.second = u.second /\ t.digits[1] < u.digits[1]
    \/ t.second = u.second /\ t.digits[1] = u.digits[1] /\ t.digits[2] < u.digits[2]

(* A query returns the oldest events first although it orders texts of     *)
(* different lengths: an instant on the second, on the millisecond or      *)
(* between has no, three, six or nine digits of fraction (to_rfc3339).     *)
OldestFirst ==
    \A i, j \in 1..Len(result) :
        Earlier(now[result[i].run], now[result[j].run]) => i < j

IsText(i) == file[i].part \in {"json", "torn"}

(* No newline between two pieces.                                          *)
SameLine(i, j) == \A k \in i..j : file[k].part # "newline"

(* A run never glues two of its own texts together, in order and each      *)
(* event once: what a failed export left unfinished is never written after *)
(* by the same run, because the failure ends it (map_export_result).       *)
OwnLinesApart ==
    \A i, j \in 1..Len(file) :
        i < j /\ IsText(i) /\ IsText(j) /\ file[i].run = file[j].run =>
            file[i].event < file[j].event /\ ~SameLine(i, j)
=============================================================================
