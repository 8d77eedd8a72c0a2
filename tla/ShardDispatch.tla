---------------------------- MODULE ShardDispatch ----------------------------
(***************************************************************************)
(* One delivery of a Gnat shard to Cortex's CLI:                           *)
(* CortexSubprocessGnatShardAdapter::deliver_shard with wait_with_deadline *)
(* and kill_process_group (integrations/cortex/shard_dispatch.rs).         *)
(*                                                                         *)
(* Five parties run concurrently: the delivering thread, which polls the   *)
(* child until it exits or the deadline passes; the two threads that drain *)
(* the child's stdout and stderr to the end; the child; and a process the  *)
(* child may start, which inherits both pipes and may leave the child's    *)
(* process group.  A pipe ends when nobody holds its write end any more.   *)
(*                                                                         *)
(* Output is counted in pieces; the receipt is the child's whole stdout.   *)
(***************************************************************************)
EXTENDS Naturals

CONSTANTS
    PipeCapacity,  \* pieces a pipe buffers before a write blocks
    MaxOutput      \* bound on the pieces the child writes to one pipe

ASSUME PipeAssumption == PipeCapacity \in Nat \ {0} /\ MaxOutput \in Nat

Pipes == {"stdout", "stderr"}

(* What the child's stdout is once it has written all of it.               *)
Receipts == {"complete", "other_state", "no_state", "not_json"}

VARIABLES
    stage,       \* where deliver_shard stands
    shardFile,   \* the descriptor file exists
    child,       \* the process that was spawned
    helper,      \* the process it may have started
    expired,     \* the deadline has passed
    pipe,        \* pieces in each pipe
    unwritten,   \* pieces the child still means to write to each pipe
    reader,      \* the thread draining each pipe
    receipt,     \* what the child's stdout amounts to
    waitOutcome, \* what wait_with_deadline returned
    result       \* what deliver_shard returned

parent == <<stage, shardFile, waitOutcome, result>>

output == <<pipe, unwritten, reader, receipt>>

shardVars == <<parent, child, helper, expired, output>>

(* The delivering thread: before the spawn, polling, killing, waiting for  *)
(* the threads, and back.                                                  *)
Stages == {"start", "descriptor", "poll", "kill", "reap", "join_stdout",
           "join_stderr", "returned"}

ChildStates == {"none", "running", "exited", "killed", "reaped"}

(* In the child's process group, in one of its own, or gone.               *)
HelperStates == {"none", "in_group", "detached", "gone"}

DeliveryResults == {"none", "Completed", "NotCompleted", "DispatchUnavailable"}

(* Every variable has its type.                                            *)
ShardTypeOK ==
    /\ stage \in Stages
    /\ shardFile \in BOOLEAN
    /\ child \in ChildStates
    /\ helper \in HelperStates
    /\ expired \in BOOLEAN
    /\ pipe \in [Pipes -> 0..PipeCapacity]
    /\ unwritten \in [Pipes -> 0..MaxOutput]
    /\ reader \in [Pipes -> {"none", "reading", "done"}]
    /\ receipt \in Receipts
    /\ waitOutcome \in {"none", "Exited", "DeadlineExceeded", "WaitFailed"}
    /\ result \in DeliveryResults

ShardInit ==
    /\ stage = "start"
    /\ shardFile = FALSE
    /\ child = "none"
    /\ helper = "none"
    /\ expired = FALSE
    /\ pipe = [p \in Pipes |-> 0]
    /\ unwritten \in [Pipes -> 0..MaxOutput]
    /\ reader = [p \in Pipes |-> "none"]
    /\ receipt \in Receipts
    /\ unwritten["stdout"] = 0 => receipt = "not_json"
    /\ waitOutcome = "none"
    /\ result = "none"

-----------------------------------------------------------------------------
(* The delivering thread.                                                  *)

Return(r) ==
    /\ stage' = "returned"
    /\ result' = r

(* The worker type is not authorized, the source file is missing, or the   *)
(* descriptor cannot be written, perhaps only in part.                     *)
RefuseShard ==
    /\ stage = "start"
    /\ Return("DispatchUnavailable")
    /\ shardFile' \in BOOLEAN
    /\ UNCHANGED <<child, helper, expired, output, waitOutcome>>

WriteDescriptor ==
    /\ stage = "start"
    /\ shardFile' = TRUE
    /\ stage' = "descriptor"
    /\ UNCHANGED <<child, helper, expired, output, waitOutcome, result>>

SpawnFails ==
    /\ stage = "descriptor"
    /\ shardFile' = FALSE
    /\ Return("DispatchUnavailable")
    /\ UNCHANGED <<child, helper, expired, output, waitOutcome>>

(* The child leads a process group of its own; both readers start.         *)
Spawn ==
    /\ stage = "descriptor"
    /\ child' = "running"
    /\ reader' = [p \in Pipes |-> "reading"]
    /\ stage' = "poll"
    /\ UNCHANGED <<shardFile, helper, expired, pipe, unwritten, receipt,
                   waitOutcome, result>>

(* The end of wait_with_deadline; the descriptor goes whatever it says.    *)
Waited(w) ==
    /\ waitOutcome' = w
    /\ shardFile' = FALSE
    /\ stage' = "join_stdout"

(* try_wait: the child has exited, and this reaps it.                      *)
PollExited ==
    /\ stage = "poll"
    /\ child = "exited"
    /\ child' = "reaped"
    /\ Waited("Exited")
    /\ UNCHANGED <<helper, expired, output, result>>

PollFails ==
    /\ stage = "poll"
    /\ Waited("WaitFailed")
    /\ UNCHANGED <<child, helper, expired, output, result>>

(* A plausible slip: the deadline is looked at without asking the child.   *)
BugPollDeadline ==
    /\ stage = "poll"
    /\ expired
    /\ stage' = "kill"
    /\ child' = IF child = "exited" THEN "reaped" ELSE child
    /\ UNCHANGED <<shardFile, helper, expired, output, waitOutcome, result>>

(* try_wait found the child running, and the deadline has passed.          *)
PollDeadline ==
    /\ stage = "poll"
    /\ child = "running"
    /\ expired
    /\ stage' = "kill"
    /\ UNCHANGED <<shardFile, child, helper, expired, output, waitOutcome, result>>

(* A plausible slip: only the child itself is signaled.                    *)
BugKilledHelper == helper

(* What the signal to the process group makes of the helper.               *)
KilledHelper == IF helper = "in_group" THEN "gone" ELSE helper

(* A plausible slip: the signal is sent by a tool that delivers nothing.   *)
BugKillProcessGroup ==
    /\ stage = "kill"
    /\ stage' = "reap"
    /\ UNCHANGED <<shardFile, child, helper, expired, output, waitOutcome, result>>

(* kill_process_group: the whole group, then the child once more.  The     *)
(* child may have exited since it was polled.                              *)
KillProcessGroup ==
    /\ stage = "kill"
    /\ child' = IF child = "running" THEN "killed" ELSE child
    /\ helper' = KilledHelper
    /\ stage' = "reap"
    /\ UNCHANGED <<shardFile, expired, output, waitOutcome, result>>

(* child.wait()                                                            *)
ReapKilled ==
    /\ stage = "reap"
    /\ child \in {"killed", "exited"}
    /\ child' = "reaped"
    /\ Waited("DeadlineExceeded")
    /\ UNCHANGED <<helper, expired, output, result>>

(* A plausible slip: stdout is taken without waiting for its reader.       *)
BugJoinStdout ==
    /\ stage = "join_stdout"
    /\ stage' = "join_stderr"
    /\ UNCHANGED <<shardFile, child, helper, expired, output, waitOutcome, result>>

JoinStdout ==
    /\ stage = "join_stdout"
    /\ reader["stdout"] = "done"
    /\ stage' = "join_stderr"
    /\ UNCHANGED <<shardFile, child, helper, expired, output, waitOutcome, result>>

(* What the thread has read of stdout: cut short it is no JSON.            *)
Parsed ==
    IF unwritten["stdout"] = 0 /\ pipe["stdout"] = 0 THEN receipt ELSE "not_json"

(* A plausible slip: what a killed child printed is parsed all the same.   *)
BugResultOf(w) ==
    CASE Parsed = "complete" -> "Completed"
      [] Parsed = "other_state" -> "NotCompleted"
      [] OTHER -> "DispatchUnavailable"

ResultOf(w) ==
    CASE w = "Exited" /\ Parsed = "complete" -> "Completed"
      [] w = "Exited" /\ Parsed = "other_state" -> "NotCompleted"
      [] OTHER -> "DispatchUnavailable"

JoinStderr ==
    /\ stage = "join_stderr"
    /\ reader["stderr"] = "done"
    /\ Return(ResultOf(waitOutcome))
    /\ UNCHANGED <<shardFile, child, helper, expired, output, waitOutcome>>

-----------------------------------------------------------------------------
(* The reader threads: read_to_end.                                        *)

Held(p) == child = "running" \/ helper \in {"in_group", "detached"}

Read(p) ==
    /\ reader[p] = "reading"
    /\ pipe[p] > 0
    /\ pipe' = [pipe EXCEPT ![p] = @ - 1]
    /\ UNCHANGED <<parent, child, helper, expired, unwritten, reader, receipt>>

ReadToEnd(p) ==
    /\ reader[p] = "reading"
    /\ pipe[p] = 0
    /\ ~Held(p)
    /\ reader' = [reader EXCEPT ![p] = "done"]
    /\ UNCHANGED <<parent, child, helper, expired, pipe, unwritten, receipt>>

-----------------------------------------------------------------------------
(* The processes and the clock.                                            *)

(* A write blocks while the pipe is full.                                  *)
ChildWrites(p) ==
    /\ child = "running"
    /\ unwritten[p] > 0
    /\ pipe[p] < PipeCapacity
    /\ pipe' = [pipe EXCEPT ![p] = @ + 1]
    /\ unwritten' = [unwritten EXCEPT ![p] = @ - 1]
    /\ UNCHANGED <<parent, child, helper, expired, reader, receipt>>

(* A process of the child's, in its group or not.                          *)
ChildStartsHelper ==
    /\ child = "running"
    /\ helper = "none"
    /\ helper' \in {"in_group", "detached"}
    /\ UNCHANGED <<parent, child, expired, output>>

(* The child may exit at any time, its output written or not.              *)
ChildExits ==
    /\ child = "running"
    /\ child' = "exited"
    /\ UNCHANGED <<parent, helper, expired, output>>

HelperExits ==
    /\ helper \in {"in_group", "detached"}
    /\ helper' = "gone"
    /\ UNCHANGED <<parent, child, expired, output>>

DeadlinePasses ==
    /\ stage = "poll"
    /\ ~expired
    /\ expired' = TRUE
    /\ UNCHANGED <<parent, child, helper, output>>

Deliver ==
    \/ WriteDescriptor
    \/ SpawnFails
    \/ Spawn
    \/ PollExited
    \/ PollDeadline
    \/ KillProcessGroup
    \/ ReapKilled
    \/ JoinStdout
    \/ JoinStderr

Environment ==
    \/ \E p \in Pipes : ChildWrites(p)
    \/ ChildStartsHelper
    \/ ChildExits
    \/ HelperExits

ShardNext ==
    \/ RefuseShard
    \/ PollFails
    \/ Deliver
    \/ \E p \in Pipes : Read(p) \/ ReadToEnd(p)
    \/ Environment
    \/ DeadlinePasses

(* The operating system schedules this process's threads and time passes;  *)
(* nothing is assumed of the child or of what it starts.                   *)
Fairness ==
    /\ WF_shardVars(Deliver)
    /\ WF_shardVars(DeadlinePasses)
    /\ \A p \in Pipes : WF_shardVars(Read(p)) /\ WF_shardVars(ReadToEnd(p))

ShardSpec == ShardInit /\ [][ShardNext]_shardVars /\ Fairness

-----------------------------------------------------------------------------
(* Properties.                                                             *)

(* A completed or not-completed shard rests on a receipt the child wrote   *)
(* to the end, read to the end, before it exited of its own accord: no     *)
(* race of deadline, exit and readers turns a killed child or a partial    *)
(* read into a receipt (deliver_shard).                                    *)
ReceiptIsWhole ==
    result \in {"Completed", "NotCompleted"} =>
        /\ unwritten["stdout"] = 0 /\ pipe["stdout"] = 0
        /\ waitOutcome = "Exited"
        /\ result = "Completed" <=> receipt = "complete"

(* After the deadline killed the child, nothing of its process group is    *)
(* left running, whatever the child started while it was being polled      *)
(* (kill_process_group signals the group, not the child).                  *)
DeadlineKillsGroup ==
    waitOutcome = "DeadlineExceeded" => child = "reaped" /\ helper # "in_group"

(* The group is signaled only while the child is not yet reaped, so its    *)
(* process id still names it and no other process (kill of a negated pid). *)
KillIsSafe == stage = "kill" => child # "reaped"

(* A delivery that spawned a child leaves no descriptor file, no zombie    *)
(* and no reader thread behind, unless try_wait itself failed.             *)
NothingLeftBehind ==
    stage = "returned" /\ waitOutcome \in {"Exited", "DeadlineExceeded"} =>
        /\ ~shardFile
        /\ child = "reaped"
        /\ \A p \in Pipes : reader[p] = "done" /\ pipe[p] = 0

(* A process that outlives the child keeps the pipes open.                 *)
Orphaned == child \notin {"none", "running"} /\ helper \in {"in_group", "detached"}

(* The deadline bounds the delivery: for good, it has returned, or a       *)
(* process that outlives the child holds a pipe, or try_wait failed.  In   *)
(* particular a child that never exits or that fills a pipe does not block *)
(* it (wait_with_deadline with both pipes drained).                        *)
DeadlineBounds == <>[](stage = "returned" \/ Orphaned \/ waitOutcome = "WaitFailed")
=============================================================================
