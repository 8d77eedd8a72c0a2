------------------------------ MODULE MCCortex ------------------------------
(* The Gnat run and the delivery of one of its shards, in one run: a       *)
(* behaviour is a run, in which a delivery is one step, or a delivery with *)
(* its threads and processes.  A pipe holds two pieces and the child may   *)
(* write three to each, so that both pipes can fill while the child still  *)
(* has something to write.                                                 *)
EXTENDS MCGnatDispatch, ShardDispatch

(* No run: none of its steps is due.                                       *)
NoRun ==
    /\ envelope = CHOOSE e \in Envelopes : TRUE
    /\ capabilities = CHOOSE c \in CapabilityStates : TRUE
    /\ enrichments = [s \in ShardIds |-> "none"]
    /\ hasSink = FALSE
    /\ pc = "idle"
    /\ negotiation = "none"
    /\ results = <<>>
    /\ cortexRan = [i \in Declared |-> 0]
    /\ events = <<>>
    /\ stored = <<>>

(* No delivery: it is over before anything was spawned.                    *)
NoDelivery ==
    /\ stage = "returned"
    /\ shardFile = FALSE
    /\ child = "none"
    /\ helper = "none"
    /\ expired = TRUE
    /\ pipe = [p \in Pipes |-> 0]
    /\ unwritten = [p \in Pipes |-> 0]
    /\ reader = [p \in Pipes |-> "none"]
    /\ receipt = "not_json"
    /\ waitOutcome = "none"
    /\ result = "DispatchUnavailable"

CortexInit ==
    \/ Init /\ NoDelivery
    \/ NoRun /\ ShardInit

CortexNext ==
    \/ Next /\ UNCHANGED shardVars
    \/ ShardNext /\ UNCHANGED vars

CortexSpec == CortexInit /\ [][CortexNext]_<<vars, shardVars>> /\ Fairness
=============================================================================
