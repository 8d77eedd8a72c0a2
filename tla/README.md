# A TLA+ model of FA Local Operator

FA Local Operator decides, on one machine, whether a request may be executed, delivers admitted work
through adapters, and leaves forensic evidence of what it did. This directory models the parts of it
in which something can go wrong that a unit test would hardly reach: the loop that delivers a plan
step by step, the decision in front of it and the pipeline around both; the subprocess delivery to
Cortex and the HTTP dispatch to NeuronForge, each with its deadline; the evidence files and tables
that several processes write to; the serve daemon with its reloads; the services a library caller
combines (coordinator, review packages, recorder, writeback); and the reconnaissance that reads a
sealed corpus. TLC checks the models on small instances; TLAPS proves the main results for every
value of their constants.

`PROJECT.json` lists the components, the runs with their properties and mutants, the source lines
every definition stands for, the hazards and the theorems. Paths below are relative to `src/src/`.

## 1. Inventory

The program is a library with one binary (`bin/fa_local_run.rs`). Every command is one sequential call
in one process; only `serve` keeps running. Concurrency comes from outside (two processes that share a
sink, the processes of Cortex, a peer that goes on working after a timeout, signals, files rewritten by
somebody else) and from the three threads of a shard delivery. There is no network of peers; the
failures that matter are failing adapters, sinks, children, HTTP calls and files, and processes that
are killed.

| Component | State | Operations | Interacts with |
|---|---|---|---|
| Route decision (`app/decision_service.rs`, `domain/requester_trust`, `policy`, `capabilities`, `posture`) | list of denials, resolved decision | load request and registry, evaluate trust, load policy, admit capability, check consistency, resolve posture | called by the pipeline |
| Plan validation (`domain/execution`) | step index, budget sum | the checks in order, stable hash | called by the pipeline; the plan it accepts is delivered |
| Per-step delivery (`app/execution_service.rs`) | outcome per step, stored fallback results, stop flag, status trace | dispatch a step, its fallback, reuse, skip, aggregate | adapters through a registry |
| Execution pipeline (`app/execution_pipeline_service.rs`) | records of the run | decide, validate the plan, select a route, deliver per step or whole, record | all of the above, recorder, sink |
| Forensic recorder (`app/forensic_service.rs`, `domain/forensics`) | none | build, check and export one event | pipeline, sinks |
| JSONL sinks (`adapters/exports`, `integrations/*/forensic_export.rs`) | a shared file | open for append, write an object, write a newline | other processes on the same file |
| Shard delivery (`integrations/cortex/shard_dispatch.rs`) | descriptor file, child process group, two pipes, two reader threads | write, spawn, poll, kill, reap, join, parse | Cortex's CLI |
| Gnat dispatch (`app/gnat_dispatch_pipeline_service.rs`, `integrations/cortex`) | shard results, trail | build requests, negotiate, deliver every shard, record | shard delivery, sink |
| SQLite stores (`adapters/exports/sqlite_forensic_store.rs` and its two twins) | a table | insert in one transaction, query by time | pipeline, `forensics-query` |
| Serve endpoint (`adapters/serve`, `app/serve_service.rs`) | loaded registry, reload flag | start, answer a request, reload on SIGHUP, verify a token | signals, HTTP clients, whoever edits the file |
| NeuronForge dispatch (`integrations/neuronforge_local`, its pipeline) | outcome, event | one HTTP call with a timeout, classify, record | NeuronForge Local, sink |
| Coordination (`ExecutionService::coordinate`) | none | turn a decision, a plan and a directive into a status trace | library callers |
| Status contract (`domain/status`) | none | which fields a status of each state has | everything that builds a status |
| Review packages (`app/review_service.rs`, `domain/review`) | none | check that decision, plan and status belong together, build a package | decision, coordinator, recorder |
| Friction payloads (`domain/friction`) | none | which fields each kind of friction has | operator surface |
| DataForge Local (`integrations/df_local`) | none | build an artifact with its key, post it | DataForge Local |
| Reuse reconnaissance (`app/reuse_reconnaissance_service.rs`, `domain/reuse_reconnaissance`) | documents, result | admit, read, analyze, freeze, complete | corpus reader, coordinator |
| Sealed corpus reader (`adapters/execution_delivery/sealed_corpus_read.rs`) | members, bytes, digests | read the manifest, check and read each member | files others may rewrite |
| File-write and nmap adapters, service status, schemas, command line | files or none | one effect each, or parsing | pipeline |

What is hard here, and where:

- **Work done twice or not at all.** A step may come up in its own turn, as a fallback of one or
  several earlier steps, or both (`execution_service.rs:396`).
- **Aggregation.** Six kinds of step outcome are folded into one status; a wrong fold lies to the
  operator (`execution_service.rs:856`).
- **Failure between two steps.** A text limit, a sink or an export fails after adapters were already
  called (`execution_pipeline_service.rs:218`, `gnat_dispatch_pipeline_service.rs:145`).
- **Races of a deadline.** Exit, kill, reap and two readers in any order
  (`shard_dispatch.rs:284-408`).
- **Shared files.** Two writes per event without a lock, and processes that die between them
  (`jsonl_forensic_export.rs:71`).
- **A caller with several of everything.** Coordinator, review service, recorder and writeback are
  stateless and trust the caller to bring the decision, plan and status of one request
  (`review_service.rs:322`).
- **Check, then use, on files.** A registry or a corpus is rewritten between two steps of its reader
  (`serve_service.rs:88`, `sealed_corpus_read.rs:90`).
- **Signals.** A SIGHUP arrives between any two steps of the daemon (`http_server.rs:103`).
- **Timeouts against a peer that works.** What is reported after a timeout is not what happened
  (`neuronforge_local/mod.rs:176`, `df_local/mod.rs:193`).
- **Chains of early returns.** Admission is a conjunction spread over six functions, each of which
  returns at its first denial (`capabilities/mod.rs:93`, `posture/mod.rs:96`, `execution/mod.rs:104`).

## 2. Modules

| Module | Models | Source |
|---|---|---|
| `PlanDelivery` | per-step delivery with fallbacks, cancellation and aggregation | `app/execution_service.rs`, `adapters/execution_delivery` |
| `DeliveryContract` | what a delivery promises, abstractly | - |
| `RouteDecision` | `resolve_route_decision` | decision, trust, policy, capabilities, posture |
| `PlanValidation` | `ExecutionPlanValidator::validate` and the stable hash | `domain/execution` |
| `ExecutionPipeline` | `ExecutionPipelineService::run` with the recorder and the exit code of `execute`; EXTENDS `PlanDelivery`, whose steps are its per-step delivery | `app/execution_pipeline_service.rs`, `app/forensic_service.rs`, `domain/forensics` |
| `ShardDispatch` | one shard delivery with its threads, processes and deadline | `integrations/cortex/shard_dispatch.rs` |
| `GnatDispatch` | a Gnat run around it, with the exit code of `gnat-dispatch` | Gnat pipeline, negotiation and events |
| `ForensicSinks` | processes that write to one JSONL file or one SQLite store, and queries | `adapters/exports`, `integrations/*/forensic_export.rs` |
| `ServeEndpoint` | the daemon, its reloads and its token check | `adapters/serve`, `app/serve_service.rs` |
| `NeuronForgeDispatch` | one dispatch with its deadline, its event and the exit code | `integrations/neuronforge_local`, its pipeline |
| `StatusContract` | `ExecutionStatus::validate` | `domain/status` |
| `FrictionContract` | `FrictionPayload::validate`; EXTENDS `StatusContract` | `domain/friction` |
| `Coordination` | a caller over coordinator, review service, recorder and writeback; EXTENDS `FrictionContract` | `app/execution_service.rs`, `app/review_service.rs`, `domain/review`, `app/forensic_service.rs`, `integrations/df_local` |
| `Reconnaissance` | one reconnaissance over a sealed corpus that others rewrite | `app/reuse_reconnaissance_service.rs`, `domain/reuse_reconnaissance`, `sealed_corpus_read.rs` |
| `DeliveryProofs` | the theorems about `PlanDelivery` and about `ExecutionPipeline`, which extends it, with their proofs | - |
| `AdmissionProofs` | those about `RouteDecision` and `PlanValidation`, the two decisions that precede a delivery | - |
| `CortexProofs` | those about `GnatDispatch` and about `ShardDispatch`, and what connects them | - |
| `ForensicSinksProofs`, `ServeEndpointProofs`, `NeuronForgeDispatchProofs`, `CoordinationProofs`, `ReconnaissanceProofs` | those about the module each is named after | - |

`MC*.tla` give the modules their small instances (`MCAdmission` and `MCCortex` to two modules each);
each `.cfg` is one run.

### PlanDelivery

`plan`, `routeMatches`, `registry` are the arguments. `cursor` is the loop index,
`outcome` the local of the current turn, `outcomes`, `fallbackResults`, `stopDispatching` and
`statuses` are the locals of `deliver_plan_per_step_via_registry` under their own names. `calls` and
`world` are not program state: they note what the adapters were asked and what they really did, so
that a report can be compared with it. An adapter (external) may give any `AdapterDeliveryResult`;
those that `dispatch_one_step` refuses end the delivery with an error after the call was made.
A step's turn is `ReuseFallbackResult`, `SkipStep`, or `DispatchStep`, then possibly
`DispatchFallback`, then `SettleStep`; `BuildPlanOutcomeStatus` has one disjunct per branch of the fold. Texts
are represented by their length in bytes and by the words the recorder looks for.

### RouteDecision

One action per stage of `resolve_route_decision`. Each chain of early returns is a sequence of
(check, reason) pairs of which `Judge` takes the first that fails; `validate_consistency`, which does not
return early, is a concatenation of pushes. Posture resolution is the most restrictive of six factors
by `posture_rank`. `BoundedSummary` models the cut of a long denial text by counting
one-byte and two-byte characters.

### PlanValidation

The checks in order with the loops unrolled to one item per step, the index that later checks read and
the sum with its width (`U64Max`). `checking` is the check that is next, `item` the place of its loop, and
the definitions are called `ValidationInit`, `ValidationNext` and `ValidationSpec`, so that the module can
be used beside `RouteDecision`. SHA-256 is taken to be injective: a hash stands for the canonical
content it was computed from (`Canonical`), and a submission carries the plan that was `signed`.

### ExecutionPipeline

`stage` is where `run` stands. Decision and plan validation are their outcomes here (the other modules
open them up), per-step delivery is `PlanDelivery` step by step (`DeliverPerStep` is a step of its `Next`;
the pipeline's own definitions are `PipelineInit`, `PipelineNext` and `PipelineSpec`), whole-route
delivery one adapter call whose answer is turned into a trace. `Record` is record-and-export: it
refuses events whose kind, state, posture, subtype or words do not agree, and fails when the sink does,
possibly after the line was written. `records` is what `run` returns, `exported` what the sink holds.

### ShardDispatch

The delivering thread (`stage`), two readers, the child, one process that the child may start
(in its group or detached), the two pipes with bounded capacity, and the deadline, interleaved freely.
The child (external) may write its output in any order, never finish, exit early or start the helper
at any time. The definitions are called `ShardInit`, `ShardNext` and `ShardSpec`, so that the module can
be used beside `GnatDispatch`.

### GnatDispatch and ForensicSinks

`GnatDispatch` follows `run` shard by shard; one delivery is one step and may return whatever
`ShardDispatch` may. An export that fails ends the run, and may have left the event in the sink: the
object is written before its newline (`ExportFails`). In `ForensicSinks` each run opens the file,
writes the object and then the newline, each of which may fail or be torn, and may be killed anywhere;
the other run continues on the same file. With a SQLite store an event is one insert that commits or
does not, and whose receipt may be lost after the commit. `timestamp_utc` is stored as the text
`to_rfc3339` gives, in which a fraction has as many digits as it needs, and a query orders by comparing
texts: `ToRfc3339` and `TextBefore` model both.

### ServeEndpoint

`file` is the registry file, emptied and filled again by somebody else; a document is its version and
the capabilities it registers. `Hangup` may happen between any two steps of the daemon. A reload is two
steps, the read of the file (taken to be one read) and the assignment under the lock. A token is the
list of what `verify_bearer_token` looks at; a signature is represented by whose key made it.
`asked` is history: the version of the file at the last SIGHUP.

### NeuronForgeDispatch

The dispatching process (`pc`), the peer, and what is between them (`response`). The peer refuses or
starts, finishes when it likes or never, and answers something recognizable or not; the deadline may
pass at any time in between. Ids and texts are their lengths,
in bytes where the code counts bytes and in characters where it counts characters.

### StatusContract, FrictionContract and Coordination

The two contracts are tables: for each state, or kind of friction, which fields must be present, which
absent, and which postures are possible. `Coordination` is a caller that holds decisions, plans and
statuses of several requests of one correlation, some built by the coordinator and some loaded from
documents, and passes any combination of them to `coordinate`, `emit_review_package`, `record_event`
and `post_execution_status_event`. Each is one action with all its early returns; the writeback is
three, because DataForge Local may store what the caller then sees time out. The peer is taken to
acknowledge any key it knows; that it refuses one with another payload is not relied on.
`InputAssumption` says what loading has checked of the caller's documents: the form of plan and step
ids, which the schema of a plan and `ExecutionStatus::validate` define alike, and that a status has one
of the states.

### Reconnaissance

`sealed` is the corpus the input names by its digest; `manifest` and `files` are what is on disk.
Another process may replace a member or the manifest between any two steps of the reader, which checks
kind, path and size of a member in one step and reads it in the next. A manifest may be refused for any
reason outside the model (confinement, parsing, identity, exposure class), and so may a member that is
not UTF-8. A digest is the content it was taken of (SHA-256 is injective). `total` is the code's
`total_bytes`. The analysis is pure and one step: donors are classified, the topology chosen, the
result frozen. Every stable sort of the code is `Arrange`: an item stands at the place that the number
of those before it gives (`Before`), which is what a stable sort by integer keys does; paths and ids
are integers in their order. A document that does not deserialize is one outside `DocumentShape`.

## 3. Runs

Nine runs pass, and each of their properties has a mutant, a plausible slip in a mapped definition
(`Bug...`) that makes TLC find it violated. Two of them check two state machines that share nothing:
a behaviour of `admission` is one of `RouteDecision` or one of `PlanValidation`, a behaviour of
`cortex` one of `GnatDispatch` or one of `ShardDispatch`, while the other stands still.

| Run | Distinct states | Checks |
|---|---|---|
| `plan_delivery` | 301,304 | no step delivered twice; the final status is what the adapters did; no call after a stop; no fallback wasted; refinement of `DeliveryContract` |
| `admission` | 497,897 | execution only if every party admits; the denial shown names a cause; the resolver's `expect` calls are safe; the chain of plan checks accepts exactly the well-bounded unaltered plans, and blames the hash only if nothing else is wrong; an accepted hash fixes what is delivered |
| `execution_pipeline` | 307,776 | nothing delivered unadmitted; the evidence of refusals and statuses is a complete, ordered, truthful prefix; exit code zero iff something was delivered |
| `cortex` | 164,180 | Cortex's runner is started only for what was negotiated, declared, admitted and authorized; the trail is the run; exit code zero means all complete; receipts rest on whole output; the deadline kills the whole group; never a kill after the reap; nothing left behind; the deadline bounds the delivery |
| `forensic_sinks` | 94,740 | a receipt means stored; a run never glues its own records; a query returns the oldest event first |
| `serve_endpoint` | 373,332 | every answer is of one whole document; who has no issued token, live or within the leeway, learns nothing of the registry; no SIGHUP is lost, wherever in the loop it arrives; every request is answered |
| `neuronforge_dispatch` | 17,976 | a recorded outcome is what the peer did; every outcome fits its event; exit code zero means done and stored; the run ends although the peer never answers |
| `coordination` | 304,944 | exactly the lawful calls get a trace, and it is a lawful history of valid statuses; a package is of one request; whatever stops a request can be told to the operator, in one way; what is acknowledged is stored |
| `reconnaissance` | 388,690 | only the sealed corpus is analyzed; no prohibited mode, blocked donor or blocked topology is recommended; completion is told only with such a result |

Three runs show documents that the code does not keep; each checks the one property that states what
the document says, and TLC finds it violated:

- `failure_folds_into_denial`. A denial text cut at byte 157 inside a multi-byte character panics
  (`domain/posture/mod.rs:497`), where `app/decision_service.rs:19-21` says that a failing requester-trust
  or policy evaluation becomes a denial. It may be the requester envelope or the policy that does not
  load; TLC's shortest trace has a valid envelope and a malformed policy.
- `every_outcome_is_recorded`. A plan that the validator denies ends the run without a forensic record
  (`app/execution_pipeline_service.rs:172-179`, as a test asserts), where the comment at 98-100 and
  `doc/system/02-contract-surface.md:133` say that plan-invalid outcomes are recorded too. The passing
  `EvidenceIsComplete` says what the code does keep: the records and the sink hold the refusal, or one
  event per status, and nothing for a denied plan.
- `expired_learn_nothing`. A token past its `exp` is accepted for the leeway that `jsonwebtoken` grants by
  default (`adapters/serve/token_verify.rs:101`), where the comment at 49 and the scoping packet
  (`02_IMPLEMENTATION_SCOPING_PACKET.md:146`) say that it is denied; the test uses a token two hours past.
  The passing `StrangersLearnNothing` therefore counts such a token (`Lingering`) apart from one that is
  live (`Entitled`).

Smaller differences are visible in the models and have no run of their own:

- A failure text of 160 bytes is accepted from an adapter, wrapped, and then refused as too long: a
  plan with completed steps ends in an error without a status (`execution_service.rs:971`; the comment
  at 848-850 promises the completed steps are reported). A plan that completed through fallbacks can
  exceed the same limit (1054).
- `Degraded` is also reported when adapters exist and say that a dependency is unavailable
  (`execution_service.rs:945`; the comment at 852-853 says "no adapter at all").
- A denial text with the word "failed" is refused by the recorder, and the run ends in an error with no
  record (`execution_pipeline_service.rs:127`; 98-100 say that every outcome is recorded).
- A child that exits in time and leaves a process on its pipes blocks the delivery: the deadline no
  longer applies to the joins (`shard_dispatch.rs:325`; 362-363 say that it never blocks).
- Two processes on one sink can put two objects on one line (`jsonl_forensic_export.rs:71`; 8-9 say one
  object per line).
- A capability whose `revocation_state` is `disabled` is admitted (`capabilities/mod.rs:119`;
  `doc/system/02-contract-surface.md:101` says that disabled capabilities are denied).
- The coordinator does not compare the plan's capabilities with the requested one, the review service
  does (`execution_service.rs:1268`, `review_service.rs:309`); `coordinated_at_utc` is compared with
  nothing.
- A package for a `review_required` decision, and one for a decision with a degradation that is no
  fallback, is emitted but can never be recorded (`forensic_service.rs:255`).
- A writeback that timed out and is tried again has a new key: it may be stored twice
  (`df_local/mod.rs:66`).
- A descriptor file whose write fails half way stays behind (`shard_dispatch.rs:253`), and two declared
  shards with one id are given the same enrichment, hence the same file
  (`gnat_dispatch_pipeline_service.rs:196`); Cortex compares the declared digest with the file.
- A whole-route delivery that its adapter reports as failed at a later step counts as nothing delivered,
  in the exit code and in `RouteDelivered`: the steps before may have been done, but `run` is not told.

### Bounds

- `plan_delivery`: three steps, two capabilities, every list of up to two forward fallback references,
  both cancellation policies, every registry. Three is the least number of steps in which a step is
  the fallback of two others and also has its own turn. Ids of 1 and 48 bytes and texts of 135, 160
  and 161 bytes sit on both sides of each limit.
- `admission`, resolution: all combinations of the six posture factors, and around an admissible request
  every single flaw of each of the four inputs, combined with every flaw of the others.
- `admission`, validation: every list of up to two steps over two ids, capabilities, side effects and
  budgets, against registries with one flaw; and three-step plans with every list of up to two
  fallback references, signed as they are or before one edit. `U64Max` is 5 so that the sum overflows.
- `execution_pipeline`: two steps, one fallback reference, one additional adapter, and the word
  "failed" present or absent in each step id and text; the other words are licensed in the same way.
- `cortex`, delivery: pipes of two pieces and three pieces of output, so both can be full while the child
  still has something to write; one helper process.
- `cortex`, run: two shards (equal ids included), two worker types of which one is authorized.
- `forensic_sinks`: two runs with two events each, interchangeable (symmetry), started at instants that
  agree in the second and have no, one or two digits of fraction, or differ in it.
- `every_outcome_is_recorded` has the instance of `execution_pipeline`, `expired_learn_nothing` that of
  `serve_endpoint` with one request and nothing else around it.
- `serve_endpoint`: two rewrites, two SIGHUPs and two requests, so that a SIGHUP can fall into a reload
  and a request can wait behind one; every request that differs from a good one in one respect, and one
  of the two configured keys unusable.
- `neuronforge_dispatch`: ids of 0, 36, 200 and 201 bytes and texts of 0, 60, 160 and 161 characters of
  one or three bytes: both sides of each limit, in both units.
- `coordination`: two requests, ten decisions (every posture, one inconsistent, two with a summary
  that is too long or empty), three plans, four calls of which one coordinates. Loaded statuses are
  all combinations of their optional fields over all states.
- `reconnaissance`: fifteen corpora (in order and not, with a duplicate, missing, forbidden or
  surplus member, with a document that does not deserialize, with donors of every disposition), eleven
  calls with one flaw each, two rewrites.
  The byte limits are so small that a whole corpus reaches them exactly.

Deadlock checking is off because every one of these calls ends, the bounds on what the world does
around the daemon are used up, and the caller of `Coordination` may stop.

### Types

Every module has a `TypeOK` that documents what its variables hold. `PlanDelivery`'s is a property of its
run; the others are not a run's property, but each module with a proof module has it proved as a part
of its inductive invariant.

### Fairness

Only where something can wait is there a liveness property, and only there is fairness stated.
In `ShardDispatch` the program's own threads (`Deliver`, the two readers) and the clock
(`DeadlinePasses`) are fair; the child and its helper are not: they may stall for ever, which is what the
deadline is for. In `NeuronForgeDispatch` the dispatching process is fair, its own deadline included;
the peer may take for ever. In `ServeEndpoint` only the daemon's thread is fair: nobody has to rewrite
the file, send a signal or a request. The other calls are sequential and loop over finite lists.

## 4. Proofs

All eleven state machines are proved about, each for every value of its constants. For each of
them comes first the inductive invariant, as a conjunction of named parts, then lemmas about the
operators, then one lemma per action, then the invariance and the theorems. Every invariant was first checked
by TLC on the instance of the component's run.

| Module | Theorem | Property |
|---|---|---|
| `DeliveryProofs` | `TypeCorrect`, `DeliversAtMostOnce`, `ReportsTruthfully` | `TypeOK`, `AtMostOnce`, `TruthfulReport` |
| | `CallsNothingAfterStop` | `NoCallAfterStop` (action property) |
| | `FallbacksRescue` | `FallbackRescues` |
| | `LoopImplementsContract` | `ImplementsContract` (refinement of `DeliveryContract`) |
| | `OnlyAdmittedIsDelivered`, `EvidenceNeverGaps`, `EvidenceNeverLies`, `ExitCodeIsHonest` | `DeliveryIsAdmitted`, `EvidenceIsComplete`, `EvidenceIsTruthful`, `ExitCodeTellsDelivery` |
| `AdmissionProofs` | `AdmissionIsAlwaysEarned`, `DenialsAreExplained`, `RulesAreAlwaysThere` | `AdmissionIsEarned`, `DenialIsExplained`, `RulesAreThere` |
| | `VerdictIsAlwaysExact`, `HashAlwaysPins` | `VerdictIsExact`, `HashPinsDelivery` |
| `CortexProofs` | `ReceiptsAreWhole`, `DeadlineKillsTheGroup`, `KillingIsSafe`, `LeavesNothingBehind` | `ReceiptIsWhole`, `DeadlineKillsGroup`, `KillIsSafe`, `NothingLeftBehind` |
| | `OnlyAdmittedRuns`, `TrailStaysTheRun`, `ZeroIsComplete` | `RunsOnlyWhatIsAdmitted`, `TrailIsTheRun`, `ZeroMeansComplete` |
| | `DeliveryIsOneStep` | `DeliveryFitsTheRun` (what `GnatDispatch` assumes of a delivery) |
| `ForensicSinksProofs` | `ReceiptsMeanStored`, `OwnLinesStayApart`, `OldestComeFirst` | `ReceiptMeansStored`, `OwnLinesApart`, `OldestFirst` |
| `ServeEndpointProofs` | `AnswersAreAlwaysWhole`, `StrangersNeverLearn` | `AnswersAreWhole`, `StrangersLearnNothing` |
| `NeuronForgeDispatchProofs` | `ClaimsAreAlwaysBacked`, `OutcomesCanBeTold`, `ZeroIsAPromise` | `ClaimsAreBacked`, `EveryOutcomeCanBeTold`, `ZeroMeansDoneAndTold` |
| `CoordinationProofs` | `LawfulCallsAlwaysSucceed`, `HandoffIsAlwaysOneRequest`, `AcknowledgedIsAlwaysStored`, `FrictionCanAlwaysBeTold` | `LawfulCallsSucceed`, `HandoffIsOneRequest`, `AcknowledgedIsStored`, `FrictionCanBeTold` |
| `ReconnaissanceProofs` | `OnlyTheSealedCorpus`, `TheResultIsSound`, `Typing` | `OnlySealedIsAnalyzed`, `ResultIsSound`, `TypeOK` |

### The arguments

- **`PlanDelivery`** (plans of every length, any fallback references and texts; `PlanAssumption`: at least
  one step, ids of 1 to 48 bytes, natural text lengths). `IInv` adds to the types `LoopInv` (where the
  loop stands), `CallInv` (a step ahead of the loop was called only if its result waits in
  `fallback_results`, and results of steps behind the loop are used up) and `OutcomeInv` (every settled,
  waiting or current outcome is attested by what the adapters did). `AtMostOnce` needs that fallbacks lead
  forward (`FallbackIsLater`), which plan validation guarantees and `Plans` states; `TruthfulReport`
  follows at the end of the loop from `OutcomesAttest`. `NoCallAfterStop` needs `StopInv`: an outcome
  behind the loop that stops the plan has set `stop_dispatching`, no turn begins after that, and a
  fallback without success waits only if the step it was tried for stops the plan. `FallbackRescues`
  relates a settled outcome to the trace and needs `RescueInv`: a step ahead of the loop that is announced
  in the trace has its result waiting (`AnnouncedInv`), a waiting result was tried for an earlier step
  (`TriedInv`), and of every step behind the loop without completion it is known why its fallback did
  not help (`SettledInv`, `RescuedInv`). For the
  refinement every action is shown to be a step of `DeliveryContract` or to leave its state alone, with
  `IInv` giving that the report made at the end is one the contract allows.
- **`ExecutionPipeline`** composes: `LoopKept` says that while the pipeline delivers per step the loop's
  own `IInv` holds, and a step of the loop keeps it by the loop's `StepIInv`, cited, not repeated.
  `AdmissionInv` and `StageInv` tie the position of `run` to the decision, the plan's verdict and which of
  the two delivery modes has touched its variables; `TraceTells` ties the status trace to what was
  delivered; `EvidenceInv`: records and sink are a beginning of the run's evidence (`Owed`), equal unless
  the run failed, and all of it at the end, a denied plan with its empty evidence included.
- **`RouteDecision`** (any inputs of their shapes, `InputAssumption`). `DenialInv`: until consistency is
  checked, `admitted` and an empty vector say the same, so the follow-up denial of capability admission
  is never the first. `StageInv`: as long as nothing is denied, each stage that is over has admitted. It
  rests on `NoneFailing` (when no check of a chain is the first to fail, all hold; by the well-foundedness
  of `<` on the naturals) and `PushOne`. `DecisionInv` with `MostRestrictiveIsLeast` gives that an allowed
  execution has all six factors at least at `PolicyPreapproved`.
- **`PlanValidation`** (plans of every length, any width of the integers; `SubmissionAssumption`: plans
  have their shapes). `FoundInv` says what each check that is over has found of the plan and what it left
  for the later ones: the index is exact for the steps the loop is past (`IndexTo`), so that a fallback
  reference looked up in it is judged by the places of the steps themselves, and `total` is the sum of
  their budgets. The sum is a recursive function of the number of steps (`BudgetThrough`); that it exists
  and unfolds (`SumExists`, `BudgetUnfolds`) and that it never decreases (`BudgetGrows`) is shown by
  taking the least place at which it would fail (`LeastOf`). A sum that leaves the width at some step
  therefore exceeds every budget at the end, so the overflow denial never hits a well bounded plan.
- **`ShardDispatch`** (pipes and outputs of every size; `PipeAssumption`: a pipe holds at least one piece).
  One invariant ties each position of the delivering thread to the state of child, helper, file and
  readers. `GnatDispatch` takes a delivery for one step with one of the `RunnerResults`; that this covers
  what `deliver_shard` returns, and that without a child it is only ever an unavailable dispatch, follows
  from the same invariant (`DeliveryIsOneStep`).
- **`GnatDispatch`** (any number of shards; `GnatAssumption`: an envelope has its shape and at least one
  shard). `ProgressInv` counts how far the trail is behind the results, `EventInv` says that each event is
  the one owed at its place, `SinkInv` that the sink holds the trail or, after an error, that trail and the
  one event that was due, `RanInv` that Cortex ran a shard at most once and only if it may be dispatched, and
  that a completed result comes from such a run.
- **`ForensicSinks`** (any number of runs and events, any instants of one second and two digits,
  `EventsAssumption`, `TimesAssumption`). `StageInv` says what of its current event a run has stored at
  each position, `TextInv` that a newline follows every text of an event the run has gone past, and that
  a run whose present text is in the file is about to write its newline or has ended; `ReceiptInv` counts
  the receipts. Other runs only append, so every fact about places in the file survives them.
  `OldestFirst` rests on a lemma that the order of the texts `to_rfc3339` gives is the order of the
  instants.
- **`ServeEndpoint`** (any number of rewrites, signals and requests, `BoundsAssumption`). `WrittenInv` and
  `RegistryInv`: what is served, or was read by a reload under way, was a whole document once; `AnswerInv`:
  an answer is gone before the registry or the request it was given for may change. A token that is
  verified is `Entitled` or `Lingering`, and without verification no document matters (`UnverifiedSeesNothing`).
- **`NeuronForgeDispatch`** (ids and texts of every length; `TextsAssumption`: no character is shorter than
  a byte). `ResponseInv` ties what is on the wire to the peer, `OutcomeInv` the outcome to the response,
  `EventInv` the event to the outcome.
- **`Coordination`** (any decisions, plans, documents and times, any number of calls, `InputAssumption`).
  `HeldInv`: every status the caller holds has passed `Validate`, because each of the four builders gives
  a status that does unless the caller erred (`PendingStatusHolds`, `AdmittedStatusHolds`,
  `InProgressStatusHolds`, `FinalStatusHolds`); with the shape of a trace (`WorkTrace`, over plans of every
  length) that is `LawfulCallsSucceed` in both directions. `PackageInv`: an event has its package, and a
  package that asks for approval its plan. `PostInv`: the artifact ids of the writebacks differ, and what
  is stored was posted under its id. `FrictionCanBeTold` needs no further invariant: it follows from
  `HeldInv`, `PackageInv` and the comparison of the two contracts' tables (`ContractsAgree`, `KindFits`).
- **`Reconnaissance`** (any corpora, any contents another process writes and any number of times it does;
  `InputAssumption`: paths are integers and sizes natural numbers). `Reading` says how far the reader is:
  the members are those of some manifest in path order (`MembersAreAManifest`), which need not be the
  sealed one; the first of them, as many as there are documents, were `Checked`, and each document is what
  its member's digest stands for (`DocumentsMatch`), whatever the file held when the member was checked.
  Only the comparison of the aggregate in `Analyze` makes them the sealed ones (`Analyzed`). What was
  checked in path order is then carried over to the corpus in its own order: `ArrangeMoves` shows that a
  sort moves each item to a place of its own (ranks differ, and by the pigeonhole principle every place
  is taken), and `SumOfReordered` that a sum does not depend on the order, by taking the shortest list of
  which it would. `ResultIsSound` follows from `Analyzed` alone: the document of a kind is the only one
  (`TheDocumentIsSealed`), a sort drops and adds nothing (`ArrangeRange`), the first open mode is a way to
  reuse the donor and is missing only when there is none (`ReuseModeIsAWay`), and the order of the
  topologies has a first one (`SimplestExists`), which is the simplest.

### Only model-checked

- Termination and everything under fairness: `ShardDispatch.DeadlineBounds`, `NeuronForgeDispatch.Ends`,
  `ServeEndpoint.HangupTakesEffect` and `EveryRequestIsAnswered`. Liveness is outside this prover's reach.
- The three runs that are violated.

## 5. Not modelled

- JSON Schema validation, UUIDs, clocks and SHA-256 (external): a document loads or does not.
- `local_file_write` and `nmap_preflight`: each is one file write or one external command, and every
  answer they can give is an answer of the model's adapter. What they leave on disk is not modelled; the
  receipts of the steps of one plan share a path (`local_file_write.rs:45`), so a later step overwrites
  the receipt of an earlier one.
- The service status envelope: one constant document.
- Output formatting, logging, help texts and argument parsing.
- In `Reconnaissance`, the wording of the result and its order of deployables (which is the order of the
  documents), and the memory a member takes that grows after its size was checked. Of two topologies
  with one id both are marked as selected, as in the code.
