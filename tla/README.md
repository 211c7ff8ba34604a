# A TLA+ model of DryRun-RL

DryRun-RL predicts how long an asynchronous reinforcement-learning run takes:
it simulates rollout engines that generate samples, a trainer that consumes
them in batches, and a *staleness policy* that decides how far the rollouts may
run ahead of the trainer.  Around the simulator stand profilers that measure
vLLM and Megatron and write the artifacts the cost models are fitted to.

This directory models the simulator's control loop, the staleness policies that
plug into it, the rollout engine it drives and the telemetry it writes; the
cost models from profile to prediction; and the two profilers with their jobs,
files and reruns.  It model-checks them with TLC and proves the central facts
with TLAPS.  Paths below are relative to the repository (`src/` is its root here).

## 1. Inventory

| component | state it keeps | operations | talks to |
|---|---|---|---|
| **Control loop** `dryrun/simulator/simulator.py` | trainer version, engine version, `inflight`, `ready`, consumed and dropped records, clock, idle rounds | `run`, `_admit`, `_collect`, `_discard`, `_train`, `_run_engine` | policy hooks, engine instances, telemetry |
| **Policies** `dryrun/policy/` | each its own counters, queue or groups | `admit_quota`, `on_admit`, `on_complete`, `peek_batch`, `take_batch`, `engine_version_after_train`, `on_version_advance`, `expire`, `on_batch_unavailable`, `on_abort`, `check_invariants` | called by the loop only |
| **Event coordinator** `Simulator._run_engine`, `_align_instances`, `_undo_and_align`, `_seed_events` | one pending event per instance in a heap | pop, deadline, align, undo, commit | engine instances |
| **Engine instance** `component/rollout/engine/` | waiting, running and completed lists, KV tokens per request, clock, snapshot | `add_request`, `advance_one_event`, `advance_to`, `undo_last_event`, `cancel`, `abort_all`, preemption | coordinator |
| **Decode closed form** `engine/advance.py` | none | `crossing_step`, `elapsed`, `steps_within`, `next_completion` | engine instance |
| **Telemetry** `telemetry/` | per-instance cursor, step writers | `emit_instance`, `flush_rollout_step` | loop, coordinator |
| **Training cost models** `cost/training/` | entries with coefficients and a domain | fit, load, latency and peak memory of a batch | `regress`, `_train` |
| **Rollout cost models** `cost/rollout/` | entries with coefficients | fit, load, `step_time`, `decode_coeffs` | `regress`, engine instance |
| **Sync / recompute cost** `component/sync`, `component/recompute` | none | constants of a training step | `_train` |
| **vLLM executor** `profiler/adapters/vllm/execute.py` | jobs, GPU and port pools, startup gate | startup, run, wait, fail, kill | vLLM processes |
| **vLLM preparation / collection** `prepare.py`, `collect.py`, `parse.py` | job files, waves, parsed sweeps | assign GPUs and ports, parse logs, validate manifest | files |
| **Megatron bridge** `megatron_bridge.py`, `search_space.py`, `cli/profile.py` | the candidate list; per candidate a manifest, a status, a log and what training leaves | generate, run, resume, dry run, collect | external trainer, Slurm |
| **Artifacts** `profiler/io.py`, `schema.py`, `cost/artifact.py` | files | validate, replacing write, load, `entry_for` | files |
| **CLI, config, workload, plots** | options, traces | parse, sample, draw | everything |

### How the loop works

`Simulator.run` repeats: admit requests up to the policy's quota; ask the policy
for a batch.  Without one it runs the engines until a completion makes a batch
available or they have nothing left to do.  With one it *trains*: the batch is stamped with the version that
consumes it, the version advances, the policy says which weights the engines
serve from now on and which requests expire, new requests are admitted, and the
engines run beside the training step until its deadline.  After an engine
event with completions the loop collects them (the policy keeps or drops each),
stops if it was waiting for a batch and has one, and otherwise admits again if
the policy has a quota.

The whole simulator is one thread.  What makes it hard is not parallel
execution but *order*: completions arrive in whatever order response lengths
and engine load dictate, they are interleaved with admissions, batches, weight
pushes and discards, and two owners (the loop's lists and the policy's own
counters, queues and groups) account for the same requests through different
code.  The policies assert their contracts in `check_invariants`, but only once
per training step and only on the traces a test happens to run.

### What correctness means, per component

* **Control loop** - a request is in exactly one list, no request is lost or
  trained on twice; versions are assigned in admission order and no request is
  newer than the batch that consumes it; the loop ends.
* **AReaL** - admitted and unconsumed requests fit `max_staleness + 1` batches;
  the two counters never drift from the lists, so capacity never leaks.
* **ROLL** - the same window, and no trained request older than `max_staleness`
  versions; groups and lists agree; collected groups hold nothing finished.
* **verl** - the hand-off queue and the ready list stay in step; every live
  sample is counted against the window across a sync; nothing overflows.
* **slime** - weights lag by at most the push interval; requests consumed are at
  most that stale; a round over-admits only as far as the barrier absorbs.
* **PSRL** (not modelled) - reservations and entries of its external inventory
  match the loop's lists, also across an abort.
* **Event coordinator** - events commit in time order; loop and instances agree
  on what is in flight; no committed token is lost; aligning an instance never
  completes a request (it does, see the findings).
* **Engine instance** - an undone event leaves no trace; both ways to advance
  agree; reserved KV blocks suffice; each request generates its target length
  exactly once and completes, whatever is preempted, aborted or undone.
* **vLLM preparation** - no point is lost or repeated; jobs of a wave fit the
  GPUs and ports; timing and trace shards match.
* **vLLM executor** - sweeps that run at once share no GPU or port; permits come
  back exactly once on every path; a failing job does not lose the others and
  is reported; finished measurements are not repeated by a rerun, and a rerun
  repairs what a failure left (it does not always, see the findings).
* **Telemetry** - no step of an event that may still be undone is written, no
  committed one is missing, and the request and batch rows tell what the loop did.
* **Decode closed form** - the time of a segment is the sum of its steps and a
  time budget is used up exactly, wherever a floating-point root lands.
* **Cost models** - a fit is validated on launches it did not see whenever some can
  be held out; what was profiled can be asked for; a run that exhausted its GPU is
  predicted not to fit; the one rank that is evaluated stands for all.
* **Megatron bridge** - a collected status was earned by an attempt, the profile
  is complete or untouched, one failing candidate stops no other, and what is
  enumerated can be collected unless its launcher says otherwise.

## 2. The modules

    AdmissionWindow          abstract: what every policy promises the trainer
         ^  ^  ^  ^          (implemented by, refinement mapping in each module)
    ArealLoop RollLoop VerlLoop SlimeLoop        EngineInstance
         |  |  |  |                              one instance, driven at will
         RLLoop                                        |
         the control loop for any policy         EngineSteps
         and any engine                          what an instance does
              \                                  /
               Simulator  (loop and instances with clocks)
                   ^
               SimTelemetry  (each step with what it writes)

    VllmPrepare              jobs of a vLLM profile, their GPUs and ports
         ^
    VllmExecutor             the pool, its threads, the sweeps, the files

    SearchSpace              candidates of a bridge profile, and its schemas
         ^
    BridgeProfile            generate, run, resume, collect and their files

    CostArtifact             profiles, holdouts, entries and their lookup
       ^      ^
    TrainingCost  RolloutCost    records to cells and predictions; decode segments
         ^        ^
         CostModels          collect, regress, load, estimate

    RLLoop_proofs, ArealLoop_proofs,     theorems
    RollLoop_proofs, VerlLoop_proofs,
    SlimeLoop_proofs,
    EngineInstance_proofs,
    SimTelemetry_proofs,
    Profiling_proofs
    MCEngine, MCSimulator                request lengths for the runs
    MCVllm, MCBridge, MCCost             requests, configurations and profiles

**`RLLoop`** is `class Simulator` without clocks.  `pc` is the place in the
program: `top` (the `while` of `run`), `take` (the `take_batch` call), `retry`
(second admission after nothing was in flight), `begin` (the admission inside
`_train`), `engine` (`_run_engine` waits for the next event), `event` (the
completions of one event are being collected), `failed` (an assertion or the
memory check raised), `livelocked` (`run` broke out).  `phase` tells the two
callers of `_run_engine` apart.  Its actions:

| action | code |
|---|---|
| `Admit(quota, n)` | `_admit` at all four call sites; `n <= quota` because an instance may refuse a request |
| `NoBatch` | `take_batch` returned `None` |
| `TakeBatch(batch, newEngine, expired, ok)` | `_train` up to its admission: consume, advance, push, expire, `_discard` |
| `Complete(r, keep)` | `_collect` |
| `EngineReturns(batchFound, contract)` | the three ways out of `_run_engine`, with `check_invariants` at the end of `_train` |
| `EngineFails` | the assertion of `_align_instances`; the policy modules leave it out, their engine works |

The parameters are exactly the policy's answers.  `RLLoop`'s own `LoopNext`
leaves them arbitrary; a policy module conjoins each action with the code of
its hooks and supplies the answers, so everything proved about `LoopSpec` holds
for each policy, whose steps are steps of the loop by construction.

The engine is an oracle: any in-flight request may complete next, in any
grouping into events, and the training deadline may fall between any two
events.  That covers every cost model, response length and routing choice.

**`ArealLoop`, `RollLoop`, `VerlLoop`, `SlimeLoop`** add the policy's
variables.  Names follow the code (`runningPrompts` is `running_prompts`,
`stalenessSamples` is `staleness_samples`).  ROLL's `groups` is its dict of
groups; verl's `queue` its deque; slime's `remaining`, `armedPush`,
`stepsSincePush` its `remaining`, `_armed_push` and
`_steps_since_push`.

**`AdmissionWindow`** is the abstract specification: outstanding rollouts never
exceed a window, and training steps consume them one by one.  Each policy
implements it with its own window: `(max_staleness + 1) * batch_size` for AReaL
and ROLL, `max_required` for verl, `SampleRoom + BatchSize - 1` for slime (a
round may be refilled while it is still short of a batch).

**`EngineSteps`** is `class NativeInstance` as operators on a record: the three
lists and, per request, the tokens in the KV cache (`prefilled`), the tokens
generated and the segments that say under which weights.  `Accepts` and
`AddRequest` are `add_request`; `BudgetStep` is `_prefill_budget_step` (one
engine step with prefill chunks and decodes under the token budget);
`DecodeEvent` is `_decode_one_event` (a whole decode segment up to a completion
or the end of the cache); `AdvanceOneEvent` and `AdvanceTo` are the two
functions of those names, `Capture` and `Restore` the snapshot, `AbortAll` and
`Cancel` what the loop does at a weight update.

**`EngineInstance`** puts one instance under every order of those operations: a
request is added, an event is produced, then committed or undone with the
instance aligned to an earlier moment; in between requests are aborted or
cancelled and the weights change.

**`Simulator`** composes the loop with several instances: each of `RLLoop`'s
actions together with what it does to the instances, and `_run_engine` step by
step.  `events` is the heap with the events dict, `clock` each instance's
`t_local` (without its pending event), `now` is `self.t`.

| action | code |
|---|---|
| `SimAdmit`, `SimNoBatch`, `SimTrain` | `_admit` outside the engine run, `run`, `_train` with `_discard` and `abort_all` |
| `SeedEvents`, `ProduceNext` | `_seed_events`; the next event of the instance just committed |
| `CommitEvent`, `SimCollect` | pop the earliest event; collect its completions one by one |
| `SimStopOnBatch` | the batch is there: undo, align to the event, align again at the end |
| `SimGoOn`, `SimAdmitMore` | no quota: the other events stay pending; quota: undo, align, admit, seed anew |
| `SimDeadline`, `SimExhausted` | the other two ends of an engine run |
| `AlignFails` | `_align_instances` meets an extra completion |

The policy is arbitrary there, except that it keeps what completes and trains as
soon as a batch is ready.

**`SimTelemetry`** repeats every action of `Simulator` with what it writes.
`cursor` is the position in an instance's `step_stats` (`stats` of
`EngineSteps`), `written` the tokens of the entries behind it, `sample` the last
occupancy sample, `requests` the events of each request, `rows` the train
stream.  An action `LogX` is `SimX` with the calls the code makes there; where
`_run_engine` synchronises only the committed instance, `SyncedBy` says so.

**`VllmPrepare`** is `prepare_vllm_jobs`: `PrepareSerial` when only one server
fits, else `PrepareParallel` cuts the request into shards and `PlaceSpec` puts
one shard after the other into the first wave with a worker and enough GPUs left.

**`VllmExecutor`** extends it with `_run_vllm_job_pool`, the only part of the
program with threads.  `main` is the main thread (`PlaceJobs` and `Collect`
alternate; `IndexTraces` and `CollectRecords` follow), `worker[j]` the thread of
job `j` (submitted, at the gate, launching, reading, ended), `sweep[j]` the
external process it started and `files[j]` what that leaves on disk.  `files`
survives `Rerun`, everything else starts anew.

| action | code |
|---|---|
| `PlaceJobs`, `Collect` | the pass over the pending jobs; `wait(FIRST_COMPLETED)` and the loop over the futures that are done |
| `StartJob` | `_vllm_job_is_complete`, and `--resume` where the directory exists |
| `AcquirePermit`, `GateTimesOut` | `_StartupGate.acquire`; it gives up only while no permit is free |
| `Launch`, `LaunchFails` | opening the log, `Popen` |
| `ReadReady`, `ReadEnd`, `LogFails` | `_tee_subprocess_output`: ready marker, end of output with the exit code, failing write |
| `IndexTraces`, `CollectRecords` | the conditions under which `index_vllm_traces` and `apply_iteration_timings` accept the files |
| `Rerun` | the user runs the command again, after failures or an interrupt |

**`SearchSpace`** is the enumeration (`enumerate_training_candidates`, with its
order and its filter of duplicates) and the three places that check a shape:
the candidate's constructor, the parallelism's and the payload's.

**`BridgeProfile`** is three commands that share files only.  `dirs[c]` is the
directory of candidate `c`: manifest, status, whether the log names an OOM, step
times in the event files, memory snapshot, sidecar.  A run command may be killed
at any point, a file torn by it; a collect may run beside it.  The sidecar is the
`dryrun_metrics.json` a launcher may write: step times, rank memories and
microbatch lengths, each of which may be missing and none of which was checked.
`Metric` is the rule by which `collect_bridge_record` takes a part from there or
falls back on the event files, the snapshots or the manifest's padded shape;
`ReadData` then applies the schema's checks, and what they refuse goes to
`rejected` together with the sidecar it was read with.

| action | code |
|---|---|
| `Generate`, `GenerateKilled` | `cmd_megatron_generate` |
| `RunStarts`, `DryRuns` | `cmd_megatron_run` with its selection |
| `Prepare` | `prepare_bridge_candidate` and the decision of `--resume` |
| `ProcessSucceeds`, `ProcessFails`, `SlurmSubmits`, `SlurmJobRuns` | the training process, local or on Slurm |
| `RecordOutcome`, `RunEnds`, `RunKilled` | `status.json`, the loop over the candidates |
| `CollectStarts`, `ReadManifest`, `ReadData` | `collect_bridge_record`, in two steps because an attempt may rewrite the files in between; the resolved configuration may contradict the candidate, step times or memory may be missing, the schema may refuse: each ends the command |
| `Replace`, `CollectEnds`, `CollectKilled` | `write_records` |

**`CostArtifact`** holds what all models share: reading a profile, holding out
whole launches (`split_by_run`), an entry with its selector, `entry_for`.
**`TrainingCost`** is the Hydraulis model: records to cells, latency and memory
entries with their domains, the raise of the memory intercept over every OOM
run, and `predict` from the critical rank of a batch; also the parameter
inventory.  **`RolloutCost`** is the roofline, PSRL and DistServe models with
their decode segments, and `advance.py`'s closed form.  **`CostModels`** is the
life of an artifact: a profile is collected, a regress command fits and saves,
and batches and segments are asked of what was saved.

### Abstractions, and why they are sound

* Each run of a point (`num_runs`) is the point itself; a trace counts once per
  run and not once per rank.  A log is the number of its `Iteration` lines per
  point, which is what `apply_iteration_timings` compares first.
* A sweep is any process that measures the points without a run file (all of
  them without `--resume`), one after the other, and may die at any moment.

* A request is its id and the version it was admitted under.  Ids follow
  dispatch order, so the code's sort by dispatch time is a sort by id.
* The loop's lists are sets.  Where their order decides something (ROLL's
  finished queues, verl's deque) the policy's own sequence keeps it; slime takes
  the first `batch_size` of a list that never holds more (`BarrierHolds`).
* An instance may refuse a request, but an empty engine refuses none: its
  admission gates count only the requests it already holds.
* The cost models only decide how long a step takes: `PrefillTime` for a step
  with prefills, `DecodeTime` for each step of a decode segment.  Durations are
  integers, so two events can fall on the same instant, as equal floats do.
* A least-squares regression is any coefficients of a small set, full rank or
  not; amounts are integers in units that make the divisions exact.  A rollout
  entry's selectors hold what no lookup asks for, so they are left empty.  The
  floating-point root of `steps_within` is any of `Seeds`: what matters is that
  the code's corrections reach the right answer from there.
* What a training process leaves is any member of `Leavings`, a sidecar only where
  training finished, as its launcher writes it then (`examples/profile/README.md:97`).
  Several ranks are a set of memories: ranks with equal peaks are one.  A sidecar that
  is torn, or is not the JSON object of the documented form, ends the command like a
  torn status and is left out, and so are its `timers_s` and `parameter_count`, which
  no other part of a record is checked against.  Reading a file while it is rewritten has the
  outcome of a collect that is killed: the command ends without a profile.
* Every request fits an empty instance; the code raises `ValueError` otherwise
  and `EngineAssumption` states it.
* `chunk_cap` and `cancel(keep_tokens=True)` are never used by the simulator;
  `_is_cross_instance` always returns False.  All three are left out.
* In the loop the training cost appears only through `MemoryMayExceed`, the `RuntimeError`
  of `_train`.
* Statistics that nothing reads back (`gc_dropped`, `stall_time`) are left out.
* `VerlLoop` models the full queue as the code has it, refusing the *newcomer*;
  the module docstring speaks of dropping the oldest.  Neither ever happens:
  `NothingDropped`, a part of `WindowAccounts`, shows the branch is unreachable.

## 3. The runs

| run | question | bounds |
|---|---|---|
| `areal` | Do fates, versions and batches stay right, does training finish, is the window (the token bucket) implemented? | 3 versions, batch 2, staleness 1, `max_inflight` 3 |
| `roll` | The same for ROLL with its groups and collection, at staleness 1 | 3 versions, batch 2 |
| `roll_gc` | Does the collection ever meet a finished prompt at staleness 2? (yes) | 3 versions, batch 1 |
| `verl` | Window, queue and sync | 3 versions, 2 samples per step, sync every 2 steps, `max_required` 5, `max_inflight` 3 |
| `slime` | Push delay, barrier and over-sampling | 4 versions, batch 2, interval 2, barrier on |
| `engine` | Preempted, blocked and over-committed: is undo exact, do the two ways to advance agree, does everything complete? | 4 requests, 3 blocks of 2 tokens without reservations, budget 3, a batch of 2, 2 interruptions |
| `simulator` | Do loop and instances agree, is time ordered, are tokens kept, does the telemetry hold committed steps only and every row, do reserved blocks make preemption unnecessary, is the measured staleness what the policies bound? | 2 instances, 5 requests, batch 2, 2 versions, training of 2 or 5 ticks, partial rollouts |
| `simulator_tie` | Does aligning ever complete a request? (yes) | 2 instances, requests of one length |
| `vllm` | Is every profile cut and packed right?  Do running sweeps share no GPU or port, come permits back once, are outcomes reported right, is finished work kept, does the pool drain? | 3 GPUs; dry runs of 2 serve points of 1 to 4 GPUs, 2 phases of 1 to 3 points, `max_parallel` auto to 3; 6 jobs of 1 and 2 GPUs run once and 2 jobs in turn up to 3 times, 1 permit, 1 failure |
| `vllm_rerun` | Are the files good once a rerun has no failure left? (no) | the 2 jobs in turn, 2 failures, 2 iterations per point |
| `bridge` | Is a collected profile whole, are its statuses earned, does one failure stop no other candidate, does the schema refuse nothing but what a sidecar got wrong? | 2 versions of a configuration with 1 and 2 candidates of 1 and 3 microbatches; attempts that leave timers and a snapshot, nothing, or a sidecar without step times whose lengths are those of 1 microbatch; 2 run or dry-run commands, 2 attempts, 1 collect, 1 torn file |
| `cost` | Are holdouts sound, is what was profiled answered, does one rank stand for all, is the closed form the sum of its steps and exact for a budget? | every profile of up to 6 training records in 3 parallelisms, one with microbatches that are not padded, or of up to 5 rollout groups; 3 validation fractions, 2 results per regression and cell, 3 batches, 4 segments, 7 budgets |

Where a component has several safety properties that one state explains, a run
checks their conjunction: `BatchesAccounted` is `VersionsOrdered` and
`BatchPerVersion`; `WindowAccounts` is `QueueIsReady`, `WindowCounts` and
`NothingDropped`; `BarrierHolds` is `VersionGap`, `StalenessBound` and
`ReadyFitsBatch`; `PlanSound` is `WavesFeasible`, `EveryPointOnce` and
`ShardsMatch`; `ResourcesSound` is `GpusExclusive` and `PermitsReturned`.
`areal` leaves the counters and the bucket itself to the theorems, which also
show `OneFate` and `BatchesAccounted` for every policy.

The bounds are small but reach every branch: two groups alive at once and one
collected (`roll`); a sync with samples in flight and in the queue, an
overage of one sample above two steps (`verl`); a push armed, delayed and
applied with one more interval after it, refills and dropped completions
(`slime`); the last batch of the bucket and an `inflight` cap below it
(`areal`); a token budget that splits a prompt over two steps, a decode at a
block end without a free block, a preemption of either kind and a decode
segment that ends with the cache (`engine`); a refused request, an event
beyond the deadline, an undone completion and an engine run that ends without a
batch (`simulator`).  `Interrupts` bounds the undos, aborts, cancels and weight
updates of `EngineInstance`: without a bound an adversary could undo every
event.  `MaxFailures` bounds launches, sweeps and logs that fail in all
invocations together, `request.invocations` the reruns: without them a user could
interrupt for ever.  In `bridge`, two attempts and one torn file are enough for a
failure after a success, a resume over either, and a collect between two
attempts; one more of any of them repeats these.  The duplicates in the search
(`<<3, 1, 1>>`) make the filter of duplicates and of invalid shapes matter, and the
sidecar is right for one candidate and refused for the other.  In
`vllm` two jobs of different waves share a port and
no GPU, so that both conditions of the placement matter.  `MaxRequests` bounds only `LoopNext` and
the simulator's admissions: a policy admits a bounded number in `NVersions`
versions.  Each action of a policy module is a conjunction with one of the loop's;
that the loop's invariants survive under each of the four policies is proved
(section 4).  The `TypeOK` of a module that no run lists documents
its types.  No constraint cuts a state space.

Deadlock is checked in every run but two: `Halt` stutters only where the program has
ended.  `cost` and `bridge` do stop: a profile nothing can be fitted to leaves
nothing to do, and the bounds on commands run out.

### Fairness

In the loop modules `FairSpec` adds weak fairness of the whole next-state
relation and nothing else.  The simulator is one thread that never blocks: it
always takes its next step, but which request completes, and whether the deadline falls first, stays
the engine's choice.  The assumption behind it is that an engine with requests
in flight produces an event that completes one at some time; `AllComplete` of
the engine runs is what discharges it.  There `FairSpec` says that the simulator
goes on admitting, asking for events and committing them; the interruptions are
not fair.  The executor's `ExecFairSpec` says that
threads and sweeps go on while one of them can: no thread waits for ever (the
gate times out) and a sweep ends by its own `server_ready_timeout` and by having
finitely many points.
In `EngineInstance` and `Simulator` weak fairness is written with its
enabling condition spelled out, because TLC takes very long over `ENABLED` of
actions built from folds.

### Findings

* **`roll_gc`** - `RollPolicy.expire` asserts that a group aged past the floor
  holds no finished prompt, and raises otherwise.  With `max_staleness = 2` a
  batch filled from the oldest groups first leaves finished prompts behind when
  late completions of an old group arrive after the batch of its last eligible
  version could have taken them; the next training step raises.  The trace of
  the run was replayed on the program itself (random response lengths reach
  it in about a quarter of the seeds).
* **`simulator_tie`** - the first of two completions at the same instant makes
  the loop undo and align the other instance, which completes its request while
  aligning; `_align_instances` asserts "No extra completions expected." and the
  simulation stops.  The program itself does so with two instances and equal
  response lengths.

* **`vllm_rerun`** - a shard that dies in the middle of a point leaves its
  iterations in the log (or a trace without a run file).  The rerun appends, the
  parser adds both attempts to the same result, and the phase is refused although
  every shard has succeeded by then.  `parse_sweep_log` returns the doubled list
  for such a log.

What no property reaches, or reaches in part:

* A request that completes on the step that exhausts the cache (no reservations):
  `AllComplete` shows it ends, nothing speaks of the token too many.
* `ReservationHolds` is a safety property: a reservation kept too long, which would
  refuse work for ever, would not violate it.
* A request in two lists of an instance would violate `TokensKept` or
  `TrainedAsMeasured` only once it loses a token or gains one; that the lists are
  disjoint is proved (`Well`) and not checked by a run.
* The sweeps abandoned after a failing log, see the next list.

What the models show that no run checks:

* When writing a sweep's log or the console fails (`LogFails`), the worker raises
  and leaves the sweep running; the pool counts the job as done and starts the
  next shard on the same GPUs.  The program does so with a log on a full device;
  `GpusExclusive` therefore speaks only of sweeps whose worker is still with them.
* Without `reject_if_kv_full` a decode segment that exhausts the cache on the very
  step that completes a request preempts without retiring it, so a request can
  generate one token more than its target (`simulator`, which checks exact
  lengths, reserves blocks), and the oldest running request may over-commit the
  cache by one block.
* slime's docstring says "Max staleness equals update_weights_interval exactly."
  (`src/dryrun/policy/slime.py:13`).  Under `partial_rollout` `expire` returns
  nothing and `check_invariants` skips its assertion, so a request kept across
  the barrier may be consumed any number of versions later; `slime` is run with
  the barrier.
* The telemetry's `n_decode` of a prefill step counts the running requests under
  the budget, those included that were skipped for want of a free block.  With
  reserved blocks, as in `simulator`, none is skipped.
* The streams are opened for appending (`telemetry/store.py:64`): a second
  simulation in the same directory continues those of the first.
* Training records are grouped by `parameter_count` among others, but the
  selector of an entry does not name it: two groups that differ in nothing else
  leave two entries with one selector, and `entry_for` raises for both.
  `ProfiledPointsAnswered` speaks of the other groups.
* The split is for a "leakage-free holdout" (`src/dryrun/cost/rollout/_fit.py:20`), "so
  adjacent token steps cannot leak" (`_fit.py:70`).  With a fraction
  of 0, with a single launch, or where the share rounds to all launches (4/5 of two)
  it returns all of them on both sides, and the artifact's validation errors are
  then those of the fit itself.  `HoldoutSound` says that these are the only cases.
* The PSRL rollout model splits prefill, decode and mixed records separately, so
  a launch can be held out in one phase and fitted in another.  `HoldoutSound`
  speaks of each split by itself.
* A sidecar may name microbatches of unequal lengths, and the collection keeps them.
  Asked for the batch of such a run, the cost model deals its sequences anew,
  longest first, and the loads of that arrangement can lie outside the range the
  entry was fitted on: asking for it raises
  `TrainingOutOfDomainError`.
  `ProfiledPointsAnswered` speaks of the padded runs, in profiles that may hold others.
* A sidecar whose microbatches are not those of its candidate, or whose numbers
  contradict each other, ends a `collect` over all candidates without a profile.
* `run` rewrites the manifest of a candidate, which the code calls immutable, with
  whatever configuration the command was given.
* A Slurm attempt leaves the status `submitted`; `collect` reads it as failed (or as
  an OOM, if the log of an earlier local attempt names one), and `--resume`
  submits it again.
* A `status.json` torn by a kill makes `run --resume` and `collect` stop with a
  `JSONDecodeError` until it is removed by hand.
* A second attempt adds its event files to those of the first, so the step times
  of both are collected together; a sidecar of an earlier attempt is read as that of the last.

## 4. The proofs

`RLLoop_proofs` (for every number of versions, every policy, every engine):

* `LoopTypeCorrect` - `LoopSpec => []LoopTypeOK`.
* `LoopFates` - `LoopSpec => [](OneFate /\ AllAccounted)`.  The invariant is the
  conjunction of the type invariant with the two properties; it is inductive
  once "ids are an initial segment and name one request each" is part of it,
  because that is what makes the freshly admitted requests disjoint from every
  list.  The lemmas go one action each and take the action's parameters as
  given, so a policy proof can cite them.

* `LoopBatches` - `LoopSpec => []BatchesAccounted`: whatever the policy answers,
  version `v` is consumed by batch `v` and no request is newer than its consumer.
  The invariant adds that finitely many requests were consumed, which makes the
  counter the cardinality of the record.

`ArealLoop_proofs` (for every batch size, staleness, cap and number of versions):

* `ArealTypeCorrect`, `ArealCountersAgree`, `ArealTokenBucket`,
  `ArealImplementsWindow`.  None of these is inductive alone.  The invariant
  adds that the counters are the cardinalities of finite lists, that the number
  consumed is `version * BatchSize`, and that admitted requests are the three
  lists' sum; from it the quota computed from `accepted + running` *is* the room
  left in the bucket, and a training step frees exactly one batch.

`VerlLoop_proofs` (for every `required`, sync step, window and cap):

* `VerlWindowAccounts`, `VerlImplementsWindow`.  The policy counts samples and
  never looks at the loop's lists, so the invariant relates three things: the queue
  is without repetitions and its range is the ready list, what is in flight and
  queued is at most `stalenessSamples`, and that is at most `max_required`.  A
  completion was in flight, hence the queue it goes to is not full and nothing is
  dropped; a sync recounts exactly in flight and queue, so it can only lower the
  counter.  `QueueParts` and `QueueAppend` are the lemmas on the queue.

`SlimeLoop_proofs` (for every batch size, over-sampling ratio, push interval):

* `SlimeVersionGap` - with and without partial rollout.  Inductive with `PushInv`:
  the lag is the number of steps since the push, and an armed push is the version
  of the trainer with a lag of one interval.
* `SlimeBarrier`, `SlimeImplementsWindow` - without partial rollout.  `Fresh`:
  whatever is in flight or ready was admitted under the weights the engines serve
  now, because a training step drops all the rest; so a consumed request is as old
  as the engines lag.  `RoundInv`: what is outstanding is at most `remaining`, the
  requests admitted since the last batch; a round is admitted only while these are
  fewer than a batch, so they stay below a batch and an over-sampled round together.

`RollLoop_proofs` (for every batch size, staleness and number of versions):

* `RollStalenessBound`, `RollGroupsMatchLists`, `RollImplementsWindow`.  The
  invariant says that the groups, by admission version, *are* the loop's two
  lists: a group's `expected` members are in flight, its `finished` ones ready,
  its counters are the sizes of these sets, and no group lies below the floor, so
  no request is older than the floor when a batch takes it.  That the sorted
  concatenation of the groups gives exactly `BatchSize` requests is shown by
  numbering the places of the groups' lists.
* `RollGcIsSafe` - with `MaxStaleness <= 1` the assertion of `expire` never fails:
  a batch takes every finished prompt of the oldest eligible group.  At 2 it does
  (finding `roll_gc`), so the hypothesis is the exact border.

Each of the four policy modules also proves `ArealAccounts`, `RollAccounts`,
`VerlAccounts` or `SlimeAccounts` - `Spec => [](OneFate /\ AllAccounted /\ BatchesAccounted)`: the
policy's steps keep the loop's invariants, without the bound on admitted requests
that `LoopNext` has.  What they add to the loop's lemmas is that the batch found is
a nonempty part of the ready list and that the engines are given no weights older
than theirs or newer than the trainer's.

`Profiling_proofs`, of the bridge commands (for every search space, number of commands
and attempts):

* `BridgeOutputWhole`, `BridgeStatusesEarned`, `BridgeAllAttempted`,
  `BridgeRefusalsEarned`, from an invariant in three parts.  `DirInv` relates the
  files of a candidate to the attempts that wrote them, `RunInv` the run command to
  the candidates before its position, `CollectInv` the records gathered so far to
  the candidates in front of what is left to read; a record keeps what was true
  when its files were read, whatever a run does to them since.  The lemmas on
  `SearchSpace` show that the numbering of the candidates is a bijection, so each
  enumerated candidate has a directory of its own.  `BridgeRefusalsEarned` takes each
  part of a record by itself: from a sidecar that `Agrees`, or from what stands in
  for it - positive timers, the peaks of a history (the fold over it keeps its
  counters natural and the reserved peak above the allocated one), the padded lengths
  of an enumerated candidate - it passes the schema, so whatever is refused came with
  a sidecar that does not.

and of the vLLM executor (for every request, number of GPUs, `max_parallel`, number of
permits and failures):

* `VllmInvariant` - the invariant has four parts: the plan's types; what files,
  thread and sweep of each job say about each other; permits free and held add up
  to the gate's size; the pool's free GPUs and ports are those no running job has.
* `VllmResourcesSound`, `VllmOutcomesReported`, `VllmNothingRedone` follow from it,
  the last one as an action property across reruns.
* `VllmPlanSound` - placing the specs one by one keeps the GPUs left in every wave
  disjoint from those of its jobs; the points of a phase are dealt to its shards by
  remainders, hence each point to one shard; the concatenation of the phases' shards
  is a bijection of places.

and of the cost models (for every profile, result of the solver, workload and budget):

* `CostInvariant` - `CostInv`: the artifact is the fit of *some* collected profile
  (a training artifact of its cells, a rollout one of its topologies), and the answer
  is one that such an artifact gives.  That is all the life of an artifact adds; the
  five properties then are facts about the functions that fit, look up and predict.
  They need the invariant because they speak of fitted entries: an answer is right
  not for any coefficients but for those the regression may return.
* `CostHoldoutSound` - `SplitByRun` cuts the launches in two, at least one on
  each side, unless none can be held out (`SplitIsSound`): the rounded share is
  within half a launch of the exact one (`RoundedIsNear`), so it is all launches only
  where `NoneToHoldOut` says.  An entry's holdout is such a cut of its own records
  (`MadeIsTyped`, `RolloutHoldoutsOK`).  The artifact carries the fraction it was
  fitted with for this property alone.
* `CostDecodeTimesAgree` - `ElapsedStep`: one more step adds what that step costs, on
  the floor, at the crossing and behind it; a sum over `0..k` follows by induction
  on `k`.  That a roofline's and PSRL's coefficients price a step as `predict` does is
  `RooflineStep` and `PsrlStep`; the DistServe constants multiply out because the
  units make their divisions exact (`Exact`).
* `CostStepsWithinExact` - `ElapsedGrows` makes the number of steps that fit unique,
  and `FitsWalk` follows the two correcting loops from any seed to it: what the
  floating-point root contributes is only where they start.
* `CostEstimateCoversRanks` - sequences are sorted longest first and dealt in turn,
  so the first rank's k-th sequence is at least as long as any other rank's, microbatch
  by microbatch (`FirstRankDominates`).  Loads, latency and memory features
  all grow with the lengths, so that rank has the largest load and the largest answer;
  this is why the code may look for the largest *quadratic* load and still be right
  about memory, which follows the longest microbatch.
* `CostProfiledPointsAnswered` - the entries of an artifact are one for each cell and
  component that has records (`TrainingEntries`, through the same numbering of a
  concatenation as the shards of the executor); where a selector names one parameter
  count the lookup finds the entry of the record's own cell (`OwnEntry`), a range holds what
  it was taken from (`RangeOfRecords`), the dealing of a padded run's own batch gives
  back its microbatches (`WorkloadFacts`), and the raise of the intercept lifts each
  exhausted run above its GPU (`IncreaseFacts`).

`EngineInstance_proofs` (for all lengths, KV sizes, limits and durations), from the
operators of `EngineSteps` upwards:

* `Well` - the three lists of an instance have no repetitions and nothing in common,
  and whatever they name has a request state.  `Follows(i, j, done, v)` - what any
  work under version `v` may do to an instance: what was active is active or in
  `done`, `done` is appended to the completed list, the statistics only grow, and a
  request's segments are extended by tokens of version `v`.  Every operation of
  the engine keeps the first and obeys the second: one lemma per operator, from
  `Kept` and `Promote` to the two kinds of event (`EventFollows`) and to the rounds of
  `advance_to` (`AdvanceToFollows`); `add_request`, `cancel` and `abort_all` have
  lemmas of their own.
* `UndoExact` - of anything that `Follows`: restoring the captured fields gives
  exactly the instance of before.  The capture keeps only lengths and the last token
  count, and the lemma says when that is enough: lists that only grow, and segments
  that are extended or appended and never rewritten.
* `InstanceUndoLeavesNoTrace`, `InstanceBatchFits`, `InstanceTypeCorrect` - of one
  instance under every order of its operations (`EngineInstance`).  `InstanceInv` is
  `Well` with `Fits`: the batch, with the requests in the middle of their prefill, is
  within `max_concurrency`, and no waiting request is completely prefilled.  Of a
  pending event it says that the instance `Follows` the one before the event and that
  the undo point was captured there.  `BatchFits` alone is not inductive: a prefill
  step may promote what it finished only because those requests were counted when
  their prefill began (`PrefilledFits` keeps the count of the loop equal to the batch).
  Again one lemma per operator; `FitsKept` is the one for all that put nothing new
  into the batch.
* `InstanceAdvanceAgrees` - the two ways to advance an instance: short of its next event
  `advance_to` completes nothing, and given exactly its time it does what
  `advance_one_event` does.  In an instance of `InstanceInv` nothing is ready
  (`NothingReady`), so the first round of the loop starts where the event starts, and
  it ends the loop (`OneRound`): its time is used up, or it closes it.  For a step with
  prefills the cases of both are compared (`PrefillAgrees`).  A decode segment is one
  jump in both, but the loop only looks whether the cache is exceeded after it, while
  the event also stops at the step `_kv_exhaustion_steps` computes; `SegmentBlocks` says
  that the blocks used after a jump of k steps are the ones that computation counts for k.

`SimTelemetry_proofs` (for every number of instances, requests and versions, any quota
and deadline besides), on the lemmas about one instance:

* `SimTypeCorrect`, `SimInflightIsHeld`, `SimTokensKept`.  The invariant `SimInv` says
  that the *committed* instances (as they are when every pending event is undone),
  together with the event being collected, partition what is in flight, that an
  instance with a pending event stands on its committed state (`Stands`), and that
  event and undo point are of the same step.  Tokens are kept because each action
  leaves the committed segments as they are, extends them or cancels the request.
* `SimImplementsLoop` - `Spec => LoopSpec`, without hiding anything: the simulator
  with clocks, events, undo and alignment is one of the engines of `RLLoop`, whose
  theorems therefore hold of it.
* `SimStreamsAgree` - the telemetry streams count the same requests.  The invariant adds
  the loop's fates and, for each written row, how it relates to the rows of the
  other streams at the step where it was written.

The other four theorems about the simulator are about `RejectIfKvFull`, the default:
a request is admitted only if the blocks of its whole response are free.  (The
`simulator` run has it too; that without it the instances preempt is what the
`engine` run explores.)

* `SimReservationHolds` - `SteadyInv`: every instance, as it stands and as it is
  committed, is `Steady`.  What is reserved for the requests it holds fits the cache,
  a running request has its whole prefix there and no request more than its tokens
  (`Holding`); a held request has a token left to generate (`Unfinished`), a
  completed one none, and none too many (`Exact`); and the entries of the step stream
  add up to the tokens generated (`Counted`).  The blocks in use are then at most the
  blocks reserved, request by request (`PartSums`, `PartAtMost`: a sum over a finite
  set is the sum over a part and the rest, and grows with its terms), so a decode step never
  lacks a block, nothing is preempted, and a pending event only goes `Onward`: it
  sends nobody back to the waiting list.
* `SimTimeOrder` - `ClockInv`: no clock is ahead of the common time, no pending event
  lies in the past, the instance that committed last is at the common time, and while
  the engine is at rest all are.  It needs `SteadyInv` because aligning an instance to
  the common time reaches it only if no step on the way fails or preempts.
* `SimTrainedAsMeasured` - `SpanInv`: the segments of a request on an instance are of
  versions between the one it was admitted under and the one the engines serve, those
  of a consumed one not newer than its consumer; what is collected, ready or consumed
  was completed by an instance.  `Exact` of that instance gives the length.
* `SimStreamCommitted` - `StreamInv`: the cursor stays within the committed entries
  and what lies behind it was written; between two engine runs it is at their end and
  the sample is current.  The committed entries of an instance only grow (`Logs`), which
  `Later`, the relation of an instance to what becomes of it, keeps track of.

The assumptions are the named ones of the modules (`LoopAssumption`,
`ArealAssumption`, `RollAssumption`, `VerlAssumption`, `SlimeAssumption`,
`EngineAssumption`, `SimulatorAssumption`, `BridgeAssumption`,
`ConstraintsAssumption`, `PrepareAssumption`, `ExecutorAssumption`, `CostAssumption`):
positive batch sizes, intervals, iterations, lengths, durations and version count, a
window of at least one sync's samples, requests that fit into an empty instance, profile
requests with at least one point and one phase, and a `None` or `Missing` that is not a
number.  Those of the cost models say what a record, a regression and a caller guarantee:
the microbatches of a run are nonempty, equally many sequences each, of positive but
otherwise any lengths; coefficients are not negative, and where
`predict` raises `ValueError` on a time that is not positive they are not all zero -
`least_squares` is called with a bound of zero, and its trust-region method stays
strictly inside its bounds; batches are not empty.

Folds (`FoldLeft`, `FoldSet`) are defined by `CHOOSE`, and the library's induction
theorems take an operator.  Where a proof needs what a fold computes, it uses
induction in the form of sets: `NatSetInduction` (a set of numbers that has 0 and
every successor has all) and the existence of a minimal finite set.  For the loops of
the engine this is done once: a fold over the waiting requests, over a list and over
ticks takes the start and each step into a family of sets (`PrefilledBy`, `DecodedBy`,
`AdvancedBy`).

Only model-checked: liveness (`LoopEnds`, `TrainingCompletes`, `AllComplete`,
`PoolDrains`), which is out of reach of the prover.  Every invariant, action property
and refinement the passing runs check is proved, slime's without partial rollout and
the four named above with reservations.

## 5. What is not modelled, and the plan

* **PSRL policy** (`policy/psrl.py`) - it hands every decision to an inventory that
  is not in the repository; a model would check guesses about that inventory.
* **Fixed, linear and analytical training models, sync and recompute cost** -
  single formulas without state or lookup.
* **Completion buffers** (`buffer/queue.py`) - two queue classes no other module uses.
* **Workload, plots, the other commands and the configuration** - sampling,
  drawing, option handling.  They keep no state.
* **Serialisation of the records in `profiler/schema.py`** - field by field
  conversion; of the checks those that can refuse a candidate are modelled.
* **Parsing of single log lines and pairing of traces by time** in the vLLM
  collection: the model counts iterations and traces per point, which is what
  decides whether the files are accepted.

Worth modelling next: a rerun of the vLLM profile under a changed request (other GPUs,
other `max_parallel`), where shard ids and an old manifest stand for other points; the
PSRL policy with an assumed inventory.
