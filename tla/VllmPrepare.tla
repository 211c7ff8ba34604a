---------------------------- MODULE VllmPrepare ----------------------------
(***************************************************************************)
(* How prepare.py cuts a vLLM profile into jobs and packs them onto GPUs    *)
(* and ports: prepare_vllm_jobs, _parallel_job_specs, _partition_parameters *)
(* of profiler/adapters/vllm.                                              *)
(*                                                                         *)
(* A profile request gives the world size of every serve point, the number *)
(* of benchmark points of every phase and max_parallel (0 is "auto").  Its *)
(* points are the pairs (serve point, benchmark point); num_runs repeats a *)
(* point and is left out.  A dry run ends with the jobs prepared.          *)
(***************************************************************************)
EXTENDS Integers, Sequences, FiniteSets, FiniteSetsExt, SequencesExt

CONSTANTS
  NGpus,      \* visible GPUs, in the order of gpu_ids
  Requests,   \* the profile requests a user may make
  NoPort      \* the port None of an unsharded job

ASSUME PrepareAssumption ==
  /\ NGpus \in Nat \ {0}
  /\ NoPort \notin Nat
  /\ \A r \in Requests :
       /\ r.serve \in Seq(Nat \ {0}) /\ Len(r.serve) > 0
       /\ r.bench \in Seq(Nat \ {0}) /\ Len(r.bench) > 0
       /\ r.maxParallel \in Nat
       /\ r.dryRun \in BOOLEAN

VARIABLES
  request,    \* what the user asked for
  stage,      \* "start", "placing", "prepared" or "rejected"
  specs,      \* the shards still to be placed
  limit,      \* concurrency_limit: so many ports were found free
  waves,      \* per wave: the GPUs still available, the shards assigned
  jobs        \* the jobs prepared so far

prepareVars == <<request, stage, specs, limit, waves, jobs>>

Gpus == 1..NGpus
Phases == DOMAIN request.bench
WorldSizes == {request.serve[s] : s \in DOMAIN request.serve}

\* hardware_limit and effective_max_parallel.
HardwareLimit == Max({NGpus \div w : w \in WorldSizes})
MaxParallel ==
  IF request.maxParallel = 0 THEN HardwareLimit
  ELSE Min({request.maxParallel, HardwareLimit})

\* Broken variant: contiguous chunks lose the remainder.
PartitionInChunks(n, count) ==
  LET size == n \div count
  IN  [i \in 1..count |-> ((i - 1) * size + 1)..(i * size)]

\* The points of one serve point: parameters[index::count] for each index.
Partition(n, count) == [i \in 1..count |-> {b \in 1..n : b % count = i % count}]

Shard(s, part) ==
  [world |-> request.serve[s], points |-> {<<s, b>> : b \in part}]

\* The shards of a phase, numbered across its serve points.
PhaseShards(p) ==
  LET count(s) == Min({request.bench[p], MaxParallel, NGpus \div request.serve[s]})
      ofServe(s) == [i \in 1..count(s) |->
                       Shard(s, Partition(request.bench[p], count(s))[i])]
  IN  FlattenSeq([s \in DOMAIN request.serve |-> ofServe(s)])

Measured(p, m) ==
  LET shards == PhaseShards(p)
  IN  [k \in DOMAIN shards |->
         [phase |-> p, measurement |-> m, shard |-> k,
          world |-> shards[k].world, points |-> shards[k].points]]

\* All shards of a phase are timed before its first one is traced.
ParallelSpecs ==
  FlattenSeq([p \in Phases |-> Measured(p, "timing") \o Measured(p, "trace")])

\* At most one server fits: a job per measurement with all points, in turn.
SerialJobs ==
  LET all(p) == {<<s, b>> : s \in DOMAIN request.serve, b \in 1..request.bench[p]}
      world == Max(WorldSizes)
      job(p, m, w) == [phase |-> p, measurement |-> m, shard |-> 0,
                       world |-> world, points |-> all(p), wave |-> w,
                       gpus |-> 1..world, port |-> NoPort]
  IN  [w \in 1..(2 * Len(request.bench)) |->
         job((w + 1) \div 2, IF w % 2 = 1 THEN "timing" ELSE "trace", w)]

-----------------------------------------------------------------------------
PrepareInit ==
  /\ request \in Requests
  /\ stage = "start" /\ specs = <<>> /\ limit = 0 /\ waves = <<>> /\ jobs = <<>>

\* A serve point needs more GPUs than are visible: ProfileValidationError.
Reject ==
  /\ stage = "start" /\ Max(WorldSizes) > NGpus
  /\ stage' = "rejected"
  /\ UNCHANGED <<request, specs, limit, waves, jobs>>

PrepareSerial ==
  /\ stage = "start" /\ Max(WorldSizes) <= NGpus /\ MaxParallel <= 1
  /\ stage' = "prepared" /\ jobs' = SerialJobs
  /\ UNCHANGED <<request, specs, limit, waves>>

PrepareParallel ==
  /\ stage = "start" /\ Max(WorldSizes) <= NGpus /\ MaxParallel > 1
  /\ stage' = "placing" /\ specs' = ParallelSpecs
  /\ limit' = Min({MaxParallel, Len(specs')})
  /\ UNCHANGED <<request, waves, jobs>>

\* The first wave with a worker and enough GPUs left, else a new one.
Fits(w, spec) ==
  /\ waves[w].workers < limit
  /\ Len(waves[w].available) >= spec.world

SelectedWave(spec) ==
  Min({w \in DOMAIN waves : Fits(w, spec)} \cup {Len(waves) + 1})

WithWave(w) ==
  IF w \in DOMAIN waves THEN waves
  ELSE Append(waves, [available |-> [g \in Gpus |-> g], workers |-> 0])

PlaceSpec ==
  /\ stage = "placing"
  /\ LET spec == Head(specs)
         w == SelectedWave(spec)
         wave == WithWave(w)[w]
         worker == wave.workers + 1
     IN  /\ jobs' = Append(jobs,
              [phase |-> spec.phase, measurement |-> spec.measurement,
               shard |-> spec.shard, world |-> spec.world,
               points |-> spec.points, wave |-> w, port |-> worker,
               gpus |-> ToSet(SubSeq(wave.available, 1, spec.world))])
         /\ waves' = [WithWave(w) EXCEPT ![w] =
              [available |-> SubSeq(wave.available, spec.world + 1,
                                    Len(wave.available)),
               workers |-> worker]]
  /\ specs' = Tail(specs)
  /\ stage' = IF Len(specs) = 1 THEN "prepared" ELSE "placing"
  /\ UNCHANGED <<request, limit>>

PrepareStep == Reject \/ PrepareSerial \/ PrepareParallel \/ PlaceSpec

-----------------------------------------------------------------------------
(* Properties *)

\* Jobs of one wave can run together: every job has as many GPUs as its world
\* size, no GPU or port is given twice, and the worker index always finds a
\* port in the list probed beforehand (`ports[worker_index]`).
WavesFeasible ==
  /\ \A i \in DOMAIN jobs :
       /\ Cardinality(jobs[i].gpus) = jobs[i].world
       /\ jobs[i].port = NoPort \/ jobs[i].port \in 1..limit
  /\ \A i, j \in DOMAIN jobs :
       i # j /\ jobs[i].wave = jobs[j].wave =>
         /\ jobs[i].gpus \cap jobs[j].gpus = {}
         /\ jobs[i].port # jobs[j].port

\* The cut loses and repeats nothing: once prepared, every point of every phase
\* is timed by exactly one job and traced by exactly one, on GPUs enough for
\* its serve point, and no job is empty (its sweep would find nothing to do).
EveryPointOnce ==
  stage = "prepared" =>
    /\ \A i \in DOMAIN jobs : jobs[i].points # {}
    /\ \A p \in Phases, m \in {"timing", "trace"},
          s \in DOMAIN request.serve :
         \A b \in 1..request.bench[p] :
           LET having == {i \in DOMAIN jobs :
                            /\ jobs[i].phase = p /\ jobs[i].measurement = m
                            /\ <<s, b>> \in jobs[i].points}
           IN  /\ Cardinality(having) = 1
               /\ \A i \in having : Cardinality(jobs[i].gpus) >= request.serve[s]

\* What index_vllm_traces relies on: the timing and the trace sweep of a phase
\* have the same shard ids with the same points, and no two jobs share an
\* experiment directory (it is named by phase, measurement and shard).
ShardsMatch ==
  stage = "prepared" =>
    /\ \A i, j \in DOMAIN jobs :
         /\ jobs[i].phase = jobs[j].phase /\ jobs[i].shard = jobs[j].shard
         /\ jobs[i].measurement = jobs[j].measurement
         => i = j
    /\ \A i \in DOMAIN jobs : \E j \in DOMAIN jobs :
         /\ jobs[j].measurement # jobs[i].measurement
         /\ jobs[j].phase = jobs[i].phase /\ jobs[j].shard = jobs[i].shard
         /\ jobs[j].points = jobs[i].points

\* What the preparation hands to the pool can be run, and measures the request.
PlanSound == WavesFeasible /\ EveryPointOnce /\ ShardsMatch
=============================================================================
