---------------------------- MODULE VllmExecutor ----------------------------
(***************************************************************************)
(* Running the jobs of VllmPrepare: _run_vllm_job_pool (the main thread),   *)
(* _run_vllm_job with its startup gate and tee (one worker thread per job)  *)
(* of profiler/adapters/vllm/execute.py, the official `vllm bench sweep     *)
(* serve` process each worker starts, the files the sweep leaves behind,    *)
(* and what index_vllm_traces and collect_vllm_records ask of them.         *)
(*                                                                         *)
(* The sweep is external: it boots one server, prints a ready marker,       *)
(* measures the points without a run file (all points without --resume),   *)
(* saves a trace file where asked to and then the run file of a point, and  *)
(* ends with 0, or with an error at any moment.  An interrupt (Ctrl-C       *)
(* reaches the whole process group) ends program and sweeps together; the   *)
(* same command may be run again, as often as request.invocations says.    *)
(***************************************************************************)
EXTENDS VllmPrepare

CONSTANTS
  MaxStartups,      \* config.max_concurrent_startups
  Iterations,       \* scheduler iterations of one point
  MaxFailures       \* bound: failing launches, sweeps and logs, in all

ASSUME ExecutorAssumption ==
  /\ MaxStartups \in Nat \ {0} /\ Iterations \in Nat \ {0}
  /\ MaxFailures \in Nat
  /\ \A r \in Requests : r.invocations \in Nat \ {0}

VARIABLES
  main,         \* where run_vllm_profiles is
  pending, running, usedGpus, usedPorts, failures,  \* locals of the pool
  worker,       \* where the thread of each job is
  permits,      \* value of the startup semaphore
  holds,        \* the jobs whose worker holds a permit
  sweep,        \* the sweep process of each job
  files,        \* on disk: experiment directory, run and trace files, log
  failed,       \* launches, sweeps and logs that failed so far
  invocation

poolVars == <<main, pending, running, usedGpus, usedPorts, failures>>
workerVars == <<worker, permits, holds>>
execVars == <<prepareVars, poolVars, workerVars, sweep, files, failed, invocation>>

Jobs == DOMAIN jobs

NoSweep == [state |-> "none", resume |-> FALSE, ready |-> "no",
            todo |-> {}, at |-> {}, done |-> 0]
NoFiles(j) == [dir |-> FALSE, runs |-> {}, traces |-> 0,
               logged |-> [p \in jobs[j].points |-> 0]]

\* worker_count: the size of the largest wave.
WorkerCount ==
  Max({Cardinality({i \in Jobs : jobs[i].wave = jobs[j].wave}) : j \in Jobs})
Permits == Min({MaxStartups, WorkerCount})

\* _vllm_job_is_complete.
JobIsComplete(j) ==
  /\ files[j].dir
  /\ Cardinality(files[j].runs) >= Cardinality(jobs[j].points)
  /\ jobs[j].measurement = "trace" =>
       files[j].traces >= Cardinality(jobs[j].points)

Alive(j) == sweep[j].state \in {"booting", "serving"}

ExecInit ==
  /\ PrepareInit
  /\ main = "idle" /\ pending = {} /\ running = {} /\ failures = {}
  /\ usedGpus = {} /\ usedPorts = {}
  /\ worker = <<>> /\ permits = 0 /\ holds = {} /\ sweep = <<>>
  /\ files = <<>> /\ failed = 0 /\ invocation = 0

Prepares ==
  /\ PrepareStep
  /\ UNCHANGED <<poolVars, workerVars, sweep, files, failed, invocation>>

-----------------------------------------------------------------------------
(* The main thread *)

\* Jobs are the same in every invocation of the command: prepare_vllm_jobs
\* depends on the request alone.
StartPool ==
  /\ main = "idle" /\ stage = "prepared" /\ ~request.dryRun
  /\ main' = "placing" /\ invocation' = invocation + 1
  /\ pending' = Jobs /\ running' = {} /\ failures' = {}
  /\ usedGpus' = {} /\ usedPorts' = {}
  /\ worker' = [j \in Jobs |-> "none"] /\ holds' = {} /\ permits' = Permits
  /\ sweep' = [j \in Jobs |-> NoSweep]
  /\ files' = IF files = <<>> THEN [j \in Jobs |-> NoFiles(j)] ELSE files
  /\ UNCHANGED <<prepareVars, failed>>

Ports(j) == {jobs[j].port} \ {NoPort}

GpusOf(S) == UNION {jobs[j].gpus : j \in S}
PortsOf(S) == UNION {Ports(j) : j \in S}

\* Broken variant: only the port has to be free.
FitsByPort(j, placed) ==
  /\ Cardinality(running \cup placed) < WorkerCount
  /\ (usedPorts \cup PortsOf(placed)) \cap Ports(j) = {}

\* Beside what runs and the jobs placed before it in the same pass, there is a
\* worker for job j, and its GPUs and port are free.
FitsBeside(j, placed) ==
  /\ Cardinality(running \cup placed) < WorkerCount
  /\ (usedGpus \cup GpusOf(placed)) \cap jobs[j].gpus = {}
  /\ (usedPorts \cup PortsOf(placed)) \cap Ports(j) = {}

\* The pass over list(pending), in the order of the jobs: each one that fits is
\* placed.  The break at worker_count skips jobs that would not fit either.
PlaceJobs ==
  /\ main = "placing"
  /\ \E placed \in SUBSET pending :
       /\ \A j \in pending :
            j \in placed <=> FitsBeside(j, {i \in placed : i < j})
       /\ running' = running \cup placed
       /\ pending' = pending \ placed
       /\ usedGpus' = usedGpus \cup GpusOf(placed)
       /\ usedPorts' = usedPorts \cup PortsOf(placed)
       /\ worker' = [j \in Jobs |-> IF j \in placed THEN "submitted" ELSE worker[j]]
  /\ main' = IF running' = {} THEN "unplaceable" ELSE "waiting"
  /\ UNCHANGED <<prepareVars, failures, permits, holds, sweep, files, failed,
                 invocation>>

Ended(j) == worker[j] \in {"returned", "raised"}

\* Broken variant: a failed shard does not give its GPUs back.
FreedOnSuccess(completed) ==
  GpusOf({k \in completed : worker[k] = "returned"})

FreedGpus(completed) == GpusOf(completed)

\* wait(FIRST_COMPLETED) hands over every future that is done by then.
Collect ==
  /\ main = "waiting"
  /\ LET completed == {j \in running : Ended(j)}
     IN  /\ completed # {}
         /\ running' = running \ completed
         /\ usedGpus' = usedGpus \ FreedGpus(completed)
         /\ usedPorts' = usedPorts \ PortsOf(completed)
         /\ failures' = failures \cup {j \in completed : worker[j] = "raised"}
  /\ main' = IF pending = {} /\ running' = {} THEN "drained" ELSE "placing"
  /\ UNCHANGED <<prepareVars, pending, workerVars, sweep, files, failed,
                 invocation>>

\* With failures the pool raises, and the user may run the command again; an
\* interrupt ends everything that runs, and the user may as well.
Rerun ==
  /\ invocation \in 1..(request.invocations - 1)
  /\ \/ main = "drained" /\ failures # {}
     \/ main \in {"placing", "waiting"}
  /\ main' = "idle"
  /\ pending' = {} /\ running' = {} /\ usedGpus' = {} /\ usedPorts' = {}
  /\ failures' = {}
  /\ worker' = [j \in Jobs |-> "none"] /\ holds' = {} /\ permits' = Permits
  /\ sweep' = [j \in Jobs |-> NoSweep]
  /\ UNCHANGED <<prepareVars, files, failed, invocation>>

\* The shards of a phase: a timing job and the trace job of the same shard.
ShardPairs ==
  {pair \in Jobs \X Jobs :
     LET timed == jobs[pair[1]]
         traced == jobs[pair[2]]
     IN  /\ timed.measurement = "timing" /\ traced.measurement = "trace"
         /\ timed.phase = traced.phase /\ timed.shard = traced.shard}

\* _index_vllm_shard: same run files, as many traces, iterations for all runs.
ShardIndexes(i, j) ==
  /\ files[i].runs = files[j].runs /\ files[i].runs # {}
  /\ files[j].traces = Cardinality(files[j].runs)
  /\ \A p \in files[j].runs : files[i].logged[p] > 0 /\ files[j].logged[p] > 0

IndexTraces ==
  /\ main = "drained" /\ failures = {}
  /\ main' = IF \A pair \in ShardPairs : ShardIndexes(pair[1], pair[2])
             THEN "indexed" ELSE "invalid"
  /\ UNCHANGED <<prepareVars, pending, running, usedGpus, usedPorts, failures,
                 workerVars, sweep, files, failed, invocation>>

\* apply_iteration_timings: a trace has a step per iteration of its own
\* measurement, and both logs must have as many.
StepsMatch(i, j) ==
  \A p \in files[j].runs : /\ files[i].logged[p] = Iterations
                           /\ files[j].logged[p] = Iterations

CollectRecords ==
  /\ main = "indexed"
  /\ main' = IF \A pair \in ShardPairs : StepsMatch(pair[1], pair[2])
             THEN "collected" ELSE "invalid"
  /\ UNCHANGED <<prepareVars, pending, running, usedGpus, usedPorts, failures,
                 workerVars, sweep, files, failed, invocation>>

-----------------------------------------------------------------------------
(* The worker thread of a job *)

WorkerKeeps == UNCHANGED <<prepareVars, poolVars, files, invocation>>

\* release_startup, called on readiness and again when the shard exits.
ReleaseStartup(j) ==
  /\ permits' = IF j \in holds THEN permits + 1 ELSE permits
  /\ holds' = holds \ {j}

\* Broken variant: the sweep is never resumed.
StartAfresh(j) ==
  /\ worker[j] = "submitted"
  /\ worker' = [worker EXCEPT ![j] = IF JobIsComplete(j) THEN "returned" ELSE "gate"]
  /\ UNCHANGED <<permits, holds, sweep, failed>> /\ WorkerKeeps

\* A complete job is skipped; otherwise --resume where there is a directory.
StartJob(j) ==
  /\ worker[j] = "submitted"
  /\ IF JobIsComplete(j)
     THEN worker' = [worker EXCEPT ![j] = "returned"] /\ UNCHANGED sweep
     ELSE /\ worker' = [worker EXCEPT ![j] = "gate"]
          /\ sweep' = [sweep EXCEPT ![j].resume = files[j].dir]
  /\ UNCHANGED <<permits, holds, failed>> /\ WorkerKeeps

\* BoundedSemaphore.acquire(timeout): it gives up only while no permit is free.
AcquirePermit(j) ==
  /\ worker[j] = "gate" /\ permits > 0
  /\ permits' = permits - 1 /\ holds' = holds \cup {j}
  /\ worker' = [worker EXCEPT ![j] = "launching"]
  /\ UNCHANGED <<sweep, failed>> /\ WorkerKeeps

GateTimesOut(j) ==
  /\ worker[j] = "gate" /\ permits = 0
  /\ worker' = [worker EXCEPT ![j] = "launching"]
  /\ UNCHANGED <<permits, holds, sweep, failed>> /\ WorkerKeeps

Launch(j) ==
  /\ worker[j] = "launching"
  /\ worker' = [worker EXCEPT ![j] = "reading"]
  /\ sweep' = [sweep EXCEPT ![j].state = "booting", ![j].todo =
                 jobs[j].points \ (IF sweep[j].resume THEN files[j].runs ELSE {})]
  /\ UNCHANGED <<permits, holds, failed>> /\ WorkerKeeps

\* The log cannot be opened or the process cannot be started.
LaunchFails(j) ==
  /\ worker[j] = "launching" /\ failed < MaxFailures
  /\ failed' = failed + 1
  /\ worker' = [worker EXCEPT ![j] = "raised"]
  /\ ReleaseStartup(j)
  /\ UNCHANGED sweep /\ WorkerKeeps

\* _tee_subprocess_output meets a ready marker, ...
ReadReady(j) ==
  /\ worker[j] = "reading" /\ sweep[j].ready = "printed"
  /\ sweep' = [sweep EXCEPT ![j].ready = "read"]
  /\ ReleaseStartup(j)
  /\ UNCHANGED <<worker, failed>> /\ WorkerKeeps

\* Broken variant: the exit code is not looked at.
ReadEndAnyCode(j) ==
  /\ worker[j] = "reading" /\ sweep[j].ready # "printed"
  /\ sweep[j].state \in {"exited", "died"}
  /\ worker' = [worker EXCEPT ![j] = "returned"]
  /\ ReleaseStartup(j)
  /\ UNCHANGED <<sweep, failed>> /\ WorkerKeeps

\* ... or the end of the output: the exit code decides how the job ends.
ReadEnd(j) ==
  /\ worker[j] = "reading" /\ sweep[j].ready # "printed"
  /\ sweep[j].state \in {"exited", "died"}
  /\ worker' = [worker EXCEPT ![j] =
                  IF sweep[j].state = "exited" THEN "returned" ELSE "raised"]
  /\ ReleaseStartup(j)
  /\ UNCHANGED <<sweep, failed>> /\ WorkerKeeps

\* Writing a chunk fails: the exception leaves the process as it is.
LogFails(j) ==
  /\ worker[j] = "reading" /\ sweep[j].ready # "no"
  /\ failed < MaxFailures
  /\ failed' = failed + 1
  /\ worker' = [worker EXCEPT ![j] = "raised"]
  /\ ReleaseStartup(j)
  /\ UNCHANGED sweep /\ WorkerKeeps

WorkerStep(j) ==
  \/ StartJob(j) \/ AcquirePermit(j) \/ GateTimesOut(j) \/ Launch(j)
  \/ LaunchFails(j) \/ ReadReady(j) \/ ReadEnd(j) \/ LogFails(j)

-----------------------------------------------------------------------------
(* The sweep process of a job *)

SweepKeeps == UNCHANGED <<prepareVars, poolVars, workerVars, invocation>>

SweepBoots(j) ==
  /\ sweep[j].state = "booting"
  /\ sweep' = [sweep EXCEPT ![j].state = "serving", ![j].ready = "printed"]
  /\ files' = [files EXCEPT ![j].dir = TRUE]
  /\ UNCHANGED failed /\ SweepKeeps

\* An `Iteration(...)` line of the point at hand, or the first one of the next
\* point; the log is opened for appending.
Iterate(j) ==
  /\ sweep[j].state = "serving" /\ sweep[j].done < Iterations
  /\ \E p \in IF sweep[j].at = {} THEN sweep[j].todo ELSE sweep[j].at :
       /\ sweep' = [sweep EXCEPT ![j].at = {p}, ![j].todo = @ \ {p},
                                ![j].done = @ + 1]
       /\ files' = [files EXCEPT ![j].logged[p] = @ + 1]
  /\ UNCHANGED failed /\ SweepKeeps

SaveTrace(j) ==
  /\ sweep[j].state = "serving" /\ jobs[j].measurement = "trace"
  /\ sweep[j].at # {} /\ sweep[j].done = Iterations
  /\ sweep' = [sweep EXCEPT ![j].done = @ + 1]
  /\ files' = [files EXCEPT ![j].traces = @ + 1]
  /\ UNCHANGED failed /\ SweepKeeps

SaveRun(j) ==
  /\ sweep[j].state = "serving" /\ sweep[j].at # {}
  /\ sweep[j].done =
       Iterations + (IF jobs[j].measurement = "trace" THEN 1 ELSE 0)
  /\ sweep' = [sweep EXCEPT ![j].at = {}, ![j].done = 0]
  /\ files' = [files EXCEPT ![j].runs = @ \cup sweep[j].at]
  /\ UNCHANGED failed /\ SweepKeeps

SweepExits(j) ==
  /\ sweep[j].state = "serving" /\ sweep[j].todo = {} /\ sweep[j].at = {}
  /\ sweep' = [sweep EXCEPT ![j].state = "exited"]
  /\ UNCHANGED <<files, failed>> /\ SweepKeeps

SweepDies(j) ==
  /\ Alive(j) /\ failed < MaxFailures
  /\ sweep' = [sweep EXCEPT ![j].state = "died"]
  /\ failed' = failed + 1
  /\ UNCHANGED files /\ SweepKeeps

SweepStep(j) ==
  \/ SweepBoots(j) \/ Iterate(j) \/ SaveTrace(j)
  \/ SaveRun(j) \/ SweepExits(j) \/ SweepDies(j)

-----------------------------------------------------------------------------
MainStep ==
  \/ StartPool \/ PlaceJobs \/ Collect \/ Rerun \/ IndexTraces \/ CollectRecords

\* The program has returned or raised and is not run again.
ExecEnded ==
  \/ stage = "rejected"
  \/ stage = "prepared" /\ request.dryRun
  \/ main \in {"unplaceable", "invalid", "collected"}
  \/ main = "drained" /\ failures # {} /\ invocation = request.invocations

Halt == ExecEnded /\ UNCHANGED execVars

ExecNext ==
  \/ Prepares \/ MainStep
  \/ \E j \in DOMAIN worker : WorkerStep(j) \/ SweepStep(j)
  \/ Halt

ExecSpec == ExecInit /\ [][ExecNext]_execVars

\* Threads and sweeps go on as long as one of them can.
ExecFairSpec == ExecSpec /\ WF_execVars(ExecNext)

-----------------------------------------------------------------------------
(* Properties *)

\* Two sweeps that are alive at once never share a GPU or a port, as long as
\* their workers stay with them: the pool knows futures and not the processes
\* behind them, and a sweep abandoned by LogFails keeps its GPUs.
GpusExclusive ==
  \A i, j \in DOMAIN worker :
    i # j /\ Alive(i) /\ Alive(j) /\ ~Ended(i) /\ ~Ended(j) =>
      jobs[i].gpus \cap jobs[j].gpus = {} /\ Ports(i) \cap Ports(j) = {}

\* No startup permit is lost or returned twice, on whichever way a worker leaves
\* its job, and none is kept once the worker has seen its server ready.
PermitsReturned ==
  main # "idle" =>
    /\ permits + Cardinality(holds) = Permits
    /\ \A j \in holds : /\ worker[j] \in {"launching", "reading"}
                        /\ sweep[j].ready # "read"

\* Neither GPUs and ports nor startup permits are given twice or lost.
ResourcesSound == GpusExclusive /\ PermitsReturned

\* A drained pool has an outcome for every job: the failures it reports are the
\* jobs whose worker raised, and every other job has all its run and trace files.
OutcomesReported ==
  main = "drained" =>
    /\ running = {} /\ usedGpus = {} /\ usedPorts = {}
    /\ \A j \in Jobs : /\ Ended(j)
                       /\ j \in failures <=> worker[j] = "raised"
                       /\ j \notin failures => JobIsComplete(j)

\* Finished work is kept: no point that has a run file is measured again, in
\* this invocation or a later one.
NothingRedone ==
  [][\A j \in DOMAIN worker : \A p \in files[j].runs :
       files'[j].logged[p] = files[j].logged[p]]_execVars

\* Whatever fails and whenever the user interrupts, the pool of every invocation
\* drains: each job is placed some time ("could not place any pending sweep job"
\* is never raised), gets past the startup gate and is collected.
PoolDrains ==
  []<>(\/ main \in {"drained", "invalid", "collected"}
       \/ stage = "rejected" \/ request.dryRun)

\* What "Rerun the same command to retry only the unfinished shards" promises:
\* once no shard fails any more, the files can be indexed and collected.
RerunRecovers == main # "invalid"

=============================================================================
