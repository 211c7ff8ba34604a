--------------------------- MODULE BridgeProfile ---------------------------
(***************************************************************************)
(* Profiling with Megatron-Bridge: one command writes the candidates, one   *)
(* runs them one after the other, or submits them to Slurm, and one         *)
(* collects what the candidates left behind into a JSONL profile.  They     *)
(* share files only: the YAML configuration, the list of candidates and a   *)
(* directory per candidate.  Every command reads a configuration file of    *)
(* its own choice.  A collect may run while a run is under way, and both    *)
(* may be killed.                                                           *)
(*                                                                          *)
(* Files that are written with write_text can be cut short by a kill: their *)
(* content is then Torn, and reading it raises a JSONDecodeError, which no  *)
(* command catches.  The training process is external: it leaves timer      *)
(* events, a memory snapshot, a metrics sidecar and the configuration it    *)
(* resolved, or nothing of it.                                              *)
(***************************************************************************)
EXTENDS SearchSpace, FiniteSetsExt

CONSTANTS None,          \* no file
          Torn,          \* a file whose writer was killed
          Configs,       \* configurations a command may be given
          Leavings,      \* what a training process may leave
          MaxRuns,       \* bounds: run and collect commands, attempts launched,
          MaxCollects, MaxLaunches, MaxTorn   \* files torn

\* A memory snapshot: the history of the allocator and the segments left.
Snapshots == [events : Seq([action : STRING, size : Nat]),
              segments : [allocated : Nat, total : Nat]]

(***************************************************************************)
(* dryrun_metrics.json, the metrics sidecar of a launcher.  Each of its     *)
(* three parts may be missing: no step times are <<>>.  Nothing has checked *)
(* the numbers.                                                             *)
(***************************************************************************)
Sidecars == [times : Seq(Int),
             ranks : {None} \cup SUBSET [allocated : Int, reserved : Int],
             shapes : {None} \cup Seq(Seq(Int))]

ASSUME BridgeAssumption ==
  /\ Configs \subseteq [search : Searches, warmup : Nat, allowIncomplete : BOOLEAN]
  /\ Leavings \subseteq [timers : Seq(Count), snapshot : {None} \cup Snapshots,
                         sidecar : {None} \cup Sidecars]
  /\ {MaxRuns, MaxCollects, MaxLaunches, MaxTorn} \subseteq Nat
  /\ None # Torn
  /\ {None, Torn} \cap {"written", "success", "failed", "submitted"} = {}

Candidates == UNION {ToSet(TrainingCandidates(c.search)) : c \in Configs}

VARIABLES candidates,   \* candidates.json: a sequence, None or Torn
          dirs,         \* the directory of every candidate
          run,          \* the run command
          collect,      \* the collect command
          rejected,     \* what a schema check refused, and the sidecar
                        \* that was collected with it
          clean, ranOut,    \* candidates with an attempt that exited with 0,
                            \* and that ran out of memory: what really happened
          runs, collects, launches, torn

historyVars == <<clean, ranOut>>
boundVars == <<runs, collects, launches, torn>>
bridgeVars == <<candidates, dirs, run, collect, rejected, historyVars,
                boundVars>>

\* oomLog: the log names an OOM; events: the step times in the event files;
\* sidecar: its parts take precedence over events, snapshot and manifest;
\* jobs: Slurm jobs still to run.
NewDir == [manifest |-> None, status |-> None, oomLog |-> FALSE, events |-> <<>>,
           snapshot |-> None, sidecar |-> None, jobs |-> 0]

Refusal(c, sidecar) == [candidate |-> c, sidecar |-> sidecar]

NoRun == [pc |-> "idle"]
NoCollect == [pc |-> "idle"]

BridgeInit ==
    /\ candidates = None
    /\ dirs = [c \in Candidates |-> NewDir]
    /\ run = NoRun /\ collect = NoCollect
    /\ rejected = {}
    /\ clean = {} /\ ranOut = {}
    /\ runs = 0 /\ collects = 0 /\ launches = 0 /\ torn = 0

-----------------------------------------------------------------------------
\* generate

(***************************************************************************)
(* cmd_megatron_generate, as one step: nobody else writes the list, and a   *)
(* run that is under way has read it.  The TrainingCandidate constructor    *)
(* checks every candidate before the file is touched; a kill while it is    *)
(* written tears it.                                                        *)
(***************************************************************************)
Generate ==
    /\ run.pc = "idle"
    /\ \E config \in Configs :
          LET made == TrainingCandidates(config.search)
              refused == {c \in ToSet(made) : ~ValidCandidate(c)}
          IN /\ SearchAllowed(config.search)
             /\ candidates' = IF refused = {} THEN made ELSE candidates
             /\ rejected' = rejected \cup {Refusal(c, None) : c \in refused}
    /\ UNCHANGED <<dirs, run, collect, historyVars, boundVars>>

GenerateKilled ==
    /\ run.pc = "idle"
    /\ torn < MaxTorn /\ torn' = torn + 1
    /\ candidates' = Torn
    /\ UNCHANGED <<dirs, run, collect, rejected, historyVars,
                   runs, collects, launches>>

(***************************************************************************)
(* _select_candidates: all of them, the ones with an id, which is as often  *)
(* that candidate as it is listed, or one by index.                         *)
(***************************************************************************)
WithId(id) == LET places == {i \in DOMAIN candidates : candidates[i] = id}
              IN [k \in 1..Cardinality(places) |-> id]

Selections ==
    IF candidates \in {None, Torn} THEN {}
    ELSE {candidates}
           \cup {WithId(id) : id \in ToSet(candidates)}
           \cup {<<candidates[i]>> : i \in DOMAIN candidates}

-----------------------------------------------------------------------------
\* run

RunStarts ==
    /\ run.pc = "idle" /\ runs < MaxRuns /\ runs' = runs + 1
    /\ \E selected \in Selections, backend \in {"local", "slurm"}, resume \in BOOLEAN :
          run' = [pc |-> "next", selected |-> selected, todo |-> selected,
                  backend |-> backend, resume |-> resume, failures |-> 0,
                  exit |-> None]
    /\ UNCHANGED <<candidates, dirs, collect, rejected, historyVars,
                   collects, launches, torn>>

(***************************************************************************)
(* run --dry-run, as one step: it only rewrites the manifests.              *)
(***************************************************************************)
DryRuns ==
    /\ run.pc = "idle" /\ runs < MaxRuns /\ runs' = runs + 1
    /\ \E selected \in Selections :
          dirs' = [c \in Candidates |->
                     IF c \in ToSet(selected)
                     THEN [dirs[c] EXCEPT !.manifest = "written"] ELSE dirs[c]]
    /\ UNCHANGED <<candidates, run, collect, rejected, historyVars,
                   collects, launches, torn>>

Going == run.pc = "next" /\ run.todo # <<>>
Current == Head(run.todo)
Onward(r) == [r EXCEPT !.pc = "next", !.todo = Tail(@), !.exit = None]

(***************************************************************************)
(* prepare_bridge_candidate, and the decision of run_bridge_candidate:      *)
(* --resume passes over a success and stops the command at a status it      *)
(* cannot read; a local attempt truncates the log.                          *)
(***************************************************************************)
Prepare ==
    /\ Going
    /\ LET old == dirs[Current].status
           skipped == run.resume /\ old = "success"
           fails == run.resume /\ old = Torn
           launched == ~skipped /\ ~fails
       IN /\ launched => launches < MaxLaunches
          /\ launches' = IF launched THEN launches + 1 ELSE launches
          /\ dirs' = [dirs EXCEPT ![Current].manifest = "written",
                                  ![Current].oomLog =
                           IF launched /\ run.backend = "local" THEN FALSE ELSE @]
          /\ run' = IF fails THEN NoRun
                    ELSE IF launched THEN [run EXCEPT !.pc = "running"]
                    ELSE Onward(run)
    /\ UNCHANGED <<candidates, collect, rejected, historyVars,
                   runs, collects, torn>>

Attempt(exit) == run' = [run EXCEPT !.pc = "exited", !.exit = exit]

\* Event files accumulate over the attempts; the other files are replaced.
Leaves(d, left) ==
    [d EXCEPT !.events = @ \o left.timers,
              !.sidecar = IF left.sidecar = None THEN @ ELSE left.sidecar,
              !.snapshot = IF left.snapshot = None THEN @ ELSE left.snapshot]

\* The training process exits with 0, and logged its steps or did not.
ProcessSucceeds ==
    /\ run.pc = "running" /\ run.backend = "local"
    /\ \E left \in Leavings : dirs' = [dirs EXCEPT ![Current] = Leaves(@, left)]
    /\ clean' = clean \cup {Current}
    /\ Attempt("success")
    /\ UNCHANGED <<candidates, collect, rejected, ranOut, boundVars>>

\* It exits with another code, and logged the cause and perhaps some steps.
\* A sidecar is written by a launcher whose training has finished.
ProcessFails ==
    /\ run.pc = "running" /\ run.backend = "local"
    /\ \E oom \in BOOLEAN, left \in {l \in Leavings : l.sidecar = None} :
          /\ dirs' = [dirs EXCEPT ![Current] = [Leaves(@, left) EXCEPT !.oomLog = oom]]
          /\ ranOut' = IF oom THEN ranOut \cup {Current} ELSE ranOut
    /\ Attempt("failed")
    /\ UNCHANGED <<candidates, collect, rejected, clean, boundVars>>

SlurmSubmits ==
    /\ run.pc = "running" /\ run.backend = "slurm"
    /\ \/ dirs' = [dirs EXCEPT ![Current].jobs = @ + 1] /\ Attempt("submitted")
       \/ UNCHANGED dirs /\ Attempt("failed")
    /\ UNCHANGED <<candidates, collect, rejected, historyVars,
                   boundVars>>

\* A submitted job writes below the directory, and never to status.json.
SlurmJobRuns ==
    /\ \E c \in Candidates, left \in Leavings :
          /\ dirs[c].jobs > 0
          /\ dirs' = [dirs EXCEPT ![c] =
                         [Leaves(dirs[c], left) EXCEPT !.jobs = @ - 1]]
    /\ UNCHANGED <<candidates, run, collect, rejected, historyVars,
                   boundVars>>

\* Broken variants: a failure ends the loop; the status is always success.
RecordOutcomeAndStop ==
    LET failed == run.exit = "failed"
    IN /\ run.pc = "exited"
       /\ dirs' = [dirs EXCEPT ![Current].status = run.exit]
       /\ run' = [run EXCEPT !.pc = "next", !.exit = None,
                             !.failures = IF failed THEN @ + 1 ELSE @,
                             !.todo = IF failed THEN <<>> ELSE Tail(@)]
       /\ UNCHANGED <<candidates, collect, rejected, historyVars,
                      boundVars>>

RecordSuccess ==
    /\ run.pc = "exited"
    /\ dirs' = [dirs EXCEPT ![Current].status = "success"]
    /\ run' = Onward(run)
    /\ UNCHANGED <<candidates, collect, rejected, historyVars,
                   boundVars>>

\* status.json; a failure is counted and the loop goes on.
RecordOutcome ==
    /\ run.pc = "exited"
    /\ dirs' = [dirs EXCEPT ![Current].status = run.exit]
    /\ run' = Onward([run EXCEPT !.failures =
                        IF run.exit = "failed" THEN @ + 1 ELSE @])
    /\ UNCHANGED <<candidates, collect, rejected, historyVars,
                   boundVars>>

RunEnds ==
    /\ run.pc = "next" /\ run.todo = <<>>
    /\ run' = NoRun
    /\ UNCHANGED <<candidates, dirs, collect, rejected, historyVars,
                   boundVars>>

\* The command is killed, at worst while it writes one of its two files.
RunKilled ==
    /\ run.pc # "idle"
    /\ run' = NoRun
    /\ \/ UNCHANGED <<dirs, torn>>
       \/ /\ torn < MaxTorn /\ torn' = torn + 1
          /\ \/ Going /\ dirs' = [dirs EXCEPT ![Current].manifest = Torn]
             \/ run.pc = "exited" /\ dirs' = [dirs EXCEPT ![Current].status = Torn]
    /\ UNCHANGED <<candidates, collect, rejected, historyVars,
                   runs, collects, launches>>

-----------------------------------------------------------------------------
\* collect

CollectStarts ==
    /\ collect.pc = "idle" /\ collects < MaxCollects /\ collects' = collects + 1
    /\ \E selected \in Selections, config \in Configs :
          collect' = [pc |-> "status", config |-> config, selected |-> selected,
                      todo |-> selected, records |-> <<>>, status |-> None]
    /\ UNCHANGED <<candidates, dirs, run, rejected, historyVars,
                   runs, launches, torn>>

Reading == Head(collect.todo)

\* Broken variant: a candidate without output is always passed over.
ReadManifestLeniently ==
    /\ collect.pc = "status" /\ collect.todo # <<>>
    /\ LET d == dirs[Reading]
       IN collect' =
            IF d.manifest = None THEN [collect EXCEPT !.todo = Tail(@)]
            ELSE IF d.manifest = Torn \/ d.status = Torn
            THEN NoCollect
            ELSE [collect EXCEPT !.pc = "data", !.status = d.status]
    /\ UNCHANGED <<candidates, dirs, run, rejected, historyVars,
                   boundVars>>

(***************************************************************************)
(* collect_bridge_record, first half: the manifest, the configuration the   *)
(* training process resolved, which need not match the candidate, and the   *)
(* status.  A directory that was never prepared is passed over when the     *)
(* configuration allows it, and an error otherwise.                         *)
(***************************************************************************)
ReadManifest ==
    /\ collect.pc = "status" /\ collect.todo # <<>>
    /\ \E matches \in BOOLEAN :
          LET d == dirs[Reading]
          IN collect' =
            IF d.manifest = None
            THEN IF collect.config.allowIncomplete
                 THEN [collect EXCEPT !.todo = Tail(@)] ELSE NoCollect
            ELSE IF ~matches \/ d.manifest = Torn \/ d.status = Torn
            THEN NoCollect
            ELSE [collect EXCEPT !.pc = "data", !.status = d.status]
    /\ UNCHANGED <<candidates, dirs, run, rejected, historyVars,
                   boundVars>>

\* _status: what was not a success is an OOM or a failure, as the log says.
Status(read, d) == IF read = "success" THEN "success"
                   ELSE IF read # None /\ d.oomLog THEN "oom" ELSE "failed"

\* What the sidecar brings of one part, and what stands in for it.
Metric(d, part, absent, otherwise) ==
    IF d.sidecar = None \/ d.sidecar[part] = absent
    THEN otherwise ELSE d.sidecar[part]

\* The step times after the warmup.
StepTimes(d, status) ==
    LET all == Metric(d, "times", <<>>, IF status = "success" THEN d.events ELSE <<>>)
        warmup == collect.config.warmup
    IN IF Len(all) > warmup THEN SubSeq(all, warmup + 1, Len(all)) ELSE all

\* One event of a memory history: the two counters and their peaks.
Replay(p, e) ==
    LET allocated == CASE e.action = "alloc" -> p.allocated + e.size
                       [] e.action = "free" -> Max({0, p.allocated - e.size})
                       [] OTHER -> p.allocated
        reserved == CASE e.action = "segment_alloc" -> p.reserved + e.size
                      [] e.action = "segment_free" -> Max({0, p.reserved - e.size})
                      [] OTHER -> p.reserved
    IN [allocated |-> allocated, reserved |-> reserved,
        topAllocated |-> Max({p.topAllocated, allocated}),
        topReserved |-> Max({p.topReserved, reserved})]

(***************************************************************************)
(* _snapshot_peak: the peaks of the history, or the segments that are left  *)
(* when it holds no reservation.                                            *)
(***************************************************************************)
SnapshotPeak(s) ==
    LET end == FoldLeft(Replay, [allocated |-> 0, reserved |-> 0,
                                 topAllocated |-> 0, topReserved |-> 0], s.events)
        none == end.topReserved = 0
        allocated == IF none THEN s.segments.allocated ELSE end.topAllocated
        reserved == IF none THEN s.segments.total ELSE end.topReserved
    IN [allocated |-> allocated, reserved |-> Max({allocated, reserved})]

\* The rank memories, as the sidecar has them or as the snapshot says.
Peaks(d) == Metric(d, "ranks", None,
                   IF d.snapshot = None THEN {} ELSE {SnapshotPeak(d.snapshot)})

\* The padded microbatches a candidate stands for, unless the sidecar has
\* the lengths that were trained on.
EffectiveShape(c) == [k \in 1..c.mbs |-> Max(ToSet(c.shape))]

\* Broken variant: one microbatch stands for all.
MicrobatchedOnce(c, d) == Metric(d, "shapes", None, <<EffectiveShape(c)>>)

Microbatched(c, d) ==
    Metric(d, "shapes", None, [m \in 1..c.nmb |-> EffectiveShape(c)])

(***************************************************************************)
(* Its second half: the log, the timers, the memory and the lengths.  A     *)
(* success without step times or memory is an error unless the              *)
(* configuration allows it; then RankMemory, SequenceStats, the count of    *)
(* microbatches, TrainingPayload and ProfileRecord check what was gathered. *)
(***************************************************************************)
ReadData ==
    /\ collect.pc = "data"
    /\ LET c == Reading
           d == dirs[c]
           status == Status(collect.status, d)
           gathered == [candidate |-> c, status |-> status,
                        times |-> StepTimes(d, status), peaks |-> Peaks(d)]
           missing == /\ status = "success" /\ ~collect.config.allowIncomplete
                      /\ gathered.times = <<>> \/ gathered.peaks = {}
           refused == /\ ~missing
                      /\ ~ValidPayload(c.par, c.par.world, c.mbs, c.gbs, c.nmb,
                                       Microbatched(c, d), gathered.times, gathered.peaks)
       IN /\ collect' = IF missing \/ refused THEN NoCollect
                        ELSE [collect EXCEPT !.pc = "status", !.status = None,
                                             !.todo = Tail(@),
                                             !.records = Append(@, gathered)]
          /\ rejected' = rejected \cup
                 IF refused THEN {Refusal(c, d.sidecar)} ELSE {}
    /\ UNCHANGED <<candidates, dirs, run, historyVars, boundVars>>

(***************************************************************************)
(* write_records: the profile is replaced by the records, as a whole.  The  *)
(* temporary file of a killed collect stays behind under a name of its own. *)
(***************************************************************************)
Replace ==
    /\ collect.pc = "status" /\ collect.todo = <<>>
    /\ collect' = [collect EXCEPT !.pc = "written"]
    /\ UNCHANGED <<candidates, dirs, run, rejected, historyVars, boundVars>>

CollectEnds ==
    /\ collect.pc = "written"
    /\ collect' = NoCollect
    /\ UNCHANGED <<candidates, dirs, run, rejected, historyVars, boundVars>>

CollectKilled ==
    /\ collect.pc # "idle"
    /\ collect' = NoCollect
    /\ UNCHANGED <<candidates, dirs, run, rejected, historyVars, boundVars>>

-----------------------------------------------------------------------------

RunSteps == \/ Prepare \/ ProcessSucceeds \/ ProcessFails \/ SlurmSubmits
            \/ RecordOutcome \/ RunEnds
CollectSteps == ReadManifest \/ ReadData \/ Replace \/ CollectEnds

BridgeNext ==
    \/ Generate \/ GenerateKilled
    \/ RunStarts \/ DryRuns \/ RunSteps \/ SlurmJobRuns \/ RunKilled
    \/ CollectStarts \/ CollectSteps \/ CollectKilled

BridgeSpec == BridgeInit /\ [][BridgeNext]_bridgeVars

-----------------------------------------------------------------------------
\* Properties

Written == collect.pc = "written"

(***************************************************************************)
(* The profile on disk is a complete collection: one record for every       *)
(* selected candidate in their order, failures and runs out of memory       *)
(* included, unless the configuration allowed gaps; and no success without  *)
(* its step times and its rank memories.                                    *)
(***************************************************************************)
OutputWhole ==
    Written /\ ~collect.config.allowIncomplete =>
        /\ Len(collect.records) = Len(collect.selected)
        /\ \A i \in DOMAIN collect.selected :
              LET r == collect.records[i]
              IN /\ r.candidate = collect.selected[i]
                 /\ r.status = "success" => r.times # <<>> /\ r.peaks # {}

(***************************************************************************)
(* No status is made up: a candidate is collected as a success only if one  *)
(* of its attempts exited with 0, and as an OOM only if one of them ran out *)
(* of memory, whatever was killed, repeated or read meanwhile.              *)
(***************************************************************************)
StatusesEarned ==
    Written =>
        \A i \in DOMAIN collect.records :
            LET r == collect.records[i]
            IN /\ r.status = "success" => r.candidate \in clean
               /\ r.status = "oom" => r.candidate \in ranOut

(***************************************************************************)
(* One failing candidate does not stop the others: when a run command comes *)
(* to its end, every selected candidate has a manifest and the status of an *)
(* attempt, and no failure among them went uncounted.                       *)
(***************************************************************************)
AllAttempted ==
    run.pc = "next" /\ run.todo = <<>> =>
        /\ \A c \in ToSet(run.selected) :
              /\ dirs[c].manifest = "written"
              /\ dirs[c].status \notin {None, Torn}
        /\ Cardinality({c \in ToSet(run.selected) : dirs[c].status = "failed"})
              <= run.failures

\* A sidecar that agrees with the candidate and with itself.
Agrees(s, c) ==
    /\ ToSet(s.times) \subseteq Count
    /\ s.ranks # None => \A peak \in s.ranks : 0 <= peak.allocated
                                               /\ peak.allocated <= peak.reserved
    /\ s.shapes # None => /\ Len(s.shapes) = c.nmb
                          /\ \A m \in 1..c.nmb : /\ Len(s.shapes[m]) = c.mbs
                                                 /\ ToSet(s.shapes[m]) \subseteq Count

(***************************************************************************)
(* What is enumerated can be collected.  The schema refuses no candidate,   *)
(* and no record of one except where its launcher contradicted it: with a   *)
(* sidecar whose own numbers are inconsistent or whose microbatches are not *)
(* the candidate's.  Timer events, snapshots, the padded lengths that stand *)
(* in and any mixture of them with a sidecar that agrees are never refused, *)
(* whichever attempt and version of the configuration left the files.       *)
(***************************************************************************)
RefusalsEarned ==
    \A r \in rejected : r.sidecar # None /\ ~Agrees(r.sidecar, r.candidate)
=============================================================================
