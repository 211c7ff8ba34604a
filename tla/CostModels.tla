----------------------------- MODULE CostModels -----------------------------
(***************************************************************************)
(* The life of a cost model: a profile is collected, a regression command   *)
(* fits and saves an artifact, and the simulator and the search load the    *)
(* artifact and ask it for times and for memory.                            *)
(*                                                                          *)
(* The commands run one at a time.  CostArtifact.save replaces the file at  *)
(* once, so a command that raises or is killed leaves the artifact that was *)
(* there.  An artifact carries the records it was fitted from, which is     *)
(* what its profile_digest identifies, and, for the properties only, the    *)
(* share of the launches that was to be held out.                           *)
(***************************************************************************)
EXTENDS TrainingCost, RolloutCost

CONSTANTS Profiles,        \* the profiles that may be collected
          Splits,          \* the values of --validation-fraction
          TrainingFits,    \* what the regressions may return for a cell
          RooflineFits, PsrlFitted,
          Hidden, Intermediate,    \* dimensions of the model, for DistServe
          Batches,         \* the training batches asked about
          Parallelisms,
          Segments,        \* the decode segments asked about
          DecodeSteps, Budgets, Seeds   \* bounds of the checks on a segment

(***************************************************************************)
(* What the collected records, the regressions and the callers guarantee.   *)
(* Every microbatch of a run has micro_batch_size sequences; benchmarks pad *)
(* them to one length, a sidecar may name lengths of any kind.  The bounds  *)
(* of least_squares keep coefficients from being negative, and its solver   *)
(* stays strictly inside them, so that the floor of a roofline is positive, *)
(* and a PSRL decode step of an empty cache and a training step take time;  *)
(* predict raises otherwise.  The units make the divisions of DistServe     *)
(* exact.                                                                   *)
(***************************************************************************)
Positive == Nat \ {0}

EvenMicrobatches(micro) ==
    /\ micro \in Seq(Seq(Positive)) /\ micro # <<>> /\ micro[1] # <<>>
    /\ \A m \in DOMAIN micro : Len(micro[m]) = Len(micro[1])

Padded(micro) ==
    /\ EvenMicrobatches(micro)
    /\ \A m \in DOMAIN micro : \A k \in DOMAIN micro[m] : micro[m][k] = micro[1][1]

Shape == [tp : Positive, pp : Positive, dp : Positive]

TrainingRecord(r) ==
    /\ r.par \in Shape /\ r.count \in Nat /\ EvenMicrobatches(r.micro)
    /\ r.gpuMemory \in Nat \cup {Missing}

Exact(m) ==
    LET gemm == Gemm(Hidden, Intermediate)
    IN /\ m.G % gemm = 0 /\ m.W % (1 + gemm * gemm) = 0
       /\ m.Ap % (3 * Hidden) = 0 /\ m.Ad % (3 * Hidden) = 0

LatencyCoefficients == [q : Nat, t : Nat, pipeline : Nat, update : Nat]
MemoryCoefficients == [slope : Nat, residual : Nat]
PsrlPhase == [attn_b : Nat, attn_k : Nat, floor : Nat, other_b : Nat, other_k : Nat]

ProfileAssumption ==
    /\ ModelParameters \in Nat /\ Missing \notin Int
    /\ \A p \in Profiles : p \in Seq(ToSet(p))
    /\ \A p \in Profiles : \A r \in ToSet(p) :
          /\ r.run \in Nat
          /\ r.kind = "training" => TrainingRecord(r)
    /\ \A split \in Splits : split.num \in Nat /\ split.den \in Positive

FitAssumption ==
    /\ TrainingFits \subseteq [latency : LatencyCoefficients, memory : MemoryCoefficients,
                              fullRank : BOOLEAN]
    /\ \A fit \in TrainingFits :
          fit.latency.q + fit.latency.t + fit.latency.pipeline + fit.latency.update > 0
    /\ Hidden \in Positive /\ Intermediate \in Positive
    /\ \A m \in RooflineFits :
          /\ m \in [F : Positive, W : Nat, G : Nat, Ap : Nat, Ad : Nat, b : Positive]
          /\ Exact(m)
    /\ \A m \in PsrlFitted :
          /\ m \in [prefill : PsrlPhase, decode : PsrlPhase]
          /\ m.decode.attn_b + m.decode.floor + m.decode.other_b > 0

RequestAssumption ==
    /\ \A w \in Batches : /\ w.lengths \in Seq(Positive) /\ w.lengths # <<>>
                          /\ w.mbs \in Positive
    /\ Parallelisms \subseteq Shape
    /\ Segments \subseteq [requests : Positive, ctx : Nat]
    /\ DecodeSteps \in Nat /\ Budgets \subseteq Positive /\ Seeds \subseteq Nat

ASSUME CostAssumption == ProfileAssumption /\ FitAssumption /\ RequestAssumption

VARIABLES profile,    \* the collected JSONL file
          artifact,   \* the saved artifact, or Missing
          answer      \* the last answer the artifact gave, or Missing

costVars == <<profile, artifact, answer>>

CostInit == profile = <<>> /\ artifact = Missing /\ answer = Missing

CollectProfile ==
    /\ profile = <<>>
    /\ profile' \in Profiles
    /\ UNCHANGED <<artifact, answer>>

\* artifact.save
Save(fitted) ==
    /\ fitted # Missing
    /\ artifact' = fitted
    /\ answer' = Missing
    /\ UNCHANGED profile

\* cmd_training; --allow-rank-deficient takes any design matrix.
RegressTraining ==
    \E split \in Splits :
        \E fits \in [Cells(ReadRecords(profile, "training")) -> TrainingFits] :
            \E allow \in BOOLEAN :
                Save(FitTraining(profile, split,
                        [c \in DOMAIN fits |->
                            [fits[c] EXCEPT !.fullRank = @ \/ allow]]))

\* cmd_rollout
RegressRollout ==
    \E split \in Splits, type \in {"roofline", "psrl", "distserve"} :
        \E fits \in [Topologies(ReadRecords(profile, "rollout")) ->
                        IF type = "psrl" THEN PsrlFitted ELSE RooflineFits] :
            Save(FitRollout(profile, type, split, fits, Hidden, Intermediate))

(***************************************************************************)
(* HydraulisTrainingCost.from_artifact and a prediction of each model.      *)
(***************************************************************************)
Estimate ==
    /\ artifact # Missing /\ artifact.kind = "training"
    /\ \E w \in Batches, par \in Parallelisms, explicit \in {Missing, TRUE, FALSE},
          extrapolate \in BOOLEAN :
          \E distributed \in Sharding(artifact, explicit) :
              answer' = [of |-> "batch", w |-> w, par |-> par,
                         distributed |-> distributed,
                         latency |-> PredictLatency(artifact, w, par, distributed,
                                                    extrapolate),
                         memory |-> PredictMemory(artifact, w, par, distributed,
                                                  extrapolate)]
    /\ UNCHANGED <<profile, artifact>>

\* The engine asks a loaded rollout model for the terms of a decode segment.
DecodeSegment ==
    /\ artifact # Missing
    /\ \E par \in Parallelisms, s \in Segments, type \in {"roofline", "psrl", "distserve"} :
          LET model == LoadRollout(artifact, type, par)
          IN /\ model # Missing
             /\ answer' = [of |-> "segment", model |-> model, s |-> s,
                           c |-> DecodeCoeffs(model, s.requests, s.ctx)]
    /\ UNCHANGED <<profile, artifact>>

CostNext == \/ CollectProfile \/ RegressTraining \/ RegressRollout
            \/ Estimate \/ DecodeSegment

CostSpec == CostInit /\ [][CostNext]_costVars

-----------------------------------------------------------------------------
\* Properties

\* A share of these launches cannot be kept out of the fit: none is asked for,
\* there is one launch only, or the share is within half a launch of them all.
NoneToHoldOut(launches, split) ==
    LET n == Cardinality(launches)
    IN split.num = 0 \/ n < 2 \/ 2 * n * (split.den - split.num) <= split.den

(***************************************************************************)
(* The steps of one launch resemble each other too much to validate a fit   *)
(* that saw some of them.  Whenever a share of the launches can be held     *)
(* out, some are, not all, and no launch of a split is in both its parts;   *)
(* when none can, the fit is validated on all it saw.  This is so of every  *)
(* split by itself: PSRL makes one for each phase of a topology, and a      *)
(* launch may be held out of one phase and fitted in another.               *)
(***************************************************************************)
HoldoutSound ==
    artifact # Missing =>
        \A i \in DOMAIN artifact.entries :
            \A part \in artifact.entries[i].holdouts :
                LET Runs(S) == {artifact.records[a].run : a \in S}
                IN \/ /\ part.train = part.validation
                      /\ NoneToHoldOut(Runs(part.train), artifact.split)
                   \/ /\ part.train # {} /\ part.validation # {}
                      /\ Runs(part.train) \cap Runs(part.validation) = {}

\* The workload a padded training record measured: the same on every replica.
WorkloadOf(r) ==
    [lengths |-> FlattenSeq([d \in 1..r.par.dp |-> FlattenSeq(r.micro)]),
     mbs |-> Len(r.micro[1]), recompute |-> r.recompute]

\* The selectors do not name the parameter_count: one count per selector.
OneCount(records, cell) ==
    \A other \in Cells(records) :
        [other EXCEPT !.count = cell.count] = cell => other = cell

(***************************************************************************)
(* What was profiled is answered: a padded run that was timed or measured   *)
(* is in the domain of its cell, whatever lengths the other runs had, and   *)
(* one that exhausted its GPU is predicted to need more memory than the GPU *)
(* has, whatever the regression returned.  Lengths that differ are dealt    *)
(* anew, longest first, so that their run may lie outside of its own range. *)
(***************************************************************************)
ProfiledPointsAnswered ==
    artifact # Missing /\ artifact.kind = "training" =>
        LET records == artifact.records
            Memory(i) == PredictMemory(artifact, WorkloadOf(records[i]),
                             records[i].par, records[i].distributed, FALSE)
            answered == {i \in Supported(records) :
                           /\ Padded(records[i].micro)
                           /\ OneCount(records, CellOf(records[i]))}
        IN /\ \A i \in Timed(records, answered) :
                 PredictLatency(artifact, WorkloadOf(records[i]), records[i].par,
                                records[i].distributed, FALSE) # Missing
           /\ \A i \in MeasuredRuns(records, answered) : Memory(i) # Missing
           /\ \A i \in OutOfMemory(records, answered) :
                 records[i].gpuMemory # Missing =>
                     Memory(i) # Missing /\ Memory(i) > records[i].gpuMemory

(***************************************************************************)
(* One rank stands for the batch: the rank with the largest quadratic load  *)
(* is evaluated alone, and no other rank takes longer or needs more memory  *)
(* than the answer, although memory follows the longest microbatch.         *)
(***************************************************************************)
EstimateCoversRanks ==
    answer # Missing /\ answer.of = "batch" =>
        LET Entry(component) == TrainingEntry(artifact, component, answer.w,
                                              answer.par, answer.distributed)
            ranks == ToSet(RankMicrobatches(answer.w.lengths, answer.par.dp,
                                            answer.w.mbs))
        IN /\ answer.latency # Missing => \A micro \in ranks :
                 LatencyOf(Entry("latency"), micro, answer.par.pp) <= answer.latency
           /\ answer.memory # Missing => \A micro \in ranks :
                 MemoryOf(Entry("memory"), micro, answer.par, answer.distributed)
                     <= answer.memory

(***************************************************************************)
(* The closed form of a decode segment is the sum of its steps, each        *)
(* predicted by itself, in all three families; and the DistServe constants  *)
(* stand for the roofline they were calibrated with.                        *)
(***************************************************************************)
DecodeTimesAgree ==
    answer # Missing /\ answer.of = "segment" =>
        LET n == answer.s.requests
            StepTime(i) == Predict(answer.model, Step(n, 0, answer.s.ctx + i * n, n))
        IN /\ \A k \in 0..DecodeSteps :
                 Elapsed(answer.c, k) =
                     FoldFunction(+, 0, [i \in 0..(k - 1) |-> StepTime(i)])
           /\ answer.model.type = "distserve" =>
                 DistServeTerms(answer.model.coefficients) \in RooflineFits

(***************************************************************************)
(* A time budget is used up exactly: wherever the floating-point root of    *)
(* the quadratic lands, steps_within returns the largest number of steps    *)
(* that fits, so an instance stops neither early nor late.                  *)
(***************************************************************************)
StepsWithinExact ==
    answer # Missing /\ answer.of = "segment" =>
        \A budget \in Budgets, seed \in Seeds :
            StepsWithin(answer.c, budget, seed) =
                Max({k \in 0..budget : Elapsed(answer.c, k) <= budget})
=============================================================================
