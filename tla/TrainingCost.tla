---------------------------- MODULE TrainingCost ----------------------------
(***************************************************************************)
(* The Hydraulis training cost model: how profiled training steps become    *)
(* fitted cells, and how a cell predicts the latency and the peak memory of *)
(* a batch of trajectories.                                                 *)
(*                                                                          *)
(* The least-squares regressions are external: a fit may return any         *)
(* non-negative coefficients.  Amounts are integers, in units that make the *)
(* divisions of the parameter inventory exact.                              *)
(***************************************************************************)
EXTENDS CostArtifact, TLC

CONSTANT ModelParameters   \* parameter_count of the model descriptor, 0: absent

SumSeq(s) == FoldFunction(+, 0, s)
SumSquares(s) == SumSeq([k \in DOMAIN s |-> s[k] * s[k]])
\* The microbatches of one rank, seen through one of the two sums.
QValues(micro) == [i \in DOMAIN micro |-> SumSquares(micro[i])]
TValues(micro) == [i \in DOMAIN micro |-> SumSeq(micro[i])]

-----------------------------------------------------------------------------
\* A batch and its ranks (base.py)

\* Broken variant: the lengths are dealt in the order they came.
RankMicrobatchesUnsorted(lengths, dp, mbs) ==
    LET perRank == Len(lengths) \div dp
    IN [rank \in 1..dp |->
           [m \in 1..(perRank \div mbs) |->
               [k \in 1..mbs |-> lengths[rank + dp * ((m - 1) * mbs + k - 1)]]]]

\* sorted(reverse=True), which keeps the order of equal lengths.
LongestFirst(lengths) ==
    LET place == [i \in DOMAIN lengths |->
                    Cardinality({j \in DOMAIN lengths :
                        \/ lengths[j] > lengths[i]
                        \/ lengths[j] = lengths[i] /\ j <= i})]
    IN [k \in DOMAIN lengths |-> lengths[CHOOSE i \in DOMAIN lengths : place[i] = k]]

(***************************************************************************)
(* rank_microbatches: the lengths, longest first, are dealt to the ranks    *)
(* one by one; each rank cuts its share into microbatches in that order.    *)
(***************************************************************************)
Divisible(lengths, dp, mbs) == Len(lengths) % (dp * mbs) = 0

RankMicrobatches(lengths, dp, mbs) ==
    LET ordered == LongestFirst(lengths)
        perRank == Len(lengths) \div dp
    IN [rank \in 1..dp |->
           [m \in 1..(perRank \div mbs) |->
               [k \in 1..mbs |-> ordered[rank + dp * ((m - 1) * mbs + k - 1)]]]]

Load(micro) == <<SumSeq(QValues(micro)), SumSeq(TValues(micro))>>
Heavier(a, b) == a[1] > b[1] \/ (a[1] = b[1] /\ a[2] > b[2])

\* critical_rank_microbatches: max() keeps the first of equal ranks.
CriticalRank(ranks) ==
    CHOOSE r \in DOMAIN ranks :
        /\ \A q \in DOMAIN ranks : ~Heavier(Load(ranks[q]), Load(ranks[r]))
        /\ \A q \in 1..(r - 1) : Heavier(Load(ranks[r]), Load(ranks[q]))

-----------------------------------------------------------------------------
\* Features and static memory (hydraulis.py, inventory.py)

LatencyFeatures(micro, pp) ==
    LET q == QValues(micro)
        t == TValues(micro)
    IN [q_effective |-> SumSeq(q) + (pp - 1) * Max(ToSet(q)),
        t_effective |-> SumSeq(t) + (pp - 1) * Max(ToSet(t)),
        pipeline_slots |-> Len(micro) + pp - 1,
        micro_batch_size |-> Len(micro[1])]

ActivationFeature(micro, pp) ==
    Max(ToSet(TValues(micro))) * Min({Len(micro), pp})

\* bf16 parameters, fp32 gradients, master copy and two moments.
ParameterInventory(parameters, par, distributed) ==
    LET local == parameters \div (par.tp * par.pp)
        shard == IF distributed THEN par.dp ELSE 1
    IN local * 2 + (local * 4) \div shard + (local * 4) \div shard
         + (local * 8) \div shard

-----------------------------------------------------------------------------
\* Cells

Par(tp, pp, dp) == [tp |-> tp, pp |-> pp, dp |-> dp]
\* to_profile_parallelism(canonical_dp=True)
Canonical(par) == [par EXCEPT !.dp = 1]

ParameterCount(r) == IF r.count # 0 THEN r.count ELSE ModelParameters

CellOf(r) == [tp |-> r.par.tp, pp |-> r.par.pp, recompute |-> r.recompute,
              distributed |-> r.distributed, count |-> ParameterCount(r)]

\* _training_records keeps the topologies without context parallelism.
Supported(profile) ==
    {i \in DOMAIN profile : profile[i].kind = "training" /\ profile[i].cp = 1}
Cells(profile) == {CellOf(profile[i]) : i \in Supported(profile)}
InCell(profile, cell) == {i \in Supported(profile) : CellOf(profile[i]) = cell}

CellParallelism(cell) == Par(cell.tp, cell.pp, 1)
Selector(component, recompute, distributed) ==
    [component |-> component, recompute |-> recompute, distributed |-> distributed]
CellSelector(cell, component) ==
    Selector(component, cell.recompute, cell.distributed)

-----------------------------------------------------------------------------
\* Fitting one cell

Timed(profile, S) ==
    {i \in S : profile[i].status = "success" /\ profile[i].steps > 0}
MeasuredRuns(profile, S) ==
    {i \in S : profile[i].status = "success" /\ profile[i].peak # Missing}
OutOfMemory(profile, S) == {i \in S : profile[i].status = "oom"}

Feature(name, profile, S, pp) ==
    {LatencyFeatures(profile[i].micro, pp)[name] : i \in S}
LatencyFeatureNames ==
    {"q_effective", "t_effective", "pipeline_slots", "micro_batch_size"}

(***************************************************************************)
(* _fit_latency_entry.  It needs four step times in the training part and   *)
(* a design matrix of full rank; a cell without timed runs has no entry.    *)
(***************************************************************************)
Holdout(profile, S, split) ==
    SplitByRun(S, Launches(profile), split.num, split.den)

LatencyFits(profile, cell, split, fullRank) ==
    LET timed == Timed(profile, InCell(profile, cell))
    IN timed # {} =>
          /\ MapThenSumSet(LAMBDA i : profile[i].steps,
                           Holdout(profile, timed, split).train) >= 4
          /\ fullRank

LatencyEntries(profile, cell, split, coefficients) ==
    LET timed == Timed(profile, InCell(profile, cell))
    IN IF timed = {} THEN <<>>
       ELSE <<[parallelism |-> CellParallelism(cell),
               selector |-> CellSelector(cell, "latency"),
               coefficients |-> coefficients,
               holdouts |-> {Holdout(profile, timed, split)},
               ranges |-> [name \in LatencyFeatureNames |->
                             RangeOf(Feature(name, profile, timed, cell.pp))]]>>

(***************************************************************************)
(* _fit_memory_entry.  The regression fits what the peaks leave over the    *)
(* static inventory; then the intercept is raised until every run that ran  *)
(* out of memory is predicted above the memory its GPU has.                 *)
(***************************************************************************)
Static(profile, cell, i) ==
    ParameterInventory(cell.count, profile[i].par, cell.distributed)

\* Broken variant: the static memory of a replica without sharding.
DeficitUnsharded(profile, cell, fit, i) ==
    profile[i].gpuMemory + 1
      - ParameterInventory(cell.count, Canonical(profile[i].par), cell.distributed)
      - (fit.slope * ActivationFeature(profile[i].micro, cell.pp) + fit.residual)

Deficit(profile, cell, fit, i) ==
    profile[i].gpuMemory + 1 - Static(profile, cell, i)
      - (fit.slope * ActivationFeature(profile[i].micro, cell.pp) + fit.residual)

OomIncrease(profile, cell, fit) ==
    Max({0} \cup {Deficit(profile, cell, fit, i) :
          i \in {j \in OutOfMemory(profile, InCell(profile, cell)) :
                   profile[j].gpuMemory # Missing}})

MemoryFits(profile, cell, fullRank) ==
    MeasuredRuns(profile, InCell(profile, cell)) # {} => fullRank

MemoryEntries(profile, cell, split, coefficients) ==
    LET S == InCell(profile, cell)
        measured == MeasuredRuns(profile, S)
        seen == measured \cup OutOfMemory(profile, S)
        fit == IF measured = {}
               THEN [slope |-> 0, residual |-> 0] ELSE coefficients
    IN IF seen = {} THEN <<>>
       ELSE <<[parallelism |-> CellParallelism(cell),
               selector |-> CellSelector(cell, "memory"),
               coefficients |->
                   [slope |-> fit.slope,
                    residual |-> fit.residual + OomIncrease(profile, cell, fit),
                    count |-> cell.count],
               holdouts |-> {Holdout(profile, measured, split)},
               ranges |-> [activation_feature |->
                   RangeOf({ActivationFeature(profile[i].micro, cell.pp) :
                              i \in seen})]]>>

(***************************************************************************)
(* HydraulisTrainingCost.fit: fits maps every cell to its coefficients and  *)
(* to whether its design matrices have full rank.  Missing when a cell      *)
(* raises or nothing could be fitted.                                       *)
(***************************************************************************)
CellEntries(profile, cell, split, fit) ==
    LatencyEntries(profile, cell, split, fit.latency)
      \o MemoryEntries(profile, cell, split, fit.memory)

FitTraining(file, split, fits) ==
    LET profile == ReadRecords(file, "training")
        cells == SetToSeq(Cells(profile))
        entries == FlattenSeq([i \in DOMAIN cells |->
                       CellEntries(profile, cells[i], split, fits[cells[i]])])
    IN IF /\ OneTarget(profile)
          /\ \A i \in Supported(profile) : ParameterCount(profile[i]) > 0
          /\ \A c \in Cells(profile) :
                /\ LatencyFits(profile, c, split, fits[c].fullRank)
                /\ MemoryFits(profile, c, fits[c].fullRank)
          /\ entries # <<>>
       THEN [kind |-> "training", type |-> "hydraulis", records |-> profile,
             split |-> split, entries |-> entries]
       ELSE Missing

-----------------------------------------------------------------------------
\* Loading and predicting

(***************************************************************************)
(* from_artifact: the optimizer sharding is the caller's or else the only   *)
(* one of the artifact; with several of them it has to be named.            *)
(***************************************************************************)
Sharding(artifact, explicit) ==
    LET values == {artifact.entries[i].selector.distributed :
                     i \in DOMAIN artifact.entries}
    IN IF explicit # Missing THEN {explicit}
       ELSE IF Cardinality(values) = 1 THEN values ELSE {}

InDomain(entry, features) ==
    \A name \in DOMAIN entry.ranges :
        /\ entry.ranges[name].low <= features[name]
        /\ features[name] <= entry.ranges[name].high

CriticalMicrobatches(w, par) ==
    LET ranks == RankMicrobatches(w.lengths, par.dp, w.mbs)
    IN ranks[CriticalRank(ranks)]

HasTrainingEntry(artifact, component, w, par, distributed) ==
    HasEntryFor(artifact.entries, Canonical(par),
                Selector(component, w.recompute, distributed))

TrainingEntry(artifact, component, w, par, distributed) ==
    EntryFor(artifact.entries, Canonical(par),
             Selector(component, w.recompute, distributed))

LatencyOf(entry, micro, pp) ==
    LET features == LatencyFeatures(micro, pp)
    IN entry.coefficients.q * features.q_effective
         + entry.coefficients.t * features.t_effective
         + entry.coefficients.pipeline * features.pipeline_slots
         + entry.coefficients.update

MemoryOf(entry, micro, par, distributed) ==
    ParameterInventory(entry.coefficients.count, par, distributed)
      + entry.coefficients.slope * ActivationFeature(micro, par.pp)
      + entry.coefficients.residual

\* The two predict methods; Missing where they raise.
PredictLatency(artifact, w, par, distributed, extrapolate) ==
    LET entry == TrainingEntry(artifact, "latency", w, par, distributed)
        micro == CriticalMicrobatches(w, par)
    IN IF /\ Divisible(w.lengths, par.dp, w.mbs)
          /\ HasTrainingEntry(artifact, "latency", w, par, distributed)
          /\ extrapolate \/ InDomain(entry, LatencyFeatures(micro, par.pp))
          /\ LatencyOf(entry, micro, par.pp) > 0
       THEN LatencyOf(entry, micro, par.pp) ELSE Missing

PredictMemory(artifact, w, par, distributed, extrapolate) ==
    LET entry == TrainingEntry(artifact, "memory", w, par, distributed)
        micro == CriticalMicrobatches(w, par)
    IN IF /\ Divisible(w.lengths, par.dp, w.mbs)
          /\ HasTrainingEntry(artifact, "memory", w, par, distributed)
          /\ \/ extrapolate
             \/ InDomain(entry, [activation_feature |->
                                   ActivationFeature(micro, par.pp)])
       THEN MemoryOf(entry, micro, par, distributed) ELSE Missing
=============================================================================
