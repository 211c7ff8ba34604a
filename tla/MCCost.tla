------------------------------- MODULE MCCost -------------------------------
(* Small profiles, fits and requests for CostModels.                       *)
EXTENDS CostModels

\* A training record with num microbatches of size mbs, padded to length unless
\* the outcome names other microbatches.
Training(run, par, cp, distributed, length, mbs, num, outcome) ==
    outcome @@
    [kind |-> "training", run |-> run, par |-> par, cp |-> cp, gpu |-> "h100",
     recompute |-> "full", distributed |-> distributed, count |-> 0,
     micro |-> [m \in 1..num |-> [k \in 1..mbs |-> length]],
     status |-> "success", steps |-> 3, peak |-> 60, gpuMemory |-> 70]

Oom == [status |-> "oom", steps |-> 0, peak |-> Missing]

TrainingRecords ==
    {Training(1, Par(1, 1, 1), 1, TRUE, 1, 1, 2, <<>>),
     Training(2, Par(1, 1, 2), 1, TRUE, 3, 1, 4, <<>>),
     Training(2, Par(1, 1, 2), 1, TRUE, 3, 2, 2,
              [steps |-> 2, micro |-> <<<<1, 3>>, <<3, 1>>>>]),
     Training(3, Par(1, 1, 2), 1, TRUE, 4, 1, 3, Oom),
     Training(4, Par(1, 1, 1), 1, TRUE, 2, 2, 2, Oom @@ [count |-> 8]),
     Training(4, Par(1, 2, 1), 1, FALSE, 2, 2, 2, [steps |-> 4])}

\* With context parallelism, and on another GPU.
Outsiders == {Training(5, Par(1, 2, 1), 2, FALSE, 2, 1, 2, <<>>),
              Training(5, Par(1, 2, 1), 1, FALSE, 2, 1, 2, [gpu |-> "a100"])}

Rollout(run, phase, samples) ==
    [kind |-> "rollout", run |-> run, par |-> Par(1, 1, 1), gpu |-> "h100",
     phase |-> phase, samples |-> samples, status |-> "success"]

RolloutRecords ==
    {Rollout(1, "prefill", 5), Rollout(1, "mixed", 2), Rollout(2, "prefill", 2),
     Rollout(3, "decode", 3), Rollout(4, "decode", 2)}

MCProfiles ==
    {SetToSeq(S) :
        S \in (SUBSET TrainingRecords) \cup (SUBSET RolloutRecords)
              \cup {{Rollout(1, "mixed", 2), Training(2, Par(1, 1, 2), 1, TRUE, 3, 1, 4, <<>>), r} :
                       r \in Outsiders}}

MCSplits == {[num |-> 0, den |-> 1], [num |-> 1, den |-> 5], [num |-> 4, den |-> 5]}

MCTrainingFits ==
    {[latency |-> [q |-> 1, t |-> 2, pipeline |-> 3, update |-> 1],
      memory |-> [slope |-> 2, residual |-> 0], fullRank |-> TRUE],
     [latency |-> [q |-> 0, t |-> 0, pipeline |-> 0, update |-> 1],
      memory |-> [slope |-> 0, residual |-> 5], fullRank |-> FALSE]}

\* gemm = 6 for both dimensions 1: W is a multiple of 37, G of 6, Ap of 3.
Roofline(floor, fixed, token, context) ==
    [F |-> floor, W |-> fixed, G |-> token, Ap |-> 3, Ad |-> context, b |-> 1]
MCRooflineFits ==
    {Roofline(1, 0, 0, 0), Roofline(60, 37, 6, 3), Roofline(60, 0, 6, 0),
     Roofline(60, 37, 0, 3), Roofline(1, 37, 0, 3)}

Phase(floor, k) ==
    [attn_b |-> 1, attn_k |-> k, floor |-> floor, other_b |-> 0, other_k |-> 2]
MCPsrlFitted == {[prefill |-> Phase(1, 0), decode |-> Phase(f, k)] :
                    f \in {0, 5}, k \in {0, 1}}

Batch(lengths, mbs) == [lengths |-> lengths, mbs |-> mbs, recompute |-> "full"]
MCBatches == {Batch(<<3, 1, 3, 4>>, 1),
              Batch(<<1, 4, 2, 3, 3, 4, 1, 1>>, 2), Batch(<<1, 1, 2>>, 1)}
MCParallelisms == {Par(1, 1, 1), Par(1, 1, 2), Par(1, 2, 2)}

MCSegments == {[requests |-> n, ctx |-> c] : n \in {1, 3}, c \in {0, 4}}
MCBudgets == {1, 7, 59, 60, 61, 130, 250}
MCSeeds == {0, 1, 3, 6}
=============================================================================
