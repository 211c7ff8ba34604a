---------------------------- MODULE SearchSpace ----------------------------
(***************************************************************************)
(* The candidates of a Megatron-Bridge profiling sweep: which combinations  *)
(* of the configured sizes are enumerated, and in which order, and what the *)
(* profile schema demands of the record a candidate ends up in.             *)
(*                                                                          *)
(* A search is a record of the configured lists: world, mbs, tp, pp, cp,    *)
(* nmb (<<>> when the configuration names none), shapes (sequence lengths   *)
(* of one microbatch), schedules and recompute.  The identity of a          *)
(* candidate, a hash of its fields in the code, is the candidate itself.    *)
(***************************************************************************)
EXTENDS Integers, Sequences, FiniteSets, SequencesExt

CONSTANTS Layers, Heads, QueryGroups   \* ModelConstraints

ASSUME ConstraintsAssumption == {Layers, Heads, QueryGroups} \subseteq Nat \ {0}

(***************************************************************************)
(* What a search may be.  Sizes are counts: one that is not positive is a   *)
(* configuration that Parallelism refuses.  Counts of microbatches and      *)
(* sequence lengths are any integers; the enumeration checks them.          *)
(***************************************************************************)
Count == Nat \ {0}
Searches == [world : Count, mbs : Count, tp : Seq(Count), pp : Seq(Count),
             cp : Seq(Count), nmb : Seq(Int), shapes : Seq(Seq(Int)),
             schedules : Seq(STRING), recompute : Seq(STRING)]

-----------------------------------------------------------------------------
\* Parallelism, TrainingCandidate and ProfileRecord: what their checks ask

Parallelism(tp, pp, dp, cp, world) ==
    [tp |-> tp, pp |-> pp, dp |-> dp, cp |-> cp, world |-> world]

ValidParallelism(p) ==
    /\ {p.tp, p.pp, p.dp, p.cp} \subseteq Nat \ {0}
    /\ p.world = p.tp * p.pp * p.dp * p.cp

ValidCandidate(c) ==
    /\ ValidParallelism(c.par)
    /\ c.par.cp = 1 /\ c.schedule = "1f1b"
    /\ {c.mbs, c.gbs, c.nmb} \subseteq Nat \ {0}
    /\ c.gbs = c.mbs * c.par.dp * c.nmb
    /\ Len(c.shape) = c.mbs
    /\ ToSet(c.shape) \subseteq Nat \ {0}

\* RankMemory, SequenceStats, TrainingPayload and ProfileRecord: a payload
\* with the microbatches micro, the step times and the peaks of the ranks.
ValidPayload(par, gpus, mbs, gbs, nmb, micro, times, peaks) ==
    /\ ValidParallelism(par) /\ par.world = gpus
    /\ {mbs, gbs, nmb} \subseteq Nat \ {0}
    /\ gbs = mbs * par.dp * nmb
    /\ Len(micro) = nmb
    /\ \A i \in DOMAIN micro : /\ Len(micro[i]) = mbs
                               /\ ToSet(micro[i]) \subseteq Nat \ {0}
    /\ ToSet(times) \subseteq Nat \ {0}
    /\ \A peak \in peaks : 0 <= peak.allocated /\ peak.allocated <= peak.reserved

-----------------------------------------------------------------------------
\* Enumeration

\* tensor_parallel_is_valid
TensorParallelIsValid(tp) ==
    /\ Heads % tp = 0
    /\ QueryGroups % tp = 0 \/ tp % QueryGroups = 0

\* The default of num_microbatches: one, and the depth of every pipeline.
Microbatches(search) == IF search.nmb = <<>> THEN {1} \cup ToSet(search.pp)
                        ELSE ToSet(search.nmb)

(***************************************************************************)
(* The order of the product: sizes ascend, without repetitions; shapes,     *)
(* schedules and recomputations keep their place in the configuration.      *)
(***************************************************************************)
Earlier(a, b) == \E k \in DOMAIN a : a[k] < b[k] /\ \A m \in 1..(k - 1) : a[m] = b[m]

Product(search) ==
    ToSet(search.tp) \X ToSet(search.pp) \X ToSet(search.cp)
      \X Microbatches(search) \X (DOMAIN search.shapes)
      \X (DOMAIN search.schedules) \X (DOMAIN search.recompute)

Accepted(search, d) ==
    /\ d[3] = 1
    /\ search.schedules[d[6]] = "1f1b"
    /\ search.world % (d[1] * d[2] * d[3]) = 0
    /\ TensorParallelIsValid(d[1])
    /\ Layers % d[2] = 0
    /\ Len(search.shapes[d[5]]) = search.mbs
    /\ ToSet(search.shapes[d[5]]) \subseteq Nat \ {0}

Candidate(search, d, dp, gbs) ==
    [par |-> Parallelism(d[1], d[2], dp, d[3], search.world),
     mbs |-> search.mbs, gbs |-> gbs, nmb |-> d[4], shape |-> search.shapes[d[5]],
     schedule |-> search.schedules[d[6]], recompute |-> search.recompute[d[7]]]

\* What is accepted, in the order of the product.
Kept(search) ==
    LET kept == {d \in Product(search) : Accepted(search, d)}
    IN [k \in 1..Cardinality(kept) |->
           CHOOSE d \in kept : Cardinality({e \in kept : Earlier(e, d)}) = k - 1]

\* enumerate_training_candidates, as the command calls it.
TrainingCandidates(search) ==
    LET kept == Kept(search)
    IN [i \in DOMAIN kept |->
           LET d == kept[i]
               dp == search.world \div (d[1] * d[2] * d[3])
           IN Candidate(search, d, dp, search.mbs * dp * d[4])]

\* Its error: a count of microbatches that is not positive.
SearchAllowed(search) == Microbatches(search) \subseteq Nat \ {0}
=============================================================================
