---------------------------- MODULE RolloutCost ----------------------------
(***************************************************************************)
(* The rollout cost models: what one engine step costs under the roofline,  *)
(* the PSRL and the DistServe model, how a profile is fitted, and the       *)
(* closed form by which the engine advances many decode steps at once.      *)
(*                                                                          *)
(* A rollout record of a profile stands for the observations one launch     *)
(* made of one phase; samples is their number.  The non-negative            *)
(* regressions are external: a fit may return any non-negative              *)
(* coefficients.  Amounts are integers, in units that make the divisions by *)
(* the block size and by the DistServe dimensions exact.                    *)
(***************************************************************************)
EXTENDS CostArtifact

-----------------------------------------------------------------------------
\* The closed form of a decode segment (advance.py)

\* ceil(n / d)
CeilDiv(n, d) == -((-n) \div d)

(***************************************************************************)
(* crossing_step: step i of a segment c costs max(F, alpha + beta * i); the *)
(* first step at which the second one overtakes the floor, at most cap.     *)
(***************************************************************************)
CrossingStep(c, cap) ==
    IF c.alpha >= c.floor THEN 0
    ELSE IF c.beta = 0 THEN cap
    ELSE Min({cap, CeilDiv(c.floor - c.alpha, c.beta)})

\* Broken variant: the steps past the crossing all cost what the first does.
ElapsedFlat(c, k) ==
    LET k0 == CrossingStep(c, k)
    IN k0 * c.floor + (k - k0) * (c.alpha + c.beta * k0)

\* elapsed: k0 steps at the floor, then an arithmetic series.
Elapsed(c, k) ==
    LET k0 == CrossingStep(c, k)
        n == k - k0
    IN k0 * c.floor + n * (c.alpha + c.beta * k0)
         + c.beta * ((n * (n - 1)) \div 2)

\* Broken variant: a seed that is too large stays.
StepsWithinUncorrected(c, budget, seed) ==
    LET k0 == CrossingStep(c, budget)
        up == {n \in seed..(seed + budget) : Elapsed(c, k0 + n + 1) > budget}
    IN IF c.beta = 0 THEN budget \div Max({c.floor, c.alpha})
       ELSE IF budget <= k0 * c.floor THEN budget \div c.floor
       ELSE k0 + Min(up)

(***************************************************************************)
(* steps_within: the number of steps a budget of time allows.  Past the     *)
(* crossing the code solves a quadratic in floating point; seed is where    *)
(* that lands, and two loops walk up and down from there.  A step takes at  *)
(* least one unit of time, which bounds the crossing by the budget and the  *)
(* walk up by the same.                                                     *)
(***************************************************************************)
StepsWithin(c, budget, seed) ==
    LET k0 == CrossingStep(c, budget)
        up == {n \in seed..(seed + budget) : Elapsed(c, k0 + n + 1) > budget}
        down == {n \in 1..Min(up) : Elapsed(c, k0 + n) <= budget}
    IN IF c.beta = 0 THEN budget \div Max({c.floor, c.alpha})
       ELSE IF budget <= k0 * c.floor THEN budget \div c.floor
       ELSE k0 + Max({0} \cup down)

-----------------------------------------------------------------------------
\* One step (base.py)

Step(tokens, l2, ctx, requests) ==
    [tokens |-> tokens, l2 |-> l2, ctx |-> ctx, requests |-> requests]

\* from_step
PhaseOf(w) == IF w.l2 > 0 /\ w.ctx > 0 THEN "mixed"
              ELSE IF w.l2 > 0 THEN "prefill" ELSE "decode"

-----------------------------------------------------------------------------
\* The roofline and DistServe (roofline.py, distserve.py)

Raw(m, w) ==
    m.W + m.G * w.tokens
      + (IF PhaseOf(w) \in {"prefill", "mixed"} THEN (m.Ap * w.l2) \div m.b ELSE 0)
      + (IF PhaseOf(w) \in {"decode", "mixed"} THEN m.Ad * w.ctx ELSE 0)

RooflinePredict(m, w) == Max({m.F, Raw(m, w)})

RooflineSegment(m, n, ctx) ==
    [floor |-> m.F, alpha |-> m.W + m.G * n + m.Ad * ctx, beta |-> m.Ad * n]

Gemm(h, i) == 4 * h * h + 2 * h * i

\* DistServe.fit: C3 and C4 are the smallest pair with C3 + C4 * gemm = W.
DistServeConstants(m, h, i) ==
    LET gemm == Gemm(h, i)
        norm == 1 + gemm * gemm
    IN [h |-> h, m |-> i, C1 |-> m.G \div gemm, C2 |-> m.Ap \div (3 * h),
        C3 |-> m.W \div norm, C4 |-> (m.W * gemm) \div norm,
        C5 |-> m.Ad \div (3 * h), b |-> m.b, F |-> m.F]

\* DistServe.__init__: the terms of the roofline its constants stand for.
DistServeTerms(c) ==
    [F |-> c.F, W |-> c.C3 + c.C4 * Gemm(c.h, c.m), G |-> c.C1 * Gemm(c.h, c.m),
     Ap |-> c.C2 * 3 * c.h, Ad |-> c.C5 * 3 * c.h, b |-> c.b]

-----------------------------------------------------------------------------
\* PSRL (psrl.py)

Attention(phase, x) == phase.attn_b + phase.attn_k * x
OtherTime(phase, x) == Max({phase.floor, phase.other_b + phase.other_k * x})

PsrlPredict(m, w) ==
    LET prefill == Attention(m.prefill, w.l2)
        decode == Attention(m.decode, w.ctx)
        prefillOther == OtherTime(m.prefill, w.tokens)
        decodeOther == OtherTime(m.decode, w.requests)
    IN CASE PhaseOf(w) = "prefill" -> prefill + prefillOther
         [] PhaseOf(w) = "decode" -> decode + decodeOther
         [] OTHER -> prefill + decode + Max({prefillOther, decodeOther})

PsrlSegment(m, n, ctx) ==
    [floor |-> 0, alpha |-> Attention(m.decode, ctx) + OtherTime(m.decode, n),
     beta |-> m.decode.attn_k * n]

-----------------------------------------------------------------------------
\* The three families

Predict(model, w) ==
    CASE model.type = "roofline" -> RooflinePredict(model.coefficients, w)
      [] model.type = "psrl" -> PsrlPredict(model.coefficients, w)
      [] model.type = "distserve" ->
            RooflinePredict(DistServeTerms(model.coefficients), w)

\* decode_coeffs: n requests with ctx tokens in their caches.
DecodeCoeffs(model, n, ctx) ==
    CASE model.type = "roofline" -> RooflineSegment(model.coefficients, n, ctx)
      [] model.type = "psrl" -> PsrlSegment(model.coefficients, n, ctx)
      [] model.type = "distserve" ->
            RooflineSegment(DistServeTerms(model.coefficients), n, ctx)

-----------------------------------------------------------------------------
\* Fitting (_fit.py and the fit methods)

\* rollout_groups
Observed(records) ==
    {i \in DOMAIN records : records[i].status = "success" /\ records[i].samples > 0}
Topologies(records) == {records[i].par : i \in Observed(records)}
InTopology(records, par) == {i \in Observed(records) : records[i].par = par}
InPhase(records, S, phase) == {i \in S : records[i].phase = phase}

\* PSRL needs five observations of each of the two phases.
PsrlFits(records, par) ==
    \A phase \in {"prefill", "decode"} :
        MapThenSumSet(LAMBDA i : records[i].samples,
                      InPhase(records, InTopology(records, par), phase)) >= 5

\* The holdout: PSRL splits every phase by itself, the roofline all at once.
PhaseSplit(records, S, split) ==
    SplitByRun(S, Launches(records), split.num, split.den)

RolloutHoldouts(type, records, par, split) ==
    LET S == InTopology(records, par)
    IN IF type = "psrl"
       THEN {PhaseSplit(records, InPhase(records, S, phase), split) :
               phase \in {records[i].phase : i \in S}}
       ELSE {PhaseSplit(records, S, split)}

RolloutEntry(type, records, par, split, coefficients) ==
    [parallelism |-> par, selector |-> <<>>, coefficients |-> coefficients,
     holdouts |-> RolloutHoldouts(type, records, par, split)]

(***************************************************************************)
(* The three fit methods: fits maps every topology to the coefficients of   *)
(* its regression; DistServe starts from those of the roofline.             *)
(***************************************************************************)
FitRollout(profile, type, split, fits, h, i) ==
    LET records == ReadRecords(profile, "rollout")
        pars == Topologies(records)
        Coefficients(par) == IF type = "distserve"
                             THEN DistServeConstants(fits[par], h, i) ELSE fits[par]
    IN IF /\ pars # {}
          /\ OneTarget(records)
          /\ type = "psrl" => \A par \in pars : PsrlFits(records, par)
       THEN [kind |-> "rollout", type |-> type, records |-> records, split |-> split,
             entries |->
                SetToSeq({RolloutEntry(type, records, par, split, Coefficients(par)) :
                            par \in pars})]
       ELSE Missing

\* from_artifact: Missing when the artifact is of another kind or type, or has
\* no cell for the topology.
LoadRollout(artifact, type, par) ==
    IF /\ artifact.kind = "rollout" /\ artifact.type = type
       /\ HasEntryFor(artifact.entries, par, <<>>)
    THEN [type |-> type,
          coefficients |-> EntryFor(artifact.entries, par, <<>>).coefficients]
    ELSE Missing
=============================================================================
