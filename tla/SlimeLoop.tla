----------------------------- MODULE SlimeLoop -----------------------------
(***************************************************************************)
(* The control loop under slime's barrier policy, SlimePolicy of           *)
(* src/dryrun/policy/slime.py: each training step starts a new round of    *)
(* rollouts and, unless partial rollouts are kept, discards the old ones;  *)
(* weights are pushed every Interval steps, one step after they are armed. *)
(***************************************************************************)
EXTENDS RLLoop

CONSTANTS BatchSize,       \* cfg.batch_size
          SampleRoom,      \* max(1, round(over_sampling_ratio * batch_size))
          Interval,        \* update_weights_interval
          PartialRollout,  \* the policy's partial_rollout
          MaxInflight      \* the policy's max_inflight, or None

\* over_sampling_ratio and update_weights_interval are asserted to be at least 1.
ASSUME SlimeAssumption ==
    /\ BatchSize \in Nat \ {0}
    /\ SampleRoom \in Nat /\ SampleRoom >= BatchSize
    /\ Interval \in Nat \ {0}
    /\ PartialRollout \in BOOLEAN
    /\ MaxInflight \in Nat \cup {None}

VARIABLES remaining,       \* requests admitted since the last batch was taken
          armedPush,       \* version to push at the next training step, or None
          stepsSincePush

policyVars == <<remaining, armedPush, stepsSincePush>>
vars == <<loopVars, policyVars>>

TypeOK ==
    /\ LoopTypeOK
    /\ remaining \in Nat
    /\ armedPush \in Nat \cup {None}
    /\ stepsSincePush \in 0..(Interval - 1)

Init ==
    /\ LoopInit
    /\ remaining = 0
    /\ armedPush = None
    /\ stepsSincePush = 0

\* Broken variant: a round may start once more after it is complete.
AdmitQuotaOnceMore ==
    IF remaining > BatchSize THEN 0
    ELSE Room(SampleRoom, MaxInflight, Cardinality(inflight))

AdmitQuota ==
    IF remaining >= BatchSize THEN 0
    ELSE Room(SampleRoom, MaxInflight, Cardinality(inflight))

\* peek_batch takes the first BatchSize of the ready list.  The list never
\* holds more (ReadyFitsBatch), so which ones come first makes no difference.
PeekBatch == {b \in SUBSET ready : Cardinality(b) = BatchSize}

SlimeAdmit(n) ==
    /\ pc = "event" /\ phase = "generate" => PeekBatch = {}
    /\ Admit(AdmitQuota, n)
    /\ remaining' = remaining + n
    /\ UNCHANGED <<armedPush, stepsSincePush>>

SlimeNoBatch ==
    /\ PeekBatch = {}
    /\ NoBatch
    /\ UNCHANGED policyVars

\* engine_version_after_train: the engines get the push armed by an earlier
\* step; every Interval-th step arms the version it has just produced.  The
\* policy's _engine_v is the value it returned last, the loop's engineVersion.
\* Broken variant: a push is armed one step late.
ArmPushLate ==
    IF stepsSincePush + 1 > Interval
      THEN armedPush' = version + 1 /\ stepsSincePush' = 0
      ELSE armedPush' = None /\ stepsSincePush' = stepsSincePush + 1

PushedVersion == IF armedPush = None THEN engineVersion ELSE armedPush

ArmPush ==
    IF stepsSincePush + 1 >= Interval
      THEN armedPush' = version + 1 /\ stepsSincePush' = 0
      ELSE armedPush' = None /\ stepsSincePush' = stepsSincePush + 1

\* Broken variant: nothing expires at the barrier.
ExpiredNone == {}

\* expire
Expired == IF PartialRollout THEN {} ELSE inflight

SlimeTrain(batch) ==
    /\ TakeBatch(batch, PushedVersion, Expired, TRUE)
    /\ remaining' = 0
    /\ ArmPush

\* on_complete: a request beyond the batch is dropped.
BatchHasRoom == Cardinality(ready) < BatchSize

SlimeComplete(r) ==
    /\ Complete(r, BatchHasRoom)
    /\ UNCHANGED policyVars

Contract == PartialRollout \/ version - engineVersion <= Interval

SlimeEngineReturns ==
    /\ EngineReturns(PeekBatch # {}, Contract)
    /\ UNCHANGED policyVars

Next ==
    \/ \E n \in 0..AdmitQuota : SlimeAdmit(n)
    \/ SlimeNoBatch
    \/ \E batch \in PeekBatch : SlimeTrain(batch)
    \/ \E r \in inflight : SlimeComplete(r)
    \/ SlimeEngineReturns
    \/ Halt /\ UNCHANGED policyVars

Spec == Init /\ [][Next]_vars

FairSpec == Spec /\ WF_vars(Next)

-----------------------------------------------------------------------------

(* The engines are never more than Interval versions behind the trainer,   *)
(* although a push takes effect one training step after it was armed.      *)
VersionGap == version - engineVersion <= Interval

(* "Max staleness equals update_weights_interval exactly" (slime.py):      *)
(* every request trained on was admitted under weights at most Interval    *)
(* versions older than the step that consumed it.                          *)
StalenessBound == \A c \in consumed : c.at - c.req.v <= Interval

(* Completions beyond the batch are dropped, so the ready list is never    *)
(* longer than one batch and a training step empties it.                   *)
ReadyFitsBatch ==
    /\ Cardinality(ready) <= BatchSize
    /\ pc = "begin" => ready = {}

(* The barrier holds at every step: the engines are near, nothing trained  *)
(* on is older than the interval, and no surplus samples are kept.         *)
BarrierHolds == VersionGap /\ StalenessBound /\ ReadyFitsBatch

(* Every version gets trained: no assertion fails, and dropping            *)
(* completions never starves a batch.                                      *)
TrainingCompletes == <>Finished

(* Without partial rollouts the loop barrier is an admission window: a     *)
(* refill may start while fewer than a batch are admitted, so the window   *)
(* is BatchSize - 1 larger than one round.                                 *)
Window == INSTANCE AdmissionWindow WITH
            Window <- SampleRoom + BatchSize - 1,
            Steps <- NVersions,
            outstanding <- Cardinality(inflight) + Cardinality(ready),
            trained <- version

ImplementsWindow == Window!Spec

=============================================================================
