-------------------------- MODULE SlimeLoop_proofs --------------------------
(***************************************************************************)
(* slime's barrier holds for every batch size, over-sampling ratio, push   *)
(* interval and number of versions.  The invariant says how far along the  *)
(* interval the engines are, and that a training step leaves no request    *)
(* behind: whatever is in flight or ready was admitted under the weights   *)
(* the engines serve now.                                                  *)
(***************************************************************************)
EXTENDS SlimeLoop, RLLoop_proofs

(* Between two pushes the engines fall behind by one version per training  *)
(* step; an armed push is the version of the trainer itself.               *)
PushInv ==
    IF armedPush = None
      THEN version - engineVersion = stepsSincePush
      ELSE /\ armedPush = version /\ stepsSincePush = 0
           /\ version - engineVersion = Interval

Fresh == \A r \in inflight \cup ready : r.v = engineVersion

RoundInv ==
    /\ Cardinality(inflight) + Cardinality(ready) <= remaining
    /\ remaining <= SampleRoom + BatchSize - 1

BarrierInv ==
    /\ PushInv
    /\ ReadyFitsBatch
    /\ ~PartialRollout => Fresh /\ StalenessBound /\ RoundInv
    /\ pc = "take" => version < NVersions

IInv == TypeOK /\ LoopInv /\ BarrierInv

LEMMA SlimeInit == Init => IInv
<1> SUFFICES ASSUME Init PROVE IInv
  OBVIOUS
<1>1. LoopTypeOK /\ LoopInv
  BY LoopInitType, LoopInitInv DEF Init
<1>2. TypeOK
  BY <1>1, SlimeAssumption DEF TypeOK, Init
<1>3. Cardinality({}) = 0
  BY FS_EmptySet
<1>4. PushInv /\ Fresh /\ StalenessBound
  BY DEF Init, LoopInit, PushInv, Fresh, StalenessBound
<1>5. ReadyFitsBatch /\ RoundInv
  BY <1>3, SlimeAssumption DEF Init, LoopInit, ReadyFitsBatch, RoundInv
<1>q. QED
  BY <1>1, <1>2, <1>4, <1>5 DEF IInv, BarrierInv, Init, LoopInit

\* The steps that change neither the versions nor the lists.
LEMMA SlimeIdle ==
    ASSUME IInv, LoopTypeOK', pc' # "begin", pc' = "take" => pc = "take",
           UNCHANGED <<version, engineVersion, nextRid, inflight, ready,
                       consumed, dropped, policyVars>>
    PROVE  IInv'
<1>1. TypeOK' /\ LoopInv'
  BY SameListsInv DEF IInv, TypeOK, policyVars
<1>2. PushInv' /\ ReadyFitsBatch'
  BY DEF IInv, BarrierInv, PushInv, ReadyFitsBatch, policyVars
<1>3. ~PartialRollout => Fresh' /\ StalenessBound' /\ RoundInv'
  BY DEF IInv, BarrierInv, Fresh, StalenessBound, RoundInv, policyVars
<1>q. QED
  BY <1>1, <1>2, <1>3 DEF IInv, BarrierInv

LEMMA SlimeQuota ==
    ASSUME IInv, NEW n \in 0..AdmitQuota
    PROVE  /\ AdmitQuota \in Nat
           /\ n \in Nat
           /\ n > 0 => remaining < BatchSize /\ n <= SampleRoom
<1>1. remaining \in Nat /\ Cardinality(inflight) \in Int
  BY FS_CardinalityType DEF IInv, TypeOK, LoopInv
<1>2. SampleRoom \in Int /\ MaxInflight \in Nat \cup {None}
  BY SlimeAssumption
<1>3. /\ Room(SampleRoom, MaxInflight, Cardinality(inflight)) \in Nat
      /\ Room(SampleRoom, MaxInflight, Cardinality(inflight)) > 0 =>
            Room(SampleRoom, MaxInflight, Cardinality(inflight)) <= SampleRoom
  BY <1>1, <1>2, RoomIsNat
<1>q. QED
  BY <1>1, <1>2, <1>3, SlimeAssumption DEF AdmitQuota

LEMMA SlimeAdmitStep ==
    ASSUME IInv, NEW n \in 0..AdmitQuota, SlimeAdmit(n)
    PROVE  /\ IInv'
           /\ Cardinality(inflight') = Cardinality(inflight) + n
<1>t. LoopTypeOK /\ LoopInv /\ BarrierInv /\ TypeOK
  BY DEF IInv, TypeOK
<1>1. AdmitQuota \in Nat /\ n \in Nat /\ (n > 0 => remaining < BatchSize /\ n <= SampleRoom)
  BY SlimeQuota
<1>2. /\ Admit(AdmitQuota, n)
      /\ remaining' = remaining + n
      /\ UNCHANGED <<armedPush, stepsSincePush>>
  BY DEF SlimeAdmit
<1>3. /\ LoopTypeOK' /\ LoopInv'
      /\ Cardinality(inflight') = Cardinality(inflight) + n
      /\ Cardinality(inflight) \in Nat
  BY <1>t, <1>1, <1>2, AdmitType, AdmitInv
<1>4. /\ UNCHANGED <<version, engineVersion, ready, consumed>>
      /\ inflight' = inflight \cup NewRequests(n)
      /\ pc' # "begin"
      /\ pc' = "take" => version < NVersions
  BY <1>2 DEF Admit, AfterTop, AfterRetry, AfterBegin, AfterEvent
<1>5. Cardinality(ready) \in Nat /\ remaining \in Nat
  BY <1>t, FS_CardinalityType DEF LoopInv, TypeOK
<1>6. PushInv' /\ ReadyFitsBatch'
  BY <1>t, <1>2, <1>4 DEF BarrierInv, PushInv, ReadyFitsBatch
<1>7. ASSUME ~PartialRollout
      PROVE  Fresh' /\ StalenessBound' /\ RoundInv'
  <2>1. \A r \in NewRequests(n) : r.v = engineVersion
    BY DEF NewRequests
  <2>2. Fresh' /\ StalenessBound'
    BY <1>t, <1>4, <1>7, <2>1 DEF BarrierInv, Fresh, StalenessBound
  <2>3. RoundInv'
    BY <1>t, <1>1, <1>2, <1>3, <1>4, <1>5, <1>7, SlimeAssumption DEF BarrierInv, RoundInv
  <2>q. QED
    BY <2>2, <2>3
<1>8. TypeOK'
  BY <1>1, <1>2, <1>3, <1>5, <1>t DEF TypeOK
<1>q. QED
  BY <1>3, <1>4, <1>6, <1>7, <1>8 DEF IInv, BarrierInv

(* A training step takes the whole ready list and, at the barrier, what is *)
(* in flight; no request of the old weights is left.                       *)
LEMMA SlimeTrainStep ==
    ASSUME IInv, NEW batch \in PeekBatch, SlimeTrain(batch)
    PROVE  /\ IInv'
           /\ batch = ready
           /\ ready' = {}
           /\ ~PartialRollout => inflight' = {}
<1>t. LoopTypeOK /\ LoopInv /\ BarrierInv /\ TypeOK
  BY DEF IInv, TypeOK
<1>1. batch \in SUBSET ready /\ Cardinality(batch) = BatchSize
  BY DEF PeekBatch
<1>2. TakeBatch(batch, PushedVersion, Expired, TRUE) /\ remaining' = 0 /\ ArmPush
  BY DEF SlimeTrain
<1>3. batch = ready
  <2>1. IsFiniteSet(ready) /\ Cardinality(ready) <= BatchSize /\ BatchSize \in Nat
    BY <1>t, SlimeAssumption DEF LoopInv, BarrierInv, ReadyFitsBatch
  <2>2. /\ IsFiniteSet(batch)
        /\ Cardinality(batch) <= Cardinality(ready)
        /\ Cardinality(ready) = Cardinality(batch) => ready = batch
    BY <1>1, <2>1, FS_Subset
  <2>3. Cardinality(ready) \in Nat
    BY <2>1, FS_CardinalityType
  <2>q. QED
    BY <1>1, <2>1, <2>2, <2>3
<1>4. /\ pc = "take" /\ pc' = "begin"
      /\ version' = version + 1
      /\ engineVersion' = PushedVersion
      /\ consumed' = consumed \cup Stamped(batch)
      /\ inflight' = inflight \ Expired
      /\ ready' = {}
  BY <1>2, <1>3 DEF TakeBatch, ReadyAfter
<1>5. /\ version \in Nat /\ engineVersion \in 0..version
      /\ armedPush \in Nat \cup {None} /\ stepsSincePush \in 0..(Interval - 1)
      /\ Interval \in Nat \ {0}
  BY <1>t, SlimeAssumption DEF TypeOK, LoopTypeOK
<1>6. PushedVersion \in 0..(version + 1)
  BY <1>t, <1>5 DEF PushedVersion, BarrierInv, PushInv
<1>7. LoopTypeOK' /\ LoopInv'
  <2>1. Expired \in SUBSET inflight /\ Expired \in SUBSET Request
    BY <1>t DEF Expired, LoopTypeOK
  <2>2. Expired \in SUBSET (inflight \cup (ready \ batch)) /\ TRUE \in BOOLEAN
    BY <2>1
  <2>3. Cardinality(batch) \in Nat
    BY <1>1, SlimeAssumption
  <2>4. LoopTypeOK'
    BY <1>t, <1>1, <1>2, <1>6, <2>1, <2>2, <2>3, TakeBatchType
  <2>5. LoopInv'
    BY <1>t, <1>1, <1>2, <2>2, TakeBatchInv
  <2>q. QED
    BY <2>4, <2>5
<1>8. TypeOK'
  BY <1>2, <1>5, <1>7 DEF TypeOK, ArmPush
<1>9. PushInv'
  <2>1. armedPush' = None \/ armedPush' = version + 1
    BY <1>2 DEF ArmPush
  <2>2. version + 1 # None
    BY <1>5, LoopAssumption
  <2>3. CASE armedPush = None
    <3>1. engineVersion' = engineVersion /\ version - engineVersion = stepsSincePush
      BY <1>t, <1>4, <2>3 DEF PushedVersion, BarrierInv, PushInv
    <3>q. QED
      BY <1>2, <1>4, <1>5, <2>2, <3>1 DEF ArmPush, PushInv
  <2>4. CASE armedPush # None
    <3>1. engineVersion' = version /\ stepsSincePush = 0
      BY <1>t, <1>4, <2>4 DEF PushedVersion, BarrierInv, PushInv
    <3>q. QED
      BY <1>2, <1>4, <1>5, <2>2, <3>1 DEF ArmPush, PushInv
  <2>q. QED
    BY <2>3, <2>4
<1>10. ReadyFitsBatch'
  BY <1>4, FS_EmptySet, SlimeAssumption DEF ReadyFitsBatch
<1>11. ASSUME ~PartialRollout
       PROVE  inflight' = {} /\ Fresh' /\ StalenessBound' /\ RoundInv'
  <2>1. inflight' = {}
    BY <1>4, <1>11 DEF Expired
  <2>2. Fresh'
    BY <1>4, <2>1 DEF Fresh
  <2>3. StalenessBound'
    <3>1. version - engineVersion <= Interval
      BY <1>t, <1>5 DEF BarrierInv, PushInv
    <3>2. \A c \in Stamped(batch) : c.at - c.req.v <= Interval
      BY <1>t, <1>1, <1>11, <3>1 DEF Stamped, BarrierInv, Fresh
    <3>q. QED
      BY <1>t, <1>4, <1>11, <3>2 DEF BarrierInv, StalenessBound
  <2>4. RoundInv'
    BY <1>2, <1>4, <2>1, FS_EmptySet, SlimeAssumption DEF RoundInv
  <2>q. QED
    BY <2>1, <2>2, <2>3, <2>4
<1>q. QED
  BY <1>3, <1>4, <1>7, <1>8, <1>9, <1>10, <1>11 DEF IInv, BarrierInv

LEMMA SlimeCompleteStep ==
    ASSUME IInv, NEW r \in inflight, SlimeComplete(r)
    PROVE  /\ IInv'
           /\ Cardinality(inflight) \in Nat \ {0}
           /\ Cardinality(inflight') = Cardinality(inflight) - 1
           /\ Cardinality(ready) \in Nat
           /\ Cardinality(ready') \in {Cardinality(ready), Cardinality(ready) + 1}
<1>t. LoopTypeOK /\ LoopInv /\ BarrierInv /\ TypeOK
  BY DEF IInv, TypeOK
<1>1. Complete(r, BatchHasRoom) /\ UNCHANGED policyVars /\ BatchHasRoom \in BOOLEAN
  BY DEF SlimeComplete, BatchHasRoom
<1>2. /\ LoopTypeOK' /\ LoopInv'
      /\ Cardinality(inflight) \in Nat \ {0}
      /\ Cardinality(inflight') = Cardinality(inflight) - 1
      /\ Cardinality(ready) \in Nat
      /\ Cardinality(ready') = Cardinality(ready) + (IF BatchHasRoom THEN 1 ELSE 0)
  BY <1>t, <1>1, CompleteType, CompleteInv
<1>3. /\ UNCHANGED <<version, engineVersion, consumed>>
      /\ inflight' \cup ready' \subseteq inflight \cup ready
      /\ pc' = "event"
  BY <1>1 DEF Complete
<1>4. PushInv' /\ ReadyFitsBatch'
  BY <1>t, <1>1, <1>2, <1>3, SlimeAssumption
     DEF BarrierInv, PushInv, ReadyFitsBatch, BatchHasRoom, policyVars
<1>5. ~PartialRollout => Fresh' /\ StalenessBound' /\ RoundInv'
  <2>1. ~PartialRollout => Fresh' /\ StalenessBound'
    BY <1>t, <1>3 DEF BarrierInv, Fresh, StalenessBound
  <2>2. ~PartialRollout => RoundInv'
    BY <1>t, <1>1, <1>2, SlimeAssumption DEF BarrierInv, RoundInv, policyVars, TypeOK
  <2>q. QED
    BY <2>1, <2>2
<1>q. QED
  BY <1>1, <1>2, <1>3, <1>4, <1>5, <1>t DEF IInv, BarrierInv, TypeOK, policyVars

LEMMA SlimeStep == IInv /\ [Next]_vars => IInv'
<1> SUFFICES ASSUME IInv, [Next]_vars
             PROVE  IInv'
  OBVIOUS
<1>t. LoopTypeOK
  BY DEF IInv, TypeOK
<1>1. ASSUME NEW n \in 0..AdmitQuota, SlimeAdmit(n)
      PROVE  IInv'
  BY <1>1, SlimeAdmitStep
<1>2. CASE SlimeNoBatch
  <2>1. LoopTypeOK'
    BY <1>t, <1>2, NoBatchType DEF SlimeNoBatch
  <2>q. QED
    BY <1>2, <2>1, SlimeIdle DEF SlimeNoBatch, NoBatch
<1>3. ASSUME NEW batch \in PeekBatch, SlimeTrain(batch)
      PROVE  IInv'
  BY <1>3, SlimeTrainStep
<1>4. ASSUME NEW r \in inflight, SlimeComplete(r)
      PROVE  IInv'
  BY <1>4, SlimeCompleteStep
<1>5. CASE SlimeEngineReturns
  <2>1. LoopTypeOK'
    BY <1>t, <1>5, EngineReturnsType DEF SlimeEngineReturns
  <2>q. QED
    BY <1>5, <2>1, SlimeIdle
       DEF SlimeEngineReturns, EngineReturns, StopOnBatch, GenerateExhausted, Deadline
<1>6. CASE UNCHANGED vars
  <2>1. LoopTypeOK' /\ LoopInv'
    BY <1>t, <1>6, HaltType, SameListsInv DEF vars, loopVars, IInv
  <2>q. QED
    BY <1>6, <2>1 DEF vars, loopVars, policyVars, IInv, TypeOK, BarrierInv, PushInv,
       ReadyFitsBatch, Fresh, StalenessBound, RoundInv
<1>q. QED
  BY <1>1, <1>2, <1>3, <1>4, <1>5, <1>6 DEF Next, Halt, vars

-----------------------------------------------------------------------------
(* slime's contract, at every step and not only where check_invariants     *)
(* looks: the engines lag by at most update_weights_interval versions, with *)
(* partial rollouts or without.                                            *)
THEOREM SlimeVersionGap == Spec => []VersionGap
<1>1. IInv => VersionGap
  BY SlimeAssumption DEF IInv, TypeOK, LoopTypeOK, BarrierInv, PushInv, VersionGap
<1>q. QED
  BY <1>1, SlimeInit, SlimeStep, PTL DEF Spec

(* Without partial rollouts the barrier holds: nothing trained on is older *)
(* than the interval, and the ready list never exceeds one batch.          *)
THEOREM SlimeBarrier == ASSUME ~PartialRollout PROVE Spec => []BarrierHolds
<1>1. IInv => BarrierHolds
  BY SlimeAssumption
     DEF IInv, TypeOK, LoopTypeOK, BarrierInv, PushInv, VersionGap, BarrierHolds
<1>q. QED
  BY <1>1, SlimeInit, SlimeStep, PTL DEF Spec

-----------------------------------------------------------------------------
(* The refinement of the admission window.  An admission starts a part of  *)
(* a round of at most SampleRoom while less than a batch was admitted, a   *)
(* surplus completion gives one rollout up, and a training step ends the   *)
(* whole round.                                                            *)

LEMMA SlimeWindowStep ==
    ASSUME ~PartialRollout
    PROVE  IInv /\ [Next]_vars =>
             [Window!Next]_<<Cardinality(inflight) + Cardinality(ready), version>>
<1> DEFINE W == SampleRoom + BatchSize - 1
           out == Cardinality(inflight) + Cardinality(ready)
<1> SUFFICES ASSUME IInv, [Next]_vars
             PROVE  [Window!Next]_<<out, version>>
  OBVIOUS
<1>t. /\ LoopTypeOK /\ LoopInv /\ BarrierInv /\ TypeOK
      /\ version \in Nat /\ remaining \in Nat
      /\ Cardinality(inflight) \in Nat /\ Cardinality(ready) \in Nat
  BY FS_CardinalityType DEF IInv, TypeOK, LoopTypeOK, LoopInv
<1>w. /\ W \in Nat /\ SampleRoom \in Nat /\ BatchSize \in Nat \ {0}
      /\ out <= remaining /\ remaining <= W
  BY <1>t, SlimeAssumption DEF BarrierInv, RoundInv
<1> HIDE DEF W
<1>1. ASSUME NEW n \in 0..AdmitQuota, SlimeAdmit(n)
      PROVE  [Window!Next]_<<out, version>>
  <2>1. AdmitQuota \in Nat /\ n \in Nat /\ (n > 0 => remaining < BatchSize /\ n <= SampleRoom)
    BY SlimeQuota
  <2>2. Cardinality(inflight') = Cardinality(inflight) + n
    BY <1>1, SlimeAdmitStep
  <2>3. UNCHANGED <<version, ready>>
    BY <1>1 DEF SlimeAdmit, Admit
  <2>4. out' = out + n
    BY <1>t, <2>1, <2>2, <2>3
  <2>5. CASE n = 0
    BY <1>t, <2>3, <2>4, <2>5
  <2>6. CASE n > 0
    <3>1. n \in 1..W /\ out + n <= W
      BY <1>t, <1>w, <2>1, <2>6 DEF W
    <3>2. Window!Start(n)
      BY <2>3, <2>4, <3>1 DEF Window!Start, W
    <3>q. QED
      BY <3>1, <3>2 DEF Window!Next, W
  <2>q. QED
    BY <2>1, <2>5, <2>6
<1>2. ASSUME NEW batch \in PeekBatch, SlimeTrain(batch)
      PROVE  [Window!Next]_<<out, version>>
  <2>1. batch = ready /\ ready' = {} /\ inflight' = {}
    BY <1>2, SlimeTrainStep
  <2>2. Cardinality(ready) = BatchSize
    BY <2>1 DEF PeekBatch
  <2>3. pc = "take" /\ version' = version + 1
    BY <1>2 DEF SlimeTrain, TakeBatch
  <2>4. out' = 0
    BY <2>1, FS_EmptySet
  <2>5. out \in 1..W
    BY <1>t, <1>w, <2>2
  <2>6. Window!Train(out)
    BY <1>t, <2>3, <2>4 DEF Window!Train, BarrierInv
  <2>q. QED
    BY <2>5, <2>6 DEF Window!Next, W
<1>3. ASSUME NEW r \in inflight, SlimeComplete(r)
      PROVE  [Window!Next]_<<out, version>>
  <2>1. /\ Cardinality(inflight) \in Nat \ {0}
        /\ Cardinality(inflight') = Cardinality(inflight) - 1
        /\ Cardinality(ready') \in {Cardinality(ready), Cardinality(ready) + 1}
    BY <1>3, SlimeCompleteStep
  <2>2. version' = version
    BY <1>3 DEF SlimeComplete, Complete
  <2>3. CASE Cardinality(ready') = Cardinality(ready) + 1
    BY <1>t, <2>1, <2>2, <2>3
  <2>4. CASE Cardinality(ready') = Cardinality(ready)
    <3>1. 1 \in 1..W /\ 1 <= out /\ out' = out - 1
      BY <1>t, <1>w, <2>1, <2>4
    <3>2. Window!GiveUp(1)
      BY <2>2, <3>1 DEF Window!GiveUp
    <3>q. QED
      BY <3>1, <3>2 DEF Window!Next, W
  <2>q. QED
    BY <2>1, <2>3, <2>4
<1>4. CASE UNCHANGED <<inflight, ready, version>>
  BY <1>4
<1>q. QED
  BY <1>1, <1>2, <1>3, <1>4
     DEF Next, vars, loopVars, SlimeNoBatch, NoBatch, Halt, SlimeEngineReturns,
         EngineReturns, StopOnBatch, GenerateExhausted, Deadline

(* slime's policy, driven by the loop, implements an admission window one  *)
(* request short of a round and a batch.                                   *)
THEOREM SlimeImplementsWindow == ASSUME ~PartialRollout PROVE Spec => ImplementsWindow
<1>1. Init => Window!Init
  BY FS_EmptySet DEF Init, LoopInit, Window!Init
<1>2. ImplementsWindow <=>
        Window!Init /\
        [][Window!Next]_<<Cardinality(inflight) + Cardinality(ready), version>>
  BY DEF ImplementsWindow, Window!Spec
<1>3. IInv /\ [Next]_vars =>
        [Window!Next]_<<Cardinality(inflight) + Cardinality(ready), version>>
  BY SlimeWindowStep
<1>q. QED
  BY <1>1, <1>2, <1>3, SlimeInit, SlimeStep, PTL DEF Spec

-----------------------------------------------------------------------------
(* The loop's own accounts, under this policy.                             *)

LEMMA SlimeBatchStep == IInv /\ BatchInv /\ [Next]_vars => BatchInv'
<1> SUFFICES ASSUME IInv, BatchInv, [Next]_vars
             PROVE  BatchInv'
  OBVIOUS
<1>t. LoopTypeOK /\ LoopInv /\ TypeOK
  BY DEF IInv, TypeOK
<1>1. ASSUME NEW n \in 0..AdmitQuota, SlimeAdmit(n)
      PROVE  BatchInv'
  <2>1. AdmitQuota \in Nat /\ n \in Nat
    BY SlimeQuota
  <2>2. Admit(AdmitQuota, n)
    BY <1>1 DEF SlimeAdmit
  <2>q. QED
    BY <1>t, <2>1, <2>2, AdmitBatches
<1>2. CASE SlimeNoBatch
  BY <1>2, SameListsBatches DEF SlimeNoBatch, NoBatch
<1>3. ASSUME NEW batch \in PeekBatch, SlimeTrain(batch)
      PROVE  BatchInv'
  <2>1. batch \in SUBSET ready /\ batch # {}
    BY FS_EmptySet, SlimeAssumption DEF PeekBatch
  <2>2. TakeBatch(batch, PushedVersion, Expired, TRUE)
    BY <1>3 DEF SlimeTrain
  <2>3. PushedVersion \in engineVersion..(version + 1)
    BY <1>t DEF IInv, BarrierInv, PushInv, PushedVersion, TypeOK, LoopTypeOK
  <2>4. Expired \in SUBSET (inflight \cup (ready \ batch))
    BY DEF Expired
  <2>q. QED
    BY <1>t, <2>1, <2>2, <2>3, <2>4, TakeBatchBatches
<1>4. ASSUME NEW r \in inflight, SlimeComplete(r)
      PROVE  BatchInv'
  <2>1. Complete(r, BatchHasRoom) /\ BatchHasRoom \in BOOLEAN
    BY <1>4 DEF SlimeComplete, BatchHasRoom
  <2>q. QED
    BY <2>1, CompleteBatches
<1>5. CASE SlimeEngineReturns
  BY <1>5, SameListsBatches
     DEF SlimeEngineReturns, EngineReturns, StopOnBatch, GenerateExhausted, Deadline
<1>6. CASE UNCHANGED vars
  BY <1>6, SameListsBatches DEF vars, loopVars
<1>q. QED
  BY <1>1, <1>2, <1>3, <1>4, <1>5, <1>6 DEF Next, Halt, vars

(* Driven by slime's policy, the loop keeps every request in one list, trains*)
(* on a batch of its own under every version, and never on a request that  *)
(* is newer than its consumer, however long the run is.                    *)
THEOREM SlimeAccounts == Spec => [](OneFate /\ AllAccounted /\ BatchesAccounted)
<1>1. IInv /\ BatchInv => OneFate /\ AllAccounted /\ BatchesAccounted
  BY DEF IInv, LoopInv, BatchInv
<1>2. Init => BatchInv
  BY BatchInit DEF Init
<1>q. QED
  BY <1>1, <1>2, SlimeInit, SlimeStep, SlimeBatchStep, PTL DEF Spec

=============================================================================
