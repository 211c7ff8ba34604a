-------------------------- MODULE ArealLoop_proofs --------------------------
(***************************************************************************)
(* The token bucket of AReaL holds for every batch size, staleness limit,  *)
(* in-flight cap and number of versions.  The bucket alone is not          *)
(* inductive: one needs that the policy's counters are the sizes of the    *)
(* loop's lists, and that a batch holds exactly BatchSize requests, so     *)
(* that each training step pays for the batch the bucket grows by.         *)
(***************************************************************************)
EXTENDS ArealLoop, RLLoop_proofs

Capacity(v) == (MaxStaleness + v + 1) * BatchSize

BucketInv ==
    /\ CountersAgree
    /\ nextRid = accepted + running
    /\ nConsumed = version * BatchSize
    /\ nextRid <= Capacity(version)
    /\ pc = "take" => version < NVersions

IInv == TypeOK /\ LoopInv /\ BucketInv

LEMMA CapacityType == \A v \in Nat : Capacity(v) \in Nat
  BY ArealAssumption DEF Capacity

LEMMA CapacityGrows ==
    ASSUME NEW v \in Nat
    PROVE  /\ Capacity(v + 1) = Capacity(v) + BatchSize
           /\ (v + 1) * BatchSize = v * BatchSize + BatchSize
           /\ Capacity(v) - v * BatchSize = (MaxStaleness + 1) * BatchSize
<1>1. (v + 1) * BatchSize = v * BatchSize + BatchSize
  BY ArealAssumption
<1>2. (MaxStaleness + v + 1 + 1) * BatchSize = (MaxStaleness + v + 1) * BatchSize + BatchSize
  BY ArealAssumption
<1>3. (MaxStaleness + v + 1) * BatchSize = (MaxStaleness + 1) * BatchSize + v * BatchSize
  BY ArealAssumption
<1>q. QED
  BY <1>1, <1>2, <1>3, ArealAssumption DEF Capacity

LEMMA QuotaFits ==
    ASSUME IInv
    PROVE  /\ AdmitQuota \in Nat
           /\ AdmitQuota > 0 => nextRid + AdmitQuota <= Capacity(version)
<1> DEFINE budget == Capacity(version) - (accepted + running)
<1>1. version \in Nat /\ accepted \in Nat /\ running \in Nat /\ nextRid = accepted + running
  BY DEF IInv, TypeOK, LoopTypeOK, BucketInv
<1>2. budget \in Int /\ MaxInflight \in Nat \cup {None} /\ Capacity(version) \in Nat
  BY <1>1, CapacityType, ArealAssumption
<1>3. AdmitQuota = Room(budget, MaxInflight, running)
  BY DEF AdmitQuota, Capacity
<1> HIDE DEF budget
<1>4. /\ Room(budget, MaxInflight, running) \in Nat
      /\ Room(budget, MaxInflight, running) > 0 => Room(budget, MaxInflight, running) <= budget
  <2>1. budget \in Int /\ MaxInflight \in Nat \cup {None} /\ running \in Int
    BY <1>1, <1>2
  <2>q. QED
    BY <2>1, RoomIsNat
<1>q. QED
  BY <1>1, <1>2, <1>3, <1>4 DEF budget

LEMMA ArealInit == Init => IInv
<1> SUFFICES ASSUME Init PROVE IInv
  OBVIOUS
<1>1. LoopTypeOK /\ LoopInv
  BY LoopInitType, LoopInitInv DEF Init
<1>2. CountersAgree
  BY FS_EmptySet DEF Init, LoopInit, CountersAgree
<1>3. 0 * BatchSize = 0 /\ Capacity(0) \in Nat
  BY CapacityType, ArealAssumption
<1>q. QED
  BY <1>1, <1>2, <1>3 DEF IInv, TypeOK, BucketInv, Init, LoopInit

LEMMA ArealStep == IInv /\ [Next]_vars => IInv'
<1> SUFFICES ASSUME IInv, [Next]_vars
             PROVE  IInv'
  OBVIOUS
<1>t. /\ LoopTypeOK /\ LoopInv /\ BucketInv
      /\ version \in Nat /\ nextRid \in Nat /\ nConsumed \in Nat
      /\ accepted \in Nat /\ running \in Nat
  BY DEF IInv, TypeOK, LoopTypeOK
<1>1. ASSUME NEW n \in 0..AdmitQuota, ArealGoesOn(n)
      PROVE  IInv'
  <2>1. AdmitQuota \in Nat /\ n \in Nat /\ (n > 0 => nextRid + n <= Capacity(version))
    BY QuotaFits, CapacityType, <1>t
  <2>2. Admit(AdmitQuota, n) /\ running' = running + n /\ accepted' = accepted
    BY <1>1 DEF ArealGoesOn, ArealAdmit
  <2>3. LoopTypeOK' /\ LoopInv' /\ Cardinality(inflight') = Cardinality(inflight) + n
    BY <1>t, <2>1, <2>2, AdmitType, AdmitInv
  <2>4. /\ nextRid' = nextRid + n
        /\ UNCHANGED <<version, nConsumed, ready>>
        /\ pc' = "take" => version < NVersions
    BY <2>2 DEF Admit, AfterTop, AfterRetry, AfterBegin, AfterEvent
  <2>5. CountersAgree'
    BY <1>t, <2>2, <2>3, <2>4 DEF BucketInv, CountersAgree
  <2>q. QED
    BY <1>t, <2>1, <2>2, <2>3, <2>4, <2>5 DEF IInv, TypeOK, BucketInv, Capacity
<1>2. CASE ArealNoBatch
  <2>1. LoopTypeOK' /\ LoopInv'
    BY <1>t, <1>2, NoBatchType, SameListsInv DEF ArealNoBatch, NoBatch
  <2>q. QED
    BY <1>2, <1>t, <2>1
       DEF IInv, TypeOK, BucketInv, CountersAgree, Capacity, ArealNoBatch, NoBatch
<1>3. ASSUME NEW batch \in PeekBatch, ArealTrain(batch)
      PROVE  IInv'
  <2>1. batch \in SUBSET ready /\ Cardinality(batch) = BatchSize
    BY DEF PeekBatch
  <2>2. TakeBatch(batch, version + 1, {}, TRUE) /\ UNCHANGED <<accepted, running>>
    BY <1>3 DEF ArealTrain
  <2>3. /\ LoopInv'
        /\ Cardinality(ready) \in Nat
        /\ inflight' = inflight
        /\ Cardinality(ready') = Cardinality(ready) - BatchSize
    BY <1>t, <2>1, <2>2, TakeBatchInv
  <2>4. LoopTypeOK'
    <3>1. version + 1 \in 0..(version + 1) /\ {} \in SUBSET Request /\ TRUE \in BOOLEAN
      BY <1>t
    <3>2. Cardinality(batch) \in Nat
      BY <2>1, ArealAssumption
    <3>q. QED
      BY <1>t, <2>1, <2>2, <3>1, <3>2, TakeBatchType
  <2>5. /\ pc' = "begin"
        /\ version' = version + 1
        /\ nConsumed' = nConsumed + BatchSize
        /\ nextRid' = nextRid
    BY <2>1, <2>2 DEF TakeBatch
  <2>6. CountersAgree'
    BY <1>t, <2>2, <2>3, <2>5, ArealAssumption DEF BucketInv, CountersAgree
  <2>7. nConsumed' = version' * BatchSize /\ nextRid' <= Capacity(version')
    BY <1>t, <2>5, CapacityGrows, CapacityType, ArealAssumption DEF BucketInv
  <2>q. QED
    BY <1>t, <2>2, <2>3, <2>4, <2>5, <2>6, <2>7 DEF IInv, TypeOK, BucketInv
<1>4. ASSUME NEW r \in inflight, ArealComplete(r)
      PROVE  IInv'
  <2>1. Complete(r, TRUE) /\ running' = running - 1 /\ accepted' = accepted + 1
    BY <1>4 DEF ArealComplete
  <2>2. /\ LoopTypeOK' /\ LoopInv'
        /\ Cardinality(inflight) \in Nat \ {0}
        /\ Cardinality(inflight') = Cardinality(inflight) - 1
        /\ Cardinality(ready) \in Nat
        /\ Cardinality(ready') = Cardinality(ready) + 1
    BY <1>t, <2>1, CompleteType, CompleteInv
  <2>3. UNCHANGED <<version, nConsumed, nextRid>> /\ pc' = "event"
    BY <2>1 DEF Complete
  <2>4. running' \in Nat /\ CountersAgree'
    BY <1>t, <2>1, <2>2, <2>3 DEF BucketInv, CountersAgree
  <2>q. QED
    BY <1>t, <2>1, <2>2, <2>3, <2>4 DEF IInv, TypeOK, BucketInv, Capacity
<1>5. CASE ArealEngineReturns
  <2>1. EngineReturns(PeekBatch # {}, Contract) /\ UNCHANGED <<accepted, running>>
    BY <1>5 DEF ArealEngineReturns
  <2>2. /\ UNCHANGED <<version, nextRid, inflight, ready, consumed, dropped, nConsumed>>
        /\ pc' # "take"
    BY <2>1 DEF EngineReturns, StopOnBatch, GenerateExhausted, Deadline
  <2>3. LoopTypeOK' /\ LoopInv'
    BY <1>t, <2>1, <2>2, EngineReturnsType, SameListsInv
  <2>q. QED
    BY <1>t, <2>1, <2>2, <2>3 DEF IInv, TypeOK, BucketInv, CountersAgree, Capacity
<1>6. CASE UNCHANGED vars
  <2>1. LoopTypeOK' /\ LoopInv'
    BY <1>t, <1>6, HaltType, SameListsInv DEF vars, loopVars
  <2>q. QED
    BY <1>t, <1>6, <2>1 DEF IInv, TypeOK, BucketInv, CountersAgree, Capacity, vars, loopVars
<1>q. QED
  BY <1>1, <1>2, <1>3, <1>4, <1>5, <1>6 DEF Next, Halt, vars

-----------------------------------------------------------------------------
(* The variables of the loop and of the policy keep their types; running   *)
(* never goes negative.                                                    *)
THEOREM ArealTypeCorrect == Spec => []TypeOK
<1>1. IInv => TypeOK
  BY DEF IInv
<1>q. QED
  BY <1>1, ArealInit, ArealStep, PTL DEF Spec

(* Admitted and unconsumed requests never exceed max_staleness + 1         *)
(* batches, at any step of any run.                                        *)
THEOREM ArealTokenBucket == Spec => []TokenBucket
<1>1. IInv => TokenBucket
  BY CapacityGrows, CapacityType, ArealAssumption
     DEF IInv, TypeOK, LoopTypeOK, BucketInv, TokenBucket
<1>q. QED
  BY <1>1, ArealInit, ArealStep, PTL DEF Spec

(* The policy's counters are the sizes of the loop's lists.                *)
THEOREM ArealCountersAgree == Spec => []CountersAgree
<1>1. IInv => CountersAgree
  BY DEF IInv, BucketInv
<1>q. QED
  BY <1>1, ArealInit, ArealStep, PTL DEF Spec

-----------------------------------------------------------------------------
(* Every step of the policy is a step of the admission window or leaves it *)
(* alone: an admission fits the window, a training step has its whole      *)
(* batch among the outstanding requests, a completion moves a request from *)
(* one counter to the other.                                               *)

LEMMA ArealWindowStep ==
    IInv /\ [Next]_vars => [Bucket!Next]_<<nextRid - nConsumed, version>>
<1> DEFINE W == (MaxStaleness + 1) * BatchSize
           out == nextRid - nConsumed
<1> SUFFICES ASSUME IInv, [Next]_vars
             PROVE  [Bucket!Next]_<<out, version>>
  OBVIOUS
<1>t. /\ LoopTypeOK /\ LoopInv /\ BucketInv
      /\ version \in Nat /\ nextRid \in Nat /\ nConsumed \in Nat
      /\ W \in Nat
      /\ Capacity(version) - nConsumed = W
  BY CapacityGrows, ArealAssumption DEF IInv, TypeOK, LoopTypeOK, BucketInv
<1>c. out = Cardinality(inflight) + Cardinality(ready) /\ out \in Nat
  <2>1. Cardinality(inflight) \in Nat /\ Cardinality(ready) \in Nat
    BY <1>t, FS_CardinalityType DEF LoopInv
  <2>q. QED
    BY <1>t, <2>1 DEF BucketInv, CountersAgree
<1>i. IInv'
  BY ArealStep
<1> HIDE DEF W
<1>1. ASSUME NEW n \in 0..AdmitQuota, ArealGoesOn(n)
      PROVE  [Bucket!Next]_<<out, version>>
  <2>1. AdmitQuota \in Nat /\ n \in Nat /\ (n > 0 => nextRid + n <= Capacity(version))
    BY QuotaFits, CapacityType, <1>t
  <2>2. nextRid' = nextRid + n /\ UNCHANGED <<version, nConsumed>>
    BY <1>1 DEF ArealGoesOn, ArealAdmit, Admit
  <2>3. CASE n = 0
    BY <1>t, <2>2, <2>3
  <2>4. CASE n > 0
    <3>1. out + n <= W
      BY <1>t, <2>1, <2>4, CapacityType
    <3>2. n \in 1..W
      BY <1>t, <1>c, <2>1, <2>4, <3>1
    <3>3. Bucket!Start(n)
      BY <1>t, <2>1, <2>2, <3>1 DEF Bucket!Start, W
    <3>q. QED
      BY <3>2, <3>3 DEF Bucket!Next, W
  <2>q. QED
    BY <2>1, <2>3, <2>4
<1>2. ASSUME NEW batch \in PeekBatch, ArealTrain(batch)
      PROVE  [Bucket!Next]_<<out, version>>
  <2>1. batch \in SUBSET ready /\ Cardinality(batch) = BatchSize
    BY DEF PeekBatch
  <2>2. TakeBatch(batch, version + 1, {}, TRUE)
    BY <1>2 DEF ArealTrain
  <2>3. /\ pc = "take"
        /\ version' = version + 1
        /\ nConsumed' = nConsumed + BatchSize
        /\ nextRid' = nextRid
    BY <2>1, <2>2 DEF TakeBatch
  <2>4. BatchSize <= Cardinality(ready)
    BY <1>t, <2>1, FS_Subset DEF LoopInv
  <2>5. out <= W
    BY <1>t, CapacityType DEF BucketInv
  <2>6. BatchSize <= out /\ BatchSize \in 1..W
    BY <1>t, <1>c, <2>4, <2>5, FS_CardinalityType, ArealAssumption DEF LoopInv
  <2>7. Bucket!Train(BatchSize)
    BY <1>t, <2>3, <2>6, ArealAssumption DEF Bucket!Train, BucketInv
  <2>q. QED
    BY <2>6, <2>7 DEF Bucket!Next, W
<1>3. CASE UNCHANGED <<nextRid, nConsumed, version>>
  BY <1>3
<1>q. QED
  BY <1>1, <1>2, <1>3
     DEF Next, vars, loopVars, ArealNoBatch, NoBatch, ArealComplete, Complete, Halt,
         ArealEngineReturns, EngineReturns, StopOnBatch, GenerateExhausted, Deadline

(* AReaL's policy, driven by the loop, implements an admission window of   *)
(* max_staleness + 1 batches.                                              *)
THEOREM ArealImplementsWindow == Spec => ImplementsWindow
<1>1. Init => Bucket!Init
  BY DEF Init, LoopInit, Bucket!Init
<1>2. ImplementsWindow <=> Bucket!Init /\ [][Bucket!Next]_<<nextRid - nConsumed, version>>
  BY DEF ImplementsWindow, Bucket!Spec
<1>q. QED
  BY <1>1, <1>2, ArealInit, ArealStep, ArealWindowStep, PTL DEF Spec

-----------------------------------------------------------------------------
(* The loop's own accounts, under this policy.                             *)

LEMMA ArealBatchStep == IInv /\ BatchInv /\ [Next]_vars => BatchInv'
<1> SUFFICES ASSUME IInv, BatchInv, [Next]_vars
             PROVE  BatchInv'
  OBVIOUS
<1>t. LoopTypeOK /\ LoopInv /\ TypeOK
  BY DEF IInv, TypeOK
<1>1. ASSUME NEW n \in 0..AdmitQuota, ArealGoesOn(n)
      PROVE  BatchInv'
  <2>1. AdmitQuota \in Nat /\ n \in Nat
    BY QuotaFits, CapacityType, <1>t DEF IInv, TypeOK, LoopTypeOK
  <2>2. Admit(AdmitQuota, n)
    BY <1>1 DEF ArealGoesOn, ArealAdmit
  <2>q. QED
    BY <1>t, <2>1, <2>2, AdmitBatches
<1>2. CASE ArealNoBatch
  BY <1>2, SameListsBatches DEF ArealNoBatch, NoBatch
<1>3. ASSUME NEW batch \in PeekBatch, ArealTrain(batch)
      PROVE  BatchInv'
  <2>1. batch \in SUBSET ready /\ batch # {}
    BY FS_EmptySet, ArealAssumption DEF PeekBatch
  <2>2. TakeBatch(batch, version + 1, {}, TRUE)
    BY <1>3 DEF ArealTrain
  <2>3. version + 1 \in engineVersion..(version + 1)
    BY <1>t DEF LoopTypeOK
  <2>4. {} \in SUBSET (inflight \cup (ready \ batch))
    OBVIOUS
  <2>q. QED
    BY <1>t, <2>1, <2>2, <2>3, <2>4, TakeBatchBatches
<1>4. ASSUME NEW r \in inflight, ArealComplete(r)
      PROVE  BatchInv'
  BY <1>4, CompleteBatches DEF ArealComplete
<1>5. CASE ArealEngineReturns
  BY <1>5, SameListsBatches
     DEF ArealEngineReturns, EngineReturns, StopOnBatch, GenerateExhausted, Deadline
<1>6. CASE UNCHANGED vars
  BY <1>6, SameListsBatches DEF vars, loopVars
<1>q. QED
  BY <1>1, <1>2, <1>3, <1>4, <1>5, <1>6 DEF Next, Halt, vars

(* Driven by AReaL's policy, the loop keeps every request in one list, trains*)
(* on a batch of its own under every version, and never on a request that  *)
(* is newer than its consumer, however long the run is.                    *)
THEOREM ArealAccounts == Spec => [](OneFate /\ AllAccounted /\ BatchesAccounted)
<1>1. IInv /\ BatchInv => OneFate /\ AllAccounted /\ BatchesAccounted
  BY DEF IInv, LoopInv, BatchInv
<1>2. Init => BatchInv
  BY BatchInit DEF Init
<1>q. QED
  BY <1>1, <1>2, ArealInit, ArealStep, ArealBatchStep, PTL DEF Spec

=============================================================================
