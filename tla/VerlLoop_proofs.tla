--------------------------- MODULE VerlLoop_proofs ---------------------------
(***************************************************************************)
(* verl's window holds for every batch, sync step, overage and number of   *)
(* versions.  The policy counts samples, not requests; its counter is an   *)
(* upper bound of what is in flight and queued, and stays one because a    *)
(* sync recounts exactly these.  Hence a completion always finds room in   *)
(* the queue, and the queue is the loop's ready list in another order.     *)
(***************************************************************************)
EXTENDS VerlLoop, RLLoop_proofs, SequenceTheorems

Distinct(q) == \A i, j \in 1..Len(q) : q[i] = q[j] => i = j

QueueInv == Distinct(queue) /\ InQueue(queue) = ready /\ Len(queue) = Cardinality(ready)

WindowInv ==
    /\ QueueInv
    /\ WindowCounts
    /\ NothingDropped
    /\ pc = "take" => version < NVersions

IInv == TypeOK /\ LoopInv /\ WindowInv

-----------------------------------------------------------------------------
(* A queue without repetitions, and its two parts.                         *)

LEMMA QueueCardinality ==
    ASSUME NEW S, NEW q \in Seq(S), Distinct(q)
    PROVE  Cardinality(InQueue(q)) = Len(q)
<1> DEFINE f == [i \in 1..Len(q) |-> q[i]]
<1>0. Len(q) \in Nat
  OBVIOUS
<1>1. IsFiniteSet(1..Len(q)) /\ Cardinality(1..Len(q)) = Len(q)
  BY <1>0, FS_Interval
<1>2. f \in Surjection(1..Len(q), InQueue(q))
  <2>1. \A x \in InQueue(q) : \E i \in 1..Len(q) : f[i] = x
    BY DEF InQueue
  <2>2. f \in [1..Len(q) -> InQueue(q)]
    BY DEF InQueue
  <2> HIDE DEF f
  <2>q. QED
    BY <2>1, <2>2 DEF Surjection
<1>3. f \in Injection(1..Len(q), InQueue(q))
  <2>1. f \in [1..Len(q) -> InQueue(q)]
    BY DEF InQueue
  <2>2. ASSUME NEW i \in 1..Len(q), NEW j \in 1..Len(q), f[i] = f[j]
        PROVE  i = j
    BY <2>2 DEF Distinct
  <2>q. QED
    BY <2>1, <2>2 DEF Injection, IsInjective
<1>q. QED
  BY <1>1, <1>2, <1>3, FS_Surjection

LEMMA QueueParts ==
    ASSUME NEW S, NEW q \in Seq(S), Distinct(q), NEW k \in 0..Len(q)
    PROVE  LET front == SubSeq(q, 1, k)
               rest == SubSeq(q, k + 1, Len(q))
           IN /\ front \in Seq(S) /\ rest \in Seq(S)
              /\ Len(front) = k /\ Len(rest) = Len(q) - k
              /\ Distinct(front) /\ Distinct(rest)
              /\ InQueue(front) \subseteq InQueue(q)
              /\ InQueue(rest) = InQueue(q) \ InQueue(front)
<1> DEFINE n == Len(q)
           front == SubSeq(q, 1, k)
           rest == SubSeq(q, k + 1, n)
<1>0. n \in Nat /\ k \in Int /\ k + 1 \in Int /\ \A i \in 1..n : q[i] \in S
  OBVIOUS
<1>1. /\ front \in Seq(S)
      /\ Len(front) = k
      /\ \A i \in 1..k : front[i] = q[i]
  <2>1. /\ front \in Seq(S)
        /\ Len(front) = IF 1 <= k THEN k - 1 + 1 ELSE 0
        /\ \A i \in 1..(k - 1 + 1) : front[i] = q[1 + i - 1]
    BY <1>0, SubSeqProperties
  <2>q. QED
    BY <1>0, <2>1
<1>2. /\ rest \in Seq(S)
      /\ Len(rest) = n - k
      /\ \A i \in 1..(n - k) : rest[i] = q[k + i]
  <2>1. /\ rest \in Seq(S)
        /\ Len(rest) = IF k + 1 <= n THEN n - (k + 1) + 1 ELSE 0
        /\ \A i \in 1..(n - (k + 1) + 1) : rest[i] = q[k + 1 + i - 1]
    BY <1>0, SubSeqProperties
  <2>q. QED
    BY <1>0, <2>1
<1> HIDE DEF front, rest
<1>3. Distinct(front)
  <2>1. ASSUME NEW i \in 1..k, NEW j \in 1..k, front[i] = front[j]
        PROVE  i = j
    <3>1. i \in 1..n /\ j \in 1..n
      BY <1>0
    <3>2. q[i] = q[j]
      BY <1>1, <2>1
    <3>q. QED
      BY <3>1, <3>2 DEF Distinct
  <2>q. QED
    BY <1>1, <2>1 DEF Distinct
<1>3r. Distinct(rest)
  <2>1. ASSUME NEW i \in 1..(n - k), NEW j \in 1..(n - k), rest[i] = rest[j]
        PROVE  i = j
    <3>1. k + i \in 1..n /\ k + j \in 1..n
      BY <1>0
    <3>2. q[k + i] = q[k + j]
      BY <1>2, <2>1
    <3>3. k + i = k + j
      BY <3>1, <3>2 DEF Distinct
    <3>q. QED
      BY <1>0, <3>3
  <2>q. QED
    BY <1>2, <2>1 DEF Distinct
<1>4. InQueue(front) \subseteq InQueue(q)
  BY <1>0, <1>1 DEF InQueue
<1>5. ASSUME NEW r \in InQueue(rest)
      PROVE  r \in InQueue(q) \ InQueue(front)
  <2>1. PICK i \in 1..(n - k) : r = q[k + i]
    BY <1>2, <1>5 DEF InQueue
  <2>2. k + i \in 1..n
    BY <1>0, <2>1
  <2>3. \A j \in 1..k : q[j] # q[k + i]
    BY <1>0, <2>2 DEF Distinct
  <2>q. QED
    BY <1>1, <2>1, <2>2, <2>3 DEF InQueue
<1>6. ASSUME NEW r \in InQueue(q) \ InQueue(front)
      PROVE  r \in InQueue(rest)
  <2>1. PICK i \in 1..n : r = q[i]
    BY <1>6 DEF InQueue
  <2>2. i > k
    BY <1>0, <1>1, <1>6, <2>1 DEF InQueue
  <2>3. i - k \in 1..(n - k) /\ rest[i - k] = q[i]
    BY <1>0, <1>2, <2>2
  <2>q. QED
    BY <1>2, <2>1, <2>3 DEF InQueue
<1>q. QED
  BY <1>1, <1>2, <1>3, <1>3r, <1>4, <1>5, <1>6 DEF front, rest

LEMMA QueueAppend ==
    ASSUME NEW S, NEW q \in Seq(S), Distinct(q), NEW r \in S, r \notin InQueue(q)
    PROVE  /\ Append(q, r) \in Seq(S)
           /\ Len(Append(q, r)) = Len(q) + 1
           /\ Distinct(Append(q, r))
           /\ InQueue(Append(q, r)) = InQueue(q) \cup {r}
<1>1. /\ Append(q, r) \in Seq(S)
      /\ Len(Append(q, r)) = Len(q) + 1
      /\ Len(q) \in Nat
      /\ \A i \in 1..Len(q) : Append(q, r)[i] = q[i]
      /\ Append(q, r)[Len(q) + 1] = r
  OBVIOUS
<1> DEFINE a == Append(q, r)
<1> HIDE DEF a
<1>2. \A i \in 1..Len(q) : q[i] # r
  BY DEF InQueue
<1>3. Distinct(a)
  BY <1>1, <1>2 DEF Distinct, a
<1>4. InQueue(a) = InQueue(q) \cup {r}
  BY <1>1 DEF InQueue, a
<1>q. QED
  BY <1>1, <1>3, <1>4 DEF a

-----------------------------------------------------------------------------

LEMMA VerlInit == Init => IInv
<1> SUFFICES ASSUME Init PROVE IInv
  OBVIOUS
<1>1. LoopTypeOK /\ LoopInv
  BY LoopInitType, LoopInitInv DEF Init
<1>2. queue = <<>> /\ Len(queue) = 0 /\ queue \in Seq(Request) /\ Cardinality({}) = 0
  BY FS_EmptySet DEF Init
<1>3. TypeOK
  BY <1>1, <1>2, VerlAssumption DEF TypeOK, Init
<1>4. QueueInv
  BY <1>2 DEF QueueInv, Distinct, InQueue, Init, LoopInit
<1>5. WindowCounts /\ NothingDropped
  BY <1>2, VerlAssumption DEF WindowCounts, NothingDropped, Init, LoopInit
<1>q. QED
  BY <1>1, <1>3, <1>4, <1>5 DEF IInv, WindowInv, Init, LoopInit

\* The steps that change neither the lists nor the policy.
LEMMA VerlIdle ==
    ASSUME IInv, LoopTypeOK', pc' = "take" => pc = "take",
           UNCHANGED <<version, nextRid, inflight, ready, consumed, dropped, policyVars>>
    PROVE  IInv'
<1>1. LoopInv' /\ TypeOK'
  BY SameListsInv DEF IInv, TypeOK, policyVars
<1>2. QueueInv' /\ WindowCounts' /\ NothingDropped'
  BY DEF IInv, WindowInv, QueueInv, Distinct, InQueue, WindowCounts, NothingDropped, policyVars
<1>q. QED
  BY <1>1, <1>2 DEF IInv, WindowInv

LEMMA VerlQuota ==
    ASSUME IInv, NEW n \in 0..AdmitQuota
    PROVE  /\ AdmitQuota \in Nat
           /\ n \in Nat
           /\ stalenessSamples + n <= MaxRequired
<1>1. /\ stalenessSamples \in Nat /\ stalenessSamples <= MaxRequired
      /\ Cardinality(inflight) \in Int
  BY FS_CardinalityType DEF IInv, TypeOK, LoopInv, WindowInv, WindowCounts
<1>2. MaxRequired - stalenessSamples \in Int /\ MaxInflight \in Nat \cup {None}
  BY <1>1, VerlAssumption
<1> DEFINE room == Room(MaxRequired - stalenessSamples, MaxInflight, Cardinality(inflight))
<1>3. room \in Nat /\ (room > 0 => room <= MaxRequired - stalenessSamples)
  BY <1>1, <1>2, RoomIsNat
<1> HIDE DEF room
<1>4. AdmitQuota \in {0, room}
  BY DEF AdmitQuota, room
<1>q. QED
  BY <1>1, <1>3, <1>4, VerlAssumption

LEMMA VerlAdmitStep ==
    ASSUME IInv, NEW n \in 0..AdmitQuota, VerlAdmit(n)
    PROVE  IInv' /\ Cardinality(inflight') = Cardinality(inflight) + n
<1>t. LoopTypeOK /\ LoopInv /\ WindowInv /\ TypeOK
  BY DEF IInv, TypeOK
<1>1. AdmitQuota \in Nat /\ n \in Nat /\ stalenessSamples + n <= MaxRequired
  BY VerlQuota
<1>2. /\ Admit(AdmitQuota, n)
      /\ stalenessSamples' = stalenessSamples + n
      /\ UNCHANGED <<queue, localTriggerStep>>
  BY DEF VerlAdmit
<1>3. /\ LoopTypeOK' /\ LoopInv'
      /\ Cardinality(inflight') = Cardinality(inflight) + n
      /\ Cardinality(inflight) \in Nat
  BY <1>t, <1>1, <1>2, AdmitType, AdmitInv
<1>4. /\ UNCHANGED <<version, ready, dropped>>
      /\ pc' = "take" => version < NVersions
  BY <1>2 DEF Admit, AfterTop, AfterRetry, AfterBegin, AfterEvent
<1>5. QueueInv' /\ NothingDropped'
  BY <1>t, <1>2, <1>4 DEF WindowInv, QueueInv, Distinct, InQueue, NothingDropped
<1>6. WindowCounts'
  BY <1>t, <1>1, <1>2, <1>3 DEF WindowInv, WindowCounts, TypeOK
<1>7. TypeOK'
  BY <1>t, <1>1, <1>2, <1>3 DEF TypeOK
<1>q. QED
  BY <1>3, <1>4, <1>5, <1>6, <1>7 DEF IInv, WindowInv

(* The batch is the front of the queue; the rest is the new ready list, and *)
(* a recount of the window can only lower it.                              *)
LEMMA VerlTrainStep ==
    ASSUME IInv, VerlTrain
    PROVE  /\ IInv'
           /\ inflight' = inflight
           /\ Required <= Cardinality(ready)
           /\ Cardinality(ready') = Cardinality(ready) - Required
<1> DEFINE front == SubSeq(queue, 1, Required)
           rest == SubSeq(queue, Required + 1, Len(queue))
           batch == InQueue(front)
<1>t. LoopTypeOK /\ LoopInv /\ WindowInv /\ TypeOK
  BY DEF IInv, TypeOK
<1>1. /\ Required \in 0..Len(queue)
      /\ TakeBatch(batch, version + 1, {}, TRUE)
      /\ queue' = rest
      /\ SyncWindow(queue')
  <2>1. Len(queue) \in Nat /\ Required \in Nat /\ Required <= Len(queue)
    BY <1>t, VerlAssumption DEF VerlTrain, BatchFound, TypeOK
  <2>2. Required \in 0..Len(queue)
    BY <2>1
  <2>3. TakeBatch(batch, version + 1, {}, TRUE) /\ queue' = rest /\ SyncWindow(queue')
    BY DEF VerlTrain, RestOfQueue
  <2>q. QED
    BY <2>2, <2>3
<1>2. queue \in Seq(Request) /\ Distinct(queue) /\ InQueue(queue) = ready
  BY <1>t DEF TypeOK, WindowInv, QueueInv
<1>3. /\ front \in Seq(Request) /\ rest \in Seq(Request)
      /\ Len(front) = Required /\ Len(rest) = Len(queue) - Required
      /\ Distinct(front) /\ Distinct(rest)
      /\ batch \subseteq ready
      /\ InQueue(rest) = ready \ batch
  BY <1>1, <1>2, QueueParts
<1>4. Cardinality(batch) = Required
  BY <1>3, QueueCardinality
<1> HIDE DEF front, rest, batch
<1>5. /\ LoopInv'
      /\ Cardinality(ready) \in Nat
      /\ inflight' = inflight
      /\ Cardinality(ready') = Cardinality(ready) - Required
  <2>1. batch \in SUBSET ready /\ {} \in SUBSET (inflight \cup (ready \ batch))
    BY <1>3
  <2>q. QED
    BY <1>t, <1>1, <1>4, <2>1, TakeBatchInv
<1>6. LoopTypeOK'
  <2>1. /\ batch \in SUBSET ready /\ Cardinality(batch) \in Nat
        /\ {} \in SUBSET Request /\ TRUE \in BOOLEAN
        /\ version + 1 \in 0..(version + 1)
    BY <1>t, <1>3, <1>4, VerlAssumption DEF LoopTypeOK
  <2>q. QED
    BY <1>t, <1>1, <2>1, TakeBatchType
<1>7. /\ ready' = ready \ batch
      /\ dropped' = dropped
      /\ pc' = "begin"
  BY <1>1 DEF TakeBatch, ReadyAfter
<1>8. QueueInv'
  BY <1>t, <1>1, <1>3, <1>5, <1>7 DEF WindowInv, QueueInv
<1>9. /\ Len(queue') = Len(queue) - Required
      /\ Len(queue) \in Nat /\ Len(queue') \in Nat
      /\ Required \in Nat
      /\ Cardinality(inflight) \in Nat
      /\ stalenessSamples \in Nat /\ localTriggerStep \in 1..SyncStep
      /\ SyncStep \in Nat \ {0} /\ MaxRequired \in Nat
  BY <1>t, <1>1, <1>2, <1>3, FS_CardinalityType, VerlAssumption DEF TypeOK, LoopInv
<1>10. /\ stalenessSamples' \in {stalenessSamples, Cardinality(inflight) + Len(queue')}
       /\ localTriggerStep' \in {localTriggerStep + 1, 1}
       /\ localTriggerStep' = localTriggerStep + 1 => localTriggerStep < SyncStep
  BY <1>1, <1>5, <1>9 DEF SyncWindow
<1>11. TypeOK'
  BY <1>1, <1>3, <1>6, <1>9, <1>10 DEF TypeOK
<1>12. WindowCounts' /\ NothingDropped'
  BY <1>t, <1>5, <1>7, <1>9, <1>10 DEF WindowInv, WindowCounts, NothingDropped
<1>13. Required <= Cardinality(ready)
  BY <1>t, <1>1, <1>9 DEF WindowInv, QueueInv
<1>q. QED
  BY <1>5, <1>7, <1>8, <1>11, <1>12, <1>13 DEF IInv, WindowInv

(* The completed request was counted in the window, so the queue has room. *)
LEMMA VerlCompleteStep ==
    ASSUME IInv, NEW r \in inflight, VerlComplete(r)
    PROVE  /\ IInv'
           /\ Cardinality(inflight') + Cardinality(ready')
                = Cardinality(inflight) + Cardinality(ready)
<1>t. LoopTypeOK /\ LoopInv /\ WindowInv /\ TypeOK
  BY DEF IInv, TypeOK
<1>1. Cardinality(inflight) \in Nat \ {0}
  <2>1. Complete(r, ~QueueFull) /\ (~QueueFull) \in BOOLEAN
    BY DEF VerlComplete
  <2>q. QED
    BY <1>t, <2>1, CompleteInv
<1>2. /\ queue \in Seq(Request) /\ Len(queue) \in Nat
      /\ stalenessSamples \in Nat /\ MaxRequired \in Nat
  BY <1>t, VerlAssumption DEF TypeOK
<1>3. ~QueueFull
  BY <1>t, <1>1, <1>2 DEF QueueFull, WindowInv, WindowCounts
<1>4. /\ Complete(r, TRUE)
      /\ queue' = Append(queue, r)
      /\ UNCHANGED <<stalenessSamples, localTriggerStep>>
  BY <1>3 DEF VerlComplete
<1>5. /\ LoopTypeOK' /\ LoopInv'
      /\ Cardinality(inflight') = Cardinality(inflight) - 1
      /\ Cardinality(ready) \in Nat
      /\ Cardinality(ready') = Cardinality(ready) + 1
  BY <1>t, <1>4, CompleteType, CompleteInv
<1>6. /\ ready' = ready \cup {r}
      /\ UNCHANGED <<dropped, version>>
      /\ pc' = "event"
  BY <1>4 DEF Complete
<1>7. r \in Request /\ r \notin InQueue(queue) /\ Distinct(queue)
  BY <1>t DEF LoopTypeOK, LoopInv, OneFate, WindowInv, QueueInv
<1>8. /\ queue' \in Seq(Request)
      /\ Len(queue') = Len(queue) + 1
      /\ Distinct(queue')
      /\ InQueue(queue') = InQueue(queue) \cup {r}
  BY <1>2, <1>4, <1>7, QueueAppend
<1>9. QueueInv'
  BY <1>t, <1>5, <1>6, <1>8 DEF WindowInv, QueueInv
<1>10. TypeOK'
  BY <1>t, <1>4, <1>5, <1>8 DEF TypeOK
<1>11. WindowCounts' /\ NothingDropped'
  BY <1>t, <1>1, <1>2, <1>4, <1>5, <1>6, <1>8 DEF WindowInv, WindowCounts, NothingDropped
<1>q. QED
  BY <1>1, <1>5, <1>6, <1>9, <1>10, <1>11 DEF IInv, WindowInv

LEMMA VerlStep == IInv /\ [Next]_vars => IInv'
<1> SUFFICES ASSUME IInv, [Next]_vars
             PROVE  IInv'
  OBVIOUS
<1>t. LoopTypeOK
  BY DEF IInv, TypeOK
<1>1. ASSUME NEW n \in 0..AdmitQuota, VerlAdmit(n)
      PROVE  IInv'
  BY <1>1, VerlAdmitStep
<1>2. CASE VerlNoBatch
  <2>1. LoopTypeOK'
    BY <1>t, <1>2, NoBatchType DEF VerlNoBatch
  <2>q. QED
    BY <1>2, <2>1, VerlIdle DEF VerlNoBatch, NoBatch
<1>3. CASE VerlTrain
  BY <1>3, VerlTrainStep
<1>4. ASSUME NEW r \in inflight, VerlComplete(r)
      PROVE  IInv'
  BY <1>4, VerlCompleteStep
<1>5. CASE VerlEngineReturns
  <2>1. LoopTypeOK'
    BY <1>t, <1>5, EngineReturnsType DEF VerlEngineReturns
  <2>q. QED
    BY <1>5, <2>1, VerlIdle
       DEF VerlEngineReturns, EngineReturns, StopOnBatch, GenerateExhausted, Deadline
<1>6. CASE UNCHANGED vars
  <2>1. LoopTypeOK'
    BY <1>t, <1>6, HaltType DEF vars
  <2>q. QED
    BY <1>6, <2>1, VerlIdle DEF vars, loopVars
<1>q. QED
  BY <1>1, <1>2, <1>3, <1>4, <1>5, <1>6 DEF Next, Halt, vars

-----------------------------------------------------------------------------
(* The policy's queue and the loop's ready list hold the same samples, all *)
(* outstanding samples are counted in the window at every step, and no     *)
(* finished sample is ever dropped.                                        *)
THEOREM VerlWindowAccounts == Spec => []WindowAccounts
<1>1. IInv => WindowAccounts
  BY DEF IInv, WindowInv, QueueInv, WindowAccounts, QueueIsReady
<1>q. QED
  BY <1>1, VerlInit, VerlStep, PTL DEF Spec

-----------------------------------------------------------------------------
(* The refinement of the admission window.                                 *)

LEMMA VerlWindowStep ==
    IInv /\ [Next]_vars =>
        [Window!Next]_<<Cardinality(inflight) + Cardinality(ready), version>>
<1> DEFINE out == Cardinality(inflight) + Cardinality(ready)
<1> SUFFICES ASSUME IInv, [Next]_vars
             PROVE  [Window!Next]_<<out, version>>
  OBVIOUS
<1>t. /\ LoopTypeOK /\ LoopInv /\ WindowInv /\ TypeOK
      /\ version \in Nat /\ stalenessSamples \in Nat
      /\ Cardinality(inflight) \in Nat /\ Cardinality(ready) \in Nat
      /\ MaxRequired \in Nat /\ Required \in Nat \ {0}
      /\ out <= stalenessSamples /\ stalenessSamples <= MaxRequired
  BY FS_CardinalityType, VerlAssumption
     DEF IInv, TypeOK, LoopTypeOK, LoopInv, WindowInv, WindowCounts, QueueInv
<1>1. ASSUME NEW n \in 0..AdmitQuota, VerlAdmit(n)
      PROVE  [Window!Next]_<<out, version>>
  <2>1. AdmitQuota \in Nat /\ n \in Nat /\ stalenessSamples + n <= MaxRequired
    BY VerlQuota
  <2>2. Cardinality(inflight') = Cardinality(inflight) + n
    BY <1>1, VerlAdmitStep
  <2>3. UNCHANGED <<version, ready>>
    BY <1>1 DEF VerlAdmit, Admit
  <2>4. out' = out + n
    BY <1>t, <2>1, <2>2, <2>3
  <2>5. CASE n = 0
    BY <1>t, <2>3, <2>4, <2>5
  <2>6. CASE n > 0
    <3>1. n \in 1..MaxRequired /\ out + n <= MaxRequired
      BY <1>t, <2>1, <2>6
    <3>2. Window!Start(n)
      BY <2>3, <2>4, <3>1 DEF Window!Start
    <3>q. QED
      BY <3>1, <3>2 DEF Window!Next
  <2>q. QED
    BY <2>1, <2>5, <2>6
<1>2. CASE VerlTrain
  <2>1. /\ inflight' = inflight
        /\ Required <= Cardinality(ready)
        /\ Cardinality(ready') = Cardinality(ready) - Required
    BY <1>2, VerlTrainStep
  <2>2. pc = "take" /\ version' = version + 1
    BY <1>2 DEF VerlTrain, TakeBatch
  <2>3. Required \in 1..MaxRequired /\ Required <= out /\ out' = out - Required
    BY <1>t, <2>1
  <2>4. Window!Train(Required)
    BY <1>t, <2>2, <2>3 DEF Window!Train, WindowInv
  <2>q. QED
    BY <2>3, <2>4 DEF Window!Next
<1>3. ASSUME NEW r \in inflight, VerlComplete(r)
      PROVE  [Window!Next]_<<out, version>>
  <2>1. out' = out
    BY <1>3, VerlCompleteStep
  <2>2. version' = version
    BY <1>3 DEF VerlComplete, Complete
  <2>q. QED
    BY <2>1, <2>2
<1>4. CASE UNCHANGED <<inflight, ready, version>>
  BY <1>4
<1>q. QED
  BY <1>1, <1>2, <1>3, <1>4
     DEF Next, vars, loopVars, VerlNoBatch, NoBatch, Halt, VerlEngineReturns,
         EngineReturns, StopOnBatch, GenerateExhausted, Deadline

(* verl's policy, driven by the loop, implements an admission window of    *)
(* max_required samples.                                                   *)
THEOREM VerlImplementsWindow == Spec => ImplementsWindow
<1>1. Init => Window!Init
  BY FS_EmptySet DEF Init, LoopInit, Window!Init
<1>2. ImplementsWindow <=>
        Window!Init /\
        [][Window!Next]_<<Cardinality(inflight) + Cardinality(ready), version>>
  BY DEF ImplementsWindow, Window!Spec
<1>q. QED
  BY <1>1, <1>2, VerlInit, VerlStep, VerlWindowStep, PTL DEF Spec

-----------------------------------------------------------------------------
(* The loop's own accounts, under this policy.                             *)

LEMMA VerlBatchStep == IInv /\ BatchInv /\ [Next]_vars => BatchInv'
<1> SUFFICES ASSUME IInv, BatchInv, [Next]_vars
             PROVE  BatchInv'
  OBVIOUS
<1>t. LoopTypeOK /\ LoopInv /\ TypeOK
  BY DEF IInv, TypeOK
<1>1. ASSUME NEW n \in 0..AdmitQuota, VerlAdmit(n)
      PROVE  BatchInv'
  <2>1. AdmitQuota \in Nat /\ n \in Nat
    BY VerlQuota
  <2>2. Admit(AdmitQuota, n)
    BY <1>1 DEF VerlAdmit
  <2>q. QED
    BY <1>t, <2>1, <2>2, AdmitBatches
<1>2. CASE VerlNoBatch
  BY <1>2, SameListsBatches DEF VerlNoBatch, NoBatch
<1>3. CASE VerlTrain
  <2> DEFINE front == SubSeq(queue, 1, Required)
             batch == InQueue(front)
  <2>1. batch \in SUBSET ready /\ batch # {}
    <3>1. Required \in 1..Len(queue) /\ queue \in Seq(Request) /\ InQueue(queue) = ready
      <4>1. Len(queue) \in Nat /\ Required \in Nat \ {0} /\ Required <= Len(queue)
        BY <1>t, <1>3, VerlAssumption DEF VerlTrain, BatchFound, TypeOK
      <4>q. QED
        BY <1>t, <4>1 DEF IInv, WindowInv, QueueInv, TypeOK
    <3>2. /\ Len(front) = Required
          /\ \A i \in 1..Required : front[i] = queue[i]
      BY <3>1
    <3> HIDE DEF front
    <3>3. front[1] \in batch
      <4>1. 1 \in 1..Len(front)
        BY <3>1, <3>2
      <4>q. QED
        BY <4>1 DEF InQueue
    <3>4. ASSUME NEW r \in batch
          PROVE  r \in ready
      <4>1. PICK i \in 1..Required : r = queue[i]
        BY <3>2, <3>4 DEF InQueue
      <4>2. i \in 1..Len(queue)
        BY <3>1
      <4>q. QED
        BY <3>1, <4>1, <4>2 DEF InQueue
    <3>q. QED
      BY <3>3, <3>4
  <2>2. TakeBatch(batch, version + 1, {}, TRUE)
    BY <1>3 DEF VerlTrain
  <2> HIDE DEF front, batch
  <2>3. version + 1 \in engineVersion..(version + 1)
    BY <1>t DEF LoopTypeOK
  <2>4. {} \in SUBSET (inflight \cup (ready \ batch))
    OBVIOUS
  <2>q. QED
    BY <1>t, <2>1, <2>2, <2>3, <2>4, TakeBatchBatches
<1>4. ASSUME NEW r \in inflight, VerlComplete(r)
      PROVE  BatchInv'
  <2>1. Complete(r, ~QueueFull) /\ (~QueueFull) \in BOOLEAN
    BY <1>4 DEF VerlComplete
  <2>q. QED
    BY <2>1, CompleteBatches
<1>5. CASE VerlEngineReturns
  BY <1>5, SameListsBatches
     DEF VerlEngineReturns, EngineReturns, StopOnBatch, GenerateExhausted, Deadline
<1>6. CASE UNCHANGED vars
  BY <1>6, SameListsBatches DEF vars, loopVars
<1>q. QED
  BY <1>1, <1>2, <1>3, <1>4, <1>5, <1>6 DEF Next, Halt, vars

(* Driven by verl's policy, the loop keeps every request in one list, trains*)
(* on a batch of its own under every version, and never on a request that  *)
(* is newer than its consumer, however long the run is.                    *)
THEOREM VerlAccounts == Spec => [](OneFate /\ AllAccounted /\ BatchesAccounted)
<1>1. IInv /\ BatchInv => OneFate /\ AllAccounted /\ BatchesAccounted
  BY DEF IInv, LoopInv, BatchInv
<1>2. Init => BatchInv
  BY BatchInit DEF Init
<1>q. QED
  BY <1>1, <1>2, VerlInit, VerlStep, VerlBatchStep, PTL DEF Spec

=============================================================================
