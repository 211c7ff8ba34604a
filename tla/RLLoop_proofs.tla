--------------------------- MODULE RLLoop_proofs ---------------------------
(***************************************************************************)
(* Lemmas about the actions of the control loop, for every policy: a       *)
(* policy's theorems cite them for the loop's share of each step.          *)
(***************************************************************************)
EXTENDS RLLoop, FiniteSetTheorems, TLAPS

LEMMA RoomIsNat ==
    ASSUME NEW budget \in Int, NEW cap \in Nat \cup {None}, NEW busy \in Int
    PROVE  /\ Room(budget, cap, busy) \in Nat
           /\ Room(budget, cap, busy) > 0 => Room(budget, cap, busy) <= budget
<1>1. CASE cap = None
  BY <1>1 DEF Room
<1>2. CASE cap \in Nat /\ cap # None
  BY <1>2 DEF Room
<1>q. QED
  BY <1>1, <1>2

LEMMA LoopInitType == LoopInit => LoopTypeOK
  BY DEF LoopInit, LoopTypeOK, PCs

LEMMA AdmitType ==
    ASSUME LoopTypeOK, NEW quota \in Nat, NEW n \in Nat, Admit(quota, n)
    PROVE  LoopTypeOK'
<1>1. NewRequests(n) \subseteq Request
  BY DEF NewRequests, Request, LoopTypeOK
<1>2. inflight' \in SUBSET Request /\ nextRid' \in Nat
  BY <1>1 DEF Admit, LoopTypeOK
<1>3. /\ pc' \in PCs
      /\ phase' \in {"generate", "train"}
      /\ idleRounds' \in Nat
  <2>1. CASE AfterTop
    BY <2>1 DEF AfterTop, LoopTypeOK, PCs
  <2>2. CASE AfterRetry(n)
    BY <2>2 DEF AfterRetry, NextRound, LoopTypeOK, PCs
  <2>3. CASE AfterBegin
    BY <2>3 DEF AfterBegin, LoopTypeOK, PCs
  <2>4. CASE AfterEvent
    BY <2>4 DEF AfterEvent, LoopTypeOK, PCs
  <2>q. QED
    BY <2>1, <2>2, <2>3, <2>4 DEF Admit
<1>4. UNCHANGED <<version, engineVersion, ready, consumed, dropped, nConsumed>>
  BY DEF Admit
<1>q. QED
  BY <1>2, <1>3, <1>4 DEF LoopTypeOK

LEMMA NoBatchType == LoopTypeOK /\ NoBatch => LoopTypeOK'
  BY DEF LoopTypeOK, NoBatch, PCs

LEMMA TakeBatchType ==
    ASSUME LoopTypeOK, NEW batch \in SUBSET ready, NEW newEngine \in 0..(version + 1),
           NEW expired \in SUBSET Request, NEW ok \in BOOLEAN,
           Cardinality(batch) \in Nat, TakeBatch(batch, newEngine, expired, ok)
    PROVE  LoopTypeOK'
<1>1. consumed' \in SUBSET [req : Request, at : Nat]
  BY DEF LoopTypeOK, TakeBatch, Stamped, ReadyAfter
<1>2. /\ inflight' \in SUBSET Request
      /\ ready' \in SUBSET Request
      /\ dropped' \in SUBSET Request
  BY DEF LoopTypeOK, TakeBatch, Stamped, ReadyAfter
<1>3. nConsumed' \in Nat /\ idleRounds' \in Nat /\ version' \in Nat /\ engineVersion' \in 0..version'
  BY DEF LoopTypeOK, TakeBatch, Stamped, ReadyAfter
<1>q. QED
  BY <1>1, <1>2, <1>3 DEF LoopTypeOK, TakeBatch, PCs

LEMMA CompleteType ==
    ASSUME LoopTypeOK, NEW r \in inflight, NEW keep \in BOOLEAN, Complete(r, keep)
    PROVE  LoopTypeOK'
  BY DEF LoopTypeOK, Complete, PCs

LEMMA EngineReturnsType ==
    ASSUME LoopTypeOK, NEW batchFound, NEW contract, EngineReturns(batchFound, contract)
    PROVE  LoopTypeOK'
  BY DEF LoopTypeOK, EngineReturns, StopOnBatch, GenerateExhausted, Deadline, PCs

LEMMA EngineFailsType == LoopTypeOK /\ EngineFails => LoopTypeOK'
  BY DEF LoopTypeOK, EngineFails, PCs

LEMMA HaltType == LoopTypeOK /\ UNCHANGED loopVars => LoopTypeOK'
  BY DEF LoopTypeOK, loopVars

-----------------------------------------------------------------------------
(* The fate of requests.  The cardinality facts are what the policies'     *)
(* counters are compared with.                                             *)

LoopInv ==
    /\ OneFate
    /\ AllAccounted
    /\ IsFiniteSet(inflight)
    /\ IsFiniteSet(ready)

LEMMA LoopInitInv == LoopInit => LoopInv
  BY FS_EmptySet DEF LoopInit, LoopInv, OneFate, AllAccounted, Admitted, Trained

LEMMA NewRequestsCardinality ==
    ASSUME LoopTypeOK, NEW n \in Nat
    PROVE  /\ IsFiniteSet(NewRequests(n))
           /\ Cardinality(NewRequests(n)) = n
<1> DEFINE S == 0..(n - 1)
           f == [i \in S |-> [rid |-> nextRid + i, v |-> engineVersion]]
<1>1. IsFiniteSet(S) /\ Cardinality(S) = n
  BY FS_Interval
<1>2. f \in Surjection(S, NewRequests(n))
  BY DEF Surjection, NewRequests
<1>3. f \in Injection(S, NewRequests(n))
  <2>1. f \in [S -> NewRequests(n)]
    BY DEF NewRequests
  <2>2. ASSUME NEW i \in S, NEW j \in S, f[i] = f[j]
        PROVE  i = j
    <3>1. f[i].rid = nextRid + i /\ f[j].rid = nextRid + j
      OBVIOUS
    <3>q. QED
      BY <2>2, <3>1 DEF LoopTypeOK
  <2>q. QED
    BY <2>1, <2>2 DEF Injection, IsInjective
<1>q. QED
  BY <1>1, <1>2, <1>3, FS_Surjection

LEMMA AdmitInv ==
    ASSUME LoopTypeOK, LoopInv, NEW quota \in Nat, NEW n \in Nat, Admit(quota, n)
    PROVE  /\ LoopInv'
           /\ Cardinality(inflight') = Cardinality(inflight) + n
           /\ Cardinality(inflight) \in Nat
<1> DEFINE new == NewRequests(n)
<1>1. \A r \in Admitted : r \in Request /\ r.rid \in 0..(nextRid - 1)
  BY DEF LoopInv, AllAccounted, Admitted, Trained, LoopTypeOK
<1>2. \A r \in new : r \in Request /\ r.rid >= nextRid /\ r.rid \in 0..(nextRid + n - 1)
  BY DEF NewRequests, LoopTypeOK, Request
<1>3. new \cap Admitted = {}
  BY <1>1, <1>2 DEF LoopTypeOK
<1>4. /\ Trained' = Trained
      /\ Admitted' = Admitted \cup new
      /\ inflight' = inflight \cup new
      /\ ready' = ready
      /\ dropped' = dropped
      /\ consumed' = consumed
      /\ nextRid' = nextRid + n
  BY DEF Admit, Admitted, Trained
<1>5. OneFate'
  BY <1>3, <1>4 DEF LoopInv, OneFate, Admitted
<1>6. AllAccounted'
  <2>1. ASSUME NEW i \in 0..(nextRid + n - 1)
        PROVE  \E r \in Admitted' : r.rid = i
    <3>1. CASE i < nextRid
      <4>1. {r.rid : r \in Admitted} = 0..(nextRid - 1)
        BY DEF LoopInv, AllAccounted
      <4>2. i \in 0..(nextRid - 1)
        BY <3>1 DEF LoopTypeOK
      <4>q. QED
        BY <4>1, <4>2, <1>4
    <3>2. CASE i >= nextRid
      <4> DEFINE r == [rid |-> nextRid + (i - nextRid), v |-> engineVersion]
      <4>1. i - nextRid \in 0..(n - 1)
        BY <3>2 DEF LoopTypeOK
      <4>2. r \in new
        BY <4>1 DEF NewRequests
      <4>3. r.rid = i
        BY DEF LoopTypeOK
      <4>q. QED
        BY <4>2, <4>3, <1>4
    <3>q. QED
      BY <3>1, <3>2 DEF LoopTypeOK
  <2>2. \A r \in Admitted' : r.rid \in 0..(nextRid + n - 1)
    BY <1>1, <1>2, <1>4 DEF LoopTypeOK
  <2>3. \A r, s \in new : r.rid = s.rid => r = s
    BY DEF NewRequests, LoopTypeOK
  <2>4. \A r, s \in Admitted' : r.rid = s.rid => r = s
    BY <1>1, <1>2, <1>4, <2>3 DEF LoopInv, AllAccounted, LoopTypeOK
  <2>5. {r.rid : r \in Admitted'} = 0..(nextRid' - 1)
    <3> DEFINE A == Admitted'
               m == nextRid + n - 1
    <3>1. \A i \in 0..m : \E r \in A : r.rid = i
      BY <2>1
    <3>2. \A r \in A : r.rid \in 0..m
      BY <2>2
    <3>3. nextRid' - 1 = m
      BY <1>4 DEF LoopTypeOK
    <3> HIDE DEF A, m
    <3>4. {r.rid : r \in A} = 0..m
      BY <3>1, <3>2
    <3>q. QED
      BY <3>3, <3>4 DEF A
  <2>q. QED
    BY <2>4, <2>5 DEF AllAccounted
<1>7. /\ IsFiniteSet(inflight')
      /\ Cardinality(inflight') = Cardinality(inflight) + n
      /\ Cardinality(inflight) \in Nat
  <2>1. inflight \cap new = {}
    BY <1>3 DEF Admitted
  <2>2. IsFiniteSet(new) /\ Cardinality(new) = n
    BY NewRequestsCardinality
  <2>3. IsFiniteSet(inflight) /\ Cardinality(inflight) \in Nat
    BY FS_CardinalityType DEF LoopInv
  <2>4. Cardinality(inflight \cap new) = 0
    BY <2>1, FS_EmptySet
  <2>5. /\ IsFiniteSet(inflight \cup new)
        /\ Cardinality(inflight \cup new) =
             Cardinality(inflight) + Cardinality(new) - Cardinality(inflight \cap new)
    <3> HIDE DEF new
    <3>q. QED
      BY <2>2, <2>3, FS_Union
  <2>q. QED
    BY <1>4, <2>2, <2>3, <2>4, <2>5
<1>q. QED
  BY <1>4, <1>5, <1>6, <1>7 DEF LoopInv

LEMMA TakeBatchInv ==
    ASSUME LoopTypeOK, LoopInv, NEW batch \in SUBSET ready, NEW newEngine,
           NEW expired \in SUBSET (inflight \cup (ready \ batch)), NEW ok,
           TakeBatch(batch, newEngine, expired, ok)
    PROVE  /\ LoopInv'
           /\ Cardinality(ready) \in Nat
           /\ Cardinality(batch) \in Nat
           /\ expired = {} => /\ inflight' = inflight
                              /\ Cardinality(ready') = Cardinality(ready) - Cardinality(batch)
<1>0. Trained' = Trained \cup batch
  <2>1. consumed' = consumed \cup {[req |-> r, at |-> version] : r \in batch}
    BY DEF TakeBatch, Stamped
  <2>2. {c.req : c \in consumed'}
          = {c.req : c \in consumed} \cup {c.req : c \in {[req |-> r, at |-> version] : r \in batch}}
    BY <2>1
  <2>3. {c.req : c \in {[req |-> r, at |-> version] : r \in batch}} = batch
    <3> DEFINE T == {[req |-> r, at |-> version] : r \in batch}
    <3>1. \A c \in T : c.req \in batch
      OBVIOUS
    <3>2. \A r \in batch : [req |-> r, at |-> version] \in T /\ [req |-> r, at |-> version].req = r
      OBVIOUS
    <3> HIDE DEF T
    <3>3. {c.req : c \in T} = batch
      BY <3>1, <3>2
    <3>q. QED
      BY <3>3 DEF T
  <2>q. QED
    BY <2>2, <2>3 DEF Trained
<1>1. /\ Trained' = Trained \cup batch
      /\ inflight' = inflight \ expired
      /\ ready' = (ready \ batch) \ expired
      /\ dropped' = dropped \cup expired
      /\ consumed' = consumed \cup {[req |-> r, at |-> version] : r \in batch}
      /\ nextRid' = nextRid
  BY <1>0 DEF TakeBatch, Stamped, ReadyAfter
<1>2. Admitted' = Admitted
  BY <1>1 DEF Admitted
<1>3. AllAccounted'
  BY <1>1, <1>2 DEF LoopInv, AllAccounted
<1>4. OneFate'
  <2>1. \A c, d \in consumed' : c.req = d.req => c = d
    BY <1>1 DEF LoopInv, OneFate, Trained
  <2>2. /\ inflight' \cap (ready' \cup dropped' \cup Trained') = {}
        /\ ready' \cap (dropped' \cup Trained') = {}
        /\ dropped' \cap Trained' = {}
    BY <1>1 DEF LoopInv, OneFate
  <2>q. QED
    BY <2>1, <2>2 DEF OneFate
<1>5. IsFiniteSet(inflight') /\ IsFiniteSet(ready')
  BY <1>1, FS_Difference DEF LoopInv
<1>6. Cardinality(ready) \in Nat /\ Cardinality(batch) \in Nat
  BY FS_CardinalityType, FS_Subset DEF LoopInv
<1>7. Cardinality(ready \ batch) = Cardinality(ready) - Cardinality(batch)
  <2>1. ready \cap batch = batch
    OBVIOUS
  <2>q. QED
    BY <2>1, FS_Difference DEF LoopInv
<1>q. QED
  BY <1>1, <1>3, <1>4, <1>5, <1>6, <1>7 DEF LoopInv

LEMMA CompleteInv ==
    ASSUME LoopTypeOK, LoopInv, NEW r \in inflight, NEW keep \in BOOLEAN, Complete(r, keep)
    PROVE  /\ LoopInv'
           /\ Cardinality(inflight) \in Nat \ {0}
           /\ Cardinality(inflight') = Cardinality(inflight) - 1
           /\ Cardinality(ready) \in Nat
           /\ Cardinality(ready') = Cardinality(ready) + (IF keep THEN 1 ELSE 0)
<1>1. /\ Trained' = Trained
      /\ Admitted' = Admitted
      /\ inflight' = inflight \ {r}
      /\ consumed' = consumed
      /\ nextRid' = nextRid
      /\ ready' = IF keep THEN ready \cup {r} ELSE ready
      /\ dropped' = IF keep THEN dropped ELSE dropped \cup {r}
  BY DEF Complete, Admitted, Trained
<1>2. AllAccounted'
  BY <1>1 DEF LoopInv, AllAccounted
<1>3. OneFate'
  BY <1>1 DEF LoopInv, OneFate
<1>4. Cardinality(inflight) \in Nat \ {0}
  BY FS_CardinalityType, FS_EmptySet DEF LoopInv
<1>5. IsFiniteSet(inflight') /\ Cardinality(inflight') = Cardinality(inflight) - 1
  BY <1>1, FS_RemoveElement DEF LoopInv
<1>6. r \notin ready
  BY DEF LoopInv, OneFate
<1>7. /\ IsFiniteSet(ready')
      /\ Cardinality(ready) \in Nat
      /\ Cardinality(ready') = Cardinality(ready) + (IF keep THEN 1 ELSE 0)
  BY <1>1, <1>6, FS_AddElement, FS_CardinalityType DEF LoopInv
<1>q. QED
  BY <1>2, <1>3, <1>4, <1>5, <1>7 DEF LoopInv

\* The other steps leave every list as it is.
LEMMA SameListsInv ==
    ASSUME LoopInv, UNCHANGED <<nextRid, inflight, ready, consumed, dropped>>
    PROVE  LoopInv'
<1>1. Trained' = Trained /\ Admitted' = Admitted
  BY DEF Trained, Admitted
<1>q. QED
  BY <1>1 DEF LoopInv, OneFate, AllAccounted

-----------------------------------------------------------------------------
LEMMA LoopStep == LoopTypeOK /\ LoopInv /\ [LoopNext]_loopVars => LoopTypeOK' /\ LoopInv'
<1> SUFFICES ASSUME LoopTypeOK, LoopInv, [LoopNext]_loopVars
             PROVE  LoopTypeOK' /\ LoopInv'
  OBVIOUS
<1>1. ASSUME NEW quota \in 0..(MaxRequests - nextRid), NEW n \in 0..quota, Admit(quota, n)
      PROVE  LoopTypeOK' /\ LoopInv'
  BY <1>1, AdmitType, AdmitInv DEF LoopTypeOK
<1>2. CASE NoBatch
  BY <1>2, NoBatchType, SameListsInv DEF NoBatch
<1>3. ASSUME NEW batch \in (SUBSET ready) \ {{}}, NEW newEngine \in engineVersion..(version + 1),
             NEW expired \in SUBSET (inflight \cup (ready \ batch)), NEW ok \in BOOLEAN,
             TakeBatch(batch, newEngine, expired, ok)
      PROVE  LoopTypeOK' /\ LoopInv'
  <2>1. LoopInv' /\ Cardinality(batch) \in Nat
    BY <1>3, TakeBatchInv
  <2>2. newEngine \in 0..(version + 1) /\ expired \in SUBSET Request
    BY DEF LoopTypeOK
  <2>q. QED
    BY <1>3, <2>1, <2>2, TakeBatchType
<1>4. ASSUME NEW r \in inflight, NEW keep \in BOOLEAN, Complete(r, keep)
      PROVE  LoopTypeOK' /\ LoopInv'
  BY <1>4, CompleteType, CompleteInv
<1>5. ASSUME NEW batchFound \in BOOLEAN, NEW contract \in BOOLEAN, EngineReturns(batchFound, contract)
      PROVE  LoopTypeOK' /\ LoopInv'
  BY <1>5, EngineReturnsType, SameListsInv DEF EngineReturns, StopOnBatch, GenerateExhausted, Deadline
<1>6. CASE EngineFails
  BY <1>6, EngineFailsType, SameListsInv DEF EngineFails
<1>7. CASE UNCHANGED loopVars
  BY <1>7, HaltType, SameListsInv DEF loopVars
<1>q. QED
  BY <1>1, <1>2, <1>3, <1>4, <1>5, <1>6, <1>7 DEF LoopNext, Halt

(* For every policy the loop can be given: the variables keep their types. *)
THEOREM LoopTypeCorrect == LoopSpec => []LoopTypeOK
  BY LoopInitType, LoopInitInv, LoopStep, PTL DEF LoopSpec

(* For every policy and every order of completions, each admitted request  *)
(* has exactly one fate and is trained on at most once, and the lists of   *)
(* the loop hold exactly the requests _admit() numbered.                   *)
THEOREM LoopFates == LoopSpec => [](OneFate /\ AllAccounted)
<1>1. LoopInv => OneFate /\ AllAccounted
  BY DEF LoopInv
<1>q. QED
  BY <1>1, LoopInitType, LoopInitInv, LoopStep, PTL DEF LoopSpec

-----------------------------------------------------------------------------
(* The versions: what was admitted under which weights, and trained when.  *)

BatchInv == BatchesAccounted /\ IsFiniteSet(consumed)

LEMMA BatchInit == LoopInit => BatchInv
  BY FS_EmptySet DEF LoopInit, BatchInv, BatchesAccounted, VersionsOrdered,
     BatchPerVersion, Admitted, Trained

LEMMA AdmitBatches ==
    ASSUME LoopTypeOK, LoopInv, BatchInv, NEW quota \in Nat, NEW n \in Nat,
           Admit(quota, n)
    PROVE  BatchInv'
<1> DEFINE new == NewRequests(n)
<1>1. /\ Admitted' = Admitted \cup new
      /\ UNCHANGED <<engineVersion, version, consumed, nConsumed>>
  BY DEF Admit, Admitted, Trained
<1>2. \A r \in Admitted : r \in Request /\ r.rid < nextRid /\ r.v <= engineVersion
  BY DEF LoopInv, AllAccounted, Admitted, Trained, LoopTypeOK, BatchInv,
         BatchesAccounted, VersionsOrdered
<1>3. \A r \in new : r \in Request /\ r.rid >= nextRid /\ r.v = engineVersion
  BY DEF NewRequests, LoopTypeOK, Request
<1>4. engineVersion \in Nat /\ nextRid \in Nat
  BY DEF LoopTypeOK
<1>5. \A r, s \in Admitted' : r.rid < s.rid => r.v <= s.v
  <2> SUFFICES ASSUME NEW r \in Admitted \cup new, NEW s \in Admitted \cup new,
                      r.rid < s.rid
               PROVE  r.v <= s.v
    BY <1>1
  <2>1. CASE s \in new
    BY <2>1, <1>2, <1>3, <1>4
  <2>2. CASE s \in Admitted /\ r \in new
    BY <2>2, <1>2, <1>3, <1>4 DEF Request
  <2>3. CASE s \in Admitted /\ r \in Admitted
    BY <2>3 DEF BatchInv, BatchesAccounted, VersionsOrdered
  <2>q. QED
    BY <2>1, <2>2, <2>3
<1>6. \A r \in Admitted' : r.v <= engineVersion'
  BY <1>1, <1>2, <1>3, <1>4
<1>q. QED
  BY <1>1, <1>5, <1>6 DEF BatchInv, BatchesAccounted, VersionsOrdered, BatchPerVersion

LEMMA StampedCardinality ==
    ASSUME NEW batch, IsFiniteSet(batch)
    PROVE  IsFiniteSet(Stamped(batch)) /\ Cardinality(Stamped(batch)) = Cardinality(batch)
<1> DEFINE f == [r \in batch |-> [req |-> r, at |-> version]]
<1>1. f \in Surjection(batch, Stamped(batch))
  BY DEF Surjection, Stamped
<1>2. f \in Injection(batch, Stamped(batch))
  <2>1. f \in [batch -> Stamped(batch)]
    BY DEF Stamped
  <2>2. ASSUME NEW a \in batch, NEW b \in batch, f[a] = f[b]
        PROVE  a = b
    <3>1. f[a].req = a /\ f[b].req = b
      OBVIOUS
    <3>q. QED
      BY <2>2, <3>1
  <2>q. QED
    BY <2>1, <2>2 DEF Injection, IsInjective
<1>q. QED
  BY <1>1, <1>2, FS_Surjection

LEMMA TakeBatchBatches ==
    ASSUME LoopTypeOK, LoopInv, BatchInv, NEW batch \in SUBSET ready, batch # {},
           NEW newEngine \in engineVersion..(version + 1),
           NEW expired \in SUBSET (inflight \cup (ready \ batch)), NEW ok,
           TakeBatch(batch, newEngine, expired, ok)
    PROVE  BatchInv'
<1> DEFINE new == Stamped(batch)
<1>1. /\ consumed' = consumed \cup new
      /\ version' = version + 1
      /\ engineVersion' = newEngine
      /\ nConsumed' = nConsumed + Cardinality(batch)
      /\ inflight' = inflight \ expired
      /\ ready' = (ready \ batch) \ expired
      /\ dropped' = dropped \cup expired
  BY DEF TakeBatch, ReadyAfter
<1>2. /\ version \in Nat /\ engineVersion \in Nat /\ newEngine \in Nat
      /\ engineVersion <= version /\ engineVersion <= newEngine
  BY DEF LoopTypeOK
<1>3. \A c \in new : c.req \in batch /\ c.at = version
  BY DEF Stamped
<1>4. \A c \in consumed' : c.req \in Admitted
  BY <1>1, <1>3 DEF Admitted, Trained
<1>5. Admitted' \subseteq Admitted
  BY <1>1, <1>4 DEF Admitted, Trained
<1>6. \A r \in Admitted : r \in Request /\ r.v <= engineVersion
  BY DEF LoopTypeOK, BatchInv, BatchesAccounted, VersionsOrdered, Admitted, Trained
<1>7. \A c \in consumed : c.at \in Nat /\ c.req.v <= c.at /\ c.at < version
  BY DEF LoopTypeOK, BatchInv, BatchesAccounted, VersionsOrdered
<1>8. VersionsOrdered'
  <2>1. \A r, s \in Admitted' : r.rid < s.rid => r.v <= s.v
    BY <1>5 DEF BatchInv, BatchesAccounted, VersionsOrdered
  <2>2. \A r \in Admitted' : r.v <= engineVersion'
    BY <1>1, <1>2, <1>5, <1>6 DEF Request
  <2>3. \A c \in consumed' : c.req.v <= c.at /\ c.at < version'
    <3>1. \A c \in new : c.req.v <= c.at /\ c.at < version + 1
      BY <1>1, <1>2, <1>3, <1>4, <1>6 DEF Request
    <3>2. \A c \in consumed : c.req.v <= c.at /\ c.at < version + 1
      BY <1>2, <1>7
    <3>q. QED
      BY <1>1, <3>1, <3>2
  <2>q. QED
    BY <2>1, <2>2, <2>3 DEF VersionsOrdered
<1>9. {c.at : c \in consumed'} = 0..(version' - 1)
  <2>1. PICK r \in batch : TRUE
    OBVIOUS
  <2>2. [req |-> r, at |-> version] \in new /\ [req |-> r, at |-> version].at = version
    BY DEF Stamped
  <2>3. {c.at : c \in new} = {version}
    BY <1>3, <2>2
  <2>4. {c.at : c \in consumed'} = {c.at : c \in consumed} \cup {version}
    BY <1>1, <2>3
  <2>5. {c.at : c \in consumed} = 0..(version - 1)
    BY DEF BatchInv, BatchesAccounted, BatchPerVersion
  <2>6. (0..(version - 1)) \cup {version} = 0..version
    BY <1>2
  <2>q. QED
    BY <1>1, <1>2, <2>4, <2>5, <2>6
<1>10. /\ IsFiniteSet(consumed')
       /\ nConsumed' = Cardinality(consumed')
  <2>1. IsFiniteSet(batch)
    BY FS_Subset DEF LoopInv
  <2>2. IsFiniteSet(new) /\ Cardinality(new) = Cardinality(batch)
    BY <2>1, StampedCardinality
  <2>3. consumed \cap new = {}
    BY <1>2, <1>3, <1>7
  <2>4. IsFiniteSet(consumed) /\ nConsumed = Cardinality(consumed)
    BY DEF BatchInv, BatchesAccounted, BatchPerVersion
  <2>5. Cardinality(consumed \cap new) = 0
    BY <2>3, FS_EmptySet
  <2>6. Cardinality(consumed) \in Nat /\ Cardinality(new) \in Nat
    BY <2>2, <2>4, FS_CardinalityType
  <2>7. /\ IsFiniteSet(consumed \cup new)
        /\ Cardinality(consumed \cup new) =
             Cardinality(consumed) + Cardinality(new) - Cardinality(consumed \cap new)
    <3> HIDE DEF new
    <3>q. QED
      BY <2>2, <2>4, FS_Union
  <2>q. QED
    BY <1>1, <2>2, <2>4, <2>5, <2>6, <2>7
<1>q. QED
  BY <1>8, <1>9, <1>10 DEF BatchInv, BatchesAccounted, BatchPerVersion

LEMMA CompleteBatches ==
    ASSUME BatchInv, NEW r \in inflight, NEW keep \in BOOLEAN, Complete(r, keep)
    PROVE  BatchInv'
<1>1. /\ Admitted' = Admitted
      /\ UNCHANGED <<engineVersion, version, consumed, nConsumed>>
  BY DEF Complete, Admitted, Trained
<1>q. QED
  BY <1>1 DEF BatchInv, BatchesAccounted, VersionsOrdered, BatchPerVersion

LEMMA SameListsBatches ==
    ASSUME BatchInv, UNCHANGED <<version, engineVersion, nextRid, inflight, ready,
                                 consumed, dropped, nConsumed>>
    PROVE  BatchInv'
<1>1. Admitted' = Admitted
  BY DEF Admitted, Trained
<1>q. QED
  BY <1>1 DEF BatchInv, BatchesAccounted, VersionsOrdered, BatchPerVersion

LEMMA BatchStep == LoopTypeOK /\ LoopInv /\ BatchInv /\ [LoopNext]_loopVars => BatchInv'
<1> SUFFICES ASSUME LoopTypeOK, LoopInv, BatchInv, [LoopNext]_loopVars
             PROVE  BatchInv'
  OBVIOUS
<1>1. ASSUME NEW quota \in 0..(MaxRequests - nextRid), NEW n \in 0..quota, Admit(quota, n)
      PROVE  BatchInv'
  BY <1>1, AdmitBatches DEF LoopTypeOK
<1>2. CASE NoBatch
  BY <1>2, SameListsBatches DEF NoBatch
<1>3. ASSUME NEW batch \in (SUBSET ready) \ {{}}, NEW newEngine \in engineVersion..(version + 1),
             NEW expired \in SUBSET (inflight \cup (ready \ batch)), NEW ok \in BOOLEAN,
             TakeBatch(batch, newEngine, expired, ok)
      PROVE  BatchInv'
  BY <1>3, TakeBatchBatches
<1>4. ASSUME NEW r \in inflight, NEW keep \in BOOLEAN, Complete(r, keep)
      PROVE  BatchInv'
  BY <1>4, CompleteBatches
<1>5. ASSUME NEW batchFound \in BOOLEAN, NEW contract \in BOOLEAN, EngineReturns(batchFound, contract)
      PROVE  BatchInv'
  BY <1>5, SameListsBatches DEF EngineReturns, StopOnBatch, GenerateExhausted, Deadline
<1>6. CASE EngineFails
  BY <1>6, SameListsBatches DEF EngineFails
<1>7. CASE UNCHANGED loopVars
  BY <1>7, SameListsBatches DEF loopVars
<1>q. QED
  BY <1>1, <1>2, <1>3, <1>4, <1>5, <1>6, <1>7 DEF LoopNext, Halt

(* For every policy: staleness is never negative, requests are numbered in *)
(* the order of the weights they were admitted under, every training step  *)
(* consumed a batch of its own, and n_consumed counts the trained ones.    *)
THEOREM LoopBatches == LoopSpec => []BatchesAccounted
<1>1. BatchInv => BatchesAccounted
  BY DEF BatchInv
<1>q. QED
  BY <1>1, LoopInitType, LoopInitInv, LoopStep, BatchInit, BatchStep, PTL DEF LoopSpec

=============================================================================
