------------------------- MODULE SimTelemetry_proofs -------------------------
(***************************************************************************)
(* Proofs about the simulator with its instances and its telemetry, on top *)
(* of the lemmas about one instance.                                       *)
(*                                                                         *)
(* The second half is about the default, requests that are admitted with   *)
(* the blocks of their whole response reserved: nothing is preempted, so   *)
(* the events keep the order of time, what is trained on was measured to   *)
(* the end, and the step stream holds each committed token once.           *)
(***************************************************************************)
EXTENDS SimTelemetry, EngineInstance_proofs, RLLoop_proofs

-----------------------------------------------------------------------------
(* New weights.                                                            *)

LEMMA AfterUpdateFacts ==
    ASSUME NEW i, Well(i), NEW expired
    PROVE  Reworked(i, AfterUpdate(i, expired), {r.rid : r \in expired})
<1> DEFINE gone == {r.rid : r \in expired}
           c == Cancel(i, gone)
           b == AbortAll(c)
<1>1. AfterUpdate(i, expired) = IF PartialRollout THEN b ELSE c
  BY DEF AfterUpdate
<1>2. Reworked(i, c, gone)
  BY CancelFacts
<1>3. Reworked(c, b, {})
  <2>1. Well(c)
    BY <1>2 DEF Reworked
  <2> HIDE DEF c
  <2>q. QED
    BY <2>1, AbortAllFacts
<1> HIDE DEF b, c, gone
<1>4. Reworked(i, b, gone)
  BY <1>2, <1>3 DEF Reworked
<1>q. QED
  BY <1>1, <1>2, <1>4 DEF gone

-----------------------------------------------------------------------------
(* Admission.                                                              *)

LEMMA InstancesFinite == IsFiniteSet(Instances) /\ Instances # {}
                         /\ \A i \in Instances : i \in Int
<1>1. NInstances \in Nat \ {0}
  BY SimulatorAssumption
<1>2. 0 \in Int /\ NInstances - 1 \in Int
  BY <1>1
<1>3. IsFiniteSet(Instances)
  BY <1>2, FS_Interval DEF Instances
<1>4. 0 \in Instances /\ \A i \in Instances : i \in Int
  BY <1>1 DEF Instances
<1>q. QED
  BY <1>3, <1>4

LEMMA LeastLoadedIn ==
    ASSUME NEW es, \A i \in Instances : Well(es[i])
    PROVE  LeastLoaded(es) \in Instances
<1> DEFINE c(i) == Cardinality(Active(es[i]))
           S == {c(i) : i \in Instances}
           T == {i \in Instances : \A j \in Instances : c(i) <= c(j)}
<1>1. \A i \in Instances : c(i) \in Nat
  BY ActiveFinite
<1>2. IsFiniteSet(Instances) /\ Instances # {} /\ \A i \in Instances : i \in Int
  BY InstancesFinite
<1>3. LeastLoaded(es) = Min(T)
  BY DEF LeastLoaded
<1> HIDE DEF c
<1>4. IsFiniteSet(S) /\ S # {} /\ \A n \in S : n \in Int
  <2> DEFINE f == [i \in Instances |-> c(i)]
  <2>0. f \in Surjection(Instances, S)
    BY DEF Surjection
  <2> HIDE DEF f
  <2>1. IsFiniteSet(S)
    BY <1>2, <2>0, FS_Surjection
  <2>q. QED
    BY <1>1, <1>2, <2>1
<1>5. T # {}
  <2>1. Min(S) \in S /\ \A n \in S : Min(S) <= n
    <3> HIDE DEF S
    <3>q. QED
      BY <1>4, MinIsLeast
  <2>2. PICK i \in Instances : Min(S) = c(i)
    BY <2>1
  <2>3. \A j \in Instances : c(i) <= c(j)
    BY <2>1, <2>2
  <2>q. QED
    BY <2>3
<1>6. T \subseteq Instances /\ IsFiniteSet(T) /\ \A i \in T : i \in Int
  BY <1>2, FS_Subset
<1>7. Min(T) \in T
  <2> HIDE DEF T
  <2>q. QED
    BY <1>5, <1>6, MinIsLeast
<1>q. QED
  BY <1>3, <1>6, <1>7

\* The ids of n new requests.
NewIds(n) == {r \in Nat : nextRid <= r /\ r < nextRid + n}

\* Each of the n new requests has been given to one of the instances es.
Placed(es, new, n) ==
    /\ \A i \in Instances :
          /\ Well(new[i])
          /\ new[i].completed = es[i].completed /\ new[i].stats = es[i].stats
          /\ new[i].running = es[i].running
          /\ DOMAIN es[i].req \subseteq DOMAIN new[i].req
          /\ DOMAIN new[i].req \subseteq Ids(nextRid + n)
          /\ \A r \in DOMAIN es[i].req : new[i].req[r] = es[i].req[r]
          /\ \A r \in DOMAIN new[i].req \ DOMAIN es[i].req : new[i].req[r] = NewReq
          /\ Active(es[i]) \subseteq Active(new[i])
          /\ Active(new[i]) \subseteq Active(es[i]) \cup NewIds(n)
    /\ \A r \in NewIds(n) : \E i \in Instances : r \in Active(new[i])
    /\ \A i, j \in Instances : i # j => Active(new[i]) \cap Active(new[j]) = {}

PlaceState == [engines : [Instances -> Record], n : Nat, open : BOOLEAN]

PlaceStates(es) == {s \in PlaceState : Placed(es, s.engines, s.n)}

LEMMA PlaceOneKeeps ==
    ASSUME NEW es, nextRid \in Nat, NEW s \in PlaceStates(es), NEW k
    PROVE  PlaceOne(s, k) \in PlaceStates(es)
<1> DEFINE i == LeastLoaded(s.engines)
           r == nextRid + s.n
           new == s.engines
           e == AddRequest(new[i], r)
           more == [new EXCEPT ![i] = e]
           n == s.n + 1
<1>1. /\ s \in PlaceState /\ new \in [Instances -> Record] /\ s.n \in Nat /\ s.open \in BOOLEAN
      /\ Placed(es, new, s.n)
  BY DEF PlaceStates, PlaceState
<1>2. i \in Instances
  <2>1. \A j \in Instances : Well(new[j])
    BY <1>1 DEF Placed
  <2> HIDE DEF new
  <2>2. LeastLoaded(new) \in Instances
    BY <2>1, LeastLoadedIn
  <2>q. QED
    BY <2>2 DEF new
<1>3. CASE s.open /\ Accepts(new[i], r)
  <2>1. PlaceOne(s, k) = [s EXCEPT !.engines[i] = AddRequest(@, r), !.n = @ + 1]
    BY <1>3 DEF PlaceOne
  <2>2. PlaceOne(s, k) = [s EXCEPT !.engines = more, !.n = n]
    BY <1>1, <2>1 DEF PlaceState
  <2> HIDE DEF i
  <2>3. /\ Well(new[i]) /\ r \in Nat /\ r \notin DOMAIN new[i].req /\ n \in Nat
        /\ r \notin NewIds(s.n)
    BY <1>1, <1>2 DEF Placed, Ids, NewIds
  <2>4. /\ Well(e)
        /\ Active(e) = Active(new[i]) \cup {r}
        /\ DOMAIN e.req = DOMAIN new[i].req \cup {r}
        /\ \A q \in DOMAIN new[i].req : e.req[q] = new[i].req[q]
        /\ e.req[r] = NewReq
        /\ e.completed = new[i].completed /\ e.stats = new[i].stats
        /\ e.running = new[i].running
    <3> DEFINE x == new[i]
    <3>1. Well(x) /\ r \in Nat /\ r \notin DOMAIN x.req
      BY <2>3
    <3> HIDE DEF x, r
    <3>2. LET j == AddRequest(x, r)
          IN /\ Well(j)
             /\ Active(j) = Active(x) \cup {r}
             /\ DOMAIN j.req = DOMAIN x.req \cup {r}
             /\ \A q \in DOMAIN x.req : j.req[q] = x.req[q]
             /\ j.req[r] = NewReq
             /\ j.completed = x.completed /\ j.stats = x.stats /\ j.running = x.running
      BY <3>1, AddRequestFacts
    <3>q. QED
      BY <3>2 DEF x
  <2>5. /\ Ids(nextRid + n) = Ids(nextRid + s.n) \cup {r}
        /\ NewIds(n) = NewIds(s.n) \cup {r}
    BY <1>1, <2>3 DEF Ids, NewIds
  <2>6. \A j \in Instances : \A q \in Active(new[j]) : q # r
    <3>1. \A j \in Instances : Active(new[j]) \subseteq Ids(nextRid + s.n)
      <4>1. \A j \in Instances : Well(new[j]) /\ DOMAIN new[j].req \subseteq Ids(nextRid + s.n)
        BY <1>1 DEF Placed
      <4>q. QED
        BY <4>1 DEF Well
    <3>q. QED
      BY <1>1, <3>1 DEF Ids
  <2>7. e \in Record
    BY <2>4, WellFields
  <2> HIDE DEF e
  <2>8. more \in [Instances -> Record] /\ more[i] = e /\ \A j \in Instances \ {i} : more[j] = new[j]
    BY <1>1, <1>2, <2>7
  <2>9. /\ PlaceOne(s, k) \in PlaceState
        /\ PlaceOne(s, k).engines = more /\ PlaceOne(s, k).n = n
    BY <1>1, <2>2, <2>3, <2>8 DEF PlaceState
  <2> HIDE DEF more, n, r
  <2> DEFINE
        Placing(j, x, m) ==
          /\ Well(x)
          /\ x.completed = es[j].completed /\ x.stats = es[j].stats
          /\ x.running = es[j].running
          /\ DOMAIN es[j].req \subseteq DOMAIN x.req
          /\ DOMAIN x.req \subseteq Ids(nextRid + m)
          /\ \A q \in DOMAIN es[j].req : x.req[q] = es[j].req[q]
          /\ \A q \in DOMAIN x.req \ DOMAIN es[j].req : x.req[q] = NewReq
          /\ Active(es[j]) \subseteq Active(x)
          /\ Active(x) \subseteq Active(es[j]) \cup NewIds(m)
  <2>a. Placed(es, new, s.n)
    BY <1>1
  <2> HIDE DEF new
  <2>10. \A j \in Instances : Placing(j, more[j], n)
    <3> SUFFICES ASSUME NEW j \in Instances PROVE Placing(j, more[j], n)
      OBVIOUS
    <3>0. Placing(j, new[j], s.n)
      BY <2>a DEF Placed
    <3>1. CASE j = i
      <4>1. more[j] = e
        BY <2>8, <3>1
      <4>q. QED
        BY <2>4, <2>5, <3>0, <3>1, <4>1
    <3>2. CASE j # i
      <4>1. more[j] = new[j]
        BY <2>8, <3>2
      <4>q. QED
        BY <2>5, <3>0, <4>1
    <3>q. QED
      BY <3>1, <3>2
  <2>b. \A j \in Instances : Active(more[j]) = Active(new[j]) \cup (IF j = i THEN {r} ELSE {})
    BY <2>4, <2>8
  <2>11. \A q \in NewIds(n) : \E j \in Instances : q \in Active(more[j])
    <3> SUFFICES ASSUME NEW q \in NewIds(n) PROVE \E j \in Instances : q \in Active(more[j])
      OBVIOUS
    <3>1. CASE q = r
      BY <1>2, <2>b, <3>1
    <3>2. CASE q # r
      <4>1. PICK j \in Instances : q \in Active(new[j])
        BY <2>5, <2>a, <3>2 DEF Placed
      <4>q. QED
        BY <2>b, <4>1
    <3>q. QED
      BY <3>1, <3>2
  <2>12. \A j, l \in Instances : j # l => Active(more[j]) \cap Active(more[l]) = {}
    <3> SUFFICES ASSUME NEW j \in Instances, NEW l \in Instances, j # l
                 PROVE  Active(more[j]) \cap Active(more[l]) = {}
      OBVIOUS
    <3>1. Active(new[j]) \cap Active(new[l]) = {}
      BY <2>a DEF Placed
    <3>q. QED
      BY <2>6, <2>b, <3>1
  <2>13. Placed(es, more, n)
    <3>1. \A j \in Instances : Placing(j, more[j], n)
      BY <2>10
    <3>q. QED
      BY <2>11, <2>12, <3>1 DEF Placed
  <2>q. QED
    BY <2>9, <2>13 DEF PlaceStates
<1>4. CASE ~(s.open /\ Accepts(new[i], r))
  <2>1. PlaceOne(s, k) = [s EXCEPT !.open = FALSE]
    BY <1>4 DEF PlaceOne
  <2>2. PlaceOne(s, k) \in PlaceState /\ PlaceOne(s, k).engines = new /\ PlaceOne(s, k).n = s.n
    BY <1>1, <2>1 DEF PlaceState
  <2>q. QED
    BY <1>1, <2>2 DEF PlaceStates
<1>q. QED
  BY <1>3, <1>4

PlaceStart(es) == [engines |-> es, n |-> 0, open |-> TRUE]

\* What holds at first and after each request placed holds in the end.
LEMMA PlacedAlong ==
    ASSUME NEW es \in [Instances -> Record], NEW quota \in Int, nextRid \in Nat,
           \A i \in Instances : Well(es[i]) /\ DOMAIN es[i].req \subseteq Ids(nextRid),
           \A i, j \in Instances : i # j => Active(es[i]) \cap Active(es[j]) = {},
           NEW Q, PlaceStart(es) \in Q,
           \A s \in PlaceStates(es) : \A k : s \in Q => PlaceOne(s, k) \in Q
    PROVE  Place(es, quota) \in PlaceStates(es) \cap Q
<1> DEFINE list == [k \in 1..quota |-> k]
           D == 1..quota
           U == PlaceStates(es) \cap Q
           z == [engines |-> es, n |-> 0, open |-> TRUE]
           After(g, t) == IF t = {} THEN z ELSE PlaceOne(g[t \ {Max(t)}], list[Max(t)])
           h == CHOOSE g : g = [t \in SUBSET D |-> After(g, t)]
           F == [x \in U \X D |-> PlaceOne(x[1], x[2])]
           T == [t \in SUBSET D |-> U]
<1>1. IsFiniteSet(D) /\ \A k \in D : k \in Int
  <2>1. 1 \in Int /\ quota \in Int
    OBVIOUS
  <2>q. QED
    BY <2>1, FS_Interval
<1>2. Place(es, quota) = h[D]
  <2>1. Place(es, quota) =
           (CHOOSE g : g = [t \in SUBSET (DOMAIN list) |-> After(g, t)])[DOMAIN list]
    BY DEF Place, FoldLeft, MapThenFoldSet
  <2>2. DOMAIN list = D
    OBVIOUS
  <2>q. QED
    BY <2>1, <2>2
<1>3. z \in U
  <2>1. z \in PlaceState /\ z.engines = es /\ z.n = 0
    BY DEF PlaceState
  <2> HIDE DEF z
  <2>2. nextRid + 0 = nextRid /\ NewIds(0) = {}
    BY DEF NewIds
  <2>3. Placed(es, es, 0)
    <3>1. \A i \in Instances : Well(es[i]) /\ DOMAIN es[i].req \subseteq Ids(nextRid + 0)
      BY <2>2
    <3>q. QED
      BY <2>2, <3>1 DEF Placed
  <2>4. z \in Q
    BY DEF PlaceStart, z
  <2>q. QED
    BY <2>1, <2>3, <2>4 DEF PlaceStates
<1>4. \A a \in U, k \in D : /\ F[<<a, k>>] = PlaceOne(a, k) /\ list[k] = k
                            /\ PlaceOne(a, k) \in U
  <2> SUFFICES ASSUME NEW a \in U, NEW k \in D
               PROVE  F[<<a, k>>] = PlaceOne(a, k) /\ list[k] = k /\ PlaceOne(a, k) \in U
    BY Zenon
  <2>1. F[<<a, k>>] = PlaceOne(a, k) /\ list[k] = k
    OBVIOUS
  <2>2. PlaceOne(a, k) \in PlaceStates(es)
    BY PlaceOneKeeps
  <2>3. PlaceOne(a, k) \in Q
    OBVIOUS
  <2>q. QED
    BY <2>1, <2>2, <2>3
<1>t. \A t \in SUBSET D : T[t] = U
  OBVIOUS
<1> HIDE DEF F, U, D, z, T, list
<1>5. \A t \in SUBSET D : t # {} => /\ Max(t) \in t /\ Max(t) \in D
                                    /\ t \ {Max(t)} \in SUBSET D
  BY <1>1, MaxChooses
<1>6. \A x \in U \X D : F[x] \in U
  BY <1>4
<1>7. \E g : g = [t \in SUBSET D |-> After(g, t)]
  <2>1. PICK g : OnSubsets(g, D) /\ IsMaxFold(g, D, z, F) /\ \A t \in SUBSET D : g[t] \in U
    BY <1>1, <1>3, <1>6, FoldTyped
  <2>2. \A t \in SUBSET D : g[t] = After(g, t)
    <3> SUFFICES ASSUME NEW t \in SUBSET D, t # {}
                 PROVE  g[t] = PlaceOne(g[t \ {Max(t)}], list[Max(t)])
      BY <2>1 DEF IsMaxFold
    <3>1. Max(t) \in D /\ g[t \ {Max(t)}] \in U
      BY <1>5, <2>1
    <3>2. g[t] = F[<<g[t \ {Max(t)}], Max(t)>>]
      BY <2>1 DEF IsMaxFold
    <3>q. QED
      BY <1>4, <3>1, <3>2
  <2> HIDE DEF After
  <2>3. g = [t \in SUBSET D |-> After(g, t)]
    BY <2>1, <2>2 DEF OnSubsets
  <2>q. QED
    BY <2>3
<1>8. \A t \in SUBSET D : h[t] = After(h, t)
  <2>1. h = [t \in SUBSET D |-> After(h, t)]
    <3> HIDE DEF After
    <3>q. QED
      BY <1>7
  <2> HIDE DEF h, After
  <2>q. QED
    BY <2>1
<1> HIDE DEF h
<1> DEFINE c == [t \in SUBSET D |-> Max(t)]
<1>9. \A t \in SUBSET D : c[t] = Max(t)
  OBVIOUS
<1> HIDE DEF c
<1>10. h[{}] \in T[{}]
  <2>1. {} \in SUBSET D
    OBVIOUS
  <2>2. h[{}] = z
    BY <1>8, <2>1
  <2>q. QED
    BY <1>3, <1>t, <2>1, <2>2
<1>11. \A t \in SUBSET D : t # {} /\ h[t \ {c[t]}] \in T[t \ {c[t]}] => h[t] \in T[t]
  <2> SUFFICES ASSUME NEW t \in SUBSET D, t # {}, h[t \ {c[t]}] \in T[t \ {c[t]}]
               PROVE  h[t] \in T[t]
    OBVIOUS
  <2>1. h[t \ {Max(t)}] \in U /\ Max(t) \in D
    BY <1>5, <1>9, <1>t
  <2>2. h[t] = PlaceOne(h[t \ {Max(t)}], Max(t))
    <3>1. h[t] = PlaceOne(h[t \ {Max(t)}], list[Max(t)])
      BY <1>8
    <3>2. list[Max(t)] = Max(t)
      BY <1>4, <2>1
    <3>q. QED
      BY <3>1, <3>2
  <2>3. h[t] \in U
    BY <1>4, <2>1, <2>2
  <2>q. QED
    BY <1>t, <2>3
<1>12. \A t \in SUBSET D : h[t] \in T[t]
  <2>1. \A t \in SUBSET D : t # {} => c[t] \in t
    BY <1>5, <1>9
  <2>q. QED
    BY <1>1, <1>10, <1>11, <2>1, FoldKeeps
<1>13. h[D] \in U
  <2>1. D \in SUBSET D
    OBVIOUS
  <2>q. QED
    BY <1>12, <1>t, <2>1
<1>q. QED
  BY <1>2, <1>13 DEF U

\* _admit gives each new request to one instance and changes no other one.
LEMMA PlaceFacts ==
    ASSUME NEW es \in [Instances -> Record], NEW quota \in Int, nextRid \in Nat,
           \A i \in Instances : Well(es[i]) /\ DOMAIN es[i].req \subseteq Ids(nextRid),
           \A i, j \in Instances : i # j => Active(es[i]) \cap Active(es[j]) = {}
    PROVE  Place(es, quota) \in PlaceStates(es)
<1> DEFINE Q == PlaceStates(es) \cup {PlaceStart(es)}
<1>1. PlaceStart(es) \in Q
  OBVIOUS
<1>2. \A s \in PlaceStates(es) : \A k : s \in Q => PlaceOne(s, k) \in Q
  BY PlaceOneKeeps
<1> HIDE DEF Q
<1>q. QED
  BY <1>1, <1>2, PlacedAlong

-----------------------------------------------------------------------------
(* The simulator is a loop like any other.                                 *)

LEMMA TrainIsTake ==
    ASSUME LoopTypeOK, SimTrain
    PROVE  \E batch \in (SUBSET ready) \ {{}} :
           \E newEngine \in engineVersion..(version + 1) :
           \E expired \in SUBSET (inflight \cup (ready \ batch)), ok \in BOOLEAN :
              TakeBatch(batch, newEngine, expired, ok)
<1>1. PICK batch \in kSubset(BatchSize, ready), newEngine \in {engineVersion, version + 1},
           expired \in SUBSET inflight : TakeBatch(batch, newEngine, expired, TRUE)
  BY DEF SimTrain
<1>2. batch \in SUBSET ready /\ Cardinality(batch) = BatchSize
  BY DEF kSubset
<1>3. batch # {}
  <2>1. BatchSize # 0 /\ Cardinality({}) = 0
    BY SimulatorAssumption, FS_EmptySet
  <2>q. QED
    BY <1>2, <2>1
<1>4. newEngine \in engineVersion..(version + 1)
  BY DEF LoopTypeOK
<1>5. expired \in SUBSET (inflight \cup (ready \ batch))
  OBVIOUS
<1>q. QED
  BY <1>1, <1>2, <1>3, <1>4, <1>5

LEMMA AdmitIsAdmit ==
    ASSUME NEW quota \in Quotas, NEW n, Admit(quota, n)
    PROVE  LoopNext
<1>1. quota \in 0..(MaxRequests - nextRid) /\ n \in 0..quota
  BY DEF Admit, Quotas
<1>q. QED
  BY <1>1 DEF LoopNext

LEMMA SimStepsLoop ==
    ASSUME LoopTypeOK, nextRid <= MaxRequests, [Next]_vars
    PROVE  [LoopNext]_loopVars
<1>1. CASE SimAdmit
  BY <1>1, AdmitIsAdmit DEF SimAdmit
<1>2. CASE SimTrain
  BY <1>2, TrainIsTake DEF LoopNext
<1>3. CASE SimCollect
  <2>1. \E r \in inflight : Complete(r, TRUE)
    BY <1>3 DEF SimCollect
  <2>q. QED
    BY <2>1 DEF LoopNext
<1>4. CASE SimGoOn
  <2>1. Admit(0, 0) /\ 0 \in Quotas
    BY <1>4, LoopAssumption DEF SimGoOn, LoopTypeOK, Quotas
  <2>q. QED
    BY <2>1, AdmitIsAdmit
<1>5. CASE SimAdmitMore
  <2>1. \E quota \in Quotas : \E n : Admit(quota, n)
    BY <1>5 DEF SimAdmitMore
  <2>q. QED
    BY <2>1, AdmitIsAdmit
<1>6. CASE SimStopOnBatch \/ SimDeadline \/ SimExhausted
  <2>1. \E batchFound, contract \in BOOLEAN : EngineReturns(batchFound, contract)
    BY <1>6 DEF SimStopOnBatch, SimDeadline, SimExhausted, EngineReturns
  <2>q. QED
    BY <2>1 DEF LoopNext
<1>7. CASE SimNoBatch
  BY <1>7 DEF SimNoBatch, LoopNext
<1>8. CASE AlignFails
  BY <1>8 DEF AlignFails, LoopNext
<1>9. CASE SeedEvents \/ CommitEvent \/ ProduceNext
  BY <1>9 DEF SeedEvents, CommitEvent, ProduceNext
<1>10. CASE Halt /\ UNCHANGED engineVars
  BY <1>10 DEF LoopNext
<1>11. CASE UNCHANGED vars
  BY <1>11 DEF vars
<1>q. QED
  BY <1>1, <1>2, <1>3, <1>4, <1>5, <1>6, <1>7, <1>8, <1>9, <1>10, <1>11 DEF Next

\* The requests of a behaviour are bounded.
LEMMA RequestsBounded ==
    ASSUME LoopTypeOK, nextRid <= MaxRequests, [LoopNext]_loopVars
    PROVE  nextRid' <= MaxRequests
<1>1. ASSUME NEW quota \in 0..(MaxRequests - nextRid), NEW n \in 0..quota, Admit(quota, n)
      PROVE  nextRid' <= MaxRequests
  BY <1>1, LoopAssumption DEF Admit, LoopTypeOK
<1>2. CASE nextRid' = nextRid
  BY <1>2
<1>q. QED
  BY <1>1, <1>2 DEF LoopNext, loopVars, NoBatch, TakeBatch, Complete, EngineReturns, StopOnBatch,
     GenerateExhausted, Deadline, EngineFails, Halt

-----------------------------------------------------------------------------
(* The instances between two events.                                       *)

\* An instance in state e with the event ev and the snapshot s stands in state
\* u as soon as its event is undone.
Stands(e, ev, s, v, u) ==
    /\ Well(u)
    /\ ev.pending => Follows(u, e, ev.done, v) /\ s = Capture(u)
    /\ ~ev.pending => e = u

LEMMA StandsUndone ==
    ASSUME NEW e, NEW ev, NEW s, NEW v, NEW u, Stands(e, ev, s, v, u)
    PROVE  (IF ev.pending THEN Restore(e, s) ELSE e) = u
<1>1. CASE ev.pending
  <2>1. Well(u) /\ Follows(u, e, ev.done, v) /\ s = Capture(u)
    BY <1>1 DEF Stands
  <2>2. Restore(e, Capture(u)) = u
    BY <2>1, UndoExact
  <2>q. QED
    BY <1>1, <2>1, <2>2
<1>2. CASE ~ev.pending
  BY <1>2 DEF Stands
<1>q. QED
  BY <1>1, <1>2

EventType == [done : Seq(Nat), t : Nat, pending : BOOLEAN]

\* What the loop counts as in flight is held by exactly one of the instances us
\* or about to be collected.
HeldBy(us, rids, coll) ==
    /\ rids = (UNION {Active(us[i]) : i \in Instances}) \cup ToSet(coll)
    /\ \A i \in Instances : Active(us[i]) \cap ToSet(coll) = {}
    /\ \A i, j \in Instances : i # j => Active(us[i]) \cap Active(us[j]) = {}

InflightRids == {r.rid : r \in inflight}

EngineTypes ==
    /\ engines \in [Instances -> Record]
    /\ clock \in [Instances -> Nat]
    /\ events \in [Instances -> EventType]
    /\ now \in Nat /\ deadline \in Nat /\ seeded \in BOOLEAN
    /\ collecting \in Seq(Nat) /\ last \in Instances

\* Where the loop stands there is nothing to undo or to collect.
AtRest == pc \in {"top", "take", "retry", "begin"} \/ (pc = "engine" /\ ~seeded)

ControlInv ==
    /\ AtRest => Pending = {} /\ collecting = <<>>
    /\ collecting # <<>> => pc \in {"engine", "event"}
    /\ pc = "event" => seeded

EnginesInv ==
    /\ \A i \in Instances :
          /\ Stands(engines[i], events[i], snapshots[i], engineVersion, Committed[i])
          /\ DOMAIN engines[i].req \subseteq Ids(nextRid)
    /\ HeldBy(Committed, InflightRids, collecting)
    /\ IsInjective(collecting)

SimInv ==
    /\ LoopTypeOK /\ LoopInv /\ nextRid <= MaxRequests
    /\ EngineTypes
    /\ ControlInv
    /\ EnginesInv

LEMMA HeldIsInflight == HeldBy(Committed, InflightRids, collecting) => InflightIsHeld
  BY DEF HeldBy, InflightIsHeld, InflightRids

\* Each instance stands as us says: the events of the others are undone to it.
LEMMA CommittedIs ==
    ASSUME NEW us \in [Instances -> Record],
           \A i \in Instances : Stands(engines[i], events[i], snapshots[i], engineVersion, us[i])
    PROVE  Committed = us
<1>1. \A i \in Instances : Undone(i) = us[i]
  BY StandsUndone DEF Undone, Pending
<1>q. QED
  BY <1>1 DEF Committed

LEMMA CommittedNext ==
    ASSUME NEW us \in [Instances -> Record],
           \A i \in Instances :
              Stands(engines'[i], events'[i], snapshots'[i], engineVersion', us[i])
    PROVE  Committed' = us
<1>1. \A i \in Instances : Undone(i)' = us[i]
  <2> SUFFICES ASSUME NEW i \in Instances PROVE Undone(i)' = us[i]
    OBVIOUS
  <2> DEFINE e == engines'[i]
             ev == events'[i]
             s == snapshots'[i]
             w == engineVersion'
  <2>1. Undone(i)' = IF ev.pending THEN Restore(e, s) ELSE e
    BY DEF Undone, Pending
  <2>2. Stands(e, ev, s, w, us[i])
    OBVIOUS
  <2> HIDE DEF e, ev, s, w
  <2>q. QED
    BY <2>1, <2>2, StandsUndone
<1>q. QED
  BY <1>1 DEF Committed

\* No token is taken back and no entry of step_stats is lost or changed.
Later(a, b) ==
    /\ DOMAIN a.req \subseteq DOMAIN b.req
    /\ \A r \in DOMAIN a.req : a.req[r].generated <= b.req[r].generated
    /\ Len(a.stats) <= Len(b.stats)
    /\ \A k \in 1..Len(a.stats) : b.stats[k] = a.stats[k]

LEMMA LaterRefl ==
    ASSUME NEW i, Well(i)
    PROVE  Later(i, i)
<1>1. \A r \in DOMAIN i.req : i.req[r].generated \in Nat
  BY ReqTyped
<1>2. Len(i.stats) \in Nat
  BY WellFields
<1>q. QED
  BY <1>1, <1>2 DEF Later

LEMMA FollowsLater ==
    ASSUME NEW i, NEW j, NEW done, NEW v, Follows(i, j, done, v)
    PROVE  Later(i, j)
  BY DEF Follows, Grown, Later

\* What every action does to the instances.
EnginesStep ==
    /\ EnginesInv'
    /\ \A i \in Instances : Later(Committed[i], Committed'[i])

LEMMA StepFromInstances ==
    ASSUME NEW us \in [Instances -> Record],
           \A i \in Instances :
              /\ Stands(engines'[i], events'[i], snapshots'[i], engineVersion', us[i])
              /\ DOMAIN engines'[i].req \subseteq Ids(nextRid')
              /\ Later(Committed[i], us[i]),
           HeldBy(us, InflightRids', collecting'), IsInjective(collecting')
    PROVE  EnginesStep
<1>1. Committed' = us
  BY CommittedNext
<1>2. EnginesInv'
  BY <1>1 DEF EnginesInv
<1>q. QED
  BY <1>1, <1>2 DEF EnginesStep

LEMMA CommittedTyped ==
    ASSUME SimInv
    PROVE  /\ Committed \in [Instances -> Record]
           /\ \A i \in Instances : Well(Committed[i]) /\ Well(engines[i])
           /\ \A i \in Instances : DOMAIN Committed[i].req = DOMAIN engines[i].req
<1>1. \A i \in Instances : /\ Stands(engines[i], events[i], snapshots[i], engineVersion,
                                     Committed[i])
  BY DEF SimInv, EnginesInv
<1>2. \A i \in Instances : /\ Well(Committed[i]) /\ Well(engines[i])
                           /\ DOMAIN Committed[i].req = DOMAIN engines[i].req
  BY <1>1 DEF Stands, Follows
<1>3. \A i \in Instances : Committed[i] \in Record
  <2> SUFFICES ASSUME NEW i \in Instances PROVE Committed[i] \in Record
    OBVIOUS
  <2>1. Well(Committed[i])
    BY <1>2
  <2>q. QED
    BY <2>1, WellFields
<1>4. Committed = [i \in Instances |-> Committed[i]]
  BY DEF Committed
<1>q. QED
  BY <1>2, <1>3, <1>4

\* A step that leaves the instances alone.
LEMMA RestStep ==
    ASSUME SimInv, UNCHANGED <<engines, events, snapshots, engineVersion, nextRid, inflight,
                               collecting>>
    PROVE  EnginesStep
<1>1. /\ Committed \in [Instances -> Record]
      /\ \A i \in Instances : Well(Committed[i])
  BY CommittedTyped
<1>2. \A i \in Instances : Later(Committed[i], Committed[i])
  BY <1>1, LaterRefl
<1>3. /\ \A i \in Instances :
            /\ Stands(engines[i], events[i], snapshots[i], engineVersion, Committed[i])
            /\ DOMAIN engines[i].req \subseteq Ids(nextRid)
      /\ HeldBy(Committed, InflightRids, collecting)
      /\ IsInjective(collecting)
  BY DEF SimInv, EnginesInv
<1>4. InflightRids' = InflightRids
  BY DEF InflightRids
<1>5. /\ \A i \in Instances :
            /\ Stands(engines'[i], events'[i], snapshots'[i], engineVersion', Committed[i])
            /\ DOMAIN engines'[i].req \subseteq Ids(nextRid')
            /\ Later(Committed[i], Committed[i])
      /\ HeldBy(Committed, InflightRids', collecting')
      /\ IsInjective(collecting')
  BY <1>2, <1>3, <1>4
<1> DEFINE us == Committed
<1> HIDE DEF us
<1>6. /\ us \in [Instances -> Record]
      /\ \A i \in Instances :
            /\ Stands(engines'[i], events'[i], snapshots'[i], engineVersion', us[i])
            /\ DOMAIN engines'[i].req \subseteq Ids(nextRid')
            /\ Later(Committed[i], us[i])
      /\ HeldBy(us, InflightRids', collecting')
      /\ IsInjective(collecting')
  BY <1>1, <1>5 DEF us
<1>q. QED
  BY <1>6, StepFromInstances

-----------------------------------------------------------------------------
(* The steps of the simulator.                                             *)

\* Instances without events.
LEMMA StandsStill ==
    ASSUME NEW e, NEW ev, NEW s, NEW v, Well(e), ~ev.pending
    PROVE  Stands(e, ev, s, v, e)
  BY DEF Stands

LEMMA NothingPending ==
    ASSUME SimInv, Pending = {}
    PROVE  /\ Committed = engines
           /\ \A i \in Instances : Well(engines[i]) /\ ~events[i].pending
<1>1. \A i \in Instances : Well(engines[i]) /\ ~events[i].pending /\ Undone(i) = engines[i]
  BY CommittedTyped DEF Pending, Undone
<1>2. engines = [i \in Instances |-> engines[i]]
  BY DEF SimInv, EngineTypes
<1>q. QED
  BY <1>1, <1>2 DEF Committed

LEMMA AdmitRids ==
    ASSUME LoopTypeOK, NEW quota, NEW n \in Nat, Admit(quota, n)
    PROVE  InflightRids' = InflightRids \cup NewIds(n)
<1>1. inflight' = inflight \cup NewRequests(n)
  BY DEF Admit
<1>2. InflightRids' = InflightRids \cup {r.rid : r \in NewRequests(n)}
  BY <1>1 DEF InflightRids
<1>3. {r.rid : r \in NewRequests(n)} = NewIds(n)
  <2>1. ASSUME NEW r \in NewRequests(n) PROVE r.rid \in NewIds(n)
    BY DEF NewRequests, NewIds, LoopTypeOK
  <2>2. ASSUME NEW q \in NewIds(n) PROVE \E r \in NewRequests(n) : r.rid = q
    <3> DEFINE r == [rid |-> nextRid + (q - nextRid), v |-> engineVersion]
    <3>1. q - nextRid \in 0..(n - 1) /\ nextRid + (q - nextRid) = q
      BY DEF NewIds, LoopTypeOK
    <3>2. r \in NewRequests(n) /\ r.rid = q
      BY <3>1 DEF NewRequests
    <3>q. QED
      BY <3>2
  <2>q. QED
    BY <2>1, <2>2
<1>q. QED
  BY <1>2, <1>3

\* What Follows says of the requests an instance holds.
LEMMA FollowsHolds ==
    ASSUME NEW i, NEW j, NEW v, Follows(i, j, <<>>, v)
    PROVE  Active(j) = Active(i) /\ DOMAIN j.req = DOMAIN i.req
<1>1. ToSet(<<>>) = {}
  BY DEF ToSet
<1>q. QED
  BY <1>1 DEF Follows

\* Requests are admitted on instances that have only moved on.
LEMMA PlacedStep ==
    ASSUME SimInv, NEW es \in [Instances -> Record], NEW quota \in Quotas,
           \A i \in Instances : Follows(Committed[i], es[i], <<>>, engineVersion),
           Admit(quota, Place(es, quota).n), engines' = Place(es, quota).engines,
           \A i \in Instances : ~events'[i].pending,
           collecting = <<>>, collecting' = <<>>
    PROVE  EnginesStep /\ engines' \in [Instances -> Record]
<1> DEFINE n == Place(es, quota).n
           new == Place(es, quota).engines
<1>1. /\ LoopTypeOK /\ nextRid \in Nat /\ engineVersion' = engineVersion
      /\ nextRid' = nextRid + n
      /\ HeldBy(Committed, InflightRids, <<>>)
      /\ \A i \in Instances : DOMAIN engines[i].req \subseteq Ids(nextRid)
  BY DEF SimInv, LoopTypeOK, EnginesInv, Admit
<1>2. /\ Committed \in [Instances -> Record]
      /\ \A i \in Instances : Well(Committed[i])
      /\ \A i \in Instances : DOMAIN Committed[i].req = DOMAIN engines[i].req
  BY CommittedTyped
<1>3. \A i \in Instances : /\ Well(es[i]) /\ Active(es[i]) = Active(Committed[i])
                           /\ DOMAIN es[i].req = DOMAIN Committed[i].req
                           /\ Later(Committed[i], es[i])
  BY FollowsHolds, FollowsRecord, FollowsLater
<1>4. /\ \A i \in Instances : Well(es[i]) /\ DOMAIN es[i].req \subseteq Ids(nextRid)
      /\ \A i, j \in Instances : i # j => Active(es[i]) \cap Active(es[j]) = {}
  BY <1>1, <1>2, <1>3 DEF HeldBy
<1>5. Place(es, quota) \in PlaceStates(es)
  <2>1. quota \in Int
    BY DEF Quotas
  <2>q. QED
    BY <1>1, <1>4, <2>1, PlaceFacts
<1>6. /\ new \in [Instances -> Record] /\ n \in Nat /\ Placed(es, new, n)
  BY <1>5 DEF PlaceStates, PlaceState
<1>7. engines' = new /\ Admit(quota, n)
  OBVIOUS
<1> HIDE DEF n, new
<1>8. InflightRids' = InflightRids \cup NewIds(n)
  BY <1>1, <1>6, <1>7, AdmitRids
<1>9. \A i \in Instances : /\ Stands(engines'[i], events'[i], snapshots'[i], engineVersion', new[i])
                           /\ DOMAIN engines'[i].req \subseteq Ids(nextRid')
                           /\ Later(Committed[i], new[i])
  <2> SUFFICES ASSUME NEW i \in Instances
               PROVE  /\ Stands(engines'[i], events'[i], snapshots'[i], engineVersion', new[i])
                      /\ DOMAIN engines'[i].req \subseteq Ids(nextRid')
                      /\ Later(Committed[i], new[i])
    OBVIOUS
  <2>1. /\ Well(new[i]) /\ DOMAIN es[i].req \subseteq DOMAIN new[i].req
        /\ DOMAIN new[i].req \subseteq Ids(nextRid + n)
        /\ \A r \in DOMAIN es[i].req : new[i].req[r] = es[i].req[r]
        /\ new[i].stats = es[i].stats
    BY <1>6 DEF Placed
  <2>2. Stands(engines'[i], events'[i], snapshots'[i], engineVersion', new[i])
    BY <1>7, <2>1, StandsStill
  <2>3. Later(Committed[i], new[i])
    <3>1. Later(Committed[i], es[i])
      BY <1>3
    <3>q. QED
      BY <2>1, <3>1 DEF Later
  <2>q. QED
    BY <1>1, <1>7, <2>1, <2>2, <2>3
<1>10. HeldBy(new, InflightRids', collecting')
  <2>1. ToSet(<<>>) = {}
    BY DEF ToSet
  <2>2. InflightRids = UNION {Active(es[i]) : i \in Instances}
    <3>1. InflightRids = UNION {Active(Committed[i]) : i \in Instances}
      BY <1>1, <2>1 DEF HeldBy
    <3>q. QED
      BY <1>3, <3>1
  <2>3. UNION {Active(new[i]) : i \in Instances}
          = (UNION {Active(es[i]) : i \in Instances}) \cup NewIds(n)
    BY <1>6 DEF Placed
  <2>4. \A i, j \in Instances : i # j => Active(new[i]) \cap Active(new[j]) = {}
    BY <1>6 DEF Placed
  <2>q. QED
    BY <1>8, <2>1, <2>2, <2>3, <2>4 DEF HeldBy
<1>11. IsInjective(collecting')
  BY DEF IsInjective
<1>q. QED
  BY <1>6, <1>7, <1>9, <1>10, <1>11, StepFromInstances

LEMMA SimAdmitStep ==
    ASSUME SimInv, SimAdmit
    PROVE  EnginesStep /\ EngineTypes'
<1>1. PICK quota \in Quotas : /\ Admit(quota, Place(engines, quota).n)
                              /\ engines' = Place(engines, quota).engines
  BY DEF SimAdmit
<1>2. /\ pc \in {"top", "retry", "begin"} /\ EngineTypes /\ Pending = {} /\ collecting = <<>>
      /\ collecting' = <<>> /\ events' = events
  BY DEF SimAdmit, SimInv, ControlInv, AtRest
<1>3. /\ Committed = engines
      /\ \A i \in Instances : Well(engines[i]) /\ ~events[i].pending
  BY <1>2, NothingPending
<1>4. \A i \in Instances : Follows(Committed[i], engines[i], <<>>, engineVersion)
  BY <1>3, FollowsRefl
<1>5. engines \in [Instances -> Record] /\ \A i \in Instances : ~events'[i].pending
  BY <1>2, <1>3 DEF EngineTypes
<1>6. EnginesStep /\ engines' \in [Instances -> Record]
  BY <1>1, <1>2, <1>4, <1>5, PlacedStep
<1>7. deadline' \in Nat /\ seeded' = FALSE
      /\ UNCHANGED <<clock, events, snapshots, now, collecting, last>>
  <2>1. \A time \in TrainTimes : now + time \in Nat
    BY <1>2, SimulatorAssumption DEF EngineTypes
  <2>q. QED
    BY <1>2, <2>1 DEF SimAdmit, EngineTypes
<1>q. QED
  BY <1>2, <1>6, <1>7 DEF EngineTypes

LEMMA SimTrainStep ==
    ASSUME SimInv, SimTrain
    PROVE  EnginesStep /\ EngineTypes'
<1>1. PICK batch \in kSubset(BatchSize, ready), newEngine \in {engineVersion, version + 1},
           expired \in SUBSET inflight :
              /\ TakeBatch(batch, newEngine, expired, TRUE)
              /\ engines' = [i \in Instances |-> AfterUpdate(engines[i], expired)]
  BY DEF SimTrain
<1> DEFINE gone == {r.rid : r \in expired}
           new == [i \in Instances |-> AfterUpdate(engines[i], expired)]
<1>2. /\ pc = "take" /\ EngineTypes /\ Pending = {} /\ collecting = <<>>
      /\ UNCHANGED <<clock, events, snapshots, now, deadline, seeded, collecting, last>>
      /\ inflight' = inflight \ expired /\ nextRid' = nextRid
      /\ LoopInv
  BY <1>1 DEF SimTrain, SimInv, ControlInv, AtRest, TakeBatch
<1>3. /\ Committed = engines
      /\ \A i \in Instances : Well(engines[i]) /\ ~events[i].pending
  BY <1>2, NothingPending
<1>4. \A i \in Instances : new[i] \in Record /\ Reworked(engines[i], new[i], gone)
  <2> SUFFICES ASSUME NEW i \in Instances
               PROVE  new[i] \in Record /\ Reworked(engines[i], new[i], gone)
    OBVIOUS
  <2> DEFINE e == engines[i]
             b == AfterUpdate(e, expired)
  <2>1. Well(e)
    BY <1>3
  <2>2. Reworked(e, b, gone)
    <3> HIDE DEF e
    <3>q. QED
      BY <2>1, AfterUpdateFacts
  <2>3. b \in Record
    <3>1. Well(b)
      BY <2>2 DEF Reworked
    <3> HIDE DEF b
    <3>q. QED
      BY <3>1, WellFields
  <2>4. new[i] = b
    OBVIOUS
  <2>q. QED
    BY <2>2, <2>3, <2>4
<1>5. InflightRids' = InflightRids \ gone
  <2>1. \A r, s \in inflight : r.rid = s.rid => r = s
    BY <1>2 DEF LoopInv, AllAccounted, Admitted
  <2>q. QED
    BY <1>2, <2>1 DEF InflightRids
<1>6. engines' = new /\ new \in [Instances -> Record]
  BY <1>1, <1>4
<1> HIDE DEF new, gone
<1>7. \A i \in Instances : /\ Stands(engines'[i], events'[i], snapshots'[i], engineVersion', new[i])
                           /\ DOMAIN engines'[i].req \subseteq Ids(nextRid')
                           /\ Later(Committed[i], new[i])
  <2> SUFFICES ASSUME NEW i \in Instances
               PROVE  /\ Stands(engines'[i], events'[i], snapshots'[i], engineVersion', new[i])
                      /\ DOMAIN engines'[i].req \subseteq Ids(nextRid')
                      /\ Later(Committed[i], new[i])
    OBVIOUS
  <2>1. /\ Well(new[i]) /\ DOMAIN new[i].req = DOMAIN engines[i].req
        /\ \A r \in DOMAIN engines[i].req :
              new[i].req[r].generated = engines[i].req[r].generated
        /\ new[i].stats = engines[i].stats
    BY <1>4 DEF Reworked
  <2>2. Stands(engines'[i], events'[i], snapshots'[i], engineVersion', new[i])
    BY <1>2, <1>3, <1>6, <2>1, StandsStill
  <2>3. Later(Committed[i], new[i])
    <3>1. \A r \in DOMAIN engines[i].req : engines[i].req[r].generated \in Nat
      BY <1>3, ReqTyped
    <3>2. Later(engines[i], engines[i])
      BY <1>3, LaterRefl
    <3>q. QED
      BY <1>3, <2>1, <3>1, <3>2 DEF Later
  <2>4. DOMAIN engines[i].req \subseteq Ids(nextRid)
    BY DEF SimInv, EnginesInv
  <2>q. QED
    BY <1>2, <1>6, <2>1, <2>2, <2>3, <2>4
<1>8. HeldBy(new, InflightRids', collecting')
  <2>1. HeldBy(engines, InflightRids, <<>>)
    BY <1>2, <1>3 DEF SimInv, EnginesInv
  <2>2. ToSet(<<>>) = {}
    BY DEF ToSet
  <2>3. \A i \in Instances : Active(new[i]) = Active(engines[i]) \ gone
    BY <1>4 DEF Reworked
  <2>4. UNION {Active(new[i]) : i \in Instances}
          = (UNION {Active(engines[i]) : i \in Instances}) \ gone
    BY <2>3
  <2>q. QED
    BY <1>2, <1>5, <2>1, <2>2, <2>3, <2>4 DEF HeldBy
<1>9. IsInjective(collecting')
  BY <1>2 DEF IsInjective
<1>10. EnginesStep
  BY <1>6, <1>7, <1>8, <1>9, StepFromInstances
<1>q. QED
  BY <1>2, <1>6, <1>10 DEF EngineTypes

\* An instance that has something to do produces its next event.
LEMMA ProducedStands ==
    ASSUME NEW e, NEW v \in Nat, Well(e), ~Idle(e), NEW t \in Nat
    PROVE  LET start == PromoteReady(e)
               event == AdvanceOneEvent(start, v)
               ev == [done |-> event.done, t |-> t + event.dt, pending |-> TRUE]
           IN /\ Follows(e, start, <<>>, v)
              /\ Stands(event.inst, ev, Capture(start), v, start)
              /\ DOMAIN event.inst.req = DOMAIN e.req
              /\ event.inst \in Record /\ start \in Record /\ ev \in EventType
              /\ event.dt \in Nat
<1> DEFINE start == PromoteReady(e)
           event == AdvanceOneEvent(start, v)
           ev == [done |-> event.done, t |-> t + event.dt, pending |-> TRUE]
<1>1. Follows(e, start, <<>>, v)
  BY PromoteReadyFollows
<1> HIDE DEF start
<1>2. Well(start) /\ start \in Record /\ Active(start) = Active(e) /\ DOMAIN start.req = DOMAIN e.req
  BY <1>1, FollowsHolds, FollowsRecord
<1>3. EventOf(start, event, v)
  <2>1. ~Idle(start)
    BY <1>2 DEF Idle
  <2>q. QED
    BY <1>2, <2>1, EventFollows
<1> HIDE DEF event
<1>4. Follows(start, event.inst, event.done, v) /\ event.dt \in Nat
  BY <1>3 DEF EventOf
<1>5. Well(event.inst) /\ event.inst \in Record /\ event.done \in Seq(Nat)
  BY <1>4, FollowsRecord
<1>6. /\ ev \in EventType /\ ev.pending = TRUE /\ ev.done = event.done
  BY <1>4, <1>5 DEF EventType
<1>7. DOMAIN event.inst.req = DOMAIN e.req
  BY <1>2, <1>4 DEF Follows
<1> HIDE DEF ev
<1>8. Stands(event.inst, ev, Capture(start), v, start)
  BY <1>2, <1>4, <1>6 DEF Stands
<1>q. QED
  BY <1>1, <1>2, <1>4, <1>5, <1>6, <1>7, <1>8 DEF ev, event, start

\* Instances of S produce their next events.
LEMMA ProduceStep ==
    ASSUME SimInv, NEW S \in SUBSET Instances, S \cap Pending = {}, Produce(Produced(S)),
           UNCHANGED <<loopVars, clock, now, deadline, collecting, last>>,
           seeded' \in BOOLEAN
    PROVE  EnginesStep /\ EngineTypes'
<1> DEFINE p == Produced(S)
           B == {j \in S : ~Idle(engines[j])}
           us == [i \in Instances |-> IF i \in B THEN PromoteReady(engines[i])
                                      ELSE Committed[i]]
<1>1. /\ EngineTypes /\ engineVersion \in Nat
      /\ HeldBy(Committed, InflightRids, collecting) /\ IsInjective(collecting)
      /\ \A i \in Instances :
            /\ Stands(engines[i], events[i], snapshots[i], engineVersion, Committed[i])
            /\ DOMAIN engines[i].req \subseteq Ids(nextRid)
  BY DEF SimInv, EnginesInv, LoopTypeOK
<1>2. /\ Committed \in [Instances -> Record]
      /\ \A i \in Instances : Well(Committed[i]) /\ Well(engines[i])
  BY CommittedTyped
<1>3. /\ UNCHANGED <<engineVersion, nextRid, inflight, clock, now, deadline, collecting, last>>
  BY DEF loopVars
<1>4. /\ engines' = [i \in Instances |-> IF i \in DOMAIN p THEN p[i].inst ELSE engines[i]]
      /\ events' = [i \in Instances |-> IF i \in DOMAIN p THEN p[i].event ELSE events[i]]
      /\ snapshots' = [i \in Instances |-> IF i \in DOMAIN p THEN p[i].snapshot
                                           ELSE snapshots[i]]
  BY DEF Produce
<1>5. /\ DOMAIN p = B
      /\ \A i \in B :
            LET start == PromoteReady(engines[i])
                event == AdvanceOneEvent(start, engineVersion)
            IN /\ p[i].inst = event.inst
               /\ p[i].event = [done |-> event.done, t |-> clock[i] + event.dt,
                                pending |-> TRUE]
               /\ p[i].snapshot = Capture(start)
  BY DEF Produced
<1> HIDE DEF p
<1>6. \A i \in B : /\ i \in Instances /\ i \notin Pending /\ Committed[i] = engines[i]
                   /\ ~Idle(engines[i]) /\ Well(engines[i]) /\ clock[i] \in Nat
  <2>1. \A i \in B : i \in Instances /\ i \notin Pending /\ ~Idle(engines[i])
    OBVIOUS
  <2>2. \A i \in B : Committed[i] = engines[i]
    BY <2>1 DEF Committed, Undone
  <2>q. QED
    BY <1>1, <1>2, <2>1, <2>2 DEF EngineTypes
<1>7. \A i \in B : /\ us[i] \in Record /\ engines'[i] \in Record /\ events'[i] \in EventType
                   /\ Stands(engines'[i], events'[i], snapshots'[i], engineVersion, us[i])
                   /\ DOMAIN engines'[i].req = DOMAIN engines[i].req
                   /\ Follows(engines[i], us[i], <<>>, engineVersion)
  <2> SUFFICES ASSUME NEW i \in B
               PROVE  /\ us[i] \in Record /\ engines'[i] \in Record /\ events'[i] \in EventType
                      /\ Stands(engines'[i], events'[i], snapshots'[i], engineVersion, us[i])
                      /\ DOMAIN engines'[i].req = DOMAIN engines[i].req
                      /\ Follows(engines[i], us[i], <<>>, engineVersion)
    OBVIOUS
  <2> DEFINE e == engines[i]
             t == clock[i]
             start == PromoteReady(e)
             event == AdvanceOneEvent(start, engineVersion)
             ev == [done |-> event.done, t |-> t + event.dt, pending |-> TRUE]
  <2>1. /\ us[i] = start /\ engines'[i] = event.inst /\ events'[i] = ev
        /\ snapshots'[i] = Capture(start)
    BY <1>4, <1>5, <1>6
  <2>2. ~Idle(e) /\ Well(e) /\ t \in Nat
    BY <1>6
  <2> HIDE DEF e, t
  <2>3. /\ Follows(e, start, <<>>, engineVersion)
        /\ Stands(event.inst, ev, Capture(start), engineVersion, start)
        /\ DOMAIN event.inst.req = DOMAIN e.req
        /\ event.inst \in Record /\ start \in Record /\ ev \in EventType
    BY <1>1, <2>2, ProducedStands
  <2> HIDE DEF start, event, ev, us
  <2>q. QED
    BY <2>1, <2>3 DEF e
<1>8. \A i \in Instances \ B : /\ us[i] = Committed[i] /\ engines'[i] = engines[i]
                               /\ events'[i] = events[i] /\ snapshots'[i] = snapshots[i]
  BY <1>4, <1>5
<1>d. DOMAIN us = Instances /\ us = [i \in Instances |-> us[i]]
  OBVIOUS
<1> HIDE DEF us, B
<1>9. /\ us \in [Instances -> Record] /\ engines' \in [Instances -> Record]
      /\ events' \in [Instances -> EventType]
  <2>1. \A i \in Instances : /\ us[i] \in Record /\ engines'[i] \in Record
                             /\ events'[i] \in EventType
    BY <1>1, <1>2, <1>7, <1>8 DEF EngineTypes
  <2>q. QED
    BY <1>4, <1>d, <2>1
<1>10. \A i \in Instances :
          /\ Active(us[i]) = Active(Committed[i]) /\ Later(Committed[i], us[i])
          /\ DOMAIN engines'[i].req \subseteq Ids(nextRid)
          /\ Stands(engines'[i], events'[i], snapshots'[i], engineVersion', us[i])
  <2> SUFFICES ASSUME NEW i \in Instances
               PROVE  /\ Active(us[i]) = Active(Committed[i]) /\ Later(Committed[i], us[i])
                      /\ DOMAIN engines'[i].req \subseteq Ids(nextRid)
                      /\ Stands(engines'[i], events'[i], snapshots'[i], engineVersion', us[i])
    OBVIOUS
  <2>1. CASE i \in B
    <3>1. Follows(Committed[i], us[i], <<>>, engineVersion)
      BY <1>6, <1>7, <2>1
    <3>2. Active(us[i]) = Active(Committed[i]) /\ Later(Committed[i], us[i])
      BY <3>1, FollowsHolds, FollowsLater
    <3>q. QED
      BY <1>1, <1>3, <1>7, <2>1, <3>2
  <2>2. CASE i \notin B
    <3>1. Later(Committed[i], Committed[i])
      BY <1>2, LaterRefl
    <3>q. QED
      BY <1>1, <1>3, <1>8, <2>2, <3>1
  <2>q. QED
    BY <2>1, <2>2
<1>11. HeldBy(us, InflightRids', collecting')
  <2>1. InflightRids' = InflightRids /\ collecting' = collecting
    BY <1>3 DEF InflightRids
  <2>q. QED
    BY <1>1, <1>10, <2>1 DEF HeldBy
<1>12. EnginesStep
  BY <1>1, <1>3, <1>9, <1>10, <1>11, StepFromInstances
<1>q. QED
  BY <1>1, <1>3, <1>9, <1>12 DEF EngineTypes

LEMMA SeedStep ==
    ASSUME SimInv, SeedEvents
    PROVE  EnginesStep /\ EngineTypes'
<1>1. Pending = {}
  BY DEF SeedEvents, SimInv, ControlInv, AtRest
<1>2. Instances \cap Pending = {} /\ Instances \in SUBSET Instances /\ seeded' \in BOOLEAN
      /\ Produce(Produced(Instances))
      /\ UNCHANGED <<loopVars, clock, now, deadline, collecting, last>>
  BY <1>1 DEF SeedEvents
<1>q. QED
  BY <1>2, ProduceStep

LEMMA ProduceNextStep ==
    ASSUME SimInv, ProduceNext
    PROVE  EnginesStep /\ EngineTypes'
<1>1. /\ {last} \cap Pending = {} /\ {last} \in SUBSET Instances /\ seeded' \in BOOLEAN
      /\ Produce(Produced({last}))
      /\ UNCHANGED <<loopVars, clock, now, deadline, collecting, last>>
  BY DEF ProduceNext, Owes, SimInv, EngineTypes
<1>q. QED
  BY <1>1, ProduceStep

LEMMA EarliestFacts ==
    ASSUME EngineTypes, Pending # {}
    PROVE  /\ Earliest \in Pending
           /\ \A j \in Pending : events[Earliest].t <= events[j].t
<1> DEFINE P == Pending
           tm(i) == events[i].t
           S == {tm(i) : i \in P}
           m == Min(S)
           T == {i \in P : tm(i) = m}
           Q(i) == \A j \in P : tm(i) < tm(j) \/ (tm(i) = tm(j) /\ i <= j)
<1>1. P \subseteq Instances /\ IsFiniteSet(P) /\ (\A i \in P : i \in Int)
  BY InstancesFinite, FS_Subset DEF Pending
<1>2. \A i \in P : tm(i) \in Nat
  BY <1>1 DEF EngineTypes, EventType
<1>3. Earliest = CHOOSE i \in P : Q(i)
  BY DEF Earliest
<1>p. P # {}
  OBVIOUS
<1> HIDE DEF tm, P
<1>4. IsFiniteSet(S) /\ S # {} /\ \A n \in S : n \in Int
  <2> DEFINE f == [i \in P |-> tm(i)]
  <2>0. f \in Surjection(P, S)
    BY DEF Surjection
  <2> HIDE DEF f
  <2>1. IsFiniteSet(S)
    BY <1>1, <2>0, FS_Surjection
  <2>q. QED
    BY <1>2, <1>p, <2>1
<1>5. m \in S /\ \A n \in S : m <= n
  <2> HIDE DEF S
  <2>q. QED
    BY <1>4, MinIsLeast
<1>6. \A j \in P : m <= tm(j)
  BY <1>5
<1>7. m \in Nat
  BY <1>2, <1>5
<1>8. T # {} /\ IsFiniteSet(T) /\ \A i \in T : i \in Int
  <2>1. T # {}
    BY <1>5
  <2>2. T \subseteq P
    OBVIOUS
  <2>q. QED
    BY <1>1, <2>1, <2>2, FS_Subset
<1> HIDE DEF m
<1>9. Min(T) \in T /\ \A j \in T : Min(T) <= j
  <2> HIDE DEF T
  <2>q. QED
    BY <1>8, MinIsLeast
<1>10. Q(Min(T)) /\ Min(T) \in P
  <2> DEFINE x == Min(T)
  <2>1. x \in P /\ tm(x) = m /\ \A j \in P : tm(j) = m => x <= j
    BY <1>9
  <2> HIDE DEF x
  <2>2. Q(x)
    BY <1>2, <1>6, <1>7, <2>1
  <2>q. QED
    BY <2>1, <2>2 DEF x
<1>11. \E i \in P : Q(i)
  BY <1>10
<1>12. Earliest \in P /\ Q(Earliest)
  <2> DEFINE x == Earliest
  <2>1. x = CHOOSE i \in P : Q(i)
    BY <1>3
  <2> HIDE DEF x, Q
  <2>2. x \in P /\ Q(x)
    BY <1>11, <2>1
  <2>q. QED
    BY <2>2 DEF x
<1>13. \A j \in P : tm(Earliest) <= tm(j)
  BY <1>2, <1>12
<1>q. QED
  BY <1>12, <1>13 DEF P, tm

LEMMA CommitStep ==
    ASSUME SimInv, CommitEvent
    PROVE  EnginesStep /\ EngineTypes'
<1> DEFINE i == Earliest
           us == [Committed EXCEPT ![i] = engines[i]]
           done == events[i].done
<1>1. /\ EngineTypes /\ Pending # {} /\ collecting = <<>>
      /\ now' = Max({now, events[i].t})
      /\ clock' = [clock EXCEPT ![i] = events[i].t]
      /\ events' = [events EXCEPT ![i] = NoEvent]
      /\ collecting' = done /\ last' = i
      /\ UNCHANGED <<engines, snapshots, deadline, seeded>>
      /\ UNCHANGED <<engineVersion, nextRid, inflight>>
  BY DEF CommitEvent, AtQueue, SimInv, loopVars
<1>2. i \in Pending /\ i \in Instances
  BY <1>1, EarliestFacts DEF Pending
<1>3. /\ HeldBy(Committed, InflightRids, <<>>)
      /\ \A j \in Instances :
            /\ Stands(engines[j], events[j], snapshots[j], engineVersion, Committed[j])
            /\ DOMAIN engines[j].req \subseteq Ids(nextRid)
  BY <1>1 DEF SimInv, EnginesInv
<1>4. /\ Committed \in [Instances -> Record]
      /\ \A j \in Instances : Well(Committed[j]) /\ Well(engines[j])
  BY CommittedTyped
<1> HIDE DEF i
<1>5. Follows(Committed[i], engines[i], done, engineVersion)
  BY <1>2, <1>3 DEF Stands, Pending
<1>6. /\ done \in Seq(Nat) /\ ToSet(done) \subseteq Active(Committed[i])
      /\ Active(engines[i]) = Active(Committed[i]) \ ToSet(done)
      /\ engines[i].completed = Committed[i].completed \o done
      /\ Later(Committed[i], engines[i])
  BY <1>5, FollowsLater DEF Follows
<1>7. IsInjective(done)
  <2> DEFINE a == Committed[i].completed
             b == a \o done
  <2>1. a \in Seq(Nat) /\ IsInjective(b)
    <3>1. Well(Committed[i]) /\ Well(engines[i])
      BY <1>2, <1>4
    <3>q. QED
      BY <1>6, <3>1 DEF Well
  <2> HIDE DEF a, done
  <2>2. /\ Len(a) \in Nat /\ Len(done) \in Nat /\ DOMAIN done = 1..Len(done)
        /\ \A k \in 1..Len(done) : b[Len(a) + k] = done[k]
        /\ DOMAIN b = 1..(Len(a) + Len(done))
    BY <1>6, <2>1
  <2>3. \A k \in 1..Len(done) : Len(a) + k \in DOMAIN b
    BY <2>2
  <2>4. \A k, l \in 1..Len(done) : Len(a) + k = Len(a) + l => k = l
    BY <2>2
  <2> HIDE DEF b
  <2>5. \A k, l \in 1..Len(done) : done[k] = done[l] => k = l
    <3> SUFFICES ASSUME NEW k \in 1..Len(done), NEW l \in 1..Len(done), done[k] = done[l]
                 PROVE  k = l
      OBVIOUS
    <3>1. b[Len(a) + k] = b[Len(a) + l]
      BY <2>2
    <3>2. Len(a) + k = Len(a) + l
      BY <2>1, <2>3, <3>1 DEF IsInjective
    <3>q. QED
      BY <2>4, <3>2
  <2>q. QED
    BY <2>2, <2>5 DEF IsInjective
<1>8. /\ us \in [Instances -> Record] /\ us[i] = engines[i]
      /\ \A j \in Instances \ {i} : us[j] = Committed[j]
  <2>1. engines[i] \in Record
    BY <1>1, <1>2 DEF EngineTypes
  <2>q. QED
    BY <1>2, <1>4, <2>1
<1>9. ~NoEvent.pending /\ NoEvent \in EventType
  BY DEF NoEvent, EventType
<1>10. /\ ~events'[i].pending /\ \A j \in Instances \ {i} : events'[j] = events[j]
       /\ events' \in [Instances -> EventType]
  BY <1>1, <1>2, <1>9 DEF EngineTypes
<1> HIDE DEF us, done
<1>11. \A j \in Instances :
          /\ Stands(engines'[j], events'[j], snapshots'[j], engineVersion', us[j])
          /\ DOMAIN engines'[j].req \subseteq Ids(nextRid')
          /\ Later(Committed[j], us[j])
  <2> SUFFICES ASSUME NEW j \in Instances
               PROVE  /\ Stands(engines'[j], events'[j], snapshots'[j], engineVersion', us[j])
                      /\ DOMAIN engines'[j].req \subseteq Ids(nextRid')
                      /\ Later(Committed[j], us[j])
    OBVIOUS
  <2>1. CASE j = i
    <3>1. Stands(engines[i], events'[i], snapshots'[i], engineVersion', engines[i])
      BY <1>2, <1>4, <1>10, StandsStill
    <3>q. QED
      BY <1>1, <1>3, <1>6, <1>8, <2>1, <3>1
  <2>2. CASE j # i
    <3>1. Later(Committed[j], Committed[j])
      BY <1>4, LaterRefl
    <3>q. QED
      BY <1>1, <1>3, <1>8, <1>10, <2>2, <3>1
  <2>q. QED
    BY <2>1, <2>2
<1>12. HeldBy(us, InflightRids', collecting')
  <2>1. InflightRids' = InflightRids /\ collecting' = done
    BY <1>1 DEF InflightRids, done
  <2>2. ToSet(<<>>) = {}
    BY DEF ToSet
  <2>3. \A j \in Instances : Active(us[j]) = Active(Committed[j]) \ ToSet(done)
    <3>1. \A j \in Instances \ {i} : Active(Committed[j]) \cap ToSet(done) = {}
      BY <1>2, <1>3, <1>6 DEF HeldBy
    <3>q. QED
      BY <1>6, <1>8, <3>1
  <2>4. InflightRids = UNION {Active(Committed[j]) : j \in Instances}
    BY <1>3, <2>2 DEF HeldBy
  <2>5. InflightRids = (UNION {Active(us[j]) : j \in Instances}) \cup ToSet(done)
    BY <1>2, <1>6, <2>3, <2>4
  <2>6. \A j, l \in Instances : j # l => Active(us[j]) \cap Active(us[l]) = {}
    BY <1>3, <2>3 DEF HeldBy
  <2>q. QED
    BY <2>1, <2>3, <2>5, <2>6 DEF HeldBy
<1>13. EnginesStep
  <2>1. IsInjective(collecting')
    BY <1>1, <1>7 DEF done
  <2>q. QED
    BY <1>8, <1>11, <1>12, <2>1, StepFromInstances
<1>14. now' \in Nat /\ clock' \in [Instances -> Nat]
  <2>1. now \in Nat /\ events[i].t \in Nat
    BY <1>1, <1>2 DEF EngineTypes, EventType
  <2>2. now \in Int /\ events[i].t \in Int
    BY <2>1
  <2>3. Max({now, events[i].t}) \in {now, events[i].t}
    BY <2>2, MaxOfTwo
  <2>q. QED
    BY <1>1, <1>2, <2>1, <2>3 DEF EngineTypes
<1>q. QED
  BY <1>1, <1>2, <1>6, <1>10, <1>13, <1>14 DEF EngineTypes, done

LEMMA CollectStep ==
    ASSUME SimInv, SimCollect
    PROVE  EnginesStep /\ EngineTypes'
<1>1. /\ EngineTypes /\ collecting # <<>> /\ collecting' = Tail(collecting)
      /\ UNCHANGED <<engines, clock, events, snapshots, now, deadline, seeded, last>>
      /\ LoopInv
  BY DEF SimCollect, SimInv
<1>2. PICK r \in inflight : r.rid = Head(collecting) /\ Complete(r, TRUE)
  BY DEF SimCollect
<1>3. inflight' = inflight \ {r} /\ UNCHANGED <<engineVersion, nextRid>>
  BY <1>2 DEF Complete
<1>4. /\ HeldBy(Committed, InflightRids, collecting) /\ IsInjective(collecting)
      /\ \A j \in Instances :
            /\ Stands(engines[j], events[j], snapshots[j], engineVersion, Committed[j])
            /\ DOMAIN engines[j].req \subseteq Ids(nextRid)
  BY DEF SimInv, EnginesInv
<1>5. /\ Committed \in [Instances -> Record]
      /\ \A j \in Instances : Well(Committed[j]) /\ Later(Committed[j], Committed[j])
  BY CommittedTyped, LaterRefl
<1>6. /\ Tail(collecting) \in Seq(Nat) /\ IsInjective(Tail(collecting))
      /\ ToSet(Tail(collecting)) = ToSet(collecting) \ {r.rid}
      /\ r.rid \in ToSet(collecting)
  <2> DEFINE c == collecting
             n == Len(c)
             d == Tail(c)
  <2>1. /\ c \in Seq(Nat) /\ c # <<>> /\ IsInjective(c) /\ r.rid = c[1]
    BY <1>1, <1>2, <1>4 DEF EngineTypes
  <2> HIDE DEF c
  <2>2. /\ n \in Nat /\ n >= 1 /\ DOMAIN c = 1..n
        /\ d \in Seq(Nat) /\ Len(d) = n - 1 /\ DOMAIN d = 1..(n - 1)
        /\ \A k \in 1..(n - 1) : d[k] = c[k + 1]
    BY <2>1
  <2> HIDE DEF d, n
  <2>3. /\ \A k \in 1..(n - 1) : k + 1 \in 1..n /\ k + 1 # 1
        /\ \A k \in 1..n : k # 1 => k - 1 \in 1..(n - 1) /\ (k - 1) + 1 = k
        /\ 1 \in 1..n
        /\ \A k, l \in 1..(n - 1) : k + 1 = l + 1 => k = l
    BY <2>2
  <2>4. IsInjective(d)
    <3> SUFFICES ASSUME NEW k \in 1..(n - 1), NEW l \in 1..(n - 1), d[k] = d[l]
                 PROVE  k = l
      BY <2>2 DEF IsInjective
    <3>1. c[k + 1] = c[l + 1]
      BY <2>2
    <3>2. k + 1 = l + 1
      BY <2>1, <2>2, <2>3, <3>1 DEF IsInjective
    <3>q. QED
      BY <2>3, <3>2
  <2>5. ToSet(d) = ToSet(c) \ {c[1]}
    <3>1. ASSUME NEW x \in ToSet(d) PROVE x \in ToSet(c) /\ x # c[1]
      <4>1. PICK k \in 1..(n - 1) : x = d[k]
        BY <2>2 DEF ToSet
      <4>2. x = c[k + 1] /\ k + 1 \in 1..n /\ k + 1 # 1
        BY <2>2, <2>3, <4>1
      <4>q. QED
        BY <2>1, <2>2, <2>3, <4>2 DEF ToSet, IsInjective
    <3>2. ASSUME NEW x \in ToSet(c), x # c[1] PROVE x \in ToSet(d)
      <4>1. PICK k \in 1..n : x = c[k]
        BY <2>2 DEF ToSet
      <4>2. k - 1 \in 1..(n - 1) /\ x = d[k - 1]
        BY <2>2, <2>3, <3>2, <4>1
      <4>q. QED
        BY <2>2, <4>2 DEF ToSet
    <3>q. QED
      BY <3>1, <3>2
  <2>6. c[1] \in ToSet(c)
    BY <2>2, <2>3 DEF ToSet
  <2>q. QED
    BY <2>1, <2>2, <2>4, <2>5, <2>6 DEF c, d
<1>7. InflightRids' = InflightRids \ {r.rid}
  <2>1. \A q, s \in inflight : q.rid = s.rid => q = s
    BY <1>1 DEF LoopInv, AllAccounted, Admitted
  <2>q. QED
    BY <1>2, <1>3, <2>1 DEF InflightRids
<1> DEFINE us == Committed
<1>8. HeldBy(us, InflightRids', collecting')
  <2>1. us = Committed /\ HeldBy(us, InflightRids, collecting)
    BY <1>4
  <2> HIDE DEF us
  <2>2. /\ InflightRids = (UNION {Active(us[i]) : i \in Instances}) \cup ToSet(collecting)
        /\ \A i \in Instances : Active(us[i]) \cap ToSet(collecting) = {}
        /\ \A i, j \in Instances : i # j => Active(us[i]) \cap Active(us[j]) = {}
    BY <2>1 DEF HeldBy
  <2>3. ToSet(collecting') = ToSet(collecting) \ {r.rid} /\ r.rid \in ToSet(collecting)
    BY <1>1, <1>6
  <2>4. \A i \in Instances : r.rid \notin Active(us[i])
    BY <2>2, <2>3
  <2>5. InflightRids' = (UNION {Active(us[i]) : i \in Instances}) \cup ToSet(collecting')
    BY <1>7, <2>2, <2>3, <2>4
  <2>6. \A i \in Instances : Active(us[i]) \cap ToSet(collecting') = {}
    BY <2>2, <2>3
  <2>q. QED
    BY <2>2, <2>5, <2>6 DEF HeldBy
<1>9. \A j \in Instances :
          /\ Stands(engines'[j], events'[j], snapshots'[j], engineVersion', us[j])
          /\ DOMAIN engines'[j].req \subseteq Ids(nextRid')
          /\ Later(Committed[j], us[j])
  BY <1>1, <1>3, <1>4, <1>5
<1>10. us \in [Instances -> Record]
  BY <1>5
<1> HIDE DEF us
<1>11. EnginesStep
  BY <1>1, <1>6, <1>8, <1>9, <1>10, StepFromInstances
<1>q. QED
  BY <1>1, <1>6, <1>11 DEF EngineTypes

\* The instances have only moved on, to the time t at most.
MovedOn(a, t) ==
    \A i \in Instances :
       /\ a[i].inst \in Record /\ a[i].left \in Int
       /\ a[i].left <= t - clock[i]
       /\ a[i].done = <<>> => Follows(Committed[i], a[i].inst, <<>>, engineVersion)

LEMMA AdvanceStateFields ==
    ASSUME NEW i, NEW time \in Int, NEW v, NEW a \in AdvanceStates(i, time, v)
    PROVE  /\ a.inst \in Record /\ a.left \in Int /\ a.left <= time
           /\ Follows(i, a.inst, a.done, v)
           /\ time >= 0 => a.left >= 0
  BY DEF AdvanceStates, AdvanceState

LEMMA AlignedMoved ==
    ASSUME SimInv, NEW t \in Nat
    PROVE  MovedOn(Aligned(t), t)
<1> SUFFICES ASSUME NEW i \in Instances
             PROVE  /\ Aligned(t)[i].inst \in Record /\ Aligned(t)[i].left \in Int
                    /\ Aligned(t)[i].left <= t - clock[i]
                    /\ Aligned(t)[i].done = <<>> =>
                         Follows(Committed[i], Aligned(t)[i].inst, <<>>, engineVersion)
  BY DEF MovedOn
<1> DEFINE u == Committed[i]
           time == t - clock[i]
           b == AdvanceTo(u, time, engineVersion)
<1>1. Aligned(t)[i] = b
  BY DEF Aligned, Committed
<1>2. Well(u) /\ time \in Int /\ engineVersion \in Nat
  BY CommittedTyped DEF SimInv, EngineTypes, LoopTypeOK
<1> HIDE DEF u, time
<1>3. b \in AdvanceStates(u, time, engineVersion)
  BY <1>2, AdvanceToFollows
<1> HIDE DEF b
<1>4. /\ b.inst \in Record /\ b.left \in Int /\ b.left <= time
      /\ Follows(u, b.inst, b.done, engineVersion)
  BY <1>2, <1>3, AdvanceStateFields
<1>5. b.done = <<>> => Follows(u, b.inst, <<>>, engineVersion)
  BY <1>4
<1>q. QED
  BY <1>1, <1>4, <1>5 DEF u, time

LEMMA AlignedAgainMoved ==
    ASSUME SimInv, NEW t \in Nat, NEW a, MovedOn(a, t), NothingExtra(a)
    PROVE  MovedOn(AlignedAgain(a), t)
<1> SUFFICES ASSUME NEW i \in Instances
             PROVE  /\ AlignedAgain(a)[i].inst \in Record /\ AlignedAgain(a)[i].left \in Int
                    /\ AlignedAgain(a)[i].left <= t - clock[i]
                    /\ AlignedAgain(a)[i].done = <<>> =>
                         Follows(Committed[i], AlignedAgain(a)[i].inst, <<>>, engineVersion)
  BY DEF MovedOn
<1> DEFINE e == a[i].inst
           time == a[i].left
           b == AdvanceTo(e, time, engineVersion)
<1>1. AlignedAgain(a)[i] = b
  BY DEF AlignedAgain
<1>2. /\ Follows(Committed[i], e, <<>>, engineVersion) /\ time \in Int /\ engineVersion \in Nat
      /\ time <= t - clock[i] /\ clock[i] \in Nat /\ Well(Committed[i])
  BY CommittedTyped DEF SimInv, EngineTypes, LoopTypeOK, MovedOn, NothingExtra
<1> HIDE DEF e, time
<1>3. Well(e)
  BY <1>2, FollowsRecord
<1>4. b \in AdvanceStates(e, time, engineVersion)
  BY <1>2, <1>3, AdvanceToFollows
<1> HIDE DEF b
<1>5. /\ b.inst \in Record /\ b.left \in Int /\ b.left <= time
      /\ Follows(e, b.inst, b.done, engineVersion)
  BY <1>2, <1>4, AdvanceStateFields
<1>6. b.done = <<>> => Follows(Committed[i], b.inst, <<>>, engineVersion)
  <2> SUFFICES ASSUME b.done = <<>> PROVE Follows(Committed[i], b.inst, <<>>, engineVersion)
    OBVIOUS
  <2>1. Follows(e, b.inst, <<>>, engineVersion)
    BY <1>5
  <2>q. QED
    BY <1>2, <2>1, WorkedTwice
<1>7. b.left <= t - clock[i]
  BY <1>2, <1>5
<1>q. QED
  BY <1>1, <1>5, <1>6, <1>7

\* The end of an engine run: every event is undone, every instance aligned.
LEMMA AlignedStep ==
    ASSUME SimInv, NEW a, NEW t \in Nat, NEW force \in BOOLEAN, MovedOn(a, t),
           UndoAndAlign(a, t, force), collecting = <<>>,
           UNCHANGED <<engineVersion, nextRid, inflight, deadline, seeded, collecting, last>>
    PROVE  EnginesStep /\ EngineTypes'
<1> DEFINE us == [i \in Instances |-> a[i].inst]
<1>1. /\ EngineTypes /\ HeldBy(Committed, InflightRids, <<>>)
      /\ \A i \in Instances : DOMAIN engines[i].req \subseteq Ids(nextRid)
  BY DEF SimInv, EnginesInv
<1>2. /\ \A i \in Instances : DOMAIN Committed[i].req = DOMAIN engines[i].req
  BY CommittedTyped
<1>3. /\ \A i \in Instances : a[i].done = <<>>
      /\ engines' = us
      /\ clock' = [i \in Instances |-> IF force THEN t ELSE t - a[i].left]
      /\ events' = [i \in Instances |-> NoEvent]
      /\ now' = Max({now, t})
  BY DEF UndoAndAlign, NothingExtra
<1>4. \A i \in Instances : /\ us[i] \in Record /\ Well(us[i])
                           /\ Active(us[i]) = Active(Committed[i])
                           /\ DOMAIN us[i].req = DOMAIN Committed[i].req
                           /\ Later(Committed[i], us[i])
  <2> SUFFICES ASSUME NEW i \in Instances
               PROVE  /\ us[i] \in Record /\ Well(us[i])
                      /\ Active(us[i]) = Active(Committed[i])
                      /\ DOMAIN us[i].req = DOMAIN Committed[i].req
                      /\ Later(Committed[i], us[i])
    OBVIOUS
  <2>1. Follows(Committed[i], us[i], <<>>, engineVersion)
    BY <1>3 DEF MovedOn
  <2> HIDE DEF us
  <2>q. QED
    BY <2>1, FollowsHolds, FollowsRecord, FollowsLater
<1>5. us \in [Instances -> Record]
  BY <1>4
<1>6. /\ \A i \in Instances : ~events'[i].pending
      /\ events' \in [Instances -> EventType]
  BY <1>3 DEF NoEvent, EventType
<1>7. now' \in Nat
  <2>1. now \in Int /\ t \in Int /\ now \in Nat
    BY <1>1 DEF EngineTypes
  <2>2. Max({now, t}) \in {now, t}
    BY <2>1, MaxOfTwo
  <2>q. QED
    BY <1>3, <2>1, <2>2
<1>8. clock' \in [Instances -> Nat]
  <2>1. \A i \in Instances : t - a[i].left \in Nat
    BY <1>1 DEF EngineTypes, MovedOn
  <2>q. QED
    BY <1>3, <2>1
<1> HIDE DEF us
<1>9. \A i \in Instances :
          /\ Stands(engines'[i], events'[i], snapshots'[i], engineVersion', us[i])
          /\ DOMAIN engines'[i].req \subseteq Ids(nextRid')
          /\ Later(Committed[i], us[i])
  <2> SUFFICES ASSUME NEW i \in Instances
               PROVE  /\ Stands(engines'[i], events'[i], snapshots'[i], engineVersion', us[i])
                      /\ DOMAIN engines'[i].req \subseteq Ids(nextRid')
                      /\ Later(Committed[i], us[i])
    OBVIOUS
  <2>1. Stands(us[i], events'[i], snapshots'[i], engineVersion', us[i])
    BY <1>4, <1>6, StandsStill
  <2>q. QED
    BY <1>1, <1>2, <1>3, <1>4, <2>1
<1>10. HeldBy(us, InflightRids', collecting')
  <2>1. InflightRids' = InflightRids
    BY DEF InflightRids
  <2>q. QED
    BY <1>1, <1>4, <2>1 DEF HeldBy
<1>11. IsInjective(collecting')
  BY DEF IsInjective
<1>12. EnginesStep
  BY <1>5, <1>9, <1>10, <1>11, StepFromInstances
<1>q. QED
  BY <1>1, <1>3, <1>5, <1>6, <1>7, <1>8, <1>12 DEF EngineTypes

LEMMA EndsStep ==
    ASSUME SimInv, SimStopOnBatch \/ SimDeadline \/ SimExhausted
    PROVE  EnginesStep /\ EngineTypes'
<1>1. now \in Nat /\ deadline \in Nat
  BY DEF SimInv, EngineTypes
<1>2. CASE SimStopOnBatch
  <2> DEFINE first == Aligned(now)
             a == AlignedAgain(first)
  <2>1. /\ NothingExtra(first) /\ UndoAndAlign(a, now, FALSE) /\ collecting = <<>>
        /\ UNCHANGED <<engineVersion, nextRid, inflight, deadline, seeded, collecting, last>>
    BY <1>2 DEF SimStopOnBatch, Collected, StopOnBatch
  <2>2. MovedOn(first, now)
    BY <1>1, AlignedMoved
  <2> HIDE DEF first
  <2>3. MovedOn(a, now)
    BY <1>1, <2>1, <2>2, AlignedAgainMoved
  <2> HIDE DEF a
  <2>q. QED
    BY <1>1, <2>1, <2>3, AlignedStep
<1>3. CASE SimDeadline
  <2> DEFINE a == Aligned(deadline)
  <2>1. /\ UndoAndAlign(a, deadline, TRUE) /\ collecting = <<>>
        /\ UNCHANGED <<engineVersion, nextRid, inflight, deadline, seeded, collecting, last>>
    BY <1>3 DEF SimDeadline, AtDeadline, AtQueue, Deadline
  <2>2. MovedOn(a, deadline)
    BY <1>1, AlignedMoved
  <2> HIDE DEF a
  <2>q. QED
    BY <1>1, <2>1, <2>2, AlignedStep
<1>4. CASE SimExhausted
  <2> DEFINE a == Aligned(now)
  <2>1. /\ UndoAndAlign(a, now, FALSE) /\ collecting = <<>>
        /\ UNCHANGED <<engineVersion, nextRid, inflight, deadline, seeded, collecting, last>>
    BY <1>4 DEF SimExhausted, AtQueue, GenerateExhausted
  <2>2. MovedOn(a, now)
    BY <1>1, AlignedMoved
  <2> HIDE DEF a
  <2>q. QED
    BY <1>1, <2>1, <2>2, AlignedStep
<1>q. QED
  BY <1>2, <1>3, <1>4

LEMMA AdmitMoreStep ==
    ASSUME SimInv, SimAdmitMore
    PROVE  EnginesStep /\ EngineTypes'
<1> DEFINE a == Aligned(now)
           es == [i \in Instances |-> a[i].inst]
<1>1. /\ NothingExtra(a) /\ collecting = <<>> /\ EngineTypes
      /\ clock' = [i \in Instances |-> now - a[i].left]
      /\ events' = [i \in Instances |-> NoEvent] /\ seeded' = FALSE
      /\ UNCHANGED <<snapshots, now, deadline, collecting, last>>
  BY DEF SimAdmitMore, Collected, SimInv
<1>2. PICK quota \in Quotas : /\ Admit(quota, Place(es, quota).n)
                              /\ engines' = Place(es, quota).engines
  BY DEF SimAdmitMore
<1>3. MovedOn(a, now)
  BY <1>1, AlignedMoved DEF EngineTypes
<1>4. \A i \in Instances : /\ es[i] \in Record
                           /\ Follows(Committed[i], es[i], <<>>, engineVersion)
  BY <1>1, <1>3 DEF MovedOn, NothingExtra
<1>5. clock' \in [Instances -> Nat]
  <2>1. \A i \in Instances : now - a[i].left \in Nat
    BY <1>1, <1>3 DEF EngineTypes, MovedOn
  <2>q. QED
    BY <1>1, <2>1
<1>6. es \in [Instances -> Record]
  BY <1>4
<1> HIDE DEF a, es
<1>7. /\ \A i \in Instances : ~events'[i].pending
      /\ events' \in [Instances -> EventType]
  BY <1>1 DEF NoEvent, EventType
<1>8. EnginesStep /\ engines' \in [Instances -> Record]
  BY <1>1, <1>2, <1>4, <1>6, <1>7, PlacedStep
<1>q. QED
  BY <1>1, <1>5, <1>7, <1>8 DEF EngineTypes

-----------------------------------------------------------------------------

LEMMA NextStep ==
    ASSUME SimInv, [Next]_vars
    PROVE  EnginesStep /\ EngineTypes'
<1>0. EngineTypes /\ engineVersion = engineVersion
  BY DEF SimInv
<1>1. CASE SimAdmit
  BY <1>1, SimAdmitStep
<1>2. CASE SimTrain
  BY <1>2, SimTrainStep
<1>3. CASE SeedEvents
  BY <1>3, SeedStep
<1>4. CASE ProduceNext
  BY <1>4, ProduceNextStep
<1>5. CASE CommitEvent
  BY <1>5, CommitStep
<1>6. CASE SimCollect
  BY <1>6, CollectStep
<1>7. CASE SimStopOnBatch \/ SimDeadline \/ SimExhausted
  BY <1>7, EndsStep
<1>8. CASE SimAdmitMore
  BY <1>8, AdmitMoreStep
<1>9. CASE SimNoBatch \/ AlignFails \/ (Halt /\ UNCHANGED engineVars) \/ UNCHANGED vars
  <2>1. /\ UNCHANGED <<engines, events, snapshots, engineVersion, nextRid, inflight, collecting>>
        /\ UNCHANGED <<clock, now, deadline, last>> /\ seeded' \in BOOLEAN
    BY <1>0, <1>9 DEF SimNoBatch, NoBatch, AlignFails, EngineFails, Halt, engineVars, vars,
       loopVars, EngineTypes
  <2>2. EnginesStep
    BY <2>1, RestStep
  <2>q. QED
    BY <1>0, <2>1, <2>2 DEF EngineTypes
<1>10. CASE SimGoOn
  <2>1. NewRequests(0) = {} /\ nextRid + 0 = nextRid
    BY DEF NewRequests, SimInv, LoopTypeOK
  <2>2. UNCHANGED engineVars /\ Admit(0, 0)
    BY <1>10 DEF SimGoOn
  <2>3. UNCHANGED <<engineVersion, nextRid, inflight>>
    BY <2>1, <2>2 DEF Admit
  <2>4. EnginesStep
    BY <2>2, <2>3, RestStep DEF engineVars
  <2>q. QED
    BY <1>0, <2>2, <2>4 DEF EngineTypes, engineVars
<1>q. QED
  BY <1>1, <1>2, <1>3, <1>4, <1>5, <1>6, <1>7, <1>8, <1>9, <1>10 DEF Next

LEMMA ControlStep ==
    ASSUME SimInv, [Next]_vars
    PROVE  ControlInv'
<1>1. ControlInv /\ pc \in PCs /\ seeded \in BOOLEAN
  BY DEF SimInv, LoopTypeOK, EngineTypes
<1>2. (\A i \in Instances : events'[i] = NoEvent) => Pending' = {}
  BY DEF Pending, NoEvent
<1>3. events' = events => Pending' = Pending
  BY DEF Pending
<1>4. CASE SimAdmit
  BY <1>1, <1>3, <1>4 DEF SimAdmit, Admit, AfterTop, AfterRetry, AfterBegin, AfterEvent,
     ControlInv, AtRest
<1>5. CASE SimNoBatch
  BY <1>1, <1>3, <1>5 DEF SimNoBatch, NoBatch, ControlInv, AtRest
<1>6. CASE SimTrain
  BY <1>1, <1>3, <1>6 DEF SimTrain, TakeBatch, ControlInv, AtRest
<1>7. CASE SeedEvents \/ ProduceNext
  BY <1>1, <1>7 DEF SeedEvents, ProduceNext, ControlInv, AtRest, loopVars
<1>8. CASE CommitEvent
  BY <1>1, <1>8 DEF CommitEvent, AtQueue, ControlInv, AtRest, loopVars
<1>9. CASE SimCollect
  BY <1>1, <1>3, <1>9 DEF SimCollect, Complete, ControlInv, AtRest
<1>10. CASE SimGoOn
  BY <1>1, <1>3, <1>10 DEF SimGoOn, Collected, Admit, AfterTop, AfterRetry, AfterBegin,
     AfterEvent, ControlInv, AtRest, engineVars
<1>11. CASE SimAdmitMore
  BY <1>1, <1>2, <1>11 DEF SimAdmitMore, Collected, Admit, AfterTop, AfterRetry, AfterBegin,
     AfterEvent, ControlInv, AtRest
<1>12. CASE SimStopOnBatch
  BY <1>1, <1>2, <1>12 DEF SimStopOnBatch, Collected, StopOnBatch, UndoAndAlign, ControlInv, AtRest
<1>13. CASE SimDeadline
  BY <1>1, <1>2, <1>13 DEF SimDeadline, AtDeadline, AtQueue, Deadline, UndoAndAlign, ControlInv,
     AtRest
<1>14. CASE SimExhausted
  BY <1>1, <1>2, <1>14 DEF SimExhausted, AtQueue, GenerateExhausted, UndoAndAlign, ControlInv,
     AtRest
<1>15. CASE AlignFails
  BY <1>1, <1>3, <1>15 DEF AlignFails, AtDeadline, AtQueue, Collected, EngineFails, ControlInv,
     AtRest, engineVars
<1>16. CASE (Halt /\ UNCHANGED engineVars) \/ UNCHANGED vars
  BY <1>1, <1>3, <1>16 DEF Halt, vars, engineVars, loopVars, ControlInv, AtRest
<1>q. QED
  BY <1>4, <1>5, <1>6, <1>7, <1>8, <1>9, <1>10, <1>11, <1>12, <1>13, <1>14, <1>15, <1>16 DEF Next

LEMMA SimStep == SimInv /\ [Next]_vars => SimInv' /\ EnginesStep
<1> SUFFICES ASSUME SimInv, [Next]_vars PROVE SimInv' /\ EnginesStep
  OBVIOUS
<1>1. [LoopNext]_loopVars
  BY SimStepsLoop DEF SimInv
<1>2. LoopTypeOK' /\ LoopInv'
  BY <1>1, LoopStep DEF SimInv
<1>3. nextRid' <= MaxRequests
  BY <1>1, RequestsBounded DEF SimInv
<1>4. (nextRid <= MaxRequests)'
  BY <1>3
<1>5. EnginesStep /\ EngineTypes' /\ ControlInv'
  BY NextStep, ControlStep
<1>q. QED
  BY <1>2, <1>4, <1>5 DEF SimInv, EnginesStep

LEMMA SimInit == Init => SimInv
<1> SUFFICES ASSUME Init PROVE SimInv
  OBVIOUS
<1>1. LoopTypeOK /\ LoopInv /\ nextRid <= MaxRequests
  BY LoopInitType, LoopInitInv, LoopAssumption DEF Init, LoopInit
<1>2. NewInstance \in Record /\ Well(NewInstance)
  BY NewInstanceWell
<1>3. EngineTypes
  <2>1. /\ engines = [i \in Instances |-> NewInstance] /\ clock = [i \in Instances |-> 0]
        /\ events = [i \in Instances |-> NoEvent] /\ now = 0 /\ deadline = 0
        /\ seeded = FALSE /\ collecting = <<>> /\ last = 0
    BY DEF Init
  <2>2. 0 \in Instances
    BY SimulatorAssumption DEF Instances
  <2>3. NoEvent \in EventType
    BY DEF NoEvent, EventType
  <2> HIDE DEF NoEvent
  <2>q. QED
    BY <1>2, <2>1, <2>2, <2>3 DEF EngineTypes
<1>4. Pending = {} /\ ControlInv
  BY DEF Init, LoopInit, Pending, NoEvent, ControlInv
<1>5. Committed = engines
  BY <1>4 DEF Committed, Undone, Init
<1>6. EnginesInv
  <2>1. \A i \in Instances : /\ engines[i] = NewInstance /\ ~events[i].pending
    BY DEF Init, NoEvent
  <2>2. DOMAIN NewInstance.req = {} /\ Active(NewInstance) = {} /\ ToSet(<<>>) = {}
    BY DEF NewInstance, Active, ToSet
  <2>3. \A i \in Instances : Stands(engines[i], events[i], snapshots[i], engineVersion, Committed[i])
    BY <1>2, <1>5, <2>1, StandsStill
  <2>4. InflightRids = {} /\ collecting = <<>>
    BY DEF Init, LoopInit, InflightRids
  <2>5. HeldBy(Committed, InflightRids, collecting)
    BY <1>5, <2>1, <2>2, <2>4 DEF HeldBy
  <2>6. IsInjective(collecting)
    BY <2>4 DEF IsInjective
  <2>q. QED
    BY <2>1, <2>2, <2>3, <2>5, <2>6 DEF EnginesInv
<1>q. QED
  BY <1>1, <1>3, <1>4, <1>6 DEF SimInv

(* At every moment the loop and the instances agree on what is in flight:  *)
(* each request is held by exactly one instance, not counting what events  *)
(* did that may still be undone, or its completion is being collected.     *)
THEOREM SimInflightIsHeld == Spec => []InflightIsHeld
<1>1. SimInv => InflightIsHeld
  BY HeldIsInflight DEF SimInv, EnginesInv
<1>q. QED
  BY <1>1, SimInit, SimStep, PTL DEF Spec

(* Undoing, aligning, aborting and re-prefilling never take back a token   *)
(* that a committed event generated.                                       *)
THEOREM SimTokensKept == Spec => TokensKept
<1>1. SimInv /\ [Next]_vars =>
        [\A i \in Instances : \A r \in DOMAIN Committed[i].req :
           Committed[i].req[r].generated <= (Committed[i].req[r].generated)']_vars
  <2> SUFFICES ASSUME SimInv, [Next]_vars
               PROVE  \A i \in Instances : \A r \in DOMAIN Committed[i].req :
                         Committed[i].req[r].generated <= (Committed[i].req[r].generated)'
    OBVIOUS
  <2>1. \A i \in Instances : Later(Committed[i], Committed'[i])
    BY SimStep DEF EnginesStep
  <2>q. QED
    BY <2>1 DEF Later
<1>q. QED
  BY <1>1, SimInit, SimStep, PTL DEF Spec, TokensKept

(* The simulator is a run of the control loop under some policy and some   *)
(* engine: every step of _run_engine, _train and _admit on the instances   *)
(* is a step of the loop or leaves it alone, so what is proved of the loop *)
(* holds of the simulator.                                                 *)
THEOREM SimImplementsLoop == Spec => LoopSpec
<1>1. Init => LoopInit
  BY DEF Init
<1>2. SimInv /\ [Next]_vars => [LoopNext]_loopVars
  BY SimStepsLoop DEF SimInv
<1>q. QED
  BY <1>1, <1>2, SimInit, SimStep, PTL DEF Spec, LoopSpec

(* The variables of Simulator.run and of its instances keep their types,   *)
(* and an instance queues only requests it knows and that were admitted.   *)
THEOREM SimTypeCorrect == Spec => []TypeOK
<1>1. SimInv => TypeOK
  <2> SUFFICES ASSUME SimInv PROVE TypeOK
    OBVIOUS
  <2>1. ASSUME NEW i \in Instances
        PROVE  /\ ToSet(engines[i].waiting \o engines[i].running \o engines[i].completed)
                    \subseteq DOMAIN engines[i].req
               /\ DOMAIN engines[i].req \subseteq 0..(nextRid - 1)
    <3> DEFINE e == engines[i]
    <3>1. Well(e) /\ DOMAIN e.req \subseteq Ids(nextRid) /\ nextRid \in Nat
      BY CommittedTyped DEF SimInv, EnginesInv, LoopTypeOK
    <3> HIDE DEF e
    <3>2. /\ e.waiting \in Seq(Nat) /\ e.running \in Seq(Nat) /\ e.completed \in Seq(Nat)
          /\ ToSet(e.waiting) \in SUBSET DOMAIN e.req
          /\ ToSet(e.running) \in SUBSET DOMAIN e.req
          /\ ToSet(e.completed) \in SUBSET DOMAIN e.req
      BY <3>1, WellFields
    <3> DEFINE wr == e.waiting \o e.running
    <3>3. wr \in Seq(Nat) /\ ToSet(wr) = ToSet(e.waiting) \cup ToSet(e.running)
      BY <3>2, ConcatFacts
    <3> HIDE DEF wr
    <3>4. ToSet(wr \o e.completed) = ToSet(wr) \cup ToSet(e.completed)
      BY <3>2, <3>3, ConcatFacts
    <3>5. DOMAIN e.req \subseteq 0..(nextRid - 1)
      BY <3>1 DEF Ids
    <3>q. QED
      BY <3>2, <3>3, <3>4, <3>5 DEF e, wr
  <2>q. QED
    BY <2>1 DEF SimInv, EngineTypes, TypeOK, EventType
<1>q. QED
  BY <1>1, SimInit, SimStep, PTL DEF Spec

-----------------------------------------------------------------------------
(* The streams of requests and training steps.                             *)

Training == pc = "begin" \/ (pc \in {"engine", "event"} /\ phase = "train")

\* What has been written about the request with this id.
Fates ==
    /\ DOMAIN requests = Ids(nextRid)
    /\ \A r \in inflight : requests[r.rid] = <<"admit">>
    /\ \A r \in ready : requests[r.rid] = <<"admit", "complete">>
    /\ \A r \in Trained : requests[r.rid] = <<"admit", "complete", "consume">>
    /\ \A r \in dropped : requests[r.rid] = <<"admit", "drop">>

RowType == [version : Nat, start : Nat, end : Nat, drops : Nat, inflight : Nat, ready : Nat]

RowsInv ==
    /\ rows \in Seq(RowType)
    /\ step.start \in Nat /\ step.drops \in Nat /\ step.start <= now
    /\ Training => Len(rows) = version - 1
    /\ ~Training /\ pc # "failed" => Len(rows) = version
    /\ Training /\ pc # "begin" => step.start < deadline
    /\ \A k \in 1..Len(rows) :
          /\ rows[k].version = k
          /\ rows[k].start < rows[k].end
          /\ rows[k].end <= now
          /\ Training => rows[k].end <= step.start
          /\ k > 1 => rows[k - 1].end <= rows[k].start

StreamsInv == SimInv /\ Fates /\ RowsInv

LEMMA StreamsInvAgree == StreamsInv => StreamsAgree
<1> SUFFICES ASSUME StreamsInv PROVE StreamsAgree
  OBVIOUS
<1>1. nextRid \in Nat
  BY DEF StreamsInv, SimInv, LoopTypeOK
<1>2. DOMAIN requests = 0..(nextRid - 1)
  BY <1>1 DEF StreamsInv, Fates, Ids
<1>3. \A c \in consumed : c.req \in Trained
  BY DEF Trained
<1>4. /\ \A r \in inflight : requests[r.rid] = <<"admit">>
      /\ \A r \in ready : requests[r.rid] = <<"admit", "complete">>
      /\ \A c \in consumed : requests[c.req.rid] = <<"admit", "complete", "consume">>
      /\ \A r \in dropped : requests[r.rid] = <<"admit", "drop">>
  BY <1>3 DEF StreamsInv, Fates
<1>5. pc = "top" => Len(rows) = version
  BY DEF StreamsInv, RowsInv, Training
<1>6. DOMAIN rows = 1..Len(rows)
  BY DEF StreamsInv, RowsInv
<1>7. \A k \in DOMAIN rows :
          /\ rows[k].version = k
          /\ rows[k].start < rows[k].end
          /\ k > 1 => rows[k - 1].end <= rows[k].start
  BY <1>6 DEF StreamsInv, RowsInv
<1>q. QED
  BY <1>2, <1>4, <1>5, <1>7 DEF StreamsAgree

\* The log new has one more event of each request of rs.
Extends(new, log, event, rs) ==
    /\ DOMAIN new = DOMAIN log \cup rs
    /\ \A r \in DOMAIN log \ rs : new[r] = log[r]
    /\ \A r \in rs \cap DOMAIN log : new[r] = Append(log[r], event)
    /\ \A r \in rs \ DOMAIN log : new[r] = Append(<<>>, event)

LEMMA WrittenFacts ==
    ASSUME NEW log, NEW event, NEW rs
    PROVE  Extends(Written(log, event, rs), log, event, rs)
  BY DEF Written, Extends

LEMMA FirstEvent ==
    ASSUME NEW a
    PROVE  Append(<<>>, a) = <<a>>
  OBVIOUS

LEMMA AppendPlaces ==
    ASSUME NEW R, NEW list \in Seq(R), NEW r \in R
    PROVE  /\ Append(list, r) \in Seq(R) /\ Len(Append(list, r)) = Len(list) + 1
           /\ \A k \in 1..Len(list) : Append(list, r)[k] = list[k]
           /\ Append(list, r)[Len(list) + 1] = r
<1>1. Len(list) \in Nat /\ DOMAIN list = 1..Len(list)
  OBVIOUS
<1>q. QED
  BY <1>1

LEMMA SecondEvent ==
    ASSUME NEW a, NEW b
    PROVE  Append(<<a>>, b) = <<a, b>>
<1> DEFINE R == {a, b}
           x == <<a>>
           y == <<a, b>>
<1>1. x \in Seq(R) /\ Len(x) = 1 /\ x[1] = a
  OBVIOUS
<1>2. y \in Seq(R) /\ Len(y) = 2 /\ y[1] = a /\ y[2] = b
  OBVIOUS
<1>3. b \in R
  OBVIOUS
<1> HIDE DEF R, x, y
<1>4. /\ Append(x, b) \in Seq(R) /\ Len(Append(x, b)) = 2
      /\ Append(x, b)[1] = a /\ Append(x, b)[2] = b
  <2>1. /\ Append(x, b) \in Seq(R) /\ Len(Append(x, b)) = Len(x) + 1
        /\ \A k \in 1..Len(x) : Append(x, b)[k] = x[k]
        /\ Append(x, b)[Len(x) + 1] = b
    BY <1>1, <1>3, AppendPlaces
  <2>2. 1 \in 1..1 /\ 1 + 1 = 2
    OBVIOUS
  <2>q. QED
    BY <1>1, <2>1, <2>2
<1>5. Append(x, b) = y
  <2>1. \A k \in 1..2 : k = 1 \/ k = 2
    OBVIOUS
  <2>2. \A k \in 1..Len(y) : Append(x, b)[k] = y[k]
    BY <1>2, <1>4, <2>1
  <2>q. QED
    BY <1>2, <1>4, <2>2, SeqEqual
<1>q. QED
  BY <1>5 DEF x, y

LEMMA ThirdEvent ==
    ASSUME NEW a, NEW b, NEW c
    PROVE  Append(<<a, b>>, c) = <<a, b, c>>
<1> DEFINE R == {a, b, c}
           x == <<a, b>>
           y == <<a, b, c>>
<1>1. x \in Seq(R) /\ Len(x) = 2 /\ x[1] = a /\ x[2] = b
  OBVIOUS
<1>2. y \in Seq(R) /\ Len(y) = 3 /\ y[1] = a /\ y[2] = b /\ y[3] = c
  OBVIOUS
<1>3. c \in R
  OBVIOUS
<1> HIDE DEF R, x, y
<1>4. /\ Append(x, c) \in Seq(R) /\ Len(Append(x, c)) = 3
      /\ Append(x, c)[1] = a /\ Append(x, c)[2] = b /\ Append(x, c)[3] = c
  <2>1. /\ Append(x, c) \in Seq(R) /\ Len(Append(x, c)) = Len(x) + 1
        /\ \A k \in 1..Len(x) : Append(x, c)[k] = x[k]
        /\ Append(x, c)[Len(x) + 1] = c
    BY <1>1, <1>3, AppendPlaces
  <2>2. 1 \in 1..2 /\ 2 \in 1..2 /\ 2 + 1 = 3
    OBVIOUS
  <2>q. QED
    BY <1>1, <2>1, <2>2
<1>5. Append(x, c) = y
  <2>1. \A k \in 1..3 : k = 1 \/ k = 2 \/ k = 3
    OBVIOUS
  <2>2. \A k \in 1..Len(y) : Append(x, c)[k] = y[k]
    BY <1>2, <1>4, <2>1
  <2>q. QED
    BY <1>2, <1>4, <2>2, SeqEqual
<1>q. QED
  BY <1>5 DEF x, y

\* Every request is known by its id.
LEMMA RidsKnown ==
    ASSUME SimInv
    PROVE  /\ \A r \in Admitted : r.rid \in Ids(nextRid)
           /\ \A r, s \in Admitted : r.rid = s.rid => r = s
           /\ \A i \in Ids(nextRid) : \E r \in Admitted : r.rid = i
           /\ Admitted = inflight \cup ready \cup dropped \cup Trained
           /\ inflight \cap (ready \cup dropped \cup Trained) = {}
           /\ ready \cap (dropped \cup Trained) = {}
           /\ dropped \cap Trained = {}
<1>1. LoopInv /\ nextRid \in Nat
  BY DEF SimInv, LoopTypeOK
<1>2. Ids(nextRid) = 0..(nextRid - 1)
  BY <1>1 DEF Ids
<1>3. {r.rid : r \in Admitted} = 0..(nextRid - 1)
  BY <1>1 DEF LoopInv, AllAccounted
<1>q. QED
  BY <1>1, <1>2, <1>3 DEF LoopInv, AllAccounted, OneFate, Admitted

\* n requests are admitted and written.
LEMMA AdmitFates ==
    ASSUME SimInv, Fates, NEW quota, NEW n \in Nat, Admit(quota, n),
           requests' = Written(requests, "admit", Dispatched)
    PROVE  Fates'
<1>1. /\ inflight' = inflight \cup NewRequests(n) /\ nextRid' = nextRid + n
      /\ UNCHANGED <<ready, consumed, dropped>> /\ Trained' = Trained
      /\ nextRid \in Nat
  BY DEF Admit, Trained, SimInv, LoopTypeOK
<1>2. Dispatched = NewIds(n)
  BY <1>1 DEF Dispatched, NewIds
<1>3. \A r \in NewRequests(n) : r.rid \in NewIds(n)
  BY <1>1 DEF NewRequests, NewIds
<1>4. /\ DOMAIN requests = Ids(nextRid)
      /\ Ids(nextRid) \cap NewIds(n) = {}
      /\ Ids(nextRid + n) = Ids(nextRid) \cup NewIds(n)
  BY <1>1 DEF Fates, Ids, NewIds
<1>5. \A r \in Admitted : r.rid \in Ids(nextRid)
  BY RidsKnown
<1>6. /\ DOMAIN requests' = Ids(nextRid')
      /\ \A i \in Ids(nextRid) : requests'[i] = requests[i]
      /\ \A i \in NewIds(n) : requests'[i] = <<"admit">>
  <2>1. Append(<<>>, "admit") = <<"admit">>
    BY FirstEvent
  <2>2. Extends(requests', requests, "admit", NewIds(n))
    BY <1>2, WrittenFacts
  <2>q. QED
    BY <1>1, <1>4, <2>1, <2>2 DEF Extends
<1>q. QED
  BY <1>1, <1>3, <1>5, <1>6 DEF Fates, Admitted

\* A batch is consumed and requests in flight are dropped.
LEMMA TrainFates ==
    ASSUME SimInv, Fates, NEW batch \in SUBSET ready, NEW newEngine,
           NEW expired \in SUBSET inflight,
           TakeBatch(batch, newEngine, expired, TRUE),
           requests' = Written(Written(requests, "consume", Rids(ready \ ready')), "drop", Gone)
    PROVE  Fates'
<1>1. /\ inflight' = inflight \ expired /\ ready' = (ready \ batch) \ expired
      /\ dropped' = dropped \cup expired /\ nextRid' = nextRid
      /\ consumed' = consumed \cup {[req |-> r, at |-> version] : r \in batch}
  BY DEF TakeBatch, ReadyAfter, Stamped
<1>2. Trained' = Trained \cup batch
  <2> DEFINE T == {[req |-> r, at |-> version] : r \in batch}
  <2>1. \A c \in T : c.req \in batch
    OBVIOUS
  <2>2. \A r \in batch : [req |-> r, at |-> version] \in T
                         /\ [req |-> r, at |-> version].req = r
    OBVIOUS
  <2>3. consumed' = consumed \cup T
    BY <1>1
  <2> HIDE DEF T
  <2>q. QED
    BY <2>1, <2>2, <2>3 DEF Trained
<1>3. /\ \A r \in Admitted : r.rid \in Ids(nextRid)
      /\ \A r, s \in Admitted : r.rid = s.rid => r = s
      /\ Admitted = inflight \cup ready \cup dropped \cup Trained
      /\ inflight \cap (ready \cup dropped \cup Trained) = {}
      /\ ready \cap (dropped \cup Trained) = {}
      /\ dropped \cap Trained = {}
  BY RidsKnown
<1>4. ready \ ready' = batch /\ dropped' \ dropped = expired
  BY <1>1, <1>3
<1> DEFINE B == Rids(batch)
           E == Rids(expired)
           one == Written(requests, "consume", B)
           D == Ids(nextRid)
<1>5. requests' = Written(one, "drop", E)
  BY <1>4 DEF Gone
<1>6. /\ \A r \in Admitted : r.rid \in B <=> r \in batch
      /\ \A r \in Admitted : r.rid \in E <=> r \in expired
      /\ B \subseteq D /\ E \subseteq D /\ B \cap E = {}
  BY <1>3 DEF Rids
<1> HIDE DEF B, E, D
<1>7. DOMAIN requests = D
  BY DEF Fates, D
<1>8. /\ DOMAIN one = D
      /\ \A i \in D \ B : one[i] = requests[i]
      /\ \A i \in B : one[i] = Append(requests[i], "consume")
  <2>1. Extends(one, requests, "consume", B)
    BY WrittenFacts
  <2>q. QED
    BY <1>6, <1>7, <2>1 DEF Extends
<1> HIDE DEF one
<1>9. /\ DOMAIN requests' = D
      /\ \A i \in D \ E : requests'[i] = one[i]
      /\ \A i \in E : requests'[i] = Append(one[i], "drop")
  <2>1. Extends(requests', one, "drop", E)
    BY <1>5, WrittenFacts
  <2>q. QED
    BY <1>6, <1>8, <2>1 DEF Extends
<1>10. /\ \A i \in D : i \notin B /\ i \notin E => requests'[i] = requests[i]
       /\ \A i \in B : requests'[i] = Append(requests[i], "consume")
       /\ \A i \in E : requests'[i] = Append(requests[i], "drop")
  BY <1>6, <1>8, <1>9
<1>11. /\ \A r \in inflight' : requests'[r.rid] = <<"admit">>
       /\ \A r \in ready' : requests'[r.rid] = <<"admit", "complete">>
  BY <1>1, <1>3, <1>6, <1>10 DEF Fates, D
<1>12. \A r \in dropped' : requests'[r.rid] = <<"admit", "drop">>
  <2>1. \A r \in dropped : requests'[r.rid] = <<"admit", "drop">>
    BY <1>3, <1>6, <1>10 DEF Fates, D
  <2>2. \A r \in expired : requests'[r.rid] = <<"admit", "drop">>
    <3>1. Append(<<"admit">>, "drop") = <<"admit", "drop">>
      BY SecondEvent
    <3>2. \A r \in expired : r.rid \in E /\ requests[r.rid] = <<"admit">>
      BY <1>3, <1>6 DEF Fates
    <3>q. QED
      BY <1>10, <3>1, <3>2
  <2>q. QED
    BY <1>1, <2>1, <2>2
<1>13. \A r \in Trained' : requests'[r.rid] = <<"admit", "complete", "consume">>
  <2>1. \A r \in Trained : requests'[r.rid] = <<"admit", "complete", "consume">>
    BY <1>3, <1>6, <1>10 DEF Fates, D
  <2>2. \A r \in batch : requests'[r.rid] = <<"admit", "complete", "consume">>
    <3>1. Append(<<"admit", "complete">>, "consume") = <<"admit", "complete", "consume">>
      BY ThirdEvent
    <3>2. \A r \in batch : r.rid \in B /\ requests[r.rid] = <<"admit", "complete">>
      BY <1>3, <1>6 DEF Fates
    <3>q. QED
      BY <1>10, <3>1, <3>2
  <2>q. QED
    BY <1>2, <2>1, <2>2
<1>q. QED
  BY <1>1, <1>9, <1>11, <1>12, <1>13 DEF Fates, D

\* A request completes.
LEMMA CollectFates ==
    ASSUME SimInv, Fates, NEW r \in inflight, Complete(r, TRUE),
           requests' = Written(requests, "complete", {r.rid})
    PROVE  Fates'
<1>1. /\ inflight' = inflight \ {r} /\ ready' = ready \cup {r}
      /\ dropped' = dropped /\ nextRid' = nextRid /\ Trained' = Trained
  BY DEF Complete, Trained
<1>3. /\ \A s \in Admitted : s.rid \in Ids(nextRid)
      /\ \A q, s \in Admitted : q.rid = s.rid => q = s
      /\ Admitted = inflight \cup ready \cup dropped \cup Trained
      /\ inflight \cap (ready \cup dropped \cup Trained) = {}
  BY RidsKnown
<1>4. /\ DOMAIN requests = Ids(nextRid) /\ requests[r.rid] = <<"admit">> /\ r.rid \in Ids(nextRid)
  BY <1>3 DEF Fates
<1>5. /\ DOMAIN requests' = Ids(nextRid)
      /\ \A i \in Ids(nextRid) : i # r.rid => requests'[i] = requests[i]
      /\ requests'[r.rid] = Append(<<"admit">>, "complete")
  <2>1. Extends(requests', requests, "complete", {r.rid})
    BY WrittenFacts
  <2>q. QED
    BY <1>4, <2>1 DEF Extends
<1>6. Append(<<"admit">>, "complete") = <<"admit", "complete">>
  BY SecondEvent
<1>7. \A s \in Admitted \ {r} : requests'[s.rid] = requests[s.rid]
  BY <1>3, <1>5
<1>q. QED
  BY <1>1, <1>3, <1>5, <1>6, <1>7 DEF Fates

LEMMA SameFates ==
    ASSUME Fates, UNCHANGED <<requests, nextRid, inflight, ready, consumed, dropped>>
    PROVE  Fates'
<1>1. Trained' = Trained
  BY DEF Trained
<1>q. QED
  BY <1>1 DEF Fates

LEMMA FatesStep ==
    ASSUME SimInv, Fates, [TelemetryNext]_telemetryVars
    PROVE  Fates'
<1>1. CASE LogAdmit \/ LogAdmitMore
  <2>1. PICK quota \in Quotas : \E n : Admit(quota, n)
    BY <1>1 DEF LogAdmit, LogAdmitMore, SimAdmit, SimAdmitMore
  <2>2. PICK n : Admit(quota, n)
    BY <2>1
  <2>3. n \in Nat
    BY <2>2 DEF Admit, Quotas
  <2>4. requests' = Written(requests, "admit", Dispatched)
    BY <1>1 DEF LogAdmit, LogAdmitMore
  <2>q. QED
    BY <2>2, <2>3, <2>4, AdmitFates
<1>2. CASE LogTrain
  <2>1. PICK batch \in kSubset(BatchSize, ready), newEngine \in {engineVersion, version + 1},
             expired \in SUBSET inflight : TakeBatch(batch, newEngine, expired, TRUE)
    BY <1>2 DEF LogTrain, SimTrain
  <2>2. batch \in SUBSET ready
    BY DEF kSubset
  <2>3. requests' = Written(Written(requests, "consume", Rids(ready \ ready')), "drop", Gone)
    BY <1>2 DEF LogTrain
  <2>q. QED
    BY <2>1, <2>2, <2>3, TrainFates
<1>3. CASE LogCollect
  <2>1. PICK r \in inflight : r.rid = Head(collecting) /\ Complete(r, TRUE)
    BY <1>3 DEF LogCollect, SimCollect
  <2>2. requests' = Written(requests, "complete", {r.rid})
    BY <1>3, <2>1 DEF LogCollect
  <2>q. QED
    BY <2>1, <2>2, CollectFates
<1>4. CASE LogNoBatch \/ LogAlignFails \/ LogSeed \/ LogCommit \/ LogProduce
  BY <1>4, SameFates DEF LogNoBatch, LogAlignFails, LogSeed, LogCommit, LogProduce, SimNoBatch,
     NoBatch, AlignFails, EngineFails, SeedEvents, CommitEvent, ProduceNext, loopVars, streamVars
<1>5. CASE LogStopOnBatch \/ LogDeadline \/ LogExhausted
  BY <1>5, SameFates DEF LogStopOnBatch, LogDeadline, LogExhausted, SimStopOnBatch, StopOnBatch,
     SimDeadline, Deadline, SimExhausted, GenerateExhausted
<1>6. CASE LogGoOn
  <2>1. NewRequests(0) = {} /\ nextRid + 0 = nextRid
    BY DEF NewRequests, SimInv, LoopTypeOK
  <2>2. Admit(0, 0) /\ UNCHANGED requests
    BY <1>6 DEF LogGoOn, SimGoOn, streamVars
  <2>q. QED
    BY <2>1, <2>2, SameFates DEF Admit
<1>7. CASE (Halt /\ UNCHANGED <<engineVars, streamVars>>) \/ UNCHANGED telemetryVars
  BY <1>7, SameFates DEF Halt, loopVars, streamVars, telemetryVars, vars
<1>q. QED
  BY <1>1, <1>2, <1>3, <1>4, <1>5, <1>6, <1>7 DEF TelemetryNext

LEMMA TelemetryIsSim == [TelemetryNext]_telemetryVars => [Next]_vars
  BY DEF TelemetryNext, telemetryVars, Next, LogAdmit, LogNoBatch, LogTrain, LogSeed, LogCommit,
     LogProduce, LogCollect, LogStopOnBatch, LogGoOn, LogAdmitMore, LogDeadline, LogExhausted,
     LogAlignFails

\* Time only goes on.
LEMMA TimeGoesOn ==
    ASSUME SimInv, [Next]_vars
    PROVE  now <= now'
<1>1. now \in Nat /\ now' \in Nat
  BY SimStep DEF SimInv, EngineTypes
<1>2. ASSUME NEW t \in Nat, now' = Max({now, t})
      PROVE  now <= now'
  <2>1. now \in Int /\ t \in Int
    BY <1>1
  <2>2. Max({now, t}) >= now
    BY <2>1, MaxOfTwo
  <2>q. QED
    BY <1>1, <1>2, <2>2
<1>3. CASE CommitEvent
  <2>1. events[Earliest].t \in Nat
    BY <1>3, EarliestFacts DEF CommitEvent, SimInv, EngineTypes, EventType, Pending
  <2>q. QED
    BY <1>2, <1>3, <2>1 DEF CommitEvent
<1>4. CASE SimStopOnBatch \/ SimDeadline \/ SimExhausted
  <2>1. deadline \in Nat
    BY DEF SimInv, EngineTypes
  <2>q. QED
    BY <1>1, <1>2, <1>4, <2>1 DEF SimStopOnBatch, SimDeadline, SimExhausted, UndoAndAlign
<1>5. CASE now' = now
  BY <1>1, <1>5
<1>q. QED
  BY <1>3, <1>4, <1>5 DEF Next, SimAdmit, SimNoBatch, SimTrain, SeedEvents, ProduceNext, SimCollect,
     SimGoOn, SimAdmitMore, AlignFails, Halt, engineVars, vars

\* Nothing is written, and training neither begins nor ends.
LEMMA SameRows ==
    ASSUME SimInv, RowsInv, UNCHANGED <<rows, step, version>>, now <= now', now \in Nat, now' \in Nat,
           Training' => Training,
           ~Training' /\ pc' # "failed" => ~Training /\ pc # "failed",
           Training' /\ pc' # "begin" => step.start < deadline'
    PROVE  RowsInv'
<1>1. /\ rows' = rows /\ step' = step /\ version' = version
      /\ rows \in Seq(RowType) /\ step.start \in Nat /\ step.drops \in Nat /\ step.start <= now
      /\ Training' => Len(rows) = version - 1
      /\ ~Training' /\ pc' # "failed" => Len(rows) = version
  BY DEF RowsInv
<1>2. step.start <= now'
  BY <1>1
<1>3. ASSUME NEW k \in 1..Len(rows)
      PROVE  /\ rows[k].version = k
             /\ rows[k].start < rows[k].end
             /\ rows[k].end <= now'
             /\ Training' => rows[k].end <= step.start
             /\ k > 1 => rows[k - 1].end <= rows[k].start
  <2>1. /\ rows[k].version = k
        /\ rows[k].start < rows[k].end
        /\ rows[k].end <= now
        /\ Training => rows[k].end <= step.start
        /\ k > 1 => rows[k - 1].end <= rows[k].start
    BY <1>3 DEF RowsInv
  <2>2. rows[k] \in RowType
    BY <1>1, <1>3
  <2>3. rows[k].end \in Nat
    BY <2>2 DEF RowType
  <2>q. QED
    BY <1>1, <2>1, <2>3
<1>q. QED
  BY <1>1, <1>2, <1>3 DEF RowsInv

\* A training step begins.
LEMMA TrainRows ==
    ASSUME SimInv, RowsInv, LogTrain
    PROVE  RowsInv'
<1>1. PICK batch \in kSubset(BatchSize, ready), newEngine \in {engineVersion, version + 1},
           expired \in SUBSET inflight : TakeBatch(batch, newEngine, expired, TRUE)
  BY DEF LogTrain, SimTrain
<1>2. /\ pc = "take" /\ pc' = "begin" /\ version' = version + 1 /\ version \in Nat
      /\ now' = now /\ now \in Nat /\ rows' = rows
      /\ dropped' = dropped \cup expired
  BY <1>1 DEF TakeBatch, LogTrain, SimTrain, SimInv, EngineTypes, LoopTypeOK
<1>3. step' = [start |-> now, drops |-> Cardinality(Gone)]
  BY DEF LogTrain
<1>4. Cardinality(Gone) \in Nat
  <2>1. IsFiniteSet(Ids(nextRid)) /\ nextRid \in Nat
    <3>1. nextRid \in Nat
      BY DEF SimInv, LoopTypeOK
    <3>2. 0 \in Int /\ nextRid - 1 \in Int
      BY <3>1
    <3>3. Ids(nextRid) = 0..(nextRid - 1)
      BY <3>1 DEF Ids
    <3>4. IsFiniteSet(0..(nextRid - 1))
      BY <3>2, FS_Interval
    <3>q. QED
      BY <3>1, <3>3, <3>4
  <2>2. Gone \subseteq Ids(nextRid)
    <3>1. \A r \in inflight : r.rid \in Ids(nextRid)
      BY RidsKnown DEF Admitted
    <3>q. QED
      BY <1>2, <3>1 DEF Gone, Rids
  <2>3. IsFiniteSet(Gone)
    BY <2>1, <2>2, FS_Subset
  <2>q. QED
    BY <2>3, FS_CardinalityType
<1>5. /\ rows \in Seq(RowType) /\ Len(rows) = version
      /\ Training' /\ pc' = "begin"
  BY <1>2 DEF RowsInv, Training
<1>6. /\ step'.start = now /\ step'.drops \in Nat /\ version' - 1 = version
  BY <1>2, <1>3, <1>4
<1>7. \A k \in 1..Len(rows) :
          /\ rows[k].version = k
          /\ rows[k].start < rows[k].end
          /\ rows[k].end <= now
          /\ k > 1 => rows[k - 1].end <= rows[k].start
  BY DEF RowsInv
<1>8. \A k \in 1..Len(rows) : rows[k].version = k /\ rows'[k] = rows[k]
  BY <1>2, <1>7
<1>q. QED
  BY <1>2, <1>5, <1>6, <1>7 DEF RowsInv

\* A training step ends, and its row is written.
LEMMA DeadlineRows ==
    ASSUME SimInv, RowsInv, LogDeadline
    PROVE  RowsInv'
<1>1. /\ pc = "engine" /\ phase = "train" /\ pc' = "top" /\ version' = version /\ version \in Nat
      /\ now \in Nat /\ deadline \in Nat /\ now' = Max({now, deadline})
      /\ step' = step /\ rows' = Append(rows, Row(now'))
  BY DEF LogDeadline, SimDeadline, Deadline, UndoAndAlign, SimInv, EngineTypes, LoopTypeOK
<1>2. /\ Training /\ ~Training' /\ pc' # "failed"
  BY <1>1 DEF Training
<1>3. now' \in Nat /\ now' >= now /\ now' >= deadline
  <2>1. now \in Int /\ deadline \in Int
    BY <1>1
  <2>2. /\ Max({now, deadline}) \in {now, deadline}
        /\ Max({now, deadline}) >= now /\ Max({now, deadline}) >= deadline
    BY <2>1, MaxOfTwo
  <2>q. QED
    BY <1>1, <2>2
<1> DEFINE row == Row(now')
<1>4. row \in RowType
  <2>1. Cardinality(inflight) \in Nat /\ Cardinality(ready) \in Nat
    BY FS_CardinalityType DEF SimInv, LoopInv
  <2>2. step.start \in Nat /\ step.drops \in Nat
    BY DEF RowsInv
  <2>q. QED
    BY <1>1, <1>3, <2>1, <2>2 DEF Row, RowType
<1>5. row.version = version /\ row.start = step.start /\ row.end = now'
  BY DEF Row
<1> HIDE DEF row
<1>6. /\ rows \in Seq(RowType) /\ Len(rows) = version - 1 /\ Len(rows) \in Nat
      /\ step.start \in Nat /\ step.drops \in Nat /\ step.start <= now /\ step.start < deadline
  BY <1>1, <1>2 DEF RowsInv
<1>7. /\ rows' \in Seq(RowType) /\ Len(rows') = Len(rows) + 1
      /\ \A k \in 1..Len(rows) : rows'[k] = rows[k]
      /\ rows'[Len(rows) + 1] = row
  <2>1. rows' = Append(rows, row)
    BY <1>1 DEF row
  <2>q. QED
    BY <1>4, <1>6, <2>1, AppendPlaces
<1>8. step.start < now'
  BY <1>1, <1>3, <1>6
<1>9. ASSUME NEW k \in 1..Len(rows)
      PROVE  /\ rows[k].version = k
             /\ rows[k].start < rows[k].end
             /\ rows[k].end <= now'
             /\ rows[k].end <= step.start
             /\ k > 1 => rows[k - 1].end <= rows[k].start
  <2>1. /\ rows[k].version = k
        /\ rows[k].start < rows[k].end
        /\ rows[k].end <= now
        /\ rows[k].end <= step.start
        /\ k > 1 => rows[k - 1].end <= rows[k].start
    BY <1>2, <1>9 DEF RowsInv
  <2>2. rows[k] \in RowType
    BY <1>6, <1>9
  <2>3. rows[k].end \in Nat
    BY <2>2 DEF RowType
  <2>q. QED
    BY <1>1, <1>3, <2>1, <2>3
<1>10. ASSUME NEW k \in 1..Len(rows')
       PROVE  /\ rows'[k].version = k
              /\ rows'[k].start < rows'[k].end
              /\ rows'[k].end <= now'
              /\ k > 1 => rows'[k - 1].end <= rows'[k].start
  <2>1. k \in 1..Len(rows) \/ k = Len(rows) + 1
    BY <1>6, <1>7, <1>10
  <2>2. CASE k \in 1..Len(rows)
    <3>1. k > 1 => k - 1 \in 1..Len(rows)
      BY <1>6, <2>2
    <3>q. QED
      BY <1>7, <1>9, <2>2, <3>1
  <2>3. CASE k = Len(rows) + 1
    <3>1. k = version
      BY <1>1, <1>6, <2>3
    <3>2. /\ rows'[k].version = k /\ rows'[k].start = step.start /\ rows'[k].end = now'
      BY <1>5, <1>7, <2>3, <3>1
    <3>3. k > 1 => rows'[k - 1] = rows[k - 1] /\ k - 1 \in 1..Len(rows)
      BY <1>6, <1>7, <2>3
    <3>4. k > 1 => rows'[k - 1].end <= rows'[k].start
      BY <1>9, <3>2, <3>3
    <3>5. now' <= now'
      BY <1>3
    <3>q. QED
      BY <1>8, <3>2, <3>4, <3>5
  <2>q. QED
    BY <2>1, <2>2, <2>3
<1>11. Len(rows') = version' /\ step'.start <= now'
  BY <1>1, <1>3, <1>6, <1>7
<1>q. QED
  BY <1>1, <1>2, <1>6, <1>7, <1>10, <1>11 DEF RowsInv

LEMMA RowsStep ==
    ASSUME SimInv, RowsInv, [TelemetryNext]_telemetryVars
    PROVE  RowsInv'
<1>1. now <= now' /\ now \in Nat /\ now' \in Nat
  BY TelemetryIsSim, TimeGoesOn, SimStep DEF SimInv, EngineTypes
<1>2. Training /\ pc # "begin" => step.start < deadline
  BY DEF RowsInv
<1>3. CASE LogAdmit \/ LogAdmitMore
  <2>1. PICK quota \in Quotas : \E n : Admit(quota, n)
    BY <1>3 DEF LogAdmit, LogAdmitMore, SimAdmit, SimAdmitMore
  <2>2. PICK n : Admit(quota, n)
    BY <2>1
  <2>3. UNCHANGED <<rows, step, version>>
    BY <1>3, <2>2 DEF LogAdmit, LogAdmitMore, Admit
  <2>4. /\ Training' => Training
        /\ ~Training' /\ pc' # "failed" => ~Training /\ pc # "failed"
    BY <2>2 DEF Admit, AfterTop, AfterRetry, AfterBegin, AfterEvent, Training
  <2>5. Training' /\ pc' # "begin" => step.start < deadline'
    <3>1. CASE pc = "begin"
      <4>1. LogAdmit
        BY <1>3, <3>1 DEF LogAdmitMore, SimAdmitMore, Collected
      <4>2. PICK time \in TrainTimes : deadline' = now + time
        BY <3>1, <4>1 DEF LogAdmit, SimAdmit
      <4>3. time \in Nat \ {0}
        BY SimulatorAssumption
      <4>4. step.start \in Nat /\ step.start <= now
        BY DEF RowsInv
      <4>q. QED
        BY <1>1, <4>2, <4>3, <4>4
    <3>2. CASE pc # "begin"
      <4>1. deadline' = deadline
        BY <1>3, <3>2 DEF LogAdmit, LogAdmitMore, SimAdmit, SimAdmitMore
      <4>q. QED
        BY <1>2, <2>4, <3>2, <4>1
    <3>q. QED
      BY <3>1, <3>2
  <2>q. QED
    BY <1>1, <2>3, <2>4, <2>5, SameRows
<1>4. CASE LogCollect
  <2>1. PICK r \in inflight : Complete(r, TRUE)
    BY <1>4 DEF LogCollect, SimCollect
  <2>2. UNCHANGED <<rows, step, version, deadline>>
    BY <1>4, <2>1 DEF LogCollect, SimCollect, Complete
  <2>3. /\ Training' => Training /\ pc # "begin"
        /\ ~Training' /\ pc' # "failed" => ~Training /\ pc # "failed"
    BY <2>1 DEF Complete, Training
  <2>q. QED
    BY <1>1, <1>2, <2>2, <2>3, SameRows
<1>5. CASE LogNoBatch \/ LogAlignFails \/ LogStopOnBatch \/ LogExhausted
  <2>1. UNCHANGED <<rows, step, version, deadline>>
    BY <1>5 DEF LogNoBatch, LogAlignFails, LogStopOnBatch, LogExhausted, SimNoBatch, NoBatch,
       AlignFails, EngineFails, SimStopOnBatch, StopOnBatch, SimExhausted, GenerateExhausted,
       streamVars, engineVars
  <2>2. /\ ~Training'
        /\ pc' # "failed" => ~Training /\ pc # "failed"
    BY <1>5 DEF LogNoBatch, LogAlignFails, LogStopOnBatch, LogExhausted, SimNoBatch, NoBatch,
       AlignFails, EngineFails, SimStopOnBatch, StopOnBatch, SimExhausted, GenerateExhausted,
       Training
  <2>q. QED
    BY <1>1, <2>1, <2>2, SameRows
<1>6. CASE LogGoOn
  <2>1. Admit(0, 0) /\ UNCHANGED <<rows, step, deadline>> /\ pc = "event"
    BY <1>6 DEF LogGoOn, SimGoOn, Collected, streamVars, engineVars
  <2>2. /\ version' = version
        /\ Training' => Training /\ pc # "begin"
        /\ ~Training' /\ pc' # "failed" => ~Training /\ pc # "failed"
    BY <2>1 DEF Admit, AfterTop, AfterRetry, AfterBegin, AfterEvent, Training
  <2>q. QED
    BY <1>1, <1>2, <2>1, <2>2, SameRows
<1>7. CASE \/ LogSeed \/ LogCommit \/ LogProduce
           \/ Halt /\ UNCHANGED <<engineVars, streamVars>>
           \/ UNCHANGED telemetryVars
  <2>1. UNCHANGED <<rows, step, version, deadline, pc, phase>>
    BY <1>7 DEF LogSeed, LogCommit, LogProduce, SeedEvents, CommitEvent, ProduceNext, Halt,
       loopVars, streamVars, engineVars, telemetryVars, vars
  <2>2. Training' = Training
    BY <2>1 DEF Training
  <2>q. QED
    BY <1>1, <1>2, <2>1, <2>2, SameRows
<1>q. QED
  BY <1>3, <1>4, <1>5, <1>6, <1>7, TrainRows, DeadlineRows DEF TelemetryNext

LEMMA StreamsInit == TelemetryInit => StreamsInv
<1> SUFFICES ASSUME TelemetryInit PROVE StreamsInv
  OBVIOUS
<1>1. SimInv
  BY SimInit DEF TelemetryInit
<1>2. /\ pc = "top" /\ version = 0 /\ nextRid = 0 /\ now = 0
      /\ inflight = {} /\ ready = {} /\ consumed = {} /\ dropped = {}
  BY DEF TelemetryInit, Init, LoopInit
<1>3. requests = <<>> /\ rows = <<>> /\ step.start = 0 /\ step.drops = 0
  BY DEF TelemetryInit
<1>4. Fates
  <2>1. Trained = {} /\ DOMAIN requests = Ids(0)
    BY <1>2, <1>3 DEF Trained, Ids
  <2>q. QED
    BY <1>2, <2>1 DEF Fates
<1>5. RowsInv
  <2>1. rows \in Seq(RowType) /\ Len(rows) = 0 /\ ~Training
    BY <1>2, <1>3 DEF Training
  <2>q. QED
    BY <1>2, <1>3, <2>1 DEF RowsInv
<1>q. QED
  BY <1>1, <1>4, <1>5 DEF StreamsInv

(* The request and train streams of the telemetry tell the same story as   *)
(* the lists of the loop, for any number of instances, requests and        *)
(* versions: _admit, _collect, _train and _discard of simulator.py write   *)
(* each event of a request exactly once, in the order it happened, and     *)
(* every finished training step has its row, later than the one before.    *)
THEOREM SimStreamsAgree == TelemetrySpec => []StreamsAgree
<1>1. StreamsInv /\ [TelemetryNext]_telemetryVars => StreamsInv'
  <2>1. SimInv /\ [TelemetryNext]_telemetryVars => SimInv'
    BY TelemetryIsSim, SimStep
  <2>q. QED
    BY <2>1, FatesStep, RowsStep DEF StreamsInv
<1>q. QED
  BY <1>1, StreamsInit, StreamsInvAgree, PTL DEF TelemetrySpec

-----------------------------------------------------------------------------
(* Sums along a list.                                                      *)

\* q holds the sums of the first members of list.
SumPasses(q, list) ==
    /\ q[0] = 0
    /\ \A k \in 1..Len(list) : q[k - 1] \in Nat /\ q[k] \in Nat /\ q[k] = q[k - 1] + list[k]

LEMMA SumPassed ==
    ASSUME NEW list \in Seq(Nat)
    PROVE  \E q : SumPasses(q, list) /\ SumOf(list) = q[Len(list)]
<1> DEFINE n == Len(list)
           D == 1..n
           U == Nat
           z == 0
           Op(s, k) == s + list[k]
           After(g, t) == IF t = {} THEN z ELSE Op(g[t \ {Max(t)}], Max(t))
           h == CHOOSE g : g = [t \in SUBSET D |-> After(g, t)]
           F == [x \in U \X D |-> Op(x[1], x[2])]
<1>1. n \in Nat /\ DOMAIN list = D /\ IsFiniteSet(D) /\ \A k \in D : k \in Int
  BY Places
<1>2. SumOf(list) = h[D]
  <2>1. SumOf(list) = (CHOOSE g : g = [t \in SUBSET (DOMAIN list) |-> After(g, t)])[DOMAIN list]
    BY DEF SumOf, FoldLeft, MapThenFoldSet
  <2>q. QED
    BY <1>1, <2>1
<1>3. \A k \in D : list[k] \in Nat
  BY <1>1
<1>4. z \in U /\ z = 0
  OBVIOUS
<1>5. \A s \in U, k \in D : F[<<s, k>>] = Op(s, k) /\ Op(s, k) \in U
  <2> SUFFICES ASSUME NEW s \in U, NEW k \in D PROVE F[<<s, k>>] = Op(s, k) /\ Op(s, k) \in U
    BY Zenon
  <2>1. list[k] \in Nat
    BY <1>3
  <2>2. Op(s, k) \in U
    BY <2>1
  <2>q. QED
    BY <2>2
<1> HIDE DEF F, U, D, z, Op
<1>6. \A t \in SUBSET D : t # {} => /\ Max(t) \in D /\ t \ {Max(t)} \in SUBSET D
  BY <1>1, MaxChooses
<1>7. \A x \in U \X D : F[x] \in U
  BY <1>5
<1>8. \E g : g = [t \in SUBSET D |-> After(g, t)]
  <2>1. PICK g : OnSubsets(g, D) /\ IsMaxFold(g, D, z, F) /\ \A t \in SUBSET D : g[t] \in U
    BY <1>1, <1>4, <1>7, FoldTyped
  <2>2. \A t \in SUBSET D : g[t] = After(g, t)
    <3> SUFFICES ASSUME NEW t \in SUBSET D, t # {}
                 PROVE  g[t] = Op(g[t \ {Max(t)}], Max(t))
      BY <2>1 DEF IsMaxFold
    <3>1. Max(t) \in D /\ g[t \ {Max(t)}] \in U
      BY <1>6, <2>1
    <3>2. g[t] = F[<<g[t \ {Max(t)}], Max(t)>>]
      BY <2>1 DEF IsMaxFold
    <3>q. QED
      BY <1>5, <3>1, <3>2
  <2> HIDE DEF After
  <2>3. g = [t \in SUBSET D |-> After(g, t)]
    BY <2>1, <2>2 DEF OnSubsets
  <2>q. QED
    BY <2>3
<1>9. \A t \in SUBSET D : h[t] = After(h, t)
  <2>1. h = [t \in SUBSET D |-> After(h, t)]
    <3> HIDE DEF After
    <3>q. QED
      BY <1>8
  <2> HIDE DEF h, After
  <2>q. QED
    BY <2>1
<1> HIDE DEF h
<1>p. PICK q : Passes(q, z, U, D, F) /\ q[n] = h[D]
  <2>1. h[{}] = z
    <3>1. {} \in SUBSET D
      OBVIOUS
    <3>q. QED
      BY <1>9, <3>1
  <2>2. \A t \in SUBSET D : t # {} /\ h[t \ {Max(t)}] \in U
                              => h[t] = F[<<h[t \ {Max(t)}], Max(t)>>]
    BY <1>5, <1>6, <1>9
  <2>3. IsPlaces(D, n) /\ n \in Nat /\ z \in U
    BY <1>1, <1>4 DEF D, IsPlaces
  <2>4. FoldsFrom(h, z, U, D, F)
    BY <2>1, <2>2 DEF FoldsFrom
  <2> HIDE DEF After, n
  <2>5. \A x \in U \X D : F[x] \in U
    BY <1>7
  <2>6. Unrolled(h, z, U, D, F, n)
    BY <2>3, <2>4, <2>5, FoldedAlong
  <2>q. QED
    BY <2>6 DEF Unrolled
<1>10. /\ q[0] = z /\ q[n] = h[D]
       /\ \A k \in D : /\ q[k - 1] \in U /\ q[k] \in U
                       /\ q[k] = F[<<q[k - 1], k>>]
  BY <1>p DEF Passes
<1>11. \A k \in D : q[k] = Op(q[k - 1], k)
  BY <1>5, <1>10
<1>12. \A k \in 1..n : q[k - 1] \in Nat /\ q[k] \in Nat /\ q[k] = q[k - 1] + list[k]
  BY <1>10, <1>11 DEF D, U, Op
<1>13. SumPasses(q, list)
  BY <1>4, <1>10, <1>12 DEF SumPasses
<1>q. QED
  BY <1>2, <1>10, <1>13

LEMMA PassesTyped ==
    ASSUME NEW list \in Seq(Nat), NEW q, SumPasses(q, list), NEW k \in 0..Len(list)
    PROVE  q[k] \in Nat
<1>1. CASE k = 0
  BY <1>1 DEF SumPasses
<1>2. CASE k # 0
  <2>1. k \in 1..Len(list)
    BY <1>2
  <2>q. QED
    BY <2>1 DEF SumPasses
<1>q. QED
  BY <1>1, <1>2

\* The sum of a part of a list is the difference of two of its sums.
LEMMA SumOfRange ==
    ASSUME NEW list \in Seq(Nat), NEW q, SumPasses(q, list),
           NEW m \in Nat, NEW n \in Nat, m <= n, n <= Len(list)
    PROVE  SumOf(SubSeq(list, m + 1, n)) = q[n] - q[m]
<1> DEFINE part == SubSeq(list, m + 1, n)
           l == n - m
<1>1. /\ part \in Seq(Nat) /\ Len(part) = l /\ l \in Nat /\ m + l = n
      /\ \A k \in 1..l : part[k] = list[m + k]
  <2>1. Len(part) = l
    OBVIOUS
  <2>2. part \in Seq(Nat)
    OBVIOUS
  <2>3. \A k \in 1..l : part[k] = list[m + k]
    <3> SUFFICES ASSUME NEW k \in 1..l PROVE part[k] = list[m + k]
      OBVIOUS
    <3>1. part[k] = list[(m + 1) + k - 1] /\ (m + 1) + k - 1 = m + k
      OBVIOUS
    <3>q. QED
      BY <3>1
  <2>q. QED
    BY <2>1, <2>2, <2>3
<1> HIDE DEF part, l
<1>2. PICK p : SumPasses(p, part) /\ SumOf(part) = p[Len(part)]
  BY <1>1, SumPassed
<1> DEFINE P == [k \in 0..l |-> {q[m + k] - q[m]}]
<1>3. \A k \in 0..l : P[k] = {q[m + k] - q[m]}
  OBVIOUS
<1>4. q[m] \in Nat /\ \A k \in 0..l : q[m + k] \in Nat
  <2>1. m \in 0..Len(list) /\ \A k \in 0..l : m + k \in 0..Len(list)
    BY <1>1
  <2>q. QED
    BY <2>1, PassesTyped
<1> HIDE DEF P
<1>5. p[0] \in P[0]
  <2>1. 0 \in 0..l /\ m + 0 = m
    BY <1>1
  <2>2. p[0] = 0
    BY <1>2 DEF SumPasses
  <2>3. P[0] = {q[m] - q[m]}
    BY <1>3, <2>1
  <2>q. QED
    BY <1>4, <2>2, <2>3
<1>6. ASSUME NEW k \in 1..l, p[k - 1] \in P[k - 1]
      PROVE  p[k] \in P[k]
  <2>0. Len(list) \in Nat /\ k \in Nat /\ 1 <= k /\ k <= l /\ m + l <= Len(list)
    BY <1>1
  <2>a. l \in Nat /\ k - 1 \in 0..l /\ k \in 0..l
    BY <1>1, <2>0
  <2>b. m + k \in 1..Len(list)
    BY <2>0, <2>a
  <2>c. (m + k) - 1 = m + (k - 1)
    BY <2>0
  <2>1. k \in 0..l /\ k - 1 \in 0..l /\ m + k \in 1..Len(list) /\ (m + k) - 1 = m + (k - 1)
    BY <2>a, <2>b, <2>c
  <2>2. p[k - 1] = q[m + (k - 1)] - q[m]
    BY <1>3, <1>6, <2>1
  <2>3. p[k] = p[k - 1] + part[k]
    BY <1>1, <1>2 DEF SumPasses
  <2>4. q[m + k] = q[m + (k - 1)] + list[m + k]
    BY <2>1 DEF SumPasses
  <2>5. part[k] = list[m + k] /\ list[m + k] \in Nat
    BY <1>1, <2>1
  <2>6. q[m + (k - 1)] \in Nat
    BY <1>4, <2>1
  <2>7. p[k] = q[m + k] - q[m]
    <3> DEFINE a == q[m + (k - 1)]
               b == list[m + k]
               c == q[m]
    <3>1. a \in Nat /\ b \in Nat /\ c \in Nat
      BY <1>4, <2>5, <2>6
    <3>2. q[m + k] = a + b
      BY <2>4
    <3>3. p[k] = (a - c) + b
      BY <2>2, <2>3, <2>5
    <3> HIDE DEF a, b
    <3>4. p[k] = (a + b) - c
      BY <3>1, <3>3
    <3>q. QED
      BY <3>2, <3>4
  <2>q. QED
    BY <1>3, <2>1, <2>7
<1>7. \A k \in 0..l : p[k] \in P[k]
  BY <1>1, <1>5, <1>6, AlongPlaces
<1>8. p[l] = q[m + l] - q[m]
  <2>1. l \in 0..l
    BY <1>1
  <2>q. QED
    BY <1>3, <1>7, <2>1
<1>q. QED
  BY <1>1, <1>2, <1>8 DEF part

LEMMA SumOfTwoParts ==
    ASSUME NEW list \in Seq(Nat), NEW m \in Nat, m <= Len(list)
    PROVE  /\ SumOf(SubSeq(list, 1, m)) \in Nat
           /\ SumOf(SubSeq(list, 1, m)) + SumOf(SubSeq(list, m + 1, Len(list))) = SumOf(list)
<1>1. PICK q : SumPasses(q, list) /\ SumOf(list) = q[Len(list)]
  BY SumPassed
<1> DEFINE n == Len(list)
<1>2. n \in Nat /\ q[0] = 0
  BY <1>1 DEF SumPasses
<1>3. q[n] \in Nat /\ q[m] \in Nat
  <2>1. n \in 0..n /\ m \in 0..n
    BY <1>2
  <2>q. QED
    BY <1>1, <2>1, PassesTyped
<1>4. SumOf(SubSeq(list, m + 1, n)) = q[n] - q[m]
  BY <1>1, <1>2, SumOfRange
<1>5. SumOf(SubSeq(list, 0 + 1, m)) = q[m] - q[0]
  BY <1>1, <1>2, SumOfRange
<1>6. SumOf(SubSeq(list, 1, m)) = q[m]
  <2>1. 0 + 1 = 1
    OBVIOUS
  <2>q. QED
    BY <1>2, <1>3, <1>5, <2>1
<1> HIDE DEF n
<1>q. QED
  BY <1>1, <1>3, <1>4, <1>6 DEF n

LEMMA SumOfAppend ==
    ASSUME NEW list \in Seq(Nat), NEW x \in Nat
    PROVE  SumOf(Append(list, x)) = SumOf(list) + x /\ SumOf(list) \in Nat
<1> DEFINE b == Append(list, x)
           n == Len(list)
<1>1. b \in Seq(Nat) /\ Len(b) = n + 1 /\ n \in Nat /\ b[n + 1] = x /\ SubSeq(b, 1, n) = list
  <2>1. b \in Seq(Nat) /\ Len(b) = n + 1 /\ n \in Nat /\ b[n + 1] = x
        /\ \A k \in 1..n : b[k] = list[k]
    BY AppendPlaces
  <2> HIDE DEF b
  <2>2. SubSeq(b, 1, n) = list
    BY <2>1, FrontRestored
  <2>q. QED
    BY <2>1, <2>2
<1> HIDE DEF b, n
<1>2. PICK q : SumPasses(q, b) /\ SumOf(b) = q[Len(b)]
  BY <1>1, SumPassed
<1>3. q[n + 1] = q[n] + x /\ q[n] \in Nat /\ q[0] = 0
  <2>1. n + 1 \in 1..Len(b) /\ (n + 1) - 1 = n
    BY <1>1
  <2>q. QED
    BY <1>1, <1>2, <2>1 DEF SumPasses
<1>4. SumOf(SubSeq(b, 0 + 1, n)) = q[n] - q[0]
  BY <1>1, <1>2, SumOfRange
<1>5. SumOf(list) = q[n]
  <2>1. 0 + 1 = 1
    OBVIOUS
  <2>2. SumOf(SubSeq(b, 1, n)) = q[n] - q[0]
    BY <1>4, <2>1
  <2>3. q[n] - q[0] = q[n]
    BY <1>3
  <2>4. SubSeq(b, 1, n) = list
    BY <1>1
  <2>q. QED
    BY <2>2, <2>3, <2>4
<1>q. QED
  BY <1>1, <1>2, <1>3, <1>5 DEF b

-----------------------------------------------------------------------------
(* What an instance that reserves never loses.                             *)

\* The reservations fit, nothing is in the cache twice, and what decodes has
\* its whole prefix there.
Holding(i) ==
    /\ Reserving(i)
    /\ \A r \in Active(i) : Need(i, r) >= 0 /\ Remaining(i, r) >= 0
    /\ \A r \in ToSet(i.running) : Need(i, r) = 0

Unfinished(i, S) == \A r \in S : Remaining(i, r) >= 1

\* What completes has all its tokens and none too many.
Exact(i) == \A r \in ToSet(i.completed) : Remaining(i, r) = 0

Tokens(i) == Total([r \in DOMAIN i.req |-> i.req[r].generated])

\* Every token decoded is in one entry of step_stats.
Counted(i) == IsFiniteSet(DOMAIN i.req) /\ SumOf(i.stats) = Tokens(i)

Almost(i) == Holding(i) /\ Unfinished(i, ToSet(i.waiting)) /\ Exact(i) /\ Counted(i)

Steady(i) == Holding(i) /\ Unfinished(i, Active(i)) /\ Exact(i) /\ Counted(i)

\* Nothing is sent back to the waiting requests.
Onward(i, j) == ToSet(j.waiting) \subseteq ToSet(i.waiting)

LEMMA NumbersOf ==
    ASSUME NEW i, Well(i), NEW r \in DOMAIN i.req
    PROVE  /\ r \in Nat /\ i.req[r].prefilled \in Nat /\ i.req[r].generated \in Nat
           /\ PromptLen(r) \in Nat /\ TargetLen(r) \in Nat
           /\ Need(i, r) = PromptLen(r) + i.req[r].generated - i.req[r].prefilled
           /\ Remaining(i, r) = TargetLen(r) - i.req[r].generated
           /\ Need(i, r) \in Int /\ Remaining(i, r) \in Int
<1>1. r \in Nat /\ i.req[r].prefilled \in Nat /\ i.req[r].generated \in Nat
  BY ReqTyped
<1>2. PromptLen(r) \in Nat /\ TargetLen(r) \in Nat
  BY <1>1, LengthsTyped
<1>3. /\ Need(i, r) = PromptLen(r) + i.req[r].generated - i.req[r].prefilled
      /\ Remaining(i, r) = TargetLen(r) - i.req[r].generated
  BY DEF Need, Remaining
<1> DEFINE a == PromptLen(r)
           b == TargetLen(r)
           g == i.req[r].generated
           h == i.req[r].prefilled
<1> HIDE DEF a, b, g, h
<1>4. a + g - h \in Int /\ b - g \in Int
  BY <1>1, <1>2 DEF a, b, g, h
<1>q. QED
  BY <1>1, <1>2, <1>3, <1>4 DEF a, b, g, h

\* An instance that holds what it reserves has a block for every decode.
LEMMA HoldingFacts ==
    ASSUME NEW i, Well(i), Holding(i)
    PROVE  /\ Within(i) /\ BlocksUsed(i) <= KvBlocks
           /\ \A r \in ToSet(i.running) :
                 Remaining(i, r) >= 1 /\ AtBlockEnd(i, r) => FreeBlocks(i) > 0
<1>1. ASSUME NEW r \in Active(i)
      PROVE  /\ i.req[r].prefilled <= PromptLen(r) + TargetLen(r)
             /\ Need(i, r) = 0 /\ Remaining(i, r) >= 1
                  => i.req[r].prefilled < PromptLen(r) + TargetLen(r)
  <2> DEFINE a == PromptLen(r)
             b == TargetLen(r)
             g == i.req[r].generated
             h == i.req[r].prefilled
  <2>1. r \in DOMAIN i.req
    BY WellFields
  <2>2. /\ a \in Nat /\ b \in Nat /\ g \in Nat /\ h \in Nat
        /\ Need(i, r) = a + g - h /\ Remaining(i, r) = b - g
    BY <2>1, NumbersOf
  <2>3. a + g - h >= 0 /\ b - g >= 0
    BY <2>2 DEF Holding
  <2> HIDE DEF a, b, g, h
  <2>4. h <= a + b
    BY <2>2, <2>3
  <2>5. a + g - h = 0 /\ b - g >= 1 => h < a + b
    BY <2>2
  <2>q. QED
    BY <2>2, <2>4, <2>5 DEF a, b, h
<1>2. Within(i)
  BY <1>1 DEF Within
<1>3. /\ BlocksUsed(i) <= KvBlocks
      /\ \A r \in Active(i) :
            AtBlockEnd(i, r) /\ i.req[r].prefilled < PromptLen(r) + TargetLen(r)
              => FreeBlocks(i) > 0
  BY <1>2, BlocksFit DEF Holding
<1>4. ASSUME NEW r \in ToSet(i.running), Remaining(i, r) >= 1, AtBlockEnd(i, r)
      PROVE  FreeBlocks(i) > 0
  <2>1. r \in Active(i) /\ Need(i, r) = 0
    BY WellFields DEF Holding
  <2>q. QED
    BY <1>1, <1>3, <1>4, <2>1
<1>q. QED
  BY <1>2, <1>3, <1>4

-----------------------------------------------------------------------------
(* Tokens and their entries.                                               *)

LEMMA TokensAre ==
    ASSUME NEW i
    PROVE  Tokens(i) = Part([r \in DOMAIN i.req |-> i.req[r].generated], DOMAIN i.req)
  BY DEF Tokens, Part

\* Each request of W gets c tokens more and one entry says so.
LEMMA CountedRaised ==
    ASSUME NEW i, NEW j, Well(i), Counted(i), NEW W \in SUBSET DOMAIN i.req, NEW c \in Nat,
           DOMAIN j.req = DOMAIN i.req,
           \A r \in DOMAIN i.req :
              j.req[r].generated = IF r \in W THEN i.req[r].generated + c
                                   ELSE i.req[r].generated,
           j.stats = Append(i.stats, c * Cardinality(W))
    PROVE  Counted(j)
<1> DEFINE S == DOMAIN i.req
           f == [r \in S |-> i.req[r].generated]
           e == [r \in S |-> j.req[r].generated]
           m == c * Cardinality(W)
<1>1. IsFiniteSet(S) /\ W \in SUBSET S /\ SumOf(i.stats) = Tokens(i)
  BY DEF Counted
<1>2. \A r \in S : f[r] = i.req[r].generated /\ e[r] = j.req[r].generated /\ f[r] \in Nat
  BY ReqTyped
<1>3. Tokens(i) = Part(f, S) /\ Tokens(j) = Part(e, S)
  BY TokensAre
<1> HIDE DEF f, e, S
<1>4. Raised(f, e, S, W, c)
  BY <1>2 DEF Raised, S
<1>a. \A r \in S : f[r] \in Nat
  BY <1>2
<1>5. Part(e, S) = Part(f, S) + m
  BY <1>1, <1>4, <1>a, PartRaised
<1>6. m \in Nat
  <2> DEFINE n == Cardinality(W)
  <2>1. n \in Nat
    BY <1>1, FS_Subset, FS_CardinalityType
  <2> HIDE DEF n
  <2>2. c * n \in Nat
    BY <2>1
  <2>q. QED
    BY <2>2 DEF n
<1>7. i.stats \in Seq(Nat)
  BY WellFields
<1> HIDE DEF m
<1>8. SumOf(j.stats) = SumOf(i.stats) + m
  <2>1. j.stats = Append(i.stats, m)
    BY DEF m
  <2>q. QED
    BY <1>6, <1>7, <2>1, SumOfAppend
<1>9. SumOf(j.stats) = Tokens(j)
  BY <1>1, <1>3, <1>5, <1>8
<1>q. QED
  BY <1>1, <1>9 DEF Counted, S

LEMMA CountedKept ==
    ASSUME NEW i, NEW j, Counted(i), DOMAIN j.req = DOMAIN i.req, j.stats = i.stats,
           \A r \in DOMAIN i.req : j.req[r].generated = i.req[r].generated
    PROVE  Counted(j)
<1>1. [r \in DOMAIN j.req |-> j.req[r].generated] = [r \in DOMAIN i.req |-> i.req[r].generated]
  OBVIOUS
<1>q. QED
  BY <1>1 DEF Counted, Tokens

\* A new request has no tokens yet.
LEMMA CountedOneMore ==
    ASSUME NEW i, NEW j, NEW r, Well(i), Counted(i), r \notin DOMAIN i.req,
           DOMAIN j.req = DOMAIN i.req \cup {r}, j.stats = i.stats,
           \A q \in DOMAIN i.req : j.req[q] = i.req[q], j.req[r].generated = 0
    PROVE  Counted(j)
<1> DEFINE S == DOMAIN i.req
           U == S \cup {r}
           f == [q \in S |-> i.req[q].generated]
           e == [q \in U |-> j.req[q].generated]
<1>1. IsFiniteSet(S) /\ IsFiniteSet(U) /\ r \notin S /\ SumOf(i.stats) = Tokens(i)
  BY FS_AddElement DEF Counted
<1>2. /\ \A q \in S : f[q] = e[q]
      /\ \A q \in S : f[q] \in Nat
      /\ e[r] = 0
  BY ReqTyped
<1>3. Tokens(i) = Part(f, S) /\ Tokens(j) = Part(e, U)
  BY TokensAre
<1> HIDE DEF f, e, S
<1>4. \A q \in S \cup {r} : e[q] \in Nat
  BY <1>2
<1>5. Part(e, S \cup {r}) = e[r] + Part(e, S)
  BY <1>1, <1>4, PartOfOneMore
<1>6. Part(f, S) = Part(e, S)
  BY <1>2, PartEqual
<1>7. Part(f, S) \in Nat
  <2>1. \A q \in S : f[q] \in Nat
    BY <1>2
  <2>2. Sums(f, S)
    BY <1>1, <2>1, PartSums
  <2>q. QED
    BY <2>2 DEF Sums
<1>8. Tokens(j) = Tokens(i)
  BY <1>2, <1>3, <1>5, <1>6, <1>7
<1>q. QED
  BY <1>1, <1>8 DEF Counted, S

-----------------------------------------------------------------------------
(* The prefills of a step.                                                 *)

\* The loop over the waiting requests of i once those of t have been asked: no
\* request has more in the cache than it has tokens, and the finished have all.
Filling(i, t) ==
    {s \in PrefillStates(i) :
       /\ ToSet(s.finished) \subseteq t
       /\ \A r \in ToSet(i.waiting) : Need(s.inst, r) >= 0
       /\ \A r \in ToSet(s.finished) : Need(s.inst, r) = 0}

LEMMA FillingFields ==
    ASSUME NEW i, Well(i), NEW t \in SUBSET ToSet(i.waiting), NEW s \in Filling(i, t)
    PROVE  /\ s \in PrefillState /\ Prefilling(i, s.inst)
           /\ Well(s.inst) /\ s.inst.waiting = i.waiting /\ s.inst.running = i.running
           /\ DOMAIN s.inst.req = DOMAIN i.req
           /\ ToSet(s.finished) \subseteq t
           /\ \A r \in ToSet(i.waiting) : Need(s.inst, r) >= 0
           /\ \A r \in ToSet(s.finished) : Need(s.inst, r) = 0
<1>1. s \in PrefillState /\ Prefilling(i, s.inst)
  BY DEF Filling, PrefillStates
<1>2. Follows(i, s.inst, <<>>, 0) /\ SameLists(i, s.inst)
  BY <1>1, PrefillingFollows DEF Prefilling
<1>3. Well(s.inst)
  BY <1>2 DEF Follows
<1>q. QED
  BY <1>1, <1>2, <1>3 DEF Filling, SameLists

LEMMA PrefillOneFills ==
    ASSUME NEW i, Well(i), NEW t \in SUBSET ToSet(i.waiting), NEW r \in t,
           NEW s \in Filling(i, t \ {r})
    PROVE  PrefillOne(s, r) \in Filling(i, t)
<1> DEFINE held == s.inst.req[r].prefilled
           chunk == Chunk(s.inst, r, s.budget, s.free)
           need == Need(s.inst, r)
           blocked == held = 0 /\ ~Below(s.inBatch, MaxConcurrency)
           in == Entered(s, held)
           fin == Append(s.finished, r)
           p == PrefillOne(s, r)
<1>1. /\ s \in PrefillState /\ Prefilling(i, s.inst)
      /\ Well(s.inst) /\ s.inst.waiting = i.waiting /\ s.inst.running = i.running
      /\ DOMAIN s.inst.req = DOMAIN i.req
      /\ ToSet(s.finished) \subseteq t \ {r}
      /\ \A q \in ToSet(i.waiting) : Need(s.inst, q) >= 0
      /\ \A q \in ToSet(s.finished) : Need(s.inst, q) = 0
  <2>1. t \ {r} \in SUBSET ToSet(i.waiting)
    OBVIOUS
  <2>q. QED
    BY <2>1, FillingFields
<1>2. /\ s.inst \in Record /\ s.finished \in Seq(Nat) /\ s.free \in Int
      /\ s.inBatch \in Int /\ s.budget \in Int /\ s.open \in BOOLEAN
  BY <1>1 DEF PrefillState
<1>3. /\ r \in DOMAIN s.inst.req /\ r \in Nat /\ r \in ToSet(s.inst.waiting)
      /\ r \in ToSet(i.waiting) /\ ToSet(i.waiting) \in SUBSET DOMAIN s.inst.req
  <2>1. r \in ToSet(i.waiting)
    OBVIOUS
  <2>2. i.waiting \in Seq(Nat) /\ ToSet(i.waiting) \in SUBSET DOMAIN i.req
    BY WellFields
  <2>3. r \in Nat
    BY <2>1, <2>2, ListFacts
  <2>q. QED
    BY <1>1, <2>1, <2>2, <2>3
<1>4. held \in Nat /\ need \in Int /\ chunk \in Int /\ chunk <= need /\ need >= 0
  <2>1. held \in Nat
    BY <1>1, <1>3, ReqTyped
  <2>2. need \in Int
    BY <1>1, <1>3, InstanceNumbers
  <2>3. chunk \in Int /\ chunk <= need
    BY <1>1, <1>2, <1>3, ChunkTyped
  <2>4. need >= 0
    BY <1>1, <1>3
  <2>q. QED
    BY <2>1, <2>2, <2>3, <2>4
<1>5. p \in PrefillStates(i)
  <2>1. s \in PrefillStates(i) /\ r \in ToSet(i.waiting)
    BY <1>1, <1>3 DEF PrefillStates
  <2>q. QED
    BY <2>1, PrefillOneKeeps
<1>6. ToSet(fin) = ToSet(s.finished) \cup {r}
  <2> DEFINE list == s.finished
  <2>1. list \in Seq(Nat)
    BY <1>2
  <2> HIDE DEF list
  <2>2. ToSet(Append(list, r)) = ToSet(list) \cup {r}
    BY <1>3, <2>1, AppendFacts
  <2>q. QED
    BY <2>2 DEF list
<1>7. CASE ~s.open \/ s.budget <= 0 \/ blocked
  <2>2. p = [s EXCEPT !.open = FALSE]
    BY <1>7 DEF PrefillOne
  <2>3. p.inst = s.inst /\ p.finished = s.finished
    BY <1>1, <2>2 DEF PrefillState
  <2> HIDE DEF p
  <2>4. p \in Filling(i, t)
    BY <1>1, <1>5, <2>3 DEF Filling
  <2>q. QED
    BY <2>4 DEF p
<1>8. CASE ~(~s.open \/ s.budget <= 0 \/ blocked) /\ need <= 0
  <2>1. p = [s EXCEPT !.inBatch = in, !.finished = fin]
    BY <1>8, <1>1 DEF PrefillOne, PrefillState
  <2> HIDE DEF in, fin, p
  <2>2. p.inst = s.inst /\ p.finished = fin
    BY <1>1, <2>1 DEF PrefillState
  <2>3. Need(s.inst, r) = 0
    BY <1>4, <1>8
  <2>4. \A q \in ToSet(p.finished) : Need(p.inst, q) = 0
    BY <1>1, <1>6, <2>2, <2>3
  <2>5. ToSet(p.finished) \subseteq t
    BY <1>1, <1>6, <2>2
  <2>6. p \in Filling(i, t)
    BY <1>1, <1>5, <2>2, <2>4, <2>5 DEF Filling
  <2>q. QED
    BY <2>6 DEF p
<1>9. CASE ~(~s.open \/ s.budget <= 0 \/ blocked) /\ ~(need <= 0) /\ chunk <= 0
  <2>2. p = [s EXCEPT !.open = FALSE]
    BY <1>9 DEF PrefillOne
  <2>3. p.inst = s.inst /\ p.finished = s.finished
    BY <1>1, <2>2 DEF PrefillState
  <2> HIDE DEF p
  <2>4. p \in Filling(i, t)
    BY <1>1, <1>5, <2>3 DEF Filling
  <2>q. QED
    BY <2>4 DEF p
<1>10. CASE ~(~s.open \/ s.budget <= 0 \/ blocked) /\ ~(need <= 0) /\ ~(chunk <= 0)
  <2> DEFINE filled == Fill(s.inst, r, chunk)
             finished == IF chunk = need THEN fin ELSE s.finished
  <2>1. p.inst = filled /\ p.finished = finished
    <3>1. p = [s EXCEPT !.inBatch = in, !.inst = filled,
                        !.free = @ - (BlocksFor(held + chunk) - BlocksFor(held)),
                        !.budget = @ - chunk, !.finished = finished]
      BY <1>1, <1>10 DEF PrefillOne, PrefillState
    <3> HIDE DEF in, filled, finished, p
    <3>q. QED
      BY <1>1, <3>1 DEF PrefillState
  <2>2. chunk \in Nat /\ chunk > 0
    BY <1>4, <1>10
  <2>3. Well(filled)
    <3>1. Prefilling(i, filled)
      BY <1>1, <1>3, <2>2, FillPrefills
    <3>2. Follows(i, filled, <<>>, 0)
      BY <3>1, PrefillingFollows
    <3>q. QED
      BY <3>2 DEF Follows
  <2> HIDE DEF chunk, p
  <2>4. /\ Need(filled, r) = Need(s.inst, r) - chunk
        /\ \A q \in DOMAIN s.inst.req : q # r => Need(filled, q) = Need(s.inst, q)
    BY <1>1, <1>3, <2>2, <2>3, FillFacts
  <2> HIDE DEF filled
  <2>5. Need(filled, r) >= 0 /\ (chunk = need => Need(filled, r) = 0)
    BY <1>4, <2>4
  <2> HIDE DEF fin, need
  <2>8. ToSet(finished) \subseteq t
    BY <1>1, <1>6
  <2>9. \A q \in ToSet(i.waiting) : Need(filled, q) >= 0
    BY <1>1, <1>3, <2>4, <2>5
  <2>10. \A q \in ToSet(finished) : Need(filled, q) = 0
    <3> SUFFICES ASSUME NEW q \in ToSet(finished)
                 PROVE  Need(filled, q) = 0
      OBVIOUS
    <3>1. CASE q = r
      <4>1. chunk = need
        BY <1>1, <3>1
      <4>q. QED
        BY <2>5, <3>1, <4>1
    <3>2. CASE q # r
      <4>1. q \in ToSet(s.finished)
        BY <1>6, <3>2
      <4>2. q \in DOMAIN s.inst.req
        BY <1>1, <1>3, <4>1
      <4>q. QED
        BY <1>1, <2>4, <3>2, <4>1, <4>2
    <3>q. QED
      BY <3>1, <3>2
  <2> HIDE DEF finished
  <2>13. p \in PrefillStates(i)
    BY <1>5 DEF p
  <2>14. p \in Filling(i, t)
    BY <2>1, <2>8, <2>9, <2>10, <2>13 DEF Filling
  <2>q. QED
    BY <2>14 DEF p
<1>q. QED
  BY <1>7, <1>8, <1>9, <1>10

LEMMA PrefilledFills ==
    ASSUME NEW i, Well(i), \A r \in ToSet(i.waiting) : Need(i, r) >= 0
    PROVE  Prefilled(i) \in Filling(i, ToSet(i.waiting))
<1> DEFINE W == ToSet(i.waiting)
           S == [t \in SUBSET W |-> Filling(i, t)]
<1>1. \A t \in SUBSET W : S[t] = Filling(i, t)
  OBVIOUS
<1>2. IsFiniteSet(W) /\ W \in SUBSET Nat /\ \A r \in W : r \in Int
  <2>1. i.waiting \in Seq(Nat)
    BY WellFields
  <2>2. IsFiniteSet(W) /\ W \in SUBSET Nat
    BY <2>1, ListFacts
  <2>q. QED
    BY <2>2
<1> HIDE DEF S, W
<1>3. PrefillStarts(i, S)
  <2> DEFINE z == PrefillStart(i)
  <2>1. z \in PrefillStates(i) /\ z.finished = <<>> /\ z.inst = i
    BY PrefillStartTyped
  <2>3. ToSet(<<>>) = {} /\ {} \in SUBSET W
    BY DEF ToSet
  <2> HIDE DEF z
  <2>4. z \in Filling(i, {})
    BY <2>1, <2>3 DEF Filling
  <2>q. QED
    BY <1>1, <2>3, <2>4 DEF PrefillStarts, z
<1>4. PrefillKeeps(i, S)
  <2> SUFFICES ASSUME NEW t \in SUBSET W, t # {}, NEW s \in PrefillStates(i),
                      s \in S[t \ {Max(t)}]
               PROVE  PrefillOne(s, Max(t)) \in S[t]
    BY DEF PrefillKeeps, W
  <2>1. Max(t) \in t /\ t \ {Max(t)} \in SUBSET W
    BY <1>2, MaxChooses
  <2>2. s \in Filling(i, t \ {Max(t)})
    BY <1>1, <2>1
  <2>3. PrefillOne(s, Max(t)) \in Filling(i, t)
    BY <2>1, <2>2, PrefillOneFills DEF W
  <2>q. QED
    BY <1>1, <2>3
<1>5. Prefilled(i) \in S[W]
  BY <1>3, <1>4, PrefilledBy DEF W
<1>q. QED
  BY <1>1, <1>5 DEF W

\* The prefills of a step keep what the instance holds; the finished requests
\* have their whole prefix in the cache.
LEMMA PrefilledHolds ==
    ASSUME NEW i, Well(i), Steady(i)
    PROVE  LET p == Prefilled(i)
           IN /\ Well(p.inst) /\ Prefilling(i, p.inst) /\ Steady(p.inst)
              /\ p.finished \in Seq(Nat) /\ IsInjective(p.finished)
              /\ ToSet(p.finished) \subseteq ToSet(i.waiting)
              /\ \A r \in ToSet(p.finished) : Need(p.inst, r) = 0
<1> DEFINE p == Prefilled(i)
           j == p.inst
<1>1. \A r \in ToSet(i.waiting) : Need(i, r) >= 0
  BY WellFields, Zenon DEF Steady, Holding
<1>2. /\ p \in PrefillState /\ Prefilling(i, j)
      /\ Well(j) /\ j.waiting = i.waiting /\ j.running = i.running
      /\ DOMAIN j.req = DOMAIN i.req
      /\ ToSet(p.finished) \subseteq ToSet(i.waiting)
      /\ \A r \in ToSet(i.waiting) : Need(j, r) >= 0
      /\ \A r \in ToSet(p.finished) : Need(j, r) = 0
  <2>1. p \in Filling(i, ToSet(i.waiting))
    BY <1>1, PrefilledFills
  <2> HIDE DEF p
  <2>q. QED
    BY <2>1, FillingFields
<1>3. p.finished \in Seq(Nat) /\ IsInjective(p.finished)
  BY <1>2, PrefilledFacts DEF PrefillState
<1> HIDE DEF p, j
<1>4. /\ j.completed = i.completed /\ j.stats = i.stats
      /\ \A r \in DOMAIN i.req : j.req[r].generated = i.req[r].generated
      /\ \A r \in DOMAIN i.req : r \notin ToSet(i.waiting) => j.req[r] = i.req[r]
  BY <1>2 DEF Prefilling, SameLists
<1>5. /\ ToSet(i.running) \in SUBSET DOMAIN i.req /\ ToSet(i.completed) \in SUBSET DOMAIN i.req
      /\ ToSet(i.waiting) \cap ToSet(i.running) = {}
      /\ Active(i) \in SUBSET DOMAIN i.req
      /\ Active(i) = ToSet(i.waiting) \cup ToSet(i.running)
  BY WellFields
<1>6. Active(j) = Active(i)
  BY <1>2 DEF Active
<1>7. \A r \in DOMAIN i.req : Remaining(j, r) = Remaining(i, r)
  BY <1>4 DEF Remaining
<1>8. \A r \in ToSet(i.running) : Need(j, r) = Need(i, r)
  BY <1>4, <1>5 DEF Need
<1>9. Holding(j)
  <2>1. Reserving(j)
    BY <1>6, ReservingKept DEF Steady, Holding
  <2>2. \A r \in ToSet(j.running) : Need(j, r) = 0
    BY <1>2, <1>8 DEF Steady, Holding
  <2>3. \A r \in Active(j) : Need(j, r) >= 0
    BY <1>2, <1>5, <1>6, <2>2
  <2>4. \A r \in Active(j) : Remaining(j, r) >= 0
    BY <1>5, <1>6, <1>7 DEF Steady, Holding
  <2>q. QED
    BY <2>1, <2>2, <2>3, <2>4 DEF Holding
<1>10. Unfinished(j, Active(j))
  BY <1>5, <1>6, <1>7 DEF Steady, Unfinished
<1>11. Exact(j)
  BY <1>4, <1>5, <1>7 DEF Steady, Exact
<1>12. Counted(j)
  BY <1>2, <1>4, CountedKept DEF Steady
<1>13. Steady(j)
  BY <1>9, <1>10, <1>11, <1>12 DEF Steady
<1>q. QED
  BY <1>2, <1>3, <1>13 DEF p, j

-----------------------------------------------------------------------------
(* The decodes of a step.                                                  *)

\* Tokens that are decoded fill the cache too.
LEMMA HoldingRaised ==
    ASSUME NEW i, NEW j, Well(i), Well(j), Holding(i), SameLists(i, j),
           NEW rs \in SUBSET ToSet(i.running), NEW n \in Nat, TokensBy(i, j, rs, n),
           \A r \in rs : Remaining(i, r) >= n
    PROVE  /\ Holding(j)
           /\ \A r \in DOMAIN i.req :
                 /\ Need(j, r) = Need(i, r)
                 /\ r \in rs => Remaining(j, r) = Remaining(i, r) - n
                 /\ r \notin rs => Remaining(j, r) = Remaining(i, r)
<1>1. /\ j.waiting = i.waiting /\ j.running = i.running /\ DOMAIN j.req = DOMAIN i.req
      /\ Active(j) = Active(i)
  BY DEF SameLists, Active
<1>2. Active(i) \in SUBSET DOMAIN i.req /\ ToSet(i.running) \in SUBSET Active(i)
  BY WellFields, ZenonT(30)
<1>3. ASSUME NEW r \in DOMAIN i.req
      PROVE  /\ Need(j, r) = Need(i, r)
             /\ r \in rs => Remaining(j, r) = Remaining(i, r) - n
             /\ r \notin rs => Remaining(j, r) = Remaining(i, r)
  <2>1. CASE r \notin rs
    <3>1. j.req[r] = i.req[r]
      BY <2>1 DEF TokensBy
    <3>q. QED
      BY <2>1, <3>1 DEF Need, Remaining
  <2>2. CASE r \in rs
    <3> DEFINE a == PromptLen(r)
               b == TargetLen(r)
               g == i.req[r].generated
               h == i.req[r].prefilled
               k == j.req[r].generated
               l == j.req[r].prefilled
    <3>1. /\ a \in Nat /\ b \in Nat /\ g \in Nat /\ h \in Nat
          /\ Need(i, r) = a + g - h /\ Remaining(i, r) = b - g
      BY NumbersOf
    <3>2. Need(j, r) = a + k - l /\ Remaining(j, r) = b - k
      BY <1>1, NumbersOf
    <3>3. k = g + n /\ l = h + n
      BY <2>2 DEF TokensBy
    <3> HIDE DEF a, b, g, h, k, l
    <3>q. QED
      BY <2>2, <3>1, <3>2, <3>3
  <2>q. QED
    BY <2>1, <2>2
<1>4. \A r \in Active(j) : Need(j, r) >= 0
  BY <1>1, <1>2, <1>3 DEF Holding
<1>5. \A r \in Active(j) : Remaining(j, r) >= 0
  <2> SUFFICES ASSUME NEW r \in Active(i) PROVE Remaining(j, r) >= 0
    BY <1>1
  <2>1. r \in DOMAIN i.req
    BY <1>2
  <2>2. Remaining(i, r) >= 0 /\ Remaining(i, r) \in Int
    BY <2>1, NumbersOf DEF Holding
  <2>3. CASE r \in rs
    BY <1>3, <2>1, <2>2, <2>3
  <2>4. CASE r \notin rs
    BY <1>3, <2>1, <2>2, <2>4
  <2>q. QED
    BY <2>3, <2>4
<1>6. \A r \in ToSet(j.running) : Need(j, r) = 0
  BY <1>1, <1>2, <1>3 DEF Holding
<1>7. Reserving(j)
  BY <1>1, ReservingKept DEF Holding
<1>q. QED
  BY <1>3, <1>4, <1>5, <1>6, <1>7 DEF Holding

LEMMA PrefixGrows ==
    ASSUME NEW R, NEW list \in Seq(R), NEW k \in Nat, 1 <= k, k <= Len(list)
    PROVE  /\ SubSeq(list, 1, k) = Append(SubSeq(list, 1, k - 1), list[k])
           /\ ToSet(SubSeq(list, 1, k)) = ToSet(SubSeq(list, 1, k - 1)) \cup {list[k]}
           /\ IsInjective(list) => list[k] \notin ToSet(SubSeq(list, 1, k - 1))
<1> DEFINE a == SubSeq(list, 1, k - 1)
           b == SubSeq(list, 1, k)
           c == Append(a, list[k])
<1>1. k \in Nat /\ k - 1 \in Nat /\ k <= Len(list) /\ k - 1 <= Len(list) /\ list[k] \in R
  OBVIOUS
<1>2. a \in Seq(R) /\ Len(a) = k - 1 /\ \A m \in 1..(k - 1) : a[m] = list[m]
  BY <1>1, PrefixFacts
<1>3. b \in Seq(R) /\ Len(b) = k /\ \A m \in 1..k : b[m] = list[m]
  BY <1>1, PrefixFacts
<1> HIDE DEF a, b
<1>4. c \in Seq(R) /\ Len(c) = k /\ c[k] = list[k] /\ \A m \in 1..(k - 1) : c[m] = a[m]
  <2>1. /\ c \in Seq(R) /\ Len(c) = Len(a) + 1
        /\ \A m \in 1..Len(a) : c[m] = a[m]
        /\ c[Len(a) + 1] = list[k]
    BY <1>1, <1>2, AppendPlaces
  <2>q. QED
    BY <1>1, <1>2, <2>1
<1> HIDE DEF c
<1>5. \A m \in 1..k : b[m] = c[m]
  <2> SUFFICES ASSUME NEW m \in 1..k PROVE b[m] = c[m]
    OBVIOUS
  <2>1. CASE m = k
    BY <1>3, <1>4, <2>1
  <2>2. CASE m # k
    <3>1. m \in 1..(k - 1)
      BY <1>1, <2>2
    <3>q. QED
      BY <1>2, <1>3, <1>4, <3>1
  <2>q. QED
    BY <2>1, <2>2
<1>6. b = c
  BY <1>3, <1>4, <1>5
<1>7. ToSet(c) = ToSet(a) \cup {list[k]}
  BY <1>1, <1>2, AppendFacts DEF c
<1>8. IsInjective(list) => list[k] \notin ToSet(a)
  <2> SUFFICES ASSUME IsInjective(list), list[k] \in ToSet(a) PROVE FALSE
    OBVIOUS
  <2>1. PICK m \in 1..(k - 1) : list[k] = list[m]
    BY <1>2 DEF ToSet
  <2>q. QED
    BY <2>1 DEF IsInjective
<1>q. QED
  BY <1>6, <1>7, <1>8 DEF a, b, c

\* The first k requests of list have decoded one token each.
FirstDecoded(i, list, k) ==
    {s \in DecodeState : /\ s.stepped = SubSeq(list, 1, k)
                         /\ TokensBy(i, s.inst, ToSet(SubSeq(list, 1, k)), 1)}

\* With reservations every request that should decode in a step does.
LEMMA DecodedExact ==
    ASSUME NEW i, NEW v \in Nat, NEW list \in Seq(Nat), Well(i), Holding(i),
           IsInjective(list), ToSet(list) \subseteq ToSet(i.running),
           \A r \in ToSet(list) : Remaining(i, r) >= 1
    PROVE  LET d == DecodedAll(i, v, list)
           IN /\ Well(d.inst) /\ SameLists(i, d.inst) /\ d.inst.stats = i.stats
              /\ d.stepped = list
              /\ TokensBy(i, d.inst, ToSet(list), 1)
<1> DEFINE n == Len(list)
           U(k) == {s \in FirstDecoded(i, list, k) : s.inst.stats = i.stats}
           P == [k \in 0..n |-> U(k)]
<1>1. n \in Nat /\ DOMAIN list = 1..n
  OBVIOUS
<1>2. \A k \in 0..n : P[k] = U(k)
  OBVIOUS
<1>3. i \in Record
  BY WellFields
<1> HIDE DEF P, n
<1>4. DecodeStart(i) \in P[0]
  <2> DEFINE z == DecodeStart(i)
  <2>1. z \in DecodeState /\ z.inst = i /\ z.stepped = <<>>
    BY <1>3 DEF DecodeStart, DecodeState
  <2>2. 0 \in 0..n
    BY <1>1
  <2>3. SubSeq(list, 1, 0) = <<>>
    OBVIOUS
  <2>4. ToSet(<<>>) = {}
    BY DEF ToSet
  <2>5. TokensBy(i, i, {}, 1)
    BY DEF TokensBy
  <2> HIDE DEF z
  <2>6. z \in FirstDecoded(i, list, 0)
    BY <2>1, <2>3, <2>4, <2>5 DEF FirstDecoded
  <2>q. QED
    BY <1>2, <2>1, <2>2, <2>6 DEF z
<1>5. ASSUME NEW k \in 1..n, NEW s \in DecodeStates(i, v), s \in P[k - 1]
      PROVE  DecodeOne(s, list[k], v) \in P[k]
  <2> DEFINE q == list[k]
             p == DecodeOne(s, q, v)
             e == s.inst
             old == ToSet(SubSeq(list, 1, k - 1))
             new == ToSet(SubSeq(list, 1, k))
  <2>1. k - 1 \in 0..n /\ k \in 0..n /\ k \in Nat /\ 1 <= k /\ k <= Len(list) /\ k - 1 \in Nat /\ k - 1 <= Len(list)
    BY <1>1 DEF n
  <2>2. /\ s \in DecodeState /\ s.stepped = SubSeq(list, 1, k - 1)
        /\ TokensBy(i, e, old, 1) /\ e.stats = i.stats
    BY <1>2, <1>5, <2>1 DEF FirstDecoded
  <2>3. /\ SubSeq(list, 1, k) = Append(SubSeq(list, 1, k - 1), q)
        /\ new = old \cup {q} /\ q \notin old
    BY <2>1, PrefixGrows
  <2>4. q \in ToSet(list) /\ old \subseteq ToSet(list)
    <3>1. q \in ToSet(list)
      BY <1>1 DEF ToSet
    <3>q. QED
      BY <2>1, <3>1, PrefixFacts
  <2>5. Well(e) /\ SameLists(i, e) /\ e.running = i.running /\ DOMAIN e.req = DOMAIN i.req
    BY DEF DecodeStates, Follows, SameLists
  <2> HIDE DEF q, old, new, e
  <2>6. q \in ToSet(i.running) /\ q \in DOMAIN i.req
    BY <2>4, WellFields
  <2>7. /\ Holding(e)
        /\ \A r \in DOMAIN i.req : r \notin old => Remaining(e, r) = Remaining(i, r)
    <3>1. old \in SUBSET ToSet(i.running) /\ \A r \in old : Remaining(i, r) >= 1
      BY <2>4
    <3>q. QED
      BY <2>2, <2>5, <3>1, HoldingRaised
  <2>8. Remaining(e, q) >= 1
    BY <2>3, <2>4, <2>6, <2>7
  <2>9. HasBlock(e, q)
    <3>1. AtBlockEnd(e, q) => FreeBlocks(e) > 0
      BY <2>5, <2>6, <2>7, <2>8, HoldingFacts
    <3>2. FreeBlocks(e) \in Int
      BY <2>5, InstanceNumbers
    <3>q. QED
      BY <3>1, <3>2 DEF HasBlock
  <2> DEFINE rs == {q}
             j == Generate(e, rs, v, 1)
  <2>10. p = [inst |-> j, stepped |-> Append(s.stepped, q)]
    BY <2>9 DEF DecodeOne, e
  <2>11. rs \subseteq Active(e) /\ rs \subseteq ToSet(e.running)
    <3>1. ToSet(e.running) \subseteq Active(e)
      BY <2>5, WellFields, ZenonT(30)
    <3>q. QED
      BY <2>5, <2>6, <3>1
  <2>a. \A r : r \in rs <=> r = q
    OBVIOUS
  <2> HIDE DEF rs
  <2>12. TokensBy(e, j, rs, 1) /\ j.stats = e.stats
    BY <2>5, <2>11, GenerateFollows
  <2> HIDE DEF j
  <2>13. TokensBy(i, j, new, 1)
    <3> SUFFICES ASSUME NEW r \in DOMAIN i.req
                 PROVE  /\ r \notin new => j.req[r] = i.req[r]
                        /\ r \in new => /\ j.req[r].generated = i.req[r].generated + 1
                                        /\ j.req[r].prefilled = i.req[r].prefilled + 1
      BY DEF TokensBy
    <3>1. CASE r = q
      <4>1. e.req[r] = i.req[r]
        BY <2>2, <2>3, <3>1 DEF TokensBy
      <4>2. /\ j.req[r].generated = e.req[r].generated + 1
            /\ j.req[r].prefilled = e.req[r].prefilled + 1
        BY <2>5, <2>12, <2>a, <3>1 DEF TokensBy
      <4>q. QED
        BY <2>3, <3>1, <4>1, <4>2
    <3>2. CASE r # q
      <4>1. j.req[r] = e.req[r]
        BY <2>5, <2>12, <2>a, <3>2 DEF TokensBy
      <4>2. r \in new <=> r \in old
        BY <2>3, <3>2
      <4>q. QED
        BY <2>2, <4>1, <4>2 DEF TokensBy
    <3>q. QED
      BY <3>1, <3>2
  <2>14. p \in DecodeState
    <3>1. DecodeOne(s, q, v) \in DecodeStates(i, v)
      BY <2>6, DecodeOneKeeps
    <3>q. QED
      BY <3>1 DEF DecodeStates
  <2>15. p.inst = j /\ p.stepped = SubSeq(list, 1, k)
    BY <2>2, <2>3, <2>10
  <2> HIDE DEF p
  <2>16. p \in FirstDecoded(i, list, k)
    BY <2>13, <2>14, <2>15 DEF FirstDecoded, new
  <2>17. p \in U(k)
    BY <2>2, <2>12, <2>15, <2>16
  <2>q. QED
    BY <1>2, <2>1, <2>17 DEF p, q
<1>6. DecodeKeeps(i, v, list, P)
  BY <1>4, <1>5 DEF DecodeKeeps, n
<1>7. DecodedAll(i, v, list) \in P[n] /\ DecodedAll(i, v, list) \in DecodeStates(i, v)
  BY <1>6, DecodedBy DEF n
<1>8. n \in 0..n
  BY <1>1
<1>9. SubSeq(list, 1, n) = list
  <2>1. n <= Len(list) /\ n = Len(list)
    BY <1>1 DEF n
  <2>q. QED
    BY <2>1
<1> DEFINE d == DecodedAll(i, v, list)
<1>10. d \in DecodeStates(i, v) /\ d \in FirstDecoded(i, list, n) /\ d.inst.stats = i.stats
  BY <1>2, <1>7, <1>8
<1> HIDE DEF d
<1>11. Well(d.inst) /\ SameLists(i, d.inst)
  BY <1>10 DEF DecodeStates, Follows
<1>12. d.stepped = list /\ TokensBy(i, d.inst, ToSet(list), 1)
  BY <1>9, <1>10 DEF FirstDecoded
<1>q. QED
  BY <1>10, <1>11, <1>12 DEF d

\* Moving requests between the lists keeps what the instance holds.
LEMMA HoldingMoved ==
    ASSUME NEW i, NEW j, Well(i), Holding(i), j.req = i.req, Active(j) \subseteq Active(i),
           \A r \in ToSet(j.running) : r \in ToSet(i.running) \/ Need(i, r) = 0
    PROVE  /\ Holding(j)
           /\ \A r : Need(j, r) = Need(i, r) /\ Remaining(j, r) = Remaining(i, r)
<1>1. \A r : Need(j, r) = Need(i, r) /\ Remaining(j, r) = Remaining(i, r)
  BY DEF Need, Remaining
<1>2. Reserving(j)
  BY ReservingKept DEF Holding
<1>3. \A r \in Active(j) : Need(j, r) >= 0 /\ Remaining(j, r) >= 0
  BY <1>1 DEF Holding
<1>4. \A r \in ToSet(j.running) : Need(j, r) = 0
  BY <1>1 DEF Holding
<1>q. QED
  BY <1>1, <1>2, <1>3, <1>4 DEF Holding

\* A step with prefills: each running request in its budget gets one token, and
\* those that have all of theirs are done.
LEMMA BudgetStepSteady ==
    ASSUME NEW i, NEW v \in Nat, Well(i), Steady(i)
    PROVE  LET step_ == BudgetStep(i, v)
           IN /\ Well(step_.inst) /\ Almost(step_.inst) /\ Onward(i, step_.inst)
              /\ \A r \in ToSet(step_.inst.running) :
                    r \in ToSet(step_.done) \/ Remaining(step_.inst, r) >= 1
              /\ \A r \in ToSet(step_.done) : Remaining(step_.inst, r) = 0
              /\ step_.done \in Seq(Nat) /\ IsInjective(step_.done)
              /\ ToSet(step_.done) \subseteq ToSet(step_.inst.running)
<1> DEFINE n == Min({Len(i.running), TokenBudget})
           p == Prefilled(i)
           f == p.inst
           logged == Logged(f, n)
           first == SubSeq(i.running, 1, n)
           d == DecodedAll(logged, v, first)
           e == d.inst
           fin == p.finished
           j == Promote(e, fin)
           done == AtTarget(e, d.stepped)
<1>0. BudgetStep(i, v) = [inst |-> j, done |-> done]
  BY DEF BudgetStep
<1>1. n \in Nat /\ n <= Len(i.running) /\ i.running \in Seq(Nat) /\ IsInjective(i.running)
  <2> DEFINE x == Len(i.running)
  <2>1. x \in Nat /\ TokenBudget \in Nat /\ i.running \in Seq(Nat) /\ IsInjective(i.running)
    <3>1. i.running \in Seq(Nat) /\ IsInjective(i.running)
      BY WellFields
    <3>q. QED
      BY <3>1, EngineAssumption
  <2> HIDE DEF x
  <2>2. x \in Int /\ TokenBudget \in Int
    BY <2>1
  <2>3. Min({x, TokenBudget}) \in {x, TokenBudget} /\ Min({x, TokenBudget}) <= x
    BY <2>2, MinOfTwo
  <2>4. Min({x, TokenBudget}) \in Nat /\ Min({x, TokenBudget}) <= x
    BY <2>1, <2>3
  <2>q. QED
    BY <2>1, <2>4 DEF x
<1> HIDE DEF n
<1>2. /\ first \in Seq(Nat) /\ IsInjective(first) /\ Len(first) = n
      /\ ToSet(first) \subseteq ToSet(i.running)
  BY <1>1, PrefixFacts
<1> HIDE DEF first
<1>3. /\ Well(f) /\ Prefilling(i, f) /\ Steady(f)
      /\ fin \in Seq(Nat) /\ IsInjective(fin)
      /\ ToSet(fin) \subseteq ToSet(i.waiting)
      /\ \A r \in ToSet(fin) : Need(f, r) = 0
  BY PrefilledHolds
<1> HIDE DEF p, fin, f
<1>4. f.waiting = i.waiting /\ f.running = i.running /\ DOMAIN f.req = DOMAIN i.req
  BY <1>3 DEF Prefilling, SameLists
<1>5. /\ Well(logged) /\ logged.waiting = i.waiting /\ logged.running = i.running
      /\ logged.req = f.req /\ logged.completed = f.completed
      /\ logged.stats = Append(f.stats, n)
  <2>1. /\ Follows(f, logged, <<>>, v) /\ logged.waiting = f.waiting
        /\ logged.running = f.running /\ logged.req = f.req /\ logged.completed = f.completed
    BY <1>1, <1>3, LoggedFollows
  <2>2. f \in Record
    BY <1>3, WellFields
  <2>3. logged.stats = Append(f.stats, n)
    BY <2>2 DEF Logged, Record
  <2>q. QED
    BY <1>4, <2>1, <2>3 DEF Follows
<1> HIDE DEF logged
<1>6. Holding(logged) /\ \A r : Remaining(logged, r) = Remaining(f, r)
  <2>1. Active(logged) = Active(f)
    BY <1>4, <1>5 DEF Active
  <2>q. QED
    BY <1>3, <1>4, <1>5, <2>1, HoldingMoved DEF Steady
<1>a. /\ Active(f) = Active(i) /\ Active(i) = ToSet(i.waiting) \cup ToSet(i.running)
      /\ ToSet(i.waiting) \cap ToSet(i.running) = {}
      /\ Active(f) \cap ToSet(f.completed) = {}
      /\ Active(f) \in SUBSET DOMAIN f.req /\ ToSet(f.completed) \in SUBSET DOMAIN f.req
  <2>1. Active(f) = Active(i)
    BY <1>4 DEF Active
  <2>2. /\ Active(i) = ToSet(i.waiting) \cup ToSet(i.running)
        /\ ToSet(i.waiting) \cap ToSet(i.running) = {}
    BY WellFields
  <2>3. /\ Active(f) \cap ToSet(f.completed) = {}
        /\ Active(f) \in SUBSET DOMAIN f.req /\ ToSet(f.completed) \in SUBSET DOMAIN f.req
    BY <1>3, WellFields
  <2>q. QED
    BY <2>1, <2>2, <2>3
<1>b. \A r \in Active(i) : Remaining(f, r) >= 1
  BY <1>3, <1>a DEF Steady, Unfinished
<1>7. /\ Well(e) /\ SameLists(logged, e) /\ e.stats = logged.stats /\ d.stepped = first
      /\ TokensBy(logged, e, ToSet(first), 1)
  <2>1. ToSet(first) \subseteq ToSet(logged.running)
    BY <1>2, <1>5
  <2>2. \A r \in ToSet(first) : Remaining(logged, r) >= 1
    BY <1>2, <1>6, <1>a, <1>b
  <2>q. QED
    BY <1>2, <1>5, <1>6, <2>1, <2>2, DecodedExact
<1> DEFINE W == ToSet(first)
<1>8. done = AtTarget(e, first)
  BY <1>7
<1> HIDE DEF d, e, j, done, W
<1>9. W \in SUBSET ToSet(i.running) /\ W \in SUBSET DOMAIN f.req
  BY <1>2, <1>a DEF W
<1>10. /\ e.waiting = i.waiting /\ e.running = i.running /\ DOMAIN e.req = DOMAIN f.req
       /\ e.completed = f.completed /\ Active(e) = Active(i)
  <2>1. /\ e.waiting = i.waiting /\ e.running = i.running /\ DOMAIN e.req = DOMAIN f.req
        /\ e.completed = f.completed
    BY <1>5, <1>7 DEF SameLists
  <2>q. QED
    BY <2>1 DEF Active
<1>11. /\ Holding(e)
       /\ \A r \in DOMAIN f.req : /\ Need(e, r) = Need(f, r)
                                  /\ r \notin W => Remaining(e, r) = Remaining(f, r)
  <2>1. W \in SUBSET ToSet(logged.running) /\ \A r \in W : Remaining(logged, r) >= 1
    BY <1>5, <1>6, <1>9, <1>a, <1>b
  <2>2. /\ Holding(e)
        /\ \A r \in DOMAIN logged.req :
              /\ Need(e, r) = Need(logged, r)
              /\ r \notin W => Remaining(e, r) = Remaining(logged, r)
    <3>1. TokensBy(logged, e, W, 1)
      BY <1>7 DEF W
    <3>q. QED
      BY <1>5, <1>6, <1>7, <2>1, <3>1, HoldingRaised
  <2>3. \A r : Need(logged, r) = Need(f, r)
    BY <1>5 DEF Need
  <2>q. QED
    BY <1>5, <1>6, <2>2, <2>3
<1>12. Counted(e)
  <2>1. Cardinality(W) = n
    BY <1>2, ListCount DEF W
  <2>2. e.stats = Append(f.stats, 1 * Cardinality(W))
    BY <1>1, <1>5, <1>7, <2>1
  <2>3. \A r \in DOMAIN f.req : e.req[r].generated = IF r \in W THEN f.req[r].generated + 1
                                                     ELSE f.req[r].generated
    BY <1>5, <1>7 DEF TokensBy, W
  <2>q. QED
    BY <1>3, <1>9, <1>10, <2>2, <2>3, CountedRaised DEF Steady
<1>13. Exact(e)
  <2> SUFFICES ASSUME NEW r \in ToSet(f.completed) PROVE Remaining(e, r) = 0
    BY <1>10 DEF Exact
  <2>1. r \in DOMAIN f.req /\ r \notin W
    BY <1>9, <1>a
  <2>2. Remaining(f, r) = 0
    BY <1>3 DEF Steady, Exact
  <2>q. QED
    BY <1>11, <2>1, <2>2
<1>14. ToSet(fin) \subseteq ToSet(e.waiting)
  BY <1>3, <1>10
<1>15. /\ Well(j) /\ Active(j) = Active(e) /\ j.req = e.req /\ j.stats = e.stats
       /\ j.completed = e.completed
       /\ ToSet(e.running) \subseteq ToSet(j.running)
       /\ ToSet(j.waiting) \subseteq ToSet(e.waiting)
       /\ ToSet(j.running) \subseteq ToSet(e.running) \cup ToSet(fin)
  <2>1. /\ Follows(e, j, <<>>, v) /\ j.req = e.req /\ j.stats = e.stats
        /\ j.completed = e.completed
        /\ ToSet(e.running) \subseteq ToSet(j.running)
        /\ ToSet(j.waiting) \subseteq ToSet(e.waiting)
        /\ ToSet(j.running) \subseteq ToSet(e.running) \cup ToSet(fin)
    BY <1>3, <1>7, <1>14, PromoteFollows DEF j
  <2>2. Active(j) = Active(e)
    BY <2>1, FollowsHolds
  <2>q. QED
    BY <2>1, <2>2 DEF Follows
<1>16. Holding(j) /\ \A r : Remaining(j, r) = Remaining(e, r)
  <2>1. \A r \in ToSet(fin) : Need(e, r) = 0
    <3>1. \A r \in ToSet(fin) : r \in DOMAIN f.req
      BY <1>3, <1>a
    <3>q. QED
      BY <1>3, <1>11, <3>1
  <2>q. QED
    BY <1>7, <1>11, <1>15, <2>1, HoldingMoved
<1>17. \A r \in Active(i) : r \notin W => Remaining(j, r) >= 1
  BY <1>11, <1>16, <1>a, <1>b
<1>18. Unfinished(j, ToSet(j.waiting))
  BY <1>9, <1>10, <1>15, <1>17, <1>a DEF Unfinished
<1>19. Exact(j)
  BY <1>13, <1>15, <1>16 DEF Exact
<1>20. Counted(j)
  <2>1. \A r \in DOMAIN e.req : j.req[r].generated = e.req[r].generated
    BY <1>15
  <2>q. QED
    BY <1>12, <1>15, <2>1, CountedKept
<1>21. /\ done \in Seq(Nat) /\ ToSet(done) = {r \in W : Remaining(e, r) <= 0}
       /\ IsInjective(done)
  BY <1>2, <1>8, AtTargetFacts DEF W
<1>22. ToSet(done) \subseteq ToSet(j.running)
  BY <1>9, <1>10, <1>15, <1>21
<1>23. \A r \in Active(i) : Remaining(e, r) \in Int /\ Remaining(e, r) >= 0
  <2>1. Active(e) \in SUBSET DOMAIN e.req
    BY <1>7, WellFields
  <2>q. QED
    BY <1>7, <1>10, <1>11, <2>1, NumbersOf DEF Holding
<1>24. \A r \in ToSet(done) : Remaining(j, r) = 0
  BY <1>9, <1>16, <1>21, <1>23, <1>a
<1>25. \A r \in ToSet(j.running) : r \in ToSet(done) \/ Remaining(j, r) >= 1
  <2> SUFFICES ASSUME NEW r \in ToSet(j.running), r \notin ToSet(done)
               PROVE  Remaining(j, r) >= 1
    OBVIOUS
  <2>a. ToSet(j.running) \subseteq Active(j)
    BY DEF Active
  <2>1. r \in Active(i)
    BY <1>10, <1>15, <2>a
  <2>2. CASE r \notin W
    BY <1>17, <2>1, <2>2
  <2>3. CASE r \in W
    <3>1. ~(Remaining(e, r) <= 0)
      BY <1>21, <2>3
    <3>q. QED
      BY <1>16, <1>23, <2>1, <3>1
  <2>q. QED
    BY <2>2, <2>3
<1>26. Onward(i, j)
  BY <1>10, <1>15 DEF Onward
<1>27. Almost(j)
  BY <1>16, <1>18, <1>19, <1>20 DEF Almost
<1>q. QED
  BY <1>0, <1>15, <1>21, <1>22, <1>24, <1>25, <1>26, <1>27

-----------------------------------------------------------------------------
(* Events of an instance that reserves.                                    *)

LEMMA RetireSteady ==
    ASSUME NEW i, Well(i), Almost(i), NEW done \in Seq(Nat), IsInjective(done),
           ToSet(done) \subseteq ToSet(i.running),
           \A r \in ToSet(done) : Remaining(i, r) = 0,
           \A r \in ToSet(i.running) : r \in ToSet(done) \/ Remaining(i, r) >= 1
    PROVE  LET j == Retire(i, done)
           IN Well(j) /\ Steady(j) /\ Onward(i, j)
<1> DEFINE j == Retire(i, done)
<1>1. Well(j) /\ Active(j) = Active(i) \ ToSet(done)
  BY RetireFollows DEF Follows
<1>2. i \in Record /\ i.running \in Seq(Nat) /\ i.completed \in Seq(Nat)
  BY WellFields
<1>3. /\ j.waiting = i.waiting /\ j.req = i.req /\ j.stats = i.stats
      /\ j.running = Without(i.running, ToSet(done))
      /\ j.completed = i.completed \o done
  BY <1>2 DEF Retire, Record
<1> HIDE DEF j
<1>4. /\ ToSet(j.running) = ToSet(i.running) \ ToSet(done)
      /\ ToSet(j.completed) = ToSet(i.completed) \cup ToSet(done)
  <2>1. ToSet(j.running) = ToSet(i.running) \ ToSet(done)
    BY <1>2, <1>3, WithoutFacts
  <2>2. ToSet(j.completed) = ToSet(i.completed) \cup ToSet(done)
    BY <1>2, <1>3, ConcatFacts
  <2>q. QED
    BY <2>1, <2>2
<1>5. Holding(j) /\ \A r : Remaining(j, r) = Remaining(i, r)
  <2>1. Active(j) \subseteq Active(i) /\ Holding(i)
    BY <1>1 DEF Almost
  <2>2. \A r \in ToSet(j.running) : r \in ToSet(i.running)
    BY <1>4
  <2>q. QED
    BY <1>3, <2>1, <2>2, HoldingMoved
<1>6. Unfinished(j, Active(j))
  <2> SUFFICES ASSUME NEW r \in Active(j) PROVE Remaining(i, r) >= 1
    BY <1>5 DEF Unfinished
  <2>1. Active(j) = ToSet(i.waiting) \cup ToSet(j.running)
    BY <1>3 DEF Active
  <2>2. CASE r \in ToSet(i.waiting)
    BY <2>2 DEF Almost, Unfinished
  <2>3. CASE r \in ToSet(j.running)
    BY <1>4, <2>3
  <2>q. QED
    BY <2>1, <2>2, <2>3
<1>7. Exact(j)
  BY <1>4, <1>5 DEF Exact, Almost
<1>8. Counted(j)
  <2>1. Counted(i) /\ DOMAIN j.req = DOMAIN i.req
    BY <1>3 DEF Almost
  <2>2. \A r \in DOMAIN i.req : j.req[r].generated = i.req[r].generated
    BY <1>3
  <2>q. QED
    BY <1>3, <2>1, <2>2, CountedKept
<1>9. Onward(i, j)
  BY <1>3 DEF Onward
<1>10. Steady(j)
  BY <1>5, <1>6, <1>7, <1>8 DEF Steady
<1>q. QED
  BY <1>1, <1>9, <1>10 DEF j

LEMMA AlmostSteady ==
    ASSUME NEW i, Almost(i), \A r \in ToSet(i.running) : Remaining(i, r) >= 1
    PROVE  Steady(i)
<1>1. Active(i) = ToSet(i.waiting) \cup ToSet(i.running)
  BY DEF Active
<1>2. Unfinished(i, Active(i))
  BY <1>1 DEF Almost, Unfinished
<1>q. QED
  BY <1>2 DEF Almost, Steady

LEMMA SteadyAlmost ==
    ASSUME NEW i, Steady(i)
    PROVE  Almost(i) /\ \A r \in ToSet(i.running) : Remaining(i, r) >= 1
<1>1. Active(i) = ToSet(i.waiting) \cup ToSet(i.running)
  BY DEF Active
<1>2. Unfinished(i, ToSet(i.waiting)) /\ \A r \in ToSet(i.running) : Remaining(i, r) >= 1
  BY <1>1 DEF Steady, Unfinished
<1>q. QED
  BY <1>2 DEF Steady, Almost

\* With reservations no instance is ever stuck for blocks.
LEMMA NotDeadlocked ==
    ASSUME NEW i, Well(i), Steady(i)
    PROVE  ~Deadlocked(i)
<1> SUFFICES ASSUME Deadlocked(i) PROVE FALSE
  OBVIOUS
<1>1. i.running \in Seq(Nat) /\ i.running # <<>>
  BY WellFields DEF Deadlocked
<1>2. PICK r \in ToSet(i.running) : TRUE
  BY <1>1, ListFacts
<1>3. Remaining(i, r) >= 1 /\ AtBlockEnd(i, r) /\ FreeBlocks(i) <= 0
  BY SteadyAlmost DEF Deadlocked
<1>4. FreeBlocks(i) > 0
  BY <1>3, HoldingFacts DEF Steady
<1>5. FreeBlocks(i) \in Int
  BY InstanceNumbers
<1>q. QED
  BY <1>3, <1>4, <1>5

LEMMA PrefillEventSteady ==
    ASSUME NEW i, NEW v \in Nat, Well(i), Steady(i)
    PROVE  Steady(PrefillEvent(i, v).inst) /\ Onward(i, PrefillEvent(i, v).inst)
<1> DEFINE step_ == BudgetStep(i, v)
           k == step_.inst
           done == step_.done
<1>1. /\ Well(k) /\ Almost(k) /\ Onward(i, k)
      /\ \A r \in ToSet(k.running) : r \in ToSet(done) \/ Remaining(k, r) >= 1
      /\ \A r \in ToSet(done) : Remaining(k, r) = 0
      /\ done \in Seq(Nat) /\ IsInjective(done)
      /\ ToSet(done) \subseteq ToSet(k.running)
  BY BudgetStepSteady
<1>2. CASE done # <<>>
  <2>1. PrefillEvent(i, v).inst = Retire(k, done)
    BY <1>2 DEF PrefillEvent
  <2> HIDE DEF k, done
  <2>2. Steady(Retire(k, done)) /\ Onward(k, Retire(k, done))
    BY <1>1, RetireSteady
  <2>q. QED
    BY <1>1, <2>1, <2>2 DEF Onward
<1>3. CASE done = <<>>
  <2>1. Steady(k) /\ ~Deadlocked(k)
    <3>1. ToSet(done) = {}
      BY <1>3 DEF ToSet
    <3> HIDE DEF k, done
    <3>2. Steady(k)
      BY <1>1, <3>1, AlmostSteady
    <3>q. QED
      BY <1>1, <3>2, NotDeadlocked
  <2>2. PrefillEvent(i, v).inst = k
    BY <1>3, <2>1 DEF PrefillEvent
  <2>q. QED
    BY <1>1, <2>1, <2>2
<1>q. QED
  BY <1>2, <1>3

\* A decode segment that ends with the first completion at the latest.
LEMMA DecodeSegmentAlmost ==
    ASSUME NEW i, NEW v \in Nat, NEW k \in Nat, Well(i), Steady(i),
           \A r \in ToSet(i.running) : Remaining(i, r) >= k
    PROVE  LET j == DecodeSegment(i, v, k)
           IN /\ Well(j) /\ Almost(j) /\ Onward(i, j)
              /\ BlocksUsed(j) <= KvBlocks
              /\ j.running = i.running
              /\ \A r \in ToSet(i.running) : Remaining(j, r) = Remaining(i, r) - k
<1> DEFINE W == ToSet(i.running)
           g == Generate(i, W, v, k)
           m == k * Len(i.running)
           j == DecodeSegment(i, v, k)
<1>1. ASSUME Well(j), Almost(j), Onward(i, j)
      PROVE  BlocksUsed(j) <= KvBlocks
  BY <1>1, HoldingFacts DEF Almost
<1>2. CASE k = 0
  <2>1. j = i
    BY <1>2 DEF DecodeSegment
  <2>2. Almost(i) /\ Onward(i, i)
    BY SteadyAlmost DEF Onward
  <2>3. \A r \in ToSet(i.running) : Remaining(i, r) = Remaining(i, r) - k
    <3>1. ToSet(i.running) \in SUBSET DOMAIN i.req
      BY WellFields
    <3>2. \A r \in ToSet(i.running) : Remaining(i, r) \in Int
      BY <3>1, NumbersOf
    <3>q. QED
      BY <1>2, <3>2
  <2>q. QED
    BY <1>1, <2>1, <2>2, <2>3
<1>3. CASE k # 0
  <2>1. j = Logged(g, m)
    BY <1>3 DEF DecodeSegment
  <2>2. /\ W \subseteq Active(i) /\ ToSet(i.waiting) \cap W = {} /\ W \in SUBSET DOMAIN i.req
        /\ ToSet(i.waiting) \in SUBSET DOMAIN i.req /\ ToSet(i.completed) \in SUBSET DOMAIN i.req
        /\ Active(i) \cap ToSet(i.completed) = {}
        /\ i.running \in Seq(Nat) /\ IsInjective(i.running)
    BY WellFields, Zenon
  <2>3. Well(g) /\ SameLists(i, g) /\ g.stats = i.stats /\ TokensBy(i, g, W, k)
    <3>1. /\ Follows(i, g, <<>>, v) /\ SameLists(i, g) /\ g.stats = i.stats
          /\ TokensBy(i, g, W, k)
      BY <2>2, GenerateFollows
    <3>q. QED
      BY <3>1 DEF Follows
  <2>4. Cardinality(W) = Len(i.running) /\ Len(i.running) \in Nat
    BY <2>2, ListCount
  <2>5. m \in Nat /\ m = k * Cardinality(W)
    BY <2>4
  <2> HIDE DEF j, g, m, W
  <2>6. /\ Well(j) /\ j.waiting = i.waiting /\ j.running = i.running /\ j.req = g.req
        /\ j.completed = i.completed /\ j.stats = Append(i.stats, m)
    <3>1. /\ Follows(g, j, <<>>, v) /\ j.waiting = g.waiting /\ j.running = g.running
          /\ j.req = g.req /\ j.completed = g.completed
      BY <2>1, <2>3, <2>5, LoggedFollows
    <3>2. g \in Record
      BY <2>3, WellFields
    <3>3. j.stats = Append(g.stats, m)
      BY <2>1, <3>2 DEF Logged, Record
    <3>q. QED
      BY <2>3, <3>1, <3>3 DEF Follows, SameLists
  <2>7. SameLists(i, j) /\ TokensBy(i, j, W, k)
    BY <2>3, <2>6 DEF SameLists, TokensBy
  <2>8. /\ Holding(j)
        /\ \A r \in DOMAIN i.req : /\ r \in W => Remaining(j, r) = Remaining(i, r) - k
                                   /\ r \notin W => Remaining(j, r) = Remaining(i, r)
    <3>1. Holding(i) /\ W \in SUBSET ToSet(i.running) /\ \A r \in W : Remaining(i, r) >= k
      BY DEF Steady, W
    <3>q. QED
      BY <2>6, <2>7, <3>1, HoldingRaised, ZenonT(30)
  <2>9. Unfinished(j, ToSet(j.waiting))
    <3> SUFFICES ASSUME NEW r \in ToSet(i.waiting) PROVE Remaining(j, r) >= 1
      BY <2>6 DEF Unfinished
    <3>1. r \in DOMAIN i.req /\ r \notin W
      BY <2>2
    <3>2. Remaining(i, r) >= 1
      BY SteadyAlmost DEF Almost, Unfinished
    <3>q. QED
      BY <2>8, <3>1, <3>2
  <2>10. Exact(j)
    <3> SUFFICES ASSUME NEW r \in ToSet(i.completed) PROVE Remaining(j, r) = 0
      BY <2>6 DEF Exact
    <3>1. r \in DOMAIN i.req /\ r \notin W
      BY <2>2
    <3>2. Remaining(i, r) = 0
      BY DEF Steady, Exact
    <3>q. QED
      BY <2>8, <3>1, <3>2
  <2>11. Counted(j)
    <3>1. \A r \in DOMAIN i.req : j.req[r].generated = IF r \in W THEN i.req[r].generated + k
                                                       ELSE i.req[r].generated
      BY <2>7 DEF TokensBy
    <3>2. DOMAIN j.req = DOMAIN i.req /\ Counted(i)
      BY <2>7 DEF SameLists, Steady
    <3>3. j.stats = Append(i.stats, k * Cardinality(W))
      BY <2>5, <2>6
    <3>q. QED
      BY <2>2, <3>1, <3>2, <3>3, CountedRaised
  <2>12. Almost(j) /\ Onward(i, j)
    BY <2>6, <2>8, <2>9, <2>10, <2>11 DEF Almost, Onward
  <2>13. \A r \in W : Remaining(j, r) = Remaining(i, r) - k
    BY <2>2, <2>8
  <2>q. QED
    BY <1>1, <2>6, <2>12, <2>13 DEF j, W
<1>q. QED
  BY <1>2, <1>3

\* The cache lasts until the first completion.
LEMMA SegmentSteady ==
    ASSUME NEW i, Well(i), Steady(i), i.waiting = <<>>, i.running # <<>>
    PROVE  /\ SegmentSteps(i) \in Nat
           /\ \A r \in ToSet(i.running) : Remaining(i, r) >= SegmentSteps(i)
           /\ \A x \in KvExhaustion(i) : ~(x <= SegmentSteps(i))
<1> DEFINE k == SegmentSteps(i)
           c == ToCompletion(i)
<1>1. /\ k \in Nat /\ c \in Int /\ (c >= 0 => k <= c)
      /\ \A r \in ToSet(i.running) : c <= Remaining(i, r)
  BY SegmentTyped
<1>2. \A r \in ToSet(i.running) :
         /\ r \in DOMAIN i.req /\ Remaining(i, r) \in Int /\ Remaining(i, r) >= 1
  <2>1. ToSet(i.running) \in SUBSET DOMAIN i.req
    BY WellFields
  <2>q. QED
    BY <2>1, SteadyAlmost, NumbersOf
<1>3. c >= 1
  <2> DEFINE S == {Remaining(i, r) : r \in ToSet(i.running)}
  <2>1. IsFiniteSet(S) /\ S \in SUBSET Int /\ S # {}
    BY RemainingSet
  <2>2. c = Min(S)
    BY DEF ToCompletion
  <2>3. \A x \in S : x >= 1
    BY <1>2
  <2> HIDE DEF S, c
  <2>4. Min(S) \in S
    BY <2>1, MinIsLeast
  <2>q. QED
    BY <2>2, <2>3, <2>4
<1> HIDE DEF k, c
<1>4. k <= c
  BY <1>1, <1>3
<1>5. \A r \in ToSet(i.running) : Remaining(i, r) >= k
  BY <1>1, <1>2, <1>4
<1>6. ASSUME NEW x \in KvExhaustion(i), x <= k PROVE FALSE
  <2>1. x \in Nat
    BY KvExhaustionTyped
  <2>2. BlocksAfter(i, x) > KvBlocks
    BY DEF KvExhaustion
  <2>3. ASSUME NEW r \in ToSet(i.running)
        PROVE  i.req[r].prefilled + x <= PromptLen(r) + TargetLen(r)
    <3> DEFINE a == PromptLen(r)
               b == TargetLen(r)
               g == i.req[r].generated
               h == i.req[r].prefilled
    <3>1. /\ a \in Nat /\ b \in Nat /\ g \in Nat /\ h \in Nat
          /\ Need(i, r) = a + g - h /\ Remaining(i, r) = b - g
      BY <1>2, NumbersOf
    <3>2. a + g - h = 0
      BY <3>1 DEF Steady, Holding
    <3>3. b - g >= k
      BY <1>5, <3>1
    <3> HIDE DEF a, b, g, h
    <3>4. h + x <= a + b
      BY <1>1, <1>6, <2>1, <3>1, <3>2, <3>3
    <3>q. QED
      BY <3>4 DEF a, b, h
  <2>4. BlocksAfter(i, x) \in Nat /\ BlocksAfter(i, x) <= KvBlocks
    BY <2>1, <2>3, SegmentFits DEF Steady, Holding
  <2>q. QED
    BY <2>2, <2>4, KvTyped
<1>q. QED
  BY <1>1, <1>5, <1>6 DEF k

\* A segment leaves requests that are complete or have tokens to go.
LEMMA EndedSteady ==
    ASSUME NEW i, Well(i), Almost(i)
    PROVE  /\ Ended(i) \in Seq(Nat)
           /\ Steady(Retire(i, Ended(i))) /\ Onward(i, Retire(i, Ended(i)))
           /\ Ended(i) = <<>> => Steady(i)
           /\ (\A r \in ToSet(i.running) : Remaining(i, r) >= 1) => Steady(i)
<1> DEFINE done == Ended(i)
<1>1. /\ done \in Seq(Nat) /\ IsInjective(done) /\ ToSet(done) \subseteq ToSet(i.running)
  BY EndedFacts
<1>2. ToSet(done) = {r \in ToSet(i.running) : Remaining(i, r) <= 0}
  <2>1. i.running \in Seq(Nat)
    BY WellFields
  <2>q. QED
    BY <2>1, AtTargetFacts DEF Ended
<1>3. \A r \in ToSet(i.running) : Remaining(i, r) \in Int /\ Remaining(i, r) >= 0
  <2>1. ToSet(i.running) \in SUBSET DOMAIN i.req /\ ToSet(i.running) \in SUBSET Active(i)
    BY WellFields, Zenon
  <2>q. QED
    BY <2>1, NumbersOf DEF Almost, Holding
<1> HIDE DEF done
<1>4. \A r \in ToSet(done) : Remaining(i, r) = 0
  BY <1>2, <1>3
<1>5. \A r \in ToSet(i.running) : r \in ToSet(done) \/ Remaining(i, r) >= 1
  BY <1>2, <1>3
<1>6. Steady(Retire(i, done)) /\ Onward(i, Retire(i, done))
  BY <1>1, <1>4, <1>5, RetireSteady
<1>7. ASSUME done = <<>> PROVE Steady(i)
  <2>1. ToSet(done) = {}
    BY <1>7 DEF ToSet
  <2>q. QED
    BY <1>5, <2>1, AlmostSteady
<1>q. QED
  BY <1>1, <1>6, <1>7, AlmostSteady DEF done

LEMMA DecodeEventSteady ==
    ASSUME NEW i, NEW v \in Nat, Well(i), Steady(i), i.waiting = <<>>, i.running # <<>>
    PROVE  Steady(DecodeEvent(i, v).inst) /\ Onward(i, DecodeEvent(i, v).inst)
<1> DEFINE k == SegmentSteps(i)
           next == DecodeSegment(i, v, k)
<1>1. /\ k \in Nat /\ \A r \in ToSet(i.running) : Remaining(i, r) >= k
      /\ ~\E x \in KvExhaustion(i) : x <= k
  BY SegmentSteady
<1>2. Well(next) /\ Almost(next) /\ Onward(i, next) /\ BlocksUsed(next) <= KvBlocks
  <2> HIDE DEF k
  <2>q. QED
    BY <1>1, DecodeSegmentAlmost
<1>3. ~(BlocksUsed(next) > KvBlocks)
  BY <1>2, InstanceNumbers, KvTyped
<1>4. DecodeEvent(i, v).inst = Retire(next, Ended(next))
  BY <1>1, <1>3 DEF DecodeEvent
<1> HIDE DEF next
<1>5. Steady(Retire(next, Ended(next))) /\ Onward(next, Retire(next, Ended(next)))
  BY <1>2, EndedSteady
<1>q. QED
  BY <1>2, <1>4, <1>5 DEF Onward

\* An event of an instance that reserves preempts nobody.
LEMMA EventSteady ==
    ASSUME NEW i, NEW v \in Nat, Well(i), ~Idle(i), Steady(i)
    PROVE  Steady(AdvanceOneEvent(i, v).inst) /\ Onward(i, AdvanceOneEvent(i, v).inst)
<1>1. CASE i.waiting # <<>>
  <2>1. AdvanceOneEvent(i, v) = PrefillEvent(i, v)
    BY <1>1 DEF AdvanceOneEvent
  <2>q. QED
    BY <2>1, PrefillEventSteady
<1>2. CASE i.waiting = <<>>
  <2>1. AdvanceOneEvent(i, v) = DecodeEvent(i, v)
    BY <1>2 DEF AdvanceOneEvent
  <2>2. i.running # <<>>
    <3>1. ToSet(<<>>) = {}
      BY DEF ToSet
    <3>2. Active(i) # {}
      BY DEF Idle
    <3>q. QED
      BY <1>2, <3>1, <3>2 DEF Active
  <2>q. QED
    BY <1>2, <2>1, <2>2, DecodeEventSteady
<1>q. QED
  BY <1>1, <1>2

LEMMA PromoteReadySteady ==
    ASSUME NEW i, Well(i), Steady(i)
    PROVE  LET j == PromoteReady(i)
           IN /\ Well(j) /\ Steady(j) /\ Onward(i, j)
              /\ Active(j) = Active(i) /\ j.req = i.req /\ j.stats = i.stats
<1> DEFINE j == PromoteReady(i)
<1>1. /\ Follows(i, j, <<>>, 0)
      /\ j.req = i.req /\ j.stats = i.stats /\ j.completed = i.completed
      /\ ToSet(j.waiting) \subseteq ToSet(i.waiting)
      /\ \A r \in ToSet(j.running) : r \in ToSet(i.running) \/ Need(i, r) <= 0
  BY PromoteReadyFollows
<1> HIDE DEF j
<1>2. Well(j) /\ Active(j) = Active(i)
  BY <1>1, FollowsHolds DEF Follows
<1>3. \A r \in ToSet(j.running) : r \in ToSet(i.running) \/ Need(i, r) = 0
  <2> SUFFICES ASSUME NEW r \in ToSet(j.running), Need(i, r) <= 0 PROVE Need(i, r) = 0
    BY <1>1
  <2>1. r \in Active(i)
    BY <1>2 DEF Active
  <2>2. r \in DOMAIN i.req
    BY <2>1, WellFields
  <2>3. Need(i, r) >= 0 /\ Need(i, r) \in Int
    BY <2>1, <2>2, NumbersOf DEF Steady, Holding
  <2>q. QED
    BY <2>3
<1>4. Holding(j) /\ \A r : Remaining(j, r) = Remaining(i, r)
  <2>1. Holding(i) /\ Active(j) \subseteq Active(i)
    BY <1>2 DEF Steady
  <2>q. QED
    BY <1>1, <1>3, <2>1, HoldingMoved
<1>5. Unfinished(j, Active(j)) /\ Exact(j)
  BY <1>1, <1>2, <1>4 DEF Steady, Unfinished, Exact
<1>6. Counted(j)
  <2>1. Counted(i) /\ DOMAIN j.req = DOMAIN i.req
    BY <1>1 DEF Steady
  <2>2. \A r \in DOMAIN i.req : j.req[r].generated = i.req[r].generated
    BY <1>1
  <2>q. QED
    BY <1>1, <2>1, <2>2, CountedKept
<1>7. Steady(j) /\ Onward(i, j)
  BY <1>1, <1>4, <1>5, <1>6 DEF Steady, Onward
<1>q. QED
  BY <1>1, <1>2, <1>7 DEF j

-----------------------------------------------------------------------------
(* Aligning an instance that reserves uses all the time it is given.       *)

\* A round of the loop: the state after it, and the time or a reason to stop.
Rounds(a, b) ==
    /\ Steady(b.inst) /\ Onward(a.inst, b.inst)
    /\ b.open => b.left <= a.left - 1
    /\ ~b.open /\ b.done = <<>> => b.left = 0

LEMMA AtLimitRounds ==
    ASSUME NEW a \in AdvanceState, NEW j, Steady(j), Onward(a.inst, j)
    PROVE  Rounds(a, AtLimit(a, j))
<1> DEFINE b == AtLimit(a, j)
<1>1. b.inst = j /\ b.left = 0 /\ b.open = FALSE
  BY DEF AtLimit, AdvanceState
<1> HIDE DEF b
<1>2. Rounds(a, b)
  BY <1>1 DEF Rounds
<1>q. QED
  BY <1>2 DEF b

LEMMA PrefillRoundSteady ==
    ASSUME NEW a \in AdvanceState, NEW v \in Nat, Well(a.inst), Steady(a.inst), a.open
    PROVE  Rounds(a, PrefillRound(a, v))
<1> DEFINE s == BudgetStep(a.inst, v)
           j == s.inst
           done == s.done
           b == PrefillRound(a, v)
           next == [a EXCEPT !.inst = j, !.left = @ - PrefillTime]
           final == [next EXCEPT !.inst = Retire(@, done), !.done = done, !.open = FALSE]
<1>1. /\ Well(j) /\ Almost(j) /\ Onward(a.inst, j)
      /\ \A r \in ToSet(j.running) : r \in ToSet(done) \/ Remaining(j, r) >= 1
      /\ \A r \in ToSet(done) : Remaining(j, r) = 0
      /\ done \in Seq(Nat) /\ IsInjective(done)
      /\ ToSet(done) \subseteq ToSet(j.running)
  BY BudgetStepSteady
<1>2. CASE TooLate(a)
  <2>1. b = AtLimit(a, a.inst)
    BY <1>2 DEF PrefillRound
  <2>2. Onward(a.inst, a.inst)
    BY DEF Onward
  <2>q. QED
    BY <2>1, <2>2, AtLimitRounds
<1> DEFINE m == a.left - PrefillTime
<1>3. next = [inst |-> j, left |-> m, done |-> a.done, open |-> a.open]
  <2>1. a = [inst |-> a.inst, left |-> a.left, done |-> a.done, open |-> a.open]
    BY DEF AdvanceState
  <2>2. next = [a EXCEPT !.inst = j, !.left = m]
    BY <2>1
  <2> HIDE DEF m, next, j
  <2>q. QED
    BY <2>1, <2>2
<1>4. m <= a.left - 1
  <2>1. PrefillTime \in Nat /\ PrefillTime >= 1
    BY EngineAssumption
  <2>2. a.left \in Int
    BY DEF AdvanceState
  <2>q. QED
    BY <2>1, <2>2
<1>5. CASE ~TooLate(a) /\ done # <<>>
  <2>1. b = final
    BY <1>5 DEF PrefillRound
  <2> HIDE DEF j, done, m, b, next
  <2>2. b.inst = Retire(j, done) /\ b.open = FALSE /\ b.done = done
    BY <1>3, <2>1
  <2>3. Steady(Retire(j, done)) /\ Onward(j, Retire(j, done))
    BY <1>1, RetireSteady
  <2>4. Onward(a.inst, Retire(j, done))
    BY <1>1, <2>3 DEF Onward
  <2>5. Rounds(a, b)
    BY <1>5, <2>2, <2>3, <2>4 DEF Rounds
  <2>q. QED
    BY <2>5 DEF b
<1>6. CASE ~TooLate(a) /\ done = <<>>
  <2>1. Steady(j) /\ ~Deadlocked(j)
    <3>1. ToSet(done) = {}
      BY <1>6 DEF ToSet
    <3> HIDE DEF j, done
    <3>2. Steady(j)
      BY <1>1, <3>1, AlmostSteady
    <3>q. QED
      BY <1>1, <3>2, NotDeadlocked
  <2>2. b = next
    BY <1>6, <2>1 DEF PrefillRound
  <2> HIDE DEF j, m, b, next
  <2>3. b.inst = j /\ b.left = m /\ b.open = a.open
    BY <1>3, <2>2
  <2>4. Rounds(a, b)
    BY <1>1, <1>4, <2>1, <2>3 DEF Rounds
  <2>q. QED
    BY <2>4 DEF b
<1>q. QED
  BY <1>2, <1>5, <1>6

LEMMA DecodeRoundSteady ==
    ASSUME NEW a \in AdvanceState, NEW v \in Nat, Well(a.inst), Steady(a.inst),
           a.inst.waiting = <<>>, a.inst.running # <<>>, a.left > 0
    PROVE  Rounds(a, DecodeRound(a, v))
<1> DEFINE i == a.inst
           full == SegmentSteps(i)
           k == Min({full, a.left \div DecodeTime})
           next == DecodeSegment(i, v, k)
           done == Ended(next)
           after == [a EXCEPT !.inst = next, !.left = @ - k * DecodeTime, !.open = FALSE]
           final == [after EXCEPT !.inst = Retire(@, done), !.done = done]
           b == DecodeRound(a, v)
<1>1. a.left \in Nat
  BY DEF AdvanceState
<1>2. full \in Nat /\ \A r \in ToSet(i.running) : Remaining(i, r) >= full
  BY SegmentSteady
<1>3. k \in Nat /\ k <= full
  <2> DEFINE x == a.left
             y == x \div DecodeTime
  <2> HIDE DEF full, x
  <2>2. k = Min({full, y})
    BY DEF x
  <2>3. k \in Nat
    BY <1>1, <1>2, <2>2, StepsFit DEF x
  <2>4. y \in Int
    <3>1. DecodeTime \in Nat /\ DecodeTime >= 1
      BY EngineAssumption
    <3>q. QED
      BY <1>1, <3>1, DivBetween DEF x
  <2> HIDE DEF y
  <2>6. full \in Int
    BY <1>2
  <2>5. Min({full, y}) <= full
    BY <2>4, <2>6, MinOfTwo
  <2> HIDE DEF k
  <2>q. QED
    BY <2>2, <2>3, <2>5
<1>4. /\ \A r \in ToSet(i.running) : Remaining(i, r) \in Int
      /\ \A r \in ToSet(i.running) : Remaining(i, r) >= k
  <2>1. ToSet(i.running) \in SUBSET DOMAIN i.req
    BY WellFields
  <2>2. \A r \in ToSet(i.running) : Remaining(i, r) \in Int
    BY <2>1, NumbersOf
  <2> HIDE DEF k, full, i
  <2>q. QED
    BY <1>2, <1>3, <2>2
<1>b. /\ \/ BlocksUsed(next) > KvBlocks
         \/ b = AtLimit(a, next) /\ (k < full \/ done = <<>>)
         \/ b = final /\ done # <<>>
  BY DEF DecodeRound
<1> HIDE DEF b, k, full, final
<1>5. /\ Well(next) /\ Almost(next) /\ Onward(i, next) /\ BlocksUsed(next) <= KvBlocks
      /\ next.running = i.running
      /\ \A r \in ToSet(i.running) : Remaining(next, r) = Remaining(i, r) - k
  BY <1>3, <1>4, DecodeSegmentAlmost
<1> HIDE DEF next, i
<1>6. ~(BlocksUsed(next) > KvBlocks)
  BY <1>5, InstanceNumbers, KvTyped
<1>7. /\ done \in Seq(Nat)
      /\ Steady(Retire(next, done)) /\ Onward(next, Retire(next, done))
      /\ done = <<>> => Steady(next)
      /\ (\A r \in ToSet(next.running) : Remaining(next, r) >= 1) => Steady(next)
  BY <1>5, EndedSteady
<1> HIDE DEF done
<1>8. CASE b = AtLimit(a, next) /\ (k < full \/ done = <<>>)
  <2>1. Steady(next)
    <3>1. CASE k < full
      <4>1. \A r \in ToSet(next.running) : Remaining(next, r) >= 1
        BY <1>2, <1>3, <1>4, <1>5, <3>1
      <4>q. QED
        BY <1>7, <4>1
    <3>q. QED
      BY <1>7, <1>8, <3>1
  <2>2. Rounds(a, AtLimit(a, next))
    BY <1>5, <2>1, AtLimitRounds DEF i
  <2>q. QED
    BY <1>8, <2>2 DEF b
<1>9. CASE b = final /\ done # <<>>
  <2> DEFINE m == a.left - k * DecodeTime
  <2>1. after = [inst |-> next, left |-> m, done |-> a.done, open |-> FALSE]
    <3>1. a = [inst |-> a.inst, left |-> a.left, done |-> a.done, open |-> a.open]
      BY DEF AdvanceState
    <3>2. after = [a EXCEPT !.inst = next, !.left = m, !.open = FALSE]
      BY <3>1
    <3> HIDE DEF m, after
    <3>q. QED
      BY <3>1, <3>2
  <2> HIDE DEF after, m
  <2>2. b.inst = Retire(next, done) /\ b.open = FALSE /\ b.done = done
    BY <1>9, <2>1 DEF final
  <2>3. Onward(a.inst, Retire(next, done))
    BY <1>5, <1>7 DEF Onward, i
  <2>4. Rounds(a, b)
    BY <1>7, <1>9, <2>2, <2>3 DEF Rounds
  <2>q. QED
    BY <2>4 DEF b
<1>10. \/ b = AtLimit(a, next) /\ (k < full \/ done = <<>>)
       \/ b = final /\ done # <<>>
  BY <1>b, <1>6
<1>q. QED
  BY <1>8, <1>9, <1>10

LEMMA AdvanceRoundSteady ==
    ASSUME NEW a \in AdvanceState, NEW v \in Nat, Well(a.inst), Steady(a.inst),
           a.open, a.left > 0
    PROVE  Rounds(a, AdvanceRound(a, v))
<1> DEFINE j == PromoteReady(a.inst)
           p == [a EXCEPT !.inst = j]
           b == AdvanceRound(a, v)
<1>1. Well(j) /\ Steady(j) /\ Onward(a.inst, j)
  BY PromoteReadySteady
<1>2. b = ReadyRound(p, v)
  <2>1. ~(~a.open \/ a.left <= 0)
    BY DEF AdvanceState
  <2>2. [a EXCEPT !.inst = PromoteReady(@)] = p
    BY DEF AdvanceState
  <2>q. QED
    BY <2>1, <2>2 DEF AdvanceRound
<1>3. p \in AdvanceState /\ p.inst = j /\ p.open = a.open /\ p.left = a.left
  <2>1. j \in Record
    BY <1>1, WellFields
  <2> HIDE DEF j
  <2>q. QED
    BY <2>1 DEF AdvanceState
<1> HIDE DEF p, j, b
<1>4. Rounds(p, b)
  <2>1. CASE p.inst.waiting # <<>>
    <3>1. ReadyRound(p, v) = PrefillRound(p, v)
      BY <2>1 DEF ReadyRound
    <3>q. QED
      BY <1>1, <1>2, <1>3, <3>1, PrefillRoundSteady
  <2>2. CASE p.inst.waiting = <<>> /\ p.inst.running = <<>>
    <3>1. ReadyRound(p, v) = AtLimit(p, p.inst)
      BY <2>2 DEF ReadyRound
    <3>2. Onward(p.inst, p.inst)
      BY DEF Onward
    <3>q. QED
      BY <1>1, <1>2, <1>3, <3>1, <3>2, AtLimitRounds
  <2>3. CASE p.inst.waiting = <<>> /\ p.inst.running # <<>>
    <3>1. ReadyRound(p, v) = DecodeRound(p, v)
      BY <2>3 DEF ReadyRound
    <3>q. QED
      BY <1>1, <1>2, <1>3, <2>3, <3>1, DecodeRoundSteady
  <2>q. QED
    BY <2>1, <2>2, <2>3
<1>5. Rounds(a, b)
  BY <1>1, <1>3, <1>4 DEF Rounds, Onward
<1>q. QED
  BY <1>5 DEF b

\* The loop over the ticks after k of them.
Ticked(i, n) ==
    {a \in AdvanceState : /\ Steady(a.inst) /\ Onward(i, a.inst)
                          /\ a.open => a.left <= n
                          /\ ~a.open /\ a.done = <<>> => a.left = 0}

LEMMA AdvanceToSteady ==
    ASSUME NEW i, NEW v \in Nat, NEW time \in Int, Well(i), Steady(i)
    PROVE  LET a == AdvanceTo(i, time, v)
           IN /\ Steady(a.inst) /\ Onward(i, a.inst)
              /\ time >= 0 /\ a.done = <<>> => a.left = 0
<1> DEFINE T(k) == Ticked(i, time - k)
           P == [k \in Int |-> T(k)]
           z == AdvanceStart(i, time)
           n == IF time > 0 THEN time ELSE 0
<1>1. \A k \in Int : P[k] = Ticked(i, time - k)
  OBVIOUS
<1> HIDE DEF P
<1>2. z \in P[0]
  <2>1. i \in Record
    BY WellFields
  <2>3. <<>> \in Seq(Nat)
    OBVIOUS
  <2>2. z \in AdvanceState /\ z.inst = i /\ z.left = time /\ z.open = TRUE
    BY <2>1, <2>3 DEF AdvanceStart, AdvanceState
  <2> HIDE DEF z
  <2>4. Onward(i, i)
    BY DEF Onward
  <2>5. z \in Ticked(i, time)
    BY <2>2, <2>4 DEF Ticked
  <2>6. time - 0 = time
    OBVIOUS
  <2>7. P[0] = Ticked(i, time - 0)
    BY <1>1
  <2>q. QED
    BY <2>5, <2>6, <2>7
<1>3. ASSUME NEW k \in 1..time, NEW a \in AdvanceStates(i, time, v), a \in P[k - 1]
      PROVE  AdvanceRound(a, v) \in P[k]
  <2> DEFINE b == AdvanceRound(a, v)
             m == time - (k - 1)
             l == time - k
  <2>0. k \in Int /\ k - 1 \in Int /\ m \in Int /\ l = m - 1 /\ l >= 0
    OBVIOUS
  <2>1. P[k - 1] = Ticked(i, m) /\ P[k] = Ticked(i, l)
    BY <1>1, <2>0
  <2> HIDE DEF b, m, l
  <2>2. /\ a \in AdvanceState /\ Steady(a.inst) /\ Onward(i, a.inst)
        /\ a.open => a.left <= m
        /\ ~a.open /\ a.done = <<>> => a.left = 0
    BY <1>3, <2>1 DEF Ticked
  <2>3. Well(a.inst) /\ a.left \in Int
    <3>1. Follows(i, a.inst, a.done, v)
      BY DEF AdvanceStates
    <3>q. QED
      BY <2>2, <3>1 DEF Follows, AdvanceState
  <2>4. CASE a.open /\ a.left > 0
    <3>1. Rounds(a, b)
      BY <2>2, <2>3, <2>4, AdvanceRoundSteady DEF b
    <3>2. b \in AdvanceState
      <4>1. b \in AdvanceStates(i, time, v)
        BY AdvanceRoundKeeps DEF b
      <4>q. QED
        BY <4>1 DEF AdvanceStates
    <3>3. b.open => b.left <= l
      <4>1. b.left \in Int
        BY <3>2 DEF AdvanceState
      <4>q. QED
        BY <2>0, <2>2, <2>3, <2>4, <3>1, <4>1 DEF Rounds
    <3>4. Steady(b.inst) /\ Onward(i, b.inst)
      BY <2>2, <3>1 DEF Rounds, Onward
    <3>5. b \in Ticked(i, l)
      BY <3>1, <3>2, <3>3, <3>4 DEF Ticked, Rounds
    <3>q. QED
      BY <2>1, <3>5 DEF b
  <2>5. CASE ~(a.open /\ a.left > 0)
    <3>1. b = a
      BY <2>3, <2>5 DEF b, AdvanceRound
    <3>2. a.open => a.left <= l
      BY <2>0, <2>3, <2>5
    <3>3. a \in Ticked(i, l)
      BY <2>2, <3>2 DEF Ticked
    <3>q. QED
      BY <2>1, <3>1, <3>3 DEF b
  <2>q. QED
    BY <2>4, <2>5
<1>4. AdvanceKeeps(i, v, time, P)
  BY <1>2, <1>3 DEF AdvanceKeeps, z
<1> DEFINE a == AdvanceTo(i, time, v)
<1>5. a \in P[n] /\ a \in AdvanceStates(i, time, v)
  BY <1>4, AdvancedBy
<1>6. n \in Int /\ (time >= 0 => time - n = 0)
  OBVIOUS
<1> HIDE DEF a, n
<1>7. a \in Ticked(i, time - n)
  BY <1>1, <1>5, <1>6
<1>8. ASSUME time >= 0, a.done = <<>> PROVE a.left = 0
  <2>1. a.left >= 0 /\ a.left \in Int
    BY <1>5, <1>8 DEF AdvanceStates, AdvanceState
  <2>2. a.open => a.left <= 0
    BY <1>6, <1>7, <1>8 DEF Ticked
  <2>3. ~a.open => a.left = 0
    BY <1>7, <1>8 DEF Ticked
  <2>4. a.open \in BOOLEAN
    BY <1>7 DEF Ticked, AdvanceState
  <2>q. QED
    BY <2>1, <2>2, <2>3, <2>4
<1>9. Steady(a.inst) /\ Onward(i, a.inst)
  BY <1>7 DEF Ticked
<1>q. QED
  BY <1>8, <1>9 DEF a

-----------------------------------------------------------------------------
(* Admission and updates on an instance that reserves.                     *)

LEMMA AddRequestSteady ==
    ASSUME NEW i, NEW r \in Nat, Well(i), Steady(i), r \notin DOMAIN i.req,
           RejectIfKvFull, Accepts(i, r)
    PROVE  Steady(AddRequest(i, r))
<1> DEFINE j == AddRequest(i, r)
<1>1. /\ Well(j)
      /\ Active(j) = Active(i) \cup {r}
      /\ DOMAIN j.req = DOMAIN i.req \cup {r}
      /\ \A q \in DOMAIN i.req : j.req[q] = i.req[q]
      /\ j.req[r] = NewReq
      /\ j.completed = i.completed /\ j.stats = i.stats /\ j.running = i.running
  BY AddRequestFacts
<1> HIDE DEF j
<1>2. /\ Active(i) \in SUBSET DOMAIN i.req /\ ToSet(i.completed) \in SUBSET DOMAIN i.req
      /\ ToSet(i.running) \in SUBSET Active(i) /\ r \notin Active(i)
  BY WellFields, ZenonT(30)
<1>3. \A q \in DOMAIN i.req : Need(j, q) = Need(i, q) /\ Remaining(j, q) = Remaining(i, q)
  BY <1>1 DEF Need, Remaining
<1>4. Need(j, r) >= 0 /\ Remaining(j, r) >= 0 /\ Remaining(j, r) >= 1
  <2>1. Need(j, r) = PromptLen(r) + 0 - 0 /\ Remaining(j, r) = TargetLen(r) - 0
    BY <1>1 DEF Need, Remaining, NewReq
  <2> DEFINE a == PromptLen(r)
             b == TargetLen(r)
  <2>2. a \in Nat /\ b \in Nat /\ b >= 1
    BY LengthsTyped
  <2> HIDE DEF a, b
  <2>3. a + 0 - 0 >= 0 /\ b - 0 >= 0 /\ b - 0 >= 1
    BY <2>2
  <2>q. QED
    BY <2>1, <2>3 DEF a, b
<1>5. Reserving(j)
  <2> DEFINE S == Active(i)
             T == S \cup {r}
             e == [q \in T |-> Reserved(q)]
  <2>1. IsFiniteSet(S) /\ S \in SUBSET Nat
    BY ActiveTyped
  <2>2. ReservedFor(S) + Reserved(r) <= KvBlocks
    BY DEF Accepts, ReservedFor
  <2>3. r \notin S /\ Active(j) = T
    BY <1>1, <1>2
  <2> HIDE DEF S
  <2>4. \A q \in S \cup {r} : e[q] \in Nat /\ e[q] = Reserved(q)
    BY <2>1, ReservedTyped
  <2>5. Part(e, T) = ReservedFor(T) /\ Part(e, S) = ReservedFor(S)
    <3>1. [q \in S |-> e[q]] = [q \in S |-> Reserved(q)]
      BY <2>4
    <3>q. QED
      BY <3>1 DEF Part, ReservedFor
  <2> HIDE DEF e
  <2>6. \A q \in S \cup {r} : e[q] \in Nat
    BY <2>4
  <2>7. Part(e, S \cup {r}) = e[r] + Part(e, S)
    BY <2>1, <2>3, <2>6, PartOfOneMore
  <2>8. e[r] = Reserved(r) /\ e[r] \in Nat
    BY <2>4
  <2>9. Part(e, S) \in Nat
    <3>1. \A q \in S : e[q] \in Nat
      BY <2>6
    <3>2. Sums(e, S)
      BY <2>1, <3>1, PartSums
    <3>q. QED
      BY <3>2 DEF Sums
  <2>10. ReservedFor(T) <= KvBlocks
    BY <2>2, <2>5, <2>7, <2>8, <2>9, KvTyped
  <2>q. QED
    BY <2>3, <2>10 DEF Reserving
<1>6. \A q \in Active(j) : Need(j, q) >= 0 /\ Remaining(j, q) >= 0 /\ Remaining(j, q) >= 1
  <2>1. \A q \in Active(i) : Need(i, q) >= 0 /\ Remaining(i, q) >= 0 /\ Remaining(i, q) >= 1
    BY DEF Steady, Holding, Unfinished
  <2>q. QED
    BY <1>1, <1>2, <1>3, <1>4, <2>1
<1>7. \A q \in ToSet(j.running) : Need(j, q) = 0
  BY <1>1, <1>2, <1>3 DEF Steady, Holding
<1>8. Exact(j)
  BY <1>1, <1>2, <1>3 DEF Steady, Exact
<1>9. Counted(j)
  <2>1. Counted(i) /\ j.req[r].generated = 0
    BY <1>1 DEF Steady, NewReq
  <2>q. QED
    BY <1>1, <2>1, CountedOneMore
<1>10. Holding(j) /\ Unfinished(j, Active(j))
  BY <1>5, <1>6, <1>7 DEF Holding, Unfinished
<1>q. QED
  BY <1>8, <1>9, <1>10 DEF Steady, j

\* Of the requests that stay, the cache of some is freed and they wait.
Freeing(i, j) ==
    /\ \A r \in Active(j) : \/ j.req[r].prefilled = 0
                            \/ j.req[r].prefilled = i.req[r].prefilled
    /\ \A r \in ToSet(j.running) : /\ r \in ToSet(i.running)
                                   /\ j.req[r].prefilled = i.req[r].prefilled

LEMMA FreedSteady ==
    ASSUME NEW i, NEW j, NEW gone, Well(i), Steady(i), Reworked(i, j, gone), Freeing(i, j)
    PROVE  Steady(j)
<1>1. /\ Well(j) /\ Active(j) = Active(i) \ gone /\ Active(j) \subseteq Active(i)
      /\ j.completed = i.completed /\ j.stats = i.stats
      /\ DOMAIN j.req = DOMAIN i.req
      /\ \A r \in DOMAIN i.req : j.req[r].generated = i.req[r].generated
  BY DEF Reworked
<1>2. /\ Active(i) \in SUBSET DOMAIN i.req /\ ToSet(i.completed) \in SUBSET DOMAIN i.req
      /\ ToSet(i.running) \in SUBSET Active(i)
  BY WellFields, Zenon
<1>3. \A r \in DOMAIN i.req : Remaining(j, r) = Remaining(i, r)
  BY <1>1 DEF Remaining
<1>4. ASSUME NEW r \in Active(j)
      PROVE  Need(j, r) >= 0 /\ Remaining(j, r) >= 0 /\ Remaining(j, r) >= 1
  <2>1. r \in DOMAIN i.req /\ r \in Active(i)
    BY <1>1, <1>2
  <2>2. Remaining(i, r) >= 0 /\ Remaining(i, r) >= 1 /\ Need(i, r) >= 0
    BY <2>1 DEF Steady, Holding, Unfinished
  <2> DEFINE a == PromptLen(r)
             g == i.req[r].generated
             h == i.req[r].prefilled
             l == j.req[r].prefilled
  <2>3. a \in Nat /\ g \in Nat /\ h \in Nat /\ Need(i, r) = a + g - h
    BY <2>1, NumbersOf
  <2>4. Need(j, r) = a + g - l /\ (l = 0 \/ l = h)
    BY <1>1, <2>1 DEF Need, Freeing
  <2> HIDE DEF a, g, h, l
  <2>5. a + g - l >= 0
    BY <2>2, <2>3, <2>4
  <2>q. QED
    BY <1>3, <2>1, <2>2, <2>4, <2>5
<1>5. ASSUME NEW r \in ToSet(j.running)
      PROVE  Need(j, r) = 0
  <2>1. r \in ToSet(i.running) /\ j.req[r].prefilled = i.req[r].prefilled
    BY DEF Freeing
  <2>2. r \in DOMAIN i.req /\ Need(i, r) = 0
    BY <1>2, <2>1 DEF Steady, Holding
  <2>3. Need(j, r) = Need(i, r)
    BY <1>1, <2>1, <2>2 DEF Need
  <2>q. QED
    BY <2>2, <2>3
<1>6. Reserving(j)
  BY <1>1, ReservingKept DEF Steady, Holding
<1>7. Holding(j) /\ Unfinished(j, Active(j))
  BY <1>4, <1>5, <1>6 DEF Holding, Unfinished
<1>8. Exact(j)
  BY <1>1, <1>2, <1>3 DEF Steady, Exact
<1>9. Counted(j)
  BY <1>1, CountedKept DEF Steady
<1>q. QED
  BY <1>7, <1>8, <1>9 DEF Steady

LEMMA WithFreedFields ==
    ASSUME NEW i, Well(i), NEW w \in Seq(Nat), NEW q \in Seq(Nat), NEW S
    PROVE  LET j == WithFreed(i, w, q, S)
           IN /\ j.waiting = w /\ j.running = q
              /\ \A r \in DOMAIN i.req :
                    j.req[r].prefilled = IF r \in S THEN 0 ELSE i.req[r].prefilled
<1> DEFINE e(r) == [i.req[r] EXCEPT !.prefilled = 0]
           f == [r \in DOMAIN i.req |-> IF r \in S THEN e(r) ELSE i.req[r]]
           j == WithFreed(i, w, q, S)
<1>1. i \in Record
  BY WellFields
<1>2. \A r \in DOMAIN i.req : i.req[r] \in ReqState
  BY ReqTyped
<1>3. j.waiting = w /\ j.running = q /\ j.req = f
  BY <1>1 DEF WithFreed, Record
<1>4. \A r \in DOMAIN i.req : e(r).prefilled = 0
  BY <1>2 DEF ReqState
<1> HIDE DEF e, j
<1>5. \A r \in DOMAIN i.req : f[r].prefilled = IF r \in S THEN 0 ELSE i.req[r].prefilled
  BY <1>4
<1>q. QED
  BY <1>3, <1>5 DEF j

LEMMA CancelSteady ==
    ASSUME NEW i, Well(i), Steady(i), NEW gone
    PROVE  Steady(Cancel(i, gone)) /\ Onward(i, Cancel(i, gone))
<1> DEFINE w == Without(i.waiting, gone)
           q == Without(i.running, gone)
           S == gone \cap Active(i)
           j == Cancel(i, gone)
<1>1. i \in Record /\ i.waiting \in Seq(Nat) /\ i.running \in Seq(Nat)
      /\ Active(i) \in SUBSET DOMAIN i.req
  BY WellFields
<1>2. /\ w \in Seq(Nat) /\ ToSet(w) = ToSet(i.waiting) \ gone
      /\ q \in Seq(Nat) /\ ToSet(q) = ToSet(i.running) \ gone
  BY <1>1, WithoutFacts
<1>3. j = WithFreed(i, w, q, S)
  BY <1>1 DEF Cancel, WithFreed, Record
<1>4. Reworked(i, j, gone)
  BY CancelFacts
<1> HIDE DEF w, q, j, S
<1>5. /\ j.waiting = w /\ j.running = q
      /\ \A r \in DOMAIN i.req :
            j.req[r].prefilled = IF r \in S THEN 0 ELSE i.req[r].prefilled
  BY <1>2, <1>3, WithFreedFields
<1>6. Active(j) = Active(i) \ gone
  BY <1>4 DEF Reworked
<1>7. ToSet(j.running) \subseteq Active(j)
  BY DEF Active
<1>8. \A r \in Active(j) : j.req[r].prefilled = i.req[r].prefilled
  BY <1>1, <1>5, <1>6 DEF S
<1>9. Freeing(i, j)
  BY <1>2, <1>5, <1>7, <1>8 DEF Freeing
<1>10. Steady(j)
  BY <1>4, <1>9, FreedSteady
<1>q. QED
  BY <1>2, <1>5, <1>10 DEF Onward, j

LEMMA AbortAllSteady ==
    ASSUME NEW i, Well(i), Steady(i)
    PROVE  Steady(AbortAll(i))
<1> DEFINE w == i.running \o i.waiting
           q == <<>>
           S == Active(i)
           j == AbortAll(i)
<1>1. i \in Record /\ i.waiting \in Seq(Nat) /\ i.running \in Seq(Nat)
      /\ Active(i) \in SUBSET DOMAIN i.req
  BY WellFields
<1>2. w \in Seq(Nat) /\ q \in Seq(Nat) /\ ToSet(q) = {}
  BY <1>1, ConcatFacts DEF ToSet
<1>3. j = WithFreed(i, w, q, S)
  BY <1>1 DEF AbortAll, WithFreed, Record
<1>4. Reworked(i, j, {})
  BY AbortAllFacts
<1> HIDE DEF w, q, j, S
<1>5. /\ j.running = q
      /\ \A r \in DOMAIN i.req :
            j.req[r].prefilled = IF r \in S THEN 0 ELSE i.req[r].prefilled
  BY <1>2, <1>3, WithFreedFields
<1>6. Active(j) = S
  BY <1>4 DEF Reworked, S
<1>7. Freeing(i, j)
  BY <1>1, <1>2, <1>5, <1>6 DEF Freeing, S
<1>q. QED
  BY <1>4, <1>7, FreedSteady DEF j

LEMMA AfterUpdateSteady ==
    ASSUME NEW i, Well(i), Steady(i), NEW expired
    PROVE  Steady(AfterUpdate(i, expired))
<1> DEFINE c == Cancel(i, {r.rid : r \in expired})
<1>1. AfterUpdate(i, expired) = IF PartialRollout THEN AbortAll(c) ELSE c
  BY DEF AfterUpdate
<1>2. Well(c) /\ Steady(c)
  BY CancelFacts, CancelSteady DEF Reworked
<1> HIDE DEF c
<1>3. Steady(AbortAll(c))
  BY <1>2, AbortAllSteady
<1>q. QED
  BY <1>1, <1>2, <1>3

LEMMA NewInstanceSteady == Well(NewInstance) /\ Steady(NewInstance)
<1> DEFINE i == NewInstance
<1>1. /\ i.waiting = <<>> /\ i.running = <<>> /\ i.completed = <<>> /\ i.stats = <<>>
      /\ i.req = <<>>
  BY DEF NewInstance
<1>w. Well(i)
  BY NewInstanceWell
<1> HIDE DEF i
<1>2. ToSet(<<>>) = {} /\ DOMAIN <<>> = {}
  BY DEF ToSet
<1>3. Active(i) = {} /\ DOMAIN i.req = {} /\ ToSet(i.running) = {} /\ ToSet(i.completed) = {}
  BY <1>1, <1>2 DEF Active
<1>4. Reserving(i)
  <2> DEFINE e == [r \in {} |-> Reserved(r)]
  <2>1. Part(e, {}) = ReservedFor({})
    BY DEF Part, ReservedFor
  <2>2. IsFiniteSet({}) /\ \A r \in {} : e[r] \in Nat
    BY FS_EmptySet
  <2> HIDE DEF e
  <2>3. Sums(e, {})
    BY <2>2, PartSums
  <2>4. ReservedFor({}) = 0
    BY <2>1, <2>3 DEF Sums
  <2>q. QED
    BY <1>3, <2>4, KvTyped DEF Reserving
<1>5. Counted(i)
  <2> DEFINE e == [r \in {} |-> i.req[r].generated]
  <2>1. Tokens(i) = Part(e, {})
    BY <1>3, TokensAre
  <2>2. IsFiniteSet({}) /\ \A r \in {} : e[r] \in Nat
    BY FS_EmptySet
  <2> HIDE DEF e
  <2>3. Sums(e, {})
    BY <2>2, PartSums
  <2>4. Tokens(i) = 0
    BY <2>1, <2>3 DEF Sums
  <2>5. SumOf(i.stats) = 0
    <3>1. <<>> \in Seq(Nat) /\ Len(<<>>) = 0
      OBVIOUS
    <3>2. PICK p : SumPasses(p, <<>>) /\ SumOf(<<>>) = p[Len(<<>>)]
      BY <3>1, SumPassed
    <3>q. QED
      BY <1>1, <3>1, <3>2 DEF SumPasses
  <2>q. QED
    BY <1>3, <2>2, <2>4, <2>5 DEF Counted
<1>6. Holding(i) /\ Unfinished(i, Active(i)) /\ Exact(i)
  BY <1>3, <1>4 DEF Holding, Unfinished, Exact
<1>q. QED
  BY <1>w, <1>5, <1>6 DEF Steady, i

\* Placing keeps what the instances reserve.
PlacedSteady(es) ==
    {s \in PlaceState : /\ \A i \in Instances : Steady(s.engines[i])
                        /\ s.n = 0 => s.engines = es}

LEMMA PlaceOneSteady ==
    ASSUME NEW es, nextRid \in Nat, RejectIfKvFull, NEW s \in PlaceStates(es), NEW k,
           s \in PlacedSteady(es)
    PROVE  PlaceOne(s, k) \in PlacedSteady(es)
<1> DEFINE i == LeastLoaded(s.engines)
           r == nextRid + s.n
           new == s.engines
           x == new[i]
           e == AddRequest(x, r)
           t == PlaceOne(s, k)
<1>1. /\ s \in PlaceState /\ new \in [Instances -> Record] /\ s.n \in Nat
      /\ \A j \in Instances : Well(new[j]) /\ DOMAIN new[j].req \subseteq Ids(r)
      /\ \A j \in Instances : Steady(new[j])
      /\ s.n = 0 => new = es
  BY DEF PlaceStates, PlaceState, PlacedSteady, Placed
<1>2. i \in Instances
  <2>1. \A j \in Instances : Well(new[j])
    BY <1>1
  <2> HIDE DEF new
  <2>q. QED
    BY <2>1, LeastLoadedIn DEF new
<1>t. t \in PlaceState
  BY PlaceOneKeeps DEF PlaceStates
<1>3. CASE s.open /\ Accepts(x, r)
  <2>1. t = [s EXCEPT !.engines[i] = AddRequest(@, r), !.n = @ + 1]
    BY <1>3 DEF PlaceOne
  <2> HIDE DEF i, t
  <2>2. t.engines = [new EXCEPT ![i] = e] /\ t.n = s.n + 1
    BY <1>1, <2>1 DEF PlaceState
  <2>3. Well(x) /\ Steady(x) /\ r \in Nat /\ r \notin DOMAIN x.req
    BY <1>1, <1>2 DEF Ids
  <2>4. Steady(e)
    <3> HIDE DEF x, r
    <3>q. QED
      BY <1>3, <2>3, AddRequestSteady
  <2> HIDE DEF e, x
  <2>5. \A j \in Instances : t.engines[j] = IF j = i THEN e ELSE new[j]
    BY <1>1, <2>2
  <2>6. \A j \in Instances : Steady(t.engines[j])
    BY <1>1, <2>4, <2>5
  <2>7. t.n # 0
    BY <1>1, <2>2
  <2>q. QED
    BY <1>t, <2>6, <2>7 DEF PlacedSteady, t
<1>4. CASE ~(s.open /\ Accepts(x, r))
  <2>1. t = [s EXCEPT !.open = FALSE]
    BY <1>4 DEF PlaceOne
  <2>2. t.engines = new /\ t.n = s.n
    BY <1>1, <2>1 DEF PlaceState
  <2> HIDE DEF t
  <2>q. QED
    BY <1>1, <1>t, <2>2 DEF PlacedSteady, t
<1>q. QED
  BY <1>3, <1>4

LEMMA PlaceSteady ==
    ASSUME NEW es \in [Instances -> Record], NEW quota \in Int, nextRid \in Nat,
           \A i \in Instances : Well(es[i]) /\ DOMAIN es[i].req \subseteq Ids(nextRid),
           \A i, j \in Instances : i # j => Active(es[i]) \cap Active(es[j]) = {},
           RejectIfKvFull, \A i \in Instances : Steady(es[i])
    PROVE  /\ \A i \in Instances : Steady(Place(es, quota).engines[i])
           /\ Place(es, quota).n = 0 => Place(es, quota).engines = es
<1> DEFINE Q == PlacedSteady(es)
           z == PlaceStart(es)
<1>1. z \in Q
  <2>1. z \in PlaceState /\ z.engines = es /\ z.n = 0
    BY DEF PlaceStart, PlaceState
  <2> HIDE DEF z
  <2>q. QED
    BY <2>1 DEF PlacedSteady
<1>2. \A s \in PlaceStates(es) : \A k : s \in Q => PlaceOne(s, k) \in Q
  BY PlaceOneSteady
<1> HIDE DEF Q, z
<1>3. Place(es, quota) \in PlaceStates(es) \cap Q
  BY <1>1, <1>2, PlacedAlong DEF z
<1>q. QED
  BY <1>3 DEF Q, PlacedSteady

-----------------------------------------------------------------------------
(* A step of the simulator on one of its instances.                        *)

\* The weight versions under which a request has generated tokens.
VersionsOf(req) == {s.version : s \in ToSet(req.segments)}

\* Instance u, without its event, has become x under version v: what is not
\* held any more stays as it is, and what is held generates under v only.
Turned(u, x, v) ==
    /\ DOMAIN u.req \subseteq DOMAIN x.req
    /\ ToSet(u.completed) \subseteq ToSet(x.completed)
    /\ \A r \in DOMAIN u.req : /\ r \in Active(x) => r \in Active(u)
                               /\ r \notin Active(u) => x.req[r] = u.req[r]
                               /\ VersionsOf(x.req[r]) \subseteq VersionsOf(u.req[r]) \cup {v}
    /\ \A r \in DOMAIN x.req : r \notin DOMAIN u.req => VersionsOf(x.req[r]) = {}

\* No request is sent back to the waiting ones.
Late(u, x) == \A r \in ToSet(x.waiting) : r \in ToSet(u.waiting) \/ r \notin DOMAIN u.req

LEMMA TurnedRefl ==
    ASSUME NEW u, NEW v
    PROVE  Turned(u, u, v) /\ Late(u, u) /\ Onward(u, u)
  BY DEF Turned, Late, Onward

LEMMA TurnedTrans ==
    ASSUME NEW u, NEW a, NEW x, NEW v, Turned(u, a, v), DOMAIN a.req = DOMAIN u.req,
           Turned(a, x, v)
    PROVE  Turned(u, x, v)
<1>1. /\ DOMAIN u.req \subseteq DOMAIN x.req
      /\ ToSet(u.completed) \subseteq ToSet(x.completed)
      /\ \A r \in DOMAIN x.req : r \notin DOMAIN u.req => VersionsOf(x.req[r]) = {}
  BY DEF Turned
<1>2. ASSUME NEW r \in DOMAIN u.req
      PROVE  /\ r \in Active(x) => r \in Active(u)
             /\ r \notin Active(u) => x.req[r] = u.req[r]
             /\ VersionsOf(x.req[r]) \subseteq VersionsOf(u.req[r]) \cup {v}
  <2>1. /\ r \in Active(a) => r \in Active(u)
        /\ r \notin Active(u) => a.req[r] = u.req[r]
        /\ VersionsOf(a.req[r]) \subseteq VersionsOf(u.req[r]) \cup {v}
    BY DEF Turned
  <2>2. /\ r \in Active(x) => r \in Active(a)
        /\ r \notin Active(a) => x.req[r] = a.req[r]
        /\ VersionsOf(x.req[r]) \subseteq VersionsOf(a.req[r]) \cup {v}
    BY DEF Turned
  <2>q. QED
    BY <2>1, <2>2
<1>q. QED
  BY <1>1, <1>2 DEF Turned

\* A request that grows under version v has tokens of that version more.
LEMMA GrownVersions ==
    ASSUME NEW a \in ReqState, NEW b \in ReqState, NEW v, Grown(a, b, v)
    PROVE  VersionsOf(b) \subseteq VersionsOf(a) \cup {v}
<1> SUFFICES ASSUME NEW s \in ToSet(b.segments), s.version # v
             PROVE  s.version \in VersionsOf(a)
  BY DEF VersionsOf
<1> DEFINE m == Len(a.segments)
           n == Len(b.segments)
<1>1. /\ m \in Nat /\ n \in Nat
      /\ DOMAIN a.segments = 1..m /\ DOMAIN b.segments = 1..n
  BY DEF ReqState
<1>2. PICK k \in 1..n : s = b.segments[k]
  BY <1>1 DEF ToSet
<1>3. ~(k > m)
  BY <1>2 DEF Grown
<1>4. k \in 1..m
  BY <1>1, <1>3
<1>5. s.version = a.segments[k].version
  BY <1>2, <1>4 DEF Grown
<1>6. a.segments[k] \in ToSet(a.segments)
  BY <1>1, <1>4 DEF ToSet
<1>q. QED
  BY <1>5, <1>6 DEF VersionsOf

LEMMA FollowsTurned ==
    ASSUME NEW i, NEW j, NEW done, NEW v, Well(i), Follows(i, j, done, v)
    PROVE  Turned(i, j, v) /\ DOMAIN j.req = DOMAIN i.req /\ ToSet(done) \subseteq ToSet(j.completed)
<1>1. /\ Well(j) /\ done \in Seq(Nat)
      /\ j.completed = i.completed \o done
      /\ Active(j) = Active(i) \ ToSet(done)
      /\ DOMAIN j.req = DOMAIN i.req
      /\ \A r \in DOMAIN i.req : /\ r \notin Active(i) => j.req[r] = i.req[r]
                                 /\ Grown(i.req[r], j.req[r], v)
  BY DEF Follows
<1>2. ToSet(j.completed) = ToSet(i.completed) \cup ToSet(done)
  <2>1. i.completed \in Seq(Nat)
    BY WellFields
  <2>q. QED
    BY <1>1, <2>1, ConcatFacts
<1>3. \A r \in DOMAIN i.req : i.req[r] \in ReqState
  BY ReqTyped
<1>4. \A r \in DOMAIN j.req : j.req[r] \in ReqState
  BY <1>1, ReqTyped
<1>5. \A r \in DOMAIN i.req : VersionsOf(j.req[r]) \subseteq VersionsOf(i.req[r]) \cup {v}
  <2> SUFFICES ASSUME NEW r \in DOMAIN i.req
               PROVE  VersionsOf(j.req[r]) \subseteq VersionsOf(i.req[r]) \cup {v}
    OBVIOUS
  <2> DEFINE a == i.req[r]
             b == j.req[r]
  <2>1. a \in ReqState /\ b \in ReqState /\ Grown(a, b, v)
    BY <1>1, <1>3, <1>4
  <2> HIDE DEF a, b
  <2>2. VersionsOf(b) \subseteq VersionsOf(a) \cup {v}
    BY <2>1, GrownVersions
  <2>q. QED
    BY <2>2 DEF a, b
<1>q. QED
  BY <1>1, <1>2, <1>5 DEF Turned

LEMMA ReworkedTurned ==
    ASSUME NEW i, NEW j, NEW gone, NEW v, Reworked(i, j, gone)
    PROVE  Turned(i, j, v)
<1>1. /\ Active(j) = Active(i) \ gone
      /\ j.completed = i.completed
      /\ DOMAIN j.req = DOMAIN i.req
      /\ \A r \in DOMAIN i.req : /\ r \notin Active(i) => j.req[r] = i.req[r]
                                 /\ j.req[r].segments = i.req[r].segments
  BY DEF Reworked
<1>2. \A r \in DOMAIN i.req : VersionsOf(j.req[r]) = VersionsOf(i.req[r])
  BY <1>1 DEF VersionsOf
<1>q. QED
  BY <1>1, <1>2 DEF Turned

LEMMA NothingGenerated == VersionsOf(NewReq) = {}
<1>1. NewReq.segments = <<>>
  BY DEF NewReq
<1>2. ToSet(<<>>) = {}
  BY DEF ToSet
<1>q. QED
  BY <1>1, <1>2 DEF VersionsOf

LEMMA PlacedTurned ==
    ASSUME NEW es, NEW new, NEW n \in Nat, NEW v, nextRid \in Nat, Placed(es, new, n),
           NEW i \in Instances, DOMAIN es[i].req \subseteq Ids(nextRid), Well(es[i])
    PROVE  Turned(es[i], new[i], v) /\ Late(es[i], new[i])
<1> DEFINE e == es[i]
           x == new[i]
<1>1. /\ Well(x) /\ x.completed = e.completed /\ x.running = e.running
      /\ DOMAIN e.req \subseteq DOMAIN x.req
      /\ \A r \in DOMAIN e.req : x.req[r] = e.req[r]
      /\ \A r \in DOMAIN x.req \ DOMAIN e.req : x.req[r] = NewReq
      /\ Active(x) \subseteq Active(e) \cup NewIds(n)
  BY DEF Placed
<1>2. DOMAIN e.req \cap NewIds(n) = {}
  BY DEF NewIds, Ids
<1>w. Well(e)
  OBVIOUS
<1> HIDE DEF e, x
<1>3. \A r \in DOMAIN x.req : r \notin DOMAIN e.req => VersionsOf(x.req[r]) = {}
  BY <1>1, NothingGenerated
<1>4. Turned(e, x, v)
  BY <1>1, <1>2, <1>3 DEF Turned
<1>5. ToSet(x.waiting) \subseteq Active(x) /\ ToSet(x.waiting) \cap ToSet(x.running) = {}
  <2>1. Well(x)
    BY <1>1
  <2>2. ToSet(x.waiting) \cap ToSet(x.running) = {}
    BY <2>1, WellFields
  <2>q. QED
    BY <2>2 DEF Active
<1>6. Active(e) = ToSet(e.waiting) \cup ToSet(e.running)
  BY DEF Active
<1>7. Late(e, x)
  BY <1>1, <1>2, <1>5, <1>6 DEF Late
<1>q. QED
  BY <1>4, <1>7 DEF e, x

LEMMA OnwardLate ==
    ASSUME NEW u, NEW a, NEW x, Onward(u, a), DOMAIN a.req = DOMAIN u.req, Late(a, x)
    PROVE  Late(u, x)
  BY DEF Onward, Late

LEMMA OnwardIsLate ==
    ASSUME NEW u, NEW a, Onward(u, a)
    PROVE  Late(u, a)
  BY DEF Onward, Late

-----------------------------------------------------------------------------
(* A step keeps every instance steady, if requests are only admitted with  *)
(* their reservations.                                                     *)

SteadyInv ==
    \A i \in Instances :
       Steady(engines[i]) /\ Steady(Committed[i]) /\ Onward(Committed[i], engines[i])

SteadyStep ==
    \A i \in Instances :
       /\ Steady(engines'[i]) /\ Steady(Committed'[i]) /\ Onward(Committed'[i], engines'[i])
       /\ Turned(Committed[i], Committed'[i], engineVersion)
       /\ version' = version => Late(Committed[i], Committed'[i])

\* Nothing happens to the instances.
LEMMA SteadySame ==
    ASSUME SteadyInv, UNCHANGED <<engines, events, snapshots>>
    PROVE  SteadyStep
<1>1. Committed' = Committed
  BY DEF Committed, Undone, Pending
<1>q. QED
  BY <1>1, TurnedRefl DEF SteadyInv, SteadyStep

\* No event is pending afterwards.
LEMMA SteadyAtRest ==
    ASSUME EnginesInv', \A i \in Instances : ~events'[i].pending,
           \A i \in Instances : /\ Steady(engines'[i])
                                /\ Turned(Committed[i], engines'[i], engineVersion)
                                /\ version' = version => Late(Committed[i], engines'[i])
    PROVE  SteadyStep
<1>1. \A i \in Instances : Committed'[i] = engines'[i]
  BY DEF EnginesInv, Stands
<1>2. \A i \in Instances : Onward(engines'[i], engines'[i])
  BY DEF Onward
<1>q. QED
  BY <1>1, <1>2 DEF SteadyStep

LEMMA PlacedSteadily ==
    ASSUME SimInv, NEW es \in [Instances -> Record], NEW quota \in Quotas,
           \A i \in Instances : Follows(Committed[i], es[i], <<>>, engineVersion),
           \A i \in Instances : Steady(es[i]) /\ Onward(Committed[i], es[i]),
           RejectIfKvFull, engines' = Place(es, quota).engines,
           \A i \in Instances : ~events'[i].pending, EnginesInv'
    PROVE  SteadyStep
<1> DEFINE n == Place(es, quota).n
           new == Place(es, quota).engines
<1>1. /\ nextRid \in Nat /\ HeldBy(Committed, InflightRids, collecting)
      /\ \A i \in Instances : DOMAIN engines[i].req \subseteq Ids(nextRid)
  BY DEF SimInv, LoopTypeOK, EnginesInv
<1>2. /\ \A i \in Instances : Well(Committed[i])
      /\ \A i \in Instances : DOMAIN Committed[i].req = DOMAIN engines[i].req
  BY CommittedTyped
<1>3. \A i \in Instances : /\ Well(es[i]) /\ Active(es[i]) = Active(Committed[i])
                           /\ DOMAIN es[i].req = DOMAIN Committed[i].req
  BY FollowsHolds, FollowsRecord
<1>4. /\ \A i \in Instances : Well(es[i]) /\ DOMAIN es[i].req \subseteq Ids(nextRid)
      /\ \A i, j \in Instances : i # j => Active(es[i]) \cap Active(es[j]) = {}
  BY <1>1, <1>2, <1>3 DEF HeldBy
<1>5. quota \in Int
  BY DEF Quotas
<1>6. Place(es, quota) \in PlaceStates(es)
  BY <1>1, <1>4, <1>5, PlaceFacts
<1>7. n \in Nat /\ Placed(es, new, n)
  BY <1>6 DEF PlaceStates, PlaceState
<1>8. \A i \in Instances : Steady(new[i])
  BY <1>1, <1>4, <1>5, PlaceSteady
<1>9. engines' = new
  OBVIOUS
<1> HIDE DEF n, new
<1>10. \A i \in Instances : /\ Turned(Committed[i], new[i], engineVersion)
                            /\ Late(Committed[i], new[i])
  <2> SUFFICES ASSUME NEW i \in Instances
               PROVE  Turned(Committed[i], new[i], engineVersion) /\ Late(Committed[i], new[i])
    OBVIOUS
  <2> DEFINE u == Committed[i]
             a == es[i]
             x == new[i]
  <2>1. Turned(a, x, engineVersion) /\ Late(a, x)
    BY <1>1, <1>4, <1>7, PlacedTurned
  <2>2. Follows(u, a, <<>>, engineVersion) /\ Well(u) /\ Onward(u, a)
    BY <1>2
  <2> HIDE DEF u, a, x
  <2>3. Turned(u, a, engineVersion) /\ DOMAIN a.req = DOMAIN u.req
    BY <2>2, FollowsTurned
  <2>4. Turned(u, x, engineVersion)
    BY <2>1, <2>3, TurnedTrans
  <2>5. Late(u, x)
    BY <2>1, <2>2, <2>3, OnwardLate
  <2>q. QED
    BY <2>4, <2>5 DEF u, x
<1>q. QED
  BY <1>8, <1>9, <1>10, SteadyAtRest

LEMMA SimAdmitSteady ==
    ASSUME SimInv, SteadyInv, SimAdmit, RejectIfKvFull, EnginesInv'
    PROVE  SteadyStep
<1>1. PICK quota \in Quotas : engines' = Place(engines, quota).engines
  BY DEF SimAdmit
<1>2. EngineTypes /\ Pending = {} /\ events' = events
  BY DEF SimAdmit, SimInv, ControlInv, AtRest
<1>3. /\ Committed = engines
      /\ \A i \in Instances : Well(engines[i]) /\ ~events[i].pending
  BY <1>2, NothingPending
<1>4. \A i \in Instances : Follows(Committed[i], engines[i], <<>>, engineVersion)
  BY <1>3, FollowsRefl
<1>5. \A i \in Instances : Steady(engines[i]) /\ Onward(Committed[i], engines[i])
  BY DEF SteadyInv
<1>6. engines \in [Instances -> Record] /\ \A i \in Instances : ~events'[i].pending
  BY <1>2, <1>3 DEF EngineTypes
<1>q. QED
  BY <1>1, <1>4, <1>5, <1>6, PlacedSteadily

LEMMA SimTrainSteady ==
    ASSUME SimInv, SteadyInv, SimTrain, EnginesInv'
    PROVE  SteadyStep
<1>1. PICK batch \in kSubset(BatchSize, ready), newEngine \in {engineVersion, version + 1},
           expired \in SUBSET inflight :
              /\ TakeBatch(batch, newEngine, expired, TRUE)
              /\ engines' = [i \in Instances |-> AfterUpdate(engines[i], expired)]
  BY DEF SimTrain
<1>2. /\ Pending = {} /\ events' = events /\ version' = version + 1 /\ version \in Nat
  BY <1>1 DEF SimTrain, SimInv, ControlInv, AtRest, TakeBatch, LoopTypeOK
<1>3. /\ Committed = engines
      /\ \A i \in Instances : Well(engines[i]) /\ ~events[i].pending
  BY <1>2, NothingPending
<1>4. \A i \in Instances : /\ Steady(engines'[i])
                           /\ Turned(Committed[i], engines'[i], engineVersion)
  <2> SUFFICES ASSUME NEW i \in Instances
               PROVE  Steady(engines'[i]) /\ Turned(Committed[i], engines'[i], engineVersion)
    OBVIOUS
  <2> DEFINE e == engines[i]
             b == AfterUpdate(e, expired)
  <2>1. Well(e) /\ Steady(e)
    BY <1>3 DEF SteadyInv
  <2>2. engines'[i] = b
    BY <1>1
  <2>3. Committed[i] = e
    BY <1>3
  <2> HIDE DEF e
  <2>4. Reworked(e, b, {r.rid : r \in expired})
    BY <2>1, AfterUpdateFacts
  <2>5. Steady(b)
    BY <2>1, AfterUpdateSteady
  <2> HIDE DEF b
  <2>6. Turned(e, b, engineVersion)
    BY <2>4, ReworkedTurned
  <2>q. QED
    BY <2>2, <2>3, <2>5, <2>6
<1>5. version' # version
  BY <1>2
<1>q. QED
  BY <1>2, <1>3, <1>4, <1>5, SteadyAtRest

\* What an instance without a pending event has become when it produces one.
LEMMA ProducedSteady ==
    ASSUME NEW e, NEW v \in Nat, Well(e), ~Idle(e), Steady(e)
    PROVE  LET start == PromoteReady(e)
               event == AdvanceOneEvent(start, v)
           IN /\ Steady(start) /\ Steady(event.inst) /\ Onward(start, event.inst)
              /\ Turned(e, start, v) /\ Late(e, start)
<1> DEFINE start == PromoteReady(e)
           event == AdvanceOneEvent(start, v)
<1>1. /\ Well(start) /\ Steady(start) /\ Onward(e, start)
      /\ Active(start) = Active(e)
  BY PromoteReadySteady
<1>2. Follows(e, start, <<>>, v)
  BY PromoteReadyFollows
<1> HIDE DEF start
<1>3. ~Idle(start)
  BY <1>1 DEF Idle
<1>4. Steady(event.inst) /\ Onward(start, event.inst)
  BY <1>1, <1>3, EventSteady
<1>5. Turned(e, start, v)
  BY <1>2, FollowsTurned
<1>6. Late(e, start)
  BY <1>1, OnwardIsLate
<1>q. QED
  BY <1>1, <1>4, <1>5, <1>6 DEF start

LEMMA ProduceSteady ==
    ASSUME SimInv, SteadyInv, NEW S \in SUBSET Instances, S \cap Pending = {},
           Produce(Produced(S)), UNCHANGED loopVars, EnginesInv'
    PROVE  SteadyStep
<1> DEFINE p == Produced(S)
           B == {j \in S : ~Idle(engines[j])}
<1>1. /\ EngineTypes /\ engineVersion \in Nat /\ engineVersion' = engineVersion
      /\ \A i \in Instances : Well(engines[i])
  BY CommittedTyped DEF SimInv, LoopTypeOK, loopVars
<1>2. /\ engines' = [i \in Instances |-> IF i \in DOMAIN p THEN p[i].inst ELSE engines[i]]
      /\ events' = [i \in Instances |-> IF i \in DOMAIN p THEN p[i].event ELSE events[i]]
      /\ snapshots' = [i \in Instances |-> IF i \in DOMAIN p THEN p[i].snapshot
                                           ELSE snapshots[i]]
  BY DEF Produce
<1>3. /\ DOMAIN p = B
      /\ \A i \in B :
            LET start == PromoteReady(engines[i])
                event == AdvanceOneEvent(start, engineVersion)
            IN /\ p[i].inst = event.inst
               /\ p[i].event = [done |-> event.done, t |-> clock[i] + event.dt,
                                pending |-> TRUE]
               /\ p[i].snapshot = Capture(start)
  BY DEF Produced
<1> HIDE DEF p
<1>4. \A i \in B : /\ i \in Instances /\ Committed[i] = engines[i]
                   /\ ~Idle(engines[i]) /\ Well(engines[i]) /\ Steady(engines[i])
                   /\ clock[i] \in Nat
  <2>1. \A i \in B : i \in Instances /\ i \notin Pending /\ ~Idle(engines[i])
    OBVIOUS
  <2>2. \A i \in B : Committed[i] = engines[i]
    BY <2>1 DEF Committed, Undone
  <2>q. QED
    BY <1>1, <2>1, <2>2 DEF EngineTypes, SteadyInv
<1>5. ASSUME NEW i \in B
      PROVE  /\ Steady(engines'[i]) /\ Steady(Committed'[i])
             /\ Onward(Committed'[i], engines'[i])
             /\ Turned(Committed[i], Committed'[i], engineVersion)
             /\ Late(Committed[i], Committed'[i])
  <2> DEFINE e == engines[i]
             t == clock[i]
             start == PromoteReady(e)
             event == AdvanceOneEvent(start, engineVersion)
             ev == [done |-> event.done, t |-> t + event.dt, pending |-> TRUE]
             x == Committed'[i]
  <2>1. /\ engines'[i] = event.inst /\ events'[i] = ev /\ snapshots'[i] = Capture(start)
        /\ i \in Instances
    BY <1>2, <1>3, <1>4
  <2>2. ~Idle(e) /\ Well(e) /\ Steady(e) /\ t \in Nat /\ Committed[i] = e
    BY <1>4
  <2>3. x = IF events'[i].pending THEN Restore(engines'[i], snapshots'[i]) ELSE engines'[i]
    BY <2>1 DEF Committed, Undone, Pending
  <2> HIDE DEF e, t, x
  <2>4. Stands(event.inst, ev, Capture(start), engineVersion, start)
    BY <1>1, <2>2, ProducedStands
  <2>5. /\ Steady(start) /\ Steady(event.inst) /\ Onward(start, event.inst)
        /\ Turned(e, start, engineVersion) /\ Late(e, start)
    BY <1>1, <2>2, ProducedSteady
  <2> HIDE DEF start, event, ev
  <2>6. x = start
    BY <2>1, <2>3, <2>4, StandsUndone
  <2>q. QED
    BY <2>1, <2>2, <2>5, <2>6 DEF x
<1>6. ASSUME NEW i \in Instances \ B
      PROVE  /\ engines'[i] = engines[i] /\ Committed'[i] = Committed[i]
  <2>1. /\ engines'[i] = engines[i] /\ events'[i] = events[i] /\ snapshots'[i] = snapshots[i]
    BY <1>2, <1>3
  <2>q. QED
    BY <2>1 DEF Committed, Undone, Pending
<1> HIDE DEF B
<1>7. ASSUME NEW i \in Instances
      PROVE  /\ Steady(engines'[i]) /\ Steady(Committed'[i])
             /\ Onward(Committed'[i], engines'[i])
             /\ Turned(Committed[i], Committed'[i], engineVersion)
             /\ Late(Committed[i], Committed'[i])
  <2>1. CASE i \in B
    BY <1>5, <2>1
  <2>2. CASE i \notin B
    BY <1>6, <2>2, TurnedRefl DEF SteadyInv
  <2>q. QED
    BY <2>1, <2>2
<1>q. QED
  BY <1>7 DEF SteadyStep

LEMMA CommitSteady ==
    ASSUME SimInv, SteadyInv, CommitEvent
    PROVE  /\ SteadyStep
           /\ Committed'[Earliest] = engines[Earliest] /\ Earliest \in Instances
           /\ ToSet(collecting') \subseteq ToSet(engines[Earliest].completed)
<1> DEFINE i == Earliest
<1>1. /\ EngineTypes /\ Pending # {} /\ events' = [events EXCEPT ![i] = NoEvent]
      /\ collecting' = events[i].done
      /\ UNCHANGED <<engines, snapshots, engineVersion>>
  BY DEF CommitEvent, AtQueue, SimInv, loopVars
<1>2. i \in Pending /\ i \in Instances
  BY <1>1, EarliestFacts DEF Pending
<1>3. Stands(engines[i], events[i], snapshots[i], engineVersion, Committed[i])
  BY <1>2 DEF SimInv, EnginesInv
<1>4. Well(Committed[i])
  BY <1>2, CommittedTyped
<1> HIDE DEF i
<1>5. Follows(Committed[i], engines[i], events[i].done, engineVersion)
  BY <1>2, <1>3 DEF Stands, Pending
<1>6. /\ Turned(Committed[i], engines[i], engineVersion)
      /\ ToSet(events[i].done) \subseteq ToSet(engines[i].completed)
  BY <1>4, <1>5, FollowsTurned
<1>7. ~events'[i].pending /\ \A j \in Instances \ {i} : events'[j] = events[j]
  BY <1>1, <1>2 DEF EngineTypes, NoEvent
<1>8. /\ Committed'[i] = engines[i]
      /\ \A j \in Instances \ {i} : Committed'[j] = Committed[j]
  BY <1>1, <1>2, <1>7 DEF Committed, Undone, Pending
<1>9. Onward(engines[i], engines[i]) /\ Late(Committed[i], engines[i])
  BY <1>2 DEF SteadyInv, Onward, Late
<1>10. ASSUME NEW j \in Instances
       PROVE  /\ Steady(engines'[j]) /\ Steady(Committed'[j])
              /\ Onward(Committed'[j], engines'[j])
              /\ Turned(Committed[j], Committed'[j], engineVersion)
              /\ Late(Committed[j], Committed'[j])
  <2>1. CASE j = i
    BY <1>1, <1>2, <1>6, <1>8, <1>9, <2>1 DEF SteadyInv
  <2>2. CASE j # i
    BY <1>1, <1>8, <2>2, TurnedRefl DEF SteadyInv
  <2>q. QED
    BY <2>1, <2>2
<1>11. SteadyStep
  BY <1>10 DEF SteadyStep
<1>q. QED
  BY <1>1, <1>2, <1>6, <1>8, <1>11 DEF i

\* The instances that are aligned stay steady and use all the time they have.
MovedSteadily(a, t) ==
    \A i \in Instances :
       /\ Steady(a[i].inst) /\ Onward(Committed[i], a[i].inst)
       /\ clock[i] <= t /\ a[i].done = <<>> => a[i].left = 0

LEMMA AlignedSteadily ==
    ASSUME SimInv, SteadyInv, NEW t \in Nat
    PROVE  MovedSteadily(Aligned(t), t)
<1> SUFFICES ASSUME NEW i \in Instances
             PROVE  /\ Steady(Aligned(t)[i].inst) /\ Onward(Committed[i], Aligned(t)[i].inst)
                    /\ clock[i] <= t /\ Aligned(t)[i].done = <<>> => Aligned(t)[i].left = 0
  BY DEF MovedSteadily
<1> DEFINE u == Committed[i]
           time == t - clock[i]
           b == AdvanceTo(u, time, engineVersion)
<1>1. Aligned(t)[i] = b
  BY DEF Aligned, Committed
<1>2. Well(u) /\ Steady(u) /\ time \in Int /\ engineVersion \in Nat /\ clock[i] \in Nat
  BY CommittedTyped DEF SimInv, EngineTypes, LoopTypeOK, SteadyInv
<1>3. clock[i] <= t => time >= 0
  BY <1>2
<1> HIDE DEF u, time
<1>4. Steady(b.inst) /\ Onward(u, b.inst) /\ (time >= 0 /\ b.done = <<>> => b.left = 0)
  BY <1>2, AdvanceToSteady
<1> HIDE DEF b
<1>q. QED
  BY <1>1, <1>3, <1>4 DEF u

LEMMA AlignedAgainSteadily ==
    ASSUME SimInv, NEW t \in Nat, NEW a, MovedOn(a, t), NothingExtra(a), MovedSteadily(a, t)
    PROVE  MovedSteadily(AlignedAgain(a), t)
<1> DEFINE c == AlignedAgain(a)
<1> SUFFICES ASSUME NEW i \in Instances
             PROVE  /\ Steady(c[i].inst) /\ Onward(Committed[i], c[i].inst)
                    /\ clock[i] <= t /\ c[i].done = <<>> => c[i].left = 0
  BY DEF MovedSteadily
<1> DEFINE e == a[i].inst
           time == a[i].left
           b == AdvanceTo(e, time, engineVersion)
<1>1. c[i] = b
  BY DEF AlignedAgain
<1>2. /\ Follows(Committed[i], e, <<>>, engineVersion) /\ time \in Int /\ engineVersion \in Nat
      /\ Steady(e) /\ Onward(Committed[i], e)
      /\ clock[i] <= t => time = 0
  BY DEF SimInv, LoopTypeOK, MovedOn, NothingExtra, MovedSteadily
<1> HIDE DEF e, time
<1>3. Well(e)
  BY <1>2, FollowsRecord
<1>4. Steady(b.inst) /\ Onward(e, b.inst) /\ (time >= 0 /\ b.done = <<>> => b.left = 0)
  BY <1>2, <1>3, AdvanceToSteady
<1>5. clock[i] <= t => time >= 0
  BY <1>2
<1> HIDE DEF b, c
<1>q. QED
  BY <1>1, <1>2, <1>4, <1>5 DEF Onward

LEMMA AlignedSteadyStep ==
    ASSUME SimInv, NEW a, NEW t, NEW force, MovedOn(a, t), MovedSteadily(a, t),
           UndoAndAlign(a, t, force), EnginesInv'
    PROVE  SteadyStep
<1>1. /\ \A i \in Instances : engines'[i] = a[i].inst /\ a[i].done = <<>>
      /\ \A i \in Instances : ~events'[i].pending
  BY DEF UndoAndAlign, NothingExtra, NoEvent
<1>2. ASSUME NEW i \in Instances
      PROVE  /\ Steady(a[i].inst) /\ Turned(Committed[i], a[i].inst, engineVersion)
             /\ Late(Committed[i], a[i].inst)
  <2> DEFINE u == Committed[i]
             x == a[i].inst
  <2>1. Well(u) /\ Follows(u, x, <<>>, engineVersion) /\ Steady(x) /\ Onward(u, x)
    BY <1>1, CommittedTyped DEF MovedOn, MovedSteadily
  <2> HIDE DEF u, x
  <2>2. Turned(u, x, engineVersion)
    BY <2>1, FollowsTurned
  <2>3. Late(u, x)
    BY <2>1, OnwardIsLate
  <2>q. QED
    BY <2>1, <2>2, <2>3 DEF u, x
<1>q. QED
  BY <1>1, <1>2, SteadyAtRest

\* The alignment that ends an engine run.
Ending(t, force) ==
    \E a : MovedOn(a, t) /\ MovedSteadily(a, t) /\ UndoAndAlign(a, t, force)

LEMMA EndsSteadily ==
    ASSUME SimInv, SteadyInv
    PROVE  /\ SimDeadline => Ending(deadline, TRUE)
           /\ SimStopOnBatch \/ SimExhausted => Ending(now, FALSE)
<1>1. now \in Nat /\ deadline \in Nat
  BY DEF SimInv, EngineTypes
<1>2. ASSUME SimStopOnBatch PROVE Ending(now, FALSE)
  <2> DEFINE first == Aligned(now)
             a == AlignedAgain(first)
  <2>1. NothingExtra(first) /\ UndoAndAlign(a, now, FALSE)
    BY <1>2 DEF SimStopOnBatch
  <2>2. MovedOn(first, now) /\ MovedSteadily(first, now)
    BY <1>1, AlignedMoved, AlignedSteadily
  <2> HIDE DEF first
  <2>3. MovedOn(a, now) /\ MovedSteadily(a, now)
    BY <1>1, <2>1, <2>2, AlignedAgainMoved, AlignedAgainSteadily
  <2> HIDE DEF a
  <2>q. QED
    BY <2>1, <2>3, Zenon DEF Ending
<1>3. ASSUME SimDeadline PROVE Ending(deadline, TRUE)
  <2> DEFINE a == Aligned(deadline)
  <2>1. UndoAndAlign(a, deadline, TRUE)
    BY <1>3 DEF SimDeadline
  <2>2. MovedOn(a, deadline) /\ MovedSteadily(a, deadline)
    BY <1>1, AlignedMoved, AlignedSteadily
  <2> HIDE DEF a
  <2>q. QED
    BY <2>1, <2>2, Zenon DEF Ending
<1>4. ASSUME SimExhausted PROVE Ending(now, FALSE)
  <2> DEFINE a == Aligned(now)
  <2>1. UndoAndAlign(a, now, FALSE)
    BY <1>4 DEF SimExhausted
  <2>2. MovedOn(a, now) /\ MovedSteadily(a, now)
    BY <1>1, AlignedMoved, AlignedSteadily
  <2> HIDE DEF a
  <2>q. QED
    BY <2>1, <2>2, Zenon DEF Ending
<1>q. QED
  BY <1>2, <1>3, <1>4

LEMMA EndsSteady ==
    ASSUME SimInv, SteadyInv, SimStopOnBatch \/ SimDeadline \/ SimExhausted, EnginesInv'
    PROVE  SteadyStep
<1>1. PICK a, t, force : MovedOn(a, t) /\ MovedSteadily(a, t) /\ UndoAndAlign(a, t, force)
  BY EndsSteadily, Zenon DEF Ending
<1>q. QED
  BY <1>1, AlignedSteadyStep

LEMMA AdmitMoreSteady ==
    ASSUME SimInv, SteadyInv, SimAdmitMore, RejectIfKvFull, EnginesInv'
    PROVE  SteadyStep
<1> DEFINE a == Aligned(now)
           es == [i \in Instances |-> a[i].inst]
<1>1. NothingExtra(a) /\ events' = [i \in Instances |-> NoEvent] /\ now \in Nat
  BY DEF SimAdmitMore, SimInv, EngineTypes
<1>2. PICK quota \in Quotas : engines' = Place(es, quota).engines
  BY DEF SimAdmitMore
<1>3. MovedOn(a, now) /\ MovedSteadily(a, now)
  BY <1>1, AlignedMoved, AlignedSteadily
<1>4. \A i \in Instances : /\ es[i] \in Record
                           /\ Follows(Committed[i], es[i], <<>>, engineVersion)
  BY <1>1, <1>3 DEF MovedOn, NothingExtra
<1>5. \A i \in Instances : Steady(es[i]) /\ Onward(Committed[i], es[i])
  BY <1>3 DEF MovedSteadily
<1>6. es \in [Instances -> Record]
  BY <1>4
<1> HIDE DEF a, es
<1>7. \A i \in Instances : ~events'[i].pending
  BY <1>1 DEF NoEvent
<1>q. QED
  BY <1>2, <1>4, <1>5, <1>6, <1>7, PlacedSteadily

LEMMA SteadyMoves ==
    ASSUME SimInv, SteadyInv, [Next]_vars, RejectIfKvFull
    PROVE  SteadyStep
<1>0. EnginesInv'
  BY SimStep DEF SimInv
<1>1. CASE SimAdmit
  BY <1>0, <1>1, SimAdmitSteady
<1>2. CASE SimTrain
  BY <1>0, <1>2, SimTrainSteady
<1>3. CASE SeedEvents
  <2>1. Pending = {}
    BY <1>3 DEF SeedEvents, SimInv, ControlInv, AtRest
  <2>2. Instances \cap Pending = {} /\ Instances \in SUBSET Instances
        /\ Produce(Produced(Instances)) /\ UNCHANGED loopVars
    BY <1>3, <2>1 DEF SeedEvents
  <2>q. QED
    BY <1>0, <2>2, ProduceSteady
<1>4. CASE ProduceNext
  <2>1. /\ {last} \cap Pending = {} /\ {last} \in SUBSET Instances
        /\ Produce(Produced({last})) /\ UNCHANGED loopVars
    BY <1>4 DEF ProduceNext, Owes, SimInv, EngineTypes
  <2>q. QED
    BY <1>0, <2>1, ProduceSteady
<1>5. CASE CommitEvent
  BY <1>5, CommitSteady
<1>6. CASE SimStopOnBatch \/ SimDeadline \/ SimExhausted
  BY <1>0, <1>6, EndsSteady
<1>7. CASE SimAdmitMore
  BY <1>0, <1>7, AdmitMoreSteady
<1>8. CASE \/ SimCollect \/ SimNoBatch \/ SimGoOn \/ AlignFails
           \/ (Halt /\ UNCHANGED engineVars) \/ UNCHANGED vars
  <2>1. UNCHANGED <<engines, events, snapshots>>
    BY <1>8 DEF SimCollect, SimNoBatch, SimGoOn, AlignFails, engineVars, vars
  <2>q. QED
    BY <2>1, SteadySame
<1>q. QED
  BY <1>1, <1>2, <1>3, <1>4, <1>5, <1>6, <1>7, <1>8 DEF Next

LEMMA SteadyNext ==
    ASSUME SimInv, SteadyInv, [Next]_vars, RejectIfKvFull
    PROVE  SteadyStep /\ SteadyInv'
  BY SteadyMoves DEF SteadyStep, SteadyInv

LEMMA SteadyInit == Init => SteadyInv
<1> SUFFICES ASSUME Init PROVE SteadyInv
  OBVIOUS
<1>1. \A i \in Instances : /\ engines[i] = NewInstance /\ ~events[i].pending
  BY DEF Init, NoEvent
<1>2. \A i \in Instances : Committed[i] = engines[i]
  BY <1>1 DEF Committed, Undone, Pending
<1>3. Steady(NewInstance) /\ Onward(NewInstance, NewInstance)
  BY NewInstanceSteady DEF Onward
<1>q. QED
  BY <1>1, <1>2, <1>3 DEF SteadyInv

\* No instance uses more blocks than it has, and a running request is only
\* sent back by a weight update.
LEMMA ReservedStep ==
    ASSUME SimInv, SteadyInv, [Next]_vars, RejectIfKvFull
    PROVE  \A i \in Instances :
              /\ BlocksUsed(engines'[i]) <= KvBlocks
              /\ version' = version =>
                   ToSet(Committed[i].running) \cap ToSet(Committed[i].waiting)' = {}
<1>1. SteadyStep /\ SimInv'
  BY SteadyNext, SimStep
<1> SUFFICES ASSUME NEW i \in Instances
             PROVE  /\ BlocksUsed(engines'[i]) <= KvBlocks
                    /\ version' = version =>
                         ToSet(Committed[i].running) \cap ToSet(Committed'[i].waiting) = {}
  OBVIOUS
<1> DEFINE e == engines'[i]
           u == Committed[i]
           x == Committed'[i]
<1>2. Well(e)
  <2>1. Stands(e, events'[i], snapshots'[i], engineVersion', x)
    BY <1>1 DEF SimInv, EnginesInv
  <2>q. QED
    BY <2>1 DEF Stands, Follows
<1>3. Well(u) /\ Steady(e) /\ (version' = version => Late(u, x))
  BY <1>1, CommittedTyped DEF SteadyStep
<1> HIDE DEF e, u, x
<1>4. BlocksUsed(e) <= KvBlocks
  BY <1>2, <1>3, HoldingFacts DEF Steady
<1>5. ToSet(u.waiting) \cap ToSet(u.running) = {} /\ ToSet(u.running) \in SUBSET DOMAIN u.req
  BY <1>3, WellFields
<1>6. version' = version => ToSet(u.running) \cap ToSet(x.waiting) = {}
  BY <1>3, <1>5 DEF Late
<1>q. QED
  BY <1>4, <1>6 DEF e, u, x

\* Admission that reserves every block of a request makes preemption
\* unnecessary: in every step of every run the blocks in use fit, and only a
\* weight update sends a running request back to the waiting ones.
THEOREM SimReservationHolds == Spec => ReservationHolds
<1>1. CASE RejectIfKvFull
  <2> DEFINE Inv == SimInv /\ SteadyInv
             Reserves == RejectIfKvFull =>
                           \A i \in Instances :
                             /\ BlocksUsed(engines'[i]) <= KvBlocks
                             /\ version' = version =>
                                  ToSet(Committed[i].running) \cap ToSet(Committed[i].waiting)' = {}
  <2>1. Init => Inv
    BY SimInit, SteadyInit
  <2>2. Inv /\ [Next]_vars => Inv' /\ Reserves
    BY <1>1, SimStep, SteadyNext, ReservedStep
  <2> HIDE DEF Inv
  <2>3. Spec => [][Reserves]_vars
    BY <2>1, <2>2, PTL DEF Spec
  <2>q. QED
    BY <2>3 DEF ReservationHolds
<1>2. CASE ~RejectIfKvFull
  <2>1. [Next]_vars => [RejectIfKvFull =>
                           \A i \in Instances :
                             /\ BlocksUsed(engines'[i]) <= KvBlocks
                             /\ version' = version =>
                                  ToSet(Committed[i].running) \cap ToSet(Committed[i].waiting)' = {}]_vars
    BY <1>2
  <2>2. Spec => ReservationHolds
    BY <2>1, PTL DEF Spec, ReservationHolds
  <2>q. QED
    BY <2>2
<1>q. QED
  BY <1>1, <1>2

-----------------------------------------------------------------------------
(* The clocks of the instances.                                            *)

ClockInv ==
    /\ \A i \in Instances : clock[i] <= now
    /\ \A i \in Instances : events[i].pending => events[i].t >= now
    /\ clock[last] = now
    /\ AtRest => \A i \in Instances : clock[i] = now
    /\ pc \in {"engine", "event"} /\ phase = "train" => now <= deadline

\* Neither a clock nor an event changes.
LEMMA ClockSame ==
    ASSUME ClockInv, UNCHANGED <<clock, events, now, last>>,
           AtRest' => AtRest \/ \A i \in Instances : clock[i] = now,
           (pc \in {"engine", "event"} /\ phase = "train")' => now <= deadline'
    PROVE  ClockInv'
  BY DEF ClockInv

\* All instances stand at the common time and nothing is pending.
LEMMA ClocksAgree ==
    ASSUME EngineTypes', \A i \in Instances : clock'[i] = now' /\ ~events'[i].pending,
           (pc \in {"engine", "event"} /\ phase = "train")' => now' <= deadline'
    PROVE  ClockInv'
<1>1. now' \in Nat /\ last' \in Instances
  BY DEF EngineTypes
<1>q. QED
  BY <1>1 DEF ClockInv

LEMMA SimAdmitClock ==
    ASSUME SimInv, ClockInv, SimAdmit
    PROVE  ClockInv'
<1>1. /\ UNCHANGED <<clock, events, now, last>> /\ AtRest /\ now \in Nat
      /\ pc \in {"top", "retry", "begin"}
      /\ AfterTop \/ (\E n : AfterRetry(n)) \/ AfterBegin
  BY DEF SimAdmit, Admit, AfterEvent, AtRest, SimInv, EngineTypes
<1>2. (pc \in {"engine", "event"} /\ phase = "train")' => now <= deadline'
  <2>1. CASE AfterTop
    BY <2>1 DEF AfterTop
  <2>2. CASE \E n : AfterRetry(n)
    BY <2>2 DEF AfterRetry
  <2>3. CASE AfterBegin
    <3>1. PICK time \in TrainTimes : deadline' = now + time
      BY <2>3 DEF SimAdmit, AfterBegin
    <3>2. time \in Nat
      BY SimulatorAssumption
    <3>q. QED
      BY <1>1, <3>1, <3>2
  <2>q. QED
    BY <1>1, <2>1, <2>2, <2>3
<1>q. QED
  BY <1>1, <1>2, ClockSame

\* The instances of S stand at the common time and produce their next events.
LEMMA ProduceClock ==
    ASSUME SimInv, ClockInv, NEW S \in SUBSET Instances, \A i \in S : clock[i] = now,
           Produce(Produced(S)), UNCHANGED <<loopVars, clock, now, deadline, last>>,
           AtRest' => AtRest
    PROVE  ClockInv'
<1> DEFINE p == Produced(S)
           B == {j \in S : ~Idle(engines[j])}
<1>1. /\ engineVersion \in Nat /\ clock \in [Instances -> Nat] /\ now \in Nat
      /\ \A i \in Instances : Well(engines[i])
  BY CommittedTyped DEF SimInv, LoopTypeOK, EngineTypes
<1>2. events' = [i \in Instances |-> IF i \in DOMAIN p THEN p[i].event ELSE events[i]]
  BY DEF Produce
<1>3. /\ DOMAIN p = B
      /\ \A i \in B :
            LET event == AdvanceOneEvent(PromoteReady(engines[i]), engineVersion)
            IN p[i].event = [done |-> event.done, t |-> clock[i] + event.dt, pending |-> TRUE]
  BY DEF Produced
<1> HIDE DEF p
<1>4. ASSUME NEW i \in B
      PROVE  events'[i].t >= now
  <2> DEFINE e == engines[i]
             event == AdvanceOneEvent(PromoteReady(e), engineVersion)
             d == event.dt
  <2>1. i \in Instances /\ clock[i] = now /\ events'[i].t = clock[i] + d
    <3>1. i \in S /\ i \in Instances /\ clock[i] = now
      OBVIOUS
    <3>2. p[i].event = [done |-> event.done, t |-> clock[i] + event.dt, pending |-> TRUE]
      BY <1>3
    <3>3. events'[i] = p[i].event
      BY <1>2, <1>3, <3>1
    <3> HIDE DEF event
    <3>q. QED
      BY <3>1, <3>2, <3>3
  <2>2. Well(e) /\ ~Idle(e)
    BY <1>1, <2>1
  <2> HIDE DEF e
  <2>3. d \in Nat
    BY <1>1, <2>2, ProducedStands
  <2> HIDE DEF d
  <2>q. QED
    BY <1>1, <2>1, <2>3
<1>5. \A i \in Instances \ B : events'[i] = events[i]
  BY <1>2, <1>3
<1> HIDE DEF B
<1>6. \A i \in Instances : events'[i].pending => events'[i].t >= now
  BY <1>4, <1>5 DEF ClockInv
<1>q. QED
  BY <1>6 DEF ClockInv, loopVars

LEMMA CommitClock ==
    ASSUME SimInv, ClockInv, CommitEvent
    PROVE  ClockInv'
<1> DEFINE i == Earliest
           t == events[i].t
<1>1. /\ EngineTypes /\ Pending # {} /\ ~TooLateFor(i)
      /\ now' = Max({now, t}) /\ clock' = [clock EXCEPT ![i] = t]
      /\ events' = [events EXCEPT ![i] = NoEvent] /\ last' = i
      /\ UNCHANGED <<pc, phase, deadline, seeded>>
      /\ ~AtRest
  BY DEF CommitEvent, AtQueue, SimInv, loopVars, AtRest
<1>2. i \in Pending /\ i \in Instances /\ \A j \in Pending : t <= events[j].t
  BY <1>1, EarliestFacts DEF Pending
<1>3. now \in Nat /\ t \in Nat /\ t >= now
  BY <1>1, <1>2 DEF EngineTypes, EventType, ClockInv, Pending
<1>4. phase = "train" => t <= deadline
  BY <1>1, <1>3 DEF TooLateFor, EngineTypes
<1> HIDE DEF i
<1>5. \A j \in Instances \ {i} : /\ clock'[j] = clock[j] /\ events'[j] = events[j]
                                 /\ events[j].pending => events[j].t >= t
  BY <1>1, <1>2 DEF EngineTypes, Pending
<1>6. clock'[i] = t /\ ~events'[i].pending
  BY <1>1, <1>2 DEF EngineTypes, NoEvent
<1> HIDE DEF t
<1>7. now' = t
  <2>1. now \in Int /\ t \in Int
    BY <1>3
  <2>2. Max({now, t}) \in {now, t} /\ Max({now, t}) >= t
    BY <2>1, MaxOfTwo
  <2>q. QED
    BY <1>1, <1>3, <2>2
<1>8. \A j \in Instances : clock'[j] <= t
  <2>1. \A j \in Instances : clock[j] \in Nat /\ clock[j] <= now
    BY <1>1 DEF EngineTypes, ClockInv
  <2>q. QED
    BY <1>3, <1>5, <1>6, <2>1
<1>9. \A j \in Instances : events'[j].pending => events'[j].t >= t
  BY <1>5, <1>6
<1>10. ~AtRest'
  BY <1>1 DEF AtRest
<1>q. QED
  BY <1>1, <1>4, <1>6, <1>7, <1>8, <1>9, <1>10 DEF ClockInv

\* The engine run ends and all instances stand at the same time.
LEMMA EndingClock ==
    ASSUME SimInv, ClockInv, NEW t \in Nat, NEW force \in BOOLEAN, now <= t,
           Ending(t, force)
    PROVE  now' = t /\ \A i \in Instances : clock'[i] = t /\ ~events'[i].pending
<1>1. PICK a : MovedOn(a, t) /\ MovedSteadily(a, t) /\ UndoAndAlign(a, t, force)
  BY DEF Ending
<1>2. /\ now \in Nat /\ clock \in [Instances -> Nat] /\ \A i \in Instances : clock[i] <= now
  BY DEF SimInv, EngineTypes, ClockInv
<1>3. \A i \in Instances : clock[i] <= t
  BY <1>2
<1>4. /\ clock' = [i \in Instances |-> IF force THEN t ELSE t - a[i].left]
      /\ \A i \in Instances : a[i].left = 0
      /\ now' = Max({now, t})
      /\ \A i \in Instances : ~events'[i].pending
  BY <1>1, <1>3 DEF UndoAndAlign, NothingExtra, MovedSteadily, NoEvent
<1>5. now' = t
  <2>1. now \in Int /\ t \in Int
    BY <1>2
  <2>2. Max({now, t}) \in {now, t} /\ Max({now, t}) >= t
    BY <2>1, MaxOfTwo
  <2>q. QED
    BY <1>2, <1>4, <2>2
<1>6. \A i \in Instances : clock'[i] = t
  BY <1>4
<1>q. QED
  BY <1>4, <1>5, <1>6

LEMMA EndsClock ==
    ASSUME SimInv, SteadyInv, ClockInv, SimStopOnBatch \/ SimDeadline \/ SimExhausted, EngineTypes'
    PROVE  ClockInv'
<1>1. now \in Nat /\ deadline \in Nat
  BY DEF SimInv, EngineTypes
<1>2. CASE SimDeadline
  <2>1. now <= deadline /\ pc' = "top"
    BY <1>2 DEF SimDeadline, AtDeadline, AtQueue, Deadline, ClockInv
  <2>2. Ending(deadline, TRUE)
    BY <1>2, EndsSteadily
  <2>3. now' = deadline /\ \A i \in Instances : clock'[i] = deadline /\ ~events'[i].pending
    BY <1>1, <2>1, <2>2, EndingClock
  <2>q. QED
    BY <2>1, <2>3, ClocksAgree
<1>3. CASE SimStopOnBatch \/ SimExhausted
  <2>1. now <= now
    BY <1>1
  <2>4. pc' = "top"
    <3>1. StopOnBatch \/ GenerateExhausted
      BY <1>3 DEF SimStopOnBatch, SimExhausted
    <3>q. QED
      BY <3>1 DEF StopOnBatch, GenerateExhausted
  <2>2. Ending(now, FALSE)
    BY <1>3, EndsSteadily
  <2>3. now' = now /\ \A i \in Instances : clock'[i] = now /\ ~events'[i].pending
    BY <1>1, <2>1, <2>2, EndingClock
  <2>q. QED
    BY <2>3, <2>4, ClocksAgree
<1>q. QED
  BY <1>2, <1>3

LEMMA AdmitMoreClock ==
    ASSUME SimInv, SteadyInv, ClockInv, SimAdmitMore, EngineTypes'
    PROVE  ClockInv'
<1> DEFINE a == Aligned(now)
<1>1. /\ NothingExtra(a) /\ events' = [i \in Instances |-> NoEvent]
      /\ clock' = [i \in Instances |-> now - a[i].left]
      /\ now \in Nat /\ UNCHANGED <<now, deadline>> /\ pc = "event"
      /\ \A i \in Instances : clock[i] <= now
  BY DEF SimAdmitMore, SimInv, EngineTypes, Collected, ClockInv
<1>2. MovedSteadily(a, now)
  BY <1>1, AlignedSteadily
<1> HIDE DEF a
<1>3. \A i \in Instances : a[i].left = 0
  BY <1>1, <1>2 DEF MovedSteadily, NothingExtra
<1>4. \A i \in Instances : clock'[i] = now' /\ ~events'[i].pending
  BY <1>1, <1>3 DEF NoEvent
<1>5. phase' = phase
  BY <1>1 DEF SimAdmitMore, Admit, AfterTop, AfterRetry, AfterBegin, AfterEvent
<1>6. phase = "train" => now <= deadline
  BY <1>1 DEF ClockInv
<1>q. QED
  BY <1>1, <1>4, <1>5, <1>6, ClocksAgree

LEMMA ClockNext ==
    ASSUME SimInv, SteadyInv, ClockInv, [Next]_vars
    PROVE  ClockInv'
<1>0. EngineTypes'
  BY SimStep DEF SimInv
<1>1. CASE SimAdmit
  BY <1>1, SimAdmitClock
<1>2. CASE SeedEvents
  <2>1. \A i \in Instances : clock[i] = now
    BY <1>2 DEF SeedEvents, AtRest, ClockInv
  <2>2. /\ Instances \in SUBSET Instances /\ Produce(Produced(Instances))
        /\ UNCHANGED <<loopVars, clock, now, deadline, last>> /\ AtRest
    BY <1>2 DEF SeedEvents, AtRest
  <2>q. QED
    BY <2>1, <2>2, ProduceClock
<1>3. CASE ProduceNext
  <2>1. \A i \in {last} : clock[i] = now
    BY DEF ClockInv
  <2>2. /\ {last} \in SUBSET Instances /\ Produce(Produced({last}))
        /\ UNCHANGED <<loopVars, clock, now, deadline, last>>
        /\ AtRest' => AtRest
    BY <1>3 DEF ProduceNext, SimInv, EngineTypes, AtRest, loopVars
  <2>q. QED
    BY <2>1, <2>2, ProduceClock
<1>4. CASE CommitEvent
  BY <1>4, CommitClock
<1>5. CASE SimStopOnBatch \/ SimDeadline \/ SimExhausted
  BY <1>0, <1>5, EndsClock
<1>6. CASE SimAdmitMore
  BY <1>0, <1>6, AdmitMoreClock
<1>7. CASE SimNoBatch
  BY <1>7, ClockSame DEF SimNoBatch, NoBatch, AtRest
<1>8. CASE SimTrain
  BY <1>8, ClockSame DEF SimTrain, TakeBatch, AtRest
<1>9. CASE SimCollect
  BY <1>9, ClockSame DEF SimCollect, Complete, AtRest, ClockInv
<1>10. CASE SimGoOn
  <2>1. /\ pc = "event" /\ AfterEvent /\ UNCHANGED engineVars /\ seeded
    BY <1>10 DEF SimGoOn, Collected, Admit, AfterTop, AfterRetry, AfterBegin, SimInv, ControlInv
  <2>q. QED
    BY <2>1, ClockSame DEF AfterEvent, engineVars, AtRest, ClockInv
<1>11. CASE AlignFails \/ (Halt /\ UNCHANGED engineVars) \/ UNCHANGED vars
  BY <1>11, ClockSame DEF AlignFails, EngineFails, Halt, engineVars, vars, loopVars, AtRest,
     ClockInv
<1>q. QED
  BY <1>1, <1>2, <1>3, <1>4, <1>5, <1>6, <1>7, <1>8, <1>9, <1>10, <1>11 DEF Next

LEMMA ClockInit == Init => ClockInv
<1> SUFFICES ASSUME Init PROVE ClockInv
  OBVIOUS
<1>1. 0 \in Instances
  BY SimulatorAssumption DEF Instances
<1>q. QED
  BY <1>1 DEF Init, LoopInit, ClockInv, NoEvent

\* With reservations the events happen in time order: no commit turns the
\* common clock back, and between engine runs all instances agree on the time.
THEOREM SimTimeOrder == RejectIfKvFull => (Spec => []TimeOrder)
<1> SUFFICES ASSUME RejectIfKvFull PROVE Spec => []TimeOrder
  OBVIOUS
<1> DEFINE Inv == SimInv /\ SteadyInv /\ ClockInv
<1>1. Init => Inv
  BY SimInit, SteadyInit, ClockInit
<1>2. Inv /\ [Next]_vars => Inv'
  BY SimStep, SteadyNext, ClockNext
<1>3. Inv => TimeOrder
  BY DEF ClockInv, TimeOrder, Pending, AtRest
<1> HIDE DEF Inv
<1>q. QED
  BY <1>1, <1>2, <1>3, PTL DEF Spec

-----------------------------------------------------------------------------
(* The weights that generated a request.                                   *)

VersionsIn(S, lo, hi) == \A v \in S : lo <= v /\ v <= hi

\* On instance u every token of request r is from weights between the ones it
\* was admitted under and hi.
InSpan(u, r, hi) ==
    r.rid \in DOMAIN u.req => VersionsIn(VersionsOf(u.req[r.rid]), r.v, hi)

HasCompleted(us, q) == \E i \in Instances : q \in ToSet(us[i].completed)

SpanInv ==
    /\ \A i \in Instances :
          /\ \A r \in inflight \cup ready : InSpan(Committed[i], r, engineVersion)
          /\ \A c \in consumed : InSpan(Committed[i], c.req, c.at)
    /\ \A q \in ToSet(collecting) : HasCompleted(Committed, q)
    /\ \A r \in ready \cup Trained : HasCompleted(Committed, r.rid)

\* What a step of the loop can do to the requests.
SpanStep ==
    /\ engineVersion <= engineVersion'
    /\ \A r \in inflight' \cup ready' : r \in inflight \cup ready \/ r.rid \notin Ids(nextRid)
    /\ \A c \in consumed' : c \in consumed \/ (c.req \in ready /\ c.at = version)
    /\ \A r \in ready' : r \in ready \/ r.rid \in ToSet(collecting)
    /\ \A q \in ToSet(collecting') : q \in ToSet(collecting) \/ HasCompleted(Committed', q)

LEMMA SpanSame ==
    ASSUME SimInv, UNCHANGED <<engineVersion, inflight, ready, consumed, collecting>>
    PROVE  SpanStep
  BY DEF SpanStep, SimInv, LoopTypeOK

LEMMA AdmitSpan ==
    ASSUME SimInv, NEW quota, NEW n, Admit(quota, n), collecting' = collecting
    PROVE  SpanStep
<1>1. /\ UNCHANGED <<engineVersion, ready, consumed>> /\ inflight' = inflight \cup NewRequests(n)
      /\ nextRid \in Nat /\ engineVersion \in Nat
  BY DEF Admit, SimInv, LoopTypeOK
<1>2. ASSUME NEW r \in NewRequests(n) PROVE r.rid \notin Ids(nextRid)
  <2>1. PICK k \in 0..(n - 1) : r = [rid |-> nextRid + k, v |-> engineVersion]
    BY DEF NewRequests
  <2>2. r.rid = nextRid + k /\ k \in Int /\ k >= 0
    BY <2>1
  <2>q. QED
    BY <1>1, <2>2 DEF Ids
<1>q. QED
  BY <1>1, <1>2 DEF SpanStep

LEMMA SpanNext ==
    ASSUME SimInv, SteadyInv, [Next]_vars
    PROVE  SpanStep
<1>1. CASE SimAdmit
  <2>1. PICK quota, n : Admit(quota, n)
    BY <1>1 DEF SimAdmit
  <2>2. collecting' = collecting
    BY <1>1 DEF SimAdmit
  <2>q. QED
    BY <2>1, <2>2, AdmitSpan
<1>2. CASE SimAdmitMore
  <2>1. PICK quota, n : Admit(quota, n)
    BY <1>2 DEF SimAdmitMore
  <2>2. collecting' = collecting
    BY <1>2 DEF SimAdmitMore
  <2>q. QED
    BY <2>1, <2>2, AdmitSpan
<1>3. CASE SimGoOn
  BY <1>3, AdmitSpan DEF SimGoOn, engineVars
<1>4. CASE SimTrain
  <2>1. PICK batch \in kSubset(BatchSize, ready), newEngine \in {engineVersion, version + 1},
             expired \in SUBSET inflight : TakeBatch(batch, newEngine, expired, TRUE)
    BY <1>4 DEF SimTrain
  <2>2. batch \subseteq ready /\ collecting' = collecting
    BY <1>4 DEF SimTrain, kSubset
  <2>3. /\ inflight' \subseteq inflight /\ ready' \subseteq ready
        /\ consumed' = consumed \cup Stamped(batch) /\ engineVersion' = newEngine
    BY <2>1 DEF TakeBatch, ReadyAfter
  <2>4. engineVersion <= newEngine
    <3>1. version \in Nat /\ engineVersion \in Int /\ engineVersion <= version
      BY DEF SimInv, LoopTypeOK
    <3>2. newEngine = engineVersion \/ newEngine = version + 1
      BY <2>1
    <3>q. QED
      BY <3>1, <3>2
  <2>5. \A c \in Stamped(batch) : c.req \in ready /\ c.at = version
    BY <2>2 DEF Stamped
  <2>q. QED
    BY <2>2, <2>3, <2>4, <2>5 DEF SpanStep
<1>5. CASE SimCollect
  <2>1. PICK r \in inflight : r.rid = Head(collecting) /\ Complete(r, TRUE)
    BY <1>5 DEF SimCollect
  <2>2. /\ collecting # <<>> /\ collecting \in Seq(Nat) /\ collecting' = Tail(collecting)
        /\ engineVersion \in Int
    BY <1>5 DEF SimCollect, SimInv, EngineTypes, LoopTypeOK
  <2>3. /\ inflight' \subseteq inflight /\ ready' = ready \cup {r}
        /\ UNCHANGED <<consumed, engineVersion>>
    BY <2>1 DEF Complete
  <2>4. Head(collecting) \in ToSet(collecting) /\ ToSet(Tail(collecting)) \subseteq ToSet(collecting)
    BY <2>2 DEF ToSet
  <2>q. QED
    BY <2>1, <2>2, <2>3, <2>4 DEF SpanStep
<1>6. CASE CommitEvent
  <2>1. /\ Committed'[Earliest] = engines[Earliest] /\ Earliest \in Instances
        /\ ToSet(collecting') \subseteq ToSet(engines[Earliest].completed)
    BY <1>6, CommitSteady
  <2>2. UNCHANGED <<engineVersion, inflight, ready, consumed>> /\ engineVersion \in Int
    BY <1>6 DEF CommitEvent, loopVars, SimInv, LoopTypeOK
  <2>3. \A q \in ToSet(collecting') : HasCompleted(Committed', q)
    BY <2>1 DEF HasCompleted
  <2>q. QED
    BY <2>2, <2>3 DEF SpanStep
<1>7. CASE SeedEvents \/ ProduceNext
  BY <1>7, SpanSame DEF SeedEvents, ProduceNext, loopVars
<1>8. CASE SimStopOnBatch \/ SimDeadline \/ SimExhausted
  BY <1>8, SpanSame DEF SimStopOnBatch, StopOnBatch, SimDeadline, Deadline, SimExhausted,
     GenerateExhausted
<1>9. CASE SimNoBatch \/ AlignFails \/ (Halt /\ UNCHANGED engineVars) \/ UNCHANGED vars
  BY <1>9, SpanSame DEF SimNoBatch, NoBatch, AlignFails, EngineFails, Halt, engineVars, vars,
     loopVars
<1>q. QED
  BY <1>1, <1>2, <1>3, <1>4, <1>5, <1>6, <1>7, <1>8, <1>9 DEF Next

\* A request that is ready or trained on is on no instance any more.
LEMMA NotHeld ==
    ASSUME SimInv, NEW r \in ready \cup Trained, NEW i \in Instances
    PROVE  r.rid \notin Active(Committed[i])
<1>1. HeldBy(Committed, InflightRids, collecting) /\ OneFate /\ AllAccounted
  BY DEF SimInv, EnginesInv, LoopInv
<1>2. r \notin inflight /\ r \in Admitted /\ inflight \subseteq Admitted
  BY <1>1 DEF OneFate, Admitted
<1>3. r.rid \notin InflightRids
  BY <1>1, <1>2 DEF AllAccounted, InflightRids
<1>q. QED
  BY <1>1, <1>3 DEF HeldBy

\* A request that is held no more keeps its span; one that is may add the
\* weights the engines serve.
LEMMA TurnedSpan ==
    ASSUME NEW u, NEW x, NEW v \in Nat, Turned(u, x, v), NEW r, NEW hi \in Nat,
           InSpan(u, r, hi), r.rid \notin Active(u) \/ (r.v <= v /\ v <= hi)
    PROVE  InSpan(x, r, hi)
<1> DEFINE q == r.rid
<1> SUFFICES ASSUME q \in DOMAIN x.req, NEW w \in VersionsOf(x.req[q])
             PROVE  r.v <= w /\ w <= hi
  BY DEF InSpan, VersionsIn
<1>1. q \in DOMAIN u.req
  BY DEF Turned
<1>2. \A y \in VersionsOf(u.req[q]) : r.v <= y /\ y <= hi
  BY <1>1 DEF InSpan, VersionsIn
<1>3. CASE q \notin Active(u)
  BY <1>1, <1>2, <1>3 DEF Turned
<1>4. CASE r.v <= v /\ v <= hi
  BY <1>1, <1>2, <1>4 DEF Turned
<1>q. QED
  BY <1>3, <1>4

LEMMA NewSpan ==
    ASSUME NEW u, NEW x, NEW v, Turned(u, x, v), NEW r, NEW hi, r.rid \notin DOMAIN u.req
    PROVE  InSpan(x, r, hi)
<1>1. r.rid \in DOMAIN x.req => VersionsOf(x.req[r.rid]) = {}
  BY DEF Turned
<1>q. QED
  BY <1>1 DEF InSpan, VersionsIn

LEMMA WiderSpan ==
    ASSUME NEW u, NEW r, NEW lo \in Nat, NEW hi \in Nat, lo <= hi, Well(u), InSpan(u, r, lo)
    PROVE  InSpan(u, r, hi)
<1> SUFFICES ASSUME r.rid \in DOMAIN u.req, NEW w \in VersionsOf(u.req[r.rid])
             PROVE  r.v <= w /\ w <= hi
  BY DEF InSpan, VersionsIn
<1>1. w <= lo /\ r.v <= w
  BY DEF InSpan, VersionsIn
<1>2. u.req[r.rid].segments \in Seq(Segment)
  BY ReqTyped
<1>3. w \in Nat
  <2> DEFINE list == u.req[r.rid].segments
  <2>1. ToSet(list) \in SUBSET Segment
    BY <1>2, ListFacts
  <2>2. \E s \in ToSet(list) : w = s.version
    BY DEF VersionsOf
  <2> HIDE DEF list
  <2>q. QED
    BY <2>1, <2>2 DEF Segment
<1>q. QED
  BY <1>1, <1>3

LEMMA SpanStays ==
    ASSUME SimInv, BatchInv, SpanInv, SteadyStep, SpanStep, SimInv'
    PROVE  SpanInv'
<1>1. /\ engineVersion \in Nat /\ version \in Nat /\ engineVersion <= version
      /\ engineVersion' \in Nat /\ engineVersion <= engineVersion'
  BY DEF SimInv, LoopTypeOK, SpanStep
<1>2. \A i \in Instances : /\ Turned(Committed[i], Committed'[i], engineVersion)
                           /\ DOMAIN Committed[i].req \subseteq Ids(nextRid)
  BY CommittedTyped DEF SteadyStep, SimInv, EnginesInv
<1>3. \A i \in Instances : Well(Committed'[i])
  BY DEF SimInv, EnginesInv, Stands
<1>4. ASSUME NEW r \in inflight' \cup ready', NEW i \in Instances
      PROVE  InSpan(Committed'[i], r, engineVersion')
  <2> DEFINE u == Committed[i]
             x == Committed'[i]
  <2>1. Turned(u, x, engineVersion) /\ Well(x)
    BY <1>2, <1>3
  <2>2. CASE r \in inflight \cup ready
    <3>1. InSpan(u, r, engineVersion)
      BY <2>2 DEF SpanInv
    <3>2. r.v <= engineVersion /\ engineVersion <= engineVersion
      BY <1>1, <2>2 DEF BatchInv, BatchesAccounted, VersionsOrdered, Admitted
    <3> HIDE DEF u, x
    <3>3. InSpan(x, r, engineVersion)
      BY <1>1, <2>1, <3>1, <3>2, TurnedSpan
    <3>4. InSpan(x, r, engineVersion')
      BY <1>1, <2>1, <3>3, WiderSpan
    <3>q. QED
      BY <3>4 DEF x
  <2>3. CASE r.rid \notin Ids(nextRid)
    <3>1. r.rid \notin DOMAIN u.req
      BY <1>2, <2>3
    <3> HIDE DEF u, x
    <3>2. InSpan(x, r, engineVersion')
      BY <2>1, <3>1, NewSpan
    <3>q. QED
      BY <3>2 DEF x
  <2>q. QED
    BY <2>2, <2>3 DEF SpanStep
<1>5. ASSUME NEW c \in consumed', NEW i \in Instances
      PROVE  InSpan(Committed'[i], c.req, c.at)
  <2> DEFINE u == Committed[i]
             x == Committed'[i]
             r == c.req
             at == c.at
  <2>1. Turned(u, x, engineVersion) /\ Well(u)
    BY <1>2, CommittedTyped
  <2>2. r \in ready \cup Trained /\ at \in Nat
    BY <1>1 DEF SpanStep, Trained, SimInv, LoopTypeOK
  <2>3. InSpan(u, r, at)
    <3>1. CASE c \in consumed
      BY <3>1 DEF SpanInv
    <3>2. CASE r \in ready /\ at = version
      <4>1. InSpan(u, r, engineVersion)
        BY <3>2 DEF SpanInv
      <4> HIDE DEF u, r
      <4>2. InSpan(u, r, version)
        BY <1>1, <2>1, <4>1, WiderSpan
      <4>q. QED
        BY <3>2, <4>2
    <3>q. QED
      BY <3>1, <3>2 DEF SpanStep
  <2>4. r.rid \notin Active(u)
    BY <2>2, NotHeld
  <2> HIDE DEF u, x, r, at
  <2>5. InSpan(x, r, at)
    BY <1>1, <2>1, <2>2, <2>3, <2>4, TurnedSpan
  <2>q. QED
    BY <2>5 DEF x, r, at
<1>6. ASSUME NEW q, HasCompleted(Committed, q) PROVE HasCompleted(Committed', q)
  <2>1. PICK i \in Instances : q \in ToSet(Committed[i].completed)
    BY <1>6 DEF HasCompleted
  <2>2. q \in ToSet(Committed'[i].completed)
    BY <1>2, <2>1 DEF Turned
  <2>q. QED
    BY <2>2 DEF HasCompleted
<1>7. \A q \in ToSet(collecting') : HasCompleted(Committed', q)
  BY <1>6 DEF SpanStep, SpanInv
<1>8. \A r \in ready' \cup Trained' : HasCompleted(Committed', r.rid)
  <2>1. \A r \in ready' \cup Trained' : r \in ready \cup Trained \/ r.rid \in ToSet(collecting)
    BY DEF SpanStep, Trained
  <2>q. QED
    BY <1>6, <2>1 DEF SpanInv
<1>q. QED
  BY <1>4, <1>5, <1>7, <1>8 DEF SpanInv

LEMMA SpanInit == Init => SpanInv
  BY DEF Init, LoopInit, SpanInv, Trained, ToSet

\* What an instance has completed is on it as it was committed.
LEMMA CompletedStands ==
    ASSUME NEW e, NEW ev, NEW s, NEW v, NEW u, Stands(e, ev, s, v, u),
           NEW q \in ToSet(u.completed)
    PROVE  q \in ToSet(e.completed) /\ e.req[q] = u.req[q] /\ q \in DOMAIN u.req
<1>1. Well(u)
  BY DEF Stands
<1>2. q \in DOMAIN u.req /\ q \notin Active(u)
  BY <1>1, WellFields
<1>3. CASE ev.pending
  <2>1. Follows(u, e, ev.done, v)
    BY <1>3 DEF Stands
  <2>2. Turned(u, e, v)
    BY <1>1, <2>1, FollowsTurned
  <2>q. QED
    BY <1>2, <2>2 DEF Turned
<1>4. CASE ~ev.pending
  BY <1>2, <1>4 DEF Stands
<1>q. QED
  BY <1>3, <1>4

LEMMA MeasuredNow ==
    ASSUME SimInv, SteadyInv, SpanInv
    PROVE  TrainedAsMeasured
<1> SUFFICES ASSUME NEW c \in consumed
             PROVE  \E i \in Instances :
                      /\ c.req.rid \in ToSet(engines[i].completed)
                      /\ engines[i].req[c.req.rid].generated = TargetLen(c.req.rid)
                      /\ \A seg \in ToSet(engines[i].req[c.req.rid].segments) :
                           seg.version \in c.req.v..c.at
  BY DEF TrainedAsMeasured
<1> DEFINE q == c.req.rid
           lo == c.req.v
           hi == c.at
<1>1. c.req \in Trained /\ lo \in Nat /\ hi \in Nat
  BY DEF Trained, SimInv, LoopTypeOK, Request
<1>2. PICK i \in Instances : q \in ToSet(Committed[i].completed)
  BY <1>1 DEF SpanInv, HasCompleted
<1> DEFINE u == Committed[i]
           e == engines[i]
<1>3. /\ Stands(e, events[i], snapshots[i], engineVersion, u)
      /\ Well(u) /\ Exact(u) /\ InSpan(u, c.req, hi)
  BY CommittedTyped DEF SimInv, EnginesInv, SteadyInv, Steady, SpanInv
<1>4. q \in ToSet(u.completed)
  BY <1>2
<1>s. /\ InSpan(u, c.req, hi) <=> (q \in DOMAIN u.req => VersionsIn(VersionsOf(u.req[q]), lo, hi))
      /\ e = engines[i]
  BY DEF InSpan
<1> HIDE DEF u, e, q, lo, hi
<1>5. q \in ToSet(e.completed) /\ e.req[q] = u.req[q] /\ q \in DOMAIN u.req
  BY <1>3, <1>4, CompletedStands
<1>6. u.req[q].generated = TargetLen(q)
  <2>1. Remaining(u, q) = 0
    BY <1>3, <1>4 DEF Exact
  <2>2. /\ u.req[q].generated \in Nat /\ TargetLen(q) \in Nat
        /\ Remaining(u, q) = TargetLen(q) - u.req[q].generated
    BY <1>3, <1>5, NumbersOf
  <2>q. QED
    BY <2>1, <2>2
<1>7. \A seg \in ToSet(u.req[q].segments) : seg.version \in lo..hi
  <2> SUFFICES ASSUME NEW seg \in ToSet(u.req[q].segments) PROVE seg.version \in lo..hi
    OBVIOUS
  <2>1. seg.version \in VersionsOf(u.req[q])
    BY DEF VersionsOf
  <2>2. lo <= seg.version /\ seg.version <= hi
    BY <1>3, <1>5, <1>s, <2>1 DEF VersionsIn
  <2>3. seg.version \in Nat
    <3> DEFINE list == u.req[q].segments
    <3>1. list \in Seq(Segment)
      BY <1>3, <1>5, ReqTyped
    <3>2. ToSet(list) \in SUBSET Segment
      BY <3>1, ListFacts
    <3>q. QED
      BY <3>2 DEF Segment
  <2>q. QED
    BY <1>1, <2>2, <2>3
<1>8. q \in ToSet(e.completed) /\ e.req[q].generated = TargetLen(q)
      /\ \A seg \in ToSet(e.req[q].segments) : seg.version \in lo..hi
  BY <1>5, <1>6, <1>7
<1>q. QED
  BY <1>8 DEF e, q, lo, hi

\* With reservations every request trained on is complete, and every token of
\* it was generated by weights between the version it was admitted under and
\* the one that consumes it.
THEOREM SimTrainedAsMeasured == RejectIfKvFull => (Spec => []TrainedAsMeasured)
<1> SUFFICES ASSUME RejectIfKvFull PROVE Spec => []TrainedAsMeasured
  OBVIOUS
<1> DEFINE Inv == SimInv /\ SteadyInv /\ BatchInv /\ SpanInv
<1>1. Init => Inv
  BY SimInit, SteadyInit, BatchInit, SpanInit DEF Init
<1>2. Inv /\ [Next]_vars => Inv'
  <2> SUFFICES ASSUME Inv, [Next]_vars PROVE Inv'
    OBVIOUS
  <2>1. SimInv' /\ SteadyStep /\ SteadyInv' /\ SpanStep
    BY SimStep, SteadyNext, SpanNext
  <2>2. BatchInv'
    <3>1. [LoopNext]_loopVars
      BY SimStepsLoop DEF SimInv
    <3>q. QED
      BY <3>1, BatchStep DEF SimInv
  <2>3. SpanInv'
    BY <2>1, SpanStays
  <2>q. QED
    BY <2>1, <2>2, <2>3
<1>3. Inv => TrainedAsMeasured
  BY MeasuredNow
<1> HIDE DEF Inv
<1>q. QED
  BY <1>1, <1>2, <1>3, PTL DEF Spec

-----------------------------------------------------------------------------
(* What is in the step and occupancy streams.                              *)

\* The entries of a are the first ones of b.
Logs(a, b) == Len(a.stats) <= Len(b.stats) /\ \A k \in 1..Len(a.stats) : b.stats[k] = a.stats[k]

LEMMA EntriesStay ==
    ASSUME NEW a \in Seq(Nat), NEW b \in Seq(Nat), Len(a) <= Len(b),
           \A k \in 1..Len(a) : b[k] = a[k], NEW m \in Nat, m <= Len(a)
    PROVE  SubSeq(b, 1, m) = SubSeq(a, 1, m) /\ m <= Len(b)
<1> DEFINE c == SubSeq(a, 1, m)
<1>1. c \in Seq(Nat) /\ Len(c) = m /\ \A k \in 1..m : c[k] = a[k]
  BY PrefixFacts
<1>2. m <= Len(b) /\ \A k \in 1..m : k \in 1..Len(a)
  OBVIOUS
<1> HIDE DEF c
<1>3. \A k \in 1..Len(c) : b[k] = c[k]
  BY <1>1, <1>2
<1>4. SubSeq(b, 1, Len(c)) = c
  BY <1>1, <1>2, <1>3, FrontRestored
<1>q. QED
  BY <1>1, <1>2, <1>4 DEF c

\* Writing the entries behind the cursor accounts for all of them.
LEMMA EntriesFlushed ==
    ASSUME NEW a \in Seq(Nat), NEW b \in Seq(Nat), Len(a) <= Len(b),
           \A k \in 1..Len(a) : b[k] = a[k], NEW m \in Nat, m <= Len(a)
    PROVE  SumOf(SubSeq(a, 1, m)) + SumOf(SubSeq(b, m + 1, Len(b))) = SumOf(SubSeq(b, 1, Len(b)))
<1>1. SubSeq(b, 1, m) = SubSeq(a, 1, m) /\ m <= Len(b)
  BY EntriesStay
<1>2. SumOf(SubSeq(b, 1, m)) + SumOf(SubSeq(b, m + 1, Len(b))) = SumOf(b)
  BY <1>1, SumOfTwoParts
<1>3. SubSeq(b, 1, Len(b)) = b
  BY FrontRestored
<1>q. QED
  BY <1>1, <1>2, <1>3

\* The cursor stays within the committed entries.
EntriesInv ==
    \A i \in Instances :
       /\ cursor[i] \in Nat /\ cursor[i] <= Len(Committed[i].stats)
       /\ written[i] = SumOf(SubSeq(Committed[i].stats, 1, cursor[i]))

\* Between two engine runs everything is written.
Synced ==
    Between => \A i \in Instances : /\ cursor[i] = Len(engines[i].stats)
                                    /\ sample[i] = Occupancy(engines[i], clock[i])

StreamInv == EntriesInv /\ Synced

\* The entries that are committed stay committed.
LEMMA CommittedEntries ==
    ASSUME SimInv, EnginesStep, NEW i \in Instances
    PROVE  /\ Committed[i].stats \in Seq(Nat) /\ Committed'[i].stats \in Seq(Nat)
           /\ Logs(Committed[i], Committed'[i])
<1>1. Well(Committed[i])
  BY CommittedTyped
<1>2. Well(Committed'[i])
  BY DEF EnginesStep, EnginesInv, Stands
<1>3. Later(Committed[i], Committed'[i])
  BY DEF EnginesStep
<1> DEFINE a == Committed[i]
           b == Committed'[i]
<1> HIDE DEF a, b
<1>4. a.stats \in Seq(Nat) /\ b.stats \in Seq(Nat)
  <2>1. Well(a) /\ Well(b)
    BY <1>1, <1>2 DEF a, b
  <2>2. a.stats \in Seq(Nat)
    BY <2>1, WellFields
  <2>3. b.stats \in Seq(Nat)
    BY <2>1, WellFields
  <2>q. QED
    BY <2>2, <2>3
<1>q. QED
  BY <1>3, <1>4 DEF Later, Logs, a, b

LEMMA EntriesIdle ==
    ASSUME SimInv, EntriesInv, EnginesStep, UNCHANGED <<cursor, written>>
    PROVE  EntriesInv'
<1> SUFFICES ASSUME NEW i \in Instances
             PROVE  /\ cursor'[i] \in Nat /\ cursor'[i] <= Len(Committed'[i].stats)
                    /\ written'[i] = SumOf(SubSeq(Committed'[i].stats, 1, cursor'[i]))
  BY DEF EntriesInv
<1> DEFINE a == Committed[i].stats
           b == Committed'[i].stats
           m == cursor[i]
<1>1. /\ a \in Seq(Nat) /\ b \in Seq(Nat) /\ Len(a) <= Len(b)
      /\ \A k \in 1..Len(a) : b[k] = a[k]
  BY CommittedEntries DEF Logs
<1>2. m \in Nat /\ m <= Len(a) /\ written[i] = SumOf(SubSeq(a, 1, m))
  BY DEF EntriesInv
<1>3. cursor'[i] = m /\ written'[i] = written[i]
  OBVIOUS
<1> HIDE DEF a, b, m
<1>4. SubSeq(b, 1, m) = SubSeq(a, 1, m) /\ m <= Len(b)
  BY <1>1, <1>2, EntriesStay
<1>q. QED
  BY <1>2, <1>3, <1>4 DEF b

\* The instances of S are written, in states between the committed ones.
LEMMA EntriesSynced ==
    ASSUME SimInv, EntriesInv, EnginesStep, NEW S \in SUBSET Instances, NEW es, Flush(S, es),
           \A i \in S : /\ es[i].stats \in Seq(Nat)
                        /\ Logs(Committed[i], es[i]) /\ Logs(es[i], Committed'[i])
    PROVE  EntriesInv' /\ \A i \in S : cursor'[i] = Len(es[i].stats)
<1>0. \A i \in S : cursor'[i] = Len(es[i].stats)
  BY DEF Flush
<1> SUFFICES ASSUME NEW i \in Instances
             PROVE  /\ cursor'[i] \in Nat /\ cursor'[i] <= Len(Committed'[i].stats)
                    /\ written'[i] = SumOf(SubSeq(Committed'[i].stats, 1, cursor'[i]))
  BY <1>0 DEF EntriesInv
<1> DEFINE a == Committed[i].stats
           b == Committed'[i].stats
           c == es[i].stats
           m == cursor[i]
<1>1. /\ a \in Seq(Nat) /\ b \in Seq(Nat) /\ Len(a) <= Len(b)
      /\ \A k \in 1..Len(a) : b[k] = a[k]
  BY CommittedEntries DEF Logs
<1>2. m \in Nat /\ m <= Len(a) /\ written[i] = SumOf(SubSeq(a, 1, m))
  BY DEF EntriesInv
<1>3. ASSUME i \notin S
      PROVE  /\ cursor'[i] \in Nat /\ cursor'[i] <= Len(b)
             /\ written'[i] = SumOf(SubSeq(b, 1, cursor'[i]))
  <2>1. cursor'[i] = m /\ written'[i] = written[i]
    BY <1>3 DEF Flush
  <2> HIDE DEF a, b, m
  <2>2. SubSeq(b, 1, m) = SubSeq(a, 1, m) /\ m <= Len(b)
    BY <1>1, <1>2, EntriesStay
  <2>q. QED
    BY <1>2, <2>1, <2>2
<1>4. ASSUME i \in S
      PROVE  /\ cursor'[i] \in Nat /\ cursor'[i] <= Len(b)
             /\ written'[i] = SumOf(SubSeq(b, 1, cursor'[i]))
  <2>1. /\ cursor'[i] = Len(c)
        /\ written'[i] = written[i] + SumOf(SubSeq(c, m + 1, Len(c)))
    BY <1>4 DEF Flush
  <2>2. /\ c \in Seq(Nat) /\ Len(a) <= Len(c) /\ Len(c) <= Len(b)
        /\ \A k \in 1..Len(a) : c[k] = a[k]
        /\ \A k \in 1..Len(c) : b[k] = c[k]
    BY <1>4 DEF Logs
  <2> HIDE DEF a, b, c, m
  <2>3. SumOf(SubSeq(a, 1, m)) + SumOf(SubSeq(c, m + 1, Len(c))) = SumOf(SubSeq(c, 1, Len(c)))
    BY <1>1, <1>2, <2>2, EntriesFlushed
  <2>4. SubSeq(b, 1, Len(c)) = SubSeq(c, 1, Len(c)) /\ Len(c) \in Nat
    <3>1. Len(c) \in Nat /\ Len(c) <= Len(c)
      BY <2>2
    <3>q. QED
      BY <1>1, <2>2, <3>1, EntriesStay
  <2>q. QED
    BY <1>2, <2>1, <2>2, <2>3, <2>4
<1>q. QED
  BY <1>3, <1>4 DEF b

\* An instance without a pending event is written as it stands.
LEMMA EntriesWritten ==
    ASSUME SimInv, EntriesInv, EnginesStep, NEW S \in SUBSET Instances, Flush(S, engines'),
           \A i \in S : ~events'[i].pending
    PROVE  EntriesInv' /\ \A i \in S : cursor'[i] = Len(engines'[i].stats)
<1>1. \A i \in S : engines'[i] = Committed'[i]
  BY DEF EnginesStep, EnginesInv, Stands
<1>2. \A i \in S : /\ engines'[i].stats \in Seq(Nat)
                   /\ Logs(Committed[i], engines'[i]) /\ Logs(engines'[i], Committed'[i])
  <2> SUFFICES ASSUME NEW i \in S
               PROVE  /\ engines'[i].stats \in Seq(Nat)
                      /\ Logs(Committed[i], engines'[i]) /\ Logs(engines'[i], Committed'[i])
    OBVIOUS
  <2> DEFINE a == Committed[i]
             b == Committed'[i]
             e == engines'[i]
  <2>1. a.stats \in Seq(Nat) /\ b.stats \in Seq(Nat) /\ Logs(a, b) /\ e = b
    BY <1>1, CommittedEntries
  <2> HIDE DEF a, b, e
  <2>2. Logs(b, b)
    BY <2>1 DEF Logs
  <2>q. QED
    BY <2>1, <2>2 DEF a, b, e
<1> DEFINE es == engines'
<1>3. Flush(S, es) /\ \A i \in S : /\ es[i].stats \in Seq(Nat)
                                   /\ Logs(Committed[i], es[i]) /\ Logs(es[i], Committed'[i])
  BY <1>2
<1> HIDE DEF es
<1>4. EntriesInv' /\ \A i \in S : cursor'[i] = Len(es[i].stats)
  BY <1>3, EntriesSynced
<1>q. QED
  BY <1>4 DEF es

\* The engines stop with everything written.
LEMMA AllWritten ==
    ASSUME SimInv, EntriesInv, EnginesStep, Sync(Instances, engines', clock'),
           \A i \in Instances : ~events'[i].pending
    PROVE  EntriesInv' /\ Synced'
<1>1. Instances \in SUBSET Instances /\ Flush(Instances, engines')
  BY DEF Sync
<1>2. EntriesInv' /\ \A i \in Instances : cursor'[i] = Len(engines'[i].stats)
  BY <1>1, EntriesWritten
<1>3. \A i \in Instances : sample'[i] = Occupancy(engines'[i], clock'[i])
  BY DEF Sync, Emit
<1>4. \A i \in Instances : Occupancy(engines[i], clock[i])' = Occupancy(engines'[i], clock'[i])
  BY DEF Occupancy, Progress
<1>q. QED
  BY <1>2, <1>3, <1>4 DEF Synced

\* Nothing is written while the loop rests and the instances keep still.
LEMMA StillSynced ==
    ASSUME Synced, Between, UNCHANGED <<sample, cursor>>, UNCHANGED <<engines, clock>>
    PROVE  Synced'
<1>1. \A i \in Instances : Occupancy(engines[i], clock[i])' = Occupancy(engines[i], clock[i])
  BY DEF Occupancy, Progress
<1>q. QED
  BY <1>1 DEF Synced

\* Samples are taken where no step was added.
LEMMA SampledSynced ==
    ASSUME Synced, Between, cursor' = cursor, Emit(Instances, engines', clock'),
           \A i \in Instances : engines'[i].stats = engines[i].stats
    PROVE  Synced'
<1>1. \A i \in Instances : cursor'[i] = Len(engines'[i].stats)
  BY DEF Synced
<1>2. \A i \in Instances : sample'[i] = Occupancy(engines'[i], clock'[i])
  BY DEF Emit
<1>3. \A i \in Instances : Occupancy(engines[i], clock[i])' = Occupancy(engines'[i], clock'[i])
  BY DEF Occupancy, Progress
<1>q. QED
  BY <1>1, <1>2, <1>3 DEF Synced

LEMMA AdmitStream ==
    ASSUME SimInv, SteadyInv, StreamInv, EnginesStep, RejectIfKvFull, LogAdmit
    PROVE  EntriesInv' /\ Synced'
<1>1. EntriesInv'
  BY EntriesIdle DEF StreamInv, LogAdmit, EmitAdmitted, KeepInstances
<1>2. PICK quota \in Quotas : /\ Admit(quota, Place(engines, quota).n)
                              /\ engines' = Place(engines, quota).engines
  BY DEF LogAdmit, SimAdmit
<1> DEFINE n == Place(engines, quota).n
           new == Place(engines, quota).engines
<1>3. /\ pc \in {"top", "retry", "begin"} /\ clock' = clock /\ Between /\ Synced
      /\ engines \in [Instances -> Record] /\ Pending = {} /\ quota \in Int /\ nextRid \in Nat
      /\ nextRid' = nextRid + n
  BY <1>2 DEF LogAdmit, SimAdmit, Between, StreamInv, SimInv, EngineTypes, ControlInv, AtRest,
     Quotas, Admit, LoopTypeOK
<1>4. /\ \A i \in Instances : Well(engines[i]) /\ DOMAIN engines[i].req \subseteq Ids(nextRid)
      /\ \A i, j \in Instances : i # j => Active(engines[i]) \cap Active(engines[j]) = {}
      /\ \A i \in Instances : Steady(engines[i])
  <2>1. Committed = engines
    BY <1>3, NothingPending
  <2>2. HeldBy(engines, InflightRids, collecting)
    BY <2>1 DEF SimInv, EnginesInv
  <2>q. QED
    BY <1>3, <2>2, NothingPending DEF SimInv, EnginesInv, HeldBy, SteadyInv
<1>5. Place(engines, quota) \in PlaceStates(engines)
  BY <1>3, <1>4, PlaceFacts
<1>6. n = 0 => new = engines
  BY <1>3, <1>4, PlaceSteady
<1>7. n \in Nat /\ \A i \in Instances : new[i].stats = engines[i].stats
  BY <1>5 DEF PlaceStates, PlaceState, Placed
<1>8. engines' = new
  BY <1>2
<1> HIDE DEF n, new
<1>9. CASE n = 0
  <2>1. engines' = engines /\ ~(nextRid' > nextRid)
    BY <1>3, <1>6, <1>8, <1>9
  <2>2. UNCHANGED <<sample, cursor>>
    BY <2>1 DEF LogAdmit, EmitAdmitted, KeepInstances
  <2>q. QED
    BY <1>1, <1>3, <2>1, <2>2, StillSynced
<1>10. CASE n # 0
  <2>1. nextRid' > nextRid
    BY <1>3, <1>7, <1>10
  <2>2. cursor' = cursor /\ Emit(Instances, engines', clock')
    BY <2>1 DEF LogAdmit, EmitAdmitted
  <2>q. QED
    BY <1>1, <1>3, <1>7, <1>8, <2>2, SampledSynced
<1>q. QED
  BY <1>9, <1>10

\* Discarding nothing changes nothing.
LEMMA CancelNothing ==
    ASSUME NEW i, Well(i)
    PROVE  Cancel(i, {}) = i
<1> DEFINE w == Without(i.waiting, {})
           q == Without(i.running, {})
           f == [r \in DOMAIN i.req |-> IF r \in {} \cap Active(i)
                                          THEN [i.req[r] EXCEPT !.prefilled = 0] ELSE i.req[r]]
<1>1. /\ i = [waiting |-> i.waiting, running |-> i.running, completed |-> i.completed,
              req |-> i.req, stats |-> i.stats]
      /\ i.waiting \in Seq(Nat) /\ i.running \in Seq(Nat)
  BY WellFields
<1>2. w = i.waiting /\ q = i.running
  BY <1>1, WithoutFacts
<1>3. f = i.req
  <2>1. i.req = [r \in DOMAIN i.req |-> i.req[r]]
    BY ReqTyped
  <2>2. f = [r \in DOMAIN i.req |-> i.req[r]]
    OBVIOUS
  <2>q. QED
    BY <2>1, <2>2
<1>4. Cancel(i, {}) = [i EXCEPT !.waiting = w, !.running = q, !.req = f]
  BY <1>1 DEF Cancel
<1> HIDE DEF w, q, f
<1>q. QED
  BY <1>1, <1>2, <1>3, <1>4

\* Neither does aborting on an instance that holds nothing.
LEMMA AbortNothing ==
    ASSUME NEW i, Well(i), Active(i) = {}
    PROVE  AbortAll(i) = i
<1> DEFINE w == i.running \o i.waiting
           f == [r \in DOMAIN i.req |-> IF r \in Active(i)
                                          THEN [i.req[r] EXCEPT !.prefilled = 0] ELSE i.req[r]]
<1>1. /\ i = [waiting |-> i.waiting, running |-> i.running, completed |-> i.completed,
              req |-> i.req, stats |-> i.stats]
      /\ i.waiting \in Seq(Nat) /\ i.running \in Seq(Nat)
  BY WellFields
<1>2. i.waiting = <<>> /\ i.running = <<>>
  <2>1. ToSet(i.waiting) = {} /\ ToSet(i.running) = {}
    BY DEF Active
  <2>2. ASSUME NEW s \in Seq(Nat), ToSet(s) = {} PROVE s = <<>>
    <3>1. Len(s) \in Nat /\ (Len(s) # 0 => 1 \in DOMAIN s)
      OBVIOUS
    <3>2. Len(s) = 0
      BY <2>2, <3>1 DEF ToSet
    <3>q. QED
      BY <3>2
  <2>q. QED
    BY <1>1, <2>1, <2>2
<1>3. f = i.req
  <2>1. i.req = [r \in DOMAIN i.req |-> i.req[r]]
    BY ReqTyped
  <2>2. f = [r \in DOMAIN i.req |-> i.req[r]]
    OBVIOUS
  <2>q. QED
    BY <2>1, <2>2
<1>4. AbortAll(i) = [i EXCEPT !.waiting = w, !.running = <<>>, !.req = f]
  BY <1>1 DEF AbortAll
<1>5. w = <<>>
  BY <1>2
<1> HIDE DEF w, f
<1>q. QED
  BY <1>1, <1>2, <1>3, <1>4, <1>5

LEMMA TrainStream ==
    ASSUME SimInv, StreamInv, EnginesStep, LogTrain
    PROVE  EntriesInv' /\ Synced'
<1>1. EntriesInv'
  BY EntriesIdle DEF StreamInv, LogTrain, KeepInstances
<1>2. PICK batch \in kSubset(BatchSize, ready), newEngine \in {engineVersion, version + 1},
           expired \in SUBSET inflight :
              /\ TakeBatch(batch, newEngine, expired, TRUE)
              /\ engines' = [i \in Instances |-> AfterUpdate(engines[i], expired)]
  BY DEF LogTrain, SimTrain
<1>3. /\ pc = "take" /\ clock' = clock /\ Between /\ Synced /\ Pending = {} /\ collecting = <<>>
      /\ engines \in [Instances -> Record]
      /\ inflight' = inflight \ expired /\ dropped' = dropped \cup expired
      /\ inflight \cap dropped = {}
  BY <1>2 DEF LogTrain, SimTrain, TakeBatch, Between, StreamInv, SimInv, EngineTypes, ControlInv,
     AtRest, LoopInv, OneFate
<1>4. \A i \in Instances : Well(engines[i])
  BY <1>3, NothingPending
<1>5. \A i \in Instances : engines'[i].stats = engines[i].stats
  <2>1. \A i \in Instances : AfterUpdate(engines[i], expired).stats = engines[i].stats
    BY <1>4, AfterUpdateFacts DEF Reworked
  <2>q. QED
    BY <1>2, <2>1
<1>6. CASE Gone # {} \/ (PartialRollout /\ inflight' # {})
  <2>1. cursor' = cursor /\ Emit(Instances, engines', clock')
    BY <1>6 DEF LogTrain
  <2>q. QED
    BY <1>1, <1>3, <1>5, <2>1, SampledSynced
<1>7. CASE ~(Gone # {} \/ (PartialRollout /\ inflight' # {}))
  <2>1. UNCHANGED <<sample, cursor>>
    BY <1>7 DEF LogTrain, KeepInstances
  <2>2. expired = {}
    <3>1. \A r \in dropped' \ dropped : r.rid \in Gone
      BY DEF Gone, Rids
    <3>2. dropped' \ dropped = {}
      BY <1>7, <3>1
    <3>q. QED
      BY <1>3, <3>2
  <2>3. PartialRollout => \A i \in Instances : Active(engines[i]) = {}
    <3>1. HeldBy(engines, InflightRids, collecting)
      BY <1>3, NothingPending DEF SimInv, EnginesInv
    <3>2. PartialRollout => inflight = {}
      BY <1>3, <1>7, <2>2
    <3>3. PartialRollout => InflightRids = {}
      BY <3>2 DEF InflightRids
    <3>q. QED
      BY <3>1, <3>3 DEF HeldBy
  <2>4. \A i \in Instances : AfterUpdate(engines[i], expired) = engines[i]
    <3> SUFFICES ASSUME NEW i \in Instances
                 PROVE  AfterUpdate(engines[i], expired) = engines[i]
      OBVIOUS
    <3>1. {r.rid : r \in expired} = {}
      BY <2>2
    <3>2. Cancel(engines[i], {}) = engines[i]
      BY <1>4, CancelNothing
    <3>3. PartialRollout => AbortAll(engines[i]) = engines[i]
      BY <1>4, <2>3, AbortNothing
    <3>q. QED
      BY <3>1, <3>2, <3>3 DEF AfterUpdate
  <2>5. engines' = engines
    BY <1>2, <1>3, <2>4
  <2>q. QED
    BY <1>1, <1>3, <2>1, <2>5, StillSynced
<1>q. QED
  BY <1>6, <1>7

\* _run_engine writes before it produces the first events.
LEMMA SeedStream ==
    ASSUME SimInv, StreamInv, EnginesStep, LogSeed
    PROVE  EntriesInv' /\ Synced'
<1>1. /\ Pending = {} /\ Flush(Instances, engines) /\ EntriesInv
      /\ pc = "engine" /\ pc' = pc
  BY DEF LogSeed, SeedEvents, SimInv, ControlInv, AtRest, Sync, StreamInv, loopVars
<1>2. Committed = engines
  BY <1>1, NothingPending
<1>3. \A i \in Instances : /\ engines[i].stats \in Seq(Nat)
                           /\ Logs(Committed[i], engines[i]) /\ Logs(engines[i], Committed'[i])
  <2> SUFFICES ASSUME NEW i \in Instances
               PROVE  /\ engines[i].stats \in Seq(Nat)
                      /\ Logs(Committed[i], engines[i]) /\ Logs(engines[i], Committed'[i])
    OBVIOUS
  <2> DEFINE a == Committed[i]
             b == Committed'[i]
  <2>1. a.stats \in Seq(Nat) /\ Logs(a, b)
    BY CommittedEntries
  <2> HIDE DEF a, b
  <2>2. Logs(a, a)
    BY <2>1 DEF Logs
  <2>3. engines[i] = a
    BY <1>2 DEF a
  <2>q. QED
    BY <2>1, <2>2, <2>3 DEF a, b
<1>4. EntriesInv'
  BY <1>1, <1>3, EntriesSynced
<1>q. QED
  BY <1>1, <1>4 DEF Synced, Between

\* A commit writes the instance whose event it was, and no other.
LEMMA CommitStream ==
    ASSUME SimInv, StreamInv, EnginesStep, LogCommit
    PROVE  EntriesInv' /\ Synced'
<1>1. /\ Flush({last'}, engines') /\ EntriesInv /\ pc = "engine" /\ pc' = pc
      /\ Pending # {} /\ last' = Earliest /\ events' = [events EXCEPT ![Earliest] = NoEvent]
      /\ EngineTypes
  BY DEF LogCommit, CommitEvent, AtQueue, Sync, SyncedBy, StreamInv, loopVars, SimInv
<1>2. Earliest \in Instances
  BY <1>1, EarliestFacts DEF Pending
<1> DEFINE i == Earliest
<1> HIDE DEF i
<1>3. {i} \in SUBSET Instances /\ ~events'[i].pending /\ Flush({i}, engines')
  BY <1>1, <1>2 DEF i, NoEvent, EngineTypes
<1>4. EntriesInv'
  BY <1>1, <1>3, EntriesWritten
<1>q. QED
  BY <1>1, <1>4 DEF Synced, Between

LEMMA EndStream ==
    ASSUME SimInv, StreamInv, EnginesStep,
           LogStopOnBatch \/ LogAdmitMore \/ LogDeadline \/ LogExhausted
    PROVE  EntriesInv' /\ Synced'
<1>1. Sync(Instances, engines', clock') /\ EntriesInv
  BY DEF LogStopOnBatch, LogAdmitMore, LogDeadline, LogExhausted, StreamInv
<1>2. events' = [i \in Instances |-> NoEvent]
  BY DEF LogStopOnBatch, LogAdmitMore, LogDeadline, LogExhausted, SimStopOnBatch, SimAdmitMore,
     SimDeadline, SimExhausted, UndoAndAlign
<1>3. \A i \in Instances : ~events'[i].pending
  BY <1>2 DEF NoEvent
<1>q. QED
  BY <1>1, <1>3, AllWritten

\* The other steps write nothing: the events are pending, or nothing changes.
LEMMA SilentStream ==
    ASSUME SimInv, StreamInv, EnginesStep,
           \/ LogNoBatch \/ LogProduce \/ LogCollect \/ LogGoOn \/ LogAlignFails
           \/ Halt /\ UNCHANGED <<engineVars, streamVars>>
           \/ UNCHANGED telemetryVars
    PROVE  EntriesInv' /\ Synced'
<1>1. UNCHANGED <<sample, cursor, written>>
  BY DEF LogNoBatch, LogProduce, LogCollect, LogGoOn, LogAlignFails, KeepInstances, streamVars,
     telemetryVars
<1>2. EntriesInv'
  BY <1>1, EntriesIdle DEF StreamInv
<1>3. Synced
  BY DEF StreamInv
<1>4. CASE LogNoBatch
  <2>1. Between /\ UNCHANGED <<engines, clock>>
    BY <1>4 DEF LogNoBatch, SimNoBatch, NoBatch, Between
  <2>q. QED
    BY <1>1, <1>2, <1>3, <2>1, StillSynced
<1>5. CASE LogProduce \/ LogCollect \/ LogGoOn \/ LogAlignFails
  <2>1. pc' \in {"engine", "event", "failed"}
    BY <1>5 DEF LogProduce, ProduceNext, LogCollect, SimCollect, Complete, LogGoOn, SimGoOn,
       Collected, Admit, AfterTop, AfterRetry, AfterBegin, AfterEvent, LogAlignFails, AlignFails,
       EngineFails, loopVars
  <2>q. QED
    BY <1>2, <2>1 DEF Synced, Between
<1>6. CASE (Halt /\ UNCHANGED <<engineVars, streamVars>>) \/ UNCHANGED telemetryVars
  <2>1. UNCHANGED <<pc, engines, clock>>
    BY <1>6 DEF Halt, loopVars, engineVars, telemetryVars, vars
  <2>2. CASE Between
    BY <1>1, <1>2, <1>3, <2>1, <2>2, StillSynced
  <2>3. CASE ~Between
    BY <1>2, <2>1, <2>3 DEF Synced, Between
  <2>q. QED
    BY <2>2, <2>3
<1>q. QED
  BY <1>4, <1>5, <1>6

LEMMA StreamStep ==
    ASSUME SimInv, SteadyInv, StreamInv, RejectIfKvFull, [TelemetryNext]_telemetryVars
    PROVE  StreamInv'
<1>1. EnginesStep
  BY TelemetryIsSim, SimStep
<1>2. EntriesInv' /\ Synced'
  BY <1>1, AdmitStream, TrainStream, SeedStream, CommitStream, EndStream, SilentStream
     DEF TelemetryNext
<1>q. QED
  BY <1>2 DEF StreamInv

LEMMA StreamInit == TelemetryInit => StreamInv
<1> SUFFICES ASSUME TelemetryInit PROVE StreamInv
  OBVIOUS
<1>1. \A i \in Instances : /\ engines[i] = NewInstance /\ clock[i] = 0 /\ ~events[i].pending
                           /\ cursor[i] = 0 /\ written[i] = 0 /\ sample[i] = NoSample
  BY DEF TelemetryInit, Init, NoEvent
<1>2. \A i \in Instances : Committed[i] = NewInstance
  BY <1>1 DEF Committed, Undone, Pending
<1>3. NewInstance.stats = <<>> /\ Len(<<>>) = 0 /\ SubSeq(<<>>, 1, 0) = <<>>
  BY DEF NewInstance
<1>4. SumOf(<<>>) = 0
  <2>1. <<>> \in Seq(Nat)
    OBVIOUS
  <2>2. PICK p : SumPasses(p, <<>>) /\ SumOf(<<>>) = p[Len(<<>>)]
    BY <2>1, SumPassed
  <2>q. QED
    BY <1>3, <2>2 DEF SumPasses
<1>5. EntriesInv
  <2> SUFFICES ASSUME NEW i \in Instances
               PROVE  /\ cursor[i] \in Nat /\ cursor[i] <= Len(Committed[i].stats)
                      /\ written[i] = SumOf(SubSeq(Committed[i].stats, 1, cursor[i]))
    BY DEF EntriesInv
  <2>1. Committed[i].stats = <<>> /\ cursor[i] = 0 /\ written[i] = 0
    BY <1>1, <1>2, <1>3
  <2>2. 0 \in Nat /\ 0 <= Len(<<>>)
    BY <1>3
  <2>3. SumOf(SubSeq(<<>>, 1, 0)) = 0
    BY <1>3, <1>4
  <2>q. QED
    BY <2>1, <2>2, <2>3
<1>6. Occupancy(NewInstance, 0) = NoSample
  <2> DEFINE e == NewInstance
  <2>1. e.waiting = <<>> /\ e.running = <<>>
    BY DEF NewInstance
  <2>2. Progress(e, <<>>) = <<>>
    <3>1. DOMAIN <<>> = {}
      OBVIOUS
    <3>2. Progress(e, <<>>) \in Seq(Nat) /\ Len(Progress(e, <<>>)) = 0
      BY <3>1 DEF Progress
    <3>q. QED
      BY <3>2
  <2>3. Active(e) = {}
    BY <2>1 DEF Active, ToSet
  <2>4. BlocksUsed(e) = 0
    <3> DEFINE f == [r \in {} |-> BlocksFor(e.req[r].prefilled)]
    <3>1. BlocksUsed(e) = Part(f, {})
      BY <2>3 DEF BlocksUsed, Part
    <3>2. IsFiniteSet({}) /\ \A r \in {} : f[r] \in Nat
      BY FS_EmptySet
    <3> HIDE DEF f
    <3>3. Sums(f, {})
      BY <3>2, PartSums
    <3>q. QED
      BY <3>1, <3>3 DEF Sums
  <2> HIDE DEF e
  <2>q. QED
    BY <2>1, <2>2, <2>4 DEF Occupancy, NoSample, e
<1>7. Synced
  BY <1>1, <1>3, <1>6 DEF Synced
<1>q. QED
  BY <1>5, <1>7 DEF StreamInv

LEMMA StreamIsCommitted ==
    ASSUME SimInv, SteadyInv, StreamInv
    PROVE  StreamCommitted
<1>1. \A i \in Instances :
         /\ cursor[i] <= Len(Committed[i].stats)
         /\ written[i] = SumOf(SubSeq(Committed[i].stats, 1, cursor[i]))
  BY DEF StreamInv, EntriesInv
<1>2. ASSUME Between, NEW i \in Instances
      PROVE  /\ sample[i] = Occupancy(engines[i], clock[i])
             /\ written[i] = Total([r \in DOMAIN engines[i].req |->
                                      engines[i].req[r].generated])
  <2>1. cursor[i] = Len(engines[i].stats) /\ sample[i] = Occupancy(engines[i], clock[i])
    BY <1>2 DEF StreamInv, Synced
  <2>2. Pending = {}
    BY <1>2 DEF Between, SimInv, ControlInv, AtRest
  <2>3. Committed = engines /\ Well(engines[i])
    BY <2>2, NothingPending
  <2> DEFINE s == engines[i].stats
  <2>4. s \in Seq(Nat) /\ SumOf(s) = Tokens(engines[i])
    BY <2>3, WellFields DEF SteadyInv, Steady, Counted
  <2>5. written[i] = SumOf(SubSeq(s, 1, Len(s)))
    BY <1>1, <2>1, <2>3
  <2> HIDE DEF s
  <2>6. SubSeq(s, 1, Len(s)) = s
    <3>1. Len(s) <= Len(s) /\ \A k \in 1..Len(s) : s[k] = s[k]
      BY <2>4
    <3>q. QED
      BY <2>4, <3>1, FrontRestored
  <2>q. QED
    BY <2>1, <2>4, <2>5, <2>6 DEF Tokens
<1>q. QED
  BY <1>1, <1>2 DEF StreamCommitted

(* With reservations the step stream is commit-only: no entry of an event  *)
(* that may still be undone is ever written, and between two engine runs   *)
(* flush_rollout_step has written every token the instances generated      *)
(* exactly once, and emit_instance what each of them holds.                *)
THEOREM SimStreamCommitted == RejectIfKvFull => (TelemetrySpec => []StreamCommitted)
<1> SUFFICES ASSUME RejectIfKvFull PROVE TelemetrySpec => []StreamCommitted
  OBVIOUS
<1> DEFINE Inv == SimInv /\ SteadyInv /\ StreamInv
<1>1. TelemetryInit => Inv
  BY SimInit, SteadyInit, StreamInit DEF TelemetryInit
<1>2. Inv /\ [TelemetryNext]_telemetryVars => Inv'
  BY TelemetryIsSim, SimStep, SteadyNext, StreamStep
<1>3. Inv => StreamCommitted
  BY StreamIsCommitted
<1> HIDE DEF Inv
<1>q. QED
  BY <1>1, <1>2, <1>3, PTL DEF TelemetrySpec

=============================================================================
