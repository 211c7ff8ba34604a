-------------------------- MODULE RollLoop_proofs --------------------------
(***************************************************************************)
(* ROLL's bound on staleness, and the accounts its admission rests on, for *)
(* every batch size, staleness limit, in-flight cap and number of          *)
(* versions.  The policy keeps its own books, groups of prompts by         *)
(* admission version, beside the loop's lists; the invariant says that     *)
(* each group holds exactly the loop's requests of its version, once each, *)
(* and that no group is older than the floor.  Then a batch, taken from    *)
(* the heads of the groups, is a set of BatchSize ready requests of young  *)
(* enough versions, and the victims of expire() are what is in flight at   *)
(* the floor.                                                              *)
(***************************************************************************)
EXTENDS RollLoop, RLLoop_proofs

(* The books of the policy against the lists of the loop.  Only an expire()*)
(* that raised leaves groups behind that are older than the floor.         *)
GroupOf(s) ==
    /\ groups[s].running = {r.rid : r \in {q \in inflight : q.v = s}}
    /\ {FinishedIn(s)[i] : i \in DOMAIN FinishedIn(s)} = {r \in ready : r.v = s}
    /\ \A i, j \in DOMAIN FinishedIn(s) : FinishedIn(s)[i] = FinishedIn(s)[j] => i = j

GroupInv ==
    /\ version \in DOMAIN groups
    /\ pc # "failed" => \A s \in DOMAIN groups : Floor <= s
    /\ \A r \in inflight \cup ready : r.v \in DOMAIN groups
    /\ \A s \in DOMAIN groups : GroupOf(s)

Outstanding == Cardinality(inflight) + Cardinality(ready)

\* The requests from before the last training step.
Aging == {r \in inflight \cup ready : r.v < version}

CountInv ==
    /\ engineVersion = version
    /\ budget = (MaxStaleness + 1) * BatchSize + version * BatchSize
    /\ runningPrompts = Cardinality(inflight)
    /\ completedPrompts = Cardinality(ready) + nConsumed
    /\ nConsumed = version * BatchSize
    /\ Outstanding <= (MaxStaleness + 1) * BatchSize
    /\ Cardinality(Aging) <= MaxStaleness * BatchSize
    /\ pc = "take" => version < NVersions

IInv == TypeOK /\ LoopInv /\ GroupInv /\ CountInv /\ StalenessBound

-----------------------------------------------------------------------------
(* Taking a batch from the heads of several queues.  A place is a queue    *)
(* and an index in it; places are ordered by queue, then by index.         *)

Places(E, len) == UNION {{s} \X (1..len[s]) : s \in E}

Older(A, s) == {q \in A : q[1] < s}

Column(s, n) == {s} \X (1..n)

LEMMA ColumnCardinality ==
    ASSUME NEW s, NEW n \in Nat
    PROVE  IsFiniteSet(Column(s, n)) /\ Cardinality(Column(s, n)) = n
<1> DEFINE S == 1..n
           f == [i \in S |-> <<s, i>>]
<1>1. IsFiniteSet(S) /\ Cardinality(S) = n
  BY FS_Interval
<1>2. f \in Surjection(S, Column(s, n)) /\ f \in Injection(S, Column(s, n))
  <2> HIDE DEF S
  <2>1. Column(s, n) = {<<s, i>> : i \in S}
    BY DEF Column, S
  <2>2. f \in [S -> Column(s, n)] /\ \A i \in S : f[i] = <<s, i>>
    BY <2>1
  <2> HIDE DEF f
  <2>3. \A i, j \in S : f[i] = f[j] => i = j
    BY <2>2
  <2>4. \A c \in Column(s, n) : \E i \in S : f[i] = c
    BY <2>1, <2>2
  <2>q. QED
    BY <2>2, <2>3, <2>4 DEF Surjection, Injection, IsInjective
<1> HIDE DEF S, f
<1>q. QED
  BY <1>1, <1>2, FS_Surjection

LEMMA OlderFits ==
    ASSUME NEW E, \A s \in E : s \in Int, NEW len \in [E -> Nat],
           NEW A, A = Places(E, len), IsFiniteSet(A), NEW s \in E
    PROVE  /\ Cardinality(Older(A, s)) \in Nat
           /\ Cardinality(Older(A, s)) + len[s] <= Cardinality(A)
           /\ \A t \in E : s < t =>
                Cardinality(Older(A, s)) + len[s] <= Cardinality(Older(A, t))
<1> DEFINE below == Older(A, s)
           here == Column(s, len[s])
<1>1. below \in SUBSET A /\ here \in SUBSET A /\ below \cap here = {}
  BY DEF Older, Column, Places
<1>2. IsFiniteSet(below) /\ Cardinality(below) \in Nat
  BY <1>1, FS_Subset, FS_CardinalityType
<1>3. len[s] \in Nat
  OBVIOUS
<1>4. IsFiniteSet(here) /\ Cardinality(here) = len[s]
  BY <1>3, ColumnCardinality
<1>5. below \cup here \in SUBSET A
  BY <1>1
<1>6. \A t \in E : s < t => below \cup here \in SUBSET Older(A, t)
  BY <1>5 DEF Older, Column, Places
<1>7. \A t \in E : IsFiniteSet(Older(A, t))
  <2>1. \A t \in E : Older(A, t) \in SUBSET A
    BY DEF Older
  <2>q. QED
    BY <2>1, FS_Subset
<1> HIDE DEF below, here
<1>8. IsFiniteSet(below \cup here) /\ Cardinality(below \cup here) = Cardinality(below) + len[s]
  <2>1. Cardinality(below \cap here) = 0
    BY <1>1, FS_EmptySet
  <2>2. /\ IsFiniteSet(below \cup here)
        /\ Cardinality(below \cup here) =
             Cardinality(below) + Cardinality(here) - Cardinality(below \cap here)
    BY <1>2, <1>4, FS_Union
  <2>q. QED
    BY <1>2, <1>3, <1>4, <2>1, <2>2
<1>9. Cardinality(below \cup here) <= Cardinality(A)
  BY <1>5, FS_Subset
<1>10. \A t \in E : s < t => Cardinality(below \cup here) <= Cardinality(Older(A, t))
  BY <1>6, <1>7, FS_Subset
<1>q. QED
  BY <1>2, <1>8, <1>9, <1>10 DEF below

(* The first b places are b places: the number of a place, how many come   *)
(* up to it, is one to one onto 1..n.                                      *)
LEMMA FirstPlaces ==
    ASSUME NEW E, \A s \in E : s \in Int, NEW len \in [E -> Nat],
           NEW A, A = Places(E, len), IsFiniteSet(A),
           NEW b \in Nat, b <= Cardinality(A)
    PROVE  Cardinality({q \in A : Cardinality(Older(A, q[1])) + q[2] <= b}) = b
<1> DEFINE n == Cardinality(A)
           N == 1..n
           B == 1..b
           number(q) == Cardinality(Older(A, q[1])) + q[2]
           f == [q \in A |-> number(q)]
           T == {q \in A : number(q) <= b}
           g == [q \in T |-> number(q)]
<1>1. n \in Nat
  BY FS_CardinalityType
<1>2. \A q \in A : /\ q[1] \in E /\ q[1] \in Int /\ q[2] \in Nat /\ q[2] >= 1 /\ q[2] <= len[q[1]]
                   /\ q = <<q[1], q[2]>> /\ len[q[1]] \in Nat
  BY DEF Places
<1>3. \A s \in E : /\ Cardinality(Older(A, s)) \in Nat
                   /\ Cardinality(Older(A, s)) + len[s] <= n
                   /\ \A t \in E : s < t =>
                        Cardinality(Older(A, s)) + len[s] <= Cardinality(Older(A, t))
  BY OlderFits
<1> HIDE DEF n
<1>4. ASSUME NEW q \in A
      PROVE  number(q) \in Nat /\ number(q) >= 1 /\ number(q) <= n
  <2>1. /\ Cardinality(Older(A, q[1])) \in Nat
        /\ Cardinality(Older(A, q[1])) + len[q[1]] <= n
    BY <1>2, <1>3
  <2>q. QED
    BY <1>1, <1>2, <2>1
<1>5. ASSUME NEW p \in A, NEW q \in A, number(p) = number(q)
      PROVE  p = q
  <2>1. /\ Cardinality(Older(A, p[1])) \in Nat /\ Cardinality(Older(A, q[1])) \in Nat
        /\ p[1] < q[1] => Cardinality(Older(A, p[1])) + len[p[1]] <= Cardinality(Older(A, q[1]))
        /\ q[1] < p[1] => Cardinality(Older(A, q[1])) + len[q[1]] <= Cardinality(Older(A, p[1]))
    BY <1>2, <1>3
  <2>2. ~ p[1] < q[1] /\ ~ q[1] < p[1]
    BY <1>2, <1>5, <2>1
  <2>3. p[1] = q[1]
    BY <1>2, <2>2
  <2>4. p[2] = q[2]
    BY <1>2, <1>5, <2>1, <2>3
  <2>q. QED
    BY <1>2, <2>3, <2>4
<1> HIDE DEF number
<1>6. IsFiniteSet(N) /\ Cardinality(N) = n /\ IsFiniteSet(B) /\ Cardinality(B) = b
  <2>1. \A m \in Nat : IsFiniteSet(1..m) /\ Cardinality(1..m) = m
    BY FS_Interval
  <2>q. QED
    BY <1>1, <2>1
<1>7. f \in Injection(A, N)
  BY <1>4, <1>5 DEF Injection, IsInjective
<1>8. f \in Surjection(A, N)
  <2> HIDE DEF f, N
  <2>q. QED
    BY <1>6, <1>7, FS_Injection DEF n
<1>9. \A k \in N : \E q \in A : number(q) = k
  <2>1. \A k \in N : \E q \in A : f[q] = k
    <3> HIDE DEF f, N
    <3>q. QED
      BY <1>8 DEF Surjection
  <2>q. QED
    BY <2>1
<1>10. g \in Injection(T, B)
  BY <1>4, <1>5 DEF Injection, IsInjective
<1>11. g \in Surjection(T, B)
  <2>1. \A k \in B : k \in N /\ k <= b
    BY <1>1 DEF n
  <2>2. \A k \in B : \E q \in T : g[q] = k
    BY <1>9, <2>1
  <2>3. g \in [T -> B]
    BY <1>10 DEF Injection
  <2>q. QED
    BY <2>2, <2>3 DEF Surjection
<1>12. Cardinality(T) = b
  <2> HIDE DEF g, T, B
  <2>q. QED
    BY <1>6, <1>10, <1>11, FS_Injection
<1>q. QED
  BY <1>12 DEF number

-----------------------------------------------------------------------------
(* The finished prompts of the groups are the ready list, once each.       *)

Prompt(q) == FinishedIn(q[1])[q[2]]

LEMMA GroupTypes ==
    ASSUME IInv, NEW s \in DOMAIN groups
    PROVE  /\ s \in Nat /\ s <= version /\ version \in Nat
           /\ groups[s] = [running |-> groups[s].running, finished |-> FinishedIn(s)]
           /\ groups[s].running \in SUBSET Nat
           /\ FinishedIn(s) \in Seq(Request)
           /\ Len(FinishedIn(s)) \in Nat
           /\ DOMAIN FinishedIn(s) = 1..Len(FinishedIn(s))
<1>1. version \in Nat /\ DOMAIN groups \subseteq 0..version /\ groups[s] \in Group
  BY DEF IInv, TypeOK, LoopTypeOK
<1>2. s \in 0..version
  BY <1>1
<1>q. QED
  BY <1>1, <1>2 DEF Group, FinishedIn

LEMMA AvailableIsReady ==
    ASSUME IInv, pc # "failed"
    PROVE  /\ EligibleSteps = DOMAIN groups
           /\ Available = Places(DOMAIN groups, [s \in DOMAIN groups |-> Len(FinishedIn(s))])
           /\ IsFiniteSet(Available)
           /\ Cardinality(Available) = Cardinality(ready)
           /\ \A q \in Available : Prompt(q) \in ready /\ Prompt(q).v = q[1]
           /\ \A p, q \in Available : Prompt(p) = Prompt(q) => p = q
<1> DEFINE f == [q \in Available |-> Prompt(q)]
<1>1. EligibleSteps = DOMAIN groups
  BY GroupTypes DEF EligibleSteps, IInv, GroupInv
<1>2. Available = Places(DOMAIN groups, [s \in DOMAIN groups |-> Len(FinishedIn(s))])
  <2>1. \A s \in DOMAIN groups : DOMAIN FinishedIn(s) = 1..Len(FinishedIn(s))
    BY GroupTypes
  <2>q. QED
    BY <1>1, <2>1 DEF Available, Places
<1>3. \A q \in Available : /\ q[1] \in DOMAIN groups /\ q[2] \in DOMAIN FinishedIn(q[1])
                           /\ q = <<q[1], q[2]>>
  BY <1>1 DEF Available
<1>4. \A s \in DOMAIN groups : GroupOf(s)
  BY DEF IInv, GroupInv
<1>5. ASSUME NEW q \in Available
      PROVE  Prompt(q) \in ready /\ Prompt(q).v = q[1]
  <2>1. FinishedIn(q[1])[q[2]] \in {r \in ready : r.v = q[1]}
    BY <1>3, <1>4 DEF GroupOf
  <2>q. QED
    BY <2>1 DEF Prompt
<1>6. ASSUME NEW p \in Available, NEW q \in Available, Prompt(p) = Prompt(q)
      PROVE  p = q
  <2>1. p[1] = q[1]
    BY <1>5, <1>6
  <2>2. p[2] = q[2]
    BY <1>3, <1>4, <1>6, <2>1 DEF GroupOf, Prompt
  <2>q. QED
    BY <1>3, <2>1, <2>2
<1>7. ASSUME NEW r \in ready
      PROVE  \E q \in Available : Prompt(q) = r
  <2>1. r.v \in DOMAIN groups
    BY DEF IInv, GroupInv
  <2>2. r \in {FinishedIn(r.v)[i] : i \in DOMAIN FinishedIn(r.v)}
    BY <1>4, <2>1 DEF GroupOf
  <2>3. PICK i \in DOMAIN FinishedIn(r.v) : r = FinishedIn(r.v)[i]
    BY <2>2
  <2>4. <<r.v, i>> \in Available
    BY <1>1, <2>1 DEF Available
  <2>q. QED
    BY <2>3, <2>4 DEF Prompt
<1> HIDE DEF Prompt
<1>8. f \in Injection(Available, ready) /\ f \in Surjection(Available, ready)
  <2>1. f \in [Available -> ready]
    BY <1>5
  <2>2. \A p, q \in Available : f[p] = f[q] => p = q
    BY <1>6
  <2>3. \A r \in ready : \E q \in Available : f[q] = r
    BY <1>7
  <2> HIDE DEF f
  <2>q. QED
    BY <2>1, <2>2, <2>3 DEF Injection, IsInjective, Surjection
<1>9. IsFiniteSet(Available) /\ Cardinality(Available) = Cardinality(ready)
  <2>1. IsFiniteSet(ready)
    BY DEF IInv, LoopInv
  <2> HIDE DEF f
  <2>q. QED
    BY <1>8, <2>1, FS_Injection
<1>q. QED
  BY <1>1, <1>2, <1>5, <1>6, <1>9

(* What is needed of a group is what the places up to BatchSize hold of it.*)
LEMMA TakenFromHeads ==
    ASSUME IInv, pc # "failed", NEW s \in DOMAIN groups
    PROVE  /\ TakenFrom(s) \in Nat
           /\ TakenFrom(s) <= Len(FinishedIn(s))
           /\ Cardinality(Older(Available, s)) \in Nat
           /\ \A i \in 1..Len(FinishedIn(s)) :
                i <= TakenFrom(s) <=> Cardinality(Older(Available, s)) + i <= BatchSize
<1> DEFINE len == [t \in DOMAIN groups |-> Len(FinishedIn(t))]
           E == DOMAIN groups
<1>1. /\ IsFiniteSet(Available) /\ EligibleSteps = DOMAIN groups
      /\ Available = Places(E, len)
  BY AvailableIsReady
<1>2. \A t \in E : t \in Int
  BY GroupTypes
<1>3. len \in [E -> Nat]
  BY GroupTypes
<1>4. Cardinality(Older(Available, s)) \in Nat
  <2> HIDE DEF len, E
  <2>1. s \in E
    BY DEF E
  <2>q. QED
    BY <1>1, <1>2, <1>3, <2>1, OlderFits
<1>5. Needed(s) = BatchSize - Cardinality(Older(Available, s))
  BY DEF Needed, Older
<1>6. Len(FinishedIn(s)) \in Nat /\ BatchSize \in Nat
  BY GroupTypes, RollAssumption
<1>q. QED
  BY <1>1, <1>4, <1>5, <1>6 DEF TakenFrom

LEMMA BatchIsReady ==
    ASSUME IInv, pc # "failed"
    PROVE  /\ Batch \in SUBSET ready
           /\ \A s \in DOMAIN groups :
                {r \in Batch : r.v = s} = {FinishedIn(s)[i] : i \in 1..TakenFrom(s)}
<1>1. /\ EligibleSteps = DOMAIN groups
      /\ \A q \in Available : Prompt(q) \in ready /\ Prompt(q).v = q[1]
  BY AvailableIsReady
<1>2. ASSUME NEW s \in DOMAIN groups, NEW i \in 1..TakenFrom(s)
      PROVE  FinishedIn(s)[i] \in ready /\ FinishedIn(s)[i].v = s
  <2>1. TakenFrom(s) \in Nat /\ TakenFrom(s) <= Len(FinishedIn(s))
    BY TakenFromHeads
  <2>2. i \in DOMAIN FinishedIn(s)
    BY <2>1, GroupTypes
  <2>3. <<s, i>> \in Available
    BY <1>1, <2>2 DEF Available
  <2>q. QED
    BY <1>1, <2>3 DEF Prompt
<1>3. \A r \in Batch : \E s \in DOMAIN groups : \E i \in 1..TakenFrom(s) : r = FinishedIn(s)[i]
  BY <1>1 DEF Batch
<1>4. \A s \in DOMAIN groups : \A i \in 1..TakenFrom(s) : FinishedIn(s)[i] \in Batch
  BY <1>1 DEF Batch
<1> HIDE DEF Batch, TakenFrom, FinishedIn
<1>5. Batch \in SUBSET ready
  BY <1>2, <1>3
<1>6. ASSUME NEW s \in DOMAIN groups
      PROVE  {r \in Batch : r.v = s} = {FinishedIn(s)[i] : i \in 1..TakenFrom(s)}
  BY <1>2, <1>3, <1>4
<1>q. QED
  BY <1>5, <1>6

LEMMA BatchIsFull ==
    ASSUME IInv, pc # "failed", BatchFound
    PROVE  Cardinality(Batch) = BatchSize
<1> DEFINE len == [t \in DOMAIN groups |-> Len(FinishedIn(t))]
           E == DOMAIN groups
           T == {q \in Available : Cardinality(Older(Available, q[1])) + q[2] <= BatchSize}
           f == [q \in T |-> Prompt(q)]
<1>1. /\ IsFiniteSet(Available) /\ EligibleSteps = DOMAIN groups
      /\ Available = Places(E, len)
      /\ \A q \in Available : Prompt(q) \in ready /\ Prompt(q).v = q[1]
      /\ \A p, q \in Available : Prompt(p) = Prompt(q) => p = q
  BY AvailableIsReady
<1>2. Cardinality(T) = BatchSize
  <2>1. \A t \in E : t \in Int
    BY GroupTypes
  <2>2. len \in [E -> Nat]
    BY GroupTypes
  <2>3. BatchSize \in Nat /\ BatchSize <= Cardinality(Available)
    <3>1. Cardinality(Available) \in Nat
      BY <1>1, FS_CardinalityType
    <3>q. QED
      BY <3>1, RollAssumption DEF BatchFound
  <2> HIDE DEF len, E
  <2>q. QED
    BY <1>1, <2>1, <2>2, <2>3, FirstPlaces
<1>3. IsFiniteSet(T)
  <2>1. T \in SUBSET Available
    OBVIOUS
  <2> HIDE DEF T
  <2>q. QED
    BY <1>1, <2>1, FS_Subset
<1>4. ASSUME NEW q \in Available
      PROVE  /\ q[1] \in DOMAIN groups /\ q[2] \in 1..Len(FinishedIn(q[1]))
             /\ q = <<q[1], q[2]>>
             /\ q \in T <=> q[2] \in 1..TakenFrom(q[1])
  <2>1. /\ q[1] \in DOMAIN groups /\ q[2] \in 1..Len(FinishedIn(q[1]))
        /\ q = <<q[1], q[2]>>
    BY <1>1 DEF Places
  <2>2. TakenFrom(q[1]) \in Nat
    BY <2>1, TakenFromHeads
  <2>3. q[2] <= TakenFrom(q[1]) <=> Cardinality(Older(Available, q[1])) + q[2] <= BatchSize
    BY <2>1, TakenFromHeads
  <2>4. q[2] \in 1..TakenFrom(q[1]) <=> q[2] <= TakenFrom(q[1])
    BY <2>1, <2>2
  <2>q. QED
    BY <2>1, <2>3, <2>4
<1>5. \A q \in T : Prompt(q) \in Batch
  BY <1>1, <1>4 DEF Batch, Prompt
<1>6. \A r \in Batch : \E q \in T : Prompt(q) = r
  <2> SUFFICES ASSUME NEW r \in Batch PROVE \E q \in T : Prompt(q) = r
    OBVIOUS
  <2>1. PICK s \in DOMAIN groups : \E i \in 1..TakenFrom(s) : r = FinishedIn(s)[i]
    BY <1>1 DEF Batch
  <2>2. PICK i \in 1..TakenFrom(s) : r = FinishedIn(s)[i]
    BY <2>1
  <2>3. TakenFrom(s) \in Nat /\ TakenFrom(s) <= Len(FinishedIn(s)) /\ Len(FinishedIn(s)) \in Nat
    BY TakenFromHeads, GroupTypes
  <2>4. i \in 1..Len(FinishedIn(s))
    BY <2>3
  <2>5. <<s, i>> \in Available
    BY <1>1, <2>4 DEF Places
  <2>6. <<s, i>> \in T
    BY <1>4, <2>5
  <2>7. Prompt(<<s, i>>) = r
    BY <2>2 DEF Prompt
  <2>q. QED
    BY <2>6, <2>7
<1>7. f \in Injection(T, Batch) /\ f \in Surjection(T, Batch)
  <2>1. T \subseteq Available
    OBVIOUS
  <2> HIDE DEF T, Prompt
  <2>2. f \in [T -> Batch]
    BY <1>5
  <2>3. \A p, q \in T : f[p] = f[q] => p = q
    BY <1>1, <2>1
  <2>4. \A r \in Batch : \E q \in T : f[q] = r
    BY <1>6
  <2> HIDE DEF f
  <2>q. QED
    BY <2>2, <2>3, <2>4 DEF Injection, IsInjective, Surjection
<1> HIDE DEF f, T
<1>q. QED
  BY <1>2, <1>3, <1>7, FS_Surjection

LEMMA WithoutBatchMatches ==
    ASSUME IInv, pc # "failed", NEW s \in DOMAIN groups
    PROVE  LET f == WithoutBatch[s].finished
           IN  /\ WithoutBatch[s].running = groups[s].running
               /\ WithoutBatch[s] \in Group
               /\ {f[i] : i \in DOMAIN f} = {r \in ready \ Batch : r.v = s}
               /\ \A i, j \in DOMAIN f : f[i] = f[j] => i = j
<1> DEFINE q == FinishedIn(s)
           k == TakenFrom(s)
           n == Len(q)
           f == SubSeq(q, k + 1, n)
<1>1. /\ groups[s].running \in SUBSET Nat
      /\ q \in Seq(Request) /\ n \in Nat /\ DOMAIN q = 1..n
      /\ k \in Nat /\ k <= n
      /\ groups[s] = [running |-> groups[s].running, finished |-> q]
  BY GroupTypes, TakenFromHeads
<1>2. /\ {q[i] : i \in 1..n} = {r \in ready : r.v = s}
      /\ \A i, j \in 1..n : q[i] = q[j] => i = j
  BY <1>1 DEF IInv, GroupInv, GroupOf
<1>3. {r \in Batch : r.v = s} = {q[i] : i \in 1..k}
  BY BatchIsReady
<1>4. WithoutBatch[s] = [groups[s] EXCEPT !.finished = f]
  BY DEF WithoutBatch, FinishedIn
<1>5. WithoutBatch[s] = [running |-> groups[s].running, finished |-> f]
  <2> HIDE DEF f, q
  <2>q. QED
    BY <1>1, <1>4
<1> HIDE DEF q, k, n
<1>6. /\ f \in Seq(Request) /\ DOMAIN f = 1..(n - k)
      /\ \A i \in 1..(n - k) : f[i] = q[i + k]
  <2>1. Len(f) = n - k
    BY <1>1
  <2>2. f \in Seq(Request)
    BY <1>1
  <2>3. \A i \in 1..(n - k) : f[i] = q[i + k]
    BY <1>1, <2>1
  <2>q. QED
    BY <2>1, <2>2, <2>3
<1> HIDE DEF f
<1>7. {f[i] : i \in DOMAIN f} = {r \in ready \ Batch : r.v = s}
  <2>1. ASSUME NEW i \in 1..(n - k)
        PROVE  f[i] \in ready \ Batch /\ f[i].v = s
    <3>1. i + k \in 1..n /\ f[i] = q[i + k]
      BY <1>1, <1>6
    <3>2. q[i + k] \in {r \in ready : r.v = s}
      BY <1>2, <3>1
    <3>3. ASSUME q[i + k] \in Batch PROVE FALSE
      <4>1. q[i + k] \in {q[j] : j \in 1..k}
        BY <1>3, <3>2, <3>3
      <4>2. PICK j \in 1..k : q[i + k] = q[j]
        BY <4>1
      <4>3. j \in 1..n /\ i + k # j
        BY <1>1
      <4>q. QED
        BY <1>2, <3>1, <4>2, <4>3
    <3>q. QED
      BY <3>1, <3>2, <3>3
  <2>2. ASSUME NEW r \in ready \ Batch, r.v = s
        PROVE  \E i \in 1..(n - k) : f[i] = r
    <3>1. r \in {q[j] : j \in 1..n}
      BY <1>2, <2>2
    <3>2. PICK j \in 1..n : r = q[j]
      BY <3>1
    <3>3. j \notin 1..k
      BY <1>3, <3>2, <2>2
    <3>4. j - k \in 1..(n - k) /\ (j - k) + k = j
      BY <1>1, <3>3
    <3>q. QED
      BY <1>6, <3>2, <3>4
  <2>q. QED
    BY <1>6, <2>1, <2>2
<1>8. \A i, j \in DOMAIN f : f[i] = f[j] => i = j
  <2> SUFFICES ASSUME NEW i \in 1..(n - k), NEW j \in 1..(n - k), f[i] = f[j]
               PROVE  i = j
    BY <1>6
  <2>1. i + k \in 1..n /\ j + k \in 1..n /\ q[i + k] = q[j + k]
    BY <1>1, <1>6
  <2>2. i + k = j + k
    BY <1>2, <2>1
  <2>q. QED
    BY <1>1, <2>2
<1>9. WithoutBatch[s].finished = f /\ WithoutBatch[s].running = groups[s].running
  BY <1>5
<1>10. WithoutBatch[s] \in Group
  BY <1>1, <1>5, <1>6 DEF Group
<1>q. QED
  BY <1>7, <1>8, <1>9, <1>10

-----------------------------------------------------------------------------
(* Admission stays within the window.                                      *)

LEMMA QuotaFits ==
    ASSUME IInv
    PROVE  /\ AdmitQuota \in Nat
           /\ Cardinality(inflight) \in Nat /\ Cardinality(ready) \in Nat
           /\ Outstanding \in Nat
           /\ (MaxStaleness + 1) * BatchSize \in Nat
           /\ AdmitQuota > 0 => Outstanding + AdmitQuota <= (MaxStaleness + 1) * BatchSize
<1> DEFINE W == (MaxStaleness + 1) * BatchSize
           VB == version * BatchSize
           room == budget - (runningPrompts + completedPrompts)
<1>1. Cardinality(inflight) \in Nat /\ Cardinality(ready) \in Nat
  BY FS_CardinalityType DEF IInv, LoopInv
<1>2. W \in Nat /\ VB \in Nat
  BY RollAssumption DEF IInv, TypeOK, LoopTypeOK
<1>3. /\ budget = W + VB
      /\ runningPrompts = Cardinality(inflight)
      /\ completedPrompts = Cardinality(ready) + VB
  BY DEF IInv, CountInv
<1> HIDE DEF W, VB
<1>4. room \in Int /\ room = W - Outstanding /\ Outstanding \in Nat
  BY <1>1, <1>2, <1>3 DEF Outstanding
<1>5. AdmitQuota = Room(room, MaxInflight, Cardinality(inflight))
  BY DEF AdmitQuota
<1> HIDE DEF room
<1>6. /\ Room(room, MaxInflight, Cardinality(inflight)) \in Nat
      /\ Room(room, MaxInflight, Cardinality(inflight)) > 0 =>
            Room(room, MaxInflight, Cardinality(inflight)) <= room
  <2>1. MaxInflight \in Nat \cup {None} /\ Cardinality(inflight) \in Int
    BY <1>1, RollAssumption
  <2>q. QED
    BY <1>4, <2>1, RoomIsNat
<1>q. QED
  BY <1>1, <1>2, <1>4, <1>5, <1>6 DEF W

LEMMA RollInit == Init => IInv
<1> SUFFICES ASSUME Init PROVE IInv
  OBVIOUS
<1>1. LoopTypeOK /\ LoopInv
  BY LoopInitType, LoopInitInv DEF Init
<1>2. (MaxStaleness + 1) * BatchSize \in Nat /\ MaxStaleness * BatchSize \in Nat /\ 0 * BatchSize = 0
  BY RollAssumption
<1>3. EmptyGroup \in Group /\ EmptyGroup.running = {} /\ EmptyGroup.finished = <<>>
  BY DEF EmptyGroup, Group
<1>4. DOMAIN groups = {0} /\ groups[0] = EmptyGroup
  BY DEF Init
<1>5. TypeOK
  <2>1. DOMAIN groups \subseteq 0..version
    BY <1>4 DEF Init, LoopInit
  <2>q. QED
    BY <1>1, <1>2, <1>3, <1>4, <2>1 DEF Init, TypeOK
<1>6. GroupInv
  <2>1. GroupOf(0)
    <3>1. DOMAIN FinishedIn(0) = {}
      BY <1>3, <1>4 DEF FinishedIn
    <3>q. QED
      BY <1>3, <1>4, <3>1 DEF GroupOf, Init, LoopInit
  <2>q. QED
    BY <1>4, <2>1, RollAssumption DEF GroupInv, Floor, Init, LoopInit
<1>7. CountInv
  <2>1. Aging = {}
    BY DEF Aging, Init, LoopInit
  <2>q. QED
    BY <1>2, <2>1, FS_EmptySet DEF CountInv, Outstanding, Init, LoopInit
<1>q. QED
  BY <1>1, <1>5, <1>6, <1>7 DEF IInv, StalenessBound, Init, LoopInit

\* The steps that change neither the versions nor the lists.
LEMMA RollIdle ==
    ASSUME IInv, LoopTypeOK', pc # "failed", pc' = "take" => pc = "take",
           UNCHANGED <<version, engineVersion, nextRid, inflight, ready,
                       consumed, dropped, nConsumed, policyVars>>
    PROVE  IInv'
<1>1. TypeOK' /\ LoopInv'
  BY SameListsInv DEF IInv, TypeOK, policyVars
<1>2. GroupInv'
  <2>1. \A s \in DOMAIN groups : GroupOf(s)'
    BY DEF IInv, GroupInv, GroupOf, FinishedIn, policyVars
  <2>q. QED
    BY <2>1 DEF IInv, GroupInv, Floor, policyVars
<1>3. CountInv' /\ StalenessBound'
  BY DEF IInv, CountInv, Outstanding, Aging, StalenessBound, policyVars
<1>q. QED
  BY <1>1, <1>2, <1>3 DEF IInv

LEMMA RollAdmitStep ==
    ASSUME IInv, NEW n \in 0..AdmitQuota, RollAdmit(n)
    PROVE  /\ IInv'
           /\ Outstanding' = Outstanding + n
<1> DEFINE new == NewRequests(n)
           rids == {r.rid : r \in new}
<1>t. /\ LoopTypeOK /\ LoopInv /\ TypeOK /\ GroupInv /\ CountInv /\ StalenessBound
      /\ version \in Nat
  BY DEF IInv, TypeOK, LoopTypeOK
<1>1. /\ AdmitQuota \in Nat /\ n \in Nat
      /\ Cardinality(inflight) \in Nat /\ Cardinality(ready) \in Nat
      /\ n > 0 => Outstanding + n <= (MaxStaleness + 1) * BatchSize
      /\ (MaxStaleness + 1) * BatchSize \in Nat /\ Outstanding \in Nat
  BY QuotaFits
<1>2. Admit(AdmitQuota, n) /\ runningPrompts' = runningPrompts + n
      /\ UNCHANGED <<budget, completedPrompts>>
  BY DEF RollAdmit
<1>3. /\ LoopTypeOK' /\ LoopInv'
      /\ Cardinality(inflight') = Cardinality(inflight) + n
  BY <1>t, <1>1, <1>2, AdmitType, AdmitInv
<1>4. /\ UNCHANGED <<version, engineVersion, ready, consumed, nConsumed>>
      /\ inflight' = inflight \cup new
      /\ pc # "failed"
      /\ pc' = "take" => version < NVersions
  BY <1>2 DEF Admit, AfterTop, AfterRetry, AfterBegin, AfterEvent
<1>5. EnsureGroup(groups, engineVersion) = groups /\ engineVersion = version
  <2>1. engineVersion = version /\ version \in DOMAIN groups
    BY <1>t DEF GroupInv, CountInv
  <2>2. DOMAIN groups \cup {engineVersion} = DOMAIN groups
    BY <2>1
  <2>3. EnsureGroup(groups, engineVersion) = [t \in DOMAIN groups |-> groups[t]]
    BY <2>2 DEF EnsureGroup
  <2>4. groups = [t \in DOMAIN groups |-> groups[t]]
    <3>1. version \in DOMAIN groups
      BY <2>1
    <3>q. QED
      BY <1>t DEF TypeOK
  <2>q. QED
    BY <2>1, <2>3, <2>4
<1>6. groups' = [groups EXCEPT ![version].running = @ \cup rids]
  BY <1>5 DEF RollAdmit
<1>7. /\ \A r \in new : r.v = version
      /\ \A r \in new : r \in Request
  BY <1>5, <1>t DEF NewRequests, Request, LoopTypeOK
<1>8. ASSUME NEW s \in DOMAIN groups
      PROVE  GroupOf(s)' /\ groups'[s] \in Group
  <2>1. /\ groups[s] = [running |-> groups[s].running, finished |-> FinishedIn(s)]
        /\ groups[s].running \in SUBSET Nat
        /\ FinishedIn(s) \in Seq(Request)
    BY GroupTypes
  <2>2. groups[s].running = {r.rid : r \in {q \in inflight : q.v = s}}
    BY <1>t DEF GroupInv, GroupOf
  <2>3. /\ groups'[s].finished = FinishedIn(s)
        /\ groups'[s].running = groups[s].running \cup (IF s = version THEN rids ELSE {})
        /\ groups'[s] = [running |-> groups'[s].running, finished |-> FinishedIn(s)]
    <3> HIDE DEF rids
    <3>1. CASE s = version
      <4>1. groups'[s] = [groups[s] EXCEPT !.running = @ \cup rids]
        BY <1>6, <3>1
      <4>q. QED
        BY <2>1, <3>1, <4>1 DEF FinishedIn
    <3>2. CASE s # version
      BY <1>6, <2>1, <3>2 DEF FinishedIn
    <3>q. QED
      BY <3>1, <3>2
  <2>4. groups'[s].running = {r.rid : r \in {q \in inflight' : q.v = s}}
    <3>1. CASE s = version
      <4>1. {q \in inflight' : q.v = s} = {q \in inflight : q.v = s} \cup new
        BY <1>4, <1>7, <3>1
      <4> HIDE DEF new
      <4>q. QED
        BY <2>2, <2>3, <3>1, <4>1
    <3>2. CASE s # version
      <4>1. {q \in inflight' : q.v = s} = {q \in inflight : q.v = s}
        BY <1>4, <1>7, <3>2
      <4>q. QED
        BY <2>2, <2>3, <3>2, <4>1
    <3>q. QED
      BY <3>1, <3>2
  <2>5. FinishedIn(s)' = FinishedIn(s)
    BY <2>3 DEF FinishedIn
  <2>6. GroupOf(s)'
    BY <1>4, <1>t, <2>4, <2>5 DEF GroupInv, GroupOf
  <2>7. rids \in SUBSET Nat
    BY <1>7 DEF Request
  <2>8. groups'[s].running \in SUBSET Nat
    <3> HIDE DEF rids
    <3>q. QED
      BY <2>1, <2>3, <2>7
  <2>q. QED
    BY <2>1, <2>3, <2>6, <2>8 DEF Group
<1>9. DOMAIN groups' = DOMAIN groups
  BY <1>6
<1>10. TypeOK'
  <2> HIDE DEF rids
  <2>1. groups' \in [DOMAIN groups' -> Group]
    BY <1>6, <1>8, <1>9, <1>t DEF TypeOK
  <2>q. QED
    BY <1>1, <1>2, <1>3, <1>4, <1>9, <1>t, <2>1 DEF TypeOK
<1>11. GroupInv'
  <2>1. \A r \in inflight' \cup ready' : r.v \in DOMAIN groups
    BY <1>4, <1>7, <1>t DEF GroupInv
  <2>2. \A s \in DOMAIN groups : Floor <= s
    BY <1>4, <1>t DEF GroupInv
  <2>3. Floor' = Floor
    BY <1>4 DEF Floor
  <2>4. \A s \in DOMAIN groups : GroupOf(s)'
    BY <1>8
  <2>q. QED
    BY <1>4, <1>9, <1>t, <2>1, <2>2, <2>3, <2>4 DEF GroupInv
<1>12. Outstanding' = Outstanding + n
  BY <1>1, <1>3, <1>4 DEF Outstanding
<1>13. Aging' = Aging
  BY <1>4, <1>7, <1>t DEF Aging
<1>14. CountInv'
  BY <1>1, <1>2, <1>3, <1>4, <1>12, <1>13, <1>t DEF CountInv
<1>15. StalenessBound'
  BY <1>4, <1>t DEF StalenessBound
<1>q. QED
  BY <1>3, <1>10, <1>11, <1>12, <1>14, <1>15 DEF IInv

(* A request in flight is counted by its group, so no completion is        *)
(* dropped, and it moves from the running to the finished of its group.    *)
LEMMA InflightIsCounted ==
    ASSUME IInv, NEW r \in inflight
    PROVE  Counted(r)
<1>1. r.v \in DOMAIN groups
  BY DEF IInv, GroupInv
<1>2. groups[r.v].running = {q.rid : q \in {q \in inflight : q.v = r.v}}
  BY <1>1 DEF IInv, GroupInv, GroupOf
<1>q. QED
  BY <1>1, <1>2 DEF Counted

LEMMA RollCompleteStep ==
    ASSUME IInv, NEW r \in inflight, RollComplete(r)
    PROVE  IInv' /\ Outstanding' = Outstanding
<1>t. /\ LoopTypeOK /\ LoopInv /\ TypeOK /\ GroupInv /\ CountInv /\ StalenessBound
      /\ version \in Nat /\ r \in Request /\ r.v \in DOMAIN groups
  BY DEF IInv, TypeOK, LoopTypeOK, GroupInv
<1>1. /\ Complete(r, TRUE)
      /\ groups' = [groups EXCEPT ![r.v].running = @ \ {r.rid},
                                  ![r.v].finished = Append(@, r)]
      /\ runningPrompts' = runningPrompts - 1
      /\ completedPrompts' = completedPrompts + 1
      /\ UNCHANGED budget
  <2>1. Counted(r) /\ Counted(r) = TRUE
    BY InflightIsCounted DEF Counted
  <2>q. QED
    BY <2>1 DEF RollComplete
<1>2. /\ LoopTypeOK' /\ LoopInv'
      /\ Cardinality(inflight) \in Nat \ {0}
      /\ Cardinality(inflight') = Cardinality(inflight) - 1
      /\ Cardinality(ready) \in Nat
      /\ Cardinality(ready') = Cardinality(ready) + 1
  BY <1>t, <1>1, CompleteType, CompleteInv
<1>3. /\ UNCHANGED <<version, engineVersion, consumed, nConsumed>>
      /\ inflight' = inflight \ {r}
      /\ ready' = ready \cup {r}
      /\ pc # "failed" /\ pc' = "event"
  BY <1>1 DEF Complete
<1>4. r \notin ready /\ \A q \in inflight : q.rid = r.rid => q = r
  BY <1>t DEF LoopInv, OneFate, AllAccounted, Admitted
<1>5. ASSUME NEW s \in DOMAIN groups
      PROVE  GroupOf(s)' /\ groups'[s] \in Group
  <2>1. /\ groups[s] = [running |-> groups[s].running, finished |-> FinishedIn(s)]
        /\ groups[s].running \in SUBSET Nat
        /\ FinishedIn(s) \in Seq(Request)
        /\ Len(FinishedIn(s)) \in Nat
        /\ DOMAIN FinishedIn(s) = 1..Len(FinishedIn(s))
    BY GroupTypes
  <2>2. GroupOf(s)
    BY <1>t DEF GroupInv
  <2>3. CASE s # r.v
    <3>1. groups'[s] = groups[s]
      BY <1>1, <2>3
    <3>2. FinishedIn(s)' = FinishedIn(s)
      BY <3>1 DEF FinishedIn
    <3>3. /\ {q \in inflight' : q.v = s} = {q \in inflight : q.v = s}
          /\ {q \in ready' : q.v = s} = {q \in ready : q.v = s}
      BY <1>3, <2>3
    <3>4. GroupOf(s)'
      BY <2>2, <3>1, <3>2, <3>3 DEF GroupOf
    <3>q. QED
      BY <2>1, <3>1, <3>4 DEF Group
  <2>4. CASE s = r.v
    <3>1. groups'[s] = [running |-> groups[s].running \ {r.rid},
                        finished |-> Append(FinishedIn(s), r)]
      <4>1. groups'[s] = [groups[s] EXCEPT !.running = @ \ {r.rid}, !.finished = Append(@, r)]
        BY <1>1, <2>4
      <4>q. QED
        BY <2>1, <4>1 DEF FinishedIn
    <3> DEFINE f == FinishedIn(s)
               g == Append(f, r)
               n == Len(f)
    <3>2. FinishedIn(s)' = g /\ groups'[s].running = groups[s].running \ {r.rid}
      BY <3>1 DEF FinishedIn
    <3>3. /\ g \in Seq(Request) /\ DOMAIN g = 1..(n + 1)
          /\ \A i \in 1..n : g[i] = f[i]
          /\ g[n + 1] = r
      <4> HIDE DEF f
      <4>q. QED
        BY <1>t, <2>1 DEF f
    <3>4. /\ {f[i] : i \in 1..n} = {q \in ready : q.v = s}
          /\ \A i, j \in 1..n : f[i] = f[j] => i = j
      BY <2>1, <2>2 DEF GroupOf
    <3>5. n \in Nat
      BY <2>1
    <3> HIDE DEF f, g, n
    <3>6. {g[i] : i \in DOMAIN g} = {q \in ready' : q.v = s}
      <4>1. \A i \in 1..n : g[i] \in ready /\ g[i].v = s
        BY <3>3, <3>4
      <4>2. \A i \in 1..(n + 1) : g[i] \in ready' /\ g[i].v = s
        BY <1>3, <2>4, <3>3, <3>5, <4>1
      <4>3. \A q \in ready : q.v = s => \E i \in 1..n : q = f[i]
        BY <3>4
      <4>4. \A q \in ready : q.v = s => \E i \in 1..(n + 1) : q = g[i]
        BY <3>3, <3>5, <4>3
      <4>5. r = g[n + 1] /\ n + 1 \in 1..(n + 1)
        BY <3>3, <3>5
      <4>6. \A q \in ready' : q.v = s => \E i \in 1..(n + 1) : q = g[i]
        BY <1>3, <4>4, <4>5
      <4>q. QED
        BY <3>3, <4>2, <4>6
    <3>7. \A i, j \in DOMAIN g : g[i] = g[j] => i = j
      <4>1. \A i \in 1..n : g[i] \in ready
        BY <3>3, <3>4
      <4>2. \A i \in 1..(n + 1) : i \in 1..n \/ (i = n + 1 /\ g[i] = r)
        BY <3>3, <3>5
      <4>3. \A i \in 1..n : g[i] # r
        BY <1>4, <4>1
      <4>q. QED
        BY <3>3, <3>4, <4>2, <4>3
    <3>8. groups'[s].running = {q.rid : q \in {q \in inflight' : q.v = s}}
      <4>1. groups[s].running = {q.rid : q \in {q \in inflight : q.v = s}}
        BY <2>2 DEF GroupOf
      <4>2. {q \in inflight' : q.v = s} = {q \in inflight : q.v = s} \ {r}
        BY <1>3
      <4>q. QED
        BY <1>4, <3>2, <4>1, <4>2
    <3>9. GroupOf(s)'
      BY <3>2, <3>6, <3>7, <3>8 DEF GroupOf
    <3>10. groups'[s] \in Group
      BY <2>1, <3>1, <3>3 DEF Group, g, f
    <3>q. QED
      BY <3>9, <3>10
  <2>q. QED
    BY <2>3, <2>4
<1>6. DOMAIN groups' = DOMAIN groups
  BY <1>1
<1>7. TypeOK'
  BY <1>1, <1>2, <1>3, <1>5, <1>6, <1>t DEF TypeOK, CountInv
<1>8. GroupInv'
  <2>1. \A q \in inflight' \cup ready' : q.v \in DOMAIN groups
    BY <1>3, <1>t DEF GroupInv
  <2>2. Floor' = Floor /\ \A s \in DOMAIN groups : Floor <= s
    BY <1>3, <1>t DEF GroupInv, Floor
  <2>3. \A s \in DOMAIN groups : GroupOf(s)'
    BY <1>5
  <2>q. QED
    BY <1>3, <1>6, <1>t, <2>1, <2>2, <2>3 DEF GroupInv
<1>9. Outstanding' = Outstanding
  BY <1>2 DEF Outstanding
<1>10. Aging' = Aging
  BY <1>3 DEF Aging
<1>11. CountInv'
  <2>1. nConsumed \in Nat
    BY <1>t DEF LoopTypeOK
  <2>q. QED
    BY <1>1, <1>2, <1>3, <1>9, <1>10, <1>t, <2>1 DEF CountInv
<1>12. StalenessBound'
  BY <1>3, <1>t DEF StalenessBound
<1>q. QED
  BY <1>2, <1>7, <1>8, <1>9, <1>11, <1>12 DEF IInv

(* The victims of expire() are what is in flight at the floor, and the     *)
(* running prompts it takes off the counter are as many.                   *)
Victims == IF AgedAreCollected THEN {r \in inflight : r.rid \in AgedRunning} ELSE {}

LEMMA VictimsAreAged ==
    ASSUME IInv, AgedAreCollected
    PROVE  /\ Victims = {r \in inflight : r.v \in Aged}
           /\ Cardinality(AgedRunning) = Cardinality(Victims)
<1>1. Aged \subseteq DOMAIN groups
  BY DEF Aged
<1>2. \A s \in Aged : groups[s].running = {r.rid : r \in {q \in inflight : q.v = s}}
  BY <1>1 DEF IInv, GroupInv, GroupOf
<1>3. \A a, b \in inflight : a.rid = b.rid => a = b
  BY DEF IInv, LoopInv, AllAccounted, Admitted
<1>4. \A r \in inflight : r.v \in Aged => r.rid \in AgedRunning
  <2> SUFFICES ASSUME NEW r \in inflight, r.v \in Aged PROVE r.rid \in AgedRunning
    OBVIOUS
  <2>1. r.rid \in groups[r.v].running
    BY <1>2
  <2>q. QED
    BY <2>1 DEF AgedRunning
<1>5. \A d \in AgedRunning : \E r \in inflight : r.v \in Aged /\ r.rid = d
  <2> SUFFICES ASSUME NEW d \in AgedRunning
               PROVE  \E r \in inflight : r.v \in Aged /\ r.rid = d
    OBVIOUS
  <2>1. PICK s \in Aged : d \in groups[s].running
    BY DEF AgedRunning
  <2>q. QED
    BY <1>2, <2>1
<1>6. Victims = {r \in inflight : r.v \in Aged}
  BY <1>3, <1>4, <1>5 DEF Victims
<1>7. IsFiniteSet(Victims)
  <2>1. Victims \in SUBSET inflight /\ IsFiniteSet(inflight)
    BY DEF Victims, IInv, LoopInv
  <2>q. QED
    BY <2>1, FS_Subset
<1> DEFINE f == [r \in Victims |-> r.rid]
<1>8. f \in Injection(Victims, AgedRunning) /\ f \in Surjection(Victims, AgedRunning)
  <2>1. f \in [Victims -> AgedRunning]
    BY <1>4, <1>6
  <2>2. \A a, b \in Victims : f[a] = f[b] => a = b
    BY <1>3, <1>6
  <2>3. \A d \in AgedRunning : \E r \in Victims : f[r] = d
    BY <1>5, <1>6
  <2> HIDE DEF f, Victims, AgedRunning
  <2>q. QED
    BY <2>1, <2>2, <2>3 DEF Injection, IsInjective, Surjection
<1> HIDE DEF f
<1>9. Cardinality(AgedRunning) = Cardinality(Victims)
  BY <1>7, <1>8, FS_Surjection
<1>q. QED
  BY <1>6, <1>9

(* The groups after a training step: the batch is off the heads, the aged  *)
(* ones are gone, the group of the new version is open.                    *)
LEMMA GroupsAfterTrain ==
    ASSUME IInv, pc # "failed", RollTrain,
           inflight' = inflight \ Victims, ready' = ready \ Batch, version' = version + 1
    PROVE  /\ DOMAIN groups' = (IF AgedAreCollected THEN DOMAIN groups \ Aged ELSE DOMAIN groups)
                                 \cup {version + 1}
           /\ groups' \in [DOMAIN groups' -> Group]
           /\ \A s \in DOMAIN groups' : GroupOf(s)'
<1> DEFINE kept == EnsureGroup(WithoutBatch, OpenedStep)
           gone == IF AgedAreCollected THEN Aged ELSE {}
           D == (DOMAIN groups \ gone) \cup {version + 1}
<1>1. version \in Nat /\ version + 1 \notin DOMAIN groups /\ version + 1 \notin Aged
  <2>1. version \in Nat /\ DOMAIN groups \subseteq 0..version
    BY DEF IInv, TypeOK, LoopTypeOK
  <2>2. version + 1 \notin 0..version
    BY <2>1
  <2>q. QED
    BY <2>1, <2>2 DEF Aged
<1>2. DOMAIN WithoutBatch = DOMAIN groups
  BY DEF WithoutBatch
<1>3. /\ DOMAIN kept = DOMAIN groups \cup {version + 1}
      /\ \A s \in DOMAIN groups : kept[s] = WithoutBatch[s]
      /\ kept[version + 1] = EmptyGroup
  BY <1>1, <1>2 DEF EnsureGroup, OpenedStep
<1>4. groups' = [s \in D |-> kept[s]]
  <2>1. CASE AgedAreCollected
    <3>1. groups' = [s \in DOMAIN kept \ Aged |-> kept[s]]
      BY <2>1 DEF RollTrain
    <3>2. DOMAIN kept \ Aged = D
      BY <1>1, <1>3, <2>1
    <3> HIDE DEF kept, D
    <3>q. QED
      BY <3>1, <3>2
  <2>2. CASE ~AgedAreCollected
    <3>1. groups' = kept
      BY <2>2 DEF RollTrain
    <3>2. DOMAIN kept = D
      BY <1>3, <2>2
    <3>3. kept = [s \in DOMAIN kept |-> kept[s]]
      BY <1>3 DEF EnsureGroup
    <3> HIDE DEF kept, D
    <3>q. QED
      BY <3>1, <3>2, <3>3
  <2>q. QED
    BY <2>1, <2>2
<1> HIDE DEF kept
<1>5. /\ DOMAIN groups' = D
      /\ \A s \in DOMAIN groups : s \in D => groups'[s] = WithoutBatch[s]
      /\ groups'[version + 1] = EmptyGroup
  <2>1. version + 1 \in D
    OBVIOUS
  <2> HIDE DEF D
  <2>q. QED
    BY <1>3, <1>4, <2>1
<1>6. ASSUME NEW s \in D
      PROVE  groups'[s] \in Group /\ GroupOf(s)'
  <2>1. CASE s = version + 1
    <3>1. EmptyGroup \in Group /\ EmptyGroup.running = {} /\ DOMAIN EmptyGroup.finished = {}
      BY DEF EmptyGroup, Group
    <3>2. groups'[s] = EmptyGroup /\ FinishedIn(s)' = EmptyGroup.finished
      BY <1>5, <2>1 DEF FinishedIn
    <3>3. \A r \in inflight \cup ready : r.v # s
      BY <1>1, <2>1 DEF IInv, GroupInv
    <3>4. {q \in inflight' : q.v = s} = {} /\ {q \in ready' : q.v = s} = {}
      BY <3>3
    <3>q. QED
      BY <3>1, <3>2, <3>4 DEF GroupOf
  <2>2. CASE s # version + 1
    <3>1. s \in DOMAIN groups /\ s \notin gone
      BY <2>2
    <3>2. groups'[s] = WithoutBatch[s] /\ FinishedIn(s)' = WithoutBatch[s].finished
      BY <1>5, <3>1 DEF FinishedIn
    <3>3. /\ WithoutBatch[s].running = groups[s].running
          /\ WithoutBatch[s] \in Group
          /\ {WithoutBatch[s].finished[i] : i \in DOMAIN WithoutBatch[s].finished}
               = {r \in ready \ Batch : r.v = s}
          /\ \A i, j \in DOMAIN WithoutBatch[s].finished :
               WithoutBatch[s].finished[i] = WithoutBatch[s].finished[j] => i = j
      BY <3>1, WithoutBatchMatches
    <3>4. groups[s].running = {r.rid : r \in {q \in inflight : q.v = s}}
      BY <3>1 DEF IInv, GroupInv, GroupOf
    <3>5. {q \in inflight' : q.v = s} = {q \in inflight : q.v = s}
      <4>1. \A q \in inflight : q.v = s => q \notin Victims
        <5>1. CASE AgedAreCollected
          BY <3>1, <5>1, VictimsAreAged
        <5>2. CASE ~AgedAreCollected
          BY <5>2 DEF Victims
        <5>q. QED
          BY <5>1, <5>2
      <4>q. QED
        BY <4>1
    <3> HIDE DEF WithoutBatch
    <3>6. GroupOf(s)'
      BY <3>2, <3>3, <3>4, <3>5 DEF GroupOf
    <3>q. QED
      BY <3>2, <3>3, <3>6
  <2>q. QED
    BY <2>1, <2>2
<1>7. groups' \in [D -> Group]
  <2> HIDE DEF D
  <2>1. \A s \in D : kept[s] \in Group
    BY <1>4, <1>6
  <2>q. QED
    BY <1>4, <2>1
<1>8. D = (IF AgedAreCollected THEN DOMAIN groups \ Aged ELSE DOMAIN groups) \cup {version + 1}
  OBVIOUS
<1> HIDE DEF D
<1>q. QED
  BY <1>5, <1>6, <1>7, <1>8

LEMMA RollTrainStep ==
    ASSUME IInv, RollTrain
    PROVE  /\ IInv'
           /\ Outstanding' \in Nat
           /\ Outstanding' <= Outstanding - BatchSize
<1> DEFINE W == (MaxStaleness + 1) * BatchSize
           M == MaxStaleness * BatchSize
           VB == version * BatchSize
<1>t. /\ LoopTypeOK /\ LoopInv /\ TypeOK /\ GroupInv /\ CountInv /\ StalenessBound
      /\ version \in Nat /\ nConsumed \in Nat /\ BatchSize \in Nat \ {0} /\ MaxStaleness \in Nat
  BY RollAssumption DEF IInv, TypeOK, LoopTypeOK
<1>w. /\ W \in Nat /\ M \in Nat /\ VB \in Nat /\ W = M + BatchSize
      /\ (version + 1) * BatchSize = VB + BatchSize
  BY <1>t
<1>1. /\ TakeBatch(Batch, version + 1, Victims, AgedAreCollected)
      /\ BatchFound
      /\ budget' = budget + BatchSize
      /\ runningPrompts' = runningPrompts - (IF AgedAreCollected THEN Cardinality(AgedRunning) ELSE 0)
      /\ completedPrompts' = completedPrompts
  <2>1. runningPrompts \in Nat
    BY <1>t DEF TypeOK
  <2>q. QED
    BY <2>1 DEF RollTrain, Victims
<1>2. pc = "take" /\ pc # "failed"
  BY <1>1 DEF TakeBatch
<1>3. Batch \in SUBSET ready /\ Cardinality(Batch) = BatchSize
  BY <1>1, <1>2, BatchIsReady, BatchIsFull
<1>4. Victims \in SUBSET inflight
  BY DEF Victims
<1>5. inflight \cap ready = {}
  BY <1>t DEF LoopInv, OneFate
<1>6. /\ pc' = (IF AgedAreCollected THEN "begin" ELSE "failed")
      /\ version' = version + 1
      /\ engineVersion' = version + 1
      /\ nConsumed' = nConsumed + BatchSize
      /\ consumed' = consumed \cup Stamped(Batch)
      /\ inflight' = inflight \ Victims
      /\ ready' = ready \ Batch
  BY <1>1, <1>3, <1>4, <1>5 DEF TakeBatch, ReadyAfter
<1>7. LoopTypeOK' /\ LoopInv'
  <2>1. AgedAreCollected \in BOOLEAN /\ version + 1 \in 0..(version + 1)
    BY <1>t DEF AgedAreCollected
  <2>2. Victims \in SUBSET Request /\ Victims \in SUBSET (inflight \cup (ready \ Batch))
    BY <1>4, <1>t DEF LoopTypeOK
  <2>3. Cardinality(Batch) \in Nat
    BY <1>3, <1>t
  <2> HIDE DEF Victims, Batch, AgedAreCollected
  <2>4. LoopTypeOK'
    BY <1>1, <1>3, <1>t, <2>1, <2>2, <2>3, TakeBatchType
  <2>5. LoopInv'
    BY <1>1, <1>3, <1>t, <2>2, TakeBatchInv
  <2>q. QED
    BY <2>4, <2>5
<1>8. /\ DOMAIN groups' = (IF AgedAreCollected THEN DOMAIN groups \ Aged ELSE DOMAIN groups)
                            \cup {version + 1}
      /\ groups' \in [DOMAIN groups' -> Group]
      /\ \A s \in DOMAIN groups' : GroupOf(s)'
  BY <1>2, <1>6, GroupsAfterTrain
<1>9. /\ Cardinality(inflight) \in Nat /\ Cardinality(ready) \in Nat /\ Cardinality(Victims) \in Nat
      /\ Cardinality(Victims) <= Cardinality(inflight) /\ BatchSize <= Cardinality(ready)
      /\ Cardinality(inflight') = Cardinality(inflight) - Cardinality(Victims)
      /\ Cardinality(ready') = Cardinality(ready) - BatchSize
  <2>1. IsFiniteSet(inflight) /\ IsFiniteSet(ready)
    BY <1>t DEF LoopInv
  <2>2. /\ IsFiniteSet(Victims) /\ Cardinality(Victims) <= Cardinality(inflight)
        /\ Cardinality(Batch) <= Cardinality(ready)
    BY <1>3, <1>4, <2>1, FS_Subset
  <2>3. inflight \cap Victims = Victims /\ ready \cap Batch = Batch
    BY <1>3, <1>4
  <2>4. /\ Cardinality(inflight \ Victims) = Cardinality(inflight) - Cardinality(Victims)
        /\ Cardinality(ready \ Batch) = Cardinality(ready) - Cardinality(Batch)
    <3>1. Cardinality(inflight \ Victims)
            = Cardinality(inflight) - Cardinality(inflight \cap Victims)
      BY <2>1, FS_Difference
    <3>2. Cardinality(ready \ Batch) = Cardinality(ready) - Cardinality(ready \cap Batch)
      BY <2>1, FS_Difference
    <3>q. QED
      BY <2>3, <3>1, <3>2
  <2>q. QED
    BY <1>3, <1>6, <2>1, <2>2, <2>4, FS_CardinalityType
<1>10. /\ Outstanding \in Nat /\ Outstanding' \in Nat
       /\ Outstanding' <= Outstanding - BatchSize
  BY <1>9, <1>t DEF Outstanding
<1>11. TypeOK'
  <2>1. DOMAIN groups' \subseteq 0..version'
    <3>1. DOMAIN groups \subseteq 0..version
      BY <1>t DEF TypeOK
    <3>2. 0..version \subseteq 0..(version + 1) /\ version + 1 \in 0..(version + 1)
      BY <1>t
    <3>q. QED
      BY <1>6, <1>8, <3>1, <3>2
  <2>2. runningPrompts' \in Nat
    <3>1. CASE AgedAreCollected
      BY <1>1, <1>9, <1>t, <3>1, VictimsAreAged DEF CountInv
    <3>2. CASE ~AgedAreCollected
      BY <1>1, <1>t, <3>2 DEF TypeOK
    <3>q. QED
      BY <3>1, <3>2
  <2>q. QED
    BY <1>1, <1>7, <1>8, <1>t, <2>1, <2>2 DEF TypeOK
<1>12. GroupInv'
  <2>1. version' \in DOMAIN groups'
    BY <1>6, <1>8
  <2>2. pc' # "failed" => \A s \in DOMAIN groups' : Floor' <= s
    <3> SUFFICES ASSUME pc' # "failed", NEW s \in DOMAIN groups'
                 PROVE  Floor' <= s
      OBVIOUS
    <3>1. AgedAreCollected /\ Floor' = Floor + 1 /\ Floor \in Int /\ Floor' = version + 1 - MaxStaleness
      BY <1>6, <1>t DEF Floor
    <3>2. CASE s = version + 1
      BY <1>t, <3>1, <3>2
    <3>3. CASE s # version + 1
      <4>1. s \in DOMAIN groups /\ s \notin Aged
        BY <1>8, <3>1, <3>3
      <4>2. s \in Nat /\ ~(s <= Floor)
        BY <4>1, GroupTypes DEF Aged
      <4>q. QED
        BY <3>1, <4>2
    <3>q. QED
      BY <3>2, <3>3
  <2>3. ASSUME NEW r \in inflight' \cup ready'
        PROVE  r.v \in DOMAIN groups'
    <3>1. r.v \in DOMAIN groups
      BY <1>6, <1>t DEF GroupInv
    <3>2. CASE AgedAreCollected /\ r \in inflight'
      BY <1>6, <1>8, <3>1, <3>2, VictimsAreAged
    <3>3. CASE AgedAreCollected /\ r \in ready'
      <4>1. SUFFICES ASSUME r.v \in Aged PROVE FALSE
        BY <1>8, <3>1, <3>3
      <4>2. WithoutBatch[r.v].finished = <<>>
        BY <3>3, <4>1 DEF AgedAreCollected
      <4>3. {WithoutBatch[r.v].finished[i] : i \in DOMAIN WithoutBatch[r.v].finished}
              = {q \in ready \ Batch : q.v = r.v}
        BY <1>2, <3>1, WithoutBatchMatches
      <4>4. r \in {q \in ready \ Batch : q.v = r.v}
        BY <1>6, <3>3
      <4> HIDE DEF WithoutBatch
      <4>q. QED
        BY <4>2, <4>3, <4>4
    <3>4. CASE ~AgedAreCollected
      BY <1>8, <3>1, <3>4
    <3>q. QED
      BY <3>2, <3>3, <3>4
  <2>q. QED
    BY <1>8, <2>1, <2>2, <2>3 DEF GroupInv
<1>13. CountInv'
  <2>1. runningPrompts' = Cardinality(inflight')
    <3>1. CASE AgedAreCollected
      BY <1>1, <1>9, <1>t, <3>1, VictimsAreAged DEF CountInv
    <3>2. CASE ~AgedAreCollected
      <4>1. Cardinality(Victims) = 0
        BY <3>2, FS_EmptySet DEF Victims
      <4>q. QED
        BY <1>1, <1>9, <1>t, <3>2, <4>1 DEF CountInv
    <3>q. QED
      BY <3>1, <3>2
  <2>2. /\ budget' = W + (version + 1) * BatchSize
        /\ nConsumed' = (version + 1) * BatchSize
        /\ completedPrompts' = Cardinality(ready') + nConsumed'
    BY <1>1, <1>6, <1>9, <1>t, <1>w DEF CountInv
  <2>3. Outstanding' <= M
    BY <1>10, <1>t, <1>w DEF CountInv
  <2>4. Cardinality(Aging') <= M
    <3>1. IsFiniteSet(inflight') /\ IsFiniteSet(ready') /\ inflight' \cap ready' = {}
      BY <1>7, <1>6, <1>5 DEF LoopInv
    <3>2. /\ IsFiniteSet(inflight' \cup ready')
          /\ Cardinality(inflight' \cup ready') = Outstanding'
      <4>1. /\ IsFiniteSet(inflight' \cup ready')
            /\ Cardinality(inflight' \cup ready') =
                 Cardinality(inflight') + Cardinality(ready') - Cardinality(inflight' \cap ready')
        BY <3>1, FS_Union
      <4>2. Cardinality(inflight' \cap ready') = 0
        BY <3>1, FS_EmptySet
      <4>q. QED
        BY <1>9, <1>t, <4>1, <4>2 DEF Outstanding
    <3>3. Aging' \in SUBSET (inflight' \cup ready')
      BY DEF Aging
    <3>4. Cardinality(Aging') <= Cardinality(inflight' \cup ready') /\ Cardinality(Aging') \in Nat
      BY <3>2, <3>3, FS_Subset, FS_CardinalityType
    <3>q. QED
      BY <1>10, <1>w, <2>3, <3>2, <3>4
  <2>5. pc' # "take"
    BY <1>6
  <2>6. Outstanding' <= W
    BY <1>10, <1>t, <1>w, <2>3
  <2>q. QED
    BY <1>6, <2>1, <2>2, <2>4, <2>5, <2>6 DEF CountInv
<1>14. StalenessBound'
  <2>1. ASSUME NEW c \in Stamped(Batch)
        PROVE  c.at - c.req.v <= MaxStaleness
    <3>1. c.at = version /\ c.req \in ready
      BY <1>3 DEF Stamped
    <3>2. c.req.v \in DOMAIN groups
      BY <1>t, <3>1 DEF GroupInv
    <3>3. c.req.v \in Nat /\ version - MaxStaleness <= c.req.v
      BY <1>2, <1>t, <3>2, GroupTypes DEF GroupInv, Floor
    <3>q. QED
      BY <1>t, <3>1, <3>3
  <2>q. QED
    BY <1>6, <1>t, <2>1 DEF StalenessBound
<1>q. QED
  BY <1>7, <1>10, <1>11, <1>12, <1>13, <1>14 DEF IInv

LEMMA RollStep == IInv /\ [Next]_vars => IInv'
<1> SUFFICES ASSUME IInv, [Next]_vars
             PROVE  IInv'
  OBVIOUS
<1>t. LoopTypeOK
  BY DEF IInv, TypeOK
<1>1. ASSUME NEW n \in 0..AdmitQuota, RollAdmit(n)
      PROVE  IInv'
  BY <1>1, RollAdmitStep
<1>2. CASE RollNoBatch
  <2>1. LoopTypeOK'
    BY <1>t, <1>2, NoBatchType DEF RollNoBatch
  <2>q. QED
    BY <1>2, <2>1, RollIdle DEF RollNoBatch, NoBatch
<1>3. CASE RollTrain
  BY <1>3, RollTrainStep
<1>4. ASSUME NEW r \in inflight, RollComplete(r)
      PROVE  IInv'
  BY <1>4, RollCompleteStep
<1>5. CASE RollEngineReturns
  <2>1. LoopTypeOK'
    BY <1>t, <1>5, EngineReturnsType DEF RollEngineReturns
  <2>q. QED
    BY <1>5, <2>1, RollIdle
       DEF RollEngineReturns, EngineReturns, StopOnBatch, GenerateExhausted, Deadline
<1>6. CASE UNCHANGED vars
  <2>1. LoopTypeOK' /\ LoopInv'
    BY <1>t, <1>6, HaltType, SameListsInv DEF vars, loopVars, IInv
  <2>2. \A s \in DOMAIN groups : GroupOf(s)'
    BY <1>6 DEF vars, loopVars, policyVars, IInv, GroupInv, GroupOf, FinishedIn
  <2>q. QED
    BY <1>6, <2>1, <2>2 DEF vars, loopVars, policyVars, IInv, TypeOK, GroupInv, Floor,
       CountInv, Outstanding, Aging, StalenessBound
<1>q. QED
  BY <1>1, <1>2, <1>3, <1>4, <1>5, <1>6 DEF Next, Halt, vars

-----------------------------------------------------------------------------
(* No request trained on is more than max_staleness versions old, at any   *)
(* step of any run: the consumption floor of _eligible_steps and the groups*)
(* that expire() discards bound it together.                               *)
THEOREM RollStalenessBound == Spec => []StalenessBound
<1>1. IInv => StalenessBound
  BY DEF IInv
<1>q. QED
  BY <1>1, RollInit, RollStep, PTL DEF Spec

(* The groups and the counters of the policy agree with the loop's lists:  *)
(* what on_complete and expire() look up in the groups is all there is.    *)
THEOREM RollGroupsMatchLists == Spec => []GroupsMatchLists
<1>1. ASSUME IInv PROVE GroupsMatchLists
  <2>1. \A s \in DOMAIN groups :
          /\ groups[s].running = {r.rid : r \in {q \in inflight : q.v = s}}
          /\ {FinishedIn(s)[i] : i \in DOMAIN FinishedIn(s)} = {r \in ready : r.v = s}
    BY <1>1 DEF IInv, GroupInv, GroupOf
  <2>2. \A r \in inflight \cup ready : r.v \in DOMAIN groups
    BY <1>1 DEF IInv, GroupInv
  <2>3. UNION {groups[s].running : s \in DOMAIN groups} = {r.rid : r \in inflight}
    BY <2>1, <2>2
  <2>4. \A s \in DOMAIN groups : ToSet(groups[s].finished) = {r \in ready : r.v = s}
    BY <2>1 DEF ToSet, FinishedIn
  <2>5. UNION {ToSet(groups[s].finished) : s \in DOMAIN groups} = ready
    BY <2>2, <2>4
  <2>6. \A r \in inflight : Counted(r)
    BY <1>1, InflightIsCounted
  <2>7. \A s \in DOMAIN groups : \A r \in ToSet(groups[s].finished) : r.v = s
    BY <2>4
  <2>8. /\ runningPrompts = Cardinality(inflight)
        /\ completedPrompts = Cardinality(ready) + nConsumed
    BY <1>1 DEF IInv, CountInv
  <2>q. QED
    BY <2>3, <2>5, <2>6, <2>7, <2>8 DEF GroupsMatchLists
<1>q. QED
  BY <1>1, RollInit, RollStep, PTL DEF Spec

(* With max_staleness at most one, expire() never raises: what is left of  *)
(* earlier versions after a training step is at most one batch, so the     *)
(* next batch takes all the finished prompts of the group that ages.  (With*)
(* two, the shipped default, the run roll_gc finds the assertion violated.)*)
LEMMA FloorGroupIsTaken ==
    ASSUME IInv, MaxStaleness <= 1, pc = "take", NEW s \in Aged
    PROVE  WithoutBatch[s].finished = <<>>
<1> DEFINE f == FinishedIn(s)
           n == Len(f)
           S == 1..n
           R == {r \in ready : r.v = s}
           g == [i \in S |-> f[i]]
<1>t. /\ version \in Nat /\ MaxStaleness \in Nat /\ BatchSize \in Nat \ {0}
      /\ s \in DOMAIN groups /\ s <= Floor
  BY RollAssumption DEF IInv, TypeOK, LoopTypeOK, Aged
<1>1. /\ s \in Nat /\ s = version - MaxStaleness
      /\ \A t \in DOMAIN groups : ~ t < s
  <2>1. \A t \in DOMAIN groups : Floor <= t /\ t \in Nat
    BY GroupTypes DEF IInv, GroupInv
  <2>q. QED
    BY <1>t, <2>1 DEF Floor
<1>2. n \in Nat /\ DOMAIN f = S /\ f \in Seq(Request)
  BY <1>t, GroupTypes
<1>3. {f[i] : i \in S} = R /\ \A i, j \in S : f[i] = f[j] => i = j
  BY <1>t, <1>2 DEF IInv, GroupInv, GroupOf
<1>4. IsFiniteSet(S) /\ Cardinality(S) = n
  BY <1>2, FS_Interval
<1> HIDE DEF f, S
<1>5. g \in Injection(S, R) /\ g \in Surjection(S, R)
  <2>1. g \in [S -> R] /\ \A i \in S : g[i] = f[i]
    BY <1>3
  <2> HIDE DEF g, R
  <2>2. \A r \in R : \E i \in S : g[i] = r
    BY <1>3, <2>1
  <2>q. QED
    BY <1>3, <2>1, <2>2 DEF Injection, IsInjective, Surjection
<1>6. Cardinality(R) = n
  <2> HIDE DEF g, R
  <2>q. QED
    BY <1>4, <1>5, FS_Surjection
<1>7. n <= BatchSize
  <2>1. IsFiniteSet(ready) /\ IsFiniteSet(inflight)
    BY DEF IInv, LoopInv
  <2>2. CASE MaxStaleness = 0
    <3>1. Outstanding <= BatchSize
      BY <1>t, <2>2 DEF IInv, CountInv
    <3>2. R \in SUBSET ready
      OBVIOUS
    <3> HIDE DEF R
    <3>3. Cardinality(R) <= Cardinality(ready)
      BY <2>1, <3>2, FS_Subset
    <3>4. Cardinality(ready) \in Nat /\ Cardinality(inflight) \in Nat
      BY <2>1, FS_CardinalityType
    <3>q. QED
      BY <1>2, <1>6, <1>t, <3>1, <3>3, <3>4 DEF Outstanding
  <2>3. CASE MaxStaleness = 1
    <3>1. Cardinality(Aging) <= BatchSize
      BY <1>t, <2>3 DEF IInv, CountInv
    <3>2. R \in SUBSET Aging
      BY <1>1, <1>t, <2>3 DEF Aging
    <3>3. IsFiniteSet(Aging)
      <4>1. Aging \in SUBSET (inflight \cup ready) /\ IsFiniteSet(inflight \cup ready)
        BY <2>1, FS_Union DEF Aging
      <4>q. QED
        BY <4>1, FS_Subset
    <3> HIDE DEF R
    <3>4. Cardinality(R) <= Cardinality(Aging) /\ Cardinality(Aging) \in Nat
      BY <3>2, <3>3, FS_Subset, FS_CardinalityType
    <3>q. QED
      BY <1>2, <1>6, <1>t, <3>1, <3>4
  <2>q. QED
    BY <1>t, <2>2, <2>3
<1>8. /\ EligibleSteps = DOMAIN groups
      /\ Older(Available, s) = {}
  <2>1. EligibleSteps = DOMAIN groups
    BY AvailableIsReady
  <2>2. \A q \in Available : q[1] \in DOMAIN groups
    BY <2>1 DEF Available
  <2>q. QED
    BY <1>1, <2>1, <2>2 DEF Older
<1>9. TakenFrom(s) = n
  <2>1. Needed(s) = BatchSize
    BY <1>8, <1>t, FS_EmptySet DEF Needed, Older
  <2>q. QED
    BY <1>2, <1>7, <1>8, <1>t, <2>1 DEF TakenFrom, f
<1>10. Batch \in SUBSET ready /\ {r \in Batch : r.v = s} = R
  <2>1. {r \in Batch : r.v = s} = {f[i] : i \in S}
    BY <1>9, <1>t, BatchIsReady DEF f, S
  <2>q. QED
    BY <1>3, <2>1, BatchIsReady
<1>11. {r \in ready \ Batch : r.v = s} = {}
  BY <1>10
<1> DEFINE w == WithoutBatch[s].finished
<1>12. w \in Seq(Request) /\ {w[i] : i \in DOMAIN w} = {}
  BY <1>11, <1>t, WithoutBatchMatches DEF Group
<1> HIDE DEF w
<1>13. DOMAIN w = {}
  BY <1>12
<1>14. w = <<>>
  BY <1>12, <1>13
<1>q. QED
  BY <1>14 DEF w

(* With a max_staleness of 0 or 1 the assertion of expire() cannot fail: a *)
(* batch takes every finished prompt of the oldest group that is eligible, *)
(* so the group that ages next holds none.  At 2 it can (run roll_gc).     *)
THEOREM RollGcIsSafe == ASSUME MaxStaleness <= 1 PROVE Spec => []GcFindsNoFinished
<1>1. IInv => GcFindsNoFinished
  BY FloorGroupIsTaken DEF GcFindsNoFinished, AgedAreCollected
<1>q. QED
  BY <1>1, RollInit, RollStep, PTL DEF Spec

-----------------------------------------------------------------------------
(* The refinement of the admission window.  A training step ends the batch *)
(* and the victims of expire() in one step.                                *)

LEMMA RollWindowStep ==
    IInv /\ [Next]_vars =>
      [Window!Next]_<<Cardinality(inflight) + Cardinality(ready), version>>
<1> DEFINE W == (MaxStaleness + 1) * BatchSize
           out == Cardinality(inflight) + Cardinality(ready)
<1> SUFFICES ASSUME IInv, [Next]_vars
             PROVE  [Window!Next]_<<out, version>>
  OBVIOUS
<1>t. /\ out \in Nat /\ W \in Nat /\ out <= W /\ version \in Nat /\ BatchSize \in Nat \ {0}
  BY QuotaFits, RollAssumption DEF IInv, TypeOK, LoopTypeOK, CountInv, Outstanding
<1> HIDE DEF W
<1>1. ASSUME NEW n \in 0..AdmitQuota, RollAdmit(n)
      PROVE  [Window!Next]_<<out, version>>
  <2>1. AdmitQuota \in Nat /\ n \in Nat /\ (AdmitQuota > 0 => out + AdmitQuota <= W)
    BY QuotaFits DEF Outstanding, W
  <2>2. out' = out + n
    BY <1>1, RollAdmitStep DEF Outstanding
  <2>3. version' = version
    BY <1>1 DEF RollAdmit, Admit
  <2>4. CASE n = 0
    BY <1>t, <2>2, <2>3, <2>4
  <2>5. CASE n > 0
    <3> HIDE DEF out
    <3>1. n \in 1..W /\ out + n <= W
      BY <1>t, <2>1, <2>5
    <3>2. Window!Start(n)
      BY <2>2, <2>3, <3>1 DEF Window!Start, W, out
    <3>q. QED
      BY <3>1, <3>2 DEF Window!Next, W
  <2>q. QED
    BY <2>1, <2>4, <2>5
<1>2. CASE RollTrain
  <2>1. out' \in Nat /\ out' <= out - BatchSize
    BY <1>2, RollTrainStep DEF Outstanding
  <2>2. version' = version + 1 /\ version < NVersions
    BY <1>2 DEF RollTrain, TakeBatch, IInv, CountInv
  <2> DEFINE k == out - out'
  <2>3. k \in 1..W /\ k <= out /\ out' = out - k
    <3>1. \A a, b \in Nat : a <= W /\ b <= a - BatchSize =>
            a - b \in 1..W /\ a - b <= a /\ b = a - (a - b)
      BY <1>t
    <3> HIDE DEF out
    <3>q. QED
      BY <1>t, <2>1, <3>1
  <2>4. Window!Train(k)
    BY <2>2, <2>3 DEF Window!Train
  <2>q. QED
    BY <2>3, <2>4 DEF Window!Next, W
<1>3. ASSUME NEW r \in inflight, RollComplete(r)
      PROVE  [Window!Next]_<<out, version>>
  <2>1. out' = out
    BY <1>3, RollCompleteStep DEF Outstanding
  <2>2. version' = version
    BY <1>3 DEF RollComplete, Complete
  <2>q. QED
    BY <2>1, <2>2
<1>4. CASE UNCHANGED <<inflight, ready, version>>
  BY <1>4
<1>q. QED
  BY <1>1, <1>2, <1>3, <1>4
     DEF Next, vars, loopVars, RollNoBatch, NoBatch, Halt, RollEngineReturns,
         EngineReturns, StopOnBatch, GenerateExhausted, Deadline

(* ROLL's policy, driven by the loop, implements an admission window of    *)
(* max_staleness + 1 batches, whether or not expire() raises.              *)
THEOREM RollImplementsWindow == Spec => ImplementsWindow
<1>1. Init => Window!Init
  BY FS_EmptySet DEF Init, LoopInit, Window!Init
<1>2. ImplementsWindow <=>
        Window!Init /\
        [][Window!Next]_<<Cardinality(inflight) + Cardinality(ready), version>>
  BY DEF ImplementsWindow, Window!Spec
<1>q. QED
  BY <1>1, <1>2, RollInit, RollStep, RollWindowStep, PTL DEF Spec

-----------------------------------------------------------------------------
(* The loop's own accounts, under this policy.                             *)

LEMMA RollBatchStep == IInv /\ BatchInv /\ [Next]_vars => BatchInv'
<1> SUFFICES ASSUME IInv, BatchInv, [Next]_vars
             PROVE  BatchInv'
  OBVIOUS
<1>t. LoopTypeOK /\ LoopInv /\ TypeOK
  BY DEF IInv, TypeOK
<1>1. ASSUME NEW n \in 0..AdmitQuota, RollAdmit(n)
      PROVE  BatchInv'
  <2>1. AdmitQuota \in Nat /\ n \in Nat
    BY QuotaFits
  <2>2. Admit(AdmitQuota, n)
    BY <1>1 DEF RollAdmit
  <2>q. QED
    BY <1>t, <2>1, <2>2, AdmitBatches
<1>2. CASE RollNoBatch
  BY <1>2, SameListsBatches DEF RollNoBatch, NoBatch
<1>3. CASE RollTrain
  <2>1. TakeBatch(Batch, version + 1, Victims, AgedAreCollected) /\ BatchFound
    BY <1>3 DEF RollTrain, Victims
  <2>2. pc # "failed"
    BY <2>1 DEF TakeBatch
  <2>3. Batch \in SUBSET ready /\ Batch # {}
    BY <2>1, <2>2, BatchIsReady, BatchIsFull, FS_EmptySet, RollAssumption
  <2>4. version + 1 \in engineVersion..(version + 1)
    BY <1>t DEF LoopTypeOK
  <2>5. Victims \in SUBSET (inflight \cup (ready \ Batch))
    BY DEF Victims
  <2>q. QED
    BY <1>t, <2>1, <2>3, <2>4, <2>5, TakeBatchBatches
<1>4. ASSUME NEW r \in inflight, RollComplete(r)
      PROVE  BatchInv'
  <2>1. Complete(r, Counted(r)) /\ Counted(r) \in BOOLEAN
    BY <1>4 DEF RollComplete, Counted
  <2>q. QED
    BY <2>1, CompleteBatches
<1>5. CASE RollEngineReturns
  BY <1>5, SameListsBatches
     DEF RollEngineReturns, EngineReturns, StopOnBatch, GenerateExhausted, Deadline
<1>6. CASE UNCHANGED vars
  BY <1>6, SameListsBatches DEF vars, loopVars
<1>q. QED
  BY <1>1, <1>2, <1>3, <1>4, <1>5, <1>6 DEF Next, Halt, vars

(* Driven by ROLL's policy, the loop keeps every request in one list, trains*)
(* on a batch of its own under every version, and never on a request that  *)
(* is newer than its consumer, however long the run is.                    *)
THEOREM RollAccounts == Spec => [](OneFate /\ AllAccounted /\ BatchesAccounted)
<1>1. IInv /\ BatchInv => OneFate /\ AllAccounted /\ BatchesAccounted
  BY DEF IInv, LoopInv, BatchInv
<1>2. Init => BatchInv
  BY BatchInit DEF Init
<1>q. QED
  BY <1>1, <1>2, RollInit, RollStep, RollBatchStep, PTL DEF Spec

=============================================================================
