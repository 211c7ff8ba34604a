------------------------ MODULE EngineInstance_proofs ------------------------
(***************************************************************************)
(* Proofs about one rollout engine instance: induction, folds and lists,   *)
(* what every operator of an instance does to a well-formed one, what its  *)
(* batch is when it is driven in any order of its operations, and that the *)
(* two ways to advance it agree.                                           *)
(***************************************************************************)
EXTENDS EngineInstance, FiniteSetTheorems, WellFoundedInduction, SequenceTheorems, TLAPS

-----------------------------------------------------------------------------
(* Induction over finite sets, extrema and folds.                          *)

\* Among the members of a family of finite sets, one is minimal.
LEMMA MinimalSet ==
    ASSUME NEW S, IsFiniteSet(S), NEW F \in SUBSET (SUBSET S), F # {}
    PROVE  \E x \in F : \A y \in F : y \subseteq x => y = x
<1>1. IsWellFoundedOn(StrictSubsetOrdering(S), FiniteSubsetsOf(S))
  BY FS_StrictSubsetOrderingWellFounded
<1>2. F \subseteq FiniteSubsetsOf(S)
  BY FS_FiniteSubsetsOfFinite
<1>3. PICK x \in F : \A y \in F : ~ (<<y, x>> \in StrictSubsetOrdering(S))
  BY <1>1, <1>2, WFMin
<1>q. QED
  BY <1>3 DEF StrictSubsetOrdering

\* Induction over the natural numbers, with a set for the predicate.
LEMMA NatSetInduction ==
    ASSUME NEW T, 0 \in T, \A n \in Nat : n \in T => n + 1 \in T
    PROVE  Nat \subseteq T
<1> SUFFICES ASSUME NEW n \in Nat, n \notin T PROVE FALSE
  OBVIOUS
<1> DEFINE D == 0..n
           F == {s \in SUBSET D : \E k \in D : k \notin T /\ s = 0..k}
<1>1. F \in SUBSET (SUBSET D) /\ IsFiniteSet(D)
  BY FS_Interval
<1>2. 0..n \in F
  OBVIOUS
<1>3. PICK x \in F : \A y \in F : y \subseteq x => y = x
  <2>1. F # {}
    BY <1>2
  <2> HIDE DEF F, D
  <2>q. QED
    BY <1>1, <2>1, MinimalSet
<1>4. PICK k \in 0..n : k \notin T /\ x = 0..k
  BY <1>3
<1>5. k \in Nat /\ k # 0 /\ k - 1 \in Nat /\ (k - 1) + 1 = k
  BY <1>4
<1>6. k - 1 \notin T
  BY <1>4, <1>5
<1>7. k - 1 \in 0..n /\ 0..(k - 1) \in SUBSET (0..n)
  BY <1>4, <1>5
<1>8. 0..(k - 1) \in F
  BY <1>6, <1>7
<1>9. 0..(k - 1) \subseteq 0..k /\ k \in 0..k /\ k \notin 0..(k - 1)
  BY <1>5
<1>q. QED
  BY <1>3, <1>4, <1>8, <1>9

\* The helper of the library returns the greatest member.
LEMMA MaxIsGreatest ==
    ASSUME NEW S, \A x \in S : x \in Int, IsFiniteSet(S), S # {}
    PROVE  Max(S) \in S /\ \A y \in S : Max(S) >= y
<1> DEFINE F == {t \in SUBSET S : t # {} /\ ~ \E x \in t : \A y \in t : x >= y}
<1>0. F # {} => \E t \in F : \A u \in F : u \subseteq t => u = t
  <2>1. F \in SUBSET (SUBSET S) /\ IsFiniteSet(S)
    OBVIOUS
  <2> HIDE DEF F
  <2>q. QED
    BY <2>1, MinimalSet
<1>1. F = {}
  <2> SUFFICES ASSUME F # {} PROVE FALSE
    OBVIOUS
  <2>1. PICK t \in F : \A u \in F : u \subseteq t => u = t
    BY <1>0
  <2>2. PICK x \in t : TRUE
    BY <2>1
  <2>3. t \ {x} # {}
    BY <2>1, <2>2
  <2>4. t \ {x} \notin F
    BY <2>1, <2>2
  <2>5. PICK m \in t \ {x} : \A y \in t \ {x} : m >= y
    BY <2>1, <2>3, <2>4
  <2>6. CASE x >= m
    BY <2>1, <2>2, <2>5, <2>6
  <2>7. CASE m >= x
    BY <2>1, <2>2, <2>5, <2>7
  <2>q. QED
    BY <2>1, <2>2, <2>5, <2>6, <2>7
<1>2. \E x \in S : \A y \in S : x >= y
  BY <1>1
<1>q. QED
  BY <1>2 DEF Max

\* The least member, likewise.
LEMMA MinIsLeast ==
    ASSUME NEW S, \A x \in S : x \in Int, IsFiniteSet(S), S # {}
    PROVE  Min(S) \in S /\ \A y \in S : Min(S) <= y
<1> DEFINE F == {t \in SUBSET S : t # {} /\ ~ \E x \in t : \A y \in t : x <= y}
<1>0. F # {} => \E t \in F : \A u \in F : u \subseteq t => u = t
  <2>1. F \in SUBSET (SUBSET S) /\ IsFiniteSet(S)
    OBVIOUS
  <2> HIDE DEF F
  <2>q. QED
    BY <2>1, MinimalSet
<1>1. F = {}
  <2> SUFFICES ASSUME F # {} PROVE FALSE
    OBVIOUS
  <2>1. PICK t \in F : \A u \in F : u \subseteq t => u = t
    BY <1>0
  <2>2. PICK x \in t : TRUE
    BY <2>1
  <2>3. t \ {x} # {}
    BY <2>1, <2>2
  <2>4. t \ {x} \notin F
    BY <2>1, <2>2
  <2>5. PICK m \in t \ {x} : \A y \in t \ {x} : m <= y
    BY <2>1, <2>3, <2>4
  <2>6. CASE x <= m
    BY <2>1, <2>2, <2>5, <2>6
  <2>7. CASE m <= x
    BY <2>1, <2>2, <2>5, <2>7
  <2>q. QED
    BY <2>1, <2>2, <2>5, <2>6, <2>7
<1>2. \E x \in S : \A y \in S : x <= y
  BY <1>1
<1>q. QED
  BY <1>2 DEF Min

\* The library's extrema of two numbers.
LEMMA MinOfTwo ==
    ASSUME NEW a \in Int, NEW b \in Int
    PROVE  Min({a, b}) \in {a, b} /\ Min({a, b}) <= a /\ Min({a, b}) <= b
<1>1. IsFiniteSet({a, b})
  <2>1. IsFiniteSet({a}) /\ {a, b} = {a} \cup {b}
    BY FS_Singleton
  <2>2. IsFiniteSet({a} \cup {b})
    BY <2>1, FS_AddElement
  <2>q. QED
    BY <2>1, <2>2
<1>2. {a, b} \subseteq Int /\ {a, b} # {}
  OBVIOUS
<1>q. QED
  BY <1>1, <1>2, MinIsLeast

LEMMA MaxOfTwo ==
    ASSUME NEW a \in Int, NEW b \in Int
    PROVE  Max({a, b}) \in {a, b} /\ Max({a, b}) >= a /\ Max({a, b}) >= b
<1>1. IsFiniteSet({a, b})
  <2>1. IsFiniteSet({a}) /\ {a, b} = {a} \cup {b}
    BY FS_Singleton
  <2>2. IsFiniteSet({a} \cup {b})
    BY <2>1, FS_AddElement
  <2>q. QED
    BY <2>1, <2>2
<1>2. {a, b} \subseteq Int /\ {a, b} # {}
  OBVIOUS
<1>q. QED
  BY <1>1, <1>2, MaxIsGreatest

\* g is a function on the subsets of D.
OnSubsets(g, D) == g = [t \in SUBSET D |-> g[t]]

\* g is the fold of F over D: each set is folded without the member that c
\* chooses of it, and that one last.
IsFold(g, D, c, z, F) ==
    \A t \in SUBSET D : g[t] = IF t = {} THEN z ELSE F[<<g[t \ {c[t]}], c[t]>>]

(* Every fold over a finite set exists: it is defined on the sets of at    *)
(* most m members, for one m after the other.                              *)
LEMMA FoldExists ==
    ASSUME NEW D, IsFiniteSet(D), NEW c, NEW z, NEW F,
           \A t \in SUBSET D : t # {} => c[t] \in t
    PROVE  \E g : OnSubsets(g, D) /\ IsFold(g, D, c, z, F)
<1> DEFINE Folds(g, t) == g[t] = IF t = {} THEN z ELSE F[<<g[t \ {c[t]}], c[t]>>]
           T == {m \in Nat : \E g : \A t \in SUBSET D :
                                        Cardinality(t) <= m => Folds(g, t)}
<1>1. \A t \in SUBSET D : IsFiniteSet(t) /\ Cardinality(t) \in Nat
  BY FS_Subset, FS_CardinalityType
<1>2. ASSUME NEW t \in SUBSET D, t # {}
      PROVE  /\ c[t] \in D /\ t \ {c[t]} \in SUBSET D
             /\ Cardinality(t \ {c[t]}) = Cardinality(t) - 1
             /\ Cardinality(t) # 0
  <2>1. c[t] \in t
    BY <1>2
  <2>2. Cardinality(t \ {c[t]}) = Cardinality(t) - 1 /\ Cardinality(t) # 0
    BY <1>1, <1>2, <2>1, FS_RemoveElement, FS_EmptySet
  <2>q. QED
    BY <2>1, <2>2
<1>3. 0 \in T
  <2> DEFINE g == [t \in SUBSET D |-> z]
  <2>1. \A t \in SUBSET D : Cardinality(t) <= 0 => t = {}
    BY <1>1, FS_EmptySet
  <2>2. \A t \in SUBSET D : Cardinality(t) <= 0 => Folds(g, t)
    BY <2>1
  <2> HIDE DEF Folds, g
  <2>q. QED
    BY <2>2
<1>4. ASSUME NEW m \in Nat, m \in T
      PROVE  m + 1 \in T
  <2>1. PICK g : \A t \in SUBSET D : Cardinality(t) <= m => Folds(g, t)
    BY <1>4
  <2> DEFINE h == [t \in SUBSET D |-> IF Cardinality(t) = m + 1
                                      THEN F[<<g[t \ {c[t]}], c[t]>>] ELSE g[t]]
  <2>2. ASSUME NEW t \in SUBSET D, Cardinality(t) = m + 1
        PROVE  Folds(h, t)
    <3>1. t # {}
      <4>1. Cardinality({}) = 0 /\ m + 1 # 0
        BY FS_EmptySet
      <4> HIDE DEF h
      <4>q. QED
        BY <2>2, <4>1
    <3>2. t \ {c[t]} \in SUBSET D /\ Cardinality(t \ {c[t]}) # m + 1
      BY <1>2, <2>2, <3>1
    <3>3. h[t \ {c[t]}] = g[t \ {c[t]}]
      BY <3>2
    <3>4. h[t] = F[<<h[t \ {c[t]}], c[t]>>]
      BY <2>2, <3>3
    <3> HIDE DEF h
    <3>q. QED
      BY <3>1, <3>4
  <2>3. ASSUME NEW t \in SUBSET D, Cardinality(t) <= m
        PROVE  Folds(h, t)
    <3>0. Cardinality(t) # m + 1
      BY <1>1, <2>3
    <3>a. h[t] = g[t]
      BY <3>0
    <3>b. Folds(g, t)
      <4> HIDE DEF Folds, h
      <4>q. QED
        BY <2>1, <2>3
    <3>1. Folds(g, t) /\ h[t] = g[t]
      BY <3>a, <3>b
    <3>2. CASE t = {}
      BY <3>1, <3>2
    <3>3. CASE t # {}
      <4>1. t \ {c[t]} \in SUBSET D /\ Cardinality(t \ {c[t]}) = Cardinality(t) - 1
        BY <1>2, <3>3
      <4>2. Cardinality(t \ {c[t]}) # m + 1
        BY <1>1, <2>3, <4>1
      <4>3. h[t \ {c[t]}] = g[t \ {c[t]}]
        BY <4>1, <4>2
      <4> HIDE DEF h
      <4>q. QED
        BY <3>1, <3>3, <4>3
    <3>q. QED
      BY <3>2, <3>3
  <2>4. ASSUME NEW t \in SUBSET D, Cardinality(t) <= m + 1
        PROVE  Folds(h, t)
    <3>1. Cardinality(t) <= m \/ Cardinality(t) = m + 1
      BY <1>1, <2>4
    <3> HIDE DEF h, Folds
    <3>q. QED
      BY <2>2, <2>3, <3>1
  <2> HIDE DEF h, Folds
  <2>q. QED
    BY <2>4
<1>5. Nat \subseteq T
  <2> HIDE DEF T
  <2>q. QED
    BY <1>3, <1>4, NatSetInduction
<1>6. PICK g : \A t \in SUBSET D : Cardinality(t) <= Cardinality(D) => Folds(g, t)
  BY <1>1, <1>5
<1>7. \A t \in SUBSET D : Folds(g, t)
  <2> HIDE DEF Folds
  <2>q. QED
    BY <1>6, FS_Subset
<1> DEFINE f == [t \in SUBSET D |-> g[t]]
<1>8. OnSubsets(f, D)
  BY DEF OnSubsets
<1>9. IsFold(f, D, c, z, F)
  <2>1. \A t \in SUBSET D : f[t] = g[t]
    OBVIOUS
  <2> HIDE DEF f
  <2>2. ASSUME NEW t \in SUBSET D
        PROVE  f[t] = IF t = {} THEN z ELSE F[<<f[t \ {c[t]}], c[t]>>]
    <3>1. f[t] = g[t] /\ f[t \ {c[t]}] = g[t \ {c[t]}]
      BY <2>1
    <3>q. QED
      BY <1>7, <3>1
  <2>q. QED
    BY <2>2 DEF IsFold
<1> HIDE DEF f
<1>q. QED
  BY <1>8, <1>9

(* What the empty set has and each next member keeps, every fold has: S[t] *)
(* is what the fold of t is known to be in.                                *)
LEMMA FoldKeeps ==
    ASSUME NEW D, IsFiniteSet(D), NEW c, \A t \in SUBSET D : t # {} => c[t] \in t,
           NEW h, NEW S, h[{}] \in S[{}],
           \A t \in SUBSET D : t # {} /\ h[t \ {c[t]}] \in S[t \ {c[t]}] => h[t] \in S[t]
    PROVE  \A t \in SUBSET D : h[t] \in S[t]
<1> DEFINE Bad == {t \in SUBSET D : h[t] \notin S[t]}
<1> SUFFICES ASSUME Bad # {} PROVE FALSE
  OBVIOUS
<1>1. PICK t \in Bad : \A u \in Bad : u \subseteq t => u = t
  <2>1. Bad \in SUBSET (SUBSET D)
    OBVIOUS
  <2> HIDE DEF Bad
  <2>q. QED
    BY <2>1, MinimalSet
<1>2. t # {} /\ c[t] \in t /\ t \ {c[t]} \in SUBSET D
  BY <1>1
<1>3. t \ {c[t]} \notin Bad
  <2> HIDE DEF Bad
  <2>q. QED
    BY <1>1, <1>2
<1>q. QED
  BY <1>1, <1>2, <1>3

\* The newest place of a sequence, or the newest member of a set of ids.
LEMMA MaxChooses ==
    ASSUME NEW D, IsFiniteSet(D), \A k \in D : k \in Int, NEW t \in SUBSET D, t # {}
    PROVE  Max(t) \in t /\ t \ {Max(t)} \in SUBSET D /\ \A k \in t : k <= Max(t)
<1>1. IsFiniteSet(t) /\ \A k \in t : k \in Int
  BY FS_Subset
<1>2. Max(t) \in t /\ \A k \in t : Max(t) >= k
  BY <1>1, MaxIsGreatest
<1>q. QED
  BY <1>1, <1>2

\* The greatest member is the last one.
IsMaxFold(g, D, z, F) ==
    \A t \in SUBSET D : g[t] = IF t = {} THEN z ELSE F[<<g[t \ {Max(t)}], Max(t)>>]

(* A fold over a set of numbers that stays in U.                           *)
LEMMA FoldTyped ==
    ASSUME NEW D, IsFiniteSet(D), \A k \in D : k \in Int, NEW U, NEW z \in U, NEW F,
           \A x \in U \X D : F[x] \in U
    PROVE  \E g : /\ OnSubsets(g, D) /\ IsMaxFold(g, D, z, F)
                  /\ \A t \in SUBSET D : g[t] \in U
<1> DEFINE c == [t \in SUBSET D |-> Max(t)]
           Us == [t \in SUBSET D |-> U]
<1>1. \A t \in SUBSET D : c[t] = Max(t) /\ Us[t] = U
  OBVIOUS
<1> HIDE DEF c, Us
<1>2. \A t \in SUBSET D : t # {} => c[t] \in t /\ c[t] \in D
  BY <1>1, MaxChooses
<1>3. PICK g : OnSubsets(g, D) /\ IsFold(g, D, c, z, F)
  BY <1>2, FoldExists
<1>4. \A t \in SUBSET D : g[t] = IF t = {} THEN z ELSE F[<<g[t \ {c[t]}], c[t]>>]
  BY <1>3 DEF IsFold
<1>5. g[{}] \in Us[{}]
  <2>1. {} \in SUBSET D
    OBVIOUS
  <2>2. g[{}] = z /\ Us[{}] = U
    BY <1>1, <1>4, <2>1
  <2>q. QED
    BY <2>2
<1>6. \A t \in SUBSET D : t # {} /\ g[t \ {c[t]}] \in Us[t \ {c[t]}] => g[t] \in Us[t]
  <2> SUFFICES ASSUME NEW t \in SUBSET D, t # {}, g[t \ {c[t]}] \in Us[t \ {c[t]}]
               PROVE  g[t] \in Us[t]
    OBVIOUS
  <2>1. g[t \ {c[t]}] \in U /\ c[t] \in D
    BY <1>1, <1>2
  <2>2. F[<<g[t \ {c[t]}], c[t]>>] \in U
    BY <2>1
  <2>q. QED
    BY <1>1, <1>4, <2>2
<1>7. \A t \in SUBSET D : g[t] \in Us[t]
  BY <1>2, <1>5, <1>6, FoldKeeps
<1>8. IsMaxFold(g, D, z, F)
  <2>1. \A t \in SUBSET D : g[t] = IF t = {} THEN z ELSE F[<<g[t \ {Max(t)}], Max(t)>>]
    BY <1>1, <1>4
  <2>q. QED
    BY <2>1 DEF IsMaxFold
<1>9. \A t \in SUBSET D : g[t] \in U
  BY <1>1, <1>7
<1>q. QED
  BY <1>3, <1>8, <1>9

\* The places of a list, one after the other.
LEMMA Places ==
    ASSUME NEW n \in Nat
    PROVE  /\ IsFiniteSet(1..n) /\ \A k \in 1..n : k \in Int
           /\ (1..0) = {} /\ (1..0) \in SUBSET (1..n)
           /\ \A k \in 1..n : /\ 1..k \in SUBSET (1..n) /\ 1..k # {}
                              /\ Max(1..k) = k /\ (1..k) \ {k} = 1..(k - 1)
                              /\ k - 1 \in 0..n
<1>1. IsFiniteSet(1..n)
  BY FS_Interval
<1>2. ASSUME NEW k \in 1..n
      PROVE  Max(1..k) = k
  <2>0. 1 \in Int /\ k \in Int /\ 1 \in 1..k
    OBVIOUS
  <2>1. IsFiniteSet(1..k)
    BY <2>0, FS_Interval
  <2>2. Max(1..k) \in 1..k /\ \A y \in 1..k : Max(1..k) >= y
    <3> DEFINE K == 1..k
    <3>1. IsFiniteSet(K) /\ K # {} /\ \A x \in K : x \in Int
      BY <2>0, <2>1
    <3> HIDE DEF K
    <3>2. Max(K) \in K /\ \A y \in K : Max(K) >= y
      BY <3>1, MaxIsGreatest
    <3>q. QED
      BY <3>2 DEF K
  <2>3. k \in 1..k /\ \A x \in 1..k : x >= k => x = k
    OBVIOUS
  <2>q. QED
    BY <2>2, <2>3
<1>q. QED
  BY <1>1, <1>2

\* Induction along the places of a list.
LEMMA AlongPlaces ==
    ASSUME NEW n \in Nat, NEW q, NEW P, q[0] \in P[0],
           \A k \in 1..n : q[k - 1] \in P[k - 1] => q[k] \in P[k]
    PROVE  \A k \in 0..n : q[k] \in P[k]
<1> DEFINE T == {m \in Nat : m <= n => q[m] \in P[m]}
<1>1. 0 \in T
  OBVIOUS
<1>2. \A m \in Nat : m \in T => m + 1 \in T
  <2> SUFFICES ASSUME NEW m \in Nat, m <= n => q[m] \in P[m], m + 1 <= n
               PROVE  q[m + 1] \in P[m + 1]
    OBVIOUS
  <2>1. m + 1 \in 1..n /\ (m + 1) - 1 = m /\ m <= n
    OBVIOUS
  <2>q. QED
    BY <2>1
<1>3. Nat \subseteq T
  <2> HIDE DEF T
  <2>q. QED
    BY <1>1, <1>2, NatSetInduction
<1>q. QED
  BY <1>3

-----------------------------------------------------------------------------
(* Lists.                                                                  *)

LEMMA ListFacts ==
    ASSUME NEW R, NEW list \in Seq(R)
    PROVE  /\ Len(list) \in Nat /\ DOMAIN list = 1..Len(list)
           /\ \A k \in 1..Len(list) : list[k] \in R
           /\ ToSet(list) \in SUBSET R /\ IsFiniteSet(ToSet(list))
           /\ ToSet(list) = {} <=> list = <<>>
<1>1. /\ Len(list) \in Nat /\ DOMAIN list = 1..Len(list)
      /\ \A k \in 1..Len(list) : list[k] \in R
  OBVIOUS
<1>2. ToSet(list) \in SUBSET R
  BY <1>1 DEF ToSet
<1> DEFINE D == 1..Len(list)
           T == ToSet(list)
<1>3. IsFiniteSet(D)
  BY <1>1, FS_Interval
<1>4. list \in [D -> T] /\ \A y \in T : \E k \in D : list[k] = y
  BY <1>1 DEF ToSet
<1>5. IsFiniteSet(T)
  <2> HIDE DEF D, T
  <2>1. list \in Surjection(D, T)
    BY <1>4 DEF Surjection
  <2>q. QED
    BY <1>3, <2>1, FS_Surjection
<1>6. T = {} <=> list = <<>>
  <2>1. ASSUME list # <<>> PROVE T # {}
    <3>1. 1 \in DOMAIN list
      BY <1>1, <2>1
    <3>q. QED
      BY <3>1 DEF ToSet
  <2>2. ASSUME list = <<>> PROVE T = {}
    BY <2>2 DEF ToSet
  <2>q. QED
    BY <2>1, <2>2
<1>q. QED
  BY <1>1, <1>2, <1>5, <1>6

LEMMA AppendFacts ==
    ASSUME NEW R, NEW list \in Seq(R), NEW r \in R
    PROVE  /\ Append(list, r) \in Seq(R)
           /\ Len(Append(list, r)) = Len(list) + 1
           /\ ToSet(Append(list, r)) = ToSet(list) \cup {r}
           /\ IsInjective(list) /\ r \notin ToSet(list) => IsInjective(Append(list, r))
<1> DEFINE new == Append(list, r)
           n == Len(list)
<1>1. n \in Nat /\ DOMAIN list = 1..n
  OBVIOUS
<1>2. /\ new \in Seq(R) /\ Len(new) = n + 1 /\ DOMAIN new = 1..(n + 1)
      /\ \A k \in 1..n : new[k] = list[k]
      /\ new[n + 1] = r
  OBVIOUS
<1> HIDE DEF new, n
<1>3. \A k \in 1..(n + 1) : k = n + 1 \/ k \in 1..n
  BY <1>1
<1>4. ToSet(new) = ToSet(list) \cup {r}
  BY <1>1, <1>2, <1>3 DEF ToSet
<1>5. IsInjective(list) /\ r \notin ToSet(list) => IsInjective(new)
  BY <1>1, <1>2, <1>3 DEF IsInjective, ToSet
<1>q. QED
  BY <1>2, <1>4, <1>5 DEF new, n

LEMMA ConcatFacts ==
    ASSUME NEW R, NEW a \in Seq(R), NEW b \in Seq(R)
    PROVE  /\ a \o b \in Seq(R)
           /\ Len(a \o b) = Len(a) + Len(b)
           /\ ToSet(a \o b) = ToSet(a) \cup ToSet(b)
           /\ IsInjective(a) /\ IsInjective(b) /\ ToSet(a) \cap ToSet(b) = {}
                => IsInjective(a \o b)
<1> DEFINE ab == a \o b
           n == Len(a)
           m == Len(b)
<1>1. n \in Nat /\ m \in Nat /\ DOMAIN a = 1..n /\ DOMAIN b = 1..m
  OBVIOUS
<1>2. /\ ab \in Seq(R) /\ Len(ab) = n + m /\ DOMAIN ab = 1..(n + m)
      /\ \A k \in 1..n : ab[k] = a[k]
      /\ \A k \in 1..m : ab[n + k] = b[k]
  OBVIOUS
<1> HIDE DEF ab, n, m
<1>3. \A k \in 1..(n + m) : (k \in 1..n \/ k - n \in 1..m) /\ n + (k - n) = k
  BY <1>1
<1>4. \A k \in 1..m : n + k \in 1..(n + m)
  BY <1>1
<1>4a. \A k \in 1..n : k \in 1..(n + m)
  BY <1>1
<1>5. ToSet(ab) = ToSet(a) \cup ToSet(b)
  <2>1. ASSUME NEW k \in 1..(n + m) PROVE ab[k] \in ToSet(a) \cup ToSet(b)
    BY <1>1, <1>2, <1>3 DEF ToSet
  <2>2. ASSUME NEW k \in 1..n PROVE a[k] \in ToSet(ab)
    BY <1>2, <1>4a DEF ToSet
  <2>3. ASSUME NEW k \in 1..m PROVE b[k] \in ToSet(ab)
    BY <1>2, <1>4 DEF ToSet
  <2>4. ToSet(a) \subseteq ToSet(ab) /\ ToSet(b) \subseteq ToSet(ab)
    BY <1>1, <2>2, <2>3 DEF ToSet
  <2>5. ToSet(ab) \subseteq ToSet(a) \cup ToSet(b)
    <3>1. ToSet(ab) = {ab[k] : k \in 1..(n + m)}
      BY <1>2 DEF ToSet
    <3>q. QED
      BY <2>1, <3>1
  <2>q. QED
    BY <2>4, <2>5
<1>6. ASSUME IsInjective(a), IsInjective(b), ToSet(a) \cap ToSet(b) = {}
      PROVE  IsInjective(ab)
  <2> SUFFICES ASSUME NEW k \in 1..(n + m), NEW l \in 1..(n + m), ab[k] = ab[l]
               PROVE  k = l
    BY <1>2 DEF IsInjective
  <2>1. \A i \in 1..n, j \in 1..m : a[i] # b[j]
    BY <1>1, <1>6 DEF ToSet
  <2>2. CASE k \in 1..n /\ l \in 1..n
    BY <1>1, <1>2, <1>6, <2>2 DEF IsInjective
  <2>3. CASE k - n \in 1..m /\ l - n \in 1..m
    <3>1. ab[k] = b[k - n] /\ ab[l] = b[l - n]
      BY <1>2, <1>3, <2>3
    <3>2. k - n = l - n
      BY <1>1, <1>6, <2>3, <3>1 DEF IsInjective
    <3>q. QED
      BY <1>1, <3>2
  <2>4. CASE k \in 1..n /\ l - n \in 1..m
    BY <1>2, <1>3, <2>1, <2>4
  <2>5. CASE k - n \in 1..m /\ l \in 1..n
    BY <1>2, <1>3, <2>1, <2>5
  <2>q. QED
    BY <1>3, <2>2, <2>3, <2>4, <2>5
<1>q. QED
  BY <1>2, <1>5, <1>6 DEF ab, n, m

LEMMA ConcatAssoc ==
    ASSUME NEW R, NEW a \in Seq(R), NEW b \in Seq(R), NEW c \in Seq(R)
    PROVE  (a \o b) \o c = a \o (b \o c)
<1> DEFINE left == (a \o b) \o c
           right == a \o (b \o c)
           x == Len(a)
           y == Len(b)
           z == Len(c)
<1>1. x \in Nat /\ y \in Nat /\ z \in Nat /\ a \o b \in Seq(R) /\ b \o c \in Seq(R)
  OBVIOUS
<1>2. /\ left \in Seq(R) /\ right \in Seq(R)
      /\ Len(left) = x + y + z /\ Len(right) = x + y + z
  BY <1>1
<1>3. \A k \in 1..(x + y + z) : left[k] = right[k]
  <2> SUFFICES ASSUME NEW k \in 1..(x + y + z) PROVE left[k] = right[k]
    OBVIOUS
  <2>1. CASE k <= x
    BY <1>1, <2>1
  <2>2. CASE k > x /\ k <= x + y
    BY <1>1, <2>2
  <2>3. CASE k > x + y
    BY <1>1, <2>3
  <2>q. QED
    BY <1>1, <2>1, <2>2, <2>3
<1> HIDE DEF left, right
<1>4. left = right
  BY <1>2, <1>3, SeqEqual
<1>q. QED
  BY <1>4 DEF left, right

\* The first n members of a list.
LEMMA PrefixFacts ==
    ASSUME NEW R, NEW list \in Seq(R), NEW n \in Nat, n <= Len(list)
    PROVE  /\ SubSeq(list, 1, n) \in Seq(R)
           /\ Len(SubSeq(list, 1, n)) = n
           /\ \A k \in 1..n : SubSeq(list, 1, n)[k] = list[k]
           /\ ToSet(SubSeq(list, 1, n)) \subseteq ToSet(list)
           /\ IsInjective(list) => IsInjective(SubSeq(list, 1, n))
<1> DEFINE front == SubSeq(list, 1, n)
<1>1. Len(list) \in Nat /\ DOMAIN list = 1..Len(list)
  OBVIOUS
<1>2. front \in Seq(R) /\ Len(front) = n /\ \A k \in 1..n : front[k] = list[k]
  BY <1>1
<1>3. DOMAIN front = 1..n /\ 1..n \subseteq 1..Len(list)
  BY <1>1, <1>2
<1> HIDE DEF front
<1>4. ToSet(front) \subseteq ToSet(list)
  BY <1>1, <1>2, <1>3 DEF ToSet
<1>5. IsInjective(list) => IsInjective(front)
  BY <1>1, <1>2, <1>3 DEF IsInjective
<1>q. QED
  BY <1>2, <1>4, <1>5 DEF front

\* Kept(list, S) has the members of list that are in S, each as often.
LEMMA KeptFacts ==
    ASSUME NEW R, NEW list \in Seq(R), NEW S
    PROVE  /\ Kept(list, S) \in Seq(R)
           /\ ToSet(Kept(list, S)) = ToSet(list) \cap S
           /\ Len(Kept(list, S)) <= Len(list)
           /\ IsInjective(list) => IsInjective(Kept(list, S))
           /\ ToSet(list) \subseteq S => Kept(list, S) = list
<1> DEFINE n == Len(list)
           D == 1..n
           U == Seq(R)
           Op(kept, k) == IF list[k] \in S THEN Append(kept, list[k]) ELSE kept
           After(g, t) == IF t = {} THEN <<>> ELSE Op(g[t \ {Max(t)}], Max(t))
           h == CHOOSE g : g = [t \in SUBSET D |-> After(g, t)]
           F == [x \in U \X D |-> Op(x[1], x[2])]
<1>1. n \in Nat /\ DOMAIN list = D /\ IsFiniteSet(D) /\ \A k \in D : k \in Int
  BY Places
<1>2. Kept(list, S) = h[D]
  <2>1. Kept(list, S) =
           (CHOOSE g : g = [t \in SUBSET (DOMAIN list) |-> After(g, t)])[DOMAIN list]
    BY DEF Kept, FoldLeft, MapThenFoldSet
  <2>q. QED
    BY <1>1, <2>1
<1>3. \A k \in D : list[k] \in R
  BY <1>1
<1>4. \A u \in U, k \in D : F[<<u, k>>] = Op(u, k) /\ Op(u, k) \in U
  BY <1>3
<1>5. \E g : g = [t \in SUBSET D |-> After(g, t)]
  <2>1. \A x \in U \X D : F[x] \in U
    BY <1>3
  <2>2. <<>> \in U
    OBVIOUS
  <2> DEFINE z == <<>>
  <2> HIDE DEF D, F, U, Op, z
  <2>3. PICK g : OnSubsets(g, D) /\ IsMaxFold(g, D, z, F) /\ \A t \in SUBSET D : g[t] \in U
    <3>1. z \in U
      BY <2>2 DEF z
    <3>q. QED
      BY <1>1, <2>1, <3>1, FoldTyped
  <2> USE DEF z
  <2>4. \A t \in SUBSET D : g[t] = After(g, t)
    <3> SUFFICES ASSUME NEW t \in SUBSET D, t # {}
                 PROVE  g[t] = Op(g[t \ {Max(t)}], Max(t))
      BY <2>3 DEF IsMaxFold
    <3>1. Max(t) \in t /\ t \ {Max(t)} \in SUBSET D
      BY <1>1, MaxChooses
    <3>2. g[t] = F[<<g[t \ {Max(t)}], Max(t)>>]
      BY <2>3 DEF IsMaxFold
    <3>q. QED
      BY <1>4, <2>3, <3>1, <3>2
  <2> HIDE DEF After
  <2>5. g = [t \in SUBSET D |-> After(g, t)]
    BY <2>3, <2>4 DEF OnSubsets
  <2>q. QED
    BY <2>5
<1>6. h = [t \in SUBSET D |-> After(h, t)]
  <2> HIDE DEF D, After
  <2>q. QED
    BY <1>5
<1>7. \A t \in SUBSET D : h[t] = After(h, t)
  <2> HIDE DEF h, After
  <2>q. QED
    BY <1>6
<1> HIDE DEF h
<1> DEFINE q == [k \in 0..n |-> h[1..k]]
           FirstOf(k) == {list[j] : j \in 1..k}
           Is(k, s) == /\ ToSet(s) = FirstOf(k) \cap S
                       /\ Len(s) <= k
                       /\ IsInjective(list) => IsInjective(s)
           Same(k, s) == ToSet(list) \subseteq S => Len(s) = k /\ \A j \in 1..k : s[j] = list[j]
           P == [k \in 0..n |-> {s \in U : Is(k, s) /\ Same(k, s)}]
<1>8. /\ q[0] = <<>>
      /\ \A k \in 1..n : k - 1 \in 0..n /\ q[k] = Op(q[k - 1], k)
  <2>1. q[0] = h[1..0] /\ \A k \in 1..n : q[k] = h[1..k] /\ q[k - 1] = h[1..(k - 1)]
    BY <1>1
  <2>2. /\ (1..0) = {} /\ (1..0) \in SUBSET D
        /\ \A k \in 1..n : /\ 1..k \in SUBSET D /\ 1..k # {}
                           /\ Max(1..k) = k /\ (1..k) \ {k} = 1..(k - 1)
                           /\ k - 1 \in 0..n
    BY <1>1, Places
  <2>3. h[1..0] = <<>>
    BY <1>7, <2>2
  <2>4. \A k \in 1..n : h[1..k] = Op(h[1..(k - 1)], k)
    <3> SUFFICES ASSUME NEW k \in 1..n PROVE h[1..k] = Op(h[1..(k - 1)], k)
      OBVIOUS
    <3>1. h[1..k] = Op(h[(1..k) \ {Max(1..k)}], Max(1..k))
      <4> HIDE DEF Op
      <4>q. QED
        BY <1>7, <2>2
    <3>q. QED
      BY <2>2, <3>1
  <2> HIDE DEF Op, q
  <2>q. QED
    BY <2>1, <2>2, <2>3, <2>4
<1>9. Kept(list, S) = q[n]
  BY <1>1, <1>2
<1> HIDE DEF q
<1>10. \A k \in 0..n : \A s : s \in P[k] <=> s \in U /\ Is(k, s) /\ Same(k, s)
  OBVIOUS
<1> HIDE DEF P
<1>11. q[0] \in P[0]
  <2>1. ToSet(<<>>) = {} /\ Len(<<>>) = 0 /\ IsInjective(<<>>) /\ <<>> \in Seq(R)
    BY DEF ToSet, IsInjective
  <2>2. FirstOf(0) = {} /\ 0 \in 0..n
    BY <1>1
  <2>3. Is(0, <<>>)
    BY <2>1, <2>2
  <2>4. Same(0, <<>>)
    BY <2>1
  <2> HIDE DEF Is, Same, Op
  <2>q. QED
    BY <1>8, <1>10, <2>1, <2>2, <2>3, <2>4
<1>12. ASSUME NEW k \in 1..n, q[k - 1] \in P[k - 1]
       PROVE  q[k] \in P[k]
  <2>1. k \in D /\ k - 1 \in 0..n /\ k \in 0..n /\ (k - 1) + 1 = k /\ k \in Int
    BY <1>1
  <2>2. q[k - 1] \in Seq(R) /\ Is(k - 1, q[k - 1]) /\ q[k] = Op(q[k - 1], k) /\ list[k] \in R
    BY <1>3, <1>8, <1>10, <1>12, <2>1
  <2>3. FirstOf(k) = FirstOf(k - 1) \cup {list[k]}
    <3>1. 1..k = (1..(k - 1)) \cup {k}
      BY <2>1
    <3>q. QED
      BY <3>1
  <2>4. IsInjective(list) => list[k] \notin FirstOf(k - 1)
    <3>1. \A j \in 1..(k - 1) : j \in D /\ j # k
      BY <1>1, <2>1
    <3>q. QED
      BY <1>1, <2>1, <3>1 DEF IsInjective
  <2> DEFINE kept == q[k - 1]
  <2>s. Same(k - 1, kept)
    <3> HIDE DEF Same, Is
    <3>q. QED
      BY <1>10, <1>12, <2>1
  <2>l. list[k] \in ToSet(list)
    BY <1>1 DEF ToSet
  <2> HIDE DEF kept, FirstOf, Same
  <2>5. kept \in Seq(R) /\ Len(kept) \in Nat /\ Is(k - 1, kept) /\ q[k] = Op(kept, k)
    BY <2>2 DEF kept
  <2>6. CASE list[k] \in S
    <3>0. q[k] = Append(kept, list[k])
      BY <2>5, <2>6
    <3>a. kept \in Seq(R) /\ list[k] \in R
      BY <2>2, <2>5
    <3>b. /\ Append(kept, list[k]) \in Seq(R)
          /\ Len(Append(kept, list[k])) = Len(kept) + 1
          /\ ToSet(Append(kept, list[k])) = ToSet(kept) \cup {list[k]}
          /\ IsInjective(kept) /\ list[k] \notin ToSet(kept)
               => IsInjective(Append(kept, list[k]))
      BY <3>a, AppendFacts
    <3>1. /\ q[k] \in Seq(R)
          /\ Len(q[k]) = Len(kept) + 1 /\ ToSet(q[k]) = ToSet(kept) \cup {list[k]}
          /\ IsInjective(kept) /\ list[k] \notin ToSet(kept) => IsInjective(q[k])
      BY <3>0, <3>b
    <3>2. Is(k, q[k])
      BY <2>1, <2>3, <2>4, <2>5, <2>6, <3>1
    <3>3. Same(k, q[k])
      <4> SUFFICES ASSUME ToSet(list) \subseteq S
                   PROVE  Len(q[k]) = k /\ \A j \in 1..k : q[k][j] = list[j]
        BY DEF Same
      <4>1. Len(kept) = k - 1 /\ \A j \in 1..(k - 1) : kept[j] = list[j]
        BY <2>s DEF Same
      <4>2. /\ \A j \in 1..Len(kept) : Append(kept, list[k])[j] = kept[j]
            /\ Append(kept, list[k])[Len(kept) + 1] = list[k]
        BY <3>a
      <4>3. \A j \in 1..k : j \in 1..(k - 1) \/ j = k
        BY <2>1
      <4> HIDE DEF Op, Is
      <4>q. QED
        BY <2>1, <3>0, <3>1, <4>1, <4>2, <4>3
    <3> HIDE DEF Is, Op
    <3>q. QED
      BY <1>10, <2>1, <3>1, <3>2, <3>3
  <2>7. CASE list[k] \notin S
    <3>1. q[k] = kept
      BY <2>5, <2>7
    <3>2. Is(k, q[k])
      BY <2>1, <2>3, <2>5, <2>7, <3>1
    <3>3. Same(k, q[k])
      BY <2>7, <2>l DEF Same
    <3> HIDE DEF Is, Op
    <3>q. QED
      BY <1>10, <2>1, <2>5, <3>1, <3>2, <3>3
  <2>q. QED
    BY <2>6, <2>7
<1>13. q[n] \in P[n]
  <2>1. \A k \in 1..n : q[k - 1] \in P[k - 1] => q[k] \in P[k]
    BY <1>12
  <2>2. n \in Nat /\ n \in 0..n
    BY <1>1
  <2> HIDE DEF n, D, U, Op, After, F, FirstOf, Is, Same
  <2>3. \A k \in 0..n : q[k] \in P[k]
    BY <1>11, <2>1, <2>2, AlongPlaces
  <2>q. QED
    BY <2>2, <2>3
<1>14. q[n] \in U /\ Is(n, q[n])
  <2> HIDE DEF Same
  <2>q. QED
    BY <1>1, <1>10, <1>13
<1>s. Same(n, q[n])
  <2> HIDE DEF Is, Same
  <2>q. QED
    BY <1>1, <1>10, <1>13
<1>15. FirstOf(n) = ToSet(list)
  BY <1>1 DEF ToSet
<1>16. ToSet(list) \subseteq S => q[n] = list
  <2> SUFFICES ASSUME ToSet(list) \subseteq S PROVE q[n] = list
    OBVIOUS
  <2> DEFINE kept == q[n]
  <2>1. kept \in Seq(R) /\ Len(kept) = n /\ \A j \in 1..n : kept[j] = list[j]
    BY <1>14, <1>s
  <2> HIDE DEF kept
  <2>2. kept = list
    BY <2>1, SeqEqual
  <2>q. QED
    BY <2>2 DEF kept
<1>q. QED
  BY <1>9, <1>14, <1>15, <1>16

-----------------------------------------------------------------------------
(* What an instance is, and what its work may do to it.                    *)

Requests == UNION {[S -> ReqState] : S \in SUBSET Nat}

\* An instance: three lists without repetitions and without common members.
Well(i) ==
    /\ i \in [waiting : Seq(Nat), running : Seq(Nat), completed : Seq(Nat),
              req : Requests, stats : Seq(Nat)]
    /\ Active(i) \cup ToSet(i.completed) \subseteq DOMAIN i.req
    /\ IsInjective(i.waiting) /\ IsInjective(i.running) /\ IsInjective(i.completed)
    /\ ToSet(i.waiting) \cap ToSet(i.running) = {}
    /\ Active(i) \cap ToSet(i.completed) = {}

\* Request a has become b by generating under version v: the segments that are
\* finished stay, the last one may grow, and new ones are of this version.
Grown(a, b, v) ==
    /\ a.generated <= b.generated
    /\ Len(a.segments) <= Len(b.segments)
    /\ \A k \in 1..Len(a.segments) :
          /\ b.segments[k].version = a.segments[k].version
          /\ k # Len(a.segments) => b.segments[k] = a.segments[k]
    /\ \A k \in 1..Len(b.segments) : k > Len(a.segments) => b.segments[k].version = v

\* Instance i has become j and has completed the requests done.
Follows(i, j, done, v) ==
    /\ Well(j)
    /\ done \in Seq(Nat) /\ ToSet(done) \subseteq Active(i)
    /\ j.completed = i.completed \o done
    /\ Active(j) = Active(i) \ ToSet(done)
    /\ DOMAIN j.req = DOMAIN i.req
    /\ \A r \in DOMAIN i.req : /\ r \notin Active(i) => j.req[r] = i.req[r]
                               /\ Grown(i.req[r], j.req[r], v)
    /\ Len(i.stats) <= Len(j.stats)
    /\ \A k \in 1..Len(i.stats) : j.stats[k] = i.stats[k]

LEMMA GrownRefl ==
    ASSUME NEW a, NEW v, a.generated \in Nat, a.segments \in Seq(Segment)
    PROVE  Grown(a, a, v)
  BY DEF Grown

LEMMA GrownTrans ==
    ASSUME NEW a \in ReqState, NEW b \in ReqState, NEW c \in ReqState, NEW v,
           Grown(a, b, v), Grown(b, c, v)
    PROVE  Grown(a, c, v)
<1>1. /\ a.generated \in Nat /\ b.generated \in Nat /\ c.generated \in Nat
      /\ Len(a.segments) \in Nat /\ Len(b.segments) \in Nat /\ Len(c.segments) \in Nat
  BY DEF ReqState
<1> DEFINE x == Len(a.segments)
           y == Len(b.segments)
           z == Len(c.segments)
<1>2. /\ a.generated <= b.generated /\ x <= y
      /\ b.generated <= c.generated /\ y <= z
      /\ \A k \in 1..x : /\ b.segments[k].version = a.segments[k].version
                         /\ k # x => b.segments[k] = a.segments[k]
      /\ \A k \in 1..y : k > x => b.segments[k].version = v
      /\ \A k \in 1..y : /\ c.segments[k].version = b.segments[k].version
                         /\ k # y => c.segments[k] = b.segments[k]
      /\ \A k \in 1..z : k > y => c.segments[k].version = v
  BY DEF Grown
<1>3. /\ \A k \in 1..x : k \in 1..y /\ (k # x => k # y)
      /\ \A k \in 1..z : k > x => k \in 1..y \/ k > y
  BY <1>1, <1>2
<1>4. a.generated <= c.generated /\ x <= z
  BY <1>1, <1>2
<1> HIDE DEF x, y, z
<1>5. /\ \A k \in 1..x : /\ c.segments[k].version = a.segments[k].version
                         /\ k # x => c.segments[k] = a.segments[k]
      /\ \A k \in 1..z : k > x => c.segments[k].version = v
  BY <1>2, <1>3
<1>q. QED
  BY <1>4, <1>5 DEF Grown, x, z

LEMMA ReqTyped ==
    ASSUME NEW i, Well(i)
    PROVE  /\ DOMAIN i.req \in SUBSET Nat
           /\ i.req = [r \in DOMAIN i.req |-> i.req[r]]
           /\ \A r \in DOMAIN i.req :
                 /\ i.req[r] \in ReqState
                 /\ i.req[r].generated \in Nat /\ i.req[r].prefilled \in Nat
                 /\ i.req[r].segments \in Seq(Segment)
<1>1. i.req \in Requests
  BY DEF Well
<1>2. PICK S \in SUBSET Nat : i.req \in [S -> ReqState]
  BY <1>1 DEF Requests
<1>3. \A r \in DOMAIN i.req : i.req[r] \in ReqState
  BY <1>2
<1>q. QED
  BY <1>2, <1>3 DEF ReqState

LEMMA FollowsRefl ==
    ASSUME NEW i, NEW v, Well(i)
    PROVE  Follows(i, i, <<>>, v)
<1>1. \A r \in DOMAIN i.req : Grown(i.req[r], i.req[r], v)
  BY ReqTyped, GrownRefl
<1>2. /\ i.completed \in Seq(Nat) /\ i.stats \in Seq(Nat)
      /\ ToSet(<<>>) = {} /\ i.completed = i.completed \o <<>>
  BY DEF Well, ToSet
<1>q. QED
  BY <1>1, <1>2 DEF Follows

LEMMA FollowsTrans ==
    ASSUME NEW i, NEW j, NEW k, NEW a, NEW b, NEW v, Well(i),
           Follows(i, j, a, v), Follows(j, k, b, v)
    PROVE  Follows(i, k, a \o b, v)
<1>1. a \in Seq(Nat) /\ b \in Seq(Nat) /\ i.completed \in Seq(Nat)
  BY DEF Follows, Well
<1>2. /\ a \o b \in Seq(Nat) /\ ToSet(a \o b) = ToSet(a) \cup ToSet(b)
      /\ (i.completed \o a) \o b = i.completed \o (a \o b)
  <2>1. a \o b \in Seq(Nat) /\ ToSet(a \o b) = ToSet(a) \cup ToSet(b)
    BY <1>1, ConcatFacts
  <2>2. (i.completed \o a) \o b = i.completed \o (a \o b)
    <3>1. \A x, y, z \in Seq(Nat) : (x \o y) \o z = x \o (y \o z)
      BY ConcatAssoc
    <3>q. QED
      BY <1>1, <3>1
  <2>q. QED
    BY <2>1, <2>2
<1>3. /\ Well(j) /\ Well(k)
      /\ ToSet(a) \subseteq Active(i) /\ Active(j) = Active(i) \ ToSet(a)
      /\ ToSet(b) \subseteq Active(j) /\ Active(k) = Active(j) \ ToSet(b)
      /\ j.completed = i.completed \o a /\ k.completed = j.completed \o b
      /\ DOMAIN j.req = DOMAIN i.req /\ DOMAIN k.req = DOMAIN j.req
      /\ \A r \in DOMAIN i.req : /\ r \notin Active(i) => j.req[r] = i.req[r]
                                 /\ Grown(i.req[r], j.req[r], v)
      /\ \A r \in DOMAIN j.req : /\ r \notin Active(j) => k.req[r] = j.req[r]
                                 /\ Grown(j.req[r], k.req[r], v)
      /\ Len(i.stats) <= Len(j.stats) /\ Len(j.stats) <= Len(k.stats)
      /\ \A n \in 1..Len(i.stats) : j.stats[n] = i.stats[n]
      /\ \A n \in 1..Len(j.stats) : k.stats[n] = j.stats[n]
  BY DEF Follows
<1>4. \A r \in DOMAIN i.req : Grown(i.req[r], k.req[r], v)
  <2> SUFFICES ASSUME NEW r \in DOMAIN i.req PROVE Grown(i.req[r], k.req[r], v)
    OBVIOUS
  <2>1. i.req[r] \in ReqState /\ j.req[r] \in ReqState /\ k.req[r] \in ReqState
    BY <1>3, ReqTyped
  <2>q. QED
    BY <1>3, <2>1, GrownTrans
<1>5. /\ Len(i.stats) <= Len(k.stats)
      /\ \A n \in 1..Len(i.stats) : k.stats[n] = i.stats[n]
  <2>1. Len(i.stats) \in Nat /\ Len(j.stats) \in Nat /\ Len(k.stats) \in Nat
    BY <1>3 DEF Well
  <2> DEFINE x == Len(i.stats)
             y == Len(j.stats)
  <2>2. /\ x \in Nat /\ y \in Nat /\ Len(k.stats) \in Nat /\ x <= y /\ y <= Len(k.stats)
        /\ \A n \in 1..x : j.stats[n] = i.stats[n]
        /\ \A n \in 1..y : k.stats[n] = j.stats[n]
    BY <1>3, <2>1
  <2> HIDE DEF x, y
  <2>3. \A n \in 1..x : n \in 1..y
    BY <2>2
  <2>4. x <= Len(k.stats) /\ \A n \in 1..x : k.stats[n] = i.stats[n]
    BY <2>2, <2>3
  <2>q. QED
    BY <2>4 DEF x
<1>6. \A r \in DOMAIN i.req : r \notin Active(i) => k.req[r] = i.req[r]
  BY <1>3
<1>7. /\ ToSet(a \o b) \subseteq Active(i) /\ Active(k) = Active(i) \ ToSet(a \o b)
      /\ k.completed = i.completed \o (a \o b) /\ DOMAIN k.req = DOMAIN i.req
  BY <1>2, <1>3
<1>q. QED
  BY <1>2, <1>3, <1>4, <1>5, <1>6, <1>7 DEF Follows

Record == [waiting : Seq(Nat), running : Seq(Nat), completed : Seq(Nat),
           req : Requests, stats : Seq(Nat)]

LEMMA WellFields ==
    ASSUME NEW i, Well(i)
    PROVE  /\ i \in Record
           /\ i.waiting \in Seq(Nat) /\ i.running \in Seq(Nat) /\ i.completed \in Seq(Nat)
           /\ i.stats \in Seq(Nat) /\ i.req \in Requests
           /\ i = [waiting |-> i.waiting, running |-> i.running, completed |-> i.completed,
                   req |-> i.req, stats |-> i.stats]
           /\ IsInjective(i.waiting) /\ IsInjective(i.running) /\ IsInjective(i.completed)
           /\ ToSet(i.waiting) \cap ToSet(i.running) = {}
           /\ ToSet(i.waiting) \in SUBSET DOMAIN i.req
           /\ ToSet(i.running) \in SUBSET DOMAIN i.req
           /\ ToSet(i.completed) \in SUBSET DOMAIN i.req
           /\ Active(i) \in SUBSET DOMAIN i.req
           /\ Active(i) \cap ToSet(i.completed) = {}
           /\ Active(i) = ToSet(i.waiting) \cup ToSet(i.running)
<1>1. i \in Record
  BY DEF Well, Record
<1>2. /\ i.waiting \in Seq(Nat) /\ i.running \in Seq(Nat) /\ i.completed \in Seq(Nat)
      /\ i.stats \in Seq(Nat) /\ i.req \in Requests
      /\ i = [waiting |-> i.waiting, running |-> i.running, completed |-> i.completed,
              req |-> i.req, stats |-> i.stats]
  BY <1>1 DEF Record
<1>3. Active(i) = ToSet(i.waiting) \cup ToSet(i.running)
  BY DEF Active
<1>4. /\ Active(i) \cup ToSet(i.completed) \subseteq DOMAIN i.req
      /\ IsInjective(i.waiting) /\ IsInjective(i.running) /\ IsInjective(i.completed)
      /\ ToSet(i.waiting) \cap ToSet(i.running) = {}
      /\ Active(i) \cap ToSet(i.completed) = {}
  BY DEF Well
<1>q. QED
  BY <1>1, <1>2, <1>3, <1>4

\* A step that completes nothing: it reorders the lists and changes requests.
LEMMA Worked ==
    ASSUME NEW i, NEW j, NEW v, Well(i), j \in Record,
           j.completed = i.completed,
           IsInjective(j.waiting), IsInjective(j.running),
           ToSet(j.waiting) \cap ToSet(j.running) = {},
           ToSet(j.waiting) \cup ToSet(j.running) = Active(i),
           DOMAIN j.req = DOMAIN i.req,
           \A r \in DOMAIN i.req : /\ r \notin Active(i) => j.req[r] = i.req[r]
                                   /\ Grown(i.req[r], j.req[r], v),
           Len(i.stats) <= Len(j.stats),
           \A k \in 1..Len(i.stats) : j.stats[k] = i.stats[k]
    PROVE  Follows(i, j, <<>>, v)
<1>1. Active(j) = Active(i)
  BY DEF Active
<1>2. i.completed \in Seq(Nat) /\ IsInjective(i.completed)
  BY WellFields
<1>3. /\ ToSet(<<>>) = {} /\ j.completed = i.completed \o <<>>
  BY <1>2 DEF ToSet
<1>4. Active(i) \cup ToSet(i.completed) \subseteq DOMAIN i.req
      /\ Active(i) \cap ToSet(i.completed) = {}
  BY DEF Well
<1>5. j \in [waiting : Seq(Nat), running : Seq(Nat), completed : Seq(Nat),
             req : Requests, stats : Seq(Nat)]
  BY DEF Record
<1>6. Well(j)
  BY <1>1, <1>2, <1>4, <1>5 DEF Well
<1>7. /\ <<>> \in Seq(Nat) /\ ToSet(<<>>) \subseteq Active(i)
      /\ Active(j) = Active(i) \ ToSet(<<>>)
  BY <1>1, <1>3
<1>q. QED
  BY <1>3, <1>6, <1>7 DEF Follows

\* A step that only reorders the lists.
LEMMA Reordered ==
    ASSUME NEW i, NEW w \in Seq(Nat), NEW q \in Seq(Nat), NEW v, Well(i),
           IsInjective(w), IsInjective(q), ToSet(w) \cap ToSet(q) = {},
           ToSet(w) \cup ToSet(q) = Active(i)
    PROVE  Follows(i, [i EXCEPT !.waiting = w, !.running = q], <<>>, v)
<1> DEFINE j == [i EXCEPT !.waiting = w, !.running = q]
<1>1. i \in Record /\ i.stats \in Seq(Nat)
  BY WellFields
<1>2. /\ j \in Record /\ j.waiting = w /\ j.running = q /\ j.completed = i.completed
      /\ j.req = i.req /\ j.stats = i.stats
  BY <1>1 DEF Record
<1>3. \A r \in DOMAIN i.req : Grown(i.req[r], i.req[r], v)
  BY ReqTyped, GrownRefl
<1>4. Len(i.stats) \in Nat
  BY <1>1
<1> HIDE DEF j
<1>a. /\ \A r \in DOMAIN i.req : /\ r \notin Active(i) => j.req[r] = i.req[r]
                                 /\ Grown(i.req[r], j.req[r], v)
      /\ DOMAIN j.req = DOMAIN i.req
      /\ Len(i.stats) <= Len(j.stats)
      /\ \A k \in 1..Len(i.stats) : j.stats[k] = i.stats[k]
  BY <1>2, <1>3, <1>4
<1>b. /\ IsInjective(j.waiting) /\ IsInjective(j.running)
      /\ ToSet(j.waiting) \cap ToSet(j.running) = {}
      /\ ToSet(j.waiting) \cup ToSet(j.running) = Active(i)
  BY <1>2
<1>5. Follows(i, j, <<>>, v)
  BY <1>2, <1>a, <1>b, Worked
<1>q. QED
  BY <1>5 DEF j

LEMMA EmptyConcat ==
    ASSUME NEW R, NEW a \in Seq(R)
    PROVE  a \o <<>> = a /\ <<>> \o a = a
  OBVIOUS

\* One step after the other.
LEMMA WorkedTwice ==
    ASSUME NEW i, NEW j, NEW k, NEW done, NEW v, Well(i),
           Follows(i, j, <<>>, v), Follows(j, k, done, v)
    PROVE  Follows(i, k, done, v)
<1>1. done \in Seq(Nat)
  BY DEF Follows
<1>2. <<>> \o done = done
  BY <1>1
<1>3. Follows(i, k, <<>> \o done, v)
  BY FollowsTrans
<1>q. QED
  BY <1>2, <1>3

-----------------------------------------------------------------------------
(* The operators an event is built from.                                   *)

LEMMA WithoutFacts ==
    ASSUME NEW list \in Seq(Nat), NEW gone
    PROVE  /\ Without(list, gone) \in Seq(Nat)
           /\ ToSet(Without(list, gone)) = ToSet(list) \ gone
           /\ IsInjective(list) => IsInjective(Without(list, gone))
           /\ ToSet(list) \cap gone = {} => Without(list, gone) = list
<1> DEFINE S == ToSet(list) \ gone
<1>1. /\ Kept(list, S) \in Seq(Nat) /\ ToSet(Kept(list, S)) = ToSet(list) \cap S
      /\ IsInjective(list) => IsInjective(Kept(list, S))
      /\ ToSet(list) \subseteq S => Kept(list, S) = list
  BY KeptFacts
<1>2. Without(list, gone) = Kept(list, S) /\ ToSet(list) \cap S = ToSet(list) \ gone
      /\ (ToSet(list) \cap gone = {} => ToSet(list) \subseteq S)
  BY DEF Without
<1>q. QED
  BY <1>1, <1>2

LEMMA RoomIsInt ==
    ASSUME NEW i, Well(i)
    PROVE  RunningRoom(i) \in Int
<1>1. Len(i.waiting) \in Nat /\ Len(i.running) \in Nat
  BY WellFields
<1>2. MaxConcurrency \in (Nat \ {0}) \cup {NoLimit}
  BY EngineAssumption
<1>q. QED
  BY <1>1, <1>2 DEF RunningRoom

LEMMA PromoteFollows ==
    ASSUME NEW i, NEW ready_ \in Seq(Nat), NEW v, Well(i),
           IsInjective(ready_), ToSet(ready_) \subseteq ToSet(i.waiting)
    PROVE  LET j == Promote(i, ready_)
           IN /\ Follows(i, j, <<>>, v)
              /\ j.req = i.req /\ j.stats = i.stats /\ j.completed = i.completed
              /\ ToSet(i.running) \subseteq ToSet(j.running)
              /\ ToSet(j.waiting) \subseteq ToSet(i.waiting)
              /\ ToSet(j.running) \subseteq ToSet(i.running) \cup ToSet(ready_)
<1> DEFINE room == Max({0, RunningRoom(i)})
           n == Min({Len(ready_), room})
           promoted == SubSeq(ready_, 1, n)
           w == Without(i.waiting, ToSet(promoted))
           q == i.running \o promoted
           j == Promote(i, ready_)
<1>1. room \in Nat
  <2>0. 0 \in Int /\ RunningRoom(i) \in Int
    BY RoomIsInt
  <2>1. room \in {0, RunningRoom(i)} /\ room >= 0
    BY <2>0, MaxOfTwo
  <2>q. QED
    BY <2>1, RoomIsInt
<1>2. n \in Nat /\ n <= Len(ready_)
  <2>1. Len(ready_) \in Nat
    OBVIOUS
  <2>2. Len(ready_) \in Int /\ room \in Int
    BY <1>1, <2>1
  <2> HIDE DEF room
  <2>3. n \in {Len(ready_), room} /\ n <= Len(ready_)
    BY <2>2, MinOfTwo
  <2>q. QED
    BY <1>1, <2>1, <2>3
<1>3. j = [i EXCEPT !.waiting = w, !.running = q]
  BY <1>2, WellFields DEF Promote
<1> HIDE DEF n, room
<1>4. /\ promoted \in Seq(Nat) /\ ToSet(promoted) \subseteq ToSet(ready_)
      /\ IsInjective(promoted)
  BY <1>2, PrefixFacts
<1> HIDE DEF promoted
<1>5. /\ i.waiting \in Seq(Nat) /\ i.running \in Seq(Nat) /\ i \in Record
      /\ IsInjective(i.waiting) /\ IsInjective(i.running)
      /\ ToSet(i.waiting) \cap ToSet(i.running) = {}
      /\ Active(i) = ToSet(i.waiting) \cup ToSet(i.running)
  BY WellFields
<1>6. /\ w \in Seq(Nat) /\ ToSet(w) = ToSet(i.waiting) \ ToSet(promoted)
      /\ IsInjective(w)
  BY <1>5, WithoutFacts
<1>7. /\ q \in Seq(Nat) /\ ToSet(q) = ToSet(i.running) \cup ToSet(promoted)
      /\ IsInjective(q)
  <2>1. ToSet(i.running) \cap ToSet(promoted) = {}
    BY <1>4, <1>5
  <2>q. QED
    BY <1>4, <1>5, <2>1, ConcatFacts
<1> HIDE DEF w, q
<1>8. ToSet(w) \cap ToSet(q) = {} /\ ToSet(w) \cup ToSet(q) = Active(i)
  BY <1>4, <1>5, <1>6, <1>7
<1>9. Follows(i, [i EXCEPT !.waiting = w, !.running = q], <<>>, v)
  BY <1>6, <1>7, <1>8, Reordered
<1>10. /\ j.req = i.req /\ j.stats = i.stats /\ j.completed = i.completed
       /\ j.waiting = w /\ j.running = q
  BY <1>3, <1>5 DEF Record
<1> HIDE DEF j
<1>11. /\ Follows(i, j, <<>>, v)
       /\ j.req = i.req /\ j.stats = i.stats /\ j.completed = i.completed
       /\ ToSet(i.running) \subseteq ToSet(j.running)
       /\ ToSet(j.waiting) \subseteq ToSet(i.waiting)
       /\ ToSet(j.running) \subseteq ToSet(i.running) \cup ToSet(ready_)
  BY <1>3, <1>4, <1>6, <1>7, <1>9, <1>10
<1>q. QED
  BY <1>11 DEF j

LEMMA PromoteReadyFollows ==
    ASSUME NEW i, NEW v, Well(i)
    PROVE  LET j == PromoteReady(i)
           IN /\ Follows(i, j, <<>>, v)
              /\ j.req = i.req /\ j.stats = i.stats /\ j.completed = i.completed
              /\ ToSet(i.running) \subseteq ToSet(j.running)
              /\ ToSet(j.waiting) \subseteq ToSet(i.waiting)
              /\ \A r \in ToSet(j.running) : r \in ToSet(i.running) \/ Need(i, r) <= 0
<1> DEFINE S == {r \in ToSet(i.waiting) : Need(i, r) <= 0}
           ready_ == Kept(i.waiting, S)
<1>1. i.waiting \in Seq(Nat) /\ IsInjective(i.waiting)
  BY WellFields
<1>2. ready_ \in Seq(Nat) /\ ToSet(ready_) = ToSet(i.waiting) \cap S /\ IsInjective(ready_)
  <2> HIDE DEF S
  <2>q. QED
    BY <1>1, KeptFacts
<1>3. \A r \in ToSet(ready_) : r \in ToSet(i.waiting) /\ Need(i, r) <= 0
  BY <1>2
<1>4. PromoteReady(i) = Promote(i, ready_)
  BY DEF PromoteReady
<1> HIDE DEF ready_
<1> DEFINE j == Promote(i, ready_)
<1>5. ToSet(ready_) \subseteq ToSet(i.waiting)
  BY <1>2
<1>6. /\ Follows(i, j, <<>>, v)
      /\ j.req = i.req /\ j.stats = i.stats /\ j.completed = i.completed
      /\ ToSet(i.running) \subseteq ToSet(j.running)
      /\ ToSet(j.waiting) \subseteq ToSet(i.waiting)
      /\ ToSet(j.running) \subseteq ToSet(i.running) \cup ToSet(ready_)
  BY <1>2, <1>5, PromoteFollows
<1> HIDE DEF j
<1>7. \A r \in ToSet(j.running) : r \in ToSet(i.running) \/ Need(i, r) <= 0
  BY <1>3, <1>6
<1>8. PromoteReady(i) = j
  BY <1>4 DEF j
<1>q. QED
  BY <1>6, <1>7, <1>8

LEMMA TokensAdded ==
    ASSUME NEW a \in ReqState, NEW v \in Nat, NEW n \in Nat
    PROVE  LET b == AddTokens(a, v, n)
           IN /\ b \in ReqState /\ b.generated = a.generated + n
              /\ b.prefilled = a.prefilled /\ Grown(a, b, v)
<1> DEFINE new == a.segments = <<>> \/ Last(a.segments).version # v
           old == Opened(a.segments, v)
           m == Len(old)
           segs == [old EXCEPT ![m].tokens = @ + n]
           b == AddTokens(a, v, n)
<1>1. a.generated \in Nat /\ a.prefilled \in Nat /\ a.segments \in Seq(Segment)
  BY DEF ReqState
<1> DEFINE x == Len(a.segments)
<1>2. x \in Nat /\ \A k \in 1..x : a.segments[k] \in Segment
  BY <1>1
<1>3. /\ old \in Seq(Segment) /\ m \in Nat /\ m >= 1 /\ x <= m
      /\ \A k \in 1..x : old[k] = a.segments[k]
      /\ \A k \in 1..m : k > x => old[k].version = v
      /\ old[m].version = v
  <2>1. CASE new
    <3>1. [version |-> v, tokens |-> 0] \in Segment
      BY DEF Segment
    <3>q. QED
      BY <1>1, <1>2, <2>1, <3>1 DEF Opened
  <2>2. CASE ~new
    <3>1. a.segments # <<>> /\ a.segments[x].version = v /\ old = a.segments
      BY <2>2 DEF Last, Opened
    <3>2. x >= 1
      BY <1>1, <1>2, <3>1
    <3>3. m = x
      BY <3>1
    <3> HIDE DEF old, m, x, new
    <3>4. \A k \in 1..m : k > x => old[k].version = v
      BY <1>2, <3>3
    <3>q. QED
      BY <1>1, <1>2, <3>1, <3>2, <3>3, <3>4
  <2>q. QED
    BY <2>1, <2>2
<1>4. b = [a EXCEPT !.generated = @ + n, !.segments = segs]
  BY DEF AddTokens
<1>m. m = Len(old)
  OBVIOUS
<1> HIDE DEF old, m, x, b, new
<1>5. /\ old[m] \in Segment /\ old[m].tokens \in Nat /\ m \in 1..m
  <2>1. m \in 1..Len(old) /\ m \in 1..m
    BY <1>3, <1>m
  <2>2. old[m] \in Segment
    BY <1>3, <2>1
  <2>q. QED
    BY <2>1, <2>2 DEF Segment
<1>6. /\ [old[m] EXCEPT !.tokens = @ + n] \in Segment
      /\ [old[m] EXCEPT !.tokens = @ + n].version = v
  <2> DEFINE o == old[m]
  <2>1. o \in Segment /\ o.tokens \in Nat /\ o.version = v /\ o.tokens + n \in Nat
    BY <1>3, <1>5
  <2> HIDE DEF o
  <2>2. [o EXCEPT !.tokens = @ + n] \in Segment /\ [o EXCEPT !.tokens = @ + n].version = v
    BY <2>1 DEF Segment
  <2>q. QED
    BY <2>2 DEF o
<1>7. /\ segs \in Seq(Segment) /\ Len(segs) = m
      /\ \A k \in 1..m : k # m => segs[k] = old[k]
      /\ segs[m].version = v
  <2> DEFINE e == [old[m] EXCEPT !.tokens = @ + n]
  <2>1. segs = [old EXCEPT ![m] = e] /\ e \in Segment /\ e.version = v
    BY <1>6
  <2> HIDE DEF e
  <2>2. m = Len(old)
    BY DEF m
  <2>q. QED
    BY <1>3, <1>5, <2>1, <2>2
<1> HIDE DEF segs
<1>8. /\ b \in ReqState /\ b.generated = a.generated + n /\ b.prefilled = a.prefilled
      /\ b.segments = segs
  <2>1. a.generated + n \in Nat /\ segs \in Seq(Segment)
    BY <1>1, <1>7
  <2>2. b = [prefilled |-> a.prefilled, generated |-> a.generated + n, segments |-> segs]
    BY <1>4 DEF ReqState
  <2>q. QED
    BY <1>1, <2>1, <2>2 DEF ReqState
<1>9. Grown(a, b, v)
  <2>1. a.generated <= b.generated
    BY <1>1, <1>8
  <2>2. Len(a.segments) = x /\ Len(b.segments) = m
    BY <1>7, <1>8 DEF x
  <2>3. \A k \in 1..x : /\ segs[k].version = a.segments[k].version
                        /\ k # x => segs[k] = a.segments[k]
    <3> SUFFICES ASSUME NEW k \in 1..x
                 PROVE  /\ segs[k].version = a.segments[k].version
                        /\ k # x => segs[k] = a.segments[k]
      OBVIOUS
    <3>1. k \in 1..m /\ k \in Nat /\ (k # x => k # m)
      BY <1>2, <1>3
    <3>q. QED
      BY <1>3, <1>7, <3>1
  <2>4. \A k \in 1..m : k > x => segs[k].version = v
    BY <1>3, <1>7
  <2>q. QED
    BY <1>2, <1>3, <1>8, <2>1, <2>2, <2>3, <2>4 DEF Grown
<1>q. QED
  BY <1>8, <1>9 DEF b

LEMMA GeneratedTyped ==
    ASSUME NEW a \in ReqState, NEW v \in Nat, NEW n \in Nat
    PROVE  /\ Decoded(a, v, n) \in ReqState
           /\ Decoded(a, v, n).generated = a.generated + n
           /\ Decoded(a, v, n).prefilled = a.prefilled + n
           /\ Grown(a, Decoded(a, v, n), v)
<1> DEFINE b == AddTokens(a, v, n)
           c == [b EXCEPT !.prefilled = @ + n]
<1>1. /\ b \in ReqState /\ b.generated = a.generated + n
      /\ b.prefilled = a.prefilled /\ Grown(a, b, v)
  BY TokensAdded
<1>2. a.prefilled \in Nat
  BY DEF ReqState
<1> HIDE DEF b
<1>3. /\ c \in ReqState /\ c.generated = b.generated /\ c.prefilled = b.prefilled + n
      /\ c.segments = b.segments
  BY <1>1, <1>2 DEF ReqState
<1>4. Grown(a, c, v)
  BY <1>1, <1>3 DEF Grown
<1>q. QED
  BY <1>1, <1>3, <1>4 DEF Decoded, b

LEMMA RequestsFrom ==
    ASSUME NEW S \in SUBSET Nat, NEW f, DOMAIN f = S, f = [r \in S |-> f[r]],
           \A r \in S : f[r] \in ReqState
    PROVE  f \in Requests
<1>1. f \in [S -> ReqState]
  OBVIOUS
<1>q. QED
  BY <1>1 DEF Requests

\* The requests of i and j and the lists they are in are the same.
SameLists(i, j) ==
    /\ j.waiting = i.waiting /\ j.running = i.running /\ j.completed = i.completed
    /\ DOMAIN j.req = DOMAIN i.req

\* From i to j, every request of rs has generated n tokens.
TokensBy(i, j, rs, n) ==
    \A r \in DOMAIN i.req :
        /\ r \notin rs => j.req[r] = i.req[r]
        /\ r \in rs => /\ j.req[r].generated = i.req[r].generated + n
                       /\ j.req[r].prefilled = i.req[r].prefilled + n

LEMMA GenerateFollows ==
    ASSUME NEW i, NEW rs, NEW v \in Nat, NEW n \in Nat, Well(i), rs \subseteq Active(i)
    PROVE  LET j == Generate(i, rs, v, n)
           IN /\ Follows(i, j, <<>>, v)
              /\ SameLists(i, j)
              /\ j.stats = i.stats
              /\ TokensBy(i, j, rs, n)
<1> DEFINE j == Generate(i, rs, v, n)
           D == DOMAIN i.req
           new == [r \in D |-> IF r \in rs THEN Decoded(i.req[r], v, n) ELSE i.req[r]]
<1>1. /\ D \in SUBSET Nat /\ i \in Record /\ \A r \in D : i.req[r] \in ReqState
      /\ i.req = [r \in D |-> i.req[r]]
      /\ \A r \in D : i.req[r].generated \in Nat /\ i.req[r].prefilled \in Nat
  BY WellFields, ReqTyped
<1>2. CASE n = 0
  <2>1. j = i
    BY <1>2 DEF Generate
  <2>2. Follows(i, j, <<>>, v)
    BY <2>1, FollowsRefl
  <2>3. \A r \in D : /\ i.req[r].generated + n = i.req[r].generated
                     /\ i.req[r].prefilled + n = i.req[r].prefilled
    BY <1>1, <1>2
  <2> HIDE DEF j
  <2>4. /\ Follows(i, j, <<>>, v)
        /\ j.waiting = i.waiting /\ j.running = i.running
        /\ j.completed = i.completed /\ j.stats = i.stats
        /\ DOMAIN j.req = D
        /\ \A r \in D : /\ r \notin rs => j.req[r] = i.req[r]
                        /\ r \in rs => /\ j.req[r].generated = i.req[r].generated + n
                                       /\ j.req[r].prefilled = i.req[r].prefilled + n
    BY <2>1, <2>2, <2>3
  <2>q. QED
    BY <2>4 DEF j, SameLists, TokensBy
<1>3. CASE n # 0
  <2>1. j = [i EXCEPT !.req = new]
    BY <1>3 DEF Generate
  <2>2. /\ \A r \in D : new[r] = IF r \in rs THEN Decoded(i.req[r], v, n) ELSE i.req[r]
        /\ DOMAIN new = D /\ new = [r \in D |-> new[r]]
    OBVIOUS
  <2> HIDE DEF new, j
  <2>3. \A r \in D : /\ new[r] \in ReqState
                     /\ Grown(i.req[r], new[r], v)
                     /\ r \notin rs => new[r] = i.req[r]
                     /\ r \in rs => /\ new[r].generated = i.req[r].generated + n
                                    /\ new[r].prefilled = i.req[r].prefilled + n
    <3> SUFFICES ASSUME NEW r \in D
                 PROVE  /\ new[r] \in ReqState
                        /\ Grown(i.req[r], new[r], v)
                        /\ r \notin rs => new[r] = i.req[r]
                        /\ r \in rs => /\ new[r].generated = i.req[r].generated + n
                                       /\ new[r].prefilled = i.req[r].prefilled + n
      OBVIOUS
    <3>1. i.req[r] \in ReqState /\ i.req[r].generated \in Nat
          /\ i.req[r].segments \in Seq(Segment)
      BY <1>1, ReqTyped
    <3>2. CASE r \in rs
      <4>1. new[r] = Decoded(i.req[r], v, n)
        BY <2>2, <3>2
      <4>2. /\ Decoded(i.req[r], v, n) \in ReqState
            /\ Decoded(i.req[r], v, n).generated = i.req[r].generated + n
            /\ Decoded(i.req[r], v, n).prefilled = i.req[r].prefilled + n
            /\ Grown(i.req[r], Decoded(i.req[r], v, n), v)
        BY <3>1, GeneratedTyped
      <4>q. QED
        BY <3>2, <4>1, <4>2
    <3>3. CASE r \notin rs
      <4>1. new[r] = i.req[r] /\ Grown(i.req[r], i.req[r], v)
        BY <2>2, <3>1, <3>3, GrownRefl
      <4>q. QED
        BY <3>1, <3>3, <4>1
    <3>q. QED
      BY <3>2, <3>3
  <2>4. new \in Requests
    BY <1>1, <2>2, <2>3, RequestsFrom
  <2>5. /\ j \in Record /\ j.waiting = i.waiting /\ j.running = i.running
        /\ j.completed = i.completed /\ j.stats = i.stats /\ j.req = new
    BY <1>1, <2>1, <2>4 DEF Record
  <2>6. Follows(i, j, <<>>, v)
    <3>1. /\ IsInjective(i.waiting) /\ IsInjective(i.running)
          /\ ToSet(i.waiting) \cap ToSet(i.running) = {}
          /\ ToSet(i.waiting) \cup ToSet(i.running) = Active(i)
          /\ i.stats \in Seq(Nat)
      BY WellFields
    <3>2. /\ DOMAIN j.req = DOMAIN i.req
          /\ \A r \in DOMAIN i.req : /\ r \notin Active(i) => j.req[r] = i.req[r]
                                     /\ Grown(i.req[r], j.req[r], v)
          /\ Len(i.stats) <= Len(j.stats)
          /\ \A k \in 1..Len(i.stats) : j.stats[k] = i.stats[k]
      BY <2>2, <2>3, <2>5, <3>1
    <3>q. QED
      BY <2>5, <3>1, <3>2, Worked
  <2>7. /\ Follows(i, j, <<>>, v)
        /\ j.waiting = i.waiting /\ j.running = i.running
        /\ j.completed = i.completed /\ j.stats = i.stats
        /\ DOMAIN j.req = D
        /\ \A r \in D : /\ r \notin rs => j.req[r] = i.req[r]
                        /\ r \in rs => /\ j.req[r].generated = i.req[r].generated + n
                                       /\ j.req[r].prefilled = i.req[r].prefilled + n
    BY <2>2, <2>3, <2>5, <2>6
  <2>q. QED
    BY <2>7 DEF j, SameLists, TokensBy
<1>q. QED
  BY <1>2, <1>3

LEMMA LoggedFollows ==
    ASSUME NEW i, NEW tokens \in Nat, NEW v, Well(i)
    PROVE  LET j == Logged(i, tokens)
           IN /\ Follows(i, j, <<>>, v)
              /\ j.waiting = i.waiting /\ j.running = i.running
              /\ j.completed = i.completed /\ j.req = i.req
<1> DEFINE j == Logged(i, tokens)
           n == Len(i.stats)
<1>1. /\ i \in Record /\ i.stats \in Seq(Nat)
      /\ IsInjective(i.waiting) /\ IsInjective(i.running)
      /\ ToSet(i.waiting) \cap ToSet(i.running) = {}
      /\ ToSet(i.waiting) \cup ToSet(i.running) = Active(i)
  BY WellFields
<1>2. /\ n \in Nat /\ Append(i.stats, tokens) \in Seq(Nat)
      /\ Len(Append(i.stats, tokens)) = n + 1
      /\ \A k \in 1..n : Append(i.stats, tokens)[k] = i.stats[k]
  BY <1>1
<1>3. /\ j \in Record /\ j.waiting = i.waiting /\ j.running = i.running
      /\ j.completed = i.completed /\ j.req = i.req
      /\ j.stats = Append(i.stats, tokens)
  BY <1>1, <1>2 DEF Logged, Record
<1> HIDE DEF j
<1>4. /\ \A r \in DOMAIN i.req : /\ r \notin Active(i) => j.req[r] = i.req[r]
                                 /\ Grown(i.req[r], j.req[r], v)
      /\ DOMAIN j.req = DOMAIN i.req
      /\ Len(i.stats) <= Len(j.stats)
      /\ \A k \in 1..Len(i.stats) : j.stats[k] = i.stats[k]
  <2>1. \A r \in DOMAIN i.req : Grown(i.req[r], i.req[r], v)
    BY ReqTyped, GrownRefl
  <2>q. QED
    BY <1>2, <1>3, <2>1
<1>5. Follows(i, j, <<>>, v)
  BY <1>1, <1>3, <1>4, Worked
<1>q. QED
  BY <1>3, <1>5 DEF j

LEMMA DecodeSegmentFollows ==
    ASSUME NEW i, NEW v \in Nat, NEW k \in Nat, Well(i)
    PROVE  LET j == DecodeSegment(i, v, k)
           IN /\ Follows(i, j, <<>>, v)
              /\ j.waiting = i.waiting /\ j.running = i.running
              /\ j.completed = i.completed
<1> DEFINE j == DecodeSegment(i, v, k)
           g == Generate(i, ToSet(i.running), v, k)
           m == k * Len(i.running)
<1>1. CASE k = 0
  <2>1. j = i
    BY <1>1 DEF DecodeSegment
  <2>2. Follows(i, i, <<>>, v)
    BY FollowsRefl
  <2>q. QED
    BY <2>1, <2>2
<1>2. CASE k # 0
  <2>1. j = Logged(g, m)
    BY <1>2 DEF DecodeSegment
  <2>2. m \in Nat
    <3>1. Len(i.running) \in Nat
      BY WellFields
    <3>q. QED
      BY <3>1
  <2>3. ToSet(i.running) \subseteq Active(i)
    BY WellFields
  <2>4. /\ Follows(i, g, <<>>, v) /\ g.waiting = i.waiting /\ g.running = i.running
        /\ g.completed = i.completed
    <3>1. Follows(i, g, <<>>, v) /\ SameLists(i, g)
      BY <2>3, GenerateFollows
    <3>q. QED
      BY <3>1 DEF SameLists
  <2> HIDE DEF j, g, m
  <2>5. Well(g)
    BY <2>4 DEF Follows
  <2>6. /\ Follows(g, j, <<>>, v) /\ j.waiting = g.waiting /\ j.running = g.running
        /\ j.completed = g.completed
    BY <2>1, <2>2, <2>5, LoggedFollows
  <2>7. Follows(i, j, <<>>, v)
    BY <2>4, <2>6, WorkedTwice
  <2>8. /\ Follows(i, j, <<>>, v) /\ j.waiting = i.waiting /\ j.running = i.running
        /\ j.completed = i.completed
    BY <2>4, <2>6, <2>7
  <2>q. QED
    BY <2>8 DEF j
<1>q. QED
  BY <1>1, <1>2

LEMMA RetireFollows ==
    ASSUME NEW i, NEW done \in Seq(Nat), NEW v, Well(i),
           IsInjective(done), ToSet(done) \subseteq ToSet(i.running)
    PROVE  Follows(i, Retire(i, done), done, v)
<1> DEFINE j == Retire(i, done)
           w == Without(i.running, ToSet(done))
           c == i.completed \o done
<1>1. /\ i \in Record /\ i.running \in Seq(Nat) /\ i.completed \in Seq(Nat)
      /\ i.stats \in Seq(Nat)
      /\ IsInjective(i.waiting) /\ IsInjective(i.running) /\ IsInjective(i.completed)
      /\ ToSet(i.waiting) \cap ToSet(i.running) = {}
      /\ ToSet(i.waiting) \cup ToSet(i.running) = Active(i)
      /\ ToSet(i.completed) \in SUBSET DOMAIN i.req
      /\ Active(i) \in SUBSET DOMAIN i.req
      /\ Active(i) \cap ToSet(i.completed) = {}
  BY WellFields
<1>2. w \in Seq(Nat) /\ ToSet(w) = ToSet(i.running) \ ToSet(done) /\ IsInjective(w)
  BY <1>1, WithoutFacts
<1>3. c \in Seq(Nat) /\ ToSet(c) = ToSet(i.completed) \cup ToSet(done) /\ IsInjective(c)
  <2>1. ToSet(i.completed) \cap ToSet(done) = {}
    BY <1>1
  <2>q. QED
    BY <1>1, <2>1, ConcatFacts
<1> HIDE DEF w, c
<1>4. /\ j \in Record /\ j.waiting = i.waiting /\ j.running = w
      /\ j.completed = c /\ j.req = i.req /\ j.stats = i.stats
  <2>1. j = [i EXCEPT !.running = w, !.completed = c]
    BY DEF Retire, w, c
  <2>q. QED
    BY <1>1, <1>2, <1>3, <2>1 DEF Record
<1> HIDE DEF j
<1>5. Active(j) = Active(i) \ ToSet(done)
  <2>1. Active(j) = ToSet(i.waiting) \cup ToSet(w)
    BY <1>4 DEF Active
  <2>q. QED
    BY <1>1, <1>2, <2>1
<1>6. Well(j)
  <2>1. /\ IsInjective(j.waiting) /\ IsInjective(j.running) /\ IsInjective(j.completed)
        /\ ToSet(j.waiting) \cap ToSet(j.running) = {}
    BY <1>1, <1>2, <1>3, <1>4
  <2>2. /\ Active(j) \cup ToSet(j.completed) \subseteq DOMAIN j.req
        /\ Active(j) \cap ToSet(j.completed) = {}
    BY <1>1, <1>3, <1>4, <1>5
  <2>q. QED
    BY <1>4, <2>1, <2>2 DEF Well, Record
<1>7. /\ \A r \in DOMAIN i.req : /\ r \notin Active(i) => j.req[r] = i.req[r]
                                 /\ Grown(i.req[r], j.req[r], v)
      /\ DOMAIN j.req = DOMAIN i.req
      /\ Len(i.stats) <= Len(j.stats)
      /\ \A k \in 1..Len(i.stats) : j.stats[k] = i.stats[k]
  <2>1. \A r \in DOMAIN i.req : Grown(i.req[r], i.req[r], v)
    BY ReqTyped, GrownRefl
  <2>2. Len(i.stats) \in Nat
    BY <1>1
  <2>q. QED
    BY <1>4, <2>1, <2>2
<1>8. ToSet(done) \subseteq Active(i) /\ j.completed = i.completed \o done
  BY <1>1, <1>4 DEF c
<1>9. Follows(i, j, done, v)
  BY <1>5, <1>6, <1>7, <1>8 DEF Follows
<1>q. QED
  BY <1>9 DEF j

LEMMA PreemptFollows ==
    ASSUME NEW i, NEW victim \in ToSet(i.running), NEW v, Well(i)
    PROVE  Follows(i, Preempt(i, victim), <<>>, v)
<1> DEFINE j == Preempt(i, victim)
           D == DOMAIN i.req
           q == Without(i.running, {victim})
           w == <<victim>> \o i.waiting
           e == [i.req[victim] EXCEPT !.prefilled = 0]
           f == [i.req EXCEPT ![victim] = e]
<1>1. /\ i \in Record /\ i.waiting \in Seq(Nat) /\ i.running \in Seq(Nat)
      /\ i.stats \in Seq(Nat)
      /\ IsInjective(i.waiting) /\ IsInjective(i.running)
      /\ ToSet(i.waiting) \cap ToSet(i.running) = {}
      /\ ToSet(i.waiting) \cup ToSet(i.running) = Active(i)
      /\ ToSet(i.running) \in SUBSET D /\ victim \in D
  BY WellFields
<1>2. /\ D \in SUBSET Nat /\ i.req = [r \in D |-> i.req[r]]
      /\ \A r \in D : i.req[r] \in ReqState
  BY ReqTyped
<1>3. /\ q \in Seq(Nat) /\ ToSet(q) = ToSet(i.running) \ {victim} /\ IsInjective(q)
  BY <1>1, WithoutFacts
<1>4. /\ w \in Seq(Nat) /\ ToSet(w) = {victim} \cup ToSet(i.waiting) /\ IsInjective(w)
  <2>1. victim \in Nat /\ <<victim>> \in Seq(Nat) /\ ToSet(<<victim>>) = {victim}
        /\ IsInjective(<<victim>>)
    BY <1>1, <1>2 DEF ToSet, IsInjective
  <2>2. {victim} \cap ToSet(i.waiting) = {}
    BY <1>1
  <2> DEFINE s == <<victim>>
  <2>3. s \in Seq(Nat) /\ ToSet(s) = {victim} /\ IsInjective(s)
        /\ ToSet(s) \cap ToSet(i.waiting) = {}
    BY <2>1, <2>2
  <2> HIDE DEF s
  <2>4. /\ s \o i.waiting \in Seq(Nat)
        /\ ToSet(s \o i.waiting) = ToSet(s) \cup ToSet(i.waiting)
        /\ IsInjective(s \o i.waiting)
    BY <1>1, <2>3, ConcatFacts
  <2>q. QED
    BY <2>3, <2>4 DEF s
<1>5. /\ e \in ReqState /\ e.generated = i.req[victim].generated
      /\ e.segments = i.req[victim].segments
  <2> DEFINE a == i.req[victim]
  <2>1. a \in ReqState
    BY <1>1, <1>2
  <2> HIDE DEF a
  <2>2. /\ [a EXCEPT !.prefilled = 0] \in ReqState
        /\ [a EXCEPT !.prefilled = 0].generated = a.generated
        /\ [a EXCEPT !.prefilled = 0].segments = a.segments
    BY <2>1 DEF ReqState
  <2>q. QED
    BY <2>2 DEF a
<1>6. j = [i EXCEPT !.running = q, !.waiting = w, !.req = f]
  BY <1>1 DEF Preempt, Record
<1> HIDE DEF e, q, w
<1>7. /\ DOMAIN f = D /\ f = [r \in D |-> f[r]] /\ f[victim] = e
      /\ \A r \in D : r # victim => f[r] = i.req[r]
  BY <1>1, <1>2
<1> HIDE DEF f
<1>8. \A r \in D : /\ f[r] \in ReqState /\ Grown(i.req[r], f[r], v)
                   /\ r \notin Active(i) => f[r] = i.req[r]
  <2> SUFFICES ASSUME NEW r \in D
               PROVE  /\ f[r] \in ReqState /\ Grown(i.req[r], f[r], v)
                      /\ r \notin Active(i) => f[r] = i.req[r]
    OBVIOUS
  <2>1. i.req[r] \in ReqState /\ Grown(i.req[r], i.req[r], v)
    <3>1. i.req[r].generated \in Nat /\ i.req[r].segments \in Seq(Segment)
      BY ReqTyped
    <3>q. QED
      BY <1>2, <3>1, GrownRefl
  <2>2. CASE r # victim
    BY <1>7, <2>1, <2>2
  <2>3. CASE r = victim
    <3>1. f[r] = e /\ f[r] \in ReqState /\ r \in Active(i)
      BY <1>1, <1>5, <1>7, <2>3
    <3>2. f[r].generated = i.req[r].generated /\ f[r].segments = i.req[r].segments
      BY <1>5, <2>3, <3>1
    <3>3. Grown(i.req[r], f[r], v)
      BY <2>1, <3>2 DEF Grown
    <3>q. QED
      BY <3>1, <3>3
  <2>q. QED
    BY <2>2, <2>3
<1>9. f \in Requests
  BY <1>2, <1>7, <1>8, RequestsFrom
<1>10. /\ j \in Record /\ j.waiting = w /\ j.running = q /\ j.completed = i.completed
       /\ j.req = f /\ j.stats = i.stats
  BY <1>1, <1>3, <1>4, <1>6, <1>9 DEF Record
<1> HIDE DEF j
<1>11. /\ IsInjective(j.waiting) /\ IsInjective(j.running)
       /\ ToSet(j.waiting) \cap ToSet(j.running) = {}
       /\ ToSet(j.waiting) \cup ToSet(j.running) = Active(i)
  BY <1>1, <1>3, <1>4, <1>10
<1>12. /\ \A r \in DOMAIN i.req : /\ r \notin Active(i) => j.req[r] = i.req[r]
                                  /\ Grown(i.req[r], j.req[r], v)
       /\ DOMAIN j.req = DOMAIN i.req
       /\ Len(i.stats) <= Len(j.stats)
       /\ \A k \in 1..Len(i.stats) : j.stats[k] = i.stats[k]
  <2>1. Len(i.stats) \in Nat
    BY <1>1
  <2>q. QED
    BY <1>7, <1>8, <1>10, <2>1
<1>13. Follows(i, j, <<>>, v)
  BY <1>10, <1>11, <1>12, Worked
<1>q. QED
  BY <1>13 DEF j

LEMMA PreemptLastFollows ==
    ASSUME NEW i, NEW v, Well(i)
    PROVE  Follows(i, PreemptLast(i), <<>>, v)
<1>1. CASE i.running = <<>>
  BY <1>1, FollowsRefl DEF PreemptLast
<1>2. CASE i.running # <<>>
  <2>1. i.running \in Seq(Nat)
    BY WellFields
  <2>2. Last(i.running) \in ToSet(i.running)
    <3>1. Len(i.running) \in DOMAIN i.running
      <4>1. DOMAIN i.running = 1..Len(i.running) /\ Len(i.running) \in Nat
        BY <2>1
      <4>2. Len(i.running) # 0
        BY <1>2, <2>1
      <4>q. QED
        BY <4>1, <4>2
    <3>q. QED
      BY <3>1 DEF Last, ToSet
  <2>3. Follows(i, Preempt(i, Last(i.running)), <<>>, v)
    BY <2>2, PreemptFollows
  <2>q. QED
    BY <1>2, <2>3 DEF PreemptLast
<1>q. QED
  BY <1>1, <1>2

LEMMA PreemptForProgressFollows ==
    ASSUME NEW i, NEW v, Well(i)
    PROVE  Follows(i, PreemptForProgress(i), <<>>, v)
<1> DEFINE victims == ToSet(i.running) \ {Min(Active(i))}
<1>1. CASE victims = {}
  BY <1>1, FollowsRefl DEF PreemptForProgress
<1>2. CASE victims # {}
  <2>1. /\ IsFiniteSet(ToSet(i.running)) /\ ToSet(i.running) \in SUBSET Nat
        /\ victims \in SUBSET ToSet(i.running)
    BY WellFields, ListFacts
  <2>2. IsFiniteSet(victims) /\ \A r \in victims : r \in Int
    BY <2>1, FS_Subset
  <2>3. PreemptForProgress(i) = Preempt(i, Max(victims))
    BY <1>2 DEF PreemptForProgress
  <2> HIDE DEF victims
  <2>4. Max(victims) \in victims
    BY <1>2, <2>2, MaxIsGreatest
  <2>5. Max(victims) \in ToSet(i.running)
    BY <2>1, <2>4
  <2>6. Follows(i, Preempt(i, Max(victims)), <<>>, v)
    BY <2>5, PreemptFollows
  <2>q. QED
    BY <2>3, <2>6
<1>q. QED
  BY <1>1, <1>2

-----------------------------------------------------------------------------
(* Folds along a list of n members and sums.                               *)

IsPlaces(D, n) == D = 1..n

\* As long as h is in U, it is the fold of F from z over the places D.
FoldsFrom(h, z, U, D, F) ==
    /\ h[{}] = z
    /\ \A t \in SUBSET D : t # {} /\ h[t \ {Max(t)}] \in U
                             => h[t] = F[<<h[t \ {Max(t)}], Max(t)>>]

\* The values on the way from z, one for each place of D.
Passes(q, z, U, D, F) ==
    q[0] = z /\ \A k \in D : q[k - 1] \in U /\ q[k] \in U /\ q[k] = F[<<q[k - 1], k>>]

\* h passes through values that end with that of all places.
Unrolled(h, z, U, D, F, n) == \E q : Passes(q, z, U, D, F) /\ q[n] = h[D]

\* The fold h along the places D of a list passes through the values q.
LEMMA FoldedAlong ==
    ASSUME NEW n \in Nat, NEW D, IsPlaces(D, n), NEW U, NEW z \in U, NEW F,
           \A x \in U \X D : F[x] \in U,
           NEW h, FoldsFrom(h, z, U, D, F)
    PROVE  Unrolled(h, z, U, D, F, n)
<1>0. /\ D = 1..n /\ h[{}] = z
      /\ \A t \in SUBSET D : t # {} /\ h[t \ {Max(t)}] \in U
                               => h[t] = F[<<h[t \ {Max(t)}], Max(t)>>]
  BY DEF IsPlaces, FoldsFrom
<1> DEFINE q == [k \in 0..n |-> h[1..k]]
           P == [k \in 0..n |-> U]
<1>1. /\ (1..0) = {}
      /\ \A k \in D : /\ 1..k \in SUBSET D /\ 1..k # {}
                      /\ Max(1..k) = k /\ (1..k) \ {k} = 1..(k - 1)
                      /\ k - 1 \in 0..n /\ k \in 0..n
  BY <1>0, Places
<1>2. q[0] = z /\ q[n] = h[D]
  <2>1. 0 \in 0..n /\ n \in 0..n
    OBVIOUS
  <2>q. QED
    BY <1>0, <1>1, <2>1
<1>3. \A k \in D : q[k - 1] \in U => q[k] = F[<<q[k - 1], k>>]
  <2> SUFFICES ASSUME NEW k \in D, q[k - 1] \in U PROVE q[k] = F[<<q[k - 1], k>>]
    OBVIOUS
  <2>1. q[k - 1] = h[1..(k - 1)] /\ q[k] = h[1..k]
    BY <1>1
  <2> DEFINE t == 1..k
  <2>2. /\ t \in SUBSET D /\ t # {} /\ Max(t) = k /\ t \ {Max(t)} = 1..(k - 1)
        /\ q[k] = h[t]
    BY <1>1, <2>1
  <2> HIDE DEF t, q
  <2>3. h[t \ {Max(t)}] \in U
    BY <2>1, <2>2
  <2>4. h[t] = F[<<h[t \ {Max(t)}], Max(t)>>]
    BY <1>0, <2>2, <2>3
  <2>q. QED
    BY <2>1, <2>2, <2>4
<1>4. /\ \A k \in 0..n : P[k] = U
      /\ \A k \in 1..n : P[k - 1] = U /\ P[k] = U
  BY <1>1
<1> HIDE DEF q, P
<1>5. \A k \in 0..n : q[k] \in U
  <2>1. 0 \in 0..n
    OBVIOUS
  <2>2. q[0] \in P[0]
    BY <1>2, <1>4, <2>1
  <2>3. \A k \in 1..n : q[k - 1] \in P[k - 1] => q[k] \in P[k]
    <3> SUFFICES ASSUME NEW k \in 1..n, q[k - 1] \in P[k - 1] PROVE q[k] \in P[k]
      OBVIOUS
    <3>1. q[k - 1] \in U /\ k \in D /\ P[k] = U
      BY <1>0, <1>4
    <3>2. q[k] = F[<<q[k - 1], k>>] /\ F[<<q[k - 1], k>>] \in U
      BY <1>3, <3>1
    <3>q. QED
      BY <3>1, <3>2
  <2>4. \A k \in 0..n : q[k] \in P[k]
    BY <2>2, <2>3, AlongPlaces
  <2>q. QED
    BY <1>4, <2>4
<1>6. /\ q[0] = z /\ q[n] = h[D]
      /\ \A k \in D : /\ q[k - 1] \in U /\ q[k] \in U
                      /\ q[k] = F[<<q[k - 1], k>>]
  <2>1. \A k \in D : k - 1 \in 0..n /\ k \in 0..n
    BY <1>1
  <2>q. QED
    BY <1>2, <1>3, <1>5, <2>1
<1>q. QED
  BY <1>6 DEF Passes, Unrolled

\* A sum of natural numbers is one.
LEMMA TotalTyped ==
    ASSUME NEW S, IsFiniteSet(S), NEW f, DOMAIN f = S, \A r \in S : f[r] \in Nat
    PROVE  Total(f) \in Nat
<1> DEFINE Pick(t) == CHOOSE r \in t : TRUE
           c == [t \in SUBSET S |-> Pick(t)]
           After(g, t) == IF t = {} THEN 0 ELSE f[Pick(t)] + g[t \ {Pick(t)}]
           h == CHOOSE g : g = [t \in SUBSET S |-> After(g, t)]
           F == [x \in Nat \X S |-> f[x[2]] + x[1]]
           Nats == [t \in SUBSET S |-> Nat]
<1>1. Total(f) = h[S]
  BY DEF Total, FoldFunction, FoldFunctionOnSet, MapThenFoldSet
<1>2. \A t \in SUBSET S : /\ c[t] = Pick(t) /\ Nats[t] = Nat
                          /\ t # {} => Pick(t) \in t /\ Pick(t) \in S
                                       /\ t \ {Pick(t)} \in SUBSET S
  OBVIOUS
<1>3. \A n \in Nat, r \in S : F[<<n, r>>] = f[r] + n /\ f[r] + n \in Nat
  OBVIOUS
<1> HIDE DEF c, F, Pick, Nats
<1>4. \E g : g = [t \in SUBSET S |-> After(g, t)]
  <2> DEFINE z == 0
  <2>1. z = 0
    OBVIOUS
  <2> HIDE DEF z, After
  <2>2. \A t \in SUBSET S : t # {} => c[t] \in t
    BY <1>2
  <2>3. PICK g : OnSubsets(g, S) /\ IsFold(g, S, c, z, F)
    BY <2>2, FoldExists
  <2>4. \A t \in SUBSET S : g[t] = IF t = {} THEN z ELSE F[<<g[t \ {c[t]}], c[t]>>]
    BY <2>3 DEF IsFold
  <2>5. g[{}] \in Nats[{}]
    <3>1. {} \in SUBSET S
      OBVIOUS
    <3>2. g[{}] = z
      BY <2>4, <3>1
    <3>3. Nats[{}] = Nat
      BY <1>2, <3>1
    <3>q. QED
      BY <2>1, <3>2, <3>3
  <2>6. \A t \in SUBSET S : t # {} /\ g[t \ {c[t]}] \in Nats[t \ {c[t]}] => g[t] \in Nats[t]
    <3> SUFFICES ASSUME NEW t \in SUBSET S, t # {}, g[t \ {c[t]}] \in Nats[t \ {c[t]}]
                 PROVE  g[t] \in Nats[t]
      OBVIOUS
    <3>1. t \ {c[t]} \in SUBSET S /\ c[t] \in S
      BY <1>2
    <3>2. g[t \ {c[t]}] \in Nat
      BY <1>2, <3>1
    <3>3. g[t] = F[<<g[t \ {c[t]}], c[t]>>]
      BY <2>4
    <3>4. F[<<g[t \ {c[t]}], c[t]>>] \in Nat
      BY <1>3, <3>1, <3>2
    <3>5. Nats[t] = Nat
      BY <1>2
    <3>q. QED
      BY <3>3, <3>4, <3>5
  <2>7. \A t \in SUBSET S : g[t] \in Nats[t]
    BY <2>2, <2>5, <2>6, FoldKeeps
  <2>8. \A t \in SUBSET S : g[t] = After(g, t)
    <3> SUFFICES ASSUME NEW t \in SUBSET S PROVE g[t] = After(g, t)
      OBVIOUS
    <3>1. CASE t = {}
      BY <2>1, <2>4, <3>1 DEF After
    <3>2. CASE t # {}
      <4>1. t \ {Pick(t)} \in SUBSET S /\ Pick(t) \in S /\ c[t] = Pick(t)
        BY <1>2, <3>2
      <4>2. g[t \ {Pick(t)}] \in Nat
        BY <1>2, <2>7, <4>1
      <4>3. g[t] = F[<<g[t \ {Pick(t)}], Pick(t)>>]
        BY <2>4, <3>2, <4>1
      <4>q. QED
        BY <1>3, <3>2, <4>1, <4>2, <4>3 DEF After
    <3>q. QED
      BY <3>1, <3>2
  <2>9. g = [t \in SUBSET S |-> After(g, t)]
    BY <2>3, <2>8 DEF OnSubsets
  <2>q. QED
    BY <2>9
<1>5. h = [t \in SUBSET S |-> After(h, t)]
  <2> HIDE DEF After
  <2>q. QED
    BY <1>4
<1>6. \A t \in SUBSET S : h[t] = After(h, t)
  <2> HIDE DEF h, After
  <2>q. QED
    BY <1>5
<1> HIDE DEF h
<1>7. h[{}] \in Nats[{}]
  <2>1. {} \in SUBSET S
    OBVIOUS
  <2>q. QED
    BY <1>2, <1>6, <2>1
<1>8. \A t \in SUBSET S : t # {} /\ h[t \ {c[t]}] \in Nats[t \ {c[t]}] => h[t] \in Nats[t]
  <2> SUFFICES ASSUME NEW t \in SUBSET S, t # {}, h[t \ {c[t]}] \in Nats[t \ {c[t]}]
               PROVE  h[t] \in Nats[t]
    OBVIOUS
  <2>1. h[t \ {Pick(t)}] \in Nat /\ Pick(t) \in S
    BY <1>2
  <2>2. h[t] = f[Pick(t)] + h[t \ {Pick(t)}]
    BY <1>6
  <2>q. QED
    BY <1>2, <2>1, <2>2
<1>9. \A t \in SUBSET S : h[t] \in Nats[t]
  <2>1. \A t \in SUBSET S : t # {} => c[t] \in t
    BY <1>2
  <2>q. QED
    BY <1>7, <1>8, <2>1, FoldKeeps
<1>q. QED
  BY <1>1, <1>2, <1>9

-----------------------------------------------------------------------------
(* The prefills of a step.                                                 *)

LEMMA BlocksTyped ==
    ASSUME NEW n \in Nat
    PROVE  BlocksFor(n) \in Nat
<1>1. BlockSize \in Nat /\ BlockSize >= 1
  BY EngineAssumption
<1> DEFINE m == n + BlockSize - 1
<1>2. m \in Nat
  BY <1>1
<1> HIDE DEF m
<1>3. m \div BlockSize \in Nat
  BY <1>1, <1>2
<1>q. QED
  BY <1>3 DEF BlocksFor, m

\* Every request has a prompt and a target of at least one token.
LEMMA LengthsTyped ==
    ASSUME NEW r \in Nat
    PROVE  /\ PromptLen(r) \in Nat /\ PromptLen(r) >= 1
           /\ TargetLen(r) \in Nat /\ TargetLen(r) >= 1
<1>1. ASSUME NEW list \in Seq(Nat \ {0}) \ {<<>>}
      PROVE  list[(r % Len(list)) + 1] \in Nat \ {0}
  <2> DEFINE n == Len(list)
  <2>1. n \in Nat /\ n >= 1 /\ \A k \in 1..n : list[k] \in Nat \ {0}
    <3>1. n \in Nat /\ n # 0
      OBVIOUS
    <3>q. QED
      BY <3>1
  <2> HIDE DEF n
  <2>2. r % n \in 0..(n - 1)
    BY <2>1
  <2>3. (r % n) + 1 \in 1..n
    BY <2>1, <2>2
  <2>q. QED
    BY <2>1, <2>3 DEF n
<1>2. PromptLengths \in Seq(Nat \ {0}) \ {<<>>} /\ TargetLengths \in Seq(Nat \ {0}) \ {<<>>}
  BY EngineAssumption
<1>q. QED
  BY <1>1, <1>2 DEF PromptLen, TargetLen

LEMMA InstanceNumbers ==
    ASSUME NEW i, Well(i)
    PROVE  /\ BlocksUsed(i) \in Nat /\ FreeBlocks(i) \in Int /\ InBatch(i) \in Nat
           /\ \A r \in DOMAIN i.req : Need(i, r) \in Int /\ Remaining(i, r) \in Int
<1> DEFINE S == Active(i)
           f == [r \in S |-> BlocksFor(i.req[r].prefilled)]
<1>1. IsFiniteSet(S) /\ S \in SUBSET DOMAIN i.req
  <2>1. /\ IsFiniteSet(ToSet(i.waiting)) /\ IsFiniteSet(ToSet(i.running))
        /\ Active(i) = ToSet(i.waiting) \cup ToSet(i.running)
        /\ Active(i) \in SUBSET DOMAIN i.req
    BY WellFields, ListFacts
  <2>q. QED
    BY <2>1, FS_Union
<1>2. \A r \in DOMAIN i.req : r \in Nat /\ i.req[r].prefilled \in Nat /\ i.req[r].generated \in Nat
  BY ReqTyped
<1>3. \A r \in S : BlocksFor(i.req[r].prefilled) \in Nat
  BY <1>1, <1>2, BlocksTyped
<1> HIDE DEF S
<1>4. DOMAIN f = S /\ \A r \in S : f[r] \in Nat
  BY <1>3
<1> HIDE DEF f
<1>5. Total(f) \in Nat
  BY <1>1, <1>4, TotalTyped
<1>6. BlocksUsed(i) \in Nat
  BY <1>5 DEF BlocksUsed, f, S
<1>7. FreeBlocks(i) \in Int
  <2>1. KvBlocks \in Nat
    BY EngineAssumption
  <2>q. QED
    BY <1>6, <2>1 DEF FreeBlocks
<1>8. InBatch(i) \in Nat
  <2> DEFINE T == {k \in DOMAIN i.waiting : i.req[i.waiting[k]].prefilled > 0}
  <2>1. Len(i.running) \in Nat /\ DOMAIN i.waiting = 1..Len(i.waiting) /\ Len(i.waiting) \in Nat
    <3>1. i.waiting \in Seq(Nat) /\ i.running \in Seq(Nat)
      BY WellFields
    <3>q. QED
      BY <3>1
  <2>2. IsFiniteSet(DOMAIN i.waiting)
    BY <2>1, FS_Interval
  <2>3. IsFiniteSet(T)
    <3>1. T \in SUBSET DOMAIN i.waiting
      OBVIOUS
    <3>q. QED
      BY <2>2, <3>1, FS_Subset
  <2> HIDE DEF T
  <2>4. Cardinality(T) \in Nat
    BY <2>3, FS_CardinalityType
  <2>q. QED
    BY <2>1, <2>4 DEF InBatch, T
<1>9. \A r \in DOMAIN i.req : Need(i, r) \in Int /\ Remaining(i, r) \in Int
  <2> SUFFICES ASSUME NEW r \in DOMAIN i.req
               PROVE  Need(i, r) \in Int /\ Remaining(i, r) \in Int
    OBVIOUS
  <2>1. r \in Nat /\ i.req[r].prefilled \in Nat /\ i.req[r].generated \in Nat
    BY <1>2
  <2>2. PromptLen(r) \in Nat /\ TargetLen(r) \in Nat
    BY <2>1, LengthsTyped
  <2>q. QED
    BY <2>1, <2>2 DEF Need, Remaining
<1>q. QED
  BY <1>6, <1>7, <1>8, <1>9

\* From i to j, waiting requests have got more of their KV cache.
Prefilling(i, j) ==
    /\ j \in Record /\ SameLists(i, j) /\ j.stats = i.stats
    /\ \A r \in DOMAIN i.req :
          /\ j.req[r].generated = i.req[r].generated
          /\ j.req[r].segments = i.req[r].segments
          /\ r \notin ToSet(i.waiting) => j.req[r] = i.req[r]

LEMMA PrefillingRefl ==
    ASSUME NEW i, Well(i)
    PROVE  Prefilling(i, i)
  BY WellFields DEF Prefilling, SameLists

LEMMA PrefillingFollows ==
    ASSUME NEW i, NEW j, NEW v, Well(i), Prefilling(i, j)
    PROVE  Follows(i, j, <<>>, v)
<1>1. /\ IsInjective(i.waiting) /\ IsInjective(i.running) /\ i.stats \in Seq(Nat)
      /\ ToSet(i.waiting) \cap ToSet(i.running) = {}
      /\ ToSet(i.waiting) \cup ToSet(i.running) = Active(i)
      /\ \A r \in DOMAIN i.req : r \notin Active(i) => r \notin ToSet(i.waiting)
  BY WellFields, ZenonT(30)
<1>2. /\ j \in Record /\ j.waiting = i.waiting /\ j.running = i.running
      /\ j.completed = i.completed /\ DOMAIN j.req = DOMAIN i.req /\ j.stats = i.stats
      /\ \A r \in DOMAIN i.req :
           /\ j.req[r].generated = i.req[r].generated
           /\ j.req[r].segments = i.req[r].segments
           /\ r \notin ToSet(i.waiting) => j.req[r] = i.req[r]
  BY DEF Prefilling, SameLists
<1>3. \A r \in DOMAIN i.req : Grown(i.req[r], j.req[r], v)
  <2> SUFFICES ASSUME NEW r \in DOMAIN i.req PROVE Grown(i.req[r], j.req[r], v)
    OBVIOUS
  <2>1. Grown(i.req[r], i.req[r], v)
    BY ReqTyped, GrownRefl
  <2>q. QED
    BY <1>2, <2>1 DEF Grown
<1>4. Len(i.stats) \in Nat
  BY <1>1
<1>5. /\ Len(i.stats) <= Len(j.stats)
      /\ \A k \in 1..Len(i.stats) : j.stats[k] = i.stats[k]
  BY <1>2, <1>4
<1>6. /\ IsInjective(j.waiting) /\ IsInjective(j.running)
      /\ ToSet(j.waiting) \cap ToSet(j.running) = {}
      /\ ToSet(j.waiting) \cup ToSet(j.running) = Active(i)
      /\ \A r \in DOMAIN i.req : /\ r \notin Active(i) => j.req[r] = i.req[r]
                                 /\ Grown(i.req[r], j.req[r], v)
  BY <1>1, <1>2, <1>3
<1>q. QED
  BY <1>2, <1>5, <1>6, Worked

LEMMA FillPrefills ==
    ASSUME NEW i, NEW j, NEW r \in ToSet(i.waiting), NEW n \in Nat, Well(i), Prefilling(i, j)
    PROVE  Prefilling(i, Fill(j, r, n))
<1> DEFINE D == DOMAIN i.req
           a == j.req[r]
           b == [a EXCEPT !.prefilled = @ + n]
           f == [j.req EXCEPT ![r] = b]
           k == Fill(j, r, n)
<1>1. Follows(i, j, <<>>, 0)
  BY PrefillingFollows
<1>2. Well(j)
  BY <1>1 DEF Follows
<1>3. /\ j \in Record /\ SameLists(i, j) /\ j.stats = i.stats
      /\ DOMAIN j.req = D
      /\ \A q \in D : /\ j.req[q].generated = i.req[q].generated
                      /\ j.req[q].segments = i.req[q].segments
                      /\ q \notin ToSet(i.waiting) => j.req[q] = i.req[q]
  BY DEF Prefilling, SameLists
<1>4. /\ D \in SUBSET Nat /\ j.req = [q \in D |-> j.req[q]]
      /\ \A q \in D : j.req[q] \in ReqState
  BY <1>2, <1>3, ReqTyped
<1>5. r \in D
  BY WellFields
<1>6. b \in ReqState /\ b.generated = a.generated /\ b.segments = a.segments
  <2>1. a \in ReqState
    BY <1>4, <1>5
  <2> HIDE DEF a
  <2>q. QED
    BY <2>1 DEF ReqState
<1>7. k = [j EXCEPT !.req = f]
  BY <1>3 DEF Fill, Record
<1> HIDE DEF b, k, D
<1>8. /\ DOMAIN f = D /\ f = [q \in D |-> f[q]] /\ f[r] = b
      /\ \A q \in D : q # r => f[q] = j.req[q]
  BY <1>4, <1>5
<1> HIDE DEF f
<1>9. f \in Requests
  <2>1. \A q \in D : f[q] \in ReqState
    BY <1>4, <1>6, <1>8
  <2>q. QED
    BY <1>4, <1>8, <2>1, RequestsFrom
<1>10. /\ k \in Record /\ k.waiting = j.waiting /\ k.running = j.running
       /\ k.completed = j.completed /\ k.req = f /\ k.stats = j.stats
  BY <1>3, <1>7, <1>9 DEF Record
<1>11. \A q \in D : /\ f[q].generated = i.req[q].generated
                    /\ f[q].segments = i.req[q].segments
                    /\ q \notin ToSet(i.waiting) => f[q] = i.req[q]
  BY <1>3, <1>6, <1>8
<1>12. SameLists(i, k)
  BY <1>3, <1>8, <1>10 DEF SameLists, D
<1>13. Prefilling(i, k)
  <2>1. \A q \in DOMAIN i.req : /\ k.req[q].generated = i.req[q].generated
                                /\ k.req[q].segments = i.req[q].segments
                                /\ q \notin ToSet(i.waiting) => k.req[q] = i.req[q]
    BY <1>10, <1>11 DEF D
  <2>q. QED
    BY <1>3, <1>10, <1>12, <2>1 DEF Prefilling
<1>q. QED
  BY <1>13 DEF k

\* The least of three numbers.
LEMMA MinOfThree ==
    ASSUME NEW a \in Int, NEW b \in Int, NEW c \in Int
    PROVE  /\ Min({a, b, c}) \in {a, b, c}
           /\ Min({a, b, c}) <= a /\ Min({a, b, c}) <= b /\ Min({a, b, c}) <= c
<1> DEFINE S == {a, b, c}
<1>1. IsFiniteSet(S)
  <2>1. IsFiniteSet({a}) /\ IsFiniteSet({b}) /\ IsFiniteSet({c})
    BY FS_Singleton
  <2>2. IsFiniteSet({a} \cup {b})
    BY <2>1, FS_Union
  <2>3. IsFiniteSet(({a} \cup {b}) \cup {c})
    BY <2>1, <2>2, FS_Union
  <2>4. S = ({a} \cup {b}) \cup {c}
    OBVIOUS
  <2>q. QED
    BY <2>3, <2>4
<1>2. S # {} /\ \A x \in S : x \in Int
  OBVIOUS
<1>3. a \in S /\ b \in S /\ c \in S
  OBVIOUS
<1> HIDE DEF S
<1>4. Min(S) \in S /\ \A y \in S : Min(S) <= y
  BY <1>1, <1>2, MinIsLeast
<1>5. Min(S) \in S /\ Min(S) <= a /\ Min(S) <= b /\ Min(S) <= c
  BY <1>3, <1>4
<1>q. QED
  BY <1>5 DEF S

\* A chunk is at most what the request needs and what the budget leaves.
LEMMA ChunkTyped ==
    ASSUME NEW i, NEW r \in DOMAIN i.req, NEW budget \in Int, NEW free \in Int, Well(i)
    PROVE  /\ Chunk(i, r, budget, free) \in Int
           /\ Chunk(i, r, budget, free) <= Need(i, r)
           /\ Chunk(i, r, budget, free) <= budget
           /\ Chunk(i, r, budget, free)
                <= (BlocksFor(i.req[r].prefilled) + Max({0, free})) * BlockSize
                     - i.req[r].prefilled
<1> DEFINE held == i.req[r].prefilled
           m == Max({0, free})
           c == (BlocksFor(held) + m) * BlockSize - held
<1>1. held \in Nat /\ BlocksFor(held) \in Nat
  <2>1. held \in Nat
    BY ReqTyped
  <2>q. QED
    BY <2>1, BlocksTyped
<1>2. m \in Int
  <2>1. 0 \in Int /\ free \in Int
    OBVIOUS
  <2>2. m \in {0, free}
    BY <2>1, MaxOfTwo
  <2>q. QED
    BY <2>2
<1>3. BlockSize \in Nat
  BY EngineAssumption
<1> HIDE DEF m, held
<1>4. c \in Int /\ Need(i, r) \in Int
  <2>1. Need(i, r) \in Int
    BY InstanceNumbers
  <2>2. BlocksFor(held) + m \in Int
    BY <1>1, <1>2
  <2>3. (BlocksFor(held) + m) * BlockSize \in Int
    BY <1>3, <2>2
  <2>q. QED
    BY <1>1, <2>1, <2>3
<1> HIDE DEF c
<1>5. /\ Min({Need(i, r), budget, c}) \in {Need(i, r), budget, c}
      /\ Min({Need(i, r), budget, c}) <= Need(i, r)
      /\ Min({Need(i, r), budget, c}) <= budget
      /\ Min({Need(i, r), budget, c}) <= c
  BY <1>4, MinOfThree
<1>6. Chunk(i, r, budget, free) = Min({Need(i, r), budget, c})
  BY DEF Chunk, c, held, m
<1>7. Min({Need(i, r), budget, c}) \in Int
  BY <1>4, <1>5
<1>q. QED
  BY <1>5, <1>6, <1>7 DEF c, held, m

\* What the loop over the waiting requests of i may hold.
PrefillState == [inst : Record, open : BOOLEAN, finished : Seq(Nat), free : Int,
                 inBatch : Int, budget : Int]

PrefillStates(i) == {s \in PrefillState : Prefilling(i, s.inst)}

LEMMA PrefillOneKeeps ==
    ASSUME NEW i, NEW s \in PrefillStates(i), NEW r \in ToSet(i.waiting), Well(i)
    PROVE  /\ PrefillOne(s, r) \in PrefillStates(i)
           /\ \/ PrefillOne(s, r).finished = s.finished
              \/ PrefillOne(s, r).finished = Append(s.finished, r)
<1> DEFINE held == s.inst.req[r].prefilled
           chunk == Chunk(s.inst, r, s.budget, s.free)
           need == Need(s.inst, r)
           blocked == held = 0 /\ ~Below(s.inBatch, MaxConcurrency)
           in == Entered(s, held)
           fin == Append(s.finished, r)
           p == PrefillOne(s, r)
<1>1. /\ s \in PrefillState /\ s.inst \in Record /\ s.finished \in Seq(Nat) /\ s.free \in Int
      /\ s.inBatch \in Int /\ s.budget \in Int /\ s.open \in BOOLEAN
      /\ Prefilling(i, s.inst)
  BY DEF PrefillStates, PrefillState
<1>2. Well(s.inst) /\ r \in DOMAIN s.inst.req /\ r \in Nat
  <2>1. Follows(i, s.inst, <<>>, 0)
    BY <1>1, PrefillingFollows
  <2>2. Well(s.inst) /\ DOMAIN s.inst.req = DOMAIN i.req
    BY <2>1 DEF Follows
  <2>3. r \in DOMAIN i.req /\ i.waiting \in Seq(Nat)
    BY WellFields
  <2>4. r \in Nat
    BY <2>3, ListFacts
  <2>q. QED
    BY <2>2, <2>3, <2>4
<1>3. held \in Nat /\ need \in Int /\ chunk \in Int /\ chunk <= need /\ in \in Int
  <2>1. held \in Nat
    BY <1>2, ReqTyped
  <2>2. need \in Int
    BY <1>2, InstanceNumbers
  <2>3. chunk \in Int /\ chunk <= need
    BY <1>1, <1>2, ChunkTyped
  <2>4. in \in Int
    BY <1>1 DEF Entered
  <2>q. QED
    BY <2>1, <2>2, <2>3, <2>4
<1>4. fin \in Seq(Nat)
  BY <1>1, <1>2
<1>5. CASE ~s.open \/ s.budget <= 0 \/ blocked
  <2>1. p = [s EXCEPT !.open = FALSE]
    BY <1>5 DEF PrefillOne
  <2>2. p \in PrefillState /\ p.inst = s.inst /\ p.finished = s.finished
    BY <1>1, <2>1 DEF PrefillState
  <2>q. QED
    BY <1>1, <2>2 DEF PrefillStates
<1>6. CASE ~(~s.open \/ s.budget <= 0 \/ blocked) /\ need <= 0
  <2>1. p = [s EXCEPT !.inBatch = in, !.finished = fin]
    BY <1>6 DEF PrefillOne
  <2> HIDE DEF in, fin, p
  <2>2. p \in PrefillState /\ p.inst = s.inst /\ p.finished = fin
    BY <1>1, <1>3, <1>4, <2>1 DEF PrefillState
  <2>q. QED
    BY <1>1, <2>2 DEF PrefillStates, p, fin
<1>7. CASE /\ ~(~s.open \/ s.budget <= 0 \/ blocked) /\ ~(need <= 0)
           /\ chunk <= 0
  <2>1. p = [s EXCEPT !.open = FALSE]
    BY <1>7 DEF PrefillOne
  <2>2. p \in PrefillState /\ p.inst = s.inst /\ p.finished = s.finished
    BY <1>1, <2>1 DEF PrefillState
  <2>q. QED
    BY <1>1, <2>2 DEF PrefillStates
<1>8. CASE /\ ~(~s.open \/ s.budget <= 0 \/ blocked) /\ ~(need <= 0)
           /\ ~(chunk <= 0)
  <2> DEFINE filled == Fill(s.inst, r, chunk)
             free == s.free - (BlocksFor(held + chunk) - BlocksFor(held))
             budget == s.budget - chunk
             finished == IF chunk = need THEN fin ELSE s.finished
  <2>1. p = [s EXCEPT !.inBatch = in, !.inst = filled, !.free = free,
                      !.budget = budget, !.finished = finished]
    BY <1>1, <1>8 DEF PrefillOne, PrefillState
  <2>2. chunk \in Nat
    BY <1>3, <1>8
  <2>3. Prefilling(i, filled)
    BY <1>1, <2>2, FillPrefills
  <2>4. filled \in Record
    BY <2>3 DEF Prefilling
  <2>5. free \in Int
    <3> HIDE DEF chunk, held
    <3>1. held + chunk \in Nat
      BY <1>3, <2>2
    <3>2. BlocksFor(held + chunk) \in Nat /\ BlocksFor(held) \in Nat
      BY <1>3, <3>1, BlocksTyped
    <3>q. QED
      BY <1>1, <3>2
  <2>6. budget \in Int /\ finished \in Seq(Nat) /\ (finished = fin \/ finished = s.finished)
    BY <1>1, <1>3, <1>4
  <2> HIDE DEF in, filled, free, budget, finished, p
  <2>7. p \in PrefillState /\ p.inst = filled /\ p.finished = finished
    BY <1>1, <1>3, <2>1, <2>4, <2>5, <2>6 DEF PrefillState
  <2>8. p \in PrefillStates(i)
    BY <2>3, <2>7 DEF PrefillStates
  <2>q. QED
    BY <2>6, <2>7, <2>8 DEF p
<1>q. QED
  BY <1>5, <1>6, <1>7, <1>8

PrefillStart(i) ==
    [inst |-> i, open |-> TRUE, finished |-> <<>>, free |-> FreeBlocks(i),
     inBatch |-> InBatch(i), budget |-> TokenBudget - Min({Len(i.running), TokenBudget})]

LEMMA PrefillStartTyped ==
    ASSUME NEW i, Well(i)
    PROVE  PrefillStart(i) \in PrefillStates(i) /\ PrefillStart(i).finished = <<>>
           /\ PrefillStart(i).inst = i
<1> DEFINE n == TokenBudget - Min({Len(i.running), TokenBudget})
           z == PrefillStart(i)
<1>1. n \in Int
  <2>1. Len(i.running) \in Int /\ TokenBudget \in Int
    <3>1. i.running \in Seq(Nat) /\ TokenBudget \in Nat
      BY WellFields, EngineAssumption
    <3>q. QED
      BY <3>1
  <2> DEFINE x == Len(i.running)
  <2> HIDE DEF x
  <2>2. Min({x, TokenBudget}) \in {x, TokenBudget}
    BY <2>1, MinOfTwo DEF x
  <2>3. Min({x, TokenBudget}) \in Int
    BY <2>1, <2>2 DEF x
  <2>q. QED
    BY <2>1, <2>3 DEF x
<1>2. FreeBlocks(i) \in Int /\ InBatch(i) \in Int /\ i \in Record /\ <<>> \in Seq(Nat)
  <2>1. FreeBlocks(i) \in Int /\ InBatch(i) \in Nat
    BY InstanceNumbers
  <2>2. i \in Record
    BY WellFields
  <2>q. QED
    BY <2>1, <2>2
<1> HIDE DEF n
<1>3. z \in PrefillState /\ z.inst = i /\ z.finished = <<>>
  BY <1>1, <1>2 DEF PrefillState, PrefillStart, n
<1>4. Prefilling(i, i)
  BY PrefillingRefl
<1> HIDE DEF z
<1>q. QED
  BY <1>3, <1>4 DEF PrefillStates, z

PrefillStarts(i, S) == PrefillStart(i) \in S[{}]

\* From S of the requests before it, each waiting request leads to S of these and it.
PrefillKeeps(i, S) ==
    \A t \in SUBSET ToSet(i.waiting) :
      t # {} => \A s \in PrefillStates(i) :
                   s \in S[t \ {Max(t)}] => PrefillOne(s, Max(t)) \in S[t]

\* What each waiting request keeps holds when all have been asked.
LEMMA PrefilledBy ==
    ASSUME NEW i, Well(i), NEW S, PrefillStarts(i, S), PrefillKeeps(i, S)
    PROVE  Prefilled(i) \in PrefillStates(i) /\ Prefilled(i) \in S[ToSet(i.waiting)]
<1> DEFINE W == ToSet(i.waiting)
           U == PrefillStates(i)
           n == TokenBudget - Min({Len(i.running), TokenBudget})
           z == PrefillStart(i)
           After(g, t) == IF t = {} THEN z ELSE PrefillOne(g[t \ {Max(t)}], Max(t))
           h == CHOOSE g : g = [t \in SUBSET W |-> After(g, t)]
           F == [x \in U \X W |-> PrefillOne(x[1], x[2])]
<1>1. Prefilled(i) = h[W]
  BY DEF Prefilled, MapThenFoldSet, PrefillStart
<1>2. IsFiniteSet(W) /\ W \in SUBSET Nat /\ \A r \in W : r \in Int
  <2>1. i.waiting \in Seq(Nat)
    BY WellFields
  <2>2. IsFiniteSet(W) /\ W \in SUBSET Nat
    BY <2>1, ListFacts
  <2>q. QED
    BY <2>2
<1>3. z \in U
  BY PrefillStartTyped
<1> HIDE DEF z
<1>4. \A s \in U, r \in W : /\ F[<<s, r>>] = PrefillOne(s, r)
                            /\ PrefillOne(s, r) \in U
                            /\ \/ PrefillOne(s, r).finished = s.finished
                               \/ PrefillOne(s, r).finished = Append(s.finished, r)
  <2> SUFFICES ASSUME NEW s \in U, NEW r \in W
               PROVE  /\ F[<<s, r>>] = PrefillOne(s, r)
                      /\ PrefillOne(s, r) \in U
                      /\ \/ PrefillOne(s, r).finished = s.finished
                         \/ PrefillOne(s, r).finished = Append(s.finished, r)
    BY Zenon
  <2>1. F[<<s, r>>] = PrefillOne(s, r)
    OBVIOUS
  <2>q. QED
    BY <2>1, PrefillOneKeeps
<1> HIDE DEF F, U, W
<1>5. \A t \in SUBSET W : t # {} => /\ Max(t) \in t /\ Max(t) \in W
                                    /\ t \ {Max(t)} \in SUBSET W
  BY <1>2, MaxChooses
<1>6. \E g : g = [t \in SUBSET W |-> After(g, t)]
  <2>1. \A x \in U \X W : F[x] \in U
    BY <1>4
  <2>2. PICK g : OnSubsets(g, W) /\ IsMaxFold(g, W, z, F) /\ \A t \in SUBSET W : g[t] \in U
    BY <1>2, <1>3, <2>1, FoldTyped
  <2>3. \A t \in SUBSET W : g[t] = After(g, t)
    <3> SUFFICES ASSUME NEW t \in SUBSET W, t # {}
                 PROVE  g[t] = PrefillOne(g[t \ {Max(t)}], Max(t))
      BY <2>2 DEF IsMaxFold
    <3>1. Max(t) \in W /\ g[t \ {Max(t)}] \in U
      BY <1>5, <2>2
    <3>2. g[t] = F[<<g[t \ {Max(t)}], Max(t)>>]
      BY <2>2 DEF IsMaxFold
    <3>q. QED
      BY <1>4, <3>1, <3>2
  <2> HIDE DEF After
  <2>4. g = [t \in SUBSET W |-> After(g, t)]
    BY <2>2, <2>3 DEF OnSubsets
  <2>q. QED
    BY <2>4
<1>7. \A t \in SUBSET W : h[t] = After(h, t)
  <2>1. h = [t \in SUBSET W |-> After(h, t)]
    <3> HIDE DEF After
    <3>q. QED
      BY <1>6
  <2> HIDE DEF h, After
  <2>q. QED
    BY <2>1
<1> HIDE DEF h
<1> DEFINE c == [t \in SUBSET W |-> Max(t)]
           P == [t \in SUBSET W |-> U \cap S[t]]
<1>8. \A t \in SUBSET W : c[t] = Max(t) /\ P[t] = U \cap S[t]
  OBVIOUS
<1>9. h[{}] \in P[{}]
  <2>1. {} \in SUBSET W
    OBVIOUS
  <2>2. h[{}] = z
    BY <1>7, <2>1
  <2>3. z \in S[{}]
    BY DEF PrefillStarts, z
  <2>q. QED
    BY <1>3, <1>8, <2>1, <2>2, <2>3
<1>10. ASSUME NEW t \in SUBSET W, t # {}, h[t \ {c[t]}] \in P[t \ {c[t]}]
       PROVE  h[t] \in P[t]
  <2> DEFINE r == Max(t)
             s == h[t \ {r}]
  <2>1. r \in t /\ r \in W /\ t \ {r} \in SUBSET W /\ c[t] = r
    BY <1>5, <1>8, <1>10
  <2>2. s \in U /\ s \in S[t \ {r}]
    BY <1>8, <1>10, <2>1
  <2>3. h[t] = PrefillOne(s, r)
    BY <1>7, <1>10
  <2>4. PrefillOne(s, r) \in S[t]
    <3> HIDE DEF s
    <3>q. QED
      BY <1>10, <2>2 DEF PrefillKeeps, U, W
  <2> HIDE DEF r, s
  <2>5. h[t] \in U
    BY <1>4, <2>1, <2>2, <2>3
  <2>q. QED
    BY <1>8, <2>3, <2>4, <2>5
<1>11. \A t \in SUBSET W : h[t] \in P[t]
  <2>1. \A t \in SUBSET W : t # {} => c[t] \in t
    BY <1>5, <1>8
  <2>2. \A t \in SUBSET W : t # {} /\ h[t \ {c[t]}] \in P[t \ {c[t]}] => h[t] \in P[t]
    BY <1>10
  <2> HIDE DEF P, c
  <2>q. QED
    BY <1>2, <1>9, <2>1, <2>2, FoldKeeps
<1>12. h[W] \in U /\ h[W] \in S[W]
  <2>1. W \in SUBSET W
    OBVIOUS
  <2>q. QED
    BY <1>8, <1>11, <2>1
<1>q. QED
  BY <1>1, <1>12 DEF U, W

\* The finished requests are among those asked, each of them once.
FinishedIn(t) == {s \in PrefillState : IsInjective(s.finished) /\ ToSet(s.finished) \subseteq t}

\* The loop over the waiting requests only fills caches; it finishes waiting
\* requests, each of them once.
LEMMA PrefilledFacts ==
    ASSUME NEW i, Well(i)
    PROVE  /\ Prefilled(i) \in PrefillStates(i)
           /\ IsInjective(Prefilled(i).finished)
           /\ ToSet(Prefilled(i).finished) \subseteq ToSet(i.waiting)
<1> DEFINE W == ToSet(i.waiting)
           S == [t \in SUBSET W |-> FinishedIn(t)]
<1>1. \A t \in SUBSET W : S[t] = FinishedIn(t)
  OBVIOUS
<1>2. IsFiniteSet(W) /\ W \in SUBSET Nat /\ \A r \in W : r \in Int
  <2>1. i.waiting \in Seq(Nat)
    BY WellFields
  <2>2. IsFiniteSet(W) /\ W \in SUBSET Nat
    BY <2>1, ListFacts
  <2>q. QED
    BY <2>2
<1> HIDE DEF S, W
<1>3. PrefillStarts(i, S)
  <2>1. ToSet(<<>>) = {} /\ IsInjective(<<>>)
    BY DEF ToSet, IsInjective
  <2>2. PrefillStart(i) \in PrefillState /\ PrefillStart(i).finished = <<>>
    BY PrefillStartTyped DEF PrefillStates
  <2>3. {} \in SUBSET W
    OBVIOUS
  <2>q. QED
    BY <1>1, <2>1, <2>2, <2>3 DEF FinishedIn, PrefillStarts
<1>4. PrefillKeeps(i, S)
  <2> SUFFICES ASSUME NEW t \in SUBSET W, t # {}, NEW s \in PrefillStates(i),
                      s \in S[t \ {Max(t)}]
               PROVE  PrefillOne(s, Max(t)) \in S[t]
    BY DEF PrefillKeeps, W
  <2> DEFINE r == Max(t)
             p == PrefillOne(s, r)
  <2>1. r \in t /\ r \in W /\ t \ {r} \in SUBSET W
    BY <1>2, MaxChooses
  <2>2. s \in PrefillState /\ IsInjective(s.finished) /\ ToSet(s.finished) \subseteq t \ {r}
    BY <1>1, <2>1 DEF FinishedIn
  <2> HIDE DEF r
  <2>3. /\ p \in PrefillStates(i)
        /\ p.finished = s.finished \/ p.finished = Append(s.finished, r)
    BY <2>1, PrefillOneKeeps DEF W
  <2> HIDE DEF p
  <2>4. /\ s.finished \in Seq(Nat) /\ r \in Nat /\ r \notin ToSet(s.finished)
    BY <1>2, <2>1, <2>2 DEF PrefillState
  <2>5. /\ IsInjective(Append(s.finished, r))
        /\ ToSet(Append(s.finished, r)) = ToSet(s.finished) \cup {r}
    <3> DEFINE list == s.finished
    <3>1. list \in Seq(Nat) /\ r \in Nat /\ r \notin ToSet(list) /\ IsInjective(list)
      BY <2>2, <2>4
    <3> HIDE DEF list
    <3>2. /\ IsInjective(Append(list, r))
          /\ ToSet(Append(list, r)) = ToSet(list) \cup {r}
      BY <3>1, AppendFacts
    <3>q. QED
      BY <3>2 DEF list
  <2>6. IsInjective(p.finished) /\ ToSet(p.finished) \subseteq t
    BY <2>1, <2>2, <2>3, <2>5
  <2>7. p \in FinishedIn(t)
    BY <2>3, <2>6 DEF FinishedIn, PrefillStates
  <2>q. QED
    BY <1>1, <2>7 DEF p, r
<1>5. Prefilled(i) \in PrefillStates(i) /\ Prefilled(i) \in S[W]
  BY <1>3, <1>4, PrefilledBy DEF W
<1>6. Prefilled(i) \in FinishedIn(W)
  BY <1>1, <1>5
<1>q. QED
  BY <1>5, <1>6 DEF FinishedIn, W

-----------------------------------------------------------------------------
(* The decodes of a step.                                                  *)

\* What the loop over the running requests of i may hold.
DecodeState == [inst : Record, stepped : Seq(Nat)]

DecodeStates(i, v) ==
    {s \in DecodeState : Follows(i, s.inst, <<>>, v) /\ SameLists(i, s.inst)}

LEMMA DecodeOneKeeps ==
    ASSUME NEW i, NEW v \in Nat, NEW s \in DecodeStates(i, v), NEW r \in ToSet(i.running),
           Well(i)
    PROVE  /\ DecodeOne(s, r, v) \in DecodeStates(i, v)
           /\ \/ DecodeOne(s, r, v).stepped = s.stepped
              \/ DecodeOne(s, r, v).stepped = Append(s.stepped, r)
<1> DEFINE p == DecodeOne(s, r, v)
           j == Generate(s.inst, {r}, v, 1)
<1>1. /\ s \in DecodeState /\ s.inst \in Record /\ s.stepped \in Seq(Nat)
      /\ Follows(i, s.inst, <<>>, v) /\ SameLists(i, s.inst)
  BY DEF DecodeStates, DecodeState
<1>2. Well(s.inst) /\ {r} \subseteq Active(s.inst) /\ r \in Nat
  <2>1. Well(s.inst) /\ s.inst.running = i.running
    BY <1>1 DEF Follows, SameLists
  <2>2. ToSet(s.inst.running) \subseteq Active(s.inst)
    BY <2>1, WellFields
  <2>3. i.running \in Seq(Nat)
    BY WellFields
  <2>4. r \in Nat
    BY <2>3, ListFacts
  <2>q. QED
    BY <2>1, <2>2, <2>4
<1>3. CASE HasBlock(s.inst, r)
  <2>1. p = [inst |-> j, stepped |-> Append(s.stepped, r)]
    BY <1>3 DEF DecodeOne
  <2>2. Follows(s.inst, j, <<>>, v) /\ SameLists(s.inst, j)
    <3> DEFINE rs == {r}
    <3>1. rs \subseteq Active(s.inst) /\ 1 \in Nat
      BY <1>2
    <3> HIDE DEF rs
    <3>2. /\ Follows(s.inst, Generate(s.inst, rs, v, 1), <<>>, v)
          /\ SameLists(s.inst, Generate(s.inst, rs, v, 1))
      BY <1>2, <3>1, GenerateFollows
    <3>q. QED
      BY <3>2 DEF rs
  <2> HIDE DEF j
  <2>3. Follows(i, j, <<>>, v)
    BY <1>1, <2>2, WorkedTwice
  <2>4. SameLists(i, j)
    BY <1>1, <2>2 DEF SameLists
  <2>5. j \in Record
    BY <2>3, WellFields DEF Follows
  <2>6. Append(s.stepped, r) \in Seq(Nat)
    BY <1>1, <1>2
  <2>7. p \in DecodeState /\ p.inst = j /\ p.stepped = Append(s.stepped, r)
    BY <2>1, <2>5, <2>6 DEF DecodeState
  <2> HIDE DEF p
  <2>8. p \in DecodeStates(i, v)
    BY <2>3, <2>4, <2>7 DEF DecodeStates
  <2>q. QED
    BY <2>7, <2>8 DEF p
<1>4. CASE ~HasBlock(s.inst, r)
  BY <1>4 DEF DecodeOne
<1>q. QED
  BY <1>3, <1>4

DecodeStart(i) == [inst |-> i, stepped |-> <<>>]

\* P[k] holds once the first k requests of list have been asked.
DecodeKeeps(i, v, list, P) ==
    /\ DecodeStart(i) \in P[0]
    /\ \A k \in 1..Len(list) : \A s \in DecodeStates(i, v) :
          s \in P[k - 1] => DecodeOne(s, list[k], v) \in P[k]

LEMMA DecodedBy ==
    ASSUME NEW i, NEW v \in Nat, NEW list \in Seq(Nat), Well(i),
           ToSet(list) \subseteq ToSet(i.running), NEW P, DecodeKeeps(i, v, list, P)
    PROVE  DecodedAll(i, v, list) \in DecodeStates(i, v)
           /\ DecodedAll(i, v, list) \in P[Len(list)]
<1> DEFINE n == Len(list)
           D == 1..n
           U == DecodeStates(i, v)
           z == DecodeStart(i)
           Op(s, k) == DecodeOne(s, list[k], v)
           After(g, t) == IF t = {} THEN z ELSE Op(g[t \ {Max(t)}], Max(t))
           h == CHOOSE g : g = [t \in SUBSET D |-> After(g, t)]
           F == [x \in U \X D |-> Op(x[1], x[2])]
<1>1. n \in Nat /\ DOMAIN list = D /\ IsFiniteSet(D) /\ \A k \in D : k \in Int
  BY Places
<1>2. DecodedAll(i, v, list) = h[D]
  <2>1. DecodedAll(i, v, list) =
           (CHOOSE g : g = [t \in SUBSET (DOMAIN list) |-> After(g, t)])[DOMAIN list]
    BY DEF DecodedAll, FoldLeft, MapThenFoldSet, DecodeStart
  <2>q. QED
    BY <1>1, <2>1
<1>3. \A k \in D : list[k] \in ToSet(i.running) /\ list[k] \in Nat
  <2>1. \A k \in D : list[k] \in ToSet(list)
    <3> HIDE DEF D
    <3>q. QED
      BY <1>1 DEF ToSet
  <2>2. ToSet(list) \in SUBSET Nat
    BY ListFacts
  <2> HIDE DEF D
  <2>q. QED
    BY <2>1, <2>2
<1>4. z \in U /\ z.stepped = <<>>
  <2>1. i \in Record /\ Follows(i, i, <<>>, v) /\ SameLists(i, i)
    BY WellFields, FollowsRefl DEF SameLists
  <2>q. QED
    BY <2>1 DEF DecodeStates, DecodeState, DecodeStart
<1>5. \A s \in U, k \in D : /\ F[<<s, k>>] = Op(s, k) /\ Op(s, k) \in U
                            /\ \/ Op(s, k).stepped = s.stepped
                               \/ Op(s, k).stepped = Append(s.stepped, list[k])
  <2> SUFFICES ASSUME NEW s \in U, NEW k \in D
               PROVE  /\ F[<<s, k>>] = Op(s, k) /\ Op(s, k) \in U
                      /\ \/ Op(s, k).stepped = s.stepped
                         \/ Op(s, k).stepped = Append(s.stepped, list[k])
    BY Zenon
  <2>1. F[<<s, k>>] = Op(s, k)
    OBVIOUS
  <2>2. list[k] \in ToSet(i.running)
    BY <1>3
  <2>3. /\ DecodeOne(s, list[k], v) \in DecodeStates(i, v)
        /\ \/ DecodeOne(s, list[k], v).stepped = s.stepped
           \/ DecodeOne(s, list[k], v).stepped = Append(s.stepped, list[k])
    BY <2>2, DecodeOneKeeps
  <2>q. QED
    BY <2>1, <2>3
<1> HIDE DEF F, U, D, z, Op
<1>6. \A t \in SUBSET D : t # {} => /\ Max(t) \in D /\ t \ {Max(t)} \in SUBSET D
  BY <1>1, MaxChooses
<1>7. \A x \in U \X D : F[x] \in U
  BY <1>5
<1>8. \E g : g = [t \in SUBSET D |-> After(g, t)]
  <2>1. PICK g : OnSubsets(g, D) /\ IsMaxFold(g, D, z, F) /\ \A t \in SUBSET D : g[t] \in U
    BY <1>1, <1>4, <1>7, FoldTyped
  <2>2. \A t \in SUBSET D : g[t] = After(g, t)
    <3> SUFFICES ASSUME NEW t \in SUBSET D, t # {}
                 PROVE  g[t] = Op(g[t \ {Max(t)}], Max(t))
      BY <2>1 DEF IsMaxFold
    <3>1. Max(t) \in D /\ g[t \ {Max(t)}] \in U
      BY <1>6, <2>1
    <3>2. g[t] = F[<<g[t \ {Max(t)}], Max(t)>>]
      BY <2>1 DEF IsMaxFold
    <3>q. QED
      BY <1>5, <3>1, <3>2
  <2> HIDE DEF After
  <2>3. g = [t \in SUBSET D |-> After(g, t)]
    BY <2>1, <2>2 DEF OnSubsets
  <2>q. QED
    BY <2>3
<1>9. \A t \in SUBSET D : h[t] = After(h, t)
  <2>1. h = [t \in SUBSET D |-> After(h, t)]
    <3> HIDE DEF After
    <3>q. QED
      BY <1>8
  <2> HIDE DEF h, After
  <2>q. QED
    BY <2>1
<1> HIDE DEF h
<1>p. PICK q : Passes(q, z, U, D, F) /\ q[n] = h[D]
  <2>1. h[{}] = z
    <3>1. {} \in SUBSET D
      OBVIOUS
    <3>q. QED
      BY <1>9, <3>1
  <2>2. \A t \in SUBSET D : t # {} /\ h[t \ {Max(t)}] \in U
                              => h[t] = F[<<h[t \ {Max(t)}], Max(t)>>]
    BY <1>5, <1>6, <1>9
  <2>3. IsPlaces(D, n) /\ n \in Nat /\ z \in U
    BY <1>1, <1>4 DEF D, IsPlaces
  <2>4. FoldsFrom(h, z, U, D, F)
    BY <2>1, <2>2 DEF FoldsFrom
  <2> HIDE DEF After, n
  <2>5. \A x \in U \X D : F[x] \in U
    BY <1>7
  <2>6. Unrolled(h, z, U, D, F, n)
    BY <2>3, <2>4, <2>5, FoldedAlong
  <2>q. QED
    BY <2>6 DEF Unrolled
<1>10. /\ q[0] = z /\ q[n] = h[D]
       /\ \A k \in D : /\ q[k - 1] \in U /\ q[k] \in U
                       /\ q[k] = F[<<q[k - 1], k>>]
  BY <1>p DEF Passes
<1>11. /\ \A k \in 1..n : k \in D /\ k - 1 \in 0..n
       /\ n \in 0..n
  BY <1>1 DEF D
<1>12. q[0] \in P[0]
  BY <1>10 DEF DecodeKeeps, z
<1>13. ASSUME NEW k \in 1..n, q[k - 1] \in P[k - 1]
       PROVE  q[k] \in P[k]
  <2> DEFINE s == q[k - 1]
             p == q[k]
  <2>1. s \in U /\ k \in D /\ p = F[<<s, k>>]
    BY <1>10, <1>11
  <2>2. s \in P[k - 1]
    BY <1>13
  <2> HIDE DEF s, p
  <2>3. p = DecodeOne(s, list[k], v)
    BY <1>5, <2>1 DEF Op
  <2>4. DecodeOne(s, list[k], v) \in P[k]
    BY <2>1, <2>2 DEF DecodeKeeps, U
  <2>q. QED
    BY <2>3, <2>4 DEF p
<1>14. q[n] \in P[n]
  <2>1. \A k \in 1..n : q[k - 1] \in P[k - 1] => q[k] \in P[k]
    BY <1>13
  <2> HIDE DEF n
  <2>2. \A k \in 0..n : q[k] \in P[k]
    BY <1>1, <1>12, <2>1, AlongPlaces
  <2>q. QED
    BY <1>11, <2>2
<1>15. q[n] \in U
  <2>1. CASE n = 0
    BY <1>4, <1>10, <2>1
  <2>2. CASE n # 0
    <3>1. n \in D
      BY <1>1, <2>2 DEF D
    <3>q. QED
      BY <1>10, <3>1
  <2>q. QED
    BY <2>1, <2>2
<1>q. QED
  BY <1>2, <1>10, <1>14, <1>15 DEF U

\* The requests that decoded are among the first k, each of them once.
SteppedIn(list, k) ==
    {s \in DecodeState : IsInjective(s.stepped) /\ ToSet(s.stepped) \subseteq {list[j] : j \in 1..k}}

LEMMA DecodedAllFacts ==
    ASSUME NEW i, NEW v \in Nat, NEW list \in Seq(Nat), Well(i),
           IsInjective(list), ToSet(list) \subseteq ToSet(i.running)
    PROVE  /\ DecodedAll(i, v, list) \in DecodeStates(i, v)
           /\ IsInjective(DecodedAll(i, v, list).stepped)
           /\ ToSet(DecodedAll(i, v, list).stepped) \subseteq ToSet(list)
<1> DEFINE n == Len(list)
           P == [k \in 0..n |-> SteppedIn(list, k)]
<1>1. n \in Nat /\ DOMAIN list = 1..n
  OBVIOUS
<1>2. \A k \in 0..n : P[k] = SteppedIn(list, k)
  OBVIOUS
<1> HIDE DEF P, n
<1>3. DecodeStart(i) \in P[0]
  <2>1. ToSet(<<>>) = {} /\ IsInjective(<<>>) /\ 0 \in 0..n
    BY <1>1 DEF ToSet, IsInjective
  <2>2. i \in Record
    BY WellFields
  <2>3. DecodeStart(i) \in DecodeState /\ DecodeStart(i).stepped = <<>>
    BY <2>2 DEF DecodeStart, DecodeState
  <2>q. QED
    BY <1>2, <2>1, <2>3 DEF SteppedIn
<1>4. ASSUME NEW k \in 1..n, NEW s \in DecodeStates(i, v), s \in P[k - 1]
      PROVE  DecodeOne(s, list[k], v) \in P[k]
  <2>1. k - 1 \in 0..n /\ k \in 0..n /\ k \in Int
    BY <1>1
  <2> DEFINE FirstOf(m) == {list[j] : j \in 1..m}
             r == list[k]
             p == DecodeOne(s, r, v)
  <2>2. IsInjective(s.stepped) /\ ToSet(s.stepped) \subseteq FirstOf(k - 1)
    BY <1>2, <1>4, <2>1 DEF SteppedIn
  <2>3. r \in ToSet(list) /\ r \in ToSet(i.running) /\ r \in Nat
    <3>1. r \in ToSet(list)
      BY <1>1 DEF ToSet
    <3>2. ToSet(list) \in SUBSET Nat
      BY ListFacts
    <3>q. QED
      BY <3>1, <3>2
  <2>4. FirstOf(k) = FirstOf(k - 1) \cup {r}
    <3>1. 1..k = (1..(k - 1)) \cup {k}
      BY <2>1
    <3>q. QED
      BY <3>1
  <2>5. r \notin FirstOf(k - 1)
    <3>1. \A j \in 1..(k - 1) : j \in 1..n /\ j # k
      BY <1>1, <2>1
    <3>q. QED
      BY <1>1, <2>1, <3>1 DEF IsInjective
  <2> HIDE DEF r, FirstOf
  <2>6. /\ p \in DecodeStates(i, v)
        /\ p.stepped = s.stepped \/ p.stepped = Append(s.stepped, r)
    BY <2>3, DecodeOneKeeps
  <2> DEFINE done == s.stepped
  <2>7. done \in Seq(Nat) /\ r \notin ToSet(done) /\ IsInjective(done)
    BY <2>2, <2>5 DEF DecodeStates, DecodeState
  <2> HIDE DEF p, done
  <2>8. /\ IsInjective(Append(done, r)) /\ ToSet(Append(done, r)) = ToSet(done) \cup {r}
    BY <2>3, <2>7, AppendFacts
  <2>9. IsInjective(p.stepped) /\ ToSet(p.stepped) \subseteq FirstOf(k)
    BY <2>2, <2>4, <2>6, <2>8 DEF done
  <2>10. p \in SteppedIn(list, k)
    BY <2>6, <2>9 DEF SteppedIn, DecodeStates, FirstOf
  <2>q. QED
    BY <1>2, <2>1, <2>10 DEF p, r
<1>5. DecodeKeeps(i, v, list, P)
  BY <1>3, <1>4 DEF DecodeKeeps, n
<1>6. DecodedAll(i, v, list) \in DecodeStates(i, v) /\ DecodedAll(i, v, list) \in P[n]
  BY <1>5, DecodedBy DEF n
<1>7. n \in 0..n /\ {list[j] : j \in 1..n} = ToSet(list)
  BY <1>1 DEF ToSet
<1>8. DecodedAll(i, v, list) \in SteppedIn(list, n)
  BY <1>2, <1>6, <1>7
<1>q. QED
  BY <1>6, <1>7, <1>8 DEF SteppedIn

LEMMA AtTargetFacts ==
    ASSUME NEW i, NEW list \in Seq(Nat)
    PROVE  /\ AtTarget(i, list) \in Seq(Nat)
           /\ ToSet(AtTarget(i, list)) = {r \in ToSet(list) : Remaining(i, r) <= 0}
           /\ IsInjective(list) => IsInjective(AtTarget(i, list))
<1> DEFINE S == {r \in ToSet(list) : Remaining(i, r) <= 0}
<1>1. /\ Kept(list, S) \in Seq(Nat) /\ ToSet(Kept(list, S)) = ToSet(list) \cap S
      /\ IsInjective(list) => IsInjective(Kept(list, S))
  BY KeptFacts
<1>2. AtTarget(i, list) = Kept(list, S)
  BY DEF AtTarget
<1>q. QED
  BY <1>1, <1>2

\* A step with prefills only moves on from i; what it completes runs in the
\* end and has been decoded.
LEMMA BudgetStepFollows ==
    ASSUME NEW i, NEW v \in Nat, Well(i)
    PROVE  LET step_ == BudgetStep(i, v)
           IN /\ Follows(i, step_.inst, <<>>, v)
              /\ step_.done \in Seq(Nat) /\ IsInjective(step_.done)
              /\ ToSet(step_.done) \subseteq ToSet(step_.inst.running)
<1> DEFINE n == Min({Len(i.running), TokenBudget})
           p == Prefilled(i)
           logged == Logged(p.inst, n)
           front == SubSeq(i.running, 1, n)
           d == DecodedAll(logged, v, front)
           j == Promote(d.inst, p.finished)
           done == AtTarget(d.inst, d.stepped)
           step_ == BudgetStep(i, v)
<1>0. step_.inst = j /\ step_.done = done
  BY DEF BudgetStep
<1>1. n \in Nat /\ n <= Len(i.running)
  <2> DEFINE x == Len(i.running)
  <2>1. x \in Nat /\ TokenBudget \in Nat
    <3>1. i.running \in Seq(Nat)
      BY WellFields
    <3>q. QED
      BY <3>1, EngineAssumption
  <2> HIDE DEF x
  <2>2. x \in Int /\ TokenBudget \in Int
    BY <2>1
  <2>3. Min({x, TokenBudget}) \in {x, TokenBudget} /\ Min({x, TokenBudget}) <= x
    BY <2>2, MinOfTwo
  <2>4. Min({x, TokenBudget}) \in Nat /\ Min({x, TokenBudget}) <= x
    BY <2>1, <2>3
  <2>q. QED
    BY <2>4 DEF x
<1>2. /\ i.running \in Seq(Nat) /\ IsInjective(i.running)
      /\ i.waiting \in Seq(Nat)
  BY WellFields
<1> HIDE DEF n, step_
<1>3. /\ front \in Seq(Nat) /\ IsInjective(front) /\ ToSet(front) \subseteq ToSet(i.running)
  BY <1>1, <1>2, PrefixFacts
<1>4. /\ p \in PrefillStates(i) /\ IsInjective(p.finished)
      /\ ToSet(p.finished) \subseteq ToSet(i.waiting)
  BY PrefilledFacts
<1> HIDE DEF p, front
<1>5. /\ p.finished \in Seq(Nat) /\ Prefilling(i, p.inst)
  BY <1>4 DEF PrefillStates, PrefillState
<1>6. Follows(i, p.inst, <<>>, v) /\ SameLists(i, p.inst)
  BY <1>5, PrefillingFollows DEF Prefilling
<1>7. Well(p.inst)
  BY <1>6 DEF Follows
<1>8. Follows(p.inst, logged, <<>>, v) /\ SameLists(p.inst, logged)
  BY <1>1, <1>7, LoggedFollows DEF SameLists
<1> HIDE DEF logged
<1>9. Well(logged) /\ logged.running = i.running /\ logged.waiting = i.waiting
  BY <1>6, <1>8 DEF SameLists, Follows
<1>10. /\ d \in DecodeStates(logged, v) /\ IsInjective(d.stepped)
       /\ ToSet(d.stepped) \subseteq ToSet(front)
  <2>1. ToSet(front) \subseteq ToSet(logged.running)
    BY <1>3, <1>9
  <2>q. QED
    BY <1>3, <1>9, <2>1, DecodedAllFacts
<1> HIDE DEF d
<1>11. /\ d.stepped \in Seq(Nat) /\ Follows(logged, d.inst, <<>>, v)
       /\ SameLists(logged, d.inst)
  BY <1>10 DEF DecodeStates, DecodeState
<1>12. /\ Well(d.inst) /\ d.inst.running = i.running /\ d.inst.waiting = i.waiting
  BY <1>9, <1>11 DEF Follows, SameLists
<1>13. /\ Follows(d.inst, j, <<>>, v)
       /\ ToSet(d.inst.running) \subseteq ToSet(j.running)
  <2>1. ToSet(p.finished) \subseteq ToSet(d.inst.waiting)
    BY <1>4, <1>12
  <2>q. QED
    BY <1>4, <1>5, <1>12, <2>1, PromoteFollows
<1>14. done \in Seq(Nat) /\ IsInjective(done) /\ ToSet(done) \subseteq ToSet(d.stepped)
  BY <1>10, <1>11, AtTargetFacts
<1> HIDE DEF j, done
<1>15. Follows(i, logged, <<>>, v)
  BY <1>6, <1>8, WorkedTwice
<1>16. Follows(i, d.inst, <<>>, v)
  BY <1>11, <1>15, WorkedTwice
<1>17. Follows(i, j, <<>>, v)
  BY <1>13, <1>16, WorkedTwice
<1>18. ToSet(done) \subseteq ToSet(j.running)
  BY <1>3, <1>10, <1>12, <1>13, <1>14
<1>19. /\ Follows(i, step_.inst, <<>>, v)
       /\ step_.done \in Seq(Nat) /\ IsInjective(step_.done)
       /\ ToSet(step_.done) \subseteq ToSet(step_.inst.running)
  BY <1>0, <1>14, <1>17, <1>18
<1>q. QED
  BY <1>19 DEF step_

\* What an event has done to instance i.
EventOf(i, e, v) == Follows(i, e.inst, e.done, v) /\ e.dt \in Nat

LEMMA PrefillEventFollows ==
    ASSUME NEW i, NEW v \in Nat, Well(i)
    PROVE  EventOf(i, PrefillEvent(i, v), v)
<1> DEFINE s == BudgetStep(i, v)
           e == PrefillEvent(i, v)
<1>1. /\ Follows(i, s.inst, <<>>, v)
      /\ s.done \in Seq(Nat) /\ IsInjective(s.done)
      /\ ToSet(s.done) \subseteq ToSet(s.inst.running)
  BY BudgetStepFollows
<1>2. Well(s.inst)
  BY <1>1 DEF Follows
<1>3. PrefillTime \in Nat
  BY EngineAssumption
<1>4. CASE s.done # <<>>
  <2>1. e.inst = Retire(s.inst, s.done) /\ e.done = s.done /\ e.dt = PrefillTime
    BY <1>4 DEF PrefillEvent
  <2> HIDE DEF s, e
  <2>2. Follows(s.inst, Retire(s.inst, s.done), s.done, v)
    BY <1>1, <1>2, RetireFollows
  <2>3. Follows(i, e.inst, e.done, v)
    BY <1>1, <2>1, <2>2, WorkedTwice
  <2>q. QED
    BY <1>3, <2>1, <2>3 DEF EventOf, e
<1>5. CASE s.done = <<>> /\ Deadlocked(s.inst)
  <2>1. e.inst = PreemptForProgress(s.inst) /\ e.done = <<>> /\ e.dt = PrefillTime
    BY <1>5 DEF PrefillEvent
  <2> HIDE DEF s, e
  <2>2. Follows(s.inst, PreemptForProgress(s.inst), <<>>, v)
    BY <1>2, PreemptForProgressFollows
  <2>3. Follows(i, e.inst, e.done, v)
    BY <1>1, <2>1, <2>2, WorkedTwice
  <2>q. QED
    BY <1>3, <2>1, <2>3 DEF EventOf, e
<1>6. CASE s.done = <<>> /\ ~Deadlocked(s.inst)
  <2>1. e.inst = s.inst /\ e.done = <<>> /\ e.dt = PrefillTime
    BY <1>6 DEF PrefillEvent
  <2> HIDE DEF s, e
  <2>3. Follows(i, e.inst, e.done, v)
    BY <1>1, <2>1
  <2>q. QED
    BY <1>3, <2>1, <2>3 DEF EventOf, e
<1>q. QED
  BY <1>4, <1>5, <1>6

-----------------------------------------------------------------------------
(* Events.                                                                 *)

LEMMA RemainingSet ==
    ASSUME NEW i, Well(i)
    PROVE  LET S == {Remaining(i, r) : r \in ToSet(i.running)}
           IN IsFiniteSet(S) /\ S \in SUBSET Int /\ (i.running # <<>> => S # {})
<1> DEFINE R == ToSet(i.running)
           S == {Remaining(i, r) : r \in R}
<1>1. IsFiniteSet(R) /\ R \in SUBSET DOMAIN i.req /\ (i.running # <<>> => R # {})
  <2>1. i.running \in Seq(Nat) /\ R \in SUBSET DOMAIN i.req
    BY WellFields
  <2>q. QED
    BY <2>1, ListFacts
<1>2. \A r \in R : Remaining(i, r) \in Int
  BY <1>1, InstanceNumbers
<1>3. IsFiniteSet(S)
  <2> DEFINE f == [r \in R |-> Remaining(i, r)]
  <2>1. f \in Surjection(R, S)
    <3>1. f \in [R -> S] /\ \A x \in S : \E r \in R : f[r] = x
      OBVIOUS
    <3>q. QED
      BY <3>1 DEF Surjection
  <2> HIDE DEF f, R, S
  <2>q. QED
    BY <1>1, <2>1, FS_Surjection
<1>4. S \in SUBSET Int /\ (i.running # <<>> => S # {})
  BY <1>1, <1>2
<1>q. QED
  BY <1>3, <1>4

LEMMA KvExhaustionTyped ==
    ASSUME NEW i, Well(i)
    PROVE  KvExhaustion(i) \in SUBSET Nat /\ IsFiniteSet(KvExhaustion(i))
<1> DEFINE S == {Remaining(i, r) : r \in ToSet(i.running)}
           T == {0} \cup S
           cap == Max(T)
<1>1. IsFiniteSet(S) /\ S \in SUBSET Int
  BY RemainingSet
<1> HIDE DEF S
<1>2. IsFiniteSet(T)
  <2>1. IsFiniteSet({0})
    BY FS_Singleton
  <2>q. QED
    BY <1>1, <2>1, FS_Union
<1>3. T # {} /\ \A x \in T : x \in Int
  BY <1>1
<1> HIDE DEF T
<1>4. cap \in Int
  BY <1>2, <1>3, MaxIsGreatest
<1>5. KvExhaustion(i) \in SUBSET (0..cap)
  BY DEF KvExhaustion, T, S
<1> HIDE DEF cap
<1>6. IsFiniteSet(0..cap)
  <2>1. 0 \in Int
    OBVIOUS
  <2>q. QED
    BY <1>4, <2>1, FS_Interval
<1>7. IsFiniteSet(KvExhaustion(i))
  BY <1>5, <1>6, FS_Subset
<1>q. QED
  BY <1>4, <1>5, <1>7

\* A decode segment ends at the first completion or exhaustion, and not
\* before it starts.
LEMMA SegmentTyped ==
    ASSUME NEW i, Well(i), i.running # <<>>
    PROVE  /\ SegmentSteps(i) \in Nat
           /\ ToCompletion(i) \in Int
           /\ ToCompletion(i) >= 0 => SegmentSteps(i) <= ToCompletion(i)
           /\ \A e \in KvExhaustion(i) : SegmentSteps(i) <= e
           /\ \A r \in ToSet(i.running) : ToCompletion(i) <= Remaining(i, r)
<1> DEFINE S == {Remaining(i, r) : r \in ToSet(i.running)}
           c == ToCompletion(i)
           T == {c} \cup KvExhaustion(i)
           m == Min(T)
<1>1. IsFiniteSet(S) /\ S \in SUBSET Int /\ S # {}
  BY RemainingSet
<1>2. c = Min(S)
  BY DEF ToCompletion
<1>a. \A r \in ToSet(i.running) : Remaining(i, r) \in S
  OBVIOUS
<1> HIDE DEF S, c
<1>3. \A x \in S : x \in Int
  BY <1>1
<1>4. c \in Int /\ \A x \in S : c <= x
  BY <1>1, <1>2, <1>3, MinIsLeast
<1>5. KvExhaustion(i) \in SUBSET Nat /\ IsFiniteSet(KvExhaustion(i))
  BY KvExhaustionTyped
<1>6. IsFiniteSet(T)
  <2>1. IsFiniteSet({c})
    BY FS_Singleton
  <2>q. QED
    BY <1>5, <2>1, FS_Union
<1>7. T # {} /\ c \in T /\ KvExhaustion(i) \subseteq T /\ \A x \in T : x \in Int
  BY <1>4, <1>5
<1> HIDE DEF T
<1>8. m \in Int /\ \A x \in T : m <= x
  BY <1>6, <1>7, MinIsLeast
<1> HIDE DEF m
<1>9. 0 \in Int
  OBVIOUS
<1>10. Max({0, m}) \in {0, m} /\ 0 <= Max({0, m}) /\ m <= Max({0, m})
  BY <1>8, <1>9, MaxOfTwo
<1>11. SegmentSteps(i) = Max({0, m})
  BY DEF SegmentSteps, m, T, c
<1>12. Max({0, m}) \in Int
  BY <1>8, <1>10
<1>13. SegmentSteps(i) \in Nat
  BY <1>10, <1>11, <1>12
<1>14. c >= 0 => SegmentSteps(i) <= c
  <2>1. m <= c
    BY <1>7, <1>8
  <2>q. QED
    BY <1>4, <1>8, <1>10, <1>11, <2>1
<1>15. \A e \in KvExhaustion(i) : SegmentSteps(i) <= e
  <2> SUFFICES ASSUME NEW e \in KvExhaustion(i) PROVE SegmentSteps(i) <= e
    OBVIOUS
  <2>1. e \in Nat /\ m <= e
    BY <1>5, <1>7, <1>8
  <2>q. QED
    BY <1>8, <1>10, <1>11, <2>1
<1>16. \A r \in ToSet(i.running) : c <= Remaining(i, r)
  BY <1>4, <1>a
<1>q. QED
  BY <1>4, <1>13, <1>14, <1>15, <1>16 DEF c

LEMMA EndedFacts ==
    ASSUME NEW i, Well(i)
    PROVE  /\ Ended(i) \in Seq(Nat) /\ IsInjective(Ended(i))
           /\ ToSet(Ended(i)) \subseteq ToSet(i.running)
<1>1. i.running \in Seq(Nat) /\ IsInjective(i.running)
  BY WellFields
<1>2. /\ AtTarget(i, i.running) \in Seq(Nat) /\ IsInjective(AtTarget(i, i.running))
      /\ ToSet(AtTarget(i, i.running)) = {r \in ToSet(i.running) : Remaining(i, r) <= 0}
  BY <1>1, AtTargetFacts
<1>q. QED
  BY <1>2 DEF Ended

LEMMA DecodeEventFollows ==
    ASSUME NEW i, NEW v \in Nat, Well(i), i.running # <<>>
    PROVE  EventOf(i, DecodeEvent(i, v), v)
<1> DEFINE k == SegmentSteps(i)
           next == DecodeSegment(i, v, k)
           exhausted == \E x \in KvExhaustion(i) : x <= k
           e == DecodeEvent(i, v)
<1>1. k \in Nat
  BY SegmentTyped
<1>2. k * DecodeTime \in Nat
  <2>1. DecodeTime \in Nat
    BY EngineAssumption
  <2> HIDE DEF k
  <2>q. QED
    BY <1>1, <2>1
<1>3. CASE BlocksUsed(next) > KvBlocks \/ exhausted
  <2>1. e.inst = PreemptLast(next) /\ e.done = <<>> /\ e.dt = k * DecodeTime
    BY <1>3 DEF DecodeEvent
  <2> HIDE DEF k, e
  <2>2. Follows(i, next, <<>>, v)
    BY <1>1, DecodeSegmentFollows
  <2> HIDE DEF next
  <2>3. Well(next)
    BY <2>2 DEF Follows
  <2>4. Follows(next, PreemptLast(next), <<>>, v)
    BY <2>3, PreemptLastFollows
  <2>5. Follows(i, PreemptLast(next), <<>>, v)
    BY <2>2, <2>4, WorkedTwice
  <2>6. Follows(i, e.inst, e.done, v) /\ e.dt \in Nat
    BY <1>2, <2>1, <2>5
  <2>q. QED
    BY <2>6 DEF EventOf, e
<1>4. CASE ~(BlocksUsed(next) > KvBlocks \/ exhausted)
  <2>1. e.inst = Retire(next, Ended(next)) /\ e.done = Ended(next) /\ e.dt = k * DecodeTime
    BY <1>4 DEF DecodeEvent
  <2> HIDE DEF k, e
  <2>2. Follows(i, next, <<>>, v)
    BY <1>1, DecodeSegmentFollows
  <2> HIDE DEF next
  <2>3. Well(next)
    BY <2>2 DEF Follows
  <2> DEFINE done == Ended(next)
  <2>a. done \in Seq(Nat) /\ IsInjective(done) /\ ToSet(done) \subseteq ToSet(next.running)
    BY <2>3, EndedFacts
  <2>b. e.inst = Retire(next, done) /\ e.done = done
    BY <2>1
  <2> HIDE DEF done
  <2>4. Follows(next, Retire(next, done), done, v)
    BY <2>3, <2>a, RetireFollows
  <2>5. Follows(i, Retire(next, done), done, v)
    BY <2>2, <2>4, WorkedTwice
  <2>6. Follows(i, e.inst, e.done, v) /\ e.dt \in Nat
    BY <1>2, <2>1, <2>b, <2>5
  <2>q. QED
    BY <2>6 DEF EventOf, e
<1>q. QED
  BY <1>3, <1>4

\* An event of an instance that has something to do.
LEMMA EventFollows ==
    ASSUME NEW i, NEW v \in Nat, Well(i), ~Idle(i)
    PROVE  EventOf(i, AdvanceOneEvent(i, v), v)
<1>1. CASE i.waiting # <<>>
  <2>1. AdvanceOneEvent(i, v) = PrefillEvent(i, v)
    BY <1>1 DEF AdvanceOneEvent
  <2>q. QED
    BY <2>1, PrefillEventFollows
<1>2. CASE i.waiting = <<>>
  <2>1. AdvanceOneEvent(i, v) = DecodeEvent(i, v)
    BY <1>2 DEF AdvanceOneEvent
  <2>2. i.running # <<>>
    <3>1. ToSet(<<>>) = {}
      BY DEF ToSet
    <3>2. Active(i) # {}
      BY DEF Idle
    <3>q. QED
      BY <1>2, <3>1, <3>2 DEF Active
  <2>q. QED
    BY <2>1, <2>2, DecodeEventFollows
<1>q. QED
  BY <1>1, <1>2

-----------------------------------------------------------------------------
(* Aligning an instance.                                                   *)

AdvanceState == [inst : Record, left : Int, done : Seq(Nat), open : BOOLEAN]

\* What one round may do to a, while the loop goes on.
Advances(a, b, v) ==
    /\ b \in AdvanceState
    /\ Follows(a.inst, b.inst, b.done, v)
    /\ b.open => b.done = <<>>
    /\ 0 <= b.left /\ b.left <= a.left

LEMMA ExceptAdvance ==
    ASSUME NEW a \in AdvanceState, NEW j \in Record, NEW n \in Int
    PROVE  LET b == [a EXCEPT !.inst = j, !.left = @ - n]
           IN /\ b \in AdvanceState /\ b.inst = j /\ b.left = a.left - n
              /\ b.done = a.done /\ b.open = a.open
<1> DEFINE b == [a EXCEPT !.inst = j, !.left = @ - n]
           m == a.left - n
<1>1. a.left \in Int /\ m \in Int
  BY DEF AdvanceState
<1>2. b = [a EXCEPT !.inst = j, !.left = m]
  BY DEF AdvanceState
<1> HIDE DEF b, m
<1>3. /\ b \in AdvanceState /\ b.inst = j /\ b.left = m
      /\ b.done = a.done /\ b.open = a.open
  BY <1>1, <1>2 DEF AdvanceState
<1>q. QED
  BY <1>3 DEF b, m

LEMMA FollowsRecord ==
    ASSUME NEW i, NEW j, NEW done, NEW v, Follows(i, j, done, v)
    PROVE  Well(j) /\ j \in Record /\ done \in Seq(Nat)
<1>1. Well(j) /\ done \in Seq(Nat)
  BY DEF Follows
<1>q. QED
  BY <1>1, WellFields

LEMMA AtLimitAdvances ==
    ASSUME NEW a \in AdvanceState, NEW j, NEW v, a.done = <<>>, a.left >= 0,
           Follows(a.inst, j, <<>>, v)
    PROVE  Advances(a, AtLimit(a, j), v)
<1> DEFINE b == AtLimit(a, j)
<1>1. j \in Record
  BY FollowsRecord
<1>2. /\ b \in AdvanceState /\ b.inst = j /\ b.left = 0 /\ b.done = <<>> /\ b.open = FALSE
  <2>1. b = [a EXCEPT !.inst = j, !.left = 0, !.open = FALSE]
    BY DEF AtLimit
  <2>2. b = [inst |-> j, left |-> 0, done |-> a.done, open |-> FALSE]
    BY <2>1 DEF AdvanceState
  <2>3. a.done \in Seq(Nat)
    BY DEF AdvanceState
  <2> HIDE DEF b
  <2>q. QED
    BY <1>1, <2>2, <2>3 DEF AdvanceState
<1>3. a.left \in Int
  BY DEF AdvanceState
<1> HIDE DEF b
<1>4. Advances(a, b, v)
  BY <1>2, <1>3 DEF Advances
<1>q. QED
  BY <1>4 DEF b

LEMMA PrefillRoundAdvances ==
    ASSUME NEW a \in AdvanceState, NEW v \in Nat, Well(a.inst), a.done = <<>>, a.open,
           a.left > 0
    PROVE  Advances(a, PrefillRound(a, v), v)
<1> DEFINE s == BudgetStep(a.inst, v)
           preempted == PreemptForProgress(s.inst)
           left == a.left - PrefillTime
           b == PrefillRound(a, v)
<1>1. /\ a.left \in Int /\ a.inst \in Record /\ PrefillTime \in Nat /\ a.open \in BOOLEAN
  BY EngineAssumption DEF AdvanceState
<1>2. /\ Follows(a.inst, s.inst, <<>>, v)
      /\ s.done \in Seq(Nat) /\ IsInjective(s.done)
      /\ ToSet(s.done) \subseteq ToSet(s.inst.running)
  BY BudgetStepFollows
<1>3. Well(s.inst) /\ s.inst \in Record
  BY <1>2, FollowsRecord
<1>4. CASE TooLate(a)
  <2>1. b = AtLimit(a, a.inst)
    BY <1>4 DEF PrefillRound
  <2>2. Follows(a.inst, a.inst, <<>>, v)
    BY FollowsRefl
  <2>3. a.left >= 0
    BY <1>1
  <2>q. QED
    BY <2>1, <2>2, <2>3, AtLimitAdvances
<1>5. CASE ~TooLate(a)
  <2>1. left \in Int /\ 0 <= left /\ left <= a.left
    BY <1>1, <1>5 DEF TooLate
  <2>2. CASE s.done # <<>>
    <3> DEFINE j == Retire(s.inst, s.done)
               next == [a EXCEPT !.inst = s.inst, !.left = @ - PrefillTime]
    <3>1. Follows(s.inst, j, s.done, v)
      BY <1>2, <1>3, RetireFollows
    <3>2. Follows(a.inst, j, s.done, v)
      BY <1>2, <3>1, WorkedTwice
    <3>3. j \in Record
      BY <3>2, FollowsRecord
    <3>4. b = [next EXCEPT !.inst = Retire(@, s.done), !.done = s.done, !.open = FALSE]
      BY <1>5, <2>2 DEF PrefillRound
    <3>5. /\ next \in AdvanceState /\ next.inst = s.inst /\ next.left = left
      <4>1. PrefillTime \in Int
        BY <1>1
      <4> DEFINE x == s.inst
      <4>2. x \in Record
        BY <1>3
      <4> HIDE DEF x
      <4>3. /\ [a EXCEPT !.inst = x, !.left = @ - PrefillTime] \in AdvanceState
            /\ [a EXCEPT !.inst = x, !.left = @ - PrefillTime].inst = x
            /\ [a EXCEPT !.inst = x, !.left = @ - PrefillTime].left = a.left - PrefillTime
        BY <4>1, <4>2, ExceptAdvance, Zenon
      <4>q. QED
        BY <4>3 DEF x
    <3>6. b = [next EXCEPT !.inst = j, !.done = s.done, !.open = FALSE]
      <4>1. next.inst = s.inst
        BY <3>5
      <4> HIDE DEF next, s
      <4>q. QED
        BY <3>4, <3>5, <4>1
    <3> HIDE DEF j, s, b, left, next
    <3>7. /\ b \in AdvanceState /\ b.inst = j /\ b.left = left /\ b.done = s.done
          /\ b.open = FALSE
      BY <1>2, <3>3, <3>5, <3>6 DEF AdvanceState
    <3>8. Advances(a, b, v)
      BY <2>1, <3>2, <3>7 DEF Advances
    <3>q. QED
      BY <3>8 DEF b
  <2>3. CASE s.done = <<>> /\ ~Deadlocked(s.inst)
    <3>1. b = [a EXCEPT !.inst = s.inst, !.left = @ - PrefillTime]
      BY <1>5, <2>3 DEF PrefillRound
    <3>2. PrefillTime \in Int /\ s.inst \in Record
      BY <1>1, <1>3
    <3> HIDE DEF s, b
    <3>3. /\ b \in AdvanceState /\ b.inst = s.inst /\ b.left = left /\ b.done = <<>>
      BY <3>1, <3>2, ExceptAdvance, Zenon
    <3> HIDE DEF left
    <3>4. Advances(a, b, v)
      BY <1>2, <2>1, <3>3 DEF Advances
    <3>q. QED
      BY <3>4 DEF b
  <2>4. CASE s.done = <<>> /\ Deadlocked(s.inst) /\ preempted = s.inst
    <3>1. b = AtLimit(a, s.inst)
      BY <1>5, <2>4 DEF PrefillRound
    <3>2. a.left >= 0
      BY <1>1
    <3>q. QED
      BY <1>2, <3>1, <3>2, AtLimitAdvances
  <2>5. CASE s.done = <<>> /\ Deadlocked(s.inst) /\ preempted # s.inst
    <3> DEFINE next == [a EXCEPT !.inst = s.inst, !.left = @ - PrefillTime]
    <3>1. b = [next EXCEPT !.inst = preempted]
      BY <1>5, <2>5 DEF PrefillRound
    <3>2. next \in AdvanceState /\ next.left = left /\ next.done = <<>>
      <4> DEFINE x == s.inst
      <4>1. PrefillTime \in Int /\ x \in Record
        BY <1>1, <1>3
      <4> DEFINE c == [a EXCEPT !.inst = x, !.left = @ - PrefillTime]
      <4> HIDE DEF x
      <4>2. /\ c \in AdvanceState /\ c.inst = x /\ c.left = a.left - PrefillTime
            /\ c.done = a.done /\ c.open = a.open
        BY <4>1, ExceptAdvance, ZenonT(30)
      <4> HIDE DEF c
      <4>3. next = c
        BY DEF c, x
      <4> HIDE DEF next
      <4>q. QED
        BY <4>2, <4>3
    <3>3. Follows(s.inst, preempted, <<>>, v)
      BY <1>3, PreemptForProgressFollows
    <3>4. Follows(a.inst, preempted, <<>>, v)
      BY <1>2, <3>3, WorkedTwice
    <3>5. preempted \in Record
      BY <3>4, FollowsRecord
    <3> HIDE DEF s, b, left, preempted, next
    <3>7. b \in AdvanceState /\ b.inst = preempted /\ b.left = left /\ b.done = <<>>
      BY <3>1, <3>2, <3>5 DEF AdvanceState
    <3>8. Advances(a, b, v)
      BY <2>1, <3>4, <3>7 DEF Advances
    <3>q. QED
      BY <3>8 DEF b
  <2>q. QED
    BY <2>2, <2>3, <2>4, <2>5
<1>q. QED
  BY <1>4, <1>5

LEMMA DivFits ==
    ASSUME NEW d \in Nat, d >= 1, NEW x \in Nat
    PROVE  x \div d \in Nat /\ (x \div d) * d <= x
<1>1. x \div d \in Nat
  OBVIOUS
<1>2. (x \div d) * d <= x
  OBVIOUS
<1>q. QED
  BY <1>1, <1>2

\* The decode steps that fit into the time left.
LEMMA StepsFit ==
    ASSUME NEW full \in Nat, NEW left \in Nat
    PROVE  LET k == Min({full, left \div DecodeTime})
           IN k \in Nat /\ k * DecodeTime \in Nat /\ k * DecodeTime <= left
<1> DEFINE q == left \div DecodeTime
           k == Min({full, q})
<1>1. DecodeTime \in Nat /\ DecodeTime >= 1
  BY EngineAssumption
<1>2. q \in Nat /\ q * DecodeTime <= left
  BY <1>1, DivFits
<1> HIDE DEF q
<1>3. k \in {full, q} /\ k <= full /\ k <= q
  <2>1. full \in Int /\ q \in Int
    BY <1>2
  <2>q. QED
    BY <2>1, MinOfTwo
<1>4. k \in Nat
  BY <1>2, <1>3
<1> HIDE DEF k
<1>5. k * DecodeTime \in Nat /\ q * DecodeTime \in Nat
  BY <1>1, <1>2, <1>4
<1>6. k * DecodeTime <= q * DecodeTime
  <2>1. q - k \in Nat
    BY <1>2, <1>3, <1>4
  <2>2. (q - k) * DecodeTime \in Nat
    BY <1>1, <2>1
  <2>3. q * DecodeTime = (q - k) * DecodeTime + k * DecodeTime
    BY <1>1, <1>2, <1>4
  <2>q. QED
    BY <1>5, <2>2, <2>3
<1>7. k \in Nat /\ k * DecodeTime \in Nat /\ k * DecodeTime <= left
  BY <1>2, <1>4, <1>5, <1>6
<1>q. QED
  BY <1>7 DEF k, q

LEMMA DecodeRoundAdvances ==
    ASSUME NEW a \in AdvanceState, NEW v \in Nat, Well(a.inst), a.done = <<>>,
           a.left > 0, a.inst.running # <<>>
    PROVE  Advances(a, DecodeRound(a, v), v)
<1> DEFINE full == SegmentSteps(a.inst)
           k == Min({full, a.left \div DecodeTime})
           next == DecodeSegment(a.inst, v, k)
           done == Ended(next)
           left == a.left - k * DecodeTime
           after == [a EXCEPT !.inst = next, !.left = @ - k * DecodeTime, !.open = FALSE]
           b == DecodeRound(a, v)
<1>1. a.left \in Nat /\ a.inst \in Record
  BY DEF AdvanceState
<1>2. k \in Nat /\ left \in Int /\ 0 <= left /\ left <= a.left
  <2>1. full \in Nat
    BY SegmentTyped
  <2> DEFINE x == a.left
  <2> HIDE DEF full, x
  <2>2. k = Min({full, x \div DecodeTime})
    BY DEF x
  <2>3. /\ Min({full, x \div DecodeTime}) \in Nat
        /\ Min({full, x \div DecodeTime}) * DecodeTime \in Nat
        /\ Min({full, x \div DecodeTime}) * DecodeTime <= x
    BY <1>1, <2>1, StepsFit DEF x
  <2> HIDE DEF k
  <2>4. k \in Nat /\ k * DecodeTime \in Nat /\ k * DecodeTime <= x
    BY <2>2, <2>3
  <2>q. QED
    BY <1>1, <2>4 DEF x
<1>d. /\ BlocksUsed(next) > KvBlocks => b = [after EXCEPT !.inst = PreemptLast(@)]
      /\ ~(BlocksUsed(next) > KvBlocks) /\ (k < full \/ done = <<>>) => b = AtLimit(a, next)
      /\ ~(BlocksUsed(next) > KvBlocks) /\ ~(k < full \/ done = <<>>)
           => b = [after EXCEPT !.inst = Retire(@, done), !.done = done]
  BY DEF DecodeRound
<1> HIDE DEF b
<1> HIDE DEF k
<1>4. Follows(a.inst, next, <<>>, v)
  BY <1>2, DecodeSegmentFollows
<1>3. /\ after \in AdvanceState /\ after.inst = next /\ after.left = left
      /\ after.done = <<>> /\ after.open = FALSE
  <2> DEFINE m == k * DecodeTime
             c == [a EXCEPT !.inst = next, !.left = @ - m]
  <2>1. after = [c EXCEPT !.open = FALSE]
    OBVIOUS
  <2>2. m \in Int
    <3>1. DecodeTime \in Nat
      BY EngineAssumption
    <3>q. QED
      BY <1>2, <3>1
  <2>3. next \in Record
    BY <1>4, FollowsRecord
  <2> HIDE DEF next, m, after
  <2>4. c \in AdvanceState /\ c.inst = next /\ c.left = a.left - m /\ c.done = <<>>
    BY <2>2, <2>3, ExceptAdvance, Zenon
  <2> HIDE DEF c
  <2>q. QED
    BY <2>1, <2>4 DEF m, AdvanceState
<1> HIDE DEF next, left, after
<1>5. Well(next)
  BY <1>4, FollowsRecord
<1>6. done \in Seq(Nat) /\ IsInjective(done) /\ ToSet(done) \subseteq ToSet(next.running)
  BY <1>5, EndedFacts
<1> HIDE DEF done
<1>7. CASE BlocksUsed(next) > KvBlocks
  <2> DEFINE j == PreemptLast(next)
  <2>1. b = [after EXCEPT !.inst = j]
    BY <1>3, <1>7, <1>d
  <2>2. Follows(next, j, <<>>, v)
    BY <1>5, PreemptLastFollows
  <2> HIDE DEF j
  <2>3. Follows(a.inst, j, <<>>, v)
    BY <1>4, <2>2, WorkedTwice
  <2>4. j \in Record
    BY <2>3, FollowsRecord
  <2>5. b \in AdvanceState /\ b.inst = j /\ b.left = left /\ b.done = <<>>
    BY <1>3, <2>1, <2>4 DEF AdvanceState
  <2>q. QED
    BY <1>2, <2>3, <2>5 DEF Advances, b, left
<1>8. CASE ~(BlocksUsed(next) > KvBlocks) /\ (k < full \/ done = <<>>)
  <2>1. b = AtLimit(a, next)
    BY <1>8, <1>d
  <2>2. a.left >= 0
    BY <1>1
  <2>q. QED
    BY <1>4, <2>1, <2>2, AtLimitAdvances DEF b
<1>9. CASE ~(BlocksUsed(next) > KvBlocks) /\ ~(k < full \/ done = <<>>)
  <2> DEFINE j == Retire(next, done)
  <2>1. b = [after EXCEPT !.inst = j, !.done = done]
    BY <1>3, <1>9, <1>d
  <2>2. Follows(next, j, done, v)
    BY <1>5, <1>6, RetireFollows
  <2> HIDE DEF j
  <2>3. Follows(a.inst, j, done, v)
    BY <1>4, <2>2, WorkedTwice
  <2>4. j \in Record
    BY <2>3, FollowsRecord
  <2>5. b \in AdvanceState /\ b.inst = j /\ b.left = left /\ b.done = done /\ b.open = FALSE
    BY <1>3, <1>6, <2>1, <2>4 DEF AdvanceState
  <2>q. QED
    BY <1>2, <2>3, <2>5 DEF Advances, b, left
<1>q. QED
  BY <1>7, <1>8, <1>9

\* What the loop that aligns i may hold.
AdvanceStates(i, time, v) ==
    {a \in AdvanceState : /\ Follows(i, a.inst, a.done, v)
                          /\ a.open => a.done = <<>>
                          /\ a.left <= time
                          /\ time >= 0 => a.left >= 0}

LEMMA AdvanceRoundKeeps ==
    ASSUME NEW i, NEW time \in Int, NEW v \in Nat, NEW a \in AdvanceStates(i, time, v), Well(i)
    PROVE  AdvanceRound(a, v) \in AdvanceStates(i, time, v)
<1> DEFINE ready_ == PromoteReady(a.inst)
           c == [a EXCEPT !.inst = PromoteReady(@)]
           b == AdvanceRound(a, v)
<1>1. /\ a \in AdvanceState /\ Follows(i, a.inst, a.done, v) /\ (a.open => a.done = <<>>)
      /\ a.left \in Int /\ a.left <= time /\ (time >= 0 => a.left >= 0)
  BY DEF AdvanceStates, AdvanceState
<1>2. CASE ~a.open \/ a.left <= 0
  BY <1>2 DEF AdvanceRound
<1>3. CASE ~(~a.open \/ a.left <= 0)
  <2>1. a.open /\ a.done = <<>> /\ a.left > 0 /\ Follows(i, a.inst, <<>>, v)
    BY <1>1, <1>3
  <2>2. Well(a.inst)
    BY <1>1, FollowsRecord
  <2>3. Follows(a.inst, ready_, <<>>, v)
    BY <2>2, PromoteReadyFollows
  <2> HIDE DEF c
  <2>4. /\ c.inst.waiting # <<>> => b = PrefillRound(c, v)
        /\ c.inst.waiting = <<>> /\ c.inst.running = <<>> => b = AtLimit(c, c.inst)
        /\ c.inst.waiting = <<>> /\ c.inst.running # <<>> => b = DecodeRound(c, v)
    <3>1. b = ReadyRound(c, v)
      BY <1>3 DEF AdvanceRound, c
    <3> HIDE DEF b, c
    <3>q. QED
      BY <3>1 DEF ReadyRound
  <2> HIDE DEF ready_, b
  <2>5. ready_ \in Record /\ Well(ready_)
    BY <2>3, FollowsRecord
  <2>6. /\ c \in AdvanceState /\ c.inst = ready_ /\ c.left = a.left /\ c.done = <<>>
        /\ c.open = a.open
    <3>1. c = [a EXCEPT !.inst = ready_]
      BY DEF ready_, c
    <3>q. QED
      BY <1>1, <2>1, <2>5, <3>1 DEF AdvanceState
  <2>7. Well(c.inst) /\ c.open /\ c.left > 0 /\ c.left >= 0 /\ Follows(i, c.inst, <<>>, v)
    <3>1. Follows(i, ready_, <<>>, v)
      <4>1. Well(i)
        OBVIOUS
      <4>q. QED
        BY <2>1, <2>3, <4>1, WorkedTwice
    <3>q. QED
      BY <1>1, <2>1, <2>5, <2>6, <3>1
  <2>8. Advances(c, b, v)
    <3>1. CASE c.inst.waiting # <<>>
      BY <2>4, <2>6, <2>7, <3>1, PrefillRoundAdvances
    <3>2. CASE c.inst.waiting = <<>> /\ c.inst.running = <<>>
      <4>1. Follows(c.inst, c.inst, <<>>, v)
        BY <2>7, FollowsRefl
      <4>2. b = AtLimit(c, c.inst)
        BY <2>4, <3>2
      <4>q. QED
        BY <2>6, <2>7, <4>1, <4>2, AtLimitAdvances
    <3>3. CASE c.inst.waiting = <<>> /\ c.inst.running # <<>>
      BY <2>4, <2>6, <2>7, <3>3, DecodeRoundAdvances
    <3>q. QED
      BY <3>1, <3>2, <3>3
  <2>9. /\ b \in AdvanceState /\ Follows(c.inst, b.inst, b.done, v)
        /\ (b.open => b.done = <<>>) /\ 0 <= b.left /\ b.left <= a.left /\ b.left \in Int
    BY <2>6, <2>8 DEF Advances, AdvanceState
  <2>10. Follows(i, b.inst, b.done, v)
    BY <2>7, <2>9, WorkedTwice
  <2>11. b.left <= time
    BY <1>1, <2>9
  <2>12. b \in AdvanceStates(i, time, v)
    BY <2>9, <2>10, <2>11 DEF AdvanceStates
  <2>q. QED
    BY <2>12 DEF b
<1>q. QED
  BY <1>2, <1>3

AdvanceStart(i, time) == [inst |-> i, left |-> time, done |-> <<>>, open |-> TRUE]

\* P[k] holds after k rounds of the loop.
AdvanceKeeps(i, v, time, P) ==
    /\ AdvanceStart(i, time) \in P[0]
    /\ \A k \in 1..time : \A a \in AdvanceStates(i, time, v) :
          a \in P[k - 1] => AdvanceRound(a, v) \in P[k]

\* advance_to only moves on from i, and not beyond the given time.
LEMMA AdvancedBy ==
    ASSUME NEW i, NEW v \in Nat, NEW time \in Int, Well(i), NEW P, AdvanceKeeps(i, v, time, P)
    PROVE  /\ AdvanceTo(i, time, v) \in AdvanceStates(i, time, v)
           /\ AdvanceTo(i, time, v) \in P[IF time > 0 THEN time ELSE 0]
<1> DEFINE list == [tick \in 1..time |-> tick]
           n == IF time > 0 THEN time ELSE 0
           D == 1..n
           U == AdvanceStates(i, time, v)
           z == AdvanceStart(i, time)
           After(g, t) == IF t = {} THEN z ELSE AdvanceRound(g[t \ {Max(t)}], v)
           h == CHOOSE g : g = [t \in SUBSET D |-> After(g, t)]
           F == [x \in U \X D |-> AdvanceRound(x[1], v)]
<1>1. IsFiniteSet(D) /\ \A k \in D : k \in Int
  <2>1. n \in Nat
    OBVIOUS
  <2> HIDE DEF n
  <2>q. QED
    BY <2>1, Places
<1>2. AdvanceTo(i, time, v) = h[D]
  <2>1. AdvanceTo(i, time, v) =
           (CHOOSE g : g = [t \in SUBSET (DOMAIN list) |-> After(g, t)])[DOMAIN list]
    BY DEF AdvanceTo, FoldLeft, MapThenFoldSet, AdvanceStart
  <2>2. DOMAIN list = D
    <3>1. 1..time = 1..n
      OBVIOUS
    <3>q. QED
      BY <3>1
  <2>q. QED
    BY <2>1, <2>2
<1>3. z \in U
  <2>1. Follows(i, i, <<>>, v) /\ i \in Record /\ <<>> \in Seq(Nat)
    <3>1. Follows(i, i, <<>>, v)
      BY FollowsRefl
    <3>2. i \in Record
      BY WellFields
    <3>q. QED
      BY <3>1, <3>2
  <2>2. /\ z \in AdvanceState /\ z.inst = i /\ z.left = time /\ z.done = <<>>
    BY <2>1 DEF AdvanceState, AdvanceStart
  <2> HIDE DEF z
  <2>3. z.left <= time /\ (time >= 0 => z.left >= 0)
    BY <2>2
  <2>q. QED
    BY <2>1, <2>2, <2>3 DEF AdvanceStates
<1>4. \A a \in U, k \in D : /\ F[<<a, k>>] = AdvanceRound(a, v)
                            /\ AdvanceRound(a, v) \in U
  <2> SUFFICES ASSUME NEW a \in U, NEW k \in D
               PROVE  F[<<a, k>>] = AdvanceRound(a, v) /\ AdvanceRound(a, v) \in U
    BY Zenon
  <2>1. F[<<a, k>>] = AdvanceRound(a, v)
    OBVIOUS
  <2>2. AdvanceRound(a, v) \in AdvanceStates(i, time, v)
    BY AdvanceRoundKeeps
  <2>q. QED
    BY <2>1, <2>2
<1> HIDE DEF F, U, D, z
<1>5. \A t \in SUBSET D : t # {} => /\ Max(t) \in t /\ Max(t) \in D
                                    /\ t \ {Max(t)} \in SUBSET D
  BY <1>1, MaxChooses
<1>6. \A x \in U \X D : F[x] \in U
  BY <1>4
<1>7. \E g : g = [t \in SUBSET D |-> After(g, t)]
  <2>1. PICK g : OnSubsets(g, D) /\ IsMaxFold(g, D, z, F) /\ \A t \in SUBSET D : g[t] \in U
    BY <1>1, <1>3, <1>6, FoldTyped
  <2>2. \A t \in SUBSET D : g[t] = After(g, t)
    <3> SUFFICES ASSUME NEW t \in SUBSET D, t # {}
                 PROVE  g[t] = AdvanceRound(g[t \ {Max(t)}], v)
      BY <2>1 DEF IsMaxFold
    <3>1. Max(t) \in D /\ g[t \ {Max(t)}] \in U
      BY <1>5, <2>1
    <3>2. g[t] = F[<<g[t \ {Max(t)}], Max(t)>>]
      BY <2>1 DEF IsMaxFold
    <3>q. QED
      BY <1>4, <3>1, <3>2
  <2> HIDE DEF After
  <2>3. g = [t \in SUBSET D |-> After(g, t)]
    BY <2>1, <2>2 DEF OnSubsets
  <2>q. QED
    BY <2>3
<1>8. \A t \in SUBSET D : h[t] = After(h, t)
  <2>1. h = [t \in SUBSET D |-> After(h, t)]
    <3> HIDE DEF After
    <3>q. QED
      BY <1>7
  <2> HIDE DEF h, After
  <2>q. QED
    BY <2>1
<1> HIDE DEF h
<1>n. n \in Nat /\ 1..n = 1..time
  BY DEF n
<1>p. PICK q : Passes(q, z, U, D, F) /\ q[n] = h[D]
  <2>1. h[{}] = z
    <3>1. {} \in SUBSET D
      OBVIOUS
    <3>q. QED
      BY <1>8, <3>1
  <2>2. \A t \in SUBSET D : t # {} /\ h[t \ {Max(t)}] \in U
                              => h[t] = F[<<h[t \ {Max(t)}], Max(t)>>]
    BY <1>4, <1>5, <1>8
  <2>3. IsPlaces(D, n) /\ n \in Nat /\ z \in U
    BY <1>n, <1>3 DEF D, IsPlaces
  <2>4. FoldsFrom(h, z, U, D, F)
    BY <2>1, <2>2 DEF FoldsFrom
  <2> HIDE DEF After, n
  <2>6. Unrolled(h, z, U, D, F, n)
    BY <1>6, <2>3, <2>4, FoldedAlong
  <2>q. QED
    BY <2>6 DEF Unrolled
<1>10. /\ q[0] = z /\ q[n] = h[D]
       /\ \A k \in D : /\ q[k - 1] \in U /\ q[k] \in U
                       /\ q[k] = F[<<q[k - 1], k>>]
  BY <1>p DEF Passes
<1> HIDE DEF n
<1>11. /\ \A k \in 1..n : k \in D /\ k - 1 \in 0..n
       /\ n \in 0..n
  BY <1>n DEF D
<1>12. q[0] \in P[0]
  BY <1>10 DEF AdvanceKeeps, z
<1>13. ASSUME NEW k \in 1..n, q[k - 1] \in P[k - 1]
       PROVE  q[k] \in P[k]
  <2> DEFINE s == q[k - 1]
             p == q[k]
  <2>1. s \in U /\ k \in D /\ p = F[<<s, k>>]
    BY <1>10, <1>11
  <2>2. s \in P[k - 1] /\ k \in 1..time
    BY <1>n, <1>13
  <2> HIDE DEF s, p
  <2>3. p = AdvanceRound(s, v)
    BY <1>4, <2>1
  <2>4. AdvanceRound(s, v) \in P[k]
    BY <2>1, <2>2 DEF AdvanceKeeps, U
  <2>q. QED
    BY <2>3, <2>4 DEF p
<1>14. q[n] \in P[n]
  <2>1. \A k \in 1..n : q[k - 1] \in P[k - 1] => q[k] \in P[k]
    BY <1>13
  <2>2. \A k \in 0..n : q[k] \in P[k]
    BY <1>n, <1>12, <2>1, AlongPlaces
  <2>q. QED
    BY <1>11, <2>2
<1>15. q[n] \in U
  <2>1. CASE n = 0
    BY <1>3, <1>10, <2>1
  <2>2. CASE n # 0
    <3>1. n \in D
      BY <1>n, <2>2 DEF D
    <3>q. QED
      BY <1>10, <3>1
  <2>q. QED
    BY <2>1, <2>2
<1>q. QED
  BY <1>2, <1>10, <1>14, <1>15 DEF U, n

LEMMA AdvanceToFollows ==
    ASSUME NEW i, NEW v \in Nat, NEW time \in Int, Well(i)
    PROVE  AdvanceTo(i, time, v) \in AdvanceStates(i, time, v)
<1> DEFINE U == AdvanceStates(i, time, v)
           z == AdvanceStart(i, time)
           P == [k \in Int |-> U \cup {z}]
<1>1. \A k \in Int : P[k] = U \cup {z}
  OBVIOUS
<1>2. \A a \in U : AdvanceRound(a, v) \in U
  BY AdvanceRoundKeeps
<1> HIDE DEF P, z, U
<1>3. z \in P[0]
  BY <1>1
<1>4. \A k \in 1..time : \A a \in U : AdvanceRound(a, v) \in P[k]
  BY <1>1, <1>2
<1>5. AdvanceKeeps(i, v, time, P)
  BY <1>3, <1>4 DEF AdvanceKeeps, U, z
<1>q. QED
  BY <1>5, AdvancedBy

-----------------------------------------------------------------------------
(* What the simulator does to an instance between two engine runs.         *)

LEMMA AddRequestFacts ==
    ASSUME NEW i, NEW r \in Nat, Well(i), r \notin DOMAIN i.req
    PROVE  LET j == AddRequest(i, r)
           IN /\ Well(j)
              /\ Active(j) = Active(i) \cup {r}
              /\ DOMAIN j.req = DOMAIN i.req \cup {r}
              /\ \A q \in DOMAIN i.req : j.req[q] = i.req[q]
              /\ j.req[r] = NewReq
              /\ j.completed = i.completed /\ j.stats = i.stats /\ j.running = i.running
<1> DEFINE j == AddRequest(i, r)
           D == DOMAIN i.req
           w == Append(i.waiting, r)
           f == [q \in D \cup {r} |-> IF q = r THEN NewReq ELSE i.req[q]]
<1>1. /\ i \in Record /\ i.waiting \in Seq(Nat) /\ i.running \in Seq(Nat)
      /\ i.completed \in Seq(Nat) /\ i.stats \in Seq(Nat)
      /\ IsInjective(i.waiting) /\ IsInjective(i.running) /\ IsInjective(i.completed)
      /\ ToSet(i.waiting) \cap ToSet(i.running) = {}
      /\ ToSet(i.waiting) \cup ToSet(i.running) = Active(i)
      /\ Active(i) \in SUBSET D /\ ToSet(i.completed) \in SUBSET D
      /\ Active(i) \cap ToSet(i.completed) = {}
  BY WellFields
<1>2. D \in SUBSET Nat /\ \A q \in D : i.req[q] \in ReqState
  BY ReqTyped
<1>3. NewReq \in ReqState
  BY DEF NewReq, ReqState
<1>4. r \notin Active(i) /\ r \notin ToSet(i.waiting) /\ r \notin ToSet(i.running)
      /\ r \notin ToSet(i.completed)
  BY <1>1
<1>5. /\ w \in Seq(Nat) /\ ToSet(w) = ToSet(i.waiting) \cup {r} /\ IsInjective(w)
  BY <1>1, <1>4, AppendFacts
<1>6. /\ DOMAIN f = D \cup {r} /\ f = [q \in D \cup {r} |-> f[q]] /\ f[r] = NewReq
      /\ \A q \in D : f[q] = i.req[q]
  OBVIOUS
<1>7. j = [i EXCEPT !.waiting = w, !.req = f]
  BY <1>1 DEF AddRequest, Record
<1> HIDE DEF w, f
<1>8. f \in Requests
  <2> DEFINE E == D \cup {r}
  <2>1. E \in SUBSET Nat /\ f = [q \in E |-> f[q]] /\ \A q \in E : f[q] \in ReqState
    BY <1>2, <1>3, <1>6
  <2> HIDE DEF E
  <2>q. QED
    BY <2>1, RequestsFrom
<1>9. /\ j \in Record /\ j.waiting = w /\ j.running = i.running
      /\ j.completed = i.completed /\ j.req = f /\ j.stats = i.stats
  BY <1>1, <1>5, <1>7, <1>8 DEF Record
<1> HIDE DEF j
<1>10. Active(j) = Active(i) \cup {r}
  BY <1>1, <1>5, <1>9 DEF Active
<1>11. /\ IsInjective(j.waiting) /\ IsInjective(j.running) /\ IsInjective(j.completed)
       /\ ToSet(j.waiting) \cap ToSet(j.running) = {}
       /\ Active(j) \cap ToSet(j.completed) = {}
       /\ Active(j) \cup ToSet(j.completed) \subseteq DOMAIN j.req
  BY <1>1, <1>4, <1>5, <1>6, <1>9, <1>10
<1>12. Well(j)
  BY <1>9, <1>11 DEF Well, Record
<1>13. /\ Well(j)
       /\ Active(j) = Active(i) \cup {r}
       /\ DOMAIN j.req = DOMAIN i.req \cup {r}
       /\ \A q \in DOMAIN i.req : j.req[q] = i.req[q]
       /\ j.req[r] = NewReq
       /\ j.completed = i.completed /\ j.stats = i.stats /\ j.running = i.running
  BY <1>6, <1>9, <1>10, <1>12
<1>q. QED
  BY <1>13 DEF j

\* Requests gone are taken off, and what the others have generated stays.
Reworked(i, j, gone) ==
    /\ Well(j)
    /\ Active(j) = Active(i) \ gone
    /\ j.completed = i.completed /\ j.stats = i.stats
    /\ DOMAIN j.req = DOMAIN i.req
    /\ \A r \in DOMAIN i.req : /\ r \notin Active(i) => j.req[r] = i.req[r]
                               /\ j.req[r].generated = i.req[r].generated
                               /\ j.req[r].segments = i.req[r].segments

\* The lists are w and q, and the cache of the requests of S is freed.
WithFreed(i, w, q, S) ==
    [i EXCEPT !.waiting = w, !.running = q,
              !.req = [r \in DOMAIN @ |-> IF r \in S THEN [@[r] EXCEPT !.prefilled = 0]
                                         ELSE @[r]]]

LEMMA Freed ==
    ASSUME NEW i, Well(i), NEW gone, NEW S, S \subseteq Active(i),
           NEW w \in Seq(Nat), NEW q \in Seq(Nat),
           IsInjective(w), IsInjective(q), ToSet(w) \cap ToSet(q) = {},
           ToSet(w) \cup ToSet(q) = Active(i) \ gone
    PROVE  Reworked(i, WithFreed(i, w, q, S), gone)
<1> DEFINE D == DOMAIN i.req
           e(r) == [i.req[r] EXCEPT !.prefilled = 0]
           f == [r \in D |-> IF r \in S THEN e(r) ELSE i.req[r]]
           j == [i EXCEPT !.waiting = w, !.running = q, !.req = f]
<1>1. /\ i \in Record /\ i.completed \in Seq(Nat) /\ i.stats \in Seq(Nat)
      /\ IsInjective(i.completed)
      /\ Active(i) \in SUBSET D /\ ToSet(i.completed) \in SUBSET D
      /\ Active(i) \cap ToSet(i.completed) = {}
  BY WellFields
<1>2. D \in SUBSET Nat /\ \A r \in D : i.req[r] \in ReqState
  BY ReqTyped
<1>3. \A r \in D : /\ e(r) \in ReqState /\ e(r).generated = i.req[r].generated
                   /\ e(r).segments = i.req[r].segments
  <2> SUFFICES ASSUME NEW r \in D
               PROVE  /\ e(r) \in ReqState /\ e(r).generated = i.req[r].generated
                      /\ e(r).segments = i.req[r].segments
    OBVIOUS
  <2> DEFINE a == i.req[r]
  <2>1. a \in ReqState
    BY <1>2
  <2> HIDE DEF a
  <2>2. /\ [a EXCEPT !.prefilled = 0] \in ReqState
        /\ [a EXCEPT !.prefilled = 0].generated = a.generated
        /\ [a EXCEPT !.prefilled = 0].segments = a.segments
    BY <2>1 DEF ReqState
  <2>q. QED
    BY <2>2 DEF a
<1> HIDE DEF e
<1>4. /\ DOMAIN f = D /\ f = [r \in D |-> f[r]]
      /\ \A r \in D : f[r] = IF r \in S THEN e(r) ELSE i.req[r]
  OBVIOUS
<1> HIDE DEF f
<1>5. \A r \in D : /\ f[r] \in ReqState
                   /\ f[r].generated = i.req[r].generated
                   /\ f[r].segments = i.req[r].segments
                   /\ r \notin Active(i) => f[r] = i.req[r]
  BY <1>2, <1>3, <1>4
<1>6. f \in Requests
  BY <1>2, <1>4, <1>5, RequestsFrom
<1>7. /\ j \in Record /\ j.waiting = w /\ j.running = q
      /\ j.completed = i.completed /\ j.req = f /\ j.stats = i.stats
  BY <1>1, <1>6 DEF Record
<1>8. WithFreed(i, w, q, S) = j
  BY <1>1 DEF WithFreed, Record, f, e
<1> HIDE DEF j
<1>9. Active(j) = Active(i) \ gone
  BY <1>7 DEF Active
<1>10. Well(j)
  BY <1>1, <1>4, <1>7, <1>9 DEF Well, Record
<1>11. Reworked(i, j, gone)
  BY <1>4, <1>5, <1>7, <1>9, <1>10 DEF Reworked
<1>q. QED
  BY <1>8, <1>11

LEMMA CancelFacts ==
    ASSUME NEW i, Well(i), NEW gone
    PROVE  Reworked(i, Cancel(i, gone), gone)
<1> DEFINE w == Without(i.waiting, gone)
           q == Without(i.running, gone)
           S == gone \cap Active(i)
<1>1. /\ i \in Record /\ i.waiting \in Seq(Nat) /\ i.running \in Seq(Nat)
      /\ IsInjective(i.waiting) /\ IsInjective(i.running)
      /\ ToSet(i.waiting) \cap ToSet(i.running) = {}
      /\ Active(i) = ToSet(i.waiting) \cup ToSet(i.running)
  BY WellFields
<1>2. /\ w \in Seq(Nat) /\ ToSet(w) = ToSet(i.waiting) \ gone /\ IsInjective(w)
      /\ q \in Seq(Nat) /\ ToSet(q) = ToSet(i.running) \ gone /\ IsInjective(q)
  BY <1>1, WithoutFacts
<1>3. Cancel(i, gone) = WithFreed(i, w, q, S)
  BY <1>1 DEF Cancel, WithFreed, Record
<1> HIDE DEF w, q
<1>4. ToSet(w) \cap ToSet(q) = {} /\ ToSet(w) \cup ToSet(q) = Active(i) \ gone
  BY <1>1, <1>2
<1>5. S \subseteq Active(i)
  OBVIOUS
<1> HIDE DEF S
<1>q. QED
  BY <1>2, <1>3, <1>4, <1>5, Freed

LEMMA AbortAllFacts ==
    ASSUME NEW i, Well(i)
    PROVE  Reworked(i, AbortAll(i), {})
<1> DEFINE w == i.running \o i.waiting
           q == <<>>
           S == Active(i)
<1>1. /\ i \in Record /\ i.waiting \in Seq(Nat) /\ i.running \in Seq(Nat)
      /\ IsInjective(i.waiting) /\ IsInjective(i.running)
      /\ ToSet(i.running) \cap ToSet(i.waiting) = {}
      /\ Active(i) = ToSet(i.running) \cup ToSet(i.waiting)
  BY WellFields, ZenonT(30)
<1>2. /\ w \in Seq(Nat) /\ ToSet(w) = ToSet(i.running) \cup ToSet(i.waiting) /\ IsInjective(w)
  BY <1>1, ConcatFacts
<1>3. q \in Seq(Nat) /\ ToSet(q) = {} /\ IsInjective(q)
  BY DEF ToSet, IsInjective
<1>4. AbortAll(i) = WithFreed(i, w, q, S)
  BY <1>1 DEF AbortAll, WithFreed, Record
<1> HIDE DEF w, q
<1>5. ToSet(w) \cap ToSet(q) = {} /\ ToSet(w) \cup ToSet(q) = Active(i) \ {}
  BY <1>1, <1>2, <1>3
<1>6. S \subseteq Active(i)
  OBVIOUS
<1> HIDE DEF S
<1>q. QED
  BY <1>2, <1>3, <1>4, <1>5, <1>6, Freed

-----------------------------------------------------------------------------
(* Undoing an event.                                                       *)

\* The front of a sequence that goes on as another one does.
LEMMA FrontRestored ==
    ASSUME NEW R, NEW a \in Seq(R), NEW b \in Seq(R), Len(a) <= Len(b),
           \A k \in 1..Len(a) : b[k] = a[k]
    PROVE  SubSeq(b, 1, Len(a)) = a
<1> DEFINE front == SubSeq(b, 1, Len(a))
           n == Len(a)
<1>1. n \in Nat /\ n <= Len(b)
  OBVIOUS
<1>2. front \in Seq(R) /\ Len(front) = n /\ \A k \in 1..n : front[k] = b[k]
  BY <1>1, PrefixFacts
<1> HIDE DEF front
<1>3. front = a
  BY <1>2, SeqEqual
<1>q. QED
  BY <1>3 DEF front

LEMMA SegmentsRestored ==
    ASSUME NEW a \in Seq(Segment), NEW b \in Seq(Segment), a # <<>>, Len(a) <= Len(b),
           \A k \in 1..Len(a) : /\ b[k].version = a[k].version
                                /\ k # Len(a) => b[k] = a[k]
    PROVE  LET cut == SubSeq(b, 1, Len(a))
           IN cut # <<>> /\ [cut EXCEPT ![Len(cut)].tokens = Last(a).tokens] = a
<1> DEFINE cut == SubSeq(b, 1, Len(a))
           n == Len(a)
           s == [cut[n] EXCEPT !.tokens = a[n].tokens]
           c == [cut EXCEPT ![n] = s]
<1>1. n \in Nat /\ n <= Len(b) /\ n \in 1..n /\ n > 0
  OBVIOUS
<1>2. cut \in Seq(Segment) /\ Len(cut) = n /\ \A k \in 1..n : cut[k] = b[k]
  BY <1>1, PrefixFacts
<1>3. [cut EXCEPT ![Len(cut)].tokens = Last(a).tokens] = c
  BY <1>2 DEF Last
<1> HIDE DEF cut
<1>4. s = a[n]
  <2>1. cut[n] \in Segment /\ a[n] \in Segment /\ cut[n].version = a[n].version
    BY <1>1, <1>2
  <2> DEFINE x == cut[n]
             y == a[n]
  <2>2. x \in Segment /\ y \in Segment /\ x.version = y.version
    BY <2>1
  <2> HIDE DEF x, y
  <2>3. [x EXCEPT !.tokens = y.tokens] = y
    BY <2>2 DEF Segment
  <2>q. QED
    BY <2>3 DEF x, y
<1> HIDE DEF s
<1>5. c \in Seq(Segment) /\ Len(c) = n /\ \A k \in 1..n : c[k] = a[k]
  BY <1>1, <1>2, <1>4
<1> HIDE DEF c
<1>6. c = a
  BY <1>5, SeqEqual
<1>7. cut # <<>>
  BY <1>1, <1>2
<1>q. QED
  BY <1>3, <1>6, <1>7 DEF cut

LEMMA ReqRestored ==
    ASSUME NEW a \in ReqState, NEW b \in ReqState, NEW v, Grown(a, b, v)
    PROVE  RestoreReq(b, [prefilled |-> a.prefilled, generated |-> a.generated,
                          nSegments |-> Len(a.segments), lastTokens |-> LastTokens(a)]) = a
<1> DEFINE saved == [prefilled |-> a.prefilled, generated |-> a.generated,
                     nSegments |-> Len(a.segments), lastTokens |-> LastTokens(a)]
           x == a.segments
           y == b.segments
           cut == SubSeq(y, 1, Len(x))
           z == IF cut = <<>> THEN cut ELSE [cut EXCEPT ![Len(cut)].tokens = LastTokens(a)]
<1>1. /\ x \in Seq(Segment) /\ y \in Seq(Segment) /\ Len(x) <= Len(y)
      /\ \A k \in 1..Len(x) : /\ y[k].version = x[k].version
                              /\ k # Len(x) => y[k] = x[k]
  BY DEF ReqState, Grown
<1>2. RestoreReq(b, saved) = [prefilled |-> a.prefilled, generated |-> a.generated,
                              segments |-> z]
  BY DEF RestoreReq
<1>3. z = x
  <2>1. CASE x = <<>>
    <3>1. Len(x) = 0 /\ cut \in Seq(Segment) /\ Len(cut) = 0
      BY <1>1, <2>1, PrefixFacts
    <3> HIDE DEF cut, x
    <3>q. QED
      BY <2>1, <3>1
  <2>2. CASE x # <<>>
    <3>1. LastTokens(a) = Last(x).tokens
      BY <2>2 DEF LastTokens
    <3> HIDE DEF x, y
    <3>2. cut # <<>> /\ [cut EXCEPT ![Len(cut)].tokens = Last(x).tokens] = x
      BY <1>1, <2>2, SegmentsRestored
    <3>q. QED
      BY <3>1, <3>2
  <2>q. QED
    BY <2>1, <2>2
<1>4. a = [prefilled |-> a.prefilled, generated |-> a.generated, segments |-> x]
  BY DEF ReqState
<1> HIDE DEF z, x
<1>q. QED
  BY <1>2, <1>3, <1>4

\* A snapshot undoes whatever an event may have done to the instance.
LEMMA UndoExact ==
    ASSUME NEW i, NEW j, NEW done, NEW v, Well(i), Follows(i, j, done, v)
    PROVE  Restore(j, Capture(i)) = i
<1> DEFINE D == DOMAIN i.req
           S == Active(i) \cup ToSet(i.completed)
           snap == Capture(i)
           saved(r) == [prefilled |-> i.req[r].prefilled, generated |-> i.req[r].generated,
                        nSegments |-> Len(i.req[r].segments),
                        lastTokens |-> LastTokens(i.req[r])]
           f == [r \in DOMAIN j.req |->
                   IF r \in DOMAIN snap.req THEN RestoreReq(j.req[r], snap.req[r])
                   ELSE j.req[r]]
           c == SubSeq(j.completed, 1, snap.completedLen)
           s == SubSeq(j.stats, 1, snap.statsLen)
<1>1. Restore(j, snap) = [waiting |-> snap.waiting, running |-> snap.running,
                          completed |-> c, stats |-> s, req |-> f]
  BY DEF Restore
<1>2. /\ snap.waiting = i.waiting /\ snap.running = i.running
      /\ snap.completedLen = Len(i.completed) /\ snap.statsLen = Len(i.stats)
      /\ DOMAIN snap.req = S /\ \A r \in S : snap.req[r] = saved(r)
  BY DEF Capture
<1> HIDE DEF snap
<1>3. /\ Well(j) /\ done \in Seq(Nat) /\ j.completed = i.completed \o done
      /\ DOMAIN j.req = D
      /\ \A r \in D : /\ r \notin Active(i) => j.req[r] = i.req[r]
                      /\ Grown(i.req[r], j.req[r], v)
      /\ Len(i.stats) <= Len(j.stats) /\ \A k \in 1..Len(i.stats) : j.stats[k] = i.stats[k]
  BY DEF Follows
<1>4. /\ i.completed \in Seq(Nat) /\ i.stats \in Seq(Nat) /\ j.stats \in Seq(Nat)
      /\ i = [waiting |-> i.waiting, running |-> i.running, completed |-> i.completed,
              req |-> i.req, stats |-> i.stats]
      /\ i.req = [r \in D |-> i.req[r]]
      /\ \A r \in D : i.req[r] \in ReqState /\ j.req[r] \in ReqState
  BY <1>3, WellFields, ReqTyped
<1>5. c = i.completed
  <2> DEFINE a == i.completed
             b == a \o done
  <2>1. /\ a \in Seq(Nat) /\ b \in Seq(Nat) /\ Len(a) <= Len(b)
        /\ \A k \in 1..Len(a) : b[k] = a[k]
    BY <1>3, <1>4
  <2>2. c = SubSeq(b, 1, Len(a))
    BY <1>2, <1>3
  <2> HIDE DEF a, b
  <2>3. SubSeq(b, 1, Len(a)) = a
    BY <2>1, FrontRestored
  <2>q. QED
    BY <2>2, <2>3 DEF a
<1>6. s = i.stats
  <2>1. SubSeq(j.stats, 1, Len(i.stats)) = i.stats
    BY <1>3, <1>4, FrontRestored
  <2>q. QED
    BY <1>2, <2>1
<1>7. f = i.req
  <2>1. \A r \in D : f[r] = i.req[r]
    <3> SUFFICES ASSUME NEW r \in D PROVE f[r] = i.req[r]
      OBVIOUS
    <3>1. CASE r \in S
      <4>1. f[r] = RestoreReq(j.req[r], saved(r))
        BY <1>2, <1>3, <3>1
      <4> DEFINE a == i.req[r]
                 b == j.req[r]
      <4>2. a \in ReqState /\ b \in ReqState /\ Grown(a, b, v)
        BY <1>3, <1>4
      <4>3. RestoreReq(b, saved(r)) = a
        <5> HIDE DEF a, b
        <5>1. RestoreReq(b, [prefilled |-> a.prefilled, generated |-> a.generated,
                             nSegments |-> Len(a.segments),
                             lastTokens |-> LastTokens(a)]) = a
          BY <4>2, ReqRestored
        <5>q. QED
          BY <5>1 DEF a
      <4>q. QED
        BY <4>1, <4>3
    <3>2. CASE r \notin S
      <4>1. f[r] = j.req[r]
        BY <1>2, <1>3, <3>2
      <4>q. QED
        BY <1>3, <3>2, <4>1
    <3>q. QED
      BY <3>1, <3>2
  <2>2. f = [r \in D |-> f[r]]
    BY <1>3
  <2> HIDE DEF f
  <2>q. QED
    BY <1>4, <2>1, <2>2
<1> HIDE DEF f, c, s
<1>q. QED
  BY <1>1, <1>2, <1>4, <1>5, <1>6, <1>7 DEF snap

LEMMA ActiveFinite ==
    ASSUME NEW i, Well(i)
    PROVE  IsFiniteSet(Active(i)) /\ Cardinality(Active(i)) \in Nat
<1>1. i.waiting \in Seq(Nat) /\ i.running \in Seq(Nat)
      /\ Active(i) = ToSet(i.waiting) \cup ToSet(i.running)
  BY WellFields
<1>2. IsFiniteSet(ToSet(i.waiting)) /\ IsFiniteSet(ToSet(i.running))
  BY <1>1, ListFacts
<1>3. IsFiniteSet(Active(i))
  BY <1>1, <1>2, FS_Union
<1>q. QED
  BY <1>3, FS_CardinalityType

Ids(n) == {r \in Nat : r < n}

\* An instance starts without requests.
LEMMA NewInstanceWell == NewInstance \in Record /\ Well(NewInstance)
<1>1. <<>> \in Requests
  <2>1. {} \in SUBSET Nat /\ <<>> = [r \in {} |-> <<>>[r]] /\ DOMAIN <<>> = {}
    OBVIOUS
  <2>2. <<>> \in [{} -> ReqState]
    OBVIOUS
  <2>q. QED
    BY <2>1, <2>2 DEF Requests
<1>2. NewInstance \in Record
  BY <1>1 DEF NewInstance, Record
<1>3. IsInjective(<<>>) /\ ToSet(<<>>) = {}
  BY DEF IsInjective, ToSet
<1>4. Active(NewInstance) = {}
  BY <1>3 DEF NewInstance, Active
<1>5. Well(NewInstance)
  BY <1>2, <1>3, <1>4 DEF Well, Record, NewInstance
<1>q. QED
  BY <1>2, <1>5

-----------------------------------------------------------------------------
(* The batch of an instance.                                               *)

\* The requests in the batch: those that run, and those in the middle of their
\* prefill.
Batch(i) == ToSet(i.running) \cup {r \in ToSet(i.waiting) : i.req[r].prefilled > 0}

\* A list without repetitions has as many places as members.
LEMMA ListCount ==
    ASSUME NEW R, NEW list \in Seq(R), IsInjective(list)
    PROVE  Cardinality(ToSet(list)) = Len(list)
<1> DEFINE n == Len(list)
           D == 1..n
           T == ToSet(list)
<1>1. n \in Nat /\ DOMAIN list = D
  OBVIOUS
<1>2. IsFiniteSet(D) /\ Cardinality(D) = n
  BY <1>1, FS_Interval
<1>3. list \in [D -> T] /\ \A y \in T : \E k \in D : list[k] = y
  BY <1>1 DEF ToSet
<1>4. \A a \in D, b \in D : list[a] = list[b] => a = b
  BY <1>1 DEF IsInjective
<1> HIDE DEF D, T
<1>5. list \in Surjection(D, T) /\ list \in Injection(D, T)
  BY <1>3, <1>4 DEF Surjection, Injection, IsInjective
<1>6. Cardinality(T) = Cardinality(D)
  BY <1>2, <1>5, FS_Surjection
<1>q. QED
  BY <1>2, <1>6 DEF T, n

LEMMA BatchCounted ==
    ASSUME NEW i, Well(i)
    PROVE  /\ IsFiniteSet(Batch(i)) /\ InBatch(i) = Cardinality(Batch(i))
           /\ InBatch(i) \in Nat
           /\ Len(i.running) = Cardinality(ToSet(i.running))
<1> DEFINE w == i.waiting
           R == ToSet(i.running)
           K == {k \in DOMAIN w : i.req[w[k]].prefilled > 0}
           P == {r \in ToSet(w) : i.req[r].prefilled > 0}
           f == [k \in K |-> w[k]]
<1>1. /\ w \in Seq(Nat) /\ IsInjective(w) /\ ToSet(w) \cap R = {}
      /\ i.running \in Seq(Nat) /\ IsInjective(i.running)
  BY WellFields
<1>2. IsFiniteSet(R) /\ Cardinality(R) = Len(i.running) /\ IsFiniteSet(ToSet(w))
  BY <1>1, ListFacts, ListCount
<1>3. IsFiniteSet(K)
  <2>1. DOMAIN w = 1..Len(w) /\ Len(w) \in Nat
    BY <1>1
  <2>2. IsFiniteSet(DOMAIN w)
    BY <2>1, FS_Interval
  <2>3. K \in SUBSET DOMAIN w
    OBVIOUS
  <2> HIDE DEF K
  <2>q. QED
    BY <2>2, <2>3, FS_Subset
<1>4. f \in [K -> P] /\ (\A y \in P : \E k \in K : f[k] = y)
      /\ \A a \in K, b \in K : f[a] = f[b] => a = b
  BY <1>1 DEF ToSet, IsInjective
<1>5. Cardinality(P) = Cardinality(K) /\ IsFiniteSet(P)
  <2> HIDE DEF f, K, P
  <2>1. f \in Surjection(K, P) /\ f \in Injection(K, P)
    BY <1>4 DEF Surjection, Injection, IsInjective
  <2>q. QED
    BY <1>3, <2>1, FS_Surjection
<1>6. R \cap P = {} /\ Batch(i) = R \cup P
  BY <1>1 DEF Batch
<1>7. InBatch(i) = Len(i.running) + Cardinality(K)
  BY DEF InBatch
<1> HIDE DEF R, P, K
<1>8. IsFiniteSet(R \cup P) /\ Cardinality(R \cup P) = Cardinality(R) + Cardinality(P)
  <2>1. /\ IsFiniteSet(R \cup P)
        /\ Cardinality(R \cup P) = Cardinality(R) + Cardinality(P) - Cardinality(R \cap P)
    BY <1>2, <1>5, FS_Union
  <2>2. Cardinality(R \cap P) = 0
    BY <1>6, FS_EmptySet
  <2>3. Cardinality(R) \in Nat /\ Cardinality(P) \in Nat
    BY <1>2, <1>5, FS_CardinalityType
  <2>q. QED
    BY <2>1, <2>2, <2>3
<1>9. Cardinality(R \cup P) \in Nat
  BY <1>8, FS_CardinalityType
<1>q. QED
  BY <1>2, <1>5, <1>6, <1>7, <1>8, <1>9 DEF R

\* Instance i keeps to its batch, and no waiting request is completely prefilled.
InLimit(n) == MaxConcurrency # NoLimit => n <= MaxConcurrency

Fits(i) == InLimit(InBatch(i)) /\ \A r \in ToSet(i.waiting) : Need(i, r) > 0

LEMMA LimitTyped == MaxConcurrency # NoLimit => MaxConcurrency \in Nat
  BY EngineAssumption

\* A request without anything in the cache has something to prefill.
LEMMA FreshNeeds ==
    ASSUME NEW i, Well(i), NEW r \in DOMAIN i.req, i.req[r].prefilled = 0
    PROVE  Need(i, r) > 0
<1>1. r \in Nat /\ i.req[r] \in ReqState
  BY ReqTyped
<1>2. i.req[r].generated \in Nat
  BY <1>1 DEF ReqState
<1>3. PromptLen(r) \in Nat /\ PromptLen(r) >= 1
  BY <1>1, LengthsTyped
<1>q. QED
  BY <1>2, <1>3 DEF Need

\* A step that puts nothing into the batch.
LEMMA FitsKept ==
    ASSUME NEW i, NEW j, Well(i), Well(j), InLimit(InBatch(i)),
           ToSet(j.running) \subseteq Batch(i),
           \A r \in ToSet(j.waiting) :
              \/ j.req[r].prefilled = 0
              \/ r \in ToSet(i.waiting) /\ j.req[r] = i.req[r] /\ Need(i, r) > 0
    PROVE  Fits(j)
<1>1. Batch(j) \in SUBSET Batch(i)
  BY DEF Batch
<1>2. InBatch(j) <= InBatch(i) /\ InBatch(i) \in Nat /\ InBatch(j) \in Nat
  <2>1. /\ IsFiniteSet(Batch(i)) /\ InBatch(i) = Cardinality(Batch(i))
        /\ InBatch(i) \in Nat
    BY BatchCounted
  <2>2. InBatch(j) = Cardinality(Batch(j)) /\ InBatch(j) \in Nat
    BY BatchCounted
  <2>3. Cardinality(Batch(j)) <= Cardinality(Batch(i))
    BY <1>1, <2>1, FS_Subset
  <2>q. QED
    BY <2>1, <2>2, <2>3
<1>3. InLimit(InBatch(j))
  BY <1>2, LimitTyped DEF InLimit
<1>4. ASSUME NEW r \in ToSet(j.waiting)
      PROVE  Need(j, r) > 0
  <2>1. r \in DOMAIN j.req
    BY WellFields
  <2>2. CASE j.req[r].prefilled = 0
    BY <2>1, <2>2, FreshNeeds
  <2>3. CASE j.req[r].prefilled # 0
    <3>1. j.req[r] = i.req[r] /\ Need(i, r) > 0
      BY <2>3
    <3>q. QED
      BY <3>1 DEF Need
  <2>q. QED
    BY <2>2, <2>3
<1>q. QED
  BY <1>3, <1>4 DEF Fits

\* Nothing is ready in an instance that fits.
LEMMA NothingReady ==
    ASSUME NEW i, Well(i), Fits(i)
    PROVE  PromoteReady(i) = i
<1> DEFINE S == {r \in ToSet(i.waiting) : Need(i, r) <= 0}
           ready_ == Kept(i.waiting, S)
           room == Max({0, RunningRoom(i)})
           n == Min({Len(ready_), room})
           promoted == SubSeq(ready_, 1, n)
<1>1. /\ i \in Record /\ i.waiting \in Seq(Nat) /\ i.running \in Seq(Nat)
      /\ ToSet(i.waiting) \in SUBSET DOMAIN i.req
  BY WellFields
<1>2. S = {}
  <2> SUFFICES ASSUME NEW r \in ToSet(i.waiting), Need(i, r) <= 0 PROVE FALSE
    OBVIOUS
  <2>1. Need(i, r) > 0
    BY DEF Fits
  <2>2. Need(i, r) \in Int
    BY <1>1, InstanceNumbers
  <2>q. QED
    BY <2>1, <2>2
<1>3. ready_ = <<>>
  <2> HIDE DEF S
  <2>1. ready_ \in Seq(Nat) /\ ToSet(ready_) = ToSet(i.waiting) \cap S
    BY <1>1, KeptFacts
  <2>2. ToSet(ready_) = {}
    BY <1>2, <2>1
  <2> HIDE DEF ready_
  <2>q. QED
    BY <2>1, <2>2, ListFacts
<1>4. n = 0
  <2>1. room \in Int /\ room >= 0
    <3>1. 0 \in Int /\ RunningRoom(i) \in Int
      BY RoomIsInt
    <3>2. Max({0, RunningRoom(i)}) \in {0, RunningRoom(i)} /\ Max({0, RunningRoom(i)}) >= 0
      BY <3>1, MaxOfTwo
    <3>q. QED
      BY <3>1, <3>2
  <2> HIDE DEF room
  <2>2. 0 \in Int
    OBVIOUS
  <2>3. Min({0, room}) \in {0, room} /\ Min({0, room}) <= 0 /\ Min({0, room}) <= room
    BY <2>1, <2>2, MinOfTwo
  <2>4. Min({0, room}) = 0
    BY <2>1, <2>3
  <2>q. QED
    BY <1>3, <2>4
<1>5. promoted = <<>>
  BY <1>3, <1>4
<1>6. PromoteReady(i) = [i EXCEPT !.waiting = Without(@, ToSet(promoted)),
                                  !.running = @ \o promoted]
  <2>1. PromoteReady(i) = Promote(i, ready_)
    BY DEF PromoteReady
  <2>q. QED
    BY <2>1 DEF Promote
<1> HIDE DEF promoted
<1>7. Without(i.waiting, ToSet(<<>>)) = i.waiting
  <2>1. ToSet(<<>>) = {}
    BY DEF ToSet
  <2>q. QED
    BY <1>1, <2>1, WithoutFacts
<1>8. i.running \o <<>> = i.running
  BY <1>1, EmptyConcat
<1>9. PromoteReady(i) = [i EXCEPT !.waiting = Without(i.waiting, ToSet(promoted)),
                                  !.running = i.running \o promoted]
  BY <1>1, <1>6 DEF Record
<1>10. PromoteReady(i) = [i EXCEPT !.waiting = i.waiting, !.running = i.running]
  BY <1>5, <1>7, <1>8, <1>9
<1>q. QED
  BY <1>1, <1>10 DEF Record

\* Filling the cache of a waiting request puts it into the batch.
LEMMA FillFacts ==
    ASSUME NEW j, Well(j), NEW r \in ToSet(j.waiting), NEW n \in Nat, n > 0, Well(Fill(j, r, n))
    PROVE  LET k == Fill(j, r, n)
           IN /\ k.waiting = j.waiting /\ k.running = j.running
              /\ \A q \in DOMAIN j.req : q # r => k.req[q] = j.req[q]
              /\ k.req[r].prefilled = j.req[r].prefilled + n
              /\ Need(k, r) = Need(j, r) - n
              /\ \A q \in DOMAIN j.req : q # r => Need(k, q) = Need(j, q)
              /\ InBatch(k) = IF j.req[r].prefilled = 0 THEN InBatch(j) + 1 ELSE InBatch(j)
<1> DEFINE D == DOMAIN j.req
           a == j.req[r]
           b == [a EXCEPT !.prefilled = @ + n]
           f == [j.req EXCEPT ![r] = b]
           k == Fill(j, r, n)
<1>1. /\ j \in Record /\ r \in D /\ D \in SUBSET Nat /\ \A q \in D : j.req[q] \in ReqState
      /\ ToSet(j.waiting) \in SUBSET D /\ ToSet(j.waiting) \cap ToSet(j.running) = {}
  BY WellFields, ReqTyped
<1>2. a \in ReqState /\ a.prefilled \in Nat /\ a.generated \in Nat
  BY <1>1 DEF ReqState
<1>3. b.prefilled = a.prefilled + n /\ b.generated = a.generated
  <2> HIDE DEF a
  <2>q. QED
    BY <1>2 DEF ReqState
<1>4. k.waiting = j.waiting /\ k.running = j.running /\ k.req = f
  BY <1>1 DEF Fill, Record
<1>5. f[r] = b /\ \A q \in D : q # r => f[q] = j.req[q]
  BY <1>1
<1>6. PromptLen(r) \in Nat
  BY <1>1, LengthsTyped
<1>7. Need(k, r) = Need(j, r) - n
  <2> DEFINE p == PromptLen(r)
             g == a.generated
             h == a.prefilled
  <2>1. Need(k, r) = p + g - (h + n) /\ Need(j, r) = p + g - h
    <3> HIDE DEF b, f, k
    <3>q. QED
      BY <1>3, <1>4, <1>5 DEF Need
  <2>2. p \in Nat /\ g \in Nat /\ h \in Nat
    BY <1>2, <1>6
  <2> HIDE DEF p, g, h
  <2>q. QED
    BY <2>1, <2>2
<1> HIDE DEF b, f, k
<1>8. \A q \in D : q # r => Need(k, q) = Need(j, q)
  BY <1>4, <1>5 DEF Need
<1>9. Batch(k) = Batch(j) \cup {r}
  <2>1. ASSUME NEW q \in ToSet(j.waiting)
        PROVE  k.req[q].prefilled > 0 <=> (j.req[q].prefilled > 0 \/ q = r)
    <3>1. CASE q = r
      BY <1>2, <1>3, <1>4, <1>5, <3>1
    <3>2. CASE q # r
      BY <1>1, <1>4, <1>5, <3>2
    <3>q. QED
      BY <3>1, <3>2
  <2>q. QED
    BY <1>4, <2>1 DEF Batch
<1>10. r \in Batch(j) <=> a.prefilled # 0
  BY <1>1, <1>2 DEF Batch
<1>11. InBatch(k) = IF a.prefilled = 0 THEN InBatch(j) + 1 ELSE InBatch(j)
  <2>1. /\ IsFiniteSet(Batch(j)) /\ InBatch(j) = Cardinality(Batch(j))
    BY BatchCounted
  <2>2. InBatch(k) = Cardinality(Batch(k))
    BY BatchCounted DEF k
  <2>3. Cardinality(Batch(j) \cup {r}) =
          IF r \in Batch(j) THEN Cardinality(Batch(j)) ELSE Cardinality(Batch(j)) + 1
    BY <2>1, FS_AddElement
  <2>q. QED
    BY <1>9, <1>10, <2>1, <2>2, <2>3
<1>12. k.req[r].prefilled = a.prefilled + n
  BY <1>3, <1>4, <1>5
<1>q. QED
  BY <1>4, <1>5, <1>7, <1>8, <1>11, <1>12 DEF k

\* The loop over the waiting requests of i once those of t have been asked: the
\* batch is counted and within its limit, and finished are those that need nothing.
Fitting(i, t) ==
    {s \in PrefillStates(i) :
       /\ s.inBatch = InBatch(s.inst) /\ InLimit(s.inBatch)
       /\ ToSet(s.finished) \subseteq t
       /\ \A r \in ToSet(i.waiting) : \/ r \in ToSet(s.finished)
                                      \/ Need(s.inst, r) > 0
       /\ \A r \in ToSet(s.finished) : s.inst.req[r].prefilled > 0}

LEMMA FittingFields ==
    ASSUME NEW i, Well(i), NEW t \in SUBSET ToSet(i.waiting), NEW s \in Fitting(i, t)
    PROVE  /\ s \in PrefillState /\ Prefilling(i, s.inst)
           /\ Well(s.inst) /\ s.inst.waiting = i.waiting /\ s.inst.running = i.running
           /\ DOMAIN s.inst.req = DOMAIN i.req
           /\ s.inBatch = InBatch(s.inst) /\ InLimit(s.inBatch)
           /\ ToSet(s.finished) \subseteq t
           /\ \A r \in ToSet(i.waiting) : r \in ToSet(s.finished) \/ Need(s.inst, r) > 0
           /\ \A r \in ToSet(s.finished) : s.inst.req[r].prefilled > 0
<1>1. s \in PrefillState /\ Prefilling(i, s.inst)
  BY DEF Fitting, PrefillStates
<1>2. Follows(i, s.inst, <<>>, 0) /\ SameLists(i, s.inst)
  BY <1>1, PrefillingFollows DEF Prefilling
<1>3. Well(s.inst)
  BY <1>2 DEF Follows
<1>q. QED
  BY <1>1, <1>2, <1>3 DEF Fitting, SameLists

LEMMA PrefillOneFits ==
    ASSUME NEW i, Well(i), NEW t \in SUBSET ToSet(i.waiting), NEW r \in t,
           NEW s \in Fitting(i, t \ {r})
    PROVE  PrefillOne(s, r) \in Fitting(i, t)
<1> DEFINE held == s.inst.req[r].prefilled
           chunk == Chunk(s.inst, r, s.budget, s.free)
           need == Need(s.inst, r)
           blocked == held = 0 /\ ~Below(s.inBatch, MaxConcurrency)
           in == Entered(s, held)
           fin == Append(s.finished, r)
           p == PrefillOne(s, r)
<1>1. /\ s \in PrefillState /\ Prefilling(i, s.inst)
      /\ Well(s.inst) /\ s.inst.waiting = i.waiting /\ s.inst.running = i.running
      /\ DOMAIN s.inst.req = DOMAIN i.req
      /\ s.inBatch = InBatch(s.inst) /\ InLimit(s.inBatch)
      /\ ToSet(s.finished) \subseteq t \ {r}
      /\ \A q \in ToSet(i.waiting) : q \in ToSet(s.finished) \/ Need(s.inst, q) > 0
      /\ \A q \in ToSet(s.finished) : s.inst.req[q].prefilled > 0
  <2>1. t \ {r} \in SUBSET ToSet(i.waiting)
    OBVIOUS
  <2>q. QED
    BY <2>1, FittingFields
<1>2. /\ s.inst \in Record /\ s.finished \in Seq(Nat) /\ s.free \in Int
      /\ s.inBatch \in Int /\ s.budget \in Int /\ s.open \in BOOLEAN
  BY <1>1 DEF PrefillState
<1>3. /\ r \in DOMAIN s.inst.req /\ r \in Nat /\ r \in ToSet(s.inst.waiting)
      /\ r \in ToSet(i.waiting) /\ ToSet(i.waiting) \in SUBSET DOMAIN s.inst.req
  <2>1. r \in ToSet(i.waiting)
    OBVIOUS
  <2>2. i.waiting \in Seq(Nat) /\ ToSet(i.waiting) \in SUBSET DOMAIN i.req
    BY WellFields
  <2>3. r \in Nat
    BY <2>1, <2>2, ListFacts
  <2>q. QED
    BY <1>1, <2>1, <2>2, <2>3
<1>4. held \in Nat /\ need \in Int /\ chunk \in Int /\ chunk <= need /\ need > 0
  <2>1. held \in Nat
    BY <1>1, <1>3, ReqTyped
  <2>2. need \in Int
    BY <1>1, <1>3, InstanceNumbers
  <2>3. chunk \in Int /\ chunk <= need
    BY <1>1, <1>2, <1>3, ChunkTyped
  <2>4. need > 0
    BY <1>1, <1>3
  <2>q. QED
    BY <2>1, <2>2, <2>3, <2>4
<1>5. p \in PrefillStates(i)
  <2>1. s \in PrefillStates(i) /\ r \in ToSet(i.waiting)
    BY <1>1, <1>3 DEF PrefillStates
  <2>q. QED
    BY <2>1, PrefillOneKeeps
<1>6. ASSUME p.inst = s.inst, p.finished = s.finished, p.inBatch = s.inBatch
      PROVE  p \in Fitting(i, t)
  <2> HIDE DEF p
  <2>q. QED
    BY <1>1, <1>5, <1>6 DEF Fitting
<1>7. CASE ~s.open \/ s.budget <= 0 \/ blocked \/ chunk <= 0
  <2>1. ~(need <= 0)
    BY <1>4
  <2>2. p = [s EXCEPT !.open = FALSE]
    BY <1>7, <2>1 DEF PrefillOne
  <2>3. p.inst = s.inst /\ p.finished = s.finished /\ p.inBatch = s.inBatch
    BY <1>1, <2>2 DEF PrefillState
  <2>q. QED
    BY <1>6, <2>3
<1>8. CASE ~(~s.open \/ s.budget <= 0 \/ blocked \/ chunk <= 0)
  <2> DEFINE filled == Fill(s.inst, r, chunk)
             finished == IF chunk = need THEN fin ELSE s.finished
  <2>0. ~(need <= 0)
    BY <1>4
  <2>1. p.inst = filled /\ p.finished = finished /\ p.inBatch = in
    <3>1. p = [s EXCEPT !.inBatch = in, !.inst = filled,
                        !.free = @ - (BlocksFor(held + chunk) - BlocksFor(held)),
                        !.budget = @ - chunk, !.finished = finished]
      BY <1>1, <1>8, <2>0 DEF PrefillOne, PrefillState
    <3> HIDE DEF in, filled, finished, p
    <3>q. QED
      BY <1>1, <3>1 DEF PrefillState
  <2>2. chunk \in Nat /\ chunk > 0
    BY <1>4, <1>8
  <2>3. Well(filled)
    <3>1. Prefilling(i, filled)
      BY <1>1, <1>3, <2>2, FillPrefills
    <3>2. Follows(i, filled, <<>>, 0)
      BY <3>1, PrefillingFollows
    <3>q. QED
      BY <3>2 DEF Follows
  <2> HIDE DEF chunk, need, p
  <2>4. /\ filled.waiting = s.inst.waiting /\ filled.running = s.inst.running
        /\ \A q \in DOMAIN s.inst.req : q # r => filled.req[q] = s.inst.req[q]
        /\ filled.req[r].prefilled = held + chunk
        /\ Need(filled, r) = Need(s.inst, r) - chunk
        /\ \A q \in DOMAIN s.inst.req : q # r => Need(filled, q) = Need(s.inst, q)
        /\ InBatch(filled) = IF held = 0 THEN InBatch(s.inst) + 1 ELSE InBatch(s.inst)
    BY <1>1, <1>3, <2>2, <2>3, FillFacts
  <2> HIDE DEF filled
  <2>5. in = InBatch(filled)
    BY <1>1, <2>4 DEF Entered
  <2>6. InLimit(in)
    <3>1. CASE held = 0
      <4>1. MaxConcurrency # NoLimit => s.inBatch < MaxConcurrency
        BY <1>8, <3>1 DEF Below
      <4>2. in = s.inBatch + 1
        BY <3>1 DEF Entered
      <4> HIDE DEF in
      <4>q. QED
        BY <1>2, <4>1, <4>2, LimitTyped DEF InLimit
    <3>2. CASE held # 0
      <4>1. in = s.inBatch
        BY <3>2 DEF Entered
      <4>q. QED
        BY <1>1, <4>1
    <3>q. QED
      BY <3>1, <3>2
  <2> HIDE DEF in
  <2>7. ToSet(fin) = ToSet(s.finished) \cup {r}
    <3> DEFINE list == s.finished
    <3>1. list \in Seq(Nat)
      BY <1>2
    <3> HIDE DEF list
    <3>2. ToSet(Append(list, r)) = ToSet(list) \cup {r}
      BY <1>3, <3>1, AppendFacts
    <3>q. QED
      BY <3>2 DEF list
  <2> HIDE DEF fin
  <2>8. ToSet(finished) \subseteq t /\ ToSet(s.finished) \subseteq ToSet(finished)
    BY <1>1, <2>7
  <2>9. \A q \in ToSet(i.waiting) : q \in ToSet(finished) \/ Need(filled, q) > 0
    <3> SUFFICES ASSUME NEW q \in ToSet(i.waiting)
                 PROVE  q \in ToSet(finished) \/ Need(filled, q) > 0
      OBVIOUS
    <3>1. CASE q = r /\ chunk = need
      BY <2>7, <3>1
    <3>2. CASE q = r /\ chunk # need
      <4>1. Need(filled, r) = need - chunk
        BY <2>4 DEF need
      <4>q. QED
        BY <1>4, <3>2, <4>1
    <3>3. CASE q # r
      <4>1. Need(filled, q) = Need(s.inst, q)
        BY <1>3, <2>4, <3>3
      <4>q. QED
        BY <1>1, <2>8, <4>1
    <3>q. QED
      BY <3>1, <3>2, <3>3
  <2>10. \A q \in ToSet(finished) : filled.req[q].prefilled > 0
    <3> SUFFICES ASSUME NEW q \in ToSet(finished)
                 PROVE  filled.req[q].prefilled > 0
      OBVIOUS
    <3>1. CASE q = r
      BY <1>4, <2>2, <2>4, <3>1
    <3>2. CASE q # r
      <4>1. q \in ToSet(s.finished) /\ q \in DOMAIN s.inst.req
        BY <1>1, <1>3, <2>7, <3>2
      <4>q. QED
        BY <1>1, <2>4, <3>2, <4>1
    <3>q. QED
      BY <3>1, <3>2
  <2> HIDE DEF finished
  <2>11. /\ p.inBatch = InBatch(p.inst) /\ InLimit(p.inBatch)
         /\ ToSet(p.finished) \subseteq t
    BY <2>1, <2>5, <2>6, <2>8
  <2>12. /\ \A q \in ToSet(i.waiting) : q \in ToSet(p.finished) \/ Need(p.inst, q) > 0
         /\ \A q \in ToSet(p.finished) : p.inst.req[q].prefilled > 0
    BY <2>1, <2>9, <2>10
  <2>13. p \in PrefillStates(i)
    BY <1>5 DEF p, chunk, need, in, fin
  <2>14. p \in Fitting(i, t)
    BY <2>11, <2>12, <2>13 DEF Fitting
  <2>q. QED
    BY <2>14 DEF p, chunk, need, in, fin
<1>q. QED
  BY <1>7, <1>8

\* After the prefills of a step the batch is within its limit; the finished
\* requests are in it and the others still need tokens.
LEMMA PrefilledFits ==
    ASSUME NEW i, Well(i), Fits(i)
    PROVE  Prefilled(i) \in Fitting(i, ToSet(i.waiting))
<1> DEFINE W == ToSet(i.waiting)
           S == [t \in SUBSET W |-> Fitting(i, t)]
<1>1. \A t \in SUBSET W : S[t] = Fitting(i, t)
  OBVIOUS
<1>2. IsFiniteSet(W) /\ W \in SUBSET Nat /\ \A r \in W : r \in Int
  <2>1. i.waiting \in Seq(Nat)
    BY WellFields
  <2>2. IsFiniteSet(W) /\ W \in SUBSET Nat
    BY <2>1, ListFacts
  <2>q. QED
    BY <2>2
<1> HIDE DEF S, W
<1>3. PrefillStarts(i, S)
  <2> DEFINE z == PrefillStart(i)
  <2>1. z \in PrefillStates(i) /\ z.finished = <<>> /\ z.inst = i
    BY PrefillStartTyped
  <2>2. z.inBatch = InBatch(i)
    BY DEF PrefillStart
  <2>3. ToSet(<<>>) = {} /\ {} \in SUBSET W
    BY DEF ToSet
  <2> HIDE DEF z
  <2>4. z \in Fitting(i, {})
    BY <2>1, <2>2, <2>3 DEF Fitting, Fits
  <2>q. QED
    BY <1>1, <2>3, <2>4 DEF PrefillStarts, z
<1>4. PrefillKeeps(i, S)
  <2> SUFFICES ASSUME NEW t \in SUBSET W, t # {}, NEW s \in PrefillStates(i),
                      s \in S[t \ {Max(t)}]
               PROVE  PrefillOne(s, Max(t)) \in S[t]
    BY DEF PrefillKeeps, W
  <2>1. Max(t) \in t /\ t \ {Max(t)} \in SUBSET W
    BY <1>2, MaxChooses
  <2>2. s \in Fitting(i, t \ {Max(t)})
    BY <1>1, <2>1
  <2>3. PrefillOne(s, Max(t)) \in Fitting(i, t)
    BY <2>1, <2>2, PrefillOneFits DEF W
  <2>q. QED
    BY <1>1, <2>3
<1>5. Prefilled(i) \in S[W]
  BY <1>3, <1>4, PrefilledBy DEF W
<1>q. QED
  BY <1>1, <1>5 DEF W

\* The requests of S are in s as they are in i.
Untouched(i, S) == {s \in DecodeState : \A r \in S : s.inst.req[r] = i.req[r]}

\* The decodes of a step change running requests only.
LEMMA DecodedKeepsWaiting ==
    ASSUME NEW i, NEW v \in Nat, NEW list \in Seq(Nat), Well(i),
           ToSet(list) \subseteq ToSet(i.running)
    PROVE  \A r \in ToSet(i.waiting) : DecodedAll(i, v, list).inst.req[r] = i.req[r]
<1> DEFINE W == ToSet(i.waiting)
           n == Len(list)
           P == [k \in 0..n |-> Untouched(i, W)]
<1>1. n \in Nat /\ DOMAIN list = 1..n
  OBVIOUS
<1>2. \A k \in 0..n : P[k] = Untouched(i, W)
  OBVIOUS
<1>3. W \in SUBSET DOMAIN i.req /\ W \cap ToSet(i.running) = {} /\ i \in Record
  BY WellFields
<1> HIDE DEF P, n, W
<1>4. DecodeStart(i) \in P[0]
  <2>1. DecodeStart(i) \in DecodeState /\ DecodeStart(i).inst = i
    BY <1>3 DEF DecodeStart, DecodeState
  <2>2. 0 \in 0..n
    BY <1>1
  <2>q. QED
    BY <1>2, <2>1, <2>2 DEF Untouched
<1>5. ASSUME NEW k \in 1..n, NEW s \in DecodeStates(i, v), s \in P[k - 1]
      PROVE  DecodeOne(s, list[k], v) \in P[k]
  <2> DEFINE q == list[k]
             p == DecodeOne(s, q, v)
             j == Generate(s.inst, {q}, v, 1)
  <2>1. k - 1 \in 0..n /\ k \in 0..n
    BY <1>1
  <2>2. s \in DecodeState /\ \A r \in W : s.inst.req[r] = i.req[r]
    BY <1>2, <1>5, <2>1 DEF Untouched
  <2>3. q \in ToSet(i.running)
    BY <1>1 DEF ToSet
  <2> HIDE DEF q
  <2>4. p \in DecodeState
    BY <2>3, DecodeOneKeeps DEF DecodeStates
  <2>5. \A r \in W : p.inst.req[r] = i.req[r]
    <3>1. CASE HasBlock(s.inst, q)
      <4>1. p.inst = j
        BY <3>1 DEF DecodeOne
      <4>2. Well(s.inst) /\ s.inst.running = i.running /\ DOMAIN s.inst.req = DOMAIN i.req
        BY DEF DecodeStates, Follows, SameLists
      <4> DEFINE rs == {q}
      <4>b. ToSet(s.inst.running) \subseteq Active(s.inst)
        BY <4>2, WellFields, ZenonT(30)
      <4>3. rs \subseteq Active(s.inst) /\ 1 \in Nat
        BY <2>3, <4>2, <4>b
      <4>a. \A r \in W : r \notin rs
        BY <1>3, <2>3
      <4> HIDE DEF rs
      <4>4. TokensBy(s.inst, Generate(s.inst, rs, v, 1), rs, 1)
        BY <4>2, <4>3, GenerateFollows
      <4>5. \A r \in W : Generate(s.inst, rs, v, 1).req[r] = s.inst.req[r]
        BY <1>3, <4>2, <4>4, <4>a DEF TokensBy
      <4>q. QED
        BY <2>2, <4>1, <4>5 DEF rs
    <3>2. CASE ~HasBlock(s.inst, q)
      <4>1. p = s
        BY <3>2 DEF DecodeOne
      <4>q. QED
        BY <2>2, <4>1
    <3>q. QED
      BY <3>1, <3>2
  <2> HIDE DEF p
  <2>6. p \in Untouched(i, W)
    BY <2>4, <2>5 DEF Untouched
  <2>q. QED
    BY <1>2, <2>1, <2>6 DEF p, q
<1>6. DecodeKeeps(i, v, list, P)
  BY <1>4, <1>5 DEF DecodeKeeps, n
<1>7. DecodedAll(i, v, list) \in P[n]
  BY <1>6, DecodedBy DEF n
<1>8. n \in 0..n
  BY <1>1
<1>q. QED
  BY <1>2, <1>7, <1>8 DEF Untouched, W

\* When the batch has room for all of ready, all of them start decoding.
LEMMA AllPromoted ==
    ASSUME NEW i, Well(i), NEW ready_ \in Seq(Nat), IsInjective(ready_),
           ToSet(ready_) \subseteq ToSet(i.waiting),
           \A r \in ToSet(ready_) : i.req[r].prefilled > 0, InLimit(InBatch(i))
    PROVE  LET j == Promote(i, ready_)
           IN /\ ToSet(j.waiting) = ToSet(i.waiting) \ ToSet(ready_)
              /\ ToSet(j.running) = ToSet(i.running) \cup ToSet(ready_)
<1> DEFINE room == Max({0, RunningRoom(i)})
           n == Min({Len(ready_), room})
           promoted == SubSeq(ready_, 1, n)
           j == Promote(i, ready_)
<1>1. /\ i \in Record /\ i.waiting \in Seq(Nat) /\ i.running \in Seq(Nat)
      /\ IsInjective(i.waiting) /\ ToSet(i.waiting) \cap ToSet(i.running) = {}
  BY WellFields
<1>2. /\ Len(ready_) \in Nat /\ Cardinality(ToSet(ready_)) = Len(ready_)
      /\ IsFiniteSet(ToSet(ready_))
  BY ListCount, ListFacts
<1>3. Len(ready_) <= RunningRoom(i)
  <2>1. CASE MaxConcurrency = NoLimit
    <3>1. RunningRoom(i) = Len(i.waiting)
      BY <2>1 DEF RunningRoom
    <3>2. Cardinality(ToSet(i.waiting)) = Len(i.waiting) /\ IsFiniteSet(ToSet(i.waiting))
      BY <1>1, ListCount, ListFacts
    <3>3. Cardinality(ToSet(ready_)) <= Cardinality(ToSet(i.waiting))
      BY <3>2, FS_Subset
    <3>q. QED
      BY <1>2, <3>1, <3>2, <3>3
  <2>2. CASE MaxConcurrency # NoLimit
    <3> DEFINE R == ToSet(i.running)
               F == ToSet(ready_)
    <3>1. RunningRoom(i) = MaxConcurrency - Len(i.running)
      BY <2>2 DEF RunningRoom
    <3>2. InBatch(i) <= MaxConcurrency /\ MaxConcurrency \in Nat
      BY <2>2, LimitTyped DEF InLimit
    <3>3. /\ IsFiniteSet(Batch(i)) /\ InBatch(i) = Cardinality(Batch(i)) /\ InBatch(i) \in Nat
          /\ Len(i.running) = Cardinality(R)
      BY BatchCounted
    <3>4. R \cup F \in SUBSET Batch(i)
      BY DEF Batch
    <3>5. IsFiniteSet(R) /\ R \cap F = {} /\ IsFiniteSet(F)
      BY <1>1, <1>2, ListFacts
    <3> HIDE DEF R, F
    <3>6. Cardinality(R \cup F) <= Cardinality(Batch(i))
      BY <3>3, <3>4, FS_Subset
    <3>7. Cardinality(R \cup F) = Cardinality(R) + Cardinality(F)
      <4>1. Cardinality(R \cup F) = Cardinality(R) + Cardinality(F) - Cardinality(R \cap F)
        BY <3>5, FS_Union
      <4>2. Cardinality(R \cap F) = 0
        BY <3>5, FS_EmptySet
      <4>3. Cardinality(R) \in Nat /\ Cardinality(F) \in Nat
        BY <3>5, FS_CardinalityType
      <4>q. QED
        BY <4>1, <4>2, <4>3
    <3>8. Cardinality(R) \in Nat /\ Cardinality(F) = Len(ready_)
      BY <1>2, <3>5, FS_CardinalityType DEF F
    <3>q. QED
      BY <1>2, <3>1, <3>2, <3>3, <3>6, <3>7, <3>8
  <2>q. QED
    BY <2>1, <2>2
<1>4. n = Len(ready_)
  <2>1. 0 \in Int /\ RunningRoom(i) \in Int
    BY RoomIsInt
  <2>2. room \in {0, RunningRoom(i)} /\ room >= RunningRoom(i)
    BY <2>1, MaxOfTwo
  <2> HIDE DEF room
  <2>3. room \in Int /\ Len(ready_) \in Int /\ room >= Len(ready_)
    BY <1>2, <1>3, <2>1, <2>2
  <2> DEFINE x == Len(ready_)
  <2> HIDE DEF x
  <2>4. Min({x, room}) \in {x, room} /\ Min({x, room}) <= x /\ Min({x, room}) <= room
    BY <2>3, MinOfTwo DEF x
  <2>5. Min({x, room}) = x
    BY <2>3, <2>4 DEF x
  <2>q. QED
    BY <2>5 DEF x
<1>5. promoted = ready_
  <2> HIDE DEF n
  <2>q. QED
    BY <1>4, <1>2
<1>6. j = [i EXCEPT !.waiting = Without(@, ToSet(promoted)), !.running = @ \o promoted]
  BY DEF Promote
<1> HIDE DEF promoted, j
<1>7. j.waiting = Without(i.waiting, ToSet(ready_)) /\ j.running = i.running \o ready_
  BY <1>1, <1>5, <1>6 DEF Record
<1>8. /\ ToSet(j.waiting) = ToSet(i.waiting) \ ToSet(ready_)
      /\ ToSet(j.running) = ToSet(i.running) \cup ToSet(ready_)
  BY <1>1, <1>7, WithoutFacts, ConcatFacts
<1>q. QED
  BY <1>8 DEF j

\* A step with prefills keeps to the batch.
LEMMA BudgetStepFits ==
    ASSUME NEW i, NEW v \in Nat, Well(i), Fits(i)
    PROVE  Fits(BudgetStep(i, v).inst)
<1> DEFINE n == Min({Len(i.running), TokenBudget})
           p == Prefilled(i)
           logged == Logged(p.inst, n)
           first == SubSeq(i.running, 1, n)
           d == DecodedAll(logged, v, first)
           fin == p.finished
           j == Promote(d.inst, fin)
<1>0. BudgetStep(i, v).inst = j
  BY DEF BudgetStep
<1>1. n \in Nat /\ n <= Len(i.running) /\ i.running \in Seq(Nat) /\ IsInjective(i.running)
  <2> DEFINE x == Len(i.running)
  <2>1. x \in Nat /\ TokenBudget \in Nat /\ i.running \in Seq(Nat) /\ IsInjective(i.running)
    <3>1. i.running \in Seq(Nat) /\ IsInjective(i.running)
      BY WellFields
    <3>q. QED
      BY <3>1, EngineAssumption
  <2> HIDE DEF x
  <2>2. x \in Int /\ TokenBudget \in Int
    BY <2>1
  <2>3. Min({x, TokenBudget}) \in {x, TokenBudget} /\ Min({x, TokenBudget}) <= x
    BY <2>2, MinOfTwo
  <2>4. Min({x, TokenBudget}) \in Nat /\ Min({x, TokenBudget}) <= x
    BY <2>1, <2>3
  <2>q. QED
    BY <2>1, <2>4 DEF x
<1> HIDE DEF n
<1>2. first \in Seq(Nat) /\ IsInjective(first) /\ ToSet(first) \subseteq ToSet(i.running)
  BY <1>1, PrefixFacts
<1> HIDE DEF first
<1>3. /\ p \in PrefillState /\ Prefilling(i, p.inst)
      /\ Well(p.inst) /\ p.inst.waiting = i.waiting /\ p.inst.running = i.running
      /\ p.inBatch = InBatch(p.inst) /\ InLimit(p.inBatch)
      /\ ToSet(fin) \subseteq ToSet(i.waiting)
      /\ \A r \in ToSet(i.waiting) : r \in ToSet(fin) \/ Need(p.inst, r) > 0
      /\ \A r \in ToSet(fin) : p.inst.req[r].prefilled > 0
  <2>1. p \in Fitting(i, ToSet(i.waiting))
    BY PrefilledFits
  <2> HIDE DEF p
  <2>q. QED
    BY <2>1, FittingFields
<1>4. fin \in Seq(Nat) /\ IsInjective(fin)
  BY <1>3, PrefilledFacts DEF PrefillState
<1> HIDE DEF p, fin
<1>5. /\ Well(logged) /\ logged.waiting = i.waiting /\ logged.running = i.running
      /\ logged.req = p.inst.req
  <2>1. /\ Follows(p.inst, logged, <<>>, v) /\ logged.waiting = p.inst.waiting
        /\ logged.running = p.inst.running /\ logged.req = p.inst.req
    BY <1>1, <1>3, LoggedFollows
  <2>q. QED
    BY <1>3, <2>1 DEF Follows
<1> HIDE DEF logged
<1>6. /\ Well(d.inst) /\ d.inst.waiting = i.waiting /\ d.inst.running = i.running
      /\ \A r \in ToSet(i.waiting) : d.inst.req[r] = p.inst.req[r]
  <2>1. ToSet(first) \subseteq ToSet(logged.running)
    BY <1>2, <1>5
  <2>2. d \in DecodeStates(logged, v)
    BY <1>2, <1>5, <2>1, DecodedAllFacts
  <2>3. \A r \in ToSet(logged.waiting) : d.inst.req[r] = logged.req[r]
    BY <1>2, <1>5, <2>1, DecodedKeepsWaiting
  <2> HIDE DEF d
  <2>4. Well(d.inst) /\ SameLists(logged, d.inst)
    BY <2>2 DEF DecodeStates, Follows
  <2>q. QED
    BY <1>5, <2>3, <2>4 DEF SameLists
<1> DEFINE e == d.inst
<1>7. /\ Well(e) /\ e.waiting = i.waiting /\ e.running = i.running
      /\ \A r \in ToSet(i.waiting) : e.req[r] = p.inst.req[r]
  BY <1>6
<1>8. j = Promote(e, fin)
  OBVIOUS
<1> HIDE DEF d, e, j
<1>9. Batch(e) = Batch(p.inst)
  BY <1>3, <1>7 DEF Batch
<1>10. InLimit(InBatch(e))
  <2>1. InBatch(e) = Cardinality(Batch(e))
    BY <1>7, BatchCounted
  <2>2. InBatch(p.inst) = Cardinality(Batch(p.inst))
    BY <1>3, BatchCounted
  <2>q. QED
    BY <1>3, <1>9, <2>1, <2>2
<1>11. ToSet(fin) \subseteq ToSet(e.waiting) /\ \A r \in ToSet(fin) : e.req[r].prefilled > 0
  BY <1>3, <1>7
<1>12. /\ Well(j) /\ j.req = e.req
       /\ ToSet(j.waiting) = ToSet(e.waiting) \ ToSet(fin)
       /\ ToSet(j.running) = ToSet(e.running) \cup ToSet(fin)
  <2>1. /\ ToSet(j.waiting) = ToSet(e.waiting) \ ToSet(fin)
        /\ ToSet(j.running) = ToSet(e.running) \cup ToSet(fin)
    BY <1>4, <1>7, <1>8, <1>10, <1>11, AllPromoted
  <2>2. Follows(e, j, <<>>, v) /\ j.req = e.req
    BY <1>4, <1>7, <1>8, <1>11, PromoteFollows
  <2>q. QED
    BY <2>1, <2>2 DEF Follows
<1>13. ToSet(j.running) \subseteq Batch(e)
  BY <1>11, <1>12 DEF Batch
<1>14. \A r \in ToSet(j.waiting) :
          r \in ToSet(e.waiting) /\ j.req[r] = e.req[r] /\ Need(e, r) > 0
  <2> SUFFICES ASSUME NEW r \in ToSet(j.waiting)
               PROVE  r \in ToSet(e.waiting) /\ j.req[r] = e.req[r] /\ Need(e, r) > 0
    OBVIOUS
  <2>1. r \in ToSet(i.waiting) /\ r \notin ToSet(fin) /\ j.req[r] = e.req[r]
        /\ e.req[r] = p.inst.req[r]
    BY <1>7, <1>12
  <2>2. Need(p.inst, r) > 0
    BY <1>3, <2>1
  <2>3. Need(e, r) = Need(p.inst, r)
    BY <2>1 DEF Need
  <2>q. QED
    BY <1>7, <2>1, <2>2, <2>3
<1>15. Fits(j)
  BY <1>7, <1>10, <1>12, <1>13, <1>14, FitsKept
<1>q. QED
  BY <1>0, <1>15

-----------------------------------------------------------------------------
(* What else an event is built from keeps to the batch.                    *)

LEMMA RunningInBatch ==
    ASSUME NEW i
    PROVE  ToSet(i.running) \subseteq Batch(i)
  BY DEF Batch

LEMMA RetireFits ==
    ASSUME NEW i, NEW done \in Seq(Nat), Well(i), Fits(i),
           IsInjective(done), ToSet(done) \subseteq ToSet(i.running)
    PROVE  Fits(Retire(i, done))
<1> DEFINE j == Retire(i, done)
<1>1. Well(j)
  BY RetireFollows DEF Follows
<1>2. i \in Record /\ i.running \in Seq(Nat)
  BY WellFields
<1>3. j.waiting = i.waiting /\ j.req = i.req /\ j.running = Without(i.running, ToSet(done))
  BY <1>2 DEF Retire, Record
<1> HIDE DEF j
<1>4. ToSet(j.running) \subseteq Batch(i)
  BY <1>2, <1>3, WithoutFacts, RunningInBatch
<1>5. \A r \in ToSet(j.waiting) :
         r \in ToSet(i.waiting) /\ j.req[r] = i.req[r] /\ Need(i, r) > 0
  BY <1>3 DEF Fits
<1>6. InLimit(InBatch(i))
  BY DEF Fits
<1>7. Fits(j)
  BY <1>1, <1>4, <1>5, <1>6, FitsKept
<1>q. QED
  BY <1>7 DEF j

LEMMA PreemptFits ==
    ASSUME NEW i, NEW victim \in ToSet(i.running), Well(i), Fits(i)
    PROVE  Fits(Preempt(i, victim))
<1> DEFINE j == Preempt(i, victim)
           f == [i.req EXCEPT ![victim].prefilled = 0]
           w == <<victim>> \o i.waiting
<1>1. Well(j)
  BY PreemptFollows DEF Follows
<1>2. /\ i \in Record /\ i.running \in Seq(Nat) /\ i.waiting \in Seq(Nat)
      /\ ToSet(i.waiting) \cap ToSet(i.running) = {}
      /\ ToSet(i.running) \in SUBSET DOMAIN i.req
      /\ ToSet(i.waiting) \in SUBSET DOMAIN i.req
  BY WellFields
<1>3. victim \in DOMAIN i.req /\ victim \in Nat /\ i.req[victim] \in ReqState
  BY <1>2, ReqTyped
<1>4. /\ j.waiting = w /\ j.running = Without(i.running, {victim}) /\ j.req = f
  BY <1>2 DEF Preempt, Record
<1>5. /\ f[victim].prefilled = 0
      /\ \A r \in DOMAIN i.req : r # victim => f[r] = i.req[r]
  <2> DEFINE a == i.req[victim]
             b == [a EXCEPT !.prefilled = 0]
  <2>1. f = [i.req EXCEPT ![victim] = b]
    OBVIOUS
  <2>2. b.prefilled = 0
    <3>1. a \in ReqState
      BY <1>3
    <3> HIDE DEF a
    <3>q. QED
      BY <3>1 DEF ReqState
  <2> HIDE DEF b, f
  <2>q. QED
    BY <1>3, <2>1, <2>2
<1>6. ToSet(w) = {victim} \cup ToSet(i.waiting)
  <2> DEFINE a == <<victim>>
             c == i.waiting
  <2>1. a \in Seq(Nat) /\ ToSet(a) = {victim} /\ c \in Seq(Nat)
    BY <1>2, <1>3 DEF ToSet
  <2> HIDE DEF a, c
  <2>2. ToSet(a \o c) = ToSet(a) \cup ToSet(c)
    BY <2>1, ConcatFacts
  <2>q. QED
    BY <2>1, <2>2 DEF a, c
<1> HIDE DEF j, f, w
<1>7. ToSet(j.running) \subseteq Batch(i)
  BY <1>2, <1>4, WithoutFacts, RunningInBatch
<1>8. \A r \in ToSet(j.waiting) :
         \/ j.req[r].prefilled = 0
         \/ r \in ToSet(i.waiting) /\ j.req[r] = i.req[r] /\ Need(i, r) > 0
  BY <1>2, <1>4, <1>5, <1>6 DEF Fits
<1>9. InLimit(InBatch(i))
  BY DEF Fits
<1>10. Fits(j)
  BY <1>1, <1>7, <1>8, <1>9, FitsKept
<1>q. QED
  BY <1>10 DEF j

LEMMA PreemptLastFits ==
    ASSUME NEW i, Well(i), Fits(i)
    PROVE  Fits(PreemptLast(i))
<1>1. CASE i.running = <<>>
  BY <1>1 DEF PreemptLast
<1>2. CASE i.running # <<>>
  <2>1. i.running \in Seq(Nat)
    BY WellFields
  <2>2. Len(i.running) \in DOMAIN i.running
    <3>1. DOMAIN i.running = 1..Len(i.running) /\ Len(i.running) \in Nat
      BY <2>1
    <3>2. Len(i.running) # 0
      BY <1>2, <2>1
    <3>q. QED
      BY <3>1, <3>2
  <2>3. Last(i.running) \in ToSet(i.running)
    BY <2>2 DEF Last, ToSet
  <2>4. Fits(Preempt(i, Last(i.running)))
    BY <2>3, PreemptFits
  <2>q. QED
    BY <1>2, <2>4 DEF PreemptLast
<1>q. QED
  BY <1>1, <1>2

LEMMA PreemptForProgressFits ==
    ASSUME NEW i, Well(i), Fits(i)
    PROVE  Fits(PreemptForProgress(i))
<1> DEFINE victims == ToSet(i.running) \ {Min(Active(i))}
<1>1. CASE victims = {}
  BY <1>1 DEF PreemptForProgress
<1>2. CASE victims # {}
  <2>1. /\ IsFiniteSet(ToSet(i.running)) /\ ToSet(i.running) \in SUBSET Nat
        /\ victims \in SUBSET ToSet(i.running)
    BY WellFields, ListFacts
  <2>2. IsFiniteSet(victims) /\ \A r \in victims : r \in Int
    BY <2>1, FS_Subset
  <2>3. PreemptForProgress(i) = Preempt(i, Max(victims))
    BY <1>2 DEF PreemptForProgress
  <2> HIDE DEF victims
  <2>4. Max(victims) \in victims
    BY <1>2, <2>2, MaxIsGreatest
  <2>5. Max(victims) \in ToSet(i.running)
    BY <2>1, <2>4
  <2>6. Fits(Preempt(i, Max(victims)))
    BY <2>5, PreemptFits
  <2>q. QED
    BY <2>3, <2>6
<1>q. QED
  BY <1>1, <1>2

LEMMA DecodeSegmentFits ==
    ASSUME NEW i, NEW v \in Nat, NEW k \in Nat, Well(i), Fits(i)
    PROVE  Fits(DecodeSegment(i, v, k))
<1> DEFINE g == Generate(i, ToSet(i.running), v, k)
           m == k * Len(i.running)
           j == DecodeSegment(i, v, k)
<1>1. CASE k = 0
  BY <1>1 DEF DecodeSegment
<1>2. CASE k # 0
  <2>1. j = Logged(g, m)
    BY <1>2 DEF DecodeSegment
  <2>2. m \in Nat
    <3>1. Len(i.running) \in Nat
      BY WellFields
    <3>q. QED
      BY <3>1
  <2>3. /\ ToSet(i.running) \subseteq Active(i)
        /\ ToSet(i.waiting) \cap ToSet(i.running) = {}
        /\ ToSet(i.waiting) \in SUBSET DOMAIN i.req
    BY WellFields
  <2>4. /\ Well(g) /\ g.waiting = i.waiting /\ g.running = i.running
        /\ \A r \in ToSet(i.waiting) : g.req[r] = i.req[r]
    <3>1. Follows(i, g, <<>>, v) /\ SameLists(i, g) /\ TokensBy(i, g, ToSet(i.running), k)
      BY <2>3, GenerateFollows
    <3> HIDE DEF g
    <3>q. QED
      BY <2>3, <3>1 DEF SameLists, Follows, TokensBy
  <2> HIDE DEF j, g, m
  <2>5. /\ Well(j) /\ j.waiting = i.waiting /\ j.running = i.running /\ j.req = g.req
    <3>1. /\ Follows(g, j, <<>>, v) /\ j.waiting = g.waiting /\ j.running = g.running
          /\ j.req = g.req
      BY <2>1, <2>2, <2>4, LoggedFollows
    <3>q. QED
      BY <2>4, <3>1 DEF Follows
  <2>6. ToSet(j.running) \subseteq Batch(i)
    BY <2>5, RunningInBatch
  <2>7. \A r \in ToSet(j.waiting) :
           r \in ToSet(i.waiting) /\ j.req[r] = i.req[r] /\ Need(i, r) > 0
    BY <2>4, <2>5 DEF Fits
  <2>8. InLimit(InBatch(i))
    BY DEF Fits
  <2>9. Fits(j)
    BY <2>5, <2>6, <2>7, <2>8, FitsKept
  <2>q. QED
    BY <2>9 DEF j
<1>q. QED
  BY <1>1, <1>2

LEMMA PrefillEventFits ==
    ASSUME NEW i, NEW v \in Nat, Well(i), Fits(i)
    PROVE  Fits(PrefillEvent(i, v).inst)
<1> DEFINE s == BudgetStep(i, v)
           e == PrefillEvent(i, v)
<1>1. /\ Follows(i, s.inst, <<>>, v)
      /\ s.done \in Seq(Nat) /\ IsInjective(s.done)
      /\ ToSet(s.done) \subseteq ToSet(s.inst.running)
  BY BudgetStepFollows
<1>2. Well(s.inst) /\ Fits(s.inst)
  BY <1>1, BudgetStepFits DEF Follows
<1>3. e.inst \in {Retire(s.inst, s.done), PreemptForProgress(s.inst), s.inst}
  BY DEF PrefillEvent
<1>4. Fits(Retire(s.inst, s.done)) /\ Fits(PreemptForProgress(s.inst))
  <2> HIDE DEF s
  <2>q. QED
    BY <1>1, <1>2, RetireFits, PreemptForProgressFits
<1>q. QED
  BY <1>2, <1>3, <1>4

LEMMA DecodeEventFits ==
    ASSUME NEW i, NEW v \in Nat, Well(i), i.running # <<>>, Fits(i)
    PROVE  Fits(DecodeEvent(i, v).inst)
<1> DEFINE k == SegmentSteps(i)
           next == DecodeSegment(i, v, k)
           e == DecodeEvent(i, v)
<1>1. k \in Nat
  BY SegmentTyped
<1>2. e.inst \in {PreemptLast(next), Retire(next, Ended(next))}
  BY DEF DecodeEvent
<1> HIDE DEF k
<1>3. Follows(i, next, <<>>, v) /\ Fits(next)
  BY <1>1, DecodeSegmentFollows, DecodeSegmentFits
<1>4. Well(next)
  BY <1>3 DEF Follows
<1> HIDE DEF next
<1>5. Fits(PreemptLast(next))
  BY <1>3, <1>4, PreemptLastFits
<1>6. Fits(Retire(next, Ended(next)))
  <2> DEFINE done == Ended(next)
  <2>1. done \in Seq(Nat) /\ IsInjective(done) /\ ToSet(done) \subseteq ToSet(next.running)
    BY <1>4, EndedFacts
  <2> HIDE DEF done
  <2>2. Fits(Retire(next, done))
    BY <1>3, <1>4, <2>1, RetireFits
  <2>q. QED
    BY <2>2 DEF done
<1>q. QED
  BY <1>2, <1>5, <1>6

\* Not even a request in the middle of its prefill is too many after an event.
LEMMA EventFits ==
    ASSUME NEW i, NEW v \in Nat, Well(i), ~Idle(i), Fits(i)
    PROVE  Fits(AdvanceOneEvent(i, v).inst)
<1>1. CASE i.waiting # <<>>
  <2>1. AdvanceOneEvent(i, v) = PrefillEvent(i, v)
    BY <1>1 DEF AdvanceOneEvent
  <2>q. QED
    BY <2>1, PrefillEventFits
<1>2. CASE i.waiting = <<>>
  <2>1. AdvanceOneEvent(i, v) = DecodeEvent(i, v)
    BY <1>2 DEF AdvanceOneEvent
  <2>2. i.running # <<>>
    <3>1. ToSet(<<>>) = {}
      BY DEF ToSet
    <3>2. Active(i) # {}
      BY DEF Idle
    <3>q. QED
      BY <1>2, <3>1, <3>2 DEF Active
  <2>q. QED
    BY <2>1, <2>2, DecodeEventFits
<1>q. QED
  BY <1>1, <1>2

\* The rounds of advance_to keep to the batch as events do.
LEMMA PrefillRoundFits ==
    ASSUME NEW a \in AdvanceState, NEW v \in Nat, Well(a.inst), Fits(a.inst)
    PROVE  Fits(PrefillRound(a, v).inst)
<1> DEFINE s == BudgetStep(a.inst, v)
           j == s.inst
           done == s.done
           b == PrefillRound(a, v)
           next == [a EXCEPT !.inst = j, !.left = @ - PrefillTime]
<1>1. /\ Follows(a.inst, j, <<>>, v)
      /\ done \in Seq(Nat) /\ IsInjective(done)
      /\ ToSet(done) \subseteq ToSet(j.running)
  BY BudgetStepFollows
<1>2. Well(j) /\ Fits(j)
  BY <1>1, BudgetStepFits DEF Follows
<1>3. \/ b = AtLimit(a, a.inst)
      \/ b = [next EXCEPT !.inst = Retire(@, done), !.done = done, !.open = FALSE]
      \/ b = next
      \/ b = AtLimit(a, j)
      \/ b = [next EXCEPT !.inst = PreemptForProgress(j)]
  BY DEF PrefillRound
<1> HIDE DEF b, j, done
<1> DEFINE m == a.left - PrefillTime
<1>4. next = [inst |-> j, left |-> m, done |-> a.done, open |-> a.open]
  <2>1. a = [inst |-> a.inst, left |-> a.left, done |-> a.done, open |-> a.open]
    BY DEF AdvanceState
  <2>2. next = [a EXCEPT !.inst = j, !.left = m]
    BY <2>1
  <2> HIDE DEF m, next
  <2>q. QED
    BY <2>1, <2>2
<1> HIDE DEF m, next
<1>5. b.inst \in {a.inst, Retire(j, done), j, PreemptForProgress(j)}
  <2>1. CASE b = AtLimit(a, a.inst)
    BY <2>1 DEF AtLimit, AdvanceState
  <2>2. CASE b = [next EXCEPT !.inst = Retire(@, done), !.done = done, !.open = FALSE]
    BY <1>4, <2>2
  <2>3. CASE b = next
    BY <1>4, <2>3
  <2>4. CASE b = AtLimit(a, j)
    BY <2>4 DEF AtLimit, AdvanceState
  <2>5. CASE b = [next EXCEPT !.inst = PreemptForProgress(j)]
    BY <1>4, <2>5
  <2>q. QED
    BY <1>3, <2>1, <2>2, <2>3, <2>4, <2>5
<1>6. Fits(Retire(j, done)) /\ Fits(PreemptForProgress(j))
  BY <1>1, <1>2, RetireFits, PreemptForProgressFits
<1>7. Fits(b.inst)
  BY <1>2, <1>5, <1>6
<1>q. QED
  BY <1>7 DEF b

LEMMA DecodeRoundFits ==
    ASSUME NEW a \in AdvanceState, NEW v \in Nat, Well(a.inst), Fits(a.inst),
           a.inst.running # <<>>, a.left > 0
    PROVE  Fits(DecodeRound(a, v).inst)
<1> DEFINE full == SegmentSteps(a.inst)
           k == Min({full, a.left \div DecodeTime})
           next == DecodeSegment(a.inst, v, k)
           done == Ended(next)
           after == [a EXCEPT !.inst = next, !.left = @ - k * DecodeTime, !.open = FALSE]
           b == DecodeRound(a, v)
<1>1. a.left \in Nat
  BY DEF AdvanceState
<1>2. k \in Nat
  <2>1. full \in Nat
    BY SegmentTyped
  <2> DEFINE x == a.left
  <2> HIDE DEF full, x
  <2>2. k = Min({full, x \div DecodeTime})
    BY DEF x
  <2>3. Min({full, x \div DecodeTime}) \in Nat
    BY <1>1, <2>1, StepsFit DEF x
  <2> HIDE DEF k
  <2>q. QED
    BY <2>2, <2>3
<1>3. \/ b = [after EXCEPT !.inst = PreemptLast(@)]
      \/ b = AtLimit(a, next)
      \/ b = [after EXCEPT !.inst = Retire(@, done), !.done = done]
  BY DEF DecodeRound
<1> HIDE DEF b, k
<1>4. Follows(a.inst, next, <<>>, v) /\ Fits(next)
  BY <1>2, DecodeSegmentFollows, DecodeSegmentFits
<1>5. Well(next)
  BY <1>4 DEF Follows
<1> HIDE DEF next
<1> DEFINE m == a.left - k * DecodeTime
<1>6. after = [inst |-> next, left |-> m, done |-> a.done, open |-> FALSE]
  <2>1. a = [inst |-> a.inst, left |-> a.left, done |-> a.done, open |-> a.open]
    BY DEF AdvanceState
  <2>2. after = [a EXCEPT !.inst = next, !.left = m, !.open = FALSE]
    BY <2>1
  <2> HIDE DEF m, after
  <2>q. QED
    BY <2>1, <2>2
<1> HIDE DEF m
<1>7. done \in Seq(Nat) /\ IsInjective(done) /\ ToSet(done) \subseteq ToSet(next.running)
  BY <1>5, EndedFacts
<1> HIDE DEF after, done
<1>8. b.inst \in {PreemptLast(next), next, Retire(next, done)}
  <2>1. CASE b = [after EXCEPT !.inst = PreemptLast(@)]
    BY <1>6, <2>1
  <2>2. CASE b = AtLimit(a, next)
    BY <2>2 DEF AtLimit, AdvanceState
  <2>3. CASE b = [after EXCEPT !.inst = Retire(@, done), !.done = done]
    BY <1>6, <2>3
  <2>q. QED
    BY <1>3, <2>1, <2>2, <2>3
<1>9. Fits(PreemptLast(next)) /\ Fits(Retire(next, done))
  BY <1>4, <1>5, <1>7, PreemptLastFits, RetireFits
<1>10. Fits(b.inst)
  BY <1>4, <1>8, <1>9
<1>q. QED
  BY <1>10 DEF b

LEMMA AdvanceRoundFits ==
    ASSUME NEW a \in AdvanceState, NEW v \in Nat, Well(a.inst), Fits(a.inst)
    PROVE  Fits(AdvanceRound(a, v).inst)
<1>1. CASE ~a.open \/ a.left <= 0
  BY <1>1 DEF AdvanceRound
<1>2. CASE ~(~a.open \/ a.left <= 0)
  <2>1. [a EXCEPT !.inst = PromoteReady(@)] = a
    <3>1. PromoteReady(a.inst) = a.inst
      BY NothingReady
    <3>2. [a EXCEPT !.inst = PromoteReady(@)] = [a EXCEPT !.inst = a.inst]
      BY <3>1 DEF AdvanceState
    <3>q. QED
      BY <3>2 DEF AdvanceState
  <2>2. AdvanceRound(a, v) = ReadyRound(a, v)
    BY <1>2, <2>1 DEF AdvanceRound
  <2>3. a.left > 0
    BY <1>2 DEF AdvanceState
  <2>4. CASE a.inst.waiting # <<>>
    <3>1. ReadyRound(a, v) = PrefillRound(a, v)
      BY <2>4 DEF ReadyRound
    <3>q. QED
      BY <2>2, <3>1, PrefillRoundFits
  <2>5. CASE a.inst.waiting = <<>> /\ a.inst.running = <<>>
    <3>1. ReadyRound(a, v) = AtLimit(a, a.inst)
      BY <2>5 DEF ReadyRound
    <3>2. AtLimit(a, a.inst).inst = a.inst
      BY DEF AtLimit, AdvanceState
    <3>q. QED
      BY <2>2, <3>1, <3>2
  <2>6. CASE a.inst.waiting = <<>> /\ a.inst.running # <<>>
    <3>1. ReadyRound(a, v) = DecodeRound(a, v)
      BY <2>6 DEF ReadyRound
    <3>q. QED
      BY <2>2, <2>3, <2>6, <3>1, DecodeRoundFits
  <2>q. QED
    BY <2>4, <2>5, <2>6
<1>q. QED
  BY <1>1, <1>2

FittingAdvance == {a \in AdvanceState : Fits(a.inst)}

LEMMA AdvanceToFits ==
    ASSUME NEW i, NEW v \in Nat, NEW time \in Int, Well(i), Fits(i)
    PROVE  Fits(AdvanceTo(i, time, v).inst)
<1> DEFINE P == [k \in Int |-> FittingAdvance]
           z == AdvanceStart(i, time)
           n == IF time > 0 THEN time ELSE 0
<1>1. \A k \in Int : P[k] = FittingAdvance
  OBVIOUS
<1> HIDE DEF P
<1>2. z \in P[0]
  <2>1. i \in Record
    BY WellFields
  <2>3. <<>> \in Seq(Nat)
    OBVIOUS
  <2>2. z \in AdvanceState /\ z.inst = i
    BY <2>1, <2>3 DEF AdvanceStart, AdvanceState
  <2> HIDE DEF z
  <2>q. QED
    BY <1>1, <2>2 DEF FittingAdvance
<1>3. ASSUME NEW k \in 1..time, NEW a \in AdvanceStates(i, time, v), a \in P[k - 1]
      PROVE  AdvanceRound(a, v) \in P[k]
  <2>1. a \in AdvanceState /\ Fits(a.inst)
    BY <1>1, <1>3 DEF FittingAdvance
  <2>2. Well(a.inst)
    <3>1. Follows(i, a.inst, a.done, v)
      BY DEF AdvanceStates
    <3>q. QED
      BY <3>1 DEF Follows
  <2>3. AdvanceRound(a, v) \in AdvanceState
    <3>1. AdvanceRound(a, v) \in AdvanceStates(i, time, v)
      BY AdvanceRoundKeeps
    <3>q. QED
      BY <3>1 DEF AdvanceStates
  <2>4. Fits(AdvanceRound(a, v).inst)
    BY <2>1, <2>2, AdvanceRoundFits
  <2>q. QED
    BY <1>1, <2>3, <2>4 DEF FittingAdvance
<1>4. AdvanceKeeps(i, v, time, P)
  BY <1>2, <1>3 DEF AdvanceKeeps, z
<1>5. AdvanceTo(i, time, v) \in P[n]
  BY <1>4, AdvancedBy
<1>6. n \in Int
  OBVIOUS
<1>q. QED
  BY <1>1, <1>5, <1>6 DEF FittingAdvance

\* A new request has nothing in the cache.
LEMMA AddRequestFits ==
    ASSUME NEW i, NEW r \in Nat, Well(i), Fits(i), r \notin DOMAIN i.req
    PROVE  Fits(AddRequest(i, r))
<1> DEFINE j == AddRequest(i, r)
<1>1. /\ Well(j) /\ j.running = i.running
      /\ \A q \in DOMAIN i.req : j.req[q] = i.req[q]
      /\ j.req[r] = NewReq
  BY AddRequestFacts
<1>2. /\ i \in Record /\ i.waiting \in Seq(Nat) /\ ToSet(i.waiting) \in SUBSET DOMAIN i.req
  BY WellFields
<1>3. j.waiting = Append(i.waiting, r)
  BY <1>2 DEF AddRequest, Record
<1>4. ToSet(j.waiting) = ToSet(i.waiting) \cup {r}
  BY <1>2, <1>3, AppendFacts
<1> HIDE DEF j
<1>5. ToSet(j.running) \subseteq Batch(i)
  BY <1>1 DEF Batch
<1>6. j.req[r].prefilled = 0
  BY <1>1 DEF NewReq
<1>7. \A q \in ToSet(i.waiting) : j.req[q] = i.req[q] /\ Need(i, q) > 0
  BY <1>1, <1>2 DEF Fits
<1>8. \A q \in ToSet(j.waiting) :
         \/ j.req[q].prefilled = 0
         \/ q \in ToSet(i.waiting) /\ j.req[q] = i.req[q] /\ Need(i, q) > 0
  BY <1>4, <1>6, <1>7
<1>9. InLimit(InBatch(i))
  BY DEF Fits
<1>10. Fits(j)
  BY <1>1, <1>5, <1>8, <1>9, FitsKept
<1>q. QED
  BY <1>10 DEF j

\* Freeing the cache of requests and taking some off.
LEMMA FreedFits ==
    ASSUME NEW i, NEW w, NEW q, NEW S, Well(i), Fits(i), Well(WithFreed(i, w, q, S)),
           ToSet(q) \subseteq ToSet(i.running),
           \A r \in ToSet(w) : (r \in S /\ r \in DOMAIN i.req) \/ r \in ToSet(i.waiting)
    PROVE  Fits(WithFreed(i, w, q, S))
<1> DEFINE j == WithFreed(i, w, q, S)
           f == [r \in DOMAIN i.req |-> IF r \in S THEN [i.req[r] EXCEPT !.prefilled = 0]
                                       ELSE i.req[r]]
<1>1. i \in Record /\ ToSet(i.waiting) \in SUBSET DOMAIN i.req
  BY WellFields
<1>2. \A r \in DOMAIN i.req : i.req[r] \in ReqState
  BY ReqTyped
<1>3. \A r \in DOMAIN i.req : /\ r \in S => f[r].prefilled = 0
                              /\ r \notin S => f[r] = i.req[r]
  BY <1>2 DEF ReqState
<1> HIDE DEF f
<1>4. j.waiting = w /\ j.running = q /\ j.req = f
  BY <1>1 DEF WithFreed, Record, f
<1> HIDE DEF j
<1>5. ToSet(j.running) \subseteq Batch(i)
  BY <1>4 DEF Batch
<1>6. \A r \in ToSet(j.waiting) :
         \/ j.req[r].prefilled = 0
         \/ r \in ToSet(i.waiting) /\ j.req[r] = i.req[r] /\ Need(i, r) > 0
  BY <1>1, <1>3, <1>4 DEF Fits
<1>7. InLimit(InBatch(i))
  BY DEF Fits
<1>8. Well(j)
  BY DEF j
<1>9. Fits(j)
  BY <1>5, <1>6, <1>7, <1>8, FitsKept
<1>q. QED
  BY <1>9 DEF j

LEMMA CancelFits ==
    ASSUME NEW i, NEW gone, Well(i), Fits(i)
    PROVE  Fits(Cancel(i, gone))
<1> DEFINE w == Without(i.waiting, gone)
           q == Without(i.running, gone)
           S == gone \cap Active(i)
<1>1. i \in Record /\ i.waiting \in Seq(Nat) /\ i.running \in Seq(Nat)
  BY WellFields
<1>2. ToSet(w) = ToSet(i.waiting) \ gone /\ ToSet(q) = ToSet(i.running) \ gone
  BY <1>1, WithoutFacts
<1>3. Cancel(i, gone) = WithFreed(i, w, q, S)
  BY <1>1 DEF Cancel, WithFreed, Record
<1>4. Well(Cancel(i, gone))
  BY CancelFacts DEF Reworked
<1> HIDE DEF w, q, S
<1>5. /\ Well(WithFreed(i, w, q, S)) /\ ToSet(q) \subseteq ToSet(i.running)
      /\ \A r \in ToSet(w) : (r \in S /\ r \in DOMAIN i.req) \/ r \in ToSet(i.waiting)
  BY <1>2, <1>3, <1>4
<1>q. QED
  BY <1>3, <1>5, FreedFits

LEMMA AbortAllFits ==
    ASSUME NEW i, Well(i), Fits(i)
    PROVE  Fits(AbortAll(i))
<1> DEFINE w == i.running \o i.waiting
           q == <<>>
           S == Active(i)
<1>1. /\ i \in Record /\ i.waiting \in Seq(Nat) /\ i.running \in Seq(Nat)
      /\ Active(i) = ToSet(i.running) \cup ToSet(i.waiting)
      /\ Active(i) \in SUBSET DOMAIN i.req
  BY WellFields, ZenonT(30)
<1>2. ToSet(w) = ToSet(i.running) \cup ToSet(i.waiting)
  BY <1>1, ConcatFacts
<1>3. ToSet(q) = {}
  BY DEF ToSet
<1>4. AbortAll(i) = WithFreed(i, w, q, S)
  BY <1>1 DEF AbortAll, WithFreed, Record
<1>5. Well(AbortAll(i))
  BY AbortAllFacts DEF Reworked
<1> HIDE DEF w, q, S
<1>6. /\ Well(WithFreed(i, w, q, S)) /\ ToSet(q) \subseteq ToSet(i.running)
      /\ \A r \in ToSet(w) : (r \in S /\ r \in DOMAIN i.req) \/ r \in ToSet(i.waiting)
  BY <1>1, <1>2, <1>3, <1>4, <1>5 DEF S
<1>q. QED
  BY <1>4, <1>6, FreedFits

LEMMA NewInstanceFits == Well(NewInstance) /\ Fits(NewInstance)
<1>1. ToSet(<<>>) = {}
  BY DEF ToSet
<1>5. Well(NewInstance)
  BY NewInstanceWell
<1>6. NewInstance.waiting = <<>> /\ NewInstance.running = <<>>
  BY DEF NewInstance
<1>7. Batch(NewInstance) = {}
  BY <1>1, <1>6 DEF Batch
<1>8. InBatch(NewInstance) = 0
  BY <1>5, <1>7, BatchCounted, FS_EmptySet
<1>9. InLimit(InBatch(NewInstance))
  BY <1>8, LimitTyped DEF InLimit
<1>q. QED
  BY <1>1, <1>5, <1>6, <1>9 DEF Fits

-----------------------------------------------------------------------------
(* The invariant of an instance driven through its life.                   *)

\* The variables other than the instance and its event.
Counters ==
    /\ weights \in Nat
    /\ added \in Nat /\ added <= NRequests
    /\ cancelled \subseteq Ids(added)
    /\ interrupts \in 0..Interrupts

\* Instance i holds requests added so far, within its batch.
Sound(i) == Well(i) /\ Fits(i) /\ DOMAIN i.req = Ids(added)

\* The pending event led from the instance before it to the present one, and
\* its undo point is that of the instance before it.
EventSound ==
    /\ pending \in Event
    /\ ~Quiet => /\ Sound(before)
                 /\ snapshot = Capture(before)
                 /\ Follows(before, inst, pending.done, weights)

InstanceInv == Counters /\ Sound(inst) /\ EventSound

\* The kinds of event there are.
LEMMA EventKinds ==
    ASSUME NEW i, NEW v
    PROVE  AdvanceOneEvent(i, v).kind
             \in {"none", "prefill", "complete", "kv_preempt", "deadlock_preempt"}
<1>1. PrefillEvent(i, v).kind \in {"complete", "deadlock_preempt", "prefill"}
  BY DEF PrefillEvent
<1>2. DecodeEvent(i, v).kind \in {"complete", "kv_preempt"}
  BY DEF DecodeEvent
<1>q. QED
  BY <1>1, <1>2 DEF AdvanceOneEvent

\* What an event carries.
LEMMA EventTyped ==
    ASSUME NEW i, NEW v \in Nat, Well(i), ~Idle(i)
    PROVE  LET e == AdvanceOneEvent(i, v)
           IN [kind |-> e.kind, done |-> e.done, dt |-> e.dt] \in Event
<1> DEFINE e == AdvanceOneEvent(i, v)
<1>1. e.kind \in {"none", "prefill", "complete", "kv_preempt", "deadlock_preempt"}
  BY EventKinds
<1>2. Follows(i, e.inst, e.done, v) /\ e.dt \in Nat
  BY EventFollows DEF EventOf
<1>3. e.done \in Seq(Nat)
  BY <1>2 DEF Follows
<1> HIDE DEF e
<1>4. [kind |-> e.kind, done |-> e.done, dt |-> e.dt] \in Event
  BY <1>1, <1>2, <1>3 DEF Event
<1>q. QED
  BY <1>4 DEF e

LEMMA InstanceStart == InstanceInit => InstanceInv
<1> SUFFICES ASSUME InstanceInit PROVE InstanceInv
  OBVIOUS
<1>1. Well(NewInstance) /\ Fits(NewInstance)
  BY NewInstanceFits
<1>2. DOMAIN NewInstance.req = {}
  BY DEF NewInstance
<1>3. Ids(added) = {}
  BY DEF Ids, InstanceInit
<1>4. Sound(inst)
  BY <1>1, <1>2, <1>3 DEF Sound, InstanceInit
<1>5. Counters
  BY <1>3, InstanceAssumption DEF Counters, InstanceInit
<1>6. NoPending \in Event
  BY DEF NoPending, Event
<1>7. EventSound
  BY <1>6 DEF EventSound, InstanceInit, Quiet
<1>q. QED
  BY <1>4, <1>5, <1>7 DEF InstanceInv

\* A step that leaves no event behind.
LEMMA QuietStep ==
    ASSUME Counters', Sound(inst)', Quiet'
    PROVE  InstanceInv'
<1>1. NoPending \in Event
  BY DEF NoPending, Event
<1>2. pending' \in Event /\ Quiet'
  BY <1>1 DEF Quiet
<1>3. EventSound'
  BY <1>2 DEF EventSound
<1>q. QED
  BY <1>3 DEF InstanceInv

LEMMA AddKeeps == InstanceInv /\ Add => InstanceInv'
<1> SUFFICES ASSUME InstanceInv, Add PROVE InstanceInv'
  OBVIOUS
<1>1. added \in Nat /\ added < NRequests /\ added' = added + 1 /\ NRequests \in Nat
  BY InstanceAssumption DEF InstanceInv, Counters, Add
<1>2. Ids(added') = Ids(added) \cup {added}
  BY <1>1 DEF Ids
<1>3. Well(inst) /\ Fits(inst) /\ DOMAIN inst.req = Ids(added) /\ added \notin Ids(added)
  BY <1>1 DEF InstanceInv, Sound, Ids
<1>4. Well(AddRequest(inst, added)) /\ DOMAIN AddRequest(inst, added).req = Ids(added) \cup {added}
  BY <1>1, <1>3, AddRequestFacts
<1>5. Fits(AddRequest(inst, added))
  BY <1>1, <1>3, AddRequestFits
<1>6. inst' = AddRequest(inst, added)
  BY DEF Add
<1>7. Sound(inst)'
  BY <1>2, <1>4, <1>5, <1>6 DEF Sound
<1>8. Counters'
  BY <1>1, <1>2 DEF InstanceInv, Counters, Add
<1>9. Quiet'
  BY DEF Add, Quiet
<1>q. QED
  BY <1>7, <1>8, <1>9, QuietStep

LEMMA ProduceEventKeeps == InstanceInv /\ ProduceEvent => InstanceInv'
<1> SUFFICES ASSUME InstanceInv, ProduceEvent PROVE InstanceInv'
  OBVIOUS
<1> DEFINE e == AdvanceOneEvent(inst, weights)
<1>1. Well(inst) /\ Fits(inst) /\ DOMAIN inst.req = Ids(added) /\ weights \in Nat
  BY DEF InstanceInv, Sound, Counters
<1>2. PromoteReady(inst) = inst
  BY <1>1, NothingReady
<1>3. /\ ~Idle(inst) /\ snapshot' = Capture(inst) /\ inst' = e.inst /\ before' = inst
      /\ pending' = [kind |-> e.kind, done |-> e.done, dt |-> e.dt]
  BY <1>2 DEF ProduceEvent
<1>4. Follows(inst, e.inst, e.done, weights)
  BY <1>1, <1>3, EventFollows DEF EventOf
<1>5. Fits(e.inst)
  BY <1>1, <1>3, EventFits
<1>6. pending' \in Event
  BY <1>1, <1>3, EventTyped
<1>7. pending'.done = e.done
  BY <1>3
<1> HIDE DEF e
<1>8. added' = added /\ weights' = weights /\ cancelled' = cancelled /\ interrupts' = interrupts
  BY DEF ProduceEvent
<1>9. Counters'
  BY <1>8 DEF InstanceInv, Counters
<1>10. Sound(inst)'
  BY <1>1, <1>3, <1>4, <1>5, <1>8 DEF Sound, Follows
<1>11. Sound(before)'
  BY <1>1, <1>3, <1>8 DEF Sound
<1>12. EventSound'
  BY <1>3, <1>4, <1>6, <1>7, <1>8, <1>11 DEF EventSound
<1>q. QED
  BY <1>9, <1>10, <1>12 DEF InstanceInv

LEMMA CommitKeeps == InstanceInv /\ Commit => InstanceInv'
<1> SUFFICES ASSUME InstanceInv, Commit PROVE InstanceInv'
  OBVIOUS
<1>1. Counters' /\ Sound(inst)'
  BY DEF InstanceInv, Counters, Sound, Commit
<1>2. Quiet'
  BY DEF Commit, Quiet
<1>q. QED
  BY <1>1, <1>2, QuietStep

\* The instance an undo gives back.
LEMMA BeforeRestored ==
    ASSUME InstanceInv, ~Quiet
    PROVE  Restore(inst, snapshot) = before
<1>1. /\ Well(before) /\ snapshot = Capture(before)
      /\ Follows(before, inst, pending.done, weights)
  BY DEF InstanceInv, EventSound, Sound
<1>2. Restore(inst, Capture(before)) = before
  BY <1>1, UndoExact
<1>q. QED
  BY <1>1, <1>2

LEMMA UndoKeeps ==
    ASSUME InstanceInv, NEW elapsed \in Int, UndoAndAdvance(elapsed)
    PROVE  InstanceInv'
<1> DEFINE a == AdvanceTo(before, elapsed, weights)
<1>1. ~Quiet
  BY DEF UndoAndAdvance
<1>2. Restore(inst, snapshot) = before
  BY <1>1, BeforeRestored
<1>3. inst' = a.inst
  BY <1>2 DEF UndoAndAdvance
<1>4. Well(before) /\ Fits(before) /\ DOMAIN before.req = Ids(added) /\ weights \in Nat
  BY <1>1 DEF InstanceInv, EventSound, Sound, Counters
<1>5. Follows(before, a.inst, a.done, weights)
  BY <1>4, AdvanceToFollows DEF AdvanceStates
<1>6. Fits(a.inst)
  BY <1>4, AdvanceToFits
<1> HIDE DEF a
<1>7. added' = added /\ Counters'
  BY InstanceAssumption DEF InstanceInv, Counters, UndoAndAdvance, Interrupt
<1>8. Sound(inst)'
  BY <1>3, <1>4, <1>5, <1>6, <1>7 DEF Sound, Follows
<1>9. Quiet'
  BY DEF UndoAndAdvance, Quiet
<1>q. QED
  BY <1>7, <1>8, <1>9, QuietStep

LEMMA AbortKeeps == InstanceInv /\ Abort => InstanceInv'
<1> SUFFICES ASSUME InstanceInv, Abort PROVE InstanceInv'
  OBVIOUS
<1>1. Well(inst) /\ Fits(inst) /\ DOMAIN inst.req = Ids(added)
  BY DEF InstanceInv, Sound
<1>2. Well(AbortAll(inst)) /\ DOMAIN AbortAll(inst).req = DOMAIN inst.req
  BY <1>1, AbortAllFacts DEF Reworked
<1>3. Fits(AbortAll(inst))
  BY <1>1, AbortAllFits
<1>4. inst' = AbortAll(inst) /\ added' = added
  BY DEF Abort
<1>5. Sound(inst)'
  BY <1>1, <1>2, <1>3, <1>4 DEF Sound
<1>6. Counters'
  BY InstanceAssumption DEF InstanceInv, Counters, Abort, Interrupt
<1>7. Quiet'
  BY DEF Abort, Quiet
<1>q. QED
  BY <1>5, <1>6, <1>7, QuietStep

LEMMA CancelSomeKeeps ==
    ASSUME InstanceInv, NEW gone \in SUBSET Active(inst), CancelSome(gone)
    PROVE  InstanceInv'
<1>1. Well(inst) /\ Fits(inst) /\ DOMAIN inst.req = Ids(added)
  BY DEF InstanceInv, Sound
<1>2. Well(Cancel(inst, gone)) /\ DOMAIN Cancel(inst, gone).req = DOMAIN inst.req
  BY <1>1, CancelFacts DEF Reworked
<1>3. Fits(Cancel(inst, gone))
  BY <1>1, CancelFits
<1>4. inst' = Cancel(inst, gone) /\ added' = added
  BY DEF CancelSome
<1>5. Sound(inst)'
  BY <1>1, <1>2, <1>3, <1>4 DEF Sound
<1>6. gone \subseteq Ids(added)
  BY <1>1, WellFields
<1>7. Counters'
  BY <1>6, InstanceAssumption DEF InstanceInv, Counters, CancelSome, Interrupt
<1>8. Quiet'
  BY DEF CancelSome, Quiet
<1>q. QED
  BY <1>5, <1>7, <1>8, QuietStep

LEMMA NewWeightsKeeps == InstanceInv /\ NewWeights => InstanceInv'
<1> SUFFICES ASSUME InstanceInv, NewWeights PROVE InstanceInv'
  OBVIOUS
<1>1. Sound(inst)'
  BY DEF InstanceInv, Sound, NewWeights
<1>2. Counters'
  BY InstanceAssumption DEF InstanceInv, Counters, NewWeights, Interrupt
<1>3. Quiet'
  BY DEF NewWeights, Quiet
<1>q. QED
  BY <1>1, <1>2, <1>3, QuietStep

LEMMA StutterKeeps == InstanceInv /\ UNCHANGED instanceVars => InstanceInv'
  BY DEF InstanceInv, Counters, Sound, EventSound, Quiet, instanceVars

LEMMA InstanceNextKeeps == InstanceInv /\ [InstanceNext]_instanceVars => InstanceInv'
<1> SUFFICES ASSUME InstanceInv, [InstanceNext]_instanceVars PROVE InstanceInv'
  OBVIOUS
<1>1. CASE Add
  BY <1>1, AddKeeps
<1>2. CASE ProduceEvent
  BY <1>2, ProduceEventKeeps
<1>3. CASE Commit
  BY <1>3, CommitKeeps
<1>4. CASE \E elapsed \in {0} \cup 0..(pending.dt - 1) : UndoAndAdvance(elapsed)
  <2>1. PICK elapsed \in {0} \cup 0..(pending.dt - 1) : UndoAndAdvance(elapsed)
    BY <1>4
  <2>2. elapsed \in Int
    OBVIOUS
  <2>q. QED
    BY <2>1, <2>2, UndoKeeps
<1>5. CASE Abort
  BY <1>5, AbortKeeps
<1>6. CASE \E gone \in SUBSET Active(inst) \ {{}} : CancelSome(gone)
  <2>1. PICK gone \in SUBSET Active(inst) \ {{}} : CancelSome(gone)
    BY <1>6
  <2>q. QED
    BY <2>1, CancelSomeKeeps
<1>7. CASE NewWeights
  BY <1>7, NewWeightsKeeps
<1>8. CASE UNCHANGED instanceVars
  BY <1>8, StutterKeeps
<1>q. QED
  BY <1>1, <1>2, <1>3, <1>4, <1>5, <1>6, <1>7, <1>8 DEF InstanceNext

LEMMA InstanceInvariant == InstanceSpec => []InstanceInv
<1>1. InstanceInit => InstanceInv
  BY InstanceStart
<1>2. InstanceInv /\ [InstanceNext]_instanceVars => InstanceInv'
  BY InstanceNextKeeps
<1>q. QED
  BY <1>1, <1>2, PTL DEF InstanceSpec

\* The type invariant of an instance: its lists hold only requests that were
\* added, its request table is of exactly these, and an event is well formed
\* (NativeInstance).
THEOREM InstanceTypeCorrect == InstanceSpec => []InstanceTypeOK
<1>1. InstanceInv => InstanceTypeOK
  <2> SUFFICES ASSUME InstanceInv PROVE InstanceTypeOK
    OBVIOUS
  <2>1. /\ Well(inst) /\ DOMAIN inst.req = Ids(added) /\ pending \in Event
        /\ weights \in Nat /\ added \in Nat /\ added <= NRequests
        /\ cancelled \subseteq Ids(added) /\ interrupts \in 0..Interrupts
    BY DEF InstanceInv, Sound, Counters, EventSound
  <2>2. Ids(added) = 0..(added - 1)
    BY <2>1 DEF Ids
  <2>3. /\ inst.waiting \in Seq(Nat) /\ inst.running \in Seq(Nat) /\ inst.completed \in Seq(Nat)
        /\ ToSet(inst.waiting) \in SUBSET DOMAIN inst.req
        /\ ToSet(inst.running) \in SUBSET DOMAIN inst.req
        /\ ToSet(inst.completed) \in SUBSET DOMAIN inst.req
    BY <2>1, WellFields
  <2>4. ToSet(inst.waiting \o inst.running \o inst.completed) \subseteq DOMAIN inst.req
    <3> DEFINE x == inst.waiting
               y == inst.running
               z == inst.completed
               w == x \o y
    <3>1. x \in Seq(Nat) /\ y \in Seq(Nat) /\ z \in Seq(Nat)
      BY <2>3
    <3>2. ToSet(x) \cup ToSet(y) \cup ToSet(z) \subseteq DOMAIN inst.req
      BY <2>3
    <3> HIDE DEF x, y, z
    <3>3. w \in Seq(Nat) /\ ToSet(w) = ToSet(x) \cup ToSet(y)
      BY <3>1, ConcatFacts
    <3> HIDE DEF w
    <3>4. ToSet(w \o z) = ToSet(w) \cup ToSet(z)
      BY <3>1, <3>3, ConcatFacts
    <3>5. ToSet(w \o z) \subseteq DOMAIN inst.req
      BY <3>2, <3>3, <3>4
    <3>q. QED
      BY <3>5 DEF x, y, z, w
  <2>5. \A r \in DOMAIN inst.req : inst.req[r] \in ReqState
    BY <2>1, ReqTyped
  <2>6. added \in 0..NRequests
    BY <2>1, InstanceAssumption
  <2>q. QED
    BY <2>1, <2>2, <2>4, <2>5, <2>6 DEF InstanceTypeOK
<1>q. QED
  BY <1>1, InstanceInvariant, PTL

\* Undoing an event gives back the instance it was asked of: every mutation an
\* event performs is reversible (snapshot.py).
THEOREM InstanceUndoLeavesNoTrace == InstanceSpec => []UndoLeavesNoTrace
<1>1. InstanceInv => UndoLeavesNoTrace
  BY BeforeRestored DEF UndoLeavesNoTrace
<1>q. QED
  BY <1>1, InstanceInvariant, PTL

\* The batch never exceeds max_concurrency, and no waiting request is ready
\* (_prefill_budget_step, _promote_ready).
THEOREM InstanceBatchFits == InstanceSpec => []BatchFits
<1>1. InstanceInv => BatchFits
  <2> SUFFICES ASSUME InstanceInv PROVE BatchFits
    OBVIOUS
  <2>1. Well(inst) /\ Fits(inst)
    BY DEF InstanceInv, Sound
  <2>2. PromoteReady(inst) = inst
    BY <2>1, NothingReady
  <2>3. MaxConcurrency # NoLimit => InBatch(inst) <= MaxConcurrency
    BY <2>1 DEF Fits, InLimit
  <2>q. QED
    BY <2>2, <2>3 DEF BatchFits
<1>q. QED
  BY <1>1, InstanceInvariant, PTL

-----------------------------------------------------------------------------
(* Sums over finite sets.                                                  *)

Picked(t) == CHOOSE r \in t : TRUE

\* h adds up f over the subsets of S, the picked member first.
AddsUp(h, f, S) ==
    \A t \in SUBSET S : /\ h[t] \in Nat
                        /\ h[t] = IF t = {} THEN 0 ELSE f[Picked(t)] + h[t \ {Picked(t)}]

LEMMA PickedFacts ==
    ASSUME NEW t, t # {}
    PROVE  Picked(t) \in t
  BY DEF Picked

\* A sum is the last value of a fold.
LEMMA TotalFold ==
    ASSUME NEW S, IsFiniteSet(S), NEW f, DOMAIN f = S, \A r \in S : f[r] \in Nat
    PROVE  \E h : AddsUp(h, f, S) /\ Total(f) = h[S]
<1> DEFINE Pick(t) == CHOOSE r \in t : TRUE
           c == [t \in SUBSET S |-> Pick(t)]
           After(g, t) == IF t = {} THEN 0 ELSE f[Pick(t)] + g[t \ {Pick(t)}]
           h == CHOOSE g : g = [t \in SUBSET S |-> After(g, t)]
           F == [x \in Nat \X S |-> f[x[2]] + x[1]]
           Nats == [t \in SUBSET S |-> Nat]
<1>1. Total(f) = h[S]
  BY DEF Total, FoldFunction, FoldFunctionOnSet, MapThenFoldSet
<1>2. \A t \in SUBSET S : /\ c[t] = Pick(t) /\ Nats[t] = Nat
                          /\ t # {} => Pick(t) \in t /\ Pick(t) \in S
                                       /\ t \ {Pick(t)} \in SUBSET S
  OBVIOUS
<1>3. \A n \in Nat, r \in S : F[<<n, r>>] = f[r] + n /\ f[r] + n \in Nat
  OBVIOUS
<1>0. \A t : Pick(t) = Picked(t)
  BY DEF Picked
<1> HIDE DEF c, F, Pick, Nats
<1>4. \E g : g = [t \in SUBSET S |-> After(g, t)]
  <2> DEFINE z == 0
  <2>1. z = 0
    OBVIOUS
  <2> HIDE DEF z, After
  <2>2. \A t \in SUBSET S : t # {} => c[t] \in t
    BY <1>2
  <2>3. PICK g : OnSubsets(g, S) /\ IsFold(g, S, c, z, F)
    BY <2>2, FoldExists
  <2>4. \A t \in SUBSET S : g[t] = IF t = {} THEN z ELSE F[<<g[t \ {c[t]}], c[t]>>]
    BY <2>3 DEF IsFold
  <2>5. g[{}] \in Nats[{}]
    <3>1. {} \in SUBSET S
      OBVIOUS
    <3>2. g[{}] = z
      BY <2>4, <3>1
    <3>3. Nats[{}] = Nat
      BY <1>2, <3>1
    <3>q. QED
      BY <2>1, <3>2, <3>3
  <2>6. \A t \in SUBSET S : t # {} /\ g[t \ {c[t]}] \in Nats[t \ {c[t]}] => g[t] \in Nats[t]
    <3> SUFFICES ASSUME NEW t \in SUBSET S, t # {}, g[t \ {c[t]}] \in Nats[t \ {c[t]}]
                 PROVE  g[t] \in Nats[t]
      OBVIOUS
    <3>1. t \ {c[t]} \in SUBSET S /\ c[t] \in S
      BY <1>2
    <3>2. g[t \ {c[t]}] \in Nat
      BY <1>2, <3>1
    <3>3. g[t] = F[<<g[t \ {c[t]}], c[t]>>]
      BY <2>4
    <3>4. F[<<g[t \ {c[t]}], c[t]>>] \in Nat
      BY <1>3, <3>1, <3>2
    <3>5. Nats[t] = Nat
      BY <1>2
    <3>q. QED
      BY <3>3, <3>4, <3>5
  <2>7. \A t \in SUBSET S : g[t] \in Nats[t]
    BY <2>2, <2>5, <2>6, FoldKeeps
  <2>8. \A t \in SUBSET S : g[t] = After(g, t)
    <3> SUFFICES ASSUME NEW t \in SUBSET S PROVE g[t] = After(g, t)
      OBVIOUS
    <3>1. CASE t = {}
      BY <2>1, <2>4, <3>1 DEF After
    <3>2. CASE t # {}
      <4>1. t \ {Pick(t)} \in SUBSET S /\ Pick(t) \in S /\ c[t] = Pick(t)
        BY <1>2, <3>2
      <4>2. g[t \ {Pick(t)}] \in Nat
        BY <1>2, <2>7, <4>1
      <4>3. g[t] = F[<<g[t \ {Pick(t)}], Pick(t)>>]
        BY <2>4, <3>2, <4>1
      <4>q. QED
        BY <1>3, <3>2, <4>1, <4>2, <4>3 DEF After
    <3>q. QED
      BY <3>1, <3>2
  <2>9. g = [t \in SUBSET S |-> After(g, t)]
    BY <2>3, <2>8 DEF OnSubsets
  <2>q. QED
    BY <2>9
<1>5. h = [t \in SUBSET S |-> After(h, t)]
  <2> HIDE DEF After
  <2>q. QED
    BY <1>4
<1>6. \A t \in SUBSET S : h[t] = After(h, t)
  <2> HIDE DEF h, After
  <2>q. QED
    BY <1>5
<1> HIDE DEF h
<1>7. h[{}] \in Nats[{}]
  <2>1. {} \in SUBSET S
    OBVIOUS
  <2>q. QED
    BY <1>2, <1>6, <2>1
<1>8. \A t \in SUBSET S : t # {} /\ h[t \ {c[t]}] \in Nats[t \ {c[t]}] => h[t] \in Nats[t]
  <2> SUFFICES ASSUME NEW t \in SUBSET S, t # {}, h[t \ {c[t]}] \in Nats[t \ {c[t]}]
               PROVE  h[t] \in Nats[t]
    OBVIOUS
  <2>1. h[t \ {Pick(t)}] \in Nat /\ Pick(t) \in S
    BY <1>2
  <2>2. h[t] = f[Pick(t)] + h[t \ {Pick(t)}]
    BY <1>6
  <2>q. QED
    BY <1>2, <2>1, <2>2
<1>9. \A t \in SUBSET S : h[t] \in Nats[t]
  <2>1. \A t \in SUBSET S : t # {} => c[t] \in t
    BY <1>2
  <2>q. QED
    BY <1>7, <1>8, <2>1, FoldKeeps
<1>10. ASSUME NEW t \in SUBSET S
       PROVE  /\ h[t] \in Nat
              /\ h[t] = IF t = {} THEN 0 ELSE f[Picked(t)] + h[t \ {Picked(t)}]
  <2>1. h[t] \in Nat
    BY <1>2, <1>9
  <2>2. h[t] = IF t = {} THEN 0 ELSE f[Pick(t)] + h[t \ {Pick(t)}]
    BY <1>6
  <2>q. QED
    BY <1>0, <2>1, <2>2
<1>11. AddsUp(h, f, S)
  BY <1>10 DEF AddsUp
<1>q. QED
  BY <1>1, <1>11

\* Any member may come first.
AnyOrder(h, f, S) == \A t \in SUBSET S : \A x \in t : h[t] = f[x] + h[t \ {x}]

\* The picked member does not matter.
LEMMA AnyFirst ==
    ASSUME NEW S, IsFiniteSet(S), NEW f, \A r \in S : f[r] \in Nat, NEW h, AddsUp(h, f, S)
    PROVE  AnyOrder(h, f, S)
<1> DEFINE Bad == {t \in SUBSET S : \E x \in t : h[t] # f[x] + h[t \ {x}]}
<1> SUFFICES ASSUME Bad # {} PROVE FALSE
  BY Zenon DEF AnyOrder
<1>1. PICK t \in Bad : \A u \in Bad : u \subseteq t => u = t
  <2>1. Bad \in SUBSET (SUBSET S)
    OBVIOUS
  <2> HIDE DEF Bad
  <2>q. QED
    BY <2>1, MinimalSet
<1>2. PICK x \in t : h[t] # f[x] + h[t \ {x}]
  BY <1>1
<1> DEFINE p == Picked(t)
<1>3. p \in t /\ t \in SUBSET S
  BY <1>1, <1>2, PickedFacts
<1>4. \A u \in SUBSET S : /\ h[u] \in Nat
                          /\ u # {} => h[u] = f[Picked(u)] + h[u \ {Picked(u)}]
  BY DEF AddsUp
<1> HIDE DEF p
<1>5. h[t] = f[p] + h[t \ {p}]
  BY <1>3, <1>4 DEF p
<1>6. x # p
  BY <1>2, <1>5
<1>7. \A u \in SUBSET S : u \subseteq t /\ u # t => \A y \in u : h[u] = f[y] + h[u \ {y}]
  BY <1>1
<1>8. h[t \ {p}] = f[x] + h[(t \ {p}) \ {x}]
  <2>1. t \ {p} \in SUBSET S /\ t \ {p} \subseteq t /\ t \ {p} # t /\ x \in t \ {p}
    BY <1>3, <1>6
  <2> HIDE DEF Bad
  <2>q. QED
    BY <1>7, <2>1
<1>9. h[t \ {x}] = f[p] + h[(t \ {x}) \ {p}]
  <2>1. t \ {x} \in SUBSET S /\ t \ {x} \subseteq t /\ t \ {x} # t /\ p \in t \ {x}
    BY <1>3, <1>6
  <2> HIDE DEF Bad
  <2>q. QED
    BY <1>7, <2>1
<1>10. (t \ {x}) \ {p} = (t \ {p}) \ {x}
  OBVIOUS
<1> DEFINE a == h[(t \ {p}) \ {x}]
<1>11. a \in Nat /\ f[p] \in Nat /\ f[x] \in Nat
  BY <1>3, <1>4
<1>12. h[t \ {p}] = f[x] + a /\ h[t \ {x}] = f[p] + a
  BY <1>8, <1>9, <1>10
<1> HIDE DEF a, Bad
<1>q. QED
  BY <1>2, <1>5, <1>11, <1>12

\* The sum of f over the members of t.
Part(f, t) == Total([r \in t |-> f[r]])

\* What sums are made of.
Sums(f, S) ==
    /\ Part(f, {}) = 0
    /\ \A t \in SUBSET S : /\ Part(f, t) \in Nat
                           /\ \A x \in t : Part(f, t) = f[x] + Part(f, t \ {x})

LEMMA PartSums ==
    ASSUME NEW S, IsFiniteSet(S), NEW f, \A r \in S : f[r] \in Nat
    PROVE  Sums(f, S)
<1> DEFINE g == [r \in S |-> f[r]]
<1>1. DOMAIN g = S /\ \A r \in S : g[r] \in Nat /\ g[r] = f[r]
  OBVIOUS
<1> HIDE DEF g
<1>2. PICK H : AddsUp(H, g, S)
  BY <1>1, TotalFold
<1>a. \A t \in SUBSET S : t # {} => H[t] = g[Picked(t)] + H[t \ {Picked(t)}]
  BY <1>2 DEF AddsUp
<1>3. ASSUME NEW t \in SUBSET S PROVE Part(f, t) = H[t]
  <2> DEFINE e == [r \in t |-> f[r]]
  <2>1. IsFiniteSet(t) /\ DOMAIN e = t /\ \A r \in t : e[r] \in Nat /\ e[r] = g[r]
    BY <1>1, FS_Subset
  <2>2. Part(f, t) = Total(e)
    BY DEF Part
  <2> HIDE DEF e
  <2>3. PICK h : AddsUp(h, e, t) /\ Total(e) = h[t]
    BY <2>1, TotalFold
  <2> DEFINE c == [u \in SUBSET t |-> Picked(u)]
             Same == [u \in SUBSET t |-> {H[u]}]
  <2>4. \A u \in SUBSET t : c[u] = Picked(u) /\ Same[u] = {H[u]} /\ (u # {} => c[u] \in u)
    BY PickedFacts
  <2>5. {} \in SUBSET t /\ {} \in SUBSET S /\ t \in SUBSET t
    OBVIOUS
  <2> HIDE DEF c, Same
  <2>6. h[{}] \in Same[{}]
    <3>1. h[{}] = 0 /\ H[{}] = 0
      BY <1>2, <2>3, <2>5 DEF AddsUp
    <3>q. QED
      BY <2>4, <2>5, <3>1
  <2>7. \A u \in SUBSET t : u # {} /\ h[u \ {c[u]}] \in Same[u \ {c[u]}] => h[u] \in Same[u]
    <3> SUFFICES ASSUME NEW u \in SUBSET t, u # {}, h[u \ {c[u]}] \in Same[u \ {c[u]}]
                 PROVE  h[u] \in Same[u]
      OBVIOUS
    <3>1. c[u] \in u /\ u \ {c[u]} \in SUBSET t /\ u \in SUBSET S /\ c[u] \in t
      BY <2>4
    <3>2. h[u \ {c[u]}] = H[u \ {c[u]}]
      BY <2>4, <3>1
    <3>3. h[u] = e[c[u]] + h[u \ {c[u]}]
      BY <2>3, <2>4 DEF AddsUp
    <3>4. H[u] = g[c[u]] + H[u \ {c[u]}]
      <4>1. H[u] = g[Picked(u)] + H[u \ {Picked(u)}]
        BY <1>a, <3>1
      <4>2. c[u] = Picked(u)
        BY <2>4
      <4>q. QED
        BY <4>1, <4>2
    <3>5. e[c[u]] = g[c[u]]
      BY <2>1, <3>1
    <3>6. h[u] = H[u]
      BY <3>2, <3>3, <3>4, <3>5
    <3>q. QED
      BY <2>4, <3>6
  <2>8. \A u \in SUBSET t : u # {} => c[u] \in u
    BY <2>4
  <2>9. \A u \in SUBSET t : h[u] \in Same[u]
    BY <2>1, <2>6, <2>7, <2>8, FoldKeeps
  <2>10. h[t] = H[t]
    BY <2>4, <2>5, <2>9
  <2>q. QED
    BY <2>2, <2>3, <2>10
<1>4. \A t \in SUBSET S : \A x \in t : H[t] = g[x] + H[t \ {x}]
  <2>1. \A r \in S : g[r] \in Nat
    BY <1>1
  <2>2. AnyOrder(H, g, S)
    BY <1>2, <2>1, AnyFirst
  <2>q. QED
    BY <2>2, Zenon DEF AnyOrder
<1>5. {} \in SUBSET S
  OBVIOUS
<1>6. Part(f, {}) = 0
  <2>1. H[{}] = 0
    BY <1>2, <1>5 DEF AddsUp
  <2>q. QED
    BY <1>3, <1>5, <2>1
<1>7. ASSUME NEW t \in SUBSET S
      PROVE  /\ Part(f, t) \in Nat
             /\ \A x \in t : Part(f, t) = f[x] + Part(f, t \ {x})
  <2>1. Part(f, t) = H[t] /\ H[t] \in Nat
    BY <1>2, <1>3 DEF AddsUp
  <2>2. ASSUME NEW x \in t PROVE Part(f, t) = f[x] + Part(f, t \ {x})
    <3>1. t \ {x} \in SUBSET S /\ g[x] = f[x]
      BY <1>1
    <3>2. Part(f, t \ {x}) = H[t \ {x}]
      BY <1>3, <3>1
    <3>q. QED
      BY <1>4, <2>1, <3>1, <3>2
  <2>q. QED
    BY <2>1, <2>2
<1>q. QED
  BY <1>6, <1>7 DEF Sums

\* What the empty set has and each next member keeps, every finite set has.
LEMMA MemberByMember ==
    ASSUME NEW S, IsFiniteSet(S), NEW F, {} \in F,
           \A t \in SUBSET S : \A x \in t : t \ {x} \in F => t \in F
    PROVE  S \in F
<1> DEFINE Bad == {t \in SUBSET S : t \notin F}
<1> SUFFICES ASSUME S \notin F PROVE FALSE
  OBVIOUS
<1>1. Bad # {} /\ Bad \in SUBSET (SUBSET S)
  OBVIOUS
<1>2. PICK t \in Bad : \A u \in Bad : u \subseteq t => u = t
  <2> HIDE DEF Bad
  <2>q. QED
    BY <1>1, MinimalSet
<1>3. PICK x \in t : TRUE
  <2>1. t # {}
    BY <1>2
  <2>q. QED
    BY <2>1
<1>4. t \ {x} \in SUBSET S /\ t \ {x} \subseteq t /\ t \ {x} # t
  BY <1>2, <1>3
<1>5. t \ {x} \notin Bad
  <2> HIDE DEF Bad
  <2>q. QED
    BY <1>2, <1>4
<1>q. QED
  BY <1>2, <1>3, <1>4, <1>5

LEMMA PartEqual ==
    ASSUME NEW S, NEW f, NEW e, \A r \in S : f[r] = e[r]
    PROVE  Part(f, S) = Part(e, S)
<1>1. [r \in S |-> f[r]] = [r \in S |-> e[r]]
  OBVIOUS
<1>q. QED
  BY <1>1 DEF Part

\* The greater the summands, the greater the sum.
LEMMA PartAtMost ==
    ASSUME NEW S, IsFiniteSet(S), NEW f, NEW e, \A r \in S : f[r] \in Nat,
           \A r \in S : e[r] \in Nat, \A r \in S : f[r] <= e[r]
    PROVE  Part(f, S) <= Part(e, S)
<1> DEFINE F == {t \in SUBSET S : Part(f, t) <= Part(e, t)}
<1>1. Sums(f, S) /\ Sums(e, S)
  BY PartSums
<1>2. {} \in F
  BY <1>1 DEF Sums
<1>3. ASSUME NEW t \in SUBSET S, NEW x \in t, t \ {x} \in F
      PROVE  t \in F
  <2> DEFINE a == Part(f, t \ {x})
             b == Part(e, t \ {x})
  <2>1. a \in Nat /\ b \in Nat /\ a <= b
    BY <1>1, <1>3 DEF Sums
  <2>2. Part(f, t) = f[x] + a /\ Part(e, t) = e[x] + b
    BY <1>1 DEF Sums
  <2>3. f[x] \in Nat /\ e[x] \in Nat /\ f[x] <= e[x]
    OBVIOUS
  <2> HIDE DEF a, b
  <2>4. f[x] + a <= e[x] + b
    BY <2>1, <2>3
  <2>q. QED
    BY <2>2, <2>4
<1>4. S \in F
  <2> HIDE DEF F
  <2>q. QED
    BY <1>2, <1>3, MemberByMember
<1>q. QED
  BY <1>4

LEMMA PartLess ==
    ASSUME NEW S, IsFiniteSet(S), NEW f, NEW e, \A r \in S : f[r] \in Nat,
           \A r \in S : e[r] \in Nat, \A r \in S : f[r] <= e[r],
           NEW x \in S, f[x] < e[x]
    PROVE  Part(f, S) < Part(e, S)
<1> DEFINE T == S \ {x}
           a == Part(f, T)
           b == Part(e, T)
<1>1. Sums(f, S) /\ Sums(e, S)
  BY PartSums
<1>2. Part(f, S) = f[x] + a /\ Part(e, S) = e[x] + b
  BY <1>1 DEF Sums
<1>3. T \in SUBSET S /\ IsFiniteSet(T)
  BY FS_Subset
<1>4. a \in Nat /\ b \in Nat
  BY <1>1, <1>3 DEF Sums
<1>5. a <= b
  <2>1. /\ \A r \in T : f[r] \in Nat
        /\ \A r \in T : e[r] \in Nat
        /\ \A r \in T : f[r] <= e[r]
    OBVIOUS
  <2> HIDE DEF T
  <2>q. QED
    BY <1>3, <2>1, PartAtMost
<1>6. f[x] \in Nat /\ e[x] \in Nat
  OBVIOUS
<1> HIDE DEF a, b
<1>q. QED
  BY <1>2, <1>4, <1>5, <1>6

LEMMA PartOfSubset ==
    ASSUME NEW S, IsFiniteSet(S), NEW T \in SUBSET S, NEW f, \A r \in S : f[r] \in Nat
    PROVE  Part(f, T) <= Part(f, S)
<1> DEFINE F == {t \in SUBSET S : Part(f, t \cap T) <= Part(f, t)}
<1>1. Sums(f, S)
  BY PartSums
<1>2. {} \in F
  <2>1. {} \cap T = {} /\ Part(f, {}) = 0
    BY <1>1 DEF Sums
  <2>q. QED
    BY <2>1
<1>3. ASSUME NEW t \in SUBSET S, NEW x \in t, t \ {x} \in F
      PROVE  t \in F
  <2> DEFINE u == t \ {x}
             a == Part(f, u \cap T)
             b == Part(f, u)
  <2>1. a \in Nat /\ b \in Nat /\ a <= b
    BY <1>1, <1>3 DEF Sums
  <2>2. Part(f, t) = f[x] + b
    BY <1>1 DEF Sums
  <2>3. f[x] \in Nat
    OBVIOUS
  <2>4. CASE x \in T
    <3>1. (t \cap T) \ {x} = u \cap T /\ x \in t \cap T /\ t \cap T \in SUBSET S
      BY <2>4
    <3>2. Part(f, t \cap T) = f[x] + Part(f, (t \cap T) \ {x})
      BY <1>1, <3>1 DEF Sums
    <3>3. Part(f, t \cap T) = f[x] + a
      BY <3>1, <3>2
    <3> HIDE DEF a, b
    <3>4. f[x] + a <= f[x] + b
      BY <2>1, <2>3
    <3>q. QED
      BY <2>2, <3>3, <3>4
  <2>5. CASE x \notin T
    <3>1. t \cap T = u \cap T
      BY <2>5
    <3>2. Part(f, t \cap T) = a
      BY <3>1
    <3> HIDE DEF a, b
    <3>3. a <= f[x] + b
      BY <2>1, <2>3
    <3>q. QED
      BY <2>2, <3>2, <3>3
  <2>q. QED
    BY <2>4, <2>5
<1>4. S \in F
  <2> HIDE DEF F
  <2>q. QED
    BY <1>2, <1>3, MemberByMember
<1>5. S \cap T = T
  OBVIOUS
<1>q. QED
  BY <1>4, <1>5

\* Each member of W gets c more.
Raised(f, e, S, W, c) ==
    \A r \in S : /\ r \in W => e[r] = f[r] + c
                 /\ r \notin W => e[r] = f[r]

LEMMA PartRaised ==
    ASSUME NEW S, IsFiniteSet(S), NEW W \in SUBSET S, NEW c \in Nat, NEW f, NEW e,
           \A r \in S : f[r] \in Nat, Raised(f, e, S, W, c)
    PROVE  Part(e, S) = Part(f, S) + c * Cardinality(W)
<1> DEFINE N(t) == Cardinality(t \cap W)
           F == {t \in SUBSET S : Part(e, t) = Part(f, t) + c * N(t)}
<1>0. \A r \in S : e[r] \in Nat /\ e[r] = IF r \in W THEN f[r] + c ELSE f[r]
  BY DEF Raised
<1>1. Sums(f, S) /\ Sums(e, S)
  <2>1. \A r \in S : e[r] \in Nat
    BY <1>0
  <2>q. QED
    BY <2>1, PartSums
<1>2. {} \in F
  <2>1. {} \cap W = {} /\ Cardinality({}) = 0 /\ c * 0 = 0
    BY FS_EmptySet
  <2>2. Part(f, {}) = 0 /\ Part(e, {}) = 0
    BY <1>1 DEF Sums
  <2>3. N({}) = 0
    BY <2>1
  <2> HIDE DEF N
  <2>q. QED
    BY <2>1, <2>2, <2>3
<1>3. ASSUME NEW t \in SUBSET S, NEW x \in t, t \ {x} \in F
      PROVE  t \in F
  <2> DEFINE u == t \ {x}
             a == Part(f, u)
             n == N(u)
  <2>0. IsFiniteSet(t \cap W) /\ IsFiniteSet(u \cap W)
    BY FS_Subset
  <2>1. a \in Nat /\ n \in Nat /\ Part(e, u) = a + c * n
    <3>1. n \in Nat
      BY <2>0, FS_CardinalityType
    <3>2. a \in Nat
      BY <1>1 DEF Sums
    <3>q. QED
      BY <1>3, <3>1, <3>2
  <2>2. Part(f, t) = f[x] + a /\ Part(e, t) = e[x] + Part(e, u)
    BY <1>1 DEF Sums
  <2>3. f[x] \in Nat /\ e[x] = IF x \in W THEN f[x] + c ELSE f[x]
    BY <1>0
  <2>4. N(t) = IF x \in W THEN n + 1 ELSE n
    <3>1. CASE x \in W
      <4>1. u \cap W = (t \cap W) \ {x} /\ x \in t \cap W
        BY <3>1
      <4>2. Cardinality((t \cap W) \ {x}) = Cardinality(t \cap W) - 1
        BY <2>0, <4>1, FS_RemoveElement
      <4>3. Cardinality(t \cap W) \in Nat
        BY <2>0, FS_CardinalityType
      <4>q. QED
        BY <3>1, <4>1, <4>2, <4>3
    <3>2. CASE x \notin W
      <4>1. u \cap W = t \cap W
        BY <3>2
      <4>q. QED
        BY <3>2, <4>1
    <3>q. QED
      BY <3>1, <3>2
  <2> HIDE DEF a, n, N, u
  <2>5. c * (n + 1) = c * n + c /\ c * n \in Nat
    BY <2>1
  <2> DEFINE m == c * n
  <2>6. m \in Nat /\ c * (n + 1) = m + c /\ Part(e, u) = a + m
    BY <2>1, <2>5
  <2>7. CASE x \in W
    <3>1. c * N(t) = m + c
      BY <2>4, <2>6, <2>7
    <3> HIDE DEF m
    <3>2. Part(e, t) = (f[x] + a) + (m + c)
      BY <2>1, <2>2, <2>3, <2>6, <2>7
    <3>q. QED
      BY <2>2, <3>1, <3>2
  <2>8. CASE x \notin W
    <3>1. c * N(t) = m
      BY <2>4, <2>8
    <3> HIDE DEF m
    <3>2. Part(e, t) = (f[x] + a) + m
      BY <2>1, <2>2, <2>3, <2>6, <2>8
    <3>q. QED
      BY <2>2, <3>1, <3>2
  <2>q. QED
    BY <2>7, <2>8
<1>4. S \in F
  <2> HIDE DEF F
  <2>q. QED
    BY <1>2, <1>3, MemberByMember
<1>5. S \cap W = W
  OBVIOUS
<1>q. QED
  BY <1>4, <1>5

LEMMA PartOfOneMore ==
    ASSUME NEW S, IsFiniteSet(S), NEW x, x \notin S, NEW f, \A r \in S \cup {x} : f[r] \in Nat
    PROVE  Part(f, S \cup {x}) = f[x] + Part(f, S)
<1> DEFINE T == S \cup {x}
<1>1. IsFiniteSet(T) /\ x \in T /\ T \ {x} = S
  BY FS_AddElement
<1>2. \A r \in T : f[r] \in Nat
  OBVIOUS
<1> HIDE DEF T
<1>3. Sums(f, T)
  BY <1>1, <1>2, PartSums
<1>4. Part(f, T) = f[x] + Part(f, T \ {x})
  BY <1>1, <1>3 DEF Sums
<1>q. QED
  BY <1>1, <1>4 DEF T

-----------------------------------------------------------------------------
(* Blocks and reservations.                                                *)

LEMMA DivBetween ==
    ASSUME NEW d \in Nat, d >= 1, NEW x \in Nat
    PROVE  /\ x \div d \in Nat
           /\ (x \div d) * d <= x
           /\ x < (x \div d) * d + d
  OBVIOUS

LEMMA TimesMonotone ==
    ASSUME NEW d \in Nat, NEW p \in Nat, NEW q \in Nat, p <= q
    PROVE  p * d <= q * d
<1> DEFINE e == q - p
<1>1. e \in Nat /\ q = p + e
  OBVIOUS
<1> HIDE DEF e
<1>2. (p + e) * d = p * d + e * d /\ e * d \in Nat /\ p * d \in Nat
  BY <1>1
<1>q. QED
  BY <1>1, <1>2

\* Division rounds a greater number to a greater one.
LEMMA DivMonotone ==
    ASSUME NEW d \in Nat, d >= 1, NEW x \in Nat, NEW y \in Nat, x <= y
    PROVE  x \div d <= y \div d
<1> DEFINE p == x \div d
           q == y \div d
<1>1. p \in Nat /\ q \in Nat /\ p * d <= x /\ y < q * d + d
  BY DivBetween
<1> HIDE DEF p, q
<1>2. CASE q + 1 <= p
  <2>1. (q + 1) * d <= p * d
    BY <1>1, <1>2, TimesMonotone
  <2>2. (q + 1) * d = q * d + d /\ q * d \in Nat /\ p * d \in Nat
    BY <1>1
  <2> DEFINE m == q * d
             n == p * d
             k == (q + 1) * d
  <2>3. m \in Nat /\ n \in Nat /\ k = m + d /\ k <= n /\ n <= x /\ y < m + d
    BY <1>1, <2>1, <2>2
  <2> HIDE DEF m, n, k
  <2>q. QED
    BY <2>3
<1>3. CASE p <= q
  BY <1>3 DEF p, q
<1>q. QED
  BY <1>1, <1>2, <1>3

LEMMA BlocksMonotone ==
    ASSUME NEW m \in Nat, NEW n \in Nat, m <= n
    PROVE  BlocksFor(m) <= BlocksFor(n)
<1>1. BlockSize \in Nat /\ BlockSize >= 1
  BY EngineAssumption
<1> DEFINE x == m + BlockSize - 1
           y == n + BlockSize - 1
<1>2. x \in Nat /\ y \in Nat /\ x <= y
  BY <1>1
<1> HIDE DEF x, y
<1>3. x \div BlockSize <= y \div BlockSize
  BY <1>1, <1>2, DivMonotone
<1>q. QED
  BY <1>3 DEF BlocksFor, x, y

\* A full last block: the next token takes another block.
LEMMA BlocksAtEnd ==
    ASSUME NEW m \in Nat, NEW n \in Nat, m < n, m % BlockSize = 0
    PROVE  BlocksFor(m) < BlocksFor(n)
<1> DEFINE d == BlockSize
           q == m \div d
           x == m + d - 1
           y == m + d
<1>1. d \in Nat /\ d >= 1
  BY EngineAssumption
<1>2. q \in Nat /\ m = q * d + (m % d)
  BY <1>1
<1>3. m = q * d
  <2> DEFINE s == q * d
             w == m % d
  <2>1. w = 0 /\ s \in Nat /\ m = s + w
    BY <1>1, <1>2
  <2> HIDE DEF s, w
  <2>2. m = s
    BY <2>1
  <2>q. QED
    BY <2>2 DEF s
<1>4. x \in Nat /\ y \in Nat /\ y <= n + d - 1 /\ n + d - 1 \in Nat
  BY <1>1
<1> DEFINE p == x \div d
           r == y \div d
           z == (n + d - 1) \div d
<1>5. p \in Nat /\ p * d <= x
  <2> HIDE DEF x, d
  <2>q. QED
    BY <1>1, <1>4, DivBetween
<1>6. r \in Nat /\ y < r * d + d
  <2> HIDE DEF y, d
  <2>q. QED
    BY <1>1, <1>4, DivBetween
<1>7. r <= z /\ z \in Int
  <2> DEFINE w == n + d - 1
  <2>1. w \in Nat /\ y <= w
    BY <1>4
  <2> HIDE DEF w, y, d
  <2>2. y \div d <= w \div d /\ w \div d \in Nat
    BY <1>1, <1>4, <2>1, DivMonotone, DivBetween
  <2>q. QED
    BY <2>2 DEF w
<1>8. x = q * d + (d - 1) /\ y = q * d + d
  BY <1>3
<1>9. BlocksFor(m) = p /\ BlocksFor(n) = z
  BY DEF BlocksFor
<1> HIDE DEF p, r, z, d, q, x, y
<1>10. p <= q
  <2> SUFFICES ASSUME q + 1 <= p PROVE FALSE
    BY <1>2, <1>5
  <2>1. (q + 1) * d <= p * d
    BY <1>1, <1>2, <1>5, TimesMonotone
  <2>2. (q + 1) * d = q * d + d /\ q * d \in Nat /\ p * d \in Nat
    BY <1>1, <1>2, <1>5
  <2> DEFINE s == q * d
             t == p * d
             k == (q + 1) * d
  <2>3. s \in Nat /\ t \in Nat /\ k = s + d /\ k <= t /\ t <= x /\ x = s + (d - 1)
    BY <1>5, <1>8, <2>1, <2>2
  <2> HIDE DEF s, t, k
  <2>q. QED
    BY <1>1, <2>3
<1>11. q + 1 <= r
  <2> SUFFICES ASSUME r <= q PROVE FALSE
    BY <1>2, <1>6
  <2>1. r * d <= q * d
    BY <1>1, <1>2, <1>6, TimesMonotone
  <2>2. r * d \in Nat /\ q * d \in Nat
    BY <1>1, <1>2, <1>6
  <2> DEFINE s == q * d
             t == r * d
  <2>3. s \in Nat /\ t \in Nat /\ t <= s /\ y < t + d /\ y = s + d
    BY <1>6, <1>8, <2>1, <2>2
  <2> HIDE DEF s, t
  <2>q. QED
    BY <1>1, <2>3
<1>q. QED
  BY <1>2, <1>5, <1>6, <1>7, <1>9, <1>10, <1>11

\* The blocks reserved for the requests of S.
ReservedFor(S) == Total([r \in S |-> Reserved(r)])

\* The requests an instance holds fit into its cache to the last token.
Reserving(i) == ReservedFor(Active(i)) <= KvBlocks

\* No request has more in the cache than its prompt and its whole response.
Within(i) == \A r \in Active(i) : i.req[r].prefilled <= PromptLen(r) + TargetLen(r)

LEMMA KvTyped == KvBlocks \in Nat
  BY EngineAssumption

LEMMA ReservedTyped ==
    ASSUME NEW r \in Nat
    PROVE  Reserved(r) \in Nat /\ PromptLen(r) + TargetLen(r) \in Nat
<1> DEFINE n == PromptLen(r) + TargetLen(r)
<1>1. n \in Nat
  BY LengthsTyped
<1> HIDE DEF n
<1>2. BlocksFor(n) \in Nat
  BY <1>1, BlocksTyped
<1>q. QED
  BY <1>1, <1>2 DEF Reserved, n

\* Blocks that stay below the reservations fit.
LEMMA AtMostReserved ==
    ASSUME NEW S \in SUBSET Nat, IsFiniteSet(S), ReservedFor(S) <= KvBlocks, NEW f,
           \A r \in S : f[r] \in Nat, \A r \in S : f[r] <= Reserved(r)
    PROVE  /\ Part(f, S) \in Nat /\ Part(f, S) <= KvBlocks
           /\ \A x \in S : f[x] < Reserved(x) => Part(f, S) < KvBlocks
<1> DEFINE e == [r \in S |-> Reserved(r)]
<1>1. \A r \in S : e[r] \in Nat /\ e[r] = Reserved(r)
  BY ReservedTyped
<1>2. Part(e, S) = ReservedFor(S)
  BY DEF Part, ReservedFor
<1> HIDE DEF e
<1>3. /\ \A r \in S : e[r] \in Nat
      /\ \A r \in S : f[r] <= e[r]
  BY <1>1
<1>4. Sums(f, S) /\ Sums(e, S)
  BY <1>3, PartSums
<1>5. Part(f, S) \in Nat /\ Part(e, S) \in Nat
  BY <1>4 DEF Sums
<1>6. Part(f, S) <= Part(e, S)
  BY <1>3, PartAtMost
<1>7. ASSUME NEW x \in S, f[x] < Reserved(x) PROVE Part(f, S) < KvBlocks
  <2>1. f[x] < e[x]
    BY <1>1, <1>7
  <2>2. Part(f, S) < Part(e, S)
    BY <1>3, <2>1, PartLess
  <2>q. QED
    BY <1>2, <1>5, <2>2, KvTyped
<1>8. Part(f, S) <= KvBlocks
  BY <1>2, <1>5, <1>6, KvTyped
<1>q. QED
  BY <1>5, <1>7, <1>8

LEMMA ReservingKept ==
    ASSUME NEW i, NEW j, Well(i), Reserving(i), Active(j) \subseteq Active(i)
    PROVE  Reserving(j)
<1> DEFINE S == Active(i)
           T == Active(j)
           e == [r \in S |-> Reserved(r)]
<1>1. IsFiniteSet(S) /\ S \in SUBSET Nat /\ T \in SUBSET S
  <2>1. DOMAIN i.req \in SUBSET Nat /\ Active(i) \in SUBSET DOMAIN i.req
    BY ReqTyped, WellFields
  <2>q. QED
    BY <2>1, ActiveFinite
<1> HIDE DEF S, T
<1>2. \A r \in S : e[r] \in Nat /\ e[r] = Reserved(r)
  BY <1>1, ReservedTyped
<1>3. Part(e, S) = ReservedFor(S) /\ Part(e, T) = ReservedFor(T)
  <2>1. [r \in T |-> e[r]] = [r \in T |-> Reserved(r)]
    BY <1>1, <1>2
  <2>q. QED
    BY <2>1 DEF Part, ReservedFor
<1> HIDE DEF e
<1>4. Part(e, T) <= Part(e, S)
  <2>1. \A r \in S : e[r] \in Nat
    BY <1>2
  <2>q. QED
    BY <1>1, <2>1, PartOfSubset
<1>5. Part(e, S) \in Nat /\ Part(e, T) \in Nat
  <2>1. \A r \in S : e[r] \in Nat
    BY <1>2
  <2>2. Sums(e, S)
    BY <1>1, <2>1, PartSums
  <2>q. QED
    BY <1>1, <2>2 DEF Sums
<1>6. ReservedFor(S) <= KvBlocks
  BY DEF Reserving, S
<1>7. ReservedFor(T) <= KvBlocks
  BY <1>3, <1>4, <1>5, <1>6, KvTyped
<1>q. QED
  BY <1>7 DEF Reserving, T

LEMMA ActiveTyped ==
    ASSUME NEW i, Well(i)
    PROVE  /\ IsFiniteSet(Active(i)) /\ Active(i) \in SUBSET Nat
           /\ \A r \in Active(i) : r \in DOMAIN i.req /\ i.req[r].prefilled \in Nat
                                   /\ i.req[r].generated \in Nat
<1>1. DOMAIN i.req \in SUBSET Nat /\ Active(i) \in SUBSET DOMAIN i.req
  BY ReqTyped, WellFields
<1>2. \A r \in DOMAIN i.req : i.req[r].prefilled \in Nat /\ i.req[r].generated \in Nat
  BY ReqTyped
<1>q. QED
  BY <1>1, <1>2, ActiveFinite

(* An instance that reserves and stays within what it reserved uses no     *)
(* more blocks than it has, and has one left for a request that is not     *)
(* complete and at the end of its last block.                              *)
LEMMA BlocksFit ==
    ASSUME NEW i, Well(i), Reserving(i), Within(i)
    PROVE  /\ BlocksUsed(i) <= KvBlocks
           /\ \A r \in Active(i) :
                 AtBlockEnd(i, r) /\ i.req[r].prefilled < PromptLen(r) + TargetLen(r)
                   => FreeBlocks(i) > 0
<1> DEFINE S == Active(i)
           f == [r \in S |-> BlocksFor(i.req[r].prefilled)]
<1>1. IsFiniteSet(S) /\ S \in SUBSET Nat /\ ReservedFor(S) <= KvBlocks
  BY ActiveTyped DEF Reserving
<1>2. \A r \in S : i.req[r].prefilled \in Nat
  BY ActiveTyped
<1>3. ASSUME NEW r \in S
      PROVE  /\ f[r] = BlocksFor(i.req[r].prefilled) /\ f[r] \in Nat /\ f[r] <= Reserved(r)
             /\ AtBlockEnd(i, r) /\ i.req[r].prefilled < PromptLen(r) + TargetLen(r)
                  => f[r] < Reserved(r)
  <2> DEFINE m == i.req[r].prefilled
             n == PromptLen(r) + TargetLen(r)
  <2>1. m \in Nat /\ n \in Nat /\ m <= n
    BY <1>1, <1>2, ReservedTyped DEF Within
  <2>2. f[r] = BlocksFor(m) /\ Reserved(r) = BlocksFor(n)
    BY DEF Reserved
  <2>3. AtBlockEnd(i, r) => m % BlockSize = 0
    BY DEF AtBlockEnd
  <2> HIDE DEF m, n, f
  <2>4. BlocksFor(m) \in Nat /\ BlocksFor(m) <= BlocksFor(n)
    BY <2>1, BlocksTyped, BlocksMonotone
  <2>5. m < n /\ m % BlockSize = 0 => BlocksFor(m) < BlocksFor(n)
    BY <2>1, BlocksAtEnd
  <2>6. AtBlockEnd(i, r) /\ m < n => f[r] < Reserved(r)
    BY <2>2, <2>3, <2>5
  <2>q. QED
    BY <2>2, <2>4, <2>6 DEF m, n
<1>4. Part(f, S) = BlocksUsed(i)
  BY DEF Part, BlocksUsed
<1> HIDE DEF S, f
<1>5. /\ \A r \in S : f[r] \in Nat
      /\ \A r \in S : f[r] <= Reserved(r)
  BY <1>3
<1>6. /\ Part(f, S) \in Nat /\ Part(f, S) <= KvBlocks
      /\ \A x \in S : f[x] < Reserved(x) => Part(f, S) < KvBlocks
  BY <1>1, <1>5, AtMostReserved
<1>7. ASSUME NEW r \in S, AtBlockEnd(i, r), i.req[r].prefilled < PromptLen(r) + TargetLen(r)
      PROVE  FreeBlocks(i) > 0
  <2>1. f[r] < Reserved(r)
    BY <1>3, <1>7
  <2>2. Part(f, S) < KvBlocks
    BY <1>6, <2>1
  <2>q. QED
    BY <1>4, <1>6, <2>2, KvTyped DEF FreeBlocks
<1>q. QED
  BY <1>4, <1>6, <1>7 DEF S

\* While every running request is within what is reserved, a decode
\* segment of an instance without waiting requests does not exhaust the cache.
LEMMA SegmentFits ==
    ASSUME NEW i, Well(i), Reserving(i), i.waiting = <<>>, NEW k \in Nat,
           \A r \in ToSet(i.running) : i.req[r].prefilled + k <= PromptLen(r) + TargetLen(r)
    PROVE  BlocksAfter(i, k) \in Nat /\ BlocksAfter(i, k) <= KvBlocks
<1> DEFINE S == ToSet(i.running)
           f == [r \in S |-> BlocksFor(i.req[r].prefilled + k)]
<1>1. ToSet(i.waiting) = {} /\ Active(i) = S
  <2>1. ToSet(<<>>) = {}
    BY DEF ToSet
  <2>q. QED
    BY <2>1 DEF Active
<1>2. IsFiniteSet(S) /\ S \in SUBSET Nat /\ ReservedFor(S) <= KvBlocks
  BY <1>1, ActiveTyped DEF Reserving
<1>3. \A r \in S : i.req[r].prefilled \in Nat
  BY <1>1, ActiveTyped
<1>4. ASSUME NEW r \in S
      PROVE  f[r] \in Nat /\ f[r] <= Reserved(r)
  <2> DEFINE m == i.req[r].prefilled + k
             n == PromptLen(r) + TargetLen(r)
  <2>0. r \in Nat /\ i.req[r].prefilled \in Nat
    BY <1>2, <1>3
  <2>a. n \in Nat
    BY <2>0, ReservedTyped
  <2>b. m \in Nat /\ m <= n
    BY <2>0
  <2>1. m \in Nat /\ n \in Nat /\ m <= n
    BY <2>a, <2>b
  <2>2. f[r] = BlocksFor(m) /\ Reserved(r) = BlocksFor(n)
    BY DEF Reserved
  <2> HIDE DEF m, n, f
  <2>q. QED
    BY <2>1, <2>2, BlocksTyped, BlocksMonotone
<1>5. BlocksAfter(i, k) = Part(f, S) + Total([r \in {} |-> BlocksFor(i.req[r].prefilled)])
  BY <1>1 DEF BlocksAfter, Part
<1> HIDE DEF S, f
<1>6. /\ \A r \in S : f[r] \in Nat
      /\ \A r \in S : f[r] <= Reserved(r)
  BY <1>4
<1>7. Part(f, S) \in Nat /\ Part(f, S) <= KvBlocks
  BY <1>2, <1>6, AtMostReserved
<1>8. Total([r \in {} |-> BlocksFor(i.req[r].prefilled)]) = 0
  <2> DEFINE g == [r \in {} |-> BlocksFor(i.req[r].prefilled)]
  <2>1. IsFiniteSet({}) /\ \A r \in {} : g[r] \in Nat
    BY FS_EmptySet
  <2>2. [r \in {} |-> g[r]] = g
    OBVIOUS
  <2> HIDE DEF g
  <2>3. Sums(g, {})
    BY <2>1, PartSums
  <2>4. Part(g, {}) = 0
    BY <2>3 DEF Sums
  <2>5. Total(g) = 0
    BY <2>2, <2>4 DEF Part
  <2>q. QED
    BY <2>5 DEF g
<1>q. QED
  BY <1>5, <1>7, <1>8, KvTyped

-----------------------------------------------------------------------------
(* The two ways to advance an instance.                                    *)

\* Without time nothing happens.
LEMMA NoTime ==
    ASSUME NEW i, NEW v \in Nat, Well(i)
    PROVE  AdvanceTo(i, 0, v) = AdvanceStart(i, 0)
<1> DEFINE z == AdvanceStart(i, 0)
           P == [k \in Int |-> {z}]
<1>1. 1..0 = {} /\ P[0] = {z}
  OBVIOUS
<1> HIDE DEF z, P
<1>2. AdvanceKeeps(i, v, 0, P)
  BY <1>1 DEF AdvanceKeeps, z
<1>3. AdvanceTo(i, 0, v) \in P[IF 0 > 0 THEN 0 ELSE 0]
  BY <1>2, AdvancedBy
<1>q. QED
  BY <1>1, <1>3 DEF z

\* The loop does no more than its first round when that ends it.
LEMMA OneRound ==
    ASSUME NEW i, NEW v \in Nat, NEW time \in Nat, time > 0, Well(i),
           LET b == AdvanceRound(AdvanceStart(i, time), v) IN ~b.open \/ b.left <= 0
    PROVE  AdvanceTo(i, time, v) = AdvanceRound(AdvanceStart(i, time), v)
<1> DEFINE z == AdvanceStart(i, time)
           b == AdvanceRound(z, v)
           P == [k \in Int |-> IF k = 0 THEN {z} ELSE {b}]
<1>1. ~b.open \/ b.left <= 0
  OBVIOUS
<1>2. AdvanceRound(b, v) = b
  <2> HIDE DEF b
  <2>q. QED
    BY <1>1 DEF AdvanceRound
<1>3. P[0] = {z} /\ P[time] = {b} /\ \A k \in 1..time : P[k] = {b} /\ P[k - 1] \subseteq {z, b}
  OBVIOUS
<1>4. AdvanceRound(z, v) = b
  OBVIOUS
<1> HIDE DEF z, b, P
<1>5. AdvanceKeeps(i, v, time, P)
  BY <1>2, <1>3, <1>4 DEF AdvanceKeeps, z
<1>6. AdvanceTo(i, time, v) \in P[IF time > 0 THEN time ELSE 0]
  BY <1>5, AdvancedBy
<1>q. QED
  BY <1>3, <1>6 DEF b, z

\* The first round of an instance in which nothing is ready.
LEMMA FirstRound ==
    ASSUME NEW i, NEW v \in Nat, NEW time \in Nat, time > 0, Well(i), Fits(i)
    PROVE  AdvanceRound(AdvanceStart(i, time), v) = ReadyRound(AdvanceStart(i, time), v)
<1> DEFINE z == AdvanceStart(i, time)
<1>1. z \in AdvanceState /\ z.open /\ z.left = time /\ z.inst = i
  <2>0. i \in Record
    BY WellFields
  <2>1. i \in Record /\ time \in Int
    BY <2>0
  <2>2. z = [inst |-> i, left |-> time, done |-> <<>>, open |-> TRUE]
    BY DEF AdvanceStart
  <2> HIDE DEF z
  <2>3. <<>> \in Seq(Nat) /\ TRUE \in BOOLEAN
    OBVIOUS
  <2>q. QED
    BY <2>1, <2>2, <2>3 DEF AdvanceState
<1>2. PromoteReady(i) = i
  BY NothingReady
<1> HIDE DEF z
<1>3. [z EXCEPT !.inst = PromoteReady(@)] = z
  <2>1. [z EXCEPT !.inst = PromoteReady(@)] = [z EXCEPT !.inst = i]
    BY <1>1, <1>2
  <2>2. [z EXCEPT !.inst = i] = z
    BY <1>1 DEF AdvanceState
  <2>q. QED
    BY <2>1, <2>2
<1>4. ~(~z.open \/ z.left <= 0)
  BY <1>1
<1>5. AdvanceRound(z, v) = ReadyRound(z, v)
  BY <1>3, <1>4 DEF AdvanceRound
<1>q. QED
  BY <1>5 DEF z

\* Two rounds or events with the same outcome.
SameOutcome(a, e) == a.inst = e.inst /\ a.done = e.done

\* A step with prefills takes its time, and does then what the event does.
LEMMA PrefillAgrees ==
    ASSUME NEW i, NEW v \in Nat, NEW time \in Nat, time > 0, time <= PrefillTime
    PROVE  LET a == PrefillRound(AdvanceStart(i, time), v)
           IN /\ ~a.open \/ a.left <= 0
              /\ time < PrefillTime => a.done = <<>>
              /\ time = PrefillTime => SameOutcome(a, PrefillEvent(i, v))
<1> DEFINE z == AdvanceStart(i, time)
           a == PrefillRound(z, v)
           s == BudgetStep(i, v)
           p == PreemptForProgress(s.inst)
           next == [z EXCEPT !.inst = s.inst, !.left = @ - PrefillTime]
           e == PrefillEvent(i, v)
<1>0. PrefillTime \in Nat
  BY EngineAssumption
<1>1. /\ z = [inst |-> i, left |-> time, done |-> <<>>, open |-> TRUE]
      /\ z.inst = i /\ z.left = time
      /\ TooLate(z) <=> time < PrefillTime
  BY <1>0 DEF AdvanceStart, TooLate
<1>2. /\ next.inst = s.inst /\ next.left = time - PrefillTime /\ next.done = <<>>
      /\ \A j : [next EXCEPT !.inst = j].inst = j /\ [next EXCEPT !.inst = j].done = <<>>
               /\ [next EXCEPT !.inst = j].left = time - PrefillTime
      /\ \A j, d : LET b == [next EXCEPT !.inst = j, !.done = d, !.open = FALSE]
                  IN b.inst = j /\ b.done = d /\ b.open = FALSE
  <2> HIDE DEF s, z
  <2>q. QED
    BY <1>1
<1>3. a = IF TooLate(z) THEN AtLimit(z, i)
          ELSE IF s.done # <<>>
            THEN [next EXCEPT !.inst = Retire(@, s.done), !.done = s.done, !.open = FALSE]
          ELSE IF ~Deadlocked(s.inst) THEN next
          ELSE IF p = s.inst THEN AtLimit(z, s.inst)
          ELSE [next EXCEPT !.inst = p]
  BY <1>1 DEF PrefillRound
<1>4. /\ s.done # <<>> => e.inst = Retire(s.inst, s.done) /\ e.done = s.done
      /\ s.done = <<>> /\ Deadlocked(s.inst) => e.inst = p /\ e.done = <<>>
      /\ s.done = <<>> /\ ~Deadlocked(s.inst) => e.inst = s.inst /\ e.done = <<>>
  BY DEF PrefillEvent
<1> HIDE DEF z, a, s, p, next, e
<1>5. \A j : LET b == AtLimit(z, j)
             IN b.inst = j /\ b.left = 0 /\ b.done = <<>> /\ b.open = FALSE
  BY <1>1 DEF AtLimit
<1>6. CASE time < PrefillTime
  <2>2. ~a.open /\ a.done = <<>>
    BY <1>1, <1>3, <1>5, <1>6
  <2>q. QED
    BY <1>0, <1>6, <2>2 DEF a, z
<1>7. CASE time = PrefillTime
  <2>0. ~TooLate(z) /\ time - PrefillTime = 0
    BY <1>0, <1>1, <1>7
  <2>1. CASE s.done # <<>>
    <3>1. a = [next EXCEPT !.inst = Retire(s.inst, s.done), !.done = s.done, !.open = FALSE]
      BY <1>2, <1>3, <2>0, <2>1
    <3>2. a.inst = Retire(s.inst, s.done) /\ a.done = s.done /\ a.open = FALSE
      BY <1>2, <3>1
    <3>3. ~a.open /\ SameOutcome(a, e)
      BY <1>4, <2>1, <3>2 DEF SameOutcome
    <3>q. QED
      BY <1>0, <1>7, <3>3 DEF a, z, e
  <2>2. CASE s.done = <<>> /\ ~Deadlocked(s.inst)
    <3>1. a.inst = s.inst /\ a.left = 0 /\ a.done = <<>>
      BY <1>2, <1>3, <2>0, <2>2
    <3>2. a.left <= 0 /\ SameOutcome(a, e)
      BY <1>4, <2>2, <3>1 DEF SameOutcome
    <3>q. QED
      BY <1>0, <1>7, <3>2 DEF a, z, e
  <2>3. CASE s.done = <<>> /\ Deadlocked(s.inst)
    <3>1. a.left <= 0 /\ a.inst = p /\ a.done = <<>>
      <4>1. CASE p = s.inst
        <5>1. a = AtLimit(z, s.inst)
          BY <1>3, <2>0, <2>3, <4>1
        <5>q. QED
          BY <1>5, <4>1, <5>1
      <4>2. CASE p # s.inst
        <5>1. a = [next EXCEPT !.inst = p]
          BY <1>3, <2>0, <2>3, <4>2
        <5>q. QED
          BY <1>2, <2>0, <5>1
      <4>q. QED
        BY <4>1, <4>2
    <3>2. SameOutcome(a, e)
      BY <1>4, <2>3, <3>1 DEF SameOutcome
    <3>q. QED
      BY <1>0, <1>7, <3>1, <3>2 DEF a, z, e
  <2>q. QED
    BY <2>1, <2>2, <2>3
<1>q. QED
  BY <1>0, <1>6, <1>7

\* A jump over k steps takes the blocks its steps would take one by one.
LEMMA SegmentBlocks ==
    ASSUME NEW i, NEW v \in Nat, NEW k \in Nat, k > 0, Well(i), i.waiting = <<>>
    PROVE  BlocksUsed(DecodeSegment(i, v, k)) = BlocksAfter(i, k)
<1> DEFINE R == ToSet(i.running)
           g == Generate(i, R, v, k)
           m == k * Len(i.running)
           j == DecodeSegment(i, v, k)
           empty == [r \in {} |-> BlocksFor(i.req[r].prefilled)]
<1>1. /\ ToSet(i.waiting) = {} /\ R \subseteq Active(i) /\ R \subseteq DOMAIN i.req
      /\ i.running \in Seq(Nat) /\ IsFiniteSet(R)
  <2>1. ToSet(<<>>) = {}
    BY DEF ToSet
  <2>2. i.running \in Seq(Nat) /\ R \subseteq Active(i) /\ R \subseteq DOMAIN i.req
    BY WellFields
  <2>3. IsFiniteSet(R)
    BY <2>2, ListFacts
  <2>q. QED
    BY <2>1, <2>2, <2>3
<1>2. Follows(i, g, <<>>, v) /\ SameLists(i, g) /\ TokensBy(i, g, R, k)
  BY <1>1, GenerateFollows
<1>3. j = Logged(g, m) /\ m \in Nat
  <2>1. Len(i.running) \in Nat
    BY <1>1
  <2>q. QED
    BY <2>1 DEF DecodeSegment
<1> HIDE DEF g, m, j
<1>4. /\ j.waiting = i.waiting /\ j.running = i.running
      /\ \A r \in R : j.req[r].prefilled = i.req[r].prefilled + k
  <2>1. j.waiting = g.waiting /\ j.running = g.running /\ j.req = g.req
    BY <1>2, <1>3, LoggedFollows DEF Follows
  <2>q. QED
    BY <1>1, <1>2, <2>1 DEF SameLists, TokensBy
<1>5. Active(j) = R
  BY <1>1, <1>4 DEF Active
<1> HIDE DEF R
<1>6. BlocksUsed(j) = Total([r \in R |-> BlocksFor(i.req[r].prefilled + k)])
  <2>1. [r \in R |-> BlocksFor(j.req[r].prefilled)] = [r \in R |-> BlocksFor(i.req[r].prefilled + k)]
    BY <1>4
  <2>q. QED
    BY <1>5, <2>1 DEF BlocksUsed
<1>7. Total(empty) = 0
  <2>1. IsFiniteSet({}) /\ \A r \in {} : empty[r] \in Nat
    BY FS_EmptySet
  <2>2. [r \in {} |-> empty[r]] = empty
    OBVIOUS
  <2> HIDE DEF empty
  <2>3. Part(empty, {}) = 0
    BY <2>1, PartSums DEF Sums
  <2>q. QED
    BY <2>2, <2>3 DEF Part
<1>8. BlocksAfter(i, k) = Total([r \in R |-> BlocksFor(i.req[r].prefilled + k)]) + Total(empty)
  BY <1>1 DEF BlocksAfter, R
<1>9. Total([r \in R |-> BlocksFor(i.req[r].prefilled + k)]) \in Nat
  <2> DEFINE f == [r \in R |-> BlocksFor(i.req[r].prefilled + k)]
  <2>1. \A r \in R : f[r] \in Nat
    <3>1. \A r \in R : i.req[r].prefilled \in Nat
      BY <1>1, ReqTyped DEF R
    <3>2. \A r \in R : i.req[r].prefilled + k \in Nat
      BY <3>1
    <3>q. QED
      BY <3>2, BlocksTyped
  <2>2. [r \in R |-> f[r]] = f /\ DOMAIN f = R
    OBVIOUS
  <2> HIDE DEF f
  <2>3. Part(f, R) \in Nat
    BY <1>1, <2>1, PartSums DEF Sums, R
  <2>4. Total(f) \in Nat
    BY <2>2, <2>3 DEF Part
  <2>q. QED
    BY <2>4 DEF f
<1>q. QED
  BY <1>6, <1>7, <1>8, <1>9 DEF j

\* Time for all steps of a segment, or for fewer.
LEMMA StepsInTime ==
    ASSUME NEW full \in Nat, NEW time \in Nat, time <= full * DecodeTime
    PROVE  LET k == Min({full, time \div DecodeTime})
           IN /\ k \in Nat
              /\ time < full * DecodeTime => k < full
              /\ time = full * DecodeTime => k = full
<1> DEFINE q == time \div DecodeTime
           k == Min({full, q})
<1>1. DecodeTime \in Nat /\ DecodeTime >= 1
  BY EngineAssumption
<1>2. q \in Nat /\ q * DecodeTime <= time /\ time < (q + 1) * DecodeTime
  <2> DEFINE d == DecodeTime
  <2>1. d \in Nat /\ d >= 1
    BY <1>1
  <2> HIDE DEF d
  <2>2. time \div d \in Nat /\ (time \div d) * d <= time /\ time < (time \div d + 1) * d
    BY <2>1
  <2>q. QED
    BY <2>2 DEF d
<1> HIDE DEF q
<1>3. k \in {full, q} /\ k <= full /\ k <= q
  <2>1. full \in Int /\ q \in Int
    BY <1>2
  <2>q. QED
    BY <2>1, MinOfTwo
<1>4. k \in Nat
  BY <1>2, <1>3
<1> HIDE DEF k
<1>5. ASSUME time < full * DecodeTime PROVE k < full
  <2>1. q < full
    <3> SUFFICES ASSUME full <= q PROVE FALSE
      BY <1>2
    <3>1. full * DecodeTime <= q * DecodeTime
      BY <1>1, <1>2, TimesMonotone
    <3>2. full * DecodeTime \in Nat /\ q * DecodeTime \in Nat
      BY <1>1, <1>2
    <3>q. QED
      BY <1>2, <1>5, <3>1, <3>2
  <2>q. QED
    BY <1>2, <1>3, <1>4, <2>1
<1>6. ASSUME time = full * DecodeTime PROVE k = full
  <2>1. q >= full
    <3> SUFFICES ASSUME q + 1 <= full PROVE FALSE
      BY <1>2
    <3>1. (q + 1) * DecodeTime <= full * DecodeTime
      BY <1>1, <1>2, TimesMonotone
    <3>2. (q + 1) * DecodeTime \in Nat /\ full * DecodeTime \in Nat
      BY <1>1, <1>2
    <3>q. QED
      BY <1>2, <1>6, <3>1, <3>2
  <2>q. QED
    BY <1>2, <1>3, <1>4, <2>1
<1>q. QED
  BY <1>4, <1>5, <1>6 DEF k, q

\* A decode segment that is cut short completes nothing, and a whole one does
\* what the event does: the cache is exceeded after it if and only if the
\* steps to exhaustion end it.
LEMMA DecodeAgrees ==
    ASSUME NEW i, NEW v \in Nat, NEW time \in Nat, time > 0, Well(i),
           i.waiting = <<>>, i.running # <<>>, time <= SegmentSteps(i) * DecodeTime
    PROVE  LET a == DecodeRound(AdvanceStart(i, time), v)
           IN /\ ~a.open
              /\ time < SegmentSteps(i) * DecodeTime => a.done = <<>>
              /\ time = SegmentSteps(i) * DecodeTime => SameOutcome(a, DecodeEvent(i, v))
<1> DEFINE z == AdvanceStart(i, time)
           a == DecodeRound(z, v)
           full == SegmentSteps(i)
           k == Min({full, time \div DecodeTime})
           next == DecodeSegment(i, v, k)
           done == Ended(next)
           after == [z EXCEPT !.inst = next, !.left = @ - k * DecodeTime, !.open = FALSE]
           over == BlocksUsed(next) > KvBlocks
           e == DecodeEvent(i, v)
<1>1. full \in Nat /\ \A x \in KvExhaustion(i) : full <= x /\ x \in Nat
  BY SegmentTyped, KvExhaustionTyped
<1>2. /\ k \in Nat
      /\ time < full * DecodeTime => k < full
      /\ time = full * DecodeTime => k = full
  <2> HIDE DEF full
  <2>q. QED
    BY <1>1, StepsInTime DEF full
<1>3. z = [inst |-> i, left |-> time, done |-> <<>>, open |-> TRUE]
  BY DEF AdvanceStart
<1>4. a = IF over THEN [after EXCEPT !.inst = PreemptLast(@)]
          ELSE IF k < full \/ done = <<>> THEN AtLimit(z, next)
          ELSE [after EXCEPT !.inst = Retire(@, done), !.done = done]
  <2>1. z.inst = i /\ z.left = time
    BY <1>3
  <2> HIDE DEF z
  <2>q. QED
    BY <2>1 DEF DecodeRound
<1>5. /\ after.inst = next /\ after.done = <<>> /\ after.open = FALSE
      /\ \A j : LET b == [after EXCEPT !.inst = j]
               IN b.inst = j /\ b.done = <<>> /\ b.open = FALSE
      /\ \A j, d : LET b == [after EXCEPT !.inst = j, !.done = d]
                  IN b.inst = j /\ b.done = d /\ b.open = FALSE
  <2> HIDE DEF next, k, z
  <2>q. QED
    BY <1>3
<1>6. LET b == AtLimit(z, next) IN b.inst = next /\ b.done = <<>> /\ b.open = FALSE
  <2> HIDE DEF next, z
  <2>q. QED
    BY <1>3 DEF AtLimit
<1>7. ASSUME time = full * DecodeTime
      PROVE  /\ over => e.inst = PreemptLast(next) /\ e.done = <<>>
             /\ ~over => e.inst = Retire(next, done) /\ e.done = done
  <2>1. k = full /\ full > 0
    <3>1. DecodeTime \in Nat
      BY EngineAssumption
    <3>2. full # 0
      BY <1>7, <3>1
    <3> HIDE DEF full, k
    <3>q. QED
      BY <1>1, <1>2, <1>7, <3>2
  <2>2. next = DecodeSegment(i, v, full)
    BY <2>1
  <2>3. (\E x \in KvExhaustion(i) : x <= full) => over
    <3> SUFFICES ASSUME NEW x \in KvExhaustion(i), x <= full PROVE over
      OBVIOUS
    <3>1. x = full
      BY <1>1
    <3>2. BlocksAfter(i, full) > KvBlocks
      BY <3>1 DEF KvExhaustion
    <3>3. BlocksUsed(next) = BlocksAfter(i, full)
      <4> HIDE DEF full, next
      <4>q. QED
        BY <1>1, <2>1, <2>2, SegmentBlocks
    <3>q. QED
      BY <3>2, <3>3
  <2>4. /\ over => e.inst = PreemptLast(next) /\ e.done = <<>>
        /\ ~over => e.inst = Retire(next, done) /\ e.done = done
    <3> DEFINE nx == DecodeSegment(i, v, full)
    <3>1. e = IF BlocksUsed(nx) > KvBlocks \/ (\E x \in KvExhaustion(i) : x <= full)
                THEN [inst |-> PreemptLast(nx), kind |-> "kv_preempt", done |-> <<>>,
                      dt |-> full * DecodeTime]
                ELSE [inst |-> Retire(nx, Ended(nx)), kind |-> "complete",
                      done |-> Ended(nx), dt |-> full * DecodeTime]
      BY DEF DecodeEvent
    <3>2. nx = next
      BY <2>2
    <3> HIDE DEF nx, e, next, full
    <3>q. QED
      BY <2>3, <3>1, <3>2
  <2>q. QED
    BY <2>4
<1>8. done = <<>> => Retire(next, done) = next
  <2>1. Follows(i, next, <<>>, v)
    BY <1>2, DecodeSegmentFollows
  <2> HIDE DEF next
  <2>2. /\ next \in Record /\ next.running \in Seq(Nat) /\ next.completed \in Seq(Nat)
    BY <2>1, WellFields DEF Follows
  <2>3. /\ Without(next.running, ToSet(<<>>)) = next.running
        /\ next.completed \o <<>> = next.completed
    <3>1. ToSet(<<>>) = {}
      BY DEF ToSet
    <3>q. QED
      BY <2>2, <3>1, WithoutFacts, EmptyConcat
  <2>4. Retire(next, <<>>) = next
    BY <2>2, <2>3 DEF Retire, Record
  <2>q. QED
    BY <2>4
<1> HIDE DEF z, a, k, full, next, done, after, over, e
<1>9. ~a.open /\ (k < full => a.done = <<>>)
  <2>1. CASE over
    <3>1. a = [after EXCEPT !.inst = PreemptLast(next)]
      BY <1>4, <1>5, <2>1
    <3>2. a.inst = PreemptLast(next) /\ a.done = <<>> /\ a.open = FALSE
      BY <1>5, <3>1
    <3>q. QED
      BY <3>2
  <2>2. CASE ~over /\ (k < full \/ done = <<>>)
    BY <1>4, <1>6, <2>2
  <2>3. CASE ~over /\ ~(k < full \/ done = <<>>)
    <3>1. a = [after EXCEPT !.inst = Retire(next, done), !.done = done]
      BY <1>4, <1>5, <2>3
    <3>q. QED
      BY <1>5, <2>3, <3>1
  <2>q. QED
    BY <2>1, <2>2, <2>3
<1>10. ASSUME time = full * DecodeTime PROVE SameOutcome(a, e)
  <2>0. k = full /\ ~(k < full)
    BY <1>1, <1>2, <1>10
  <2>1. CASE over
    <3>1. a = [after EXCEPT !.inst = PreemptLast(next)]
      BY <1>4, <1>5, <2>1
    <3>2. a.inst = PreemptLast(next) /\ a.done = <<>> /\ a.open = FALSE
      BY <1>5, <3>1
    <3>q. QED
      BY <1>7, <1>10, <2>1, <3>2 DEF SameOutcome
  <2>2. CASE ~over /\ done = <<>>
    <3>1. a.inst = next /\ a.done = <<>>
      BY <1>4, <1>6, <2>2
    <3>2. e.inst = next /\ e.done = <<>>
      BY <1>7, <1>8, <1>10, <2>2
    <3>q. QED
      BY <3>1, <3>2 DEF SameOutcome
  <2>3. CASE ~over /\ done # <<>>
    <3>1. a = [after EXCEPT !.inst = Retire(next, done), !.done = done]
      BY <1>4, <1>5, <2>0, <2>3
    <3>2. a.inst = Retire(next, done) /\ a.done = done
      BY <1>5, <3>1
    <3>q. QED
      BY <1>7, <1>10, <2>3, <3>2 DEF SameOutcome
  <2>q. QED
    BY <2>1, <2>2, <2>3
<1>q. QED
  BY <1>2, <1>9, <1>10 DEF a, z, full, e

\* The two ways to advance an instance agree: short of its next event
\* advance_to completes nothing, and given exactly its time does what the
\* event does (advance_one_event, advance_to).
LEMMA InstanceAgrees ==
    ASSUME NEW i, NEW v \in Nat, Well(i), Fits(i), ~Idle(i), NEW time \in Nat,
           time <= AdvanceOneEvent(i, v).dt
    PROVE  /\ time < AdvanceOneEvent(i, v).dt => AdvanceTo(i, time, v).done = <<>>
           /\ time > 0 /\ time = AdvanceOneEvent(i, v).dt
                => SameOutcome(AdvanceTo(i, time, v), AdvanceOneEvent(i, v))
<1> DEFINE z == AdvanceStart(i, time)
           e == AdvanceOneEvent(i, v)
           a == ReadyRound(z, v)
<1>1. CASE time = 0
  <2>1. AdvanceTo(i, time, v) = [inst |-> i, left |-> 0, done |-> <<>>, open |-> TRUE]
    BY <1>1, NoTime DEF AdvanceStart
  <2>q. QED
    BY <1>1, <2>1
<1>2. CASE time > 0
  <2>0. z.inst = i
    BY DEF AdvanceStart
  <2>1. /\ ~a.open \/ a.left <= 0
        /\ time < e.dt => a.done = <<>>
        /\ time = e.dt => SameOutcome(a, e)
    <3>1. CASE i.waiting # <<>>
      <4>1. e = PrefillEvent(i, v) /\ a = PrefillRound(z, v)
        BY <2>0, <3>1 DEF AdvanceOneEvent, ReadyRound
      <4>2. PrefillEvent(i, v).dt = PrefillTime
        BY DEF PrefillEvent
      <4>3. time <= PrefillTime
        BY <4>1, <4>2
      <4> HIDE DEF e, a
      <4>q. QED
        BY <1>2, <4>1, <4>2, <4>3, PrefillAgrees
    <3>2. CASE i.waiting = <<>>
      <4>1. i.running # <<>>
        <5>1. ToSet(<<>>) = {}
          BY DEF ToSet
        <5>q. QED
          BY <3>2, <5>1 DEF Idle, Active
      <4>2. e = DecodeEvent(i, v) /\ a = DecodeRound(z, v)
        BY <2>0, <3>2, <4>1 DEF AdvanceOneEvent, ReadyRound
      <4>3. DecodeEvent(i, v).dt = SegmentSteps(i) * DecodeTime
        BY DEF DecodeEvent
      <4>4. time <= SegmentSteps(i) * DecodeTime
        BY <4>2, <4>3
      <4> HIDE DEF e, a
      <4>q. QED
        BY <1>2, <3>2, <4>1, <4>2, <4>3, <4>4, DecodeAgrees
    <3>q. QED
      BY <3>1, <3>2
  <2>2. AdvanceRound(z, v) = a
    BY <1>2, FirstRound
  <2> HIDE DEF a, e
  <2>3. AdvanceTo(i, time, v) = a
    BY <1>2, <2>1, <2>2, OneRound
  <2>q. QED
    BY <2>1, <2>3 DEF e
<1>q. QED
  BY <1>1, <1>2

\* The two ways to advance an instance agree: before the time of its next event
\* advance_to completes nothing, and given exactly that time it leaves the
\* instance the event leaves and completes the same requests
\* (advance_one_event, advance_to).
THEOREM InstanceAdvanceAgrees == InstanceSpec => []AdvanceAgrees
<1>1. InstanceInv => AdvanceAgrees
  <2> SUFFICES ASSUME InstanceInv, Quiet, ~Idle(inst)
               PROVE  LET event == AdvanceOneEvent(PromoteReady(inst), weights)
                          then == AdvanceTo(inst, event.dt, weights)
                      IN /\ \A t \in 0..(event.dt - 1) : AdvanceTo(inst, t, weights).done = <<>>
                         /\ event.dt > 0 => then.inst = event.inst /\ then.done = event.done
    BY DEF AdvanceAgrees
  <2> DEFINE e == AdvanceOneEvent(inst, weights)
  <2>1. Well(inst) /\ Fits(inst) /\ weights \in Nat
    BY DEF InstanceInv, Sound, Counters
  <2>2. PromoteReady(inst) = inst
    BY <2>1, NothingReady
  <2>3. e.dt \in Nat
    BY <2>1, EventFollows DEF EventOf
  <2>4. ASSUME NEW t \in 0..(e.dt - 1) PROVE AdvanceTo(inst, t, weights).done = <<>>
    <3>1. t \in Nat /\ t < e.dt /\ t <= e.dt
      BY <2>3
    <3>q. QED
      BY <2>1, <3>1, InstanceAgrees
  <2>5. e.dt > 0 => SameOutcome(AdvanceTo(inst, e.dt, weights), e)
    <3>1. e.dt <= e.dt
      BY <2>3
    <3>q. QED
      BY <2>1, <2>3, <3>1, InstanceAgrees
  <2>q. QED
    BY <2>2, <2>4, <2>5 DEF SameOutcome
<1>q. QED
  BY <1>1, InstanceInvariant, PTL

=============================================================================
