-------------------------- MODULE Profiling_proofs --------------------------
(***************************************************************************)
(* Proofs about the two profilers, and about the cost models fitted to     *)
(* what they collect.                                                      *)
(*                                                                         *)
(* The vLLM profiling executor: GPUs, ports and startup permits are never  *)
(* given twice or lost, a drained pool has the outcome of every job, and   *)
(* no point with a run file is measured again.  The inductive invariant    *)
(* has four parts.  PlanTyped: the jobs are a nonempty list with finitely  *)
(* many points each.  JobInv: what the thread, the sweep and the files of  *)
(* one job know of each other.  PoolInv: the main thread's bookkeeping     *)
(* against the threads.  PermitInv: the startup gate.                      *)
(*                                                                         *)
(* The Megatron-Bridge commands: they keep their promises whatever is      *)
(* killed, repeated or read meanwhile, for every set of configurations and *)
(* every bound.                                                            *)
(*                                                                         *)
(* The cost models: every artifact is the fit of some collected profile    *)
(* and every answer is that of a loaded artifact (CostInv), so that what   *)
(* the properties say of an answer is a fact about the functions: the      *)
(* closed form of a decode segment is the sum of its steps, a holdout      *)
(* shares no launch with its training set, the first data-parallel rank    *)
(* bounds every other, and what was profiled is answered.                  *)
(***************************************************************************)
EXTENDS VllmExecutor, BridgeProfile, CostModels, FiniteSetTheorems,
        WellFoundedInduction, SequenceTheorems, TLAPS

-----------------------------------------------------------------------------
\* The vLLM executor: the invariant

Points == {P \in SUBSET (Nat \X Nat) : IsFiniteSet(P)}
Measurement == {"timing", "trace"}
JobSpec == [phase : Nat, measurement : Measurement, shard : Nat, world : 1..NGpus,
            points : Points]
Job == [phase : Nat, measurement : Measurement, shard : Nat, world : 1..NGpus,
        points : Points, wave : Nat, gpus : SUBSET Gpus,
        port : Nat \cup {NoPort}]
Wave == [available : Seq(Gpus), workers : Nat]

PlanTyped ==
  /\ request \in Requests
  /\ stage \in {"start", "placing", "prepared", "rejected"}
  /\ specs \in Seq(JobSpec) /\ jobs \in Seq(Job) /\ waves \in Seq(Wave)
  /\ limit \in Nat
  /\ stage = "placing" => specs # <<>>
  /\ stage = "prepared" => jobs # <<>>

WorkerState == {"none", "submitted", "gate", "launching", "reading",
                "returned", "raised"}
Sweep == [state : {"none", "booting", "serving", "exited", "died"},
          resume : BOOLEAN, ready : {"no", "printed", "read"},
          todo : SUBSET (Nat \X Nat), at : SUBSET (Nat \X Nat), done : Nat]
Files(j) == [dir : BOOLEAN, runs : SUBSET jobs[j].points, traces : Nat,
             logged : [jobs[j].points -> Nat]]

NotStarted ==
  /\ main = "idle"
  /\ worker = <<>> /\ sweep = <<>> /\ files = <<>>

Started ==
  /\ stage = "prepared"
  /\ worker \in [Jobs -> WorkerState] /\ sweep \in [Jobs -> Sweep]
  /\ DOMAIN files = Jobs /\ files = [j \in Jobs |-> files[j]]
  /\ \A j \in Jobs : files[j] \in Files(j)

(* What thread w, sweep s and files f of job j know of each other.          *)

\* The points of a sweep are to do, at hand or have a run file, never two of
\* these; nothing but the sweep makes run files.
SweepOK(j, s, f) ==
  /\ s.state = "none" => s.todo = {} /\ s.at = {} /\ s.ready = "no"
  /\ s.state = "booting" => s.at = {} /\ s.ready = "no"
  /\ s.state \in {"serving", "exited"} => f.dir
  /\ s.state # "none" => jobs[j].points = s.todo \cup s.at \cup f.runs
  /\ s.state = "exited" => s.todo = {} /\ s.at = {}
  /\ s.todo \cap f.runs = {} /\ s.at \cap f.runs = {} /\ s.todo \cap s.at = {}
  /\ s.at = {} \/ \E p \in jobs[j].points : s.at = {p}
  /\ s.at = {} => s.done = 0

\* A trace file is saved before the run file of its point.
FilesOK(j, s, f) ==
  /\ f.runs # {} => f.dir
  /\ jobs[j].measurement = "trace" =>
       f.traces >= Cardinality(f.runs) + (IF s.done > Iterations THEN 1 ELSE 0)

Complete(j, f) ==
  /\ f.dir
  /\ Cardinality(f.runs) >= Cardinality(jobs[j].points)
  /\ jobs[j].measurement = "trace" => f.traces >= Cardinality(jobs[j].points)

ThreadOK(j, w, s, f) ==
  /\ w \in {"none", "submitted", "gate", "launching"} => s.state = "none"
  /\ w \in {"gate", "launching"} => s.resume = f.dir
  /\ w = "reading" => s.state # "none"
  /\ w = "returned" => Complete(j, f) /\ s.state \in {"none", "exited"}

JobOK(j, w, s, f) == SweepOK(j, s, f) /\ FilesOK(j, s, f) /\ ThreadOK(j, w, s, f)

JobInv(j) == JobOK(j, worker[j], sweep[j], files[j])

PermitInv ==
  /\ holds \subseteq DOMAIN worker /\ permits \in Nat
  /\ main # "idle" => permits + Cardinality(holds) = Permits
  /\ \A j \in holds : /\ worker[j] \in {"launching", "reading"}
                      /\ sweep[j].ready # "read"

Apart(S) == \A i, j \in S : i # j => /\ jobs[i].gpus \cap jobs[j].gpus = {}
                                     /\ Ports(i) \cap Ports(j) = {}

\* Where the main thread believes a job to be.
Believed(j) ==
  /\ j \in pending => worker[j] = "none" /\ j \notin failures
  /\ j \in running => worker[j] # "none" /\ j \notin failures
  /\ j \notin pending \cup running =>
       /\ Ended(j)
       /\ j \in failures <=> worker[j] = "raised"

Main == {"idle", "placing", "waiting", "unplaceable", "drained", "indexed",
         "invalid", "collected"}

PoolInv ==
  /\ main \in Main
  /\ {pending, running, failures} \subseteq SUBSET DOMAIN worker
  /\ pending \cap running = {}
  /\ usedGpus = GpusOf(running) /\ usedPorts = PortsOf(running)
  /\ Apart(running)
  /\ main = "idle" => \A j \in DOMAIN worker : worker[j] = "none"
  /\ main = "idle" => running = {} /\ pending = {} /\ holds = {}
  /\ main # "idle" => \A j \in DOMAIN worker : Believed(j)
  /\ main \in {"drained", "indexed", "invalid", "collected"} =>
       pending = {} /\ running = {}

ExecInv ==
  /\ PlanTyped
  /\ NotStarted \/ Started
  /\ \A j \in DOMAIN worker : JobInv(j)
  /\ PermitInv
  /\ PoolInv

-----------------------------------------------------------------------------
\* Induction over finite sets, and what it says of extrema and sequences

\* Among the members of a family of finite sets, one is minimal.
LEMMA MinimalSet ==
    ASSUME NEW S, IsFiniteSet(S), NEW F \in SUBSET (SUBSET S), F # {}
    PROVE  \E x \in F : \A y \in F : y \subseteq x => y = x
<1>1. IsWellFoundedOn(StrictSubsetOrdering(S), FiniteSubsetsOf(S))
  BY FS_StrictSubsetOrderingWellFounded
<1>2. F \subseteq FiniteSubsetsOf(S)
  BY FS_FiniteSubsetsOfFinite
<1>3. PICK x \in F : \A y \in F : ~ (<<y, x>> \in StrictSubsetOrdering(S))
  BY <1>1, <1>2, WFMin
<1>q. QED
  BY <1>3 DEF StrictSubsetOrdering

\* F has the empty set, and each set with the set that lacks the member c chooses.
Grows(F, c, S) ==
    /\ {} \in F
    /\ \A t \in SUBSET S : t # {} => c[t] \in t /\ (t \ {c[t]} \in F => t \in F)

\* Induction over the subsets of a finite set: c chooses the member to add.
LEMMA OneByOne ==
    ASSUME NEW S, IsFiniteSet(S), NEW c, NEW F, Grows(F, c, S)
    PROVE  \A t \in SUBSET S : t \in F
<1> DEFINE Bad == {t \in SUBSET S : t \notin F}
<1> SUFFICES ASSUME Bad # {} PROVE FALSE
  OBVIOUS
<1>1. PICK t \in Bad : \A u \in Bad : u \subseteq t => u = t
  <2>1. Bad \in SUBSET (SUBSET S)
    OBVIOUS
  <2> HIDE DEF Bad
  <2>q. QED
    BY <2>1, MinimalSet
<1>2. t # {} /\ c[t] \in t /\ t \ {c[t]} \in SUBSET S
  BY <1>1 DEF Grows
<1>3. t \ {c[t]} \notin Bad
  <2> HIDE DEF Bad
  <2>q. QED
    BY <1>1, <1>2
<1>q. QED
  BY <1>1, <1>2, <1>3 DEF Grows

\* The same with any member.
LEMMA MemberByMember ==
    ASSUME NEW S, IsFiniteSet(S), NEW F, {} \in F,
           \A t \in SUBSET S : \A x \in t : t \ {x} \in F => t \in F
    PROVE  S \in F
<1> DEFINE c == [t \in SUBSET S |-> CHOOSE x \in t : TRUE]
<1>1. \A t \in SUBSET S : t # {} => c[t] \in t
  OBVIOUS
<1> HIDE DEF c
<1>2. Grows(F, c, S)
  BY <1>1 DEF Grows
<1>3. \A t \in SUBSET S : t \in F
  BY <1>2, OneByOne
<1>q. QED
  BY <1>3

\* Induction over the natural numbers, with a set for the predicate.
LEMMA NatSetInduction ==
    ASSUME NEW T, 0 \in T, \A n \in Nat : n \in T => n + 1 \in T
    PROVE  Nat \subseteq T
<1> SUFFICES ASSUME NEW n \in Nat, n \notin T PROVE FALSE
  OBVIOUS
<1> DEFINE D == 0..n
           F == {s \in SUBSET D : \E k \in D : k \notin T /\ s = 0..k}
<1>1. F \in SUBSET (SUBSET D) /\ IsFiniteSet(D)
  BY FS_Interval
<1>2. 0..n \in F
  OBVIOUS
<1>3. PICK x \in F : \A y \in F : y \subseteq x => y = x
  <2>1. F # {}
    BY <1>2
  <2> HIDE DEF F, D
  <2>q. QED
    BY <1>1, <2>1, MinimalSet
<1>4. PICK k \in 0..n : k \notin T /\ x = 0..k
  BY <1>3
<1>5. k \in Nat /\ k # 0 /\ k - 1 \in Nat /\ (k - 1) + 1 = k
  BY <1>4
<1>6. k - 1 \notin T
  BY <1>4, <1>5
<1>7. k - 1 \in 0..n /\ 0..(k - 1) \in SUBSET (0..n)
  BY <1>4, <1>5
<1>8. 0..(k - 1) \in F
  BY <1>6, <1>7
<1>9. 0..(k - 1) \subseteq 0..k /\ k \in 0..k /\ k \notin 0..(k - 1)
  BY <1>5
<1>q. QED
  BY <1>3, <1>4, <1>8, <1>9

\* The helper of the library returns the greatest member.
LEMMA MaxIsGreatest ==
    ASSUME NEW S, \A x \in S : x \in Int, IsFiniteSet(S), S # {}
    PROVE  Max(S) \in S /\ \A y \in S : Max(S) >= y
<1> DEFINE F == {t \in SUBSET S : t # {} => \E x \in t : \A y \in t : x >= y}
<1>1. ASSUME NEW t \in SUBSET S, NEW x \in t, t \ {x} \in F
      PROVE  t \in F
  <2>1. CASE t \ {x} = {}
    <3>1. x \in Int /\ \A y \in t : y = x
      BY <1>1, <2>1
    <3>q. QED
      BY <3>1
  <2>2. CASE t \ {x} # {}
    <3>1. PICK m \in t \ {x} : \A y \in t \ {x} : m >= y
      BY <1>1, <2>2
    <3>2. CASE x >= m
      BY <1>1, <3>1, <3>2
    <3>3. CASE m >= x
      BY <1>1, <3>1, <3>3
    <3>q. QED
      BY <1>1, <3>1, <3>2, <3>3
  <2>q. QED
    BY <2>1, <2>2
<1>2. S \in F
  <2>1. {} \in F
    OBVIOUS
  <2> HIDE DEF F
  <2>q. QED
    BY <1>1, <2>1, MemberByMember
<1>q. QED
  BY <1>2 DEF Max

LEMMA MinIsLeast ==
    ASSUME NEW S, \A x \in S : x \in Int, IsFiniteSet(S), S # {}
    PROVE  Min(S) \in S /\ \A y \in S : Min(S) <= y
<1> DEFINE F == {t \in SUBSET S : t # {} => \E x \in t : \A y \in t : x <= y}
<1>1. ASSUME NEW t \in SUBSET S, NEW x \in t, t \ {x} \in F
      PROVE  t \in F
  <2>1. CASE t \ {x} = {}
    <3>1. x \in Int /\ \A y \in t : y = x
      BY <1>1, <2>1
    <3>q. QED
      BY <3>1
  <2>2. CASE t \ {x} # {}
    <3>1. PICK m \in t \ {x} : \A y \in t \ {x} : m <= y
      BY <1>1, <2>2
    <3>2. CASE x <= m
      BY <1>1, <3>1, <3>2
    <3>3. CASE m <= x
      BY <1>1, <3>1, <3>3
    <3>q. QED
      BY <1>1, <3>1, <3>2, <3>3
  <2>q. QED
    BY <2>1, <2>2
<1>2. S \in F
  <2>1. {} \in F
    OBVIOUS
  <2> HIDE DEF F
  <2>q. QED
    BY <1>1, <2>1, MemberByMember
<1>q. QED
  BY <1>2 DEF Min

LEMMA PairFacts ==
    ASSUME NEW a \in Int, NEW b \in Int
    PROVE  IsFiniteSet({a, b}) /\ {a, b} \subseteq Int /\ {a, b} # {}
<1>1. IsFiniteSet({a}) /\ {a, b} = {a} \cup {b}
  BY FS_Singleton
<1>2. IsFiniteSet({a} \cup {b})
  BY <1>1, FS_AddElement
<1>q. QED
  BY <1>1, <1>2

LEMMA MinOfTwo ==
    ASSUME NEW a \in Int, NEW b \in Int
    PROVE  Min({a, b}) \in {a, b} /\ Min({a, b}) <= a /\ Min({a, b}) <= b
  BY PairFacts, MinIsLeast

\* The values of a function on a finite set.
LEMMA FiniteImage ==
    ASSUME NEW D, IsFiniteSet(D), NEW f, DOMAIN f = D
    PROVE  IsFiniteSet({f[x] : x \in D})
<1> DEFINE T == {f[x] : x \in D}
           g == [x \in D |-> f[x]]
<1>1. g \in [D -> T] /\ \A x \in D : g[x] = f[x]
  OBVIOUS
<1>2. \A y \in T : \E x \in D : f[x] = y
  OBVIOUS
<1> HIDE DEF g, T
<1>3. g \in Surjection(D, T)
  BY <1>1, <1>2 DEF Surjection
<1>4. IsFiniteSet(T)
  BY <1>3, FS_Surjection
<1>q. QED
  BY <1>4 DEF T

\* The places of the members of the first m sequences of a list.
Places(ss, m) == {pl \in (1..m) \X Nat : pl[2] \in 1..Len(ss[pl[1]])}

\* at says where each member of flat, the first m sequences in one, comes from.
ComesFrom(flat, at, ss, m) ==
    /\ at \in [1..Len(flat) -> Places(ss, m)]
    /\ \A k \in 1..Len(flat) : flat[k] = ss[at[k][1]][at[k][2]]
    /\ \A k, l \in 1..Len(flat) : at[k] = at[l] => k = l
    /\ \A pl \in Places(ss, m) : \E k \in 1..Len(flat) : at[k] = pl

\* One more sequence at the end.
LEMMA ComesFromNext ==
    ASSUME NEW S, NEW ss \in Seq(Seq(S)), NEW m \in Nat, m + 1 \in 1..Len(ss),
           NEW flat \in Seq(S), NEW at, ComesFrom(flat, at, ss, m)
    PROVE  \E t : ComesFrom(flat \o ss[m + 1], t, ss, m + 1)
<1> DEFINE last == ss[m + 1]
           n == Len(flat)
           new == flat \o last
           t == [k \in 1..Len(new) |-> IF k <= n THEN at[k] ELSE <<m + 1, k - n>>]
<1>1. last \in Seq(S) /\ n \in Nat /\ Len(last) \in Nat
  OBVIOUS
<1>2. Len(new) = n + Len(last)
  BY <1>1
<1> DEFINE D == 1..n
           L == 1..Len(last)
           W == 1..Len(new)
           up(k) == n + k
<1>3. \A k \in D : k \in W /\ t[k] = at[k] /\ new[k] = flat[k]
  BY <1>1, <1>2
<1>4. \A k \in L : /\ up(k) \in W /\ t[up(k)] = <<m + 1, k>>
                   /\ new[up(k)] = last[k]
  <2> SUFFICES ASSUME NEW k \in 1..Len(last)
               PROVE  /\ n + k \in 1..Len(new) /\ t[n + k] = <<m + 1, k>>
                      /\ new[n + k] = last[k]
    OBVIOUS
  <2>1. n + k \in 1..Len(new) /\ ~(n + k <= n) /\ (n + k) - n = k
    <3> HIDE DEF last, n, new
    <3>q. QED
      BY <1>1, <1>2
  <2>2. t[n + k] = <<m + 1, k>>
    <3> HIDE DEF last, n, new
    <3>q. QED
      BY <2>1
  <2>3. new[n + k] = last[k]
    <3>1. n + k \in 1..(n + Len(last)) /\ n = Len(flat) /\ flat \in Seq(S)
      BY <1>1
    <3> HIDE DEF last, n
    <3>q. QED
      BY <3>1, <2>1, <1>1
  <2>q. QED
    BY <2>1, <2>2, <2>3
<1>5. \A k \in W : k \in D \/ \E l \in L : k = up(l)
  <2> SUFFICES ASSUME NEW k \in 1..Len(new), k \notin 1..n
               PROVE  k - n \in 1..Len(last) /\ k = n + (k - n)
    OBVIOUS
  <2>q. QED
    BY <1>1, <1>2
<1>6. /\ at \in [D -> Places(ss, m)]
      /\ \A k \in D : flat[k] = ss[at[k][1]][at[k][2]]
      /\ \A k, l \in D : at[k] = at[l] => k = l
      /\ \A pl \in Places(ss, m) : \E k \in D : at[k] = pl
  BY DEF ComesFrom
<1>7. \A k \in L : <<m + 1, k>> \in Places(ss, m + 1)
  BY <1>1 DEF Places
<1>8. /\ \A pl \in Places(ss, m) : pl \in Places(ss, m + 1) /\ pl[1] # m + 1
      /\ \A pl \in Places(ss, m + 1) :
           pl \in Places(ss, m) \/ \E k \in L : pl = <<m + 1, k>>
  <2>1. \A i \in 1..(m + 1) : i \in 1..m \/ i = m + 1
    OBVIOUS
  <2>2. \A i \in 1..m : i \in 1..(m + 1) /\ i # m + 1
    OBVIOUS
  <2>3. \A pl \in Places(ss, m + 1) :
          /\ pl[1] \in 1..(m + 1) /\ pl = <<pl[1], pl[2]>>
          /\ pl[2] \in Nat /\ pl[2] \in 1..Len(ss[pl[1]])
    BY DEF Places
  <2>4. \A pl \in Places(ss, m) :
          pl[1] \in 1..m /\ pl[2] \in Nat /\ pl[2] \in 1..Len(ss[pl[1]]) /\ pl = <<pl[1], pl[2]>>
    BY DEF Places
  <2>5. \A c, d : c \in 1..m /\ d \in Nat /\ d \in 1..Len(ss[c]) => <<c, d>> \in Places(ss, m)
    BY DEF Places
  <2>6. \A c, d : c \in 1..(m + 1) /\ d \in Nat /\ d \in 1..Len(ss[c])
                    => <<c, d>> \in Places(ss, m + 1)
    BY DEF Places
  <2>7. \A pl \in Places(ss, m) : pl \in Places(ss, m + 1) /\ pl[1] # m + 1
    BY <2>2, <2>4, <2>6
  <2>8. L = 1..Len(ss[m + 1])
    OBVIOUS
  <2> HIDE DEF L
  <2>9. \A pl \in Places(ss, m + 1) :
          pl \in Places(ss, m) \/ \E k \in L : pl = <<m + 1, k>>
    BY <2>1, <2>3, <2>5, <2>8
  <2>q. QED
    BY <2>7, <2>9
<1>9. last = ss[m + 1] /\ t = [k \in W |-> t[k]] /\ DOMAIN t = W
  OBVIOUS
<1>h. W = 1..Len(new) /\ \A k, l \in L : up(k) = up(l) => k = l
  <2>1. n \in Nat /\ \A k \in L : k \in Nat
    BY <1>1
  <2> HIDE DEF L, n, new
  <2>q. QED
    BY <2>1
<1> HIDE DEF t, new, D, L, W, up, n, last
<1>10. t \in [W -> Places(ss, m + 1)]
  <2>1. \A k \in D : t[k] \in Places(ss, m + 1)
    BY <1>3, <1>6, <1>8
  <2>2. \A k \in L : t[up(k)] \in Places(ss, m + 1)
    BY <1>4, <1>7
  <2>3. \A k \in W : t[k] \in Places(ss, m + 1)
    BY <2>1, <2>2, <1>5
  <2>q. QED
    BY <2>3, <1>9
<1>11. \A k \in W : new[k] = ss[t[k][1]][t[k][2]]
  <2>1. \A k \in D : new[k] = ss[t[k][1]][t[k][2]]
    BY <1>3, <1>6
  <2>2. \A k \in L : new[up(k)] = ss[t[up(k)][1]][t[up(k)][2]]
    <3> SUFFICES ASSUME NEW k \in L PROVE new[up(k)] = ss[t[up(k)][1]][t[up(k)][2]]
      OBVIOUS
    <3>1. t[up(k)] = <<m + 1, k>> /\ new[up(k)] = last[k]
      BY <1>4
    <3>q. QED
      BY <3>1, <1>9
  <2>q. QED
    BY <2>1, <2>2, <1>5
<1>12. \A k, l \in W : t[k] = t[l] => k = l
  <2> SUFFICES ASSUME NEW k \in W, NEW l \in W, t[k] = t[l]
               PROVE  k = l
    OBVIOUS
  <2>1. CASE k \in D /\ l \in D
    BY <2>1, <1>3, <1>6
  <2>2. CASE k \in D /\ l \notin D
    BY <2>2, <1>3, <1>4, <1>5, <1>6, <1>8
  <2>3. CASE k \notin D /\ l \in D
    BY <2>3, <1>3, <1>4, <1>5, <1>6, <1>8
  <2>4. CASE k \notin D /\ l \notin D
    <3>1. PICK i \in L, j \in L : k = up(i) /\ l = up(j)
      BY <2>4, <1>5
    <3>2. <<m + 1, i>> = <<m + 1, j>>
      BY <3>1, <1>4
    <3>q. QED
      BY <3>1, <3>2
  <2>q. QED
    BY <2>1, <2>2, <2>3, <2>4
<1>13. \A pl \in Places(ss, m + 1) : \E k \in W : t[k] = pl
  <2> SUFFICES ASSUME NEW pl \in Places(ss, m + 1) PROVE \E k \in W : t[k] = pl
    OBVIOUS
  <2>1. CASE pl \in Places(ss, m)
    BY <2>1, <1>3, <1>6
  <2>2. CASE \E k \in L : pl = <<m + 1, k>>
    BY <2>2, <1>4
  <2>q. QED
    BY <2>1, <2>2, <1>8
<1>14. ComesFrom(new, t, ss, m + 1)
  BY <1>10, <1>11, <1>12, <1>13, <1>h DEF ComesFrom
<1>q. QED
  BY <1>14 DEF new, last

\* A list of sequences in one: it has each of their members once.
LEMMA FlattenPlaces ==
    ASSUME NEW S, NEW ss \in Seq(Seq(S)), Len(ss) > 0
    PROVE  /\ FlattenSeq(ss) \in Seq(S)
           /\ \E at : ComesFrom(FlattenSeq(ss), at, ss, Len(ss))
<1> DEFINE n == Len(ss)
           Rec(g, m) == g = [i \in 1..m |-> IF i = 1 THEN ss[i] ELSE g[i - 1] \o ss[i]]
           Good(m) == \E g : /\ Rec(g, m) /\ g \in [1..m -> Seq(S)]
                             /\ \A i \in 1..m : \E at : ComesFrom(g[i], at, ss, i)
           T == {m \in Nat : m \in 1..n => Good(m)}
<1>0. n \in Nat /\ n # 0 /\ \A i \in 1..n : ss[i] \in Seq(S)
  OBVIOUS
<1>1. Good(1)
  <2> DEFINE g == [i \in 1..1 |-> ss[1]]
             at == [k \in 1..Len(ss[1]) |-> <<1, k>>]
  <2>1. Rec(g, 1) /\ g \in [1..1 -> Seq(S)]
    BY <1>0
  <2>2. ComesFrom(ss[1], at, ss, 1)
    <3>1. ss[1] \in Seq(S) /\ Len(ss[1]) \in Nat
      BY <1>0
    <3>2. \A k \in 1..Len(ss[1]) : <<1, k>> \in Places(ss, 1)
      BY <3>1 DEF Places
    <3>3. at \in [1..Len(ss[1]) -> Places(ss, 1)]
      BY <3>2
    <3>4. \A k \in 1..Len(ss[1]) : at[k] = <<1, k>>
      OBVIOUS
    <3>5. \A pl \in Places(ss, 1) : \E k \in 1..Len(ss[1]) : pl = <<1, k>>
      BY DEF Places
    <3>6. \A k \in 1..Len(ss[1]) : ss[1][k] = ss[at[k][1]][at[k][2]]
      BY <3>4
    <3>7. \A k, l \in 1..Len(ss[1]) : at[k] = at[l] => k = l
      BY <3>4
    <3>8. \A pl \in Places(ss, 1) : \E k \in 1..Len(ss[1]) : at[k] = pl
      BY <3>4, <3>5
    <3> HIDE DEF at
    <3>q. QED
      BY <3>3, <3>6, <3>7, <3>8 DEF ComesFrom
  <2>3. \A i \in 1..1 : \E a : ComesFrom(g[i], a, ss, i)
    BY <2>2
  <2>q. QED
    BY <2>1, <2>3
<1>2. \A m \in Nat : m \in 1..n /\ m + 1 \in 1..n /\ Good(m) => Good(m + 1)
  <2> SUFFICES ASSUME NEW m \in Nat, m \in 1..n, m + 1 \in 1..n, Good(m)
               PROVE  Good(m + 1)
    OBVIOUS
  <2>1. PICK g : /\ Rec(g, m) /\ g \in [1..m -> Seq(S)]
                 /\ \A i \in 1..m : \E at : ComesFrom(g[i], at, ss, i)
    OBVIOUS
  <2> DEFINE last == g[m] \o ss[m + 1]
             h == [i \in 1..(m + 1) |-> IF i = m + 1 THEN last ELSE g[i]]
  <2>2. m \in 1..m /\ g[m] \in Seq(S) /\ last \in Seq(S)
    BY <2>1, <1>0
  <2>3. PICK at : ComesFrom(g[m], at, ss, m)
    BY <2>1, <2>2
  <2>4. \E t : ComesFrom(last, t, ss, m + 1)
    BY <2>2, <2>3, ComesFromNext
  <2>5. \A i \in 1..(m + 1) : i = m + 1 \/ (i \in 1..m /\ i # m + 1)
    OBVIOUS
  <2>6. h[m + 1] = last /\ \A i \in 1..m : h[i] = g[i]
    <3>1. m + 1 \in 1..(m + 1)
      OBVIOUS
    <3>2. \A i \in 1..m : i \in 1..(m + 1) /\ i # m + 1
      OBVIOUS
    <3> HIDE DEF last
    <3>q. QED
      BY <3>1, <3>2
  <2>7. h \in [1..(m + 1) -> Seq(S)]
    BY <2>1, <2>2, <2>5
  <2>8. \A i \in 1..(m + 1) : \E t : ComesFrom(h[i], t, ss, i)
    BY <2>1, <2>4, <2>5, <2>6
  <2>9. \A i \in 1..(m + 1) : h[i] = IF i = 1 THEN ss[i] ELSE h[i - 1] \o ss[i]
    <3> SUFFICES ASSUME NEW i \in 1..(m + 1)
                 PROVE  h[i] = IF i = 1 THEN ss[i] ELSE h[i - 1] \o ss[i]
      OBVIOUS
    <3>1. CASE i = m + 1
      <4>1. i # 1 /\ i - 1 = m /\ h[m] = g[m]
        BY <3>1, <2>2, <2>6
      <4>q. QED
        BY <3>1, <4>1, <2>6
    <3>2. CASE i \in 1..m
      <4>1. g[i] = IF i = 1 THEN ss[i] ELSE g[i - 1] \o ss[i]
        BY <2>1, <3>2
      <4>2. i # 1 => i - 1 \in 1..m
        BY <3>2
      <4>q. QED
        BY <3>2, <4>1, <4>2, <2>6
    <3>q. QED
      BY <3>1, <3>2, <2>5
  <2>10. Rec(h, m + 1)
    <3>1. h = [i \in 1..(m + 1) |-> h[i]]
      BY <2>7
    <3> HIDE DEF h
    <3>q. QED
      BY <2>9, <3>1
  <2> HIDE DEF h, Rec
  <2>q. QED
    BY <2>7, <2>8, <2>10
<1>3. Nat \subseteq T
  <2>1. 0 \in T
    OBVIOUS
  <2>2. \A m \in Nat : m \in T => m + 1 \in T
    <3> SUFFICES ASSUME NEW m \in Nat, m \in T, m + 1 \in 1..n
                 PROVE  Good(m + 1)
      <4> HIDE DEF Good, n
      <4>q. QED
        OBVIOUS
    <3>1. m = 0 \/ m \in 1..n
      BY <1>0
    <3>2. m \in 1..n => Good(m)
      <4> HIDE DEF Good, n
      <4>q. QED
        OBVIOUS
    <3> HIDE DEF Good, n, T
    <3>q. QED
      BY <1>1, <1>2, <3>1, <3>2
  <2> HIDE DEF T
  <2>q. QED
    BY <2>1, <2>2, NatSetInduction
<1>4. Good(n)
  <2>1. n \in 1..n
    BY <1>0
  <2> HIDE DEF Good, n
  <2>q. QED
    BY <1>0, <1>3, <2>1
<1>5. PICK g : /\ Rec(g, n) /\ g \in [1..n -> Seq(S)]
               /\ \A i \in 1..n : \E at : ComesFrom(g[i], at, ss, i)
  BY <1>4
<1> DEFINE f == CHOOSE h : Rec(h, n)
<1>6. Rec(f, n)
  <2> HIDE DEF Rec
  <2>q. QED
    BY <1>5
<1>7. f = g
  <2> DEFINE E == {m \in Nat : m \in 1..n => f[m] = g[m]}
  <2>1. \A m \in 1..n : f[m] = IF m = 1 THEN ss[m] ELSE f[m - 1] \o ss[m]
    BY <1>6
  <2>2. \A m \in 1..n : g[m] = IF m = 1 THEN ss[m] ELSE g[m - 1] \o ss[m]
    BY <1>5
  <2>3. 0 \in E
    OBVIOUS
  <2>4. \A m \in Nat : m \in E => m + 1 \in E
    <3> SUFFICES ASSUME NEW m \in Nat, m \in E, m + 1 \in 1..n
                 PROVE  f[m + 1] = g[m + 1]
      <4> HIDE DEF f, n
      <4>q. QED
        OBVIOUS
    <3>0. m \in 1..n => f[m] = g[m]
      <4> HIDE DEF f, n
      <4>q. QED
        OBVIOUS
    <3>1. CASE m = 0
      <4> HIDE DEF f
      <4>q. QED
        BY <3>1, <2>1, <2>2
    <3>2. CASE m \in 1..n
      <4>1. m + 1 # 1 /\ (m + 1) - 1 = m /\ f[m] = g[m]
        BY <3>0, <3>2
      <4> HIDE DEF f
      <4>q. QED
        BY <4>1, <2>1, <2>2
    <3>q. QED
      BY <3>1, <3>2, <1>0
  <2>5. Nat \subseteq E
    <3> HIDE DEF E
    <3>q. QED
      BY <2>3, <2>4, NatSetInduction
  <2>6. \A m \in 1..n : f[m] = g[m]
    <3> HIDE DEF f
    <3>q. QED
      BY <2>5
  <2>7. f = [m \in 1..n |-> f[m]] /\ g = [m \in 1..n |-> g[m]]
    <3>1. f = [i \in 1..n |-> IF i = 1 THEN ss[i] ELSE f[i - 1] \o ss[i]]
      BY <1>6
    <3> HIDE DEF f
    <3>q. QED
      BY <1>5, <3>1
  <2> HIDE DEF f
  <2>q. QED
    BY <2>6, <2>7
<1>8. FlattenSeq(ss) = f[n]
  BY <1>0 DEF FlattenSeq
<1>9. n \in 1..n
  BY <1>0
<1> HIDE DEF f, Rec, Good, T
<1>q. QED
  BY <1>5, <1>7, <1>8, <1>9

-----------------------------------------------------------------------------
\* What prepare.py computes from a request

\* Every request is a list of serve points and a list of phases.
LEMMA RequestTyped ==
    ASSUME request \in Requests
    PROVE  /\ request.serve \in Seq(Nat \ {0}) /\ Len(request.serve) \in Nat \ {0}
           /\ request.bench \in Seq(Nat \ {0}) /\ Len(request.bench) \in Nat \ {0}
           /\ request.maxParallel \in Nat /\ request.dryRun \in BOOLEAN
           /\ NGpus \in Nat \ {0}
BY PrepareAssumption

\* The largest world size is one of them.
LEMMA WorldsBounded ==
    ASSUME request \in Requests
    PROVE  /\ Max(WorldSizes) \in Nat \ {0}
           /\ \A s \in DOMAIN request.serve : /\ request.serve[s] \in Nat \ {0}
                                              /\ request.serve[s] <= Max(WorldSizes)
           /\ IsFiniteSet(WorldSizes) /\ WorldSizes # {}
           /\ \A w \in WorldSizes : w \in Nat \ {0}
<1> DEFINE D == 1..Len(request.serve)
<1>1. /\ Len(request.serve) \in Nat \ {0} /\ DOMAIN request.serve = D
      /\ \A s \in D : request.serve[s] \in Nat \ {0}
  BY RequestTyped
<1>2. IsFiniteSet(D) /\ 1 \in D
  BY <1>1, FS_Interval
<1> HIDE DEF D
<1>3. IsFiniteSet({request.serve[s] : s \in D})
  BY <1>1, <1>2, FiniteImage
<1>4. IsFiniteSet(WorldSizes) /\ WorldSizes # {} /\ \A w \in WorldSizes : w \in Nat \ {0}
  BY <1>1, <1>2, <1>3 DEF WorldSizes
<1>5. \A w \in WorldSizes : w \in Int
  BY <1>4
<1>6. Max(WorldSizes) \in WorldSizes /\ \A y \in WorldSizes : Max(WorldSizes) >= y
  BY <1>4, <1>5, MaxIsGreatest
<1>7. \A s \in D : request.serve[s] \in WorldSizes
  BY <1>1 DEF WorldSizes
<1>8. \A s \in D : request.serve[s] <= Max(WorldSizes)
  <2> SUFFICES ASSUME NEW s \in D PROVE request.serve[s] <= Max(WorldSizes)
    OBVIOUS
  <2>1. request.serve[s] \in Nat /\ Max(WorldSizes) \in Nat /\ Max(WorldSizes) >= request.serve[s]
    BY <1>1, <1>4, <1>6, <1>7
  <2>q. QED
    BY <2>1
<1>q. QED
  BY <1>1, <1>4, <1>6, <1>8

LEMMA PositiveQuotient ==
    ASSUME NEW n \in Nat, NEW w \in Nat \ {0}
    PROVE  n \div w \in Nat /\ (w <= n => n \div w >= 1)
<1> DEFINE q == n \div w
           r == n % w
<1>1. q \in Int /\ r \in 0..(w - 1) /\ n = w * q + r
  OBVIOUS
<1>2. q >= 0
  OBVIOUS
<1>3. ASSUME w <= n PROVE q >= 1
  <2>1. q # 0
    <3> SUFFICES ASSUME q = 0 PROVE FALSE
      OBVIOUS
    <3>1. w * q = 0
      BY Z3
    <3> HIDE DEF q, r
    <3>q. QED
      BY <3>1, <1>1, <1>3
  <2> HIDE DEF q
  <2>q. QED
    BY <2>1, <1>1, <1>2
<1>q. QED
  BY <1>1, <1>2, <1>3

LEMMA MaxParallelTyped ==
    ASSUME request \in Requests
    PROVE  MaxParallel \in Nat
<1> DEFINE h == [w \in WorldSizes |-> NGpus \div w]
           H == {NGpus \div w : w \in WorldSizes}
<1>1. /\ IsFiniteSet(WorldSizes) /\ WorldSizes # {}
      /\ \A w \in WorldSizes : w \in Nat \ {0}
  BY WorldsBounded
<1>2. IsFiniteSet({h[w] : w \in WorldSizes})
  <2>1. DOMAIN h = WorldSizes
    OBVIOUS
  <2> HIDE DEF h
  <2>q. QED
    BY <2>1, <1>1, FiniteImage
<1>3. H = {h[w] : w \in WorldSizes}
  OBVIOUS
<1>4. \A x \in H : x \in Nat
  BY <1>1, RequestTyped, PositiveQuotient
<1>5. H # {}
  BY <1>1
<1>6. IsFiniteSet(H)
  BY <1>2, <1>3
<1> HIDE DEF H
<1>7. \A x \in H : x \in Int
  BY <1>4
<1>8. Max(H) \in H
  BY <1>5, <1>6, <1>7, MaxIsGreatest
<1>9. HardwareLimit \in Nat
  BY <1>4, <1>8 DEF H, HardwareLimit
<1>10. Min({request.maxParallel, HardwareLimit}) \in Nat
  <2>1. request.maxParallel \in Nat /\ request.maxParallel \in Int /\ HardwareLimit \in Int
    BY <1>9, RequestTyped
  <2>2. Min({request.maxParallel, HardwareLimit}) \in {request.maxParallel, HardwareLimit}
    BY <1>9, <2>1, MinOfTwo
  <2>q. QED
    BY <1>9, <2>1, <2>2
<1>q. QED
  BY <1>9, <1>10 DEF MaxParallel

\* The shards of one serve point, as PhaseShards has them.
ShardCount(p, s) ==
    Min({request.bench[p], MaxParallel, NGpus \div request.serve[s]})
OfServe(p, s) ==
    [i \in 1..ShardCount(p, s) |->
        Shard(s, Partition(request.bench[p], ShardCount(p, s))[i])]
ByServe(p) == [s \in DOMAIN request.serve |-> OfServe(p, s)]
ShardRecord == [world : 1..NGpus, points : Points]

LEMMA PhaseShardsByServe ==
    ASSUME NEW p
    PROVE  PhaseShards(p) = FlattenSeq(ByServe(p))
BY DEF PhaseShards, ByServe, OfServe, ShardCount

\* Every serve point that fits is cut into at least one part, and none is empty.
LEMMA ShardCountBounded ==
    ASSUME request \in Requests, Max(WorldSizes) <= NGpus, MaxParallel > 1,
           NEW p \in Phases, NEW s \in DOMAIN request.serve
    PROVE  /\ ShardCount(p, s) \in 1..request.bench[p]
           /\ request.bench[p] \in Nat \ {0}
<1> DEFINE a == request.bench[p]
           b == MaxParallel
           c == NGpus \div request.serve[s]
<1>1. a \in Nat \ {0}
  BY RequestTyped DEF Phases
<1>2. b \in Nat /\ b >= 1
  BY MaxParallelTyped
<1>3. c \in Nat /\ c >= 1
  <2>1. request.serve[s] \in Nat \ {0} /\ request.serve[s] <= NGpus /\ NGpus \in Nat
    BY WorldsBounded, RequestTyped
  <2>q. QED
    BY <2>1, PositiveQuotient
<1> HIDE DEF a, b, c
<1>4. IsFiniteSet({a, b, c})
  <2>1. IsFiniteSet({a}) /\ {a, b, c} = ({a} \cup {b}) \cup {c}
    BY FS_Singleton
  <2>2. IsFiniteSet({a} \cup {b})
    BY <2>1, FS_AddElement
  <2>3. IsFiniteSet(({a} \cup {b}) \cup {c})
    BY <2>2, FS_AddElement
  <2>q. QED
    BY <2>1, <2>3
<1>5. Min({a, b, c}) \in {a, b, c} /\ Min({a, b, c}) <= a
  <2>1. \A x \in {a, b, c} : x \in Int
    BY <1>1, <1>2, <1>3
  <2>2. {a, b, c} # {} /\ a \in {a, b, c}
    OBVIOUS
  <2>q. QED
    BY <2>1, <2>2, <1>4, MinIsLeast
<1>6. Min({a, b, c}) \in 1..a
  BY <1>1, <1>2, <1>3, <1>5
<1>q. QED
  BY <1>1, <1>6 DEF ShardCount, a, b, c

LEMMA OfServeTyped ==
    ASSUME request \in Requests, Max(WorldSizes) <= NGpus, MaxParallel > 1,
           NEW p \in Phases, NEW s \in DOMAIN request.serve
    PROVE  /\ OfServe(p, s) \in Seq(ShardRecord)
           /\ Len(OfServe(p, s)) = ShardCount(p, s)
<1> DEFINE n == request.bench[p]
           c == ShardCount(p, s)
<1>1. c \in 1..n /\ n \in Nat \ {0}
  BY ShardCountBounded
<1>2. s \in Nat /\ request.serve[s] \in 1..NGpus
  <2>1. /\ request.serve[s] \in Nat \ {0} /\ request.serve[s] <= Max(WorldSizes)
        /\ Max(WorldSizes) \in Nat
    BY WorldsBounded
  <2>2. NGpus \in Nat /\ s \in Nat
    BY RequestTyped
  <2>q. QED
    BY <2>1, <2>2
<1> HIDE DEF n, c
<1>3. ASSUME NEW i \in 1..c
      PROVE  Shard(s, Partition(n, c)[i]) \in ShardRecord
  <2> DEFINE P == {b \in 1..n : b % c = i % c}
             Q == {<<s, b>> : b \in P}
  <2>1. IsFiniteSet({s} \X (1..n))
    <3>1. IsFiniteSet({s})
      BY FS_Singleton
    <3>2. IsFiniteSet(1..n)
      BY <1>1, FS_Interval
    <3>q. QED
      BY <3>1, <3>2, FS_Product
  <2>2. Q \in SUBSET ({s} \X (1..n))
    OBVIOUS
  <2>3. IsFiniteSet(Q)
    BY <2>1, <2>2, FS_Subset
  <2>4. Q \in SUBSET (Nat \X Nat)
    BY <1>1, <1>2, <2>2
  <2>5. Partition(n, c)[i] = P
    BY DEF Partition
  <2> HIDE DEF P
  <2>6. Shard(s, P) = [world |-> request.serve[s], points |-> Q]
    BY DEF Shard
  <2> HIDE DEF Q
  <2>q. QED
    BY <1>2, <2>3, <2>4, <2>5, <2>6 DEF ShardRecord, Points
<1>4. OfServe(p, s) = [i \in 1..c |-> Shard(s, Partition(n, c)[i])]
  BY DEF OfServe, n, c
<1>5. c \in Nat
  BY <1>1
<1>6. OfServe(p, s) \in [1..c -> ShardRecord]
  BY <1>3, <1>4
<1>q. QED
  BY <1>5, <1>6 DEF c

\* A member of the list of shards for each pair of a serve point and a part.
LEMMA PhaseShardsTyped ==
    ASSUME request \in Requests, Max(WorldSizes) <= NGpus, MaxParallel > 1,
           NEW p \in Phases
    PROVE  /\ PhaseShards(p) \in Seq(ShardRecord) /\ Len(PhaseShards(p)) \in Nat \ {0}
           /\ \E at : ComesFrom(PhaseShards(p), at, ByServe(p), Len(request.serve))
<1> DEFINE ss == ByServe(p)
           n == Len(request.serve)
<1>1. n \in Nat \ {0} /\ DOMAIN request.serve = 1..n
  BY RequestTyped
<1>2. \A s \in 1..n : ss[s] = OfServe(p, s) /\ ss[s] \in Seq(ShardRecord)
  BY <1>1, OfServeTyped DEF ByServe
<1>3. ss \in Seq(Seq(ShardRecord)) /\ Len(ss) = n
  <2>1. DOMAIN ss = 1..n /\ ss = [s \in 1..n |-> ss[s]]
    BY <1>1 DEF ByServe
  <2> HIDE DEF ss, n
  <2>2. ss \in [1..n -> Seq(ShardRecord)]
    BY <1>2, <2>1
  <2>q. QED
    BY <2>2, <1>1
<1>4. PhaseShards(p) = FlattenSeq(ss)
  BY PhaseShardsByServe
<1>5. <<1, 1>> \in Places(ss, n)
  <2>1. Len(OfServe(p, 1)) >= 1 /\ 1 \in 1..n /\ Len(OfServe(p, 1)) \in Nat
    <3>1. 1 \in DOMAIN request.serve /\ 1 \in 1..n
      BY <1>1
    <3>2. Len(OfServe(p, 1)) \in 1..request.bench[p] /\ request.bench[p] \in Nat
      BY <3>1, OfServeTyped, ShardCountBounded
    <3>q. QED
      BY <3>1, <3>2
  <2>2. ss[1] = OfServe(p, 1)
    BY <1>2, <2>1
  <2> HIDE DEF ss, n
  <2>q. QED
    BY <2>1, <2>2 DEF Places
<1> HIDE DEF ss, n
<1>6. FlattenSeq(ss) \in Seq(ShardRecord)
  BY <1>1, <1>3, FlattenPlaces
<1>7. PICK at : ComesFrom(FlattenSeq(ss), at, ss, n)
  BY <1>1, <1>3, FlattenPlaces
<1>8. \E k \in 1..Len(FlattenSeq(ss)) : at[k] = <<1, 1>>
  BY <1>5, <1>7 DEF ComesFrom
<1>9. Len(FlattenSeq(ss)) \in Nat \ {0}
  BY <1>6, <1>8
<1>q. QED
  BY <1>4, <1>6, <1>7, <1>9 DEF ss, n

\* The timing shards of a phase before its trace shards.
MeasuredTwice(p) == Measured(p, "timing") \o Measured(p, "trace")

LEMMA MeasuredTyped ==
    ASSUME request \in Requests, Max(WorldSizes) <= NGpus, MaxParallel > 1,
           NEW p \in Phases, NEW m \in Measurement
    PROVE  /\ Measured(p, m) \in Seq(JobSpec)
           /\ Len(Measured(p, m)) = Len(PhaseShards(p))
           /\ \A k \in 1..Len(PhaseShards(p)) :
                Measured(p, m)[k] = [phase |-> p, measurement |-> m, shard |-> k,
                                     world |-> PhaseShards(p)[k].world,
                                     points |-> PhaseShards(p)[k].points]
<1> DEFINE sh == PhaseShards(p)
           n == Len(sh)
           rec(k) == [phase |-> p, measurement |-> m, shard |-> k,
                      world |-> sh[k].world, points |-> sh[k].points]
<1>1. sh \in Seq(ShardRecord) /\ n \in Nat /\ DOMAIN sh = 1..n
  BY PhaseShardsTyped
<1>2. Measured(p, m) = [k \in 1..n |-> rec(k)]
  BY <1>1 DEF Measured
<1>3. p \in Nat
  BY RequestTyped DEF Phases
<1> HIDE DEF sh
<1>4. \A k \in 1..n : rec(k) \in JobSpec
  <2> SUFFICES ASSUME NEW k \in 1..n PROVE rec(k) \in JobSpec
    OBVIOUS
  <2>1. sh[k] \in ShardRecord /\ k \in Nat
    BY <1>1
  <2>q. QED
    BY <2>1, <1>3 DEF ShardRecord, JobSpec
<1> HIDE DEF rec, n
<1>5. Measured(p, m) \in [1..n -> JobSpec]
  BY <1>2, <1>4
<1>6. Measured(p, m) \in Seq(JobSpec) /\ Len(Measured(p, m)) = n
  BY <1>1, <1>5
<1>q. QED
  BY <1>2, <1>6 DEF sh, n, rec

LEMMA ParallelSpecsTyped ==
    ASSUME request \in Requests, Max(WorldSizes) <= NGpus, MaxParallel > 1
    PROVE  /\ ParallelSpecs \in Seq(JobSpec) /\ Len(ParallelSpecs) \in Nat \ {0}
           /\ \E at : ComesFrom(ParallelSpecs, at,
                                [p \in Phases |-> MeasuredTwice(p)],
                                Len(request.bench))
<1> DEFINE ss == [p \in Phases |-> MeasuredTwice(p)]
           n == Len(request.bench)
<1>1. n \in Nat \ {0} /\ Phases = 1..n
  BY RequestTyped DEF Phases
<1>2. \A p \in 1..n : MeasuredTwice(p) \in Seq(JobSpec) /\ Len(MeasuredTwice(p)) >= 1
  <2> SUFFICES ASSUME NEW p \in Phases
               PROVE  MeasuredTwice(p) \in Seq(JobSpec) /\ Len(MeasuredTwice(p)) >= 1
    BY <1>1
  <2>1. /\ Measured(p, "timing") \in Seq(JobSpec) /\ Measured(p, "trace") \in Seq(JobSpec)
        /\ Len(Measured(p, "timing")) = Len(PhaseShards(p))
    BY MeasuredTyped DEF Measurement
  <2>2. Len(PhaseShards(p)) \in Nat \ {0}
    BY PhaseShardsTyped
  <2>q. QED
    BY <2>1, <2>2 DEF MeasuredTwice
<1>3. ss \in Seq(Seq(JobSpec)) /\ Len(ss) = n /\ \A p \in 1..n : ss[p] = MeasuredTwice(p)
  <2>1. ss \in [1..n -> Seq(JobSpec)]
    BY <1>1, <1>2
  <2>2. \A p \in 1..n : ss[p] = MeasuredTwice(p)
    BY <1>1
  <2> HIDE DEF ss, n
  <2>q. QED
    BY <1>1, <2>1, <2>2
<1>4. ParallelSpecs = FlattenSeq(ss)
  BY DEF ParallelSpecs, MeasuredTwice
<1>5. <<1, 1>> \in Places(ss, n)
  <2> HIDE DEF ss, n
  <2>1. 1 \in 1..n /\ ss[1] = MeasuredTwice(1) /\ Len(ss[1]) \in Nat /\ Len(ss[1]) >= 1
    BY <1>1, <1>2, <1>3
  <2>q. QED
    BY <2>1 DEF Places
<1> HIDE DEF ss, n
<1>6. FlattenSeq(ss) \in Seq(JobSpec)
  BY <1>1, <1>3, FlattenPlaces
<1>7. PICK at : ComesFrom(FlattenSeq(ss), at, ss, n)
  BY <1>1, <1>3, FlattenPlaces
<1>8. \E k \in 1..Len(FlattenSeq(ss)) : at[k] = <<1, 1>>
  BY <1>5, <1>7 DEF ComesFrom
<1>9. Len(FlattenSeq(ss)) \in Nat \ {0}
  BY <1>6, <1>8
<1>q. QED
  BY <1>4, <1>6, <1>7, <1>9 DEF ss, n

\* All jobs of a serial profile.
LEMMA SerialJobsTyped ==
    ASSUME request \in Requests, Max(WorldSizes) <= NGpus
    PROVE  /\ SerialJobs \in Seq(Job)
           /\ Len(SerialJobs) = 2 * Len(request.bench)
           /\ SerialJobs # <<>>
<1> DEFINE S == 1..Len(request.serve)
           n == Len(request.bench)
           world == Max(WorldSizes)
           all(p) == {<<s, b>> : s \in DOMAIN request.serve, b \in 1..request.bench[p]}
           m(w) == IF w % 2 = 1 THEN "timing" ELSE "trace"
           job(p, mm, w) == [phase |-> p, measurement |-> mm, shard |-> 0,
                             world |-> world, points |-> all(p), wave |-> w,
                             gpus |-> 1..world, port |-> NoPort]
<1>1. /\ n \in Nat \ {0} /\ DOMAIN request.serve = S /\ IsFiniteSet(S)
      /\ world \in 1..NGpus /\ 1..world \subseteq Gpus /\ S \subseteq Nat
  <2>1. Len(request.serve) \in Nat /\ IsFiniteSet(S)
    <3>1. Len(request.serve) \in Nat
      BY RequestTyped
    <3>q. QED
      BY <3>1, FS_Interval
  <2>2. world \in Nat \ {0} /\ world <= NGpus /\ NGpus \in Nat
    BY WorldsBounded, RequestTyped
  <2>3. 1..world \subseteq Gpus
    BY <2>2 DEF Gpus
  <2>q. QED
    BY <2>1, <2>2, <2>3, RequestTyped
<1>2. \A w \in 1..(2 * n) : (w + 1) \div 2 \in 1..n
  <2> HIDE DEF n
  <2>q. QED
    BY <1>1
<1>3. ASSUME NEW p \in 1..n
      PROVE  all(p) \in Points
  <2>1. request.bench[p] \in Nat
    BY RequestTyped
  <2> DEFINE B == 1..request.bench[p]
  <2>2. IsFiniteSet(B) /\ B \subseteq Nat
    <3>1. IsFiniteSet(B)
      BY <2>1, FS_Interval
    <3>q. QED
      BY <3>1
  <2> HIDE DEF B, S
  <2>3. IsFiniteSet(S \X B)
    BY <1>1, <2>2, FS_Product
  <2>4. all(p) = S \X B
    BY <1>1 DEF B
  <2>5. S \X B \in SUBSET (Nat \X Nat)
    BY <1>1, <2>2
  <2> HIDE DEF all
  <2>6. all(p) \in SUBSET (Nat \X Nat) /\ IsFiniteSet(all(p))
    BY <2>3, <2>4, <2>5
  <2>q. QED
    BY <2>6 DEF Points
<1>4. SerialJobs = [w \in 1..(2 * n) |-> job((w + 1) \div 2, m(w), w)]
  BY DEF SerialJobs
<1>5. \A w \in 1..(2 * n) : m(w) \in Measurement /\ w \in Nat
  BY DEF Measurement
<1> HIDE DEF n, m, world, all
<1>6. \A p \in 1..n, mm \in Measurement, w \in Nat : job(p, mm, w) \in Job
  <2> SUFFICES ASSUME NEW p \in 1..n, NEW mm \in Measurement, NEW w \in Nat
               PROVE  job(p, mm, w) \in Job
    OBVIOUS
  <2>q. QED
    BY <1>1, <1>3 DEF Job
<1> HIDE DEF job
<1>7. SerialJobs \in [1..(2 * n) -> Job]
  BY <1>2, <1>4, <1>5, <1>6
<1>8. 2 * n \in Nat /\ 2 * n # 0
  BY <1>1
<1>9. SerialJobs \in Seq(Job) /\ Len(SerialJobs) = 2 * n
  BY <1>7, <1>8
<1>q. QED
  BY <1>8, <1>9 DEF n

-----------------------------------------------------------------------------
\* Preparing keeps its types

\* The wave a shard goes to: one that exists and fits, or the next one.
LEMMA SelectedWaveTyped ==
    ASSUME PlanTyped, NEW spec, spec.world \in 1..NGpus
    PROVE  /\ SelectedWave(spec) \in 1..(Len(waves) + 1)
           /\ \/ SelectedWave(spec) = Len(waves) + 1
              \/ /\ SelectedWave(spec) \in DOMAIN waves
                 /\ Fits(SelectedWave(spec), spec)
           /\ WithWave(SelectedWave(spec)) \in Seq(Wave)
           /\ SelectedWave(spec) \in DOMAIN WithWave(SelectedWave(spec))
           /\ Len(WithWave(SelectedWave(spec))[SelectedWave(spec)].available)
                 >= spec.world
<1> DEFINE F == {w \in DOMAIN waves : Fits(w, spec)}
           S == F \cup {Len(waves) + 1}
<1>1. Len(waves) \in Nat /\ DOMAIN waves = 1..Len(waves) /\ waves \in Seq(Wave)
  BY DEF PlanTyped
<1>2. S \in SUBSET (1..(Len(waves) + 1)) /\ S # {}
  BY <1>1
<1>3. IsFiniteSet(S)
  <2>1. IsFiniteSet(1..(Len(waves) + 1))
    BY <1>1, FS_Interval
  <2> HIDE DEF S
  <2>q. QED
    BY <2>1, <1>2, FS_Subset
<1>4. Min(S) \in S
  <2>1. \A x \in S : x \in Int
    BY <1>1
  <2> HIDE DEF S
  <2>q. QED
    BY <2>1, <1>2, <1>3, MinIsLeast
<1>5. SelectedWave(spec) = Min(S)
  BY DEF SelectedWave
<1> DEFINE w == SelectedWave(spec)
<1>6. w \in 1..(Len(waves) + 1) /\ (w = Len(waves) + 1 \/ w \in F)
  BY <1>2, <1>4, <1>5
<1> HIDE DEF w
<1>7. /\ WithWave(w) \in Seq(Wave) /\ w \in DOMAIN WithWave(w)
      /\ Len(WithWave(w)[w].available) >= spec.world
  <2>1. CASE w \in DOMAIN waves
    <3>1. w # Len(waves) + 1
      BY <2>1, <1>1
    <3>2. Fits(w, spec)
      BY <3>1, <1>6
    <3>q. QED
      BY <2>1, <3>2, <1>1 DEF WithWave, Fits
  <2>2. CASE w \notin DOMAIN waves
    <3> DEFINE all == [g \in Gpus |-> g]
               new == [available |-> all, workers |-> 0]
    <3>1. w = Len(waves) + 1
      BY <2>2, <1>6
    <3>2. all \in Seq(Gpus) /\ Len(all) = NGpus
      BY PrepareAssumption DEF Gpus
    <3> HIDE DEF all
    <3>3. new \in Wave /\ new.available = all
      BY <3>2 DEF Wave
    <3>4. WithWave(w) = Append(waves, new)
      BY <2>2 DEF WithWave, all
    <3> HIDE DEF new
    <3>5. Append(waves, new) \in Seq(Wave) /\ w \in DOMAIN Append(waves, new)
          /\ Append(waves, new)[w] = new
      BY <3>1, <3>3, <1>1
    <3>6. NGpus >= spec.world
      BY PrepareAssumption
    <3>q. QED
      BY <3>2, <3>3, <3>4, <3>5, <3>6
  <2>q. QED
    BY <2>1, <2>2
<1>q. QED
  BY <1>6, <1>7 DEF w

LEMMA PlanInit ==
    ASSUME PrepareInit
    PROVE  PlanTyped
BY DEF PrepareInit, PlanTyped

LEMMA PlanKept ==
    ASSUME PlanTyped, UNCHANGED prepareVars
    PROVE  PlanTyped'
BY DEF PlanTyped, prepareVars, JobSpec, Job, Wave, Gpus, Points

LEMMA RejectTyped ==
    ASSUME PlanTyped, Reject
    PROVE  PlanTyped'
BY DEF PlanTyped, Reject

LEMMA PrepareSerialTyped ==
    ASSUME PlanTyped, PrepareSerial
    PROVE  PlanTyped'
<1>1. SerialJobs \in Seq(Job) /\ SerialJobs # <<>>
  BY SerialJobsTyped DEF PlanTyped, PrepareSerial
<1>q. QED
  BY <1>1 DEF PlanTyped, PrepareSerial

LEMMA PrepareParallelTyped ==
    ASSUME PlanTyped, PrepareParallel
    PROVE  PlanTyped'
<1>1. /\ request \in Requests /\ Max(WorldSizes) <= NGpus /\ MaxParallel > 1
      /\ specs' = ParallelSpecs /\ stage' = "placing"
      /\ UNCHANGED <<request, waves, jobs>>
      /\ limit' = Min({MaxParallel, Len(specs')})
  BY DEF PlanTyped, PrepareParallel
<1>2. ParallelSpecs \in Seq(JobSpec) /\ Len(ParallelSpecs) \in Nat \ {0}
  BY <1>1, ParallelSpecsTyped
<1>3. MaxParallel \in Nat
  BY <1>1, MaxParallelTyped
<1>4. limit' \in Nat
  <2>1. Len(ParallelSpecs) \in Nat /\ limit' = Min({MaxParallel, Len(ParallelSpecs)})
    BY <1>1, <1>2
  <2>2. MaxParallel \in Int /\ Len(ParallelSpecs) \in Int
    BY <1>3, <2>1
  <2>3. Min({MaxParallel, Len(ParallelSpecs)}) \in {MaxParallel, Len(ParallelSpecs)}
    BY <2>2, MinOfTwo
  <2>q. QED
    BY <1>3, <2>1, <2>3
<1>5. ParallelSpecs # <<>>
  BY <1>2
<1>q. QED
  BY <1>1, <1>2, <1>4, <1>5 DEF PlanTyped

\* The job of a shard and the wave it leaves behind.
Placed(spec, w) ==
    LET wave == WithWave(w)[w]
    IN  [phase |-> spec.phase, measurement |-> spec.measurement,
         shard |-> spec.shard, world |-> spec.world,
         points |-> spec.points, wave |-> w, port |-> wave.workers + 1,
         gpus |-> ToSet(SubSeq(wave.available, 1, spec.world))]
LeftOver(spec, w) ==
    LET wave == WithWave(w)[w]
    IN  [available |-> SubSeq(wave.available, spec.world + 1, Len(wave.available)),
         workers |-> wave.workers + 1]

LEMMA PlaceSpecIs ==
    ASSUME PlaceSpec, NEW spec, spec = Head(specs), NEW w, w = SelectedWave(spec)
    PROVE  /\ stage = "placing" /\ specs' = Tail(specs)
           /\ jobs' = Append(jobs, Placed(spec, w))
           /\ waves' = [WithWave(w) EXCEPT ![w] = LeftOver(spec, w)]
           /\ stage' = IF Len(specs) = 1 THEN "prepared" ELSE "placing"
           /\ UNCHANGED <<request, limit>>
BY DEF PlaceSpec, Placed, LeftOver

LEMMA PlaceSpecTyped ==
    ASSUME PlanTyped, PlaceSpec
    PROVE  PlanTyped'
<1> DEFINE spec == Head(specs)
           w == SelectedWave(spec)
           W == WithWave(w)
<1>1. /\ stage = "placing" /\ specs' = Tail(specs)
      /\ jobs' = Append(jobs, Placed(spec, w))
      /\ waves' = [W EXCEPT ![w] = LeftOver(spec, w)]
      /\ stage' = IF Len(specs) = 1 THEN "prepared" ELSE "placing"
      /\ UNCHANGED <<request, limit>>
  BY PlaceSpecIs
<1>2. specs \in Seq(JobSpec) /\ specs # <<>> /\ spec \in JobSpec /\ Tail(specs) \in Seq(JobSpec)
      /\ (Len(specs) # 1 => Tail(specs) # <<>>)
  <2>1. specs \in Seq(JobSpec) /\ specs # <<>>
    BY <1>1 DEF PlanTyped
  <2>2. spec \in JobSpec /\ Tail(specs) \in Seq(JobSpec)
    BY <2>1
  <2>3. Len(Tail(specs)) = Len(specs) - 1 /\ Len(specs) \in Nat
    BY <2>1
  <2> DEFINE rest == Tail(specs)
  <2>4. rest = <<>> => Len(rest) = 0
    OBVIOUS
  <2>5. Len(rest) = Len(specs) - 1 /\ Len(specs) \in Nat /\ rest \in Seq(JobSpec)
    BY <2>2, <2>3
  <2> HIDE DEF rest
  <2>6. Len(specs) # 1 => rest # <<>>
    BY <2>4, <2>5
  <2>q. QED
    BY <2>1, <2>2, <2>6 DEF rest
<1>3. /\ W \in Seq(Wave) /\ w \in DOMAIN W /\ w \in Nat
      /\ Len(W[w].available) >= spec.world /\ spec.world \in 1..NGpus
  <2>1. spec.world \in 1..NGpus
    BY <1>2 DEF JobSpec
  <2>2. w \in 1..(Len(waves) + 1) /\ Len(waves) \in Nat
    BY <2>1, SelectedWaveTyped DEF PlanTyped
  <2>q. QED
    BY <2>1, <2>2, SelectedWaveTyped
<1>4. W[w] \in Wave
  BY <1>3
<1> HIDE DEF spec, w, W
<1>5. LeftOver(spec, w) \in Wave /\ Placed(spec, w) \in Job
  <2> DEFINE av == W[w].available
             n == spec.world
  <2>1. /\ av \in Seq(Gpus) /\ n \in Nat /\ W[w].workers \in Nat
        /\ n <= Len(av)
    BY <1>2, <1>3, <1>4 DEF Wave, JobSpec
  <2> HIDE DEF av, n
  <2>2. \A k \in 1..Len(av) : av[k] \in Gpus
    BY <2>1
  <2>3. Len(av) \in Nat /\ av = [k \in 1..Len(av) |-> av[k]]
    BY <2>1
  <2>4. SubSeq(av, n + 1, Len(av)) \in Seq(Gpus)
    BY <2>1, <2>3
  <2>5. ToSet(SubSeq(av, 1, n)) \in SUBSET Gpus
    <3>1. SubSeq(av, 1, n) \in Seq(Gpus)
      BY <2>1, <2>3
    <3> DEFINE sub == SubSeq(av, 1, n)
    <3>2. \A k \in DOMAIN sub : sub[k] \in Gpus
      BY <3>1
    <3> HIDE DEF sub
    <3>3. ToSet(sub) \in SUBSET Gpus
      BY <3>2 DEF ToSet
    <3>q. QED
      BY <3>3 DEF sub
  <2>6. W[w].workers + 1 \in Nat
    BY <2>1
  <2>q. QED
    BY <1>2, <1>3, <2>4, <2>5, <2>6
    DEF LeftOver, Placed, Wave, Job, JobSpec, W, av, n
<1>6. waves' \in Seq(Wave) /\ jobs' \in Seq(Job) /\ jobs' # <<>>
  <2>1. Len(W) \in Nat /\ W \in [1..Len(W) -> Wave] /\ w \in 1..Len(W)
    BY <1>3
  <2>2. waves' \in [1..Len(W) -> Wave]
    BY <2>1, <1>1, <1>5
  <2>3. waves' \in Seq(Wave)
    BY <2>1, <2>2
  <2>4. jobs \in Seq(Job)
    BY DEF PlanTyped
  <2>5. jobs' \in Seq(Job) /\ Len(jobs') = Len(jobs) + 1 /\ Len(jobs) \in Nat
    BY <2>4, <1>1, <1>5
  <2>q. QED
    BY <2>3, <2>5
<1>q. QED
  BY <1>1, <1>2, <1>6 DEF PlanTyped

LEMMA PrepareTyped ==
    ASSUME PlanTyped, PrepareStep
    PROVE  PlanTyped'
BY RejectTyped, PrepareSerialTyped, PrepareParallelTyped, PlaceSpecTyped
DEF PrepareStep

-----------------------------------------------------------------------------
\* The invariant of one job

\* The startup gate has a number of permits.
LEMMA PermitsTyped ==
    ASSUME PlanTyped, jobs # <<>>
    PROVE  Permits \in Nat
<1> DEFINE size == [j \in Jobs |-> Cardinality({i \in Jobs : jobs[i].wave = jobs[j].wave})]
           S == {Cardinality({i \in Jobs : jobs[i].wave = jobs[j].wave}) : j \in Jobs}
<1>1. Len(jobs) \in Nat /\ Jobs = 1..Len(jobs) /\ Len(jobs) # 0
  BY DEF PlanTyped, Jobs
<1>2. IsFiniteSet(Jobs) /\ Jobs # {}
  <2>1. IsFiniteSet(1..Len(jobs))
    BY <1>1, FS_Interval
  <2>q. QED
    BY <2>1, <1>1
<1>3. \A j \in Jobs : Cardinality({i \in Jobs : jobs[i].wave = jobs[j].wave}) \in Nat
  <2> SUFFICES ASSUME NEW j \in Jobs
               PROVE  Cardinality({i \in Jobs : jobs[i].wave = jobs[j].wave}) \in Nat
    OBVIOUS
  <2> DEFINE T == {i \in Jobs : jobs[i].wave = jobs[j].wave}
  <2>1. T \in SUBSET Jobs
    OBVIOUS
  <2> HIDE DEF T
  <2>2. IsFiniteSet(T)
    BY <2>1, <1>2, FS_Subset
  <2>3. Cardinality(T) \in Nat
    BY <2>2, FS_CardinalityType
  <2>q. QED
    BY <2>3 DEF T
<1>4. S = {size[j] : j \in Jobs} /\ DOMAIN size = Jobs
  OBVIOUS
<1>5. IsFiniteSet({size[j] : j \in Jobs})
  <2> HIDE DEF size
  <2>q. QED
    BY <1>2, <1>4, FiniteImage
<1>6. S # {} /\ \A x \in S : x \in Nat
  BY <1>2, <1>3
<1>7. IsFiniteSet(S) /\ WorkerCount = Max(S)
  BY <1>4, <1>5 DEF WorkerCount
<1> HIDE DEF S, size
<1>8. \A x \in S : x \in Int
  BY <1>6
<1>9. Max(S) \in S
  BY <1>6, <1>7, <1>8, MaxIsGreatest
<1>10. WorkerCount \in Int /\ MaxStartups \in Int /\ WorkerCount \in Nat /\ MaxStartups \in Nat
  BY <1>6, <1>7, <1>9, ExecutorAssumption
<1>11. Min({MaxStartups, WorkerCount}) \in {MaxStartups, WorkerCount}
  BY <1>10, MinOfTwo
<1>q. QED
  BY <1>10, <1>11 DEF Permits

LEMMA CompleteIsComplete ==
    \A j : JobIsComplete(j) <=> Complete(j, files[j])
BY DEF JobIsComplete, Complete

LEMMA FilesCounted ==
    ASSUME PlanTyped, NEW j \in Jobs, NEW f \in Files(j)
    PROVE  /\ IsFiniteSet(f.runs) /\ Cardinality(f.runs) \in Nat
           /\ IsFiniteSet(jobs[j].points) /\ Cardinality(jobs[j].points) \in Nat
           /\ f.traces \in Nat
<1>1. jobs[j] \in Job
  BY DEF PlanTyped, Jobs
<1>2. IsFiniteSet(jobs[j].points)
  BY <1>1 DEF Job, Points
<1>3. f.runs \in SUBSET jobs[j].points /\ f.traces \in Nat
  BY DEF Files
<1>4. IsFiniteSet(f.runs)
  BY <1>2, <1>3, FS_Subset
<1>5. Cardinality(f.runs) \in Nat
  BY <1>4, FS_CardinalityType
<1>6. Cardinality(jobs[j].points) \in Nat
  BY <1>2, FS_CardinalityType
<1>q. QED
  BY <1>2, <1>3, <1>4, <1>5, <1>6

\* A process that is no more leaves the files as they are.
LEMMA JobReset ==
    ASSUME PlanTyped, NEW j \in Jobs, NEW w, NEW s \in Sweep, NEW f \in Files(j),
           JobOK(j, w, s, f)
    PROVE  NoSweep \in Sweep /\ JobOK(j, "none", NoSweep, f)
<1>1. NoSweep \in Sweep
  BY DEF NoSweep, Sweep
<1>2. SweepOK(j, NoSweep, f) /\ ThreadOK(j, "none", NoSweep, f)
  BY DEF JobOK, SweepOK, ThreadOK, NoSweep
<1>3. FilesOK(j, NoSweep, f)
  <2>1. f.traces \in Nat /\ Cardinality(f.runs) \in Nat /\ Iterations \in Nat
    BY FilesCounted, ExecutorAssumption
  <2>2. NoSweep.done = 0
    BY DEF NoSweep
  <2>q. QED
    BY <2>1, <2>2 DEF JobOK, FilesOK
<1>q. QED
  BY <1>1, <1>2, <1>3 DEF JobOK

LEMMA JobNew ==
    ASSUME PlanTyped, NEW j \in Jobs
    PROVE  /\ NoFiles(j) \in Files(j) /\ NoSweep \in Sweep
           /\ JobOK(j, "none", NoSweep, NoFiles(j))
<1>1. NoFiles(j) \in Files(j) /\ NoSweep \in Sweep
  BY DEF NoFiles, Files, NoSweep, Sweep
<1>2. Cardinality({}) = 0 /\ Iterations \in Nat
  BY FS_EmptySet, ExecutorAssumption
<1>3. /\ NoFiles(j).runs = {} /\ NoFiles(j).traces = 0
      /\ NoSweep.state = "none" /\ NoSweep.done = 0 /\ NoSweep.todo = {}
      /\ NoSweep.at = {} /\ NoSweep.ready = "no"
  BY DEF NoFiles, NoSweep
<1>q. QED
  BY <1>1, <1>2, <1>3 DEF JobOK, SweepOK, FilesOK, ThreadOK

\* A step of one job: nothing happens to the others.
LEMMA JobFrame ==
    ASSUME ExecInv, NEW j \in DOMAIN worker, UNCHANGED prepareVars,
           NEW w \in WorkerState, NEW s \in Sweep, NEW f \in Files(j),
           JobOK(j, w, s, f),
           worker' = [worker EXCEPT ![j] = w], sweep' = [sweep EXCEPT ![j] = s],
           files' = [files EXCEPT ![j] = f]
    PROVE  PlanTyped' /\ Started' /\ \A i \in DOMAIN worker' : JobInv(i)'
<1>1. Started
  BY DEF ExecInv, NotStarted
<1>2. PlanTyped'
  BY PlanKept DEF ExecInv
<1>3. Jobs' = Jobs /\ jobs' = jobs /\ stage' = stage
  BY DEF prepareVars, Jobs
<1>4. /\ worker' \in [Jobs -> WorkerState] /\ sweep' \in [Jobs -> Sweep]
      /\ DOMAIN files' = Jobs /\ files' = [i \in Jobs |-> files'[i]]
  BY <1>1 DEF Started
<1>5. /\ worker'[j] = w /\ sweep'[j] = s /\ files'[j] = f
      /\ \A i \in Jobs : i # j => /\ worker'[i] = worker[i] /\ sweep'[i] = sweep[i]
                                  /\ files'[i] = files[i]
  BY <1>1 DEF Started
<1>6. \A i \in Jobs : files'[i] \in Files(i)
  BY <1>1, <1>5 DEF Started
<1>7. \A i : Files(i)' = Files(i)
  BY <1>3 DEF Files
<1>8. Started'
  BY <1>1, <1>3, <1>4, <1>6, <1>7 DEF Started
<1>9. \A i \in Jobs : JobOK(i, worker'[i], sweep'[i], files'[i])
  BY <1>1, <1>5 DEF ExecInv, Started, JobInv
<1>10. \A i \in Jobs : JobInv(i)'
  BY <1>3, <1>9 DEF JobInv, JobOK, SweepOK, FilesOK, ThreadOK, Complete
<1>q. QED
  BY <1>2, <1>4, <1>8, <1>10

-----------------------------------------------------------------------------
\* The worker threads

LEMMA IsStarted ==
    ASSUME ExecInv, DOMAIN worker # {} \/ main # "idle"
    PROVE  /\ Started /\ DOMAIN worker = Jobs /\ jobs # <<>> /\ PlanTyped
           /\ jobs \in Seq(Job) /\ IsFiniteSet(Jobs)
           /\ \A j \in Jobs : JobInv(j) /\ sweep[j] \in Sweep /\ files[j] \in Files(j)
<1>1. Started
  BY DEF ExecInv, NotStarted
<1>2. Len(jobs) \in Nat /\ Jobs = 1..Len(jobs)
  BY DEF ExecInv, PlanTyped, Jobs
<1>3. IsFiniteSet(1..Len(jobs))
  BY <1>2, FS_Interval
<1>q. QED
  BY <1>1, <1>2, <1>3 DEF ExecInv, Started, PlanTyped

\* How a thread may treat the startup gate while it goes on to w.
GateStep(j, w, s) ==
  \/ ReleaseStartup(j)
  \/ /\ UNCHANGED <<permits, holds>>
     /\ j \in holds => w \in {"launching", "reading"} /\ s.ready # "read"
  \/ /\ worker[j] = "gate" /\ w = "launching" /\ s.ready # "read" /\ permits > 0
     /\ permits' = permits - 1 /\ holds' = holds \cup {j}

LEMMA GateFrame ==
    ASSUME ExecInv, NEW j \in DOMAIN worker, NEW w \in WorkerState, NEW s \in Sweep,
           jobs' = jobs, main' = main, main # "idle",
           worker' = [worker EXCEPT ![j] = w], sweep' = [sweep EXCEPT ![j] = s],
           GateStep(j, w, s)
    PROVE  PermitInv'
<1>1. /\ Started /\ DOMAIN worker = Jobs /\ jobs # <<>> /\ PlanTyped
      /\ IsFiniteSet(Jobs)
  BY IsStarted
<1>2. Permits \in Nat /\ Permits' = Permits
  BY <1>1, PermitsTyped DEF Permits, WorkerCount, Jobs
<1>3. /\ holds \subseteq Jobs /\ permits \in Nat
      /\ permits + Cardinality(holds) = Permits
      /\ \A i \in holds : /\ worker[i] \in {"launching", "reading"}
                          /\ sweep[i].ready # "read"
  BY <1>1 DEF ExecInv, PermitInv
<1>4. IsFiniteSet(holds) /\ Cardinality(holds) \in Nat
  <2>1. IsFiniteSet(holds)
    BY <1>1, <1>3, FS_Subset
  <2>q. QED
    BY <2>1, FS_CardinalityType
<1>5. /\ DOMAIN worker' = Jobs /\ worker'[j] = w /\ sweep'[j] = s
      /\ \A i \in Jobs : i # j => worker'[i] = worker[i] /\ sweep'[i] = sweep[i]
  BY <1>1 DEF Started
<1>6. CASE ReleaseStartup(j)
  <2>1. IsFiniteSet(holds \ {j})
        /\ Cardinality(holds \ {j}) =
             IF j \in holds THEN Cardinality(holds) - 1 ELSE Cardinality(holds)
    BY <1>4, FS_RemoveElement
  <2>2. permits' \in Nat /\ permits' + Cardinality(holds') = Permits
    BY <2>1, <1>3, <1>4, <1>6 DEF ReleaseStartup
  <2>3. holds' = holds \ {j}
    BY <1>6 DEF ReleaseStartup
  <2>4. \A i \in holds' : worker'[i] = worker[i] /\ sweep'[i] = sweep[i] /\ i \in holds
    BY <2>3, <1>3, <1>5
  <2>q. QED
    BY <2>2, <2>3, <2>4, <1>2, <1>3, <1>5 DEF PermitInv
<1>7. CASE /\ UNCHANGED <<permits, holds>>
           /\ j \in holds => w \in {"launching", "reading"} /\ s.ready # "read"
  BY <1>7, <1>2, <1>3, <1>5 DEF PermitInv
<1>8. CASE /\ worker[j] = "gate" /\ w = "launching" /\ s.ready # "read"
           /\ permits > 0
           /\ permits' = permits - 1 /\ holds' = holds \cup {j}
  <2>1. j \notin holds
    BY <1>3, <1>8
  <2>2. Cardinality(holds \cup {j}) = Cardinality(holds) + 1
    BY <2>1, <1>4, FS_AddElement
  <2>3. permits' \in Nat /\ permits' + Cardinality(holds') = Permits
    BY <2>2, <1>2, <1>3, <1>4, <1>8
  <2>q. QED
    BY <2>3, <1>1, <1>2, <1>3, <1>5, <1>8 DEF PermitInv
<1>q. QED
  BY <1>6, <1>7, <1>8 DEF GateStep

\* A thread the main thread waits for moves on.
LEMMA PoolFrame ==
    ASSUME ExecInv, NEW j \in DOMAIN worker,
           worker[j] \notin {"none", "returned", "raised"},
           NEW w \in WorkerState \ {"none"}, worker' = [worker EXCEPT ![j] = w],
           jobs' = jobs, UNCHANGED poolVars
    PROVE  main # "idle" /\ PoolInv'
<1>1. DOMAIN worker = Jobs /\ worker \in [Jobs -> WorkerState] /\ j \in Jobs
  BY IsStarted DEF Started
<1>2. main # "idle"
  BY DEF ExecInv, PoolInv
<1>3. /\ DOMAIN worker' = DOMAIN worker /\ worker'[j] = w
      /\ \A i \in Jobs : i # j => worker'[i] = worker[i]
  BY <1>1
<1>4. \A i \in Jobs : Believed(i)
  BY <1>1, <1>2 DEF ExecInv, PoolInv
<1>5. j \in running /\ j \notin failures /\ j \notin pending
  BY <1>1, <1>4 DEF Believed, Ended, ExecInv, PoolInv
<1>6. \A i \in Jobs : Believed(i)'
  BY <1>3, <1>4, <1>5 DEF Believed, Ended, poolVars
<1>7. /\ GpusOf(running)' = GpusOf(running) /\ PortsOf(running)' = PortsOf(running)
      /\ Apart(running)' <=> Apart(running)
  BY DEF GpusOf, PortsOf, Apart, Ports, poolVars
<1>q. QED
  BY <1>1, <1>2, <1>3, <1>6, <1>7 DEF ExecInv, PoolInv, poolVars

LEMMA ThreadFrame ==
    ASSUME ExecInv, NEW j \in DOMAIN worker,
           worker[j] \notin {"none", "returned", "raised"},
           NEW w \in WorkerState \ {"none"}, NEW s \in Sweep,
           JobOK(j, w, s, files[j]), WorkerKeeps,
           worker' = [worker EXCEPT ![j] = w], sweep' = [sweep EXCEPT ![j] = s],
           GateStep(j, w, s)
    PROVE  ExecInv'
<1>1. /\ Started /\ DOMAIN worker = Jobs /\ files[j] \in Files(j)
      /\ DOMAIN files = Jobs /\ files = [i \in Jobs |-> files[i]]
  BY IsStarted DEF Started
<1>2. /\ UNCHANGED prepareVars /\ UNCHANGED poolVars /\ files' = files
      /\ jobs' = jobs /\ main' = main
  BY DEF WorkerKeeps, prepareVars, poolVars
<1>3. files' = [files EXCEPT ![j] = files[j]]
  BY <1>1, <1>2
<1>4. PlanTyped' /\ Started' /\ \A i \in DOMAIN worker' : JobInv(i)'
  BY <1>1, <1>2, <1>3, JobFrame
<1>5. main # "idle" /\ PoolInv'
  BY <1>2, PoolFrame
<1>6. PermitInv'
  BY <1>2, <1>5, GateFrame
<1>q. QED
  BY <1>4, <1>5, <1>6 DEF ExecInv

\* What a step of thread j starts from.
LEMMA ThreadContext ==
    ASSUME ExecInv, NEW j \in DOMAIN worker
    PROVE  /\ PlanTyped /\ j \in Jobs /\ sweep[j] \in Sweep /\ files[j] \in Files(j)
           /\ JobOK(j, worker[j], sweep[j], files[j])
           /\ sweep = [sweep EXCEPT ![j] = sweep[j]]
           /\ worker = [worker EXCEPT ![j] = worker[j]]
           /\ files = [files EXCEPT ![j] = files[j]]
           /\ worker \in [Jobs -> WorkerState] /\ sweep \in [Jobs -> Sweep]
           /\ jobs[j] \in Job
<1>1. Started /\ DOMAIN worker = Jobs /\ PlanTyped
  BY IsStarted
<1>2. jobs[j] \in Job
  BY <1>1 DEF PlanTyped, Jobs
<1>q. QED
  BY <1>1, <1>2 DEF Started, ExecInv, JobInv

LEMMA StartJobInv ==
    ASSUME ExecInv, NEW j \in DOMAIN worker, StartJob(j)
    PROVE  ExecInv'
<1> DEFINE s == sweep[j]
           f == files[j]
           t == [s EXCEPT !.resume = f.dir]
<1>1. /\ s \in Sweep /\ f \in Files(j) /\ JobOK(j, "submitted", s, f)
      /\ worker[j] = "submitted" /\ WorkerKeeps /\ UNCHANGED <<permits, holds>>
      /\ sweep = [sweep EXCEPT ![j] = sweep[j]]
  BY ThreadContext DEF StartJob
<1>2. GateStep(j, "gate", t) /\ GateStep(j, "returned", s)
  BY <1>1 DEF GateStep, ExecInv, PermitInv
<1>3. CASE JobIsComplete(j)
  <2>1. worker' = [worker EXCEPT ![j] = "returned"] /\ sweep' = [sweep EXCEPT ![j] = s]
    BY <1>1, <1>3 DEF StartJob
  <2>2. Complete(j, f)
    BY <1>3, CompleteIsComplete
  <2>3. JobOK(j, "returned", s, f)
    BY <1>1, <2>2 DEF JobOK, ThreadOK
  <2>q. QED
    BY <1>1, <1>2, <2>1, <2>3, ThreadFrame DEF WorkerState
<1>4. CASE ~ JobIsComplete(j)
  <2>1. worker' = [worker EXCEPT ![j] = "gate"] /\ sweep' = [sweep EXCEPT ![j] = t]
    BY <1>1, <1>4 DEF StartJob
  <2>2. t \in Sweep
    BY <1>1 DEF Sweep, Files
  <2>3. /\ t.state = s.state /\ t.todo = s.todo /\ t.at = s.at /\ t.done = s.done
        /\ t.ready = s.ready /\ t.resume = f.dir
    BY <1>1 DEF Sweep
  <2>4. JobOK(j, "gate", t, f)
    BY <1>1, <2>3 DEF JobOK, SweepOK, FilesOK, ThreadOK
  <2>q. QED
    BY <1>1, <1>2, <2>1, <2>2, <2>4, ThreadFrame DEF WorkerState
<1>q. QED
  BY <1>3, <1>4

LEMMA PassGateInv ==
    ASSUME ExecInv, NEW j \in DOMAIN worker, AcquirePermit(j) \/ GateTimesOut(j)
    PROVE  ExecInv'
<1> DEFINE s == sweep[j]
           f == files[j]
<1>1. /\ s \in Sweep /\ f \in Files(j) /\ JobOK(j, "gate", s, f)
      /\ worker[j] = "gate" /\ WorkerKeeps
      /\ worker' = [worker EXCEPT ![j] = "launching"] /\ sweep' = [sweep EXCEPT ![j] = s]
  BY ThreadContext DEF AcquirePermit, GateTimesOut
<1>2. JobOK(j, "launching", s, f) /\ s.ready = "no"
  BY <1>1 DEF JobOK, ThreadOK, SweepOK
<1>3. GateStep(j, "launching", s)
  BY <1>1, <1>2 DEF GateStep, AcquirePermit, GateTimesOut
<1>q. QED
  BY <1>1, <1>2, <1>3, ThreadFrame DEF WorkerState

LEMMA LaunchInv ==
    ASSUME ExecInv, NEW j \in DOMAIN worker, Launch(j)
    PROVE  ExecInv'
<1> DEFINE s == sweep[j]
           f == files[j]
           todo == jobs[j].points \ (IF s.resume THEN f.runs ELSE {})
           t == [s EXCEPT !.state = "booting", !.todo = todo]
<1>1. /\ s \in Sweep /\ f \in Files(j) /\ JobOK(j, "launching", s, f)
      /\ worker[j] = "launching" /\ WorkerKeeps /\ UNCHANGED <<permits, holds>>
      /\ worker' = [worker EXCEPT ![j] = "reading"] /\ jobs[j] \in Job
      /\ sweep \in [Jobs -> Sweep] /\ j \in Jobs
  BY ThreadContext DEF Launch
<1>2. jobs[j].points \in SUBSET (Nat \X Nat) /\ f.runs \in SUBSET jobs[j].points
  BY <1>1 DEF Job, Points, Files
<1>3. todo \in SUBSET (Nat \X Nat)
  BY <1>2
<1>4. todo = jobs[j].points \ f.runs
  BY <1>1 DEF JobOK, ThreadOK, FilesOK
<1>5. sweep' = [sweep EXCEPT ![j] = t]
  BY <1>1 DEF Launch, Sweep
<1> HIDE DEF todo
<1>6. /\ t.state = "booting" /\ t.todo = todo /\ t.at = s.at /\ t.done = s.done
      /\ t.ready = s.ready /\ t.resume = s.resume /\ t \in Sweep
  BY <1>1, <1>3 DEF Sweep
<1>7. s.state = "none" /\ s.at = {} /\ s.ready = "no"
  BY <1>1 DEF JobOK, ThreadOK, SweepOK
<1> HIDE DEF t
<1>8. JobOK(j, "reading", t, f)
  <2>1. SweepOK(j, t, f)
    BY <1>1, <1>2, <1>4, <1>6, <1>7 DEF JobOK, SweepOK
  <2>2. FilesOK(j, t, f) /\ ThreadOK(j, "reading", t, f)
    BY <1>1, <1>6, <1>7 DEF JobOK, FilesOK, ThreadOK
  <2>q. QED
    BY <2>1, <2>2 DEF JobOK
<1>9. GateStep(j, "reading", t)
  BY <1>1, <1>6, <1>7 DEF GateStep
<1>q. QED
  BY <1>1, <1>5, <1>6, <1>8, <1>9, ThreadFrame DEF WorkerState

LEMMA ThreadEndsInv ==
    ASSUME ExecInv, NEW j \in DOMAIN worker,
           LaunchFails(j) \/ LogFails(j) \/ ReadEnd(j)
    PROVE  ExecInv'
<1> DEFINE s == sweep[j]
           f == files[j]
           w == IF ReadEnd(j) /\ s.state = "exited" THEN "returned" ELSE "raised"
<1>1. /\ s \in Sweep /\ f \in Files(j) /\ JobOK(j, worker[j], s, f)
      /\ worker[j] \in {"launching", "reading"} /\ WorkerKeeps /\ ReleaseStartup(j)
      /\ sweep' = [sweep EXCEPT ![j] = s] /\ PlanTyped /\ j \in Jobs
  BY ThreadContext DEF LaunchFails, LogFails, ReadEnd
<1>2. worker' = [worker EXCEPT ![j] = w]
  <2>1. CASE ReadEnd(j)
    BY <2>1 DEF ReadEnd
  <2>2. CASE ~ ReadEnd(j)
    BY <2>2 DEF LaunchFails, LogFails
  <2>q. QED
    BY <2>1, <2>2
<1>3. ASSUME s.state = "exited" PROVE Complete(j, f)
  <2>1. f.runs = jobs[j].points /\ f.dir
    BY <1>1, <1>3 DEF JobOK, SweepOK, Files
  <2>2. /\ Cardinality(f.runs) \in Nat /\ f.traces \in Nat /\ Iterations \in Nat
    BY <1>1, FilesCounted, ExecutorAssumption
  <2>3. jobs[j].measurement = "trace" => f.traces >= Cardinality(f.runs)
    BY <1>1, <2>2 DEF JobOK, FilesOK
  <2>q. QED
    BY <2>1, <2>2, <2>3 DEF Complete
<1>4. JobOK(j, w, s, f)
  BY <1>1, <1>3 DEF JobOK, ThreadOK
<1>5. GateStep(j, w, s) /\ w \in WorkerState \ {"none"}
  BY <1>1 DEF GateStep, WorkerState
<1> HIDE DEF w
<1>q. QED
  BY <1>1, <1>2, <1>4, <1>5, ThreadFrame

LEMMA ReadReadyInv ==
    ASSUME ExecInv, NEW j \in DOMAIN worker, ReadReady(j)
    PROVE  ExecInv'
<1> DEFINE s == sweep[j]
           f == files[j]
           t == [s EXCEPT !.ready = "read"]
<1>1. /\ s \in Sweep /\ f \in Files(j) /\ JobOK(j, "reading", s, f)
      /\ worker[j] = "reading" /\ WorkerKeeps /\ ReleaseStartup(j)
      /\ worker' = [worker EXCEPT ![j] = "reading"] /\ s.ready = "printed"
  BY ThreadContext DEF ReadReady
<1>2. sweep' = [sweep EXCEPT ![j] = t]
  BY <1>1 DEF ReadReady
<1>3. /\ t.state = s.state /\ t.todo = s.todo /\ t.at = s.at /\ t.done = s.done
      /\ t.ready = "read" /\ t.resume = s.resume /\ t \in Sweep
  BY <1>1 DEF Sweep
<1> HIDE DEF t
<1>4. JobOK(j, "reading", t, f)
  BY <1>1, <1>3 DEF JobOK, SweepOK, FilesOK, ThreadOK
<1>5. GateStep(j, "reading", t)
  BY <1>1 DEF GateStep
<1>q. QED
  BY <1>1, <1>2, <1>3, <1>4, <1>5, ThreadFrame DEF WorkerState

LEMMA WorkerStepInv ==
    ASSUME ExecInv, NEW j \in DOMAIN worker, WorkerStep(j)
    PROVE  ExecInv'
BY StartJobInv, PassGateInv, LaunchInv, ThreadEndsInv, ReadReadyInv DEF WorkerStep

-----------------------------------------------------------------------------
\* The sweep processes

LEMMA SweepFrame ==
    ASSUME ExecInv, NEW j \in DOMAIN worker, NEW s \in Sweep, NEW f \in Files(j),
           JobOK(j, worker[j], s, f), SweepKeeps, sweep[j].state # "none",
           s.ready = "read" => sweep[j].ready = "read",
           sweep' = [sweep EXCEPT ![j] = s], files' = [files EXCEPT ![j] = f]
    PROVE  ExecInv'
<1>1. /\ PlanTyped /\ j \in Jobs /\ worker = [worker EXCEPT ![j] = worker[j]]
      /\ worker[j] \in WorkerState /\ JobOK(j, worker[j], sweep[j], files[j])
  BY ThreadContext
<1>2. /\ UNCHANGED prepareVars /\ UNCHANGED poolVars /\ worker' = worker
      /\ UNCHANGED <<permits, holds>> /\ jobs' = jobs /\ main' = main
  BY DEF SweepKeeps, prepareVars, poolVars, workerVars
<1>3. PlanTyped' /\ Started' /\ \A i \in DOMAIN worker' : JobInv(i)'
  BY <1>1, <1>2, JobFrame
<1>4. main # "idle"
  <2>1. worker[j] # "none"
    BY <1>1 DEF JobOK, ThreadOK
  <2>q. QED
    BY <2>1 DEF ExecInv, PoolInv
<1>5. GateStep(j, worker[j], s)
  BY <1>2 DEF GateStep, ExecInv, PermitInv
<1>6. PermitInv'
  BY <1>1, <1>2, <1>4, <1>5, GateFrame
<1>7. /\ GpusOf(running)' = GpusOf(running) /\ PortsOf(running)' = PortsOf(running)
      /\ Apart(running)' <=> Apart(running)
      /\ \A i \in DOMAIN worker : Believed(i)' <=> Believed(i)
  BY <1>2 DEF GpusOf, PortsOf, Apart, Ports, poolVars, Believed, Ended
<1>8. PoolInv'
  BY <1>2, <1>7 DEF ExecInv, PoolInv, poolVars
<1>q. QED
  BY <1>3, <1>6, <1>8 DEF ExecInv

LEMMA SweepBootsInv ==
    ASSUME ExecInv, NEW j \in DOMAIN worker, SweepBoots(j)
    PROVE  ExecInv'
<1> DEFINE s == sweep[j]
           f == files[j]
           t == [s EXCEPT !.state = "serving", !.ready = "printed"]
           g == [f EXCEPT !.dir = TRUE]
<1>1. /\ s \in Sweep /\ f \in Files(j) /\ JobOK(j, worker[j], s, f)
      /\ s.state = "booting" /\ SweepKeeps /\ j \in Jobs
      /\ sweep \in [Jobs -> Sweep] /\ files = [files EXCEPT ![j] = f]
  BY ThreadContext DEF SweepBoots
<1>2. sweep' = [sweep EXCEPT ![j] = t]
  BY <1>1 DEF SweepBoots, Sweep
<1>3. files' = [files EXCEPT ![j] = g]
  BY <1>1 DEF SweepBoots
<1>4. /\ t.state = "serving" /\ t.todo = s.todo /\ t.at = s.at /\ t.done = s.done
      /\ t.ready = "printed" /\ t.resume = s.resume /\ t \in Sweep
  BY <1>1 DEF Sweep
<1>5. g.dir = TRUE /\ g.runs = f.runs /\ g.traces = f.traces /\ g \in Files(j)
  BY <1>1 DEF Files
<1> HIDE DEF t, g
<1>6. worker[j] \notin {"none", "submitted", "gate", "launching", "returned"}
  BY <1>1 DEF JobOK, ThreadOK
<1>7. JobOK(j, worker[j], t, g)
  <2>1. SweepOK(j, t, g)
    BY <1>1, <1>4, <1>5 DEF JobOK, SweepOK
  <2>2. FilesOK(j, t, g)
    BY <1>1, <1>4, <1>5 DEF JobOK, FilesOK
  <2>3. ThreadOK(j, worker[j], t, g)
    BY <1>4, <1>6 DEF ThreadOK
  <2>q. QED
    BY <2>1, <2>2, <2>3 DEF JobOK
<1>q. QED
  BY <1>1, <1>2, <1>3, <1>4, <1>5, <1>7, SweepFrame

\* A point of the sweep that is being served has no run file.
LEMMA IterateIs ==
    ASSUME ExecInv, NEW j \in DOMAIN worker, Iterate(j)
    PROVE  \E p \in jobs[j].points :
             /\ p \notin files[j].runs
             /\ sweep[j].at = {} => p \in sweep[j].todo
             /\ sweep[j].at # {} => sweep[j].at = {p}
             /\ sweep' = [sweep EXCEPT ![j] =
                   [sweep[j] EXCEPT !.at = {p}, !.todo = sweep[j].todo \ {p},
                                    !.done = sweep[j].done + 1]]
             /\ files' = [files EXCEPT ![j] =
                   [files[j] EXCEPT !.logged =
                      [files[j].logged EXCEPT ![p] = files[j].logged[p] + 1]]]
<1> DEFINE s == sweep[j]
           f == files[j]
<1>1. /\ s \in Sweep /\ f \in Files(j) /\ JobOK(j, worker[j], s, f)
      /\ sweep \in [Jobs -> Sweep] /\ j \in Jobs /\ s.state = "serving"
      /\ files = [files EXCEPT ![j] = files[j]]
  BY ThreadContext DEF Iterate
<1>2. PICK p \in IF s.at = {} THEN s.todo ELSE s.at :
        /\ sweep' = [sweep EXCEPT ![j].at = {p}, ![j].todo = @ \ {p},
                                  ![j].done = @ + 1]
        /\ files' = [files EXCEPT ![j].logged[p] = @ + 1]
  BY DEF Iterate
<1>3. /\ p \in jobs[j].points /\ p \notin f.runs
      /\ s.at = {} => p \in s.todo
      /\ s.at # {} => s.at = {p}
  BY <1>1, <1>2 DEF JobOK, SweepOK
<1>4. sweep' = [sweep EXCEPT ![j] =
                  [s EXCEPT !.at = {p}, !.todo = s.todo \ {p}, !.done = s.done + 1]]
  BY <1>1, <1>2 DEF Sweep
<1>5. files' = [files EXCEPT ![j] =
                  [f EXCEPT !.logged = [f.logged EXCEPT ![p] = f.logged[p] + 1]]]
  BY <1>1, <1>2
<1>q. QED
  BY <1>3, <1>4, <1>5

LEMMA IterateInv ==
    ASSUME ExecInv, NEW j \in DOMAIN worker, Iterate(j)
    PROVE  ExecInv'
<1> DEFINE s == sweep[j]
           f == files[j]
<1>1. PICK p \in jobs[j].points :
             /\ p \notin files[j].runs
             /\ s.at = {} => p \in s.todo
             /\ s.at # {} => s.at = {p}
             /\ sweep' = [sweep EXCEPT ![j] =
                   [s EXCEPT !.at = {p}, !.todo = s.todo \ {p},
                             !.done = s.done + 1]]
             /\ files' = [files EXCEPT ![j] =
                   [f EXCEPT !.logged =
                      [f.logged EXCEPT ![p] = f.logged[p] + 1]]]
  BY IterateIs
<1> DEFINE t == [s EXCEPT !.at = {p}, !.todo = s.todo \ {p}, !.done = s.done + 1]
           g == [f EXCEPT !.logged = [f.logged EXCEPT ![p] = f.logged[p] + 1]]
<1>2. /\ s \in Sweep /\ f \in Files(j) /\ JobOK(j, worker[j], s, f)
      /\ s.state = "serving" /\ SweepKeeps /\ j \in Jobs /\ s.done < Iterations
      /\ jobs[j] \in Job /\ PlanTyped
  BY ThreadContext DEF Iterate
<1>3. p \in Nat \X Nat /\ s.done \in Nat
  BY <1>2 DEF Job, Points, Sweep
<1>4. /\ t.state = "serving" /\ t.todo = s.todo \ {p} /\ t.at = {p}
      /\ t.done = s.done + 1 /\ t.ready = s.ready /\ t.resume = s.resume /\ t \in Sweep
  <2> DEFINE d == s.todo \ {p}
             at == {p}
             n == s.done + 1
  <2>1. d \in SUBSET (Nat \X Nat) /\ at \in SUBSET (Nat \X Nat) /\ n \in Nat
    BY <1>2, <1>3 DEF Sweep
  <2> HIDE DEF d, at, n
  <2>2. /\ t.state = "serving" /\ t.todo = d /\ t.at = at /\ t.done = n
        /\ t.ready = s.ready /\ t.resume = s.resume /\ t \in Sweep
    BY <1>2, <2>1 DEF Sweep, t, d, at, n
  <2>q. QED
    BY <2>2 DEF d, at, n
<1>5. g.dir = f.dir /\ g.runs = f.runs /\ g.traces = f.traces /\ g \in Files(j)
  <2>1. [f.logged EXCEPT ![p] = f.logged[p] + 1] \in [jobs[j].points -> Nat]
    BY <1>2 DEF Files
  <2> DEFINE l == [f.logged EXCEPT ![p] = f.logged[p] + 1]
  <2> HIDE DEF l
  <2>2. [f EXCEPT !.logged = l] \in Files(j)
    BY <1>2, <2>1 DEF Files, l
  <2>3. /\ [f EXCEPT !.logged = l].dir = f.dir /\ [f EXCEPT !.logged = l].runs = f.runs
        /\ [f EXCEPT !.logged = l].traces = f.traces
    BY <1>2 DEF Files
  <2>q. QED
    BY <2>2, <2>3 DEF l
<1> HIDE DEF t, g
<1>6. worker[j] \notin {"none", "submitted", "gate", "launching", "returned"}
  BY <1>2 DEF JobOK, ThreadOK
<1>7. JobOK(j, worker[j], t, g)
  <2>1. SweepOK(j, t, g)
    BY <1>1, <1>2, <1>4, <1>5 DEF JobOK, SweepOK
  <2>2. FilesOK(j, t, g)
    <3>1. ~ (s.done > Iterations) /\ ~ (t.done > Iterations)
      BY <1>2, <1>3, <1>4, ExecutorAssumption
    <3>q. QED
      BY <1>2, <1>5, <3>1 DEF JobOK, FilesOK
  <2>3. ThreadOK(j, worker[j], t, g)
    BY <1>4, <1>6 DEF ThreadOK
  <2>q. QED
    BY <2>1, <2>2, <2>3 DEF JobOK
<1>8. sweep' = [sweep EXCEPT ![j] = t] /\ files' = [files EXCEPT ![j] = g]
  BY <1>1 DEF t, g
<1>q. QED
  BY <1>2, <1>4, <1>5, <1>7, <1>8, SweepFrame

LEMMA SaveTraceInv ==
    ASSUME ExecInv, NEW j \in DOMAIN worker, SaveTrace(j)
    PROVE  ExecInv'
<1> DEFINE s == sweep[j]
           f == files[j]
           t == [s EXCEPT !.done = s.done + 1]
           g == [f EXCEPT !.traces = f.traces + 1]
<1>1. /\ s \in Sweep /\ f \in Files(j) /\ JobOK(j, worker[j], s, f)
      /\ s.state = "serving" /\ SweepKeeps /\ j \in Jobs /\ s.done = Iterations
      /\ s.at # {} /\ PlanTyped
      /\ sweep \in [Jobs -> Sweep] /\ files = [files EXCEPT ![j] = f]
  BY ThreadContext DEF SaveTrace
<1>2. sweep' = [sweep EXCEPT ![j] = t]
  BY <1>1 DEF SaveTrace
<1>3. files' = [files EXCEPT ![j] = g]
  BY <1>1 DEF SaveTrace
<1>4. /\ t.state = "serving" /\ t.todo = s.todo /\ t.at = s.at
      /\ t.done = s.done + 1 /\ t.ready = s.ready /\ t.resume = s.resume /\ t \in Sweep
  BY <1>1 DEF Sweep
<1>5. g.dir = f.dir /\ g.runs = f.runs /\ g.traces = f.traces + 1 /\ g \in Files(j)
  BY <1>1 DEF Files
<1> HIDE DEF t, g
<1>6. worker[j] \notin {"none", "submitted", "gate", "launching", "returned"}
  BY <1>1 DEF JobOK, ThreadOK
<1>7. JobOK(j, worker[j], t, g)
  <2>1. SweepOK(j, t, g)
    BY <1>1, <1>4, <1>5 DEF JobOK, SweepOK
  <2>2. FilesOK(j, t, g)
    <3>1. Cardinality(f.runs) \in Nat /\ f.traces \in Nat /\ Iterations \in Nat
      BY <1>1, FilesCounted, ExecutorAssumption
    <3>q. QED
      BY <1>1, <1>4, <1>5, <3>1 DEF JobOK, FilesOK
  <2>3. ThreadOK(j, worker[j], t, g)
    BY <1>4, <1>6 DEF ThreadOK
  <2>q. QED
    BY <2>1, <2>2, <2>3 DEF JobOK
<1>q. QED
  BY <1>1, <1>2, <1>3, <1>4, <1>5, <1>7, SweepFrame

LEMMA SaveRunInv ==
    ASSUME ExecInv, NEW j \in DOMAIN worker, SaveRun(j)
    PROVE  ExecInv'
<1> DEFINE s == sweep[j]
           f == files[j]
           t == [s EXCEPT !.at = {}, !.done = 0]
           g == [f EXCEPT !.runs = f.runs \cup s.at]
<1>1. /\ s \in Sweep /\ f \in Files(j) /\ JobOK(j, worker[j], s, f)
      /\ s.state = "serving" /\ SweepKeeps /\ j \in Jobs
      /\ s.done = Iterations + (IF jobs[j].measurement = "trace" THEN 1 ELSE 0)
      /\ s.at # {} /\ PlanTyped
      /\ sweep \in [Jobs -> Sweep] /\ files = [files EXCEPT ![j] = f]
  BY ThreadContext DEF SaveRun
<1>2. sweep' = [sweep EXCEPT ![j] = t]
  BY <1>1 DEF SaveRun
<1>3. files' = [files EXCEPT ![j] = g]
  BY <1>1 DEF SaveRun
<1>4. /\ t.state = "serving" /\ t.todo = s.todo /\ t.at = {}
      /\ t.done = 0 /\ t.ready = s.ready /\ t.resume = s.resume /\ t \in Sweep
  BY <1>1 DEF Sweep
<1>5. PICK p \in jobs[j].points : s.at = {p} /\ p \notin f.runs
  BY <1>1 DEF JobOK, SweepOK
<1>6. /\ g.dir = f.dir /\ g.runs = f.runs \cup {p} /\ g.traces = f.traces
      /\ g \in Files(j)
  BY <1>1, <1>5 DEF Files
<1> HIDE DEF t, g
<1>7. worker[j] \notin {"none", "submitted", "gate", "launching", "returned"}
  BY <1>1 DEF JobOK, ThreadOK
<1>8. s.todo \cap s.at = {}
  BY <1>1 DEF JobOK, SweepOK
<1>9. JobOK(j, worker[j], t, g)
  <2>1. SweepOK(j, t, g)
    BY <1>1, <1>4, <1>5, <1>6, <1>8 DEF JobOK, SweepOK
  <2>2. FilesOK(j, t, g)
    <3>1. /\ Cardinality(f.runs) \in Nat /\ f.traces \in Nat /\ Iterations \in Nat
          /\ IsFiniteSet(f.runs)
      BY <1>1, FilesCounted, ExecutorAssumption
    <3>2. Cardinality(f.runs \cup {p}) = Cardinality(f.runs) + 1
      BY <3>1, <1>5, FS_AddElement
    <3>3. f.dir
      BY <1>1 DEF JobOK, SweepOK
    <3>q. QED
      BY <1>1, <1>4, <1>6, <3>1, <3>2, <3>3 DEF JobOK, FilesOK
  <2>3. ThreadOK(j, worker[j], t, g)
    BY <1>4, <1>7 DEF ThreadOK
  <2>q. QED
    BY <2>1, <2>2, <2>3 DEF JobOK
<1>q. QED
  BY <1>1, <1>2, <1>3, <1>4, <1>6, <1>9, SweepFrame

LEMMA SweepEndsInv ==
    ASSUME ExecInv, NEW j \in DOMAIN worker, SweepExits(j) \/ SweepDies(j)
    PROVE  ExecInv'
<1> DEFINE s == sweep[j]
           f == files[j]
           e == IF SweepExits(j) THEN "exited" ELSE "died"
           t == [s EXCEPT !.state = e]
<1>1. /\ s \in Sweep /\ f \in Files(j) /\ JobOK(j, worker[j], s, f)
      /\ s.state \in {"booting", "serving"} /\ SweepKeeps /\ j \in Jobs
      /\ sweep \in [Jobs -> Sweep] /\ files' = [files EXCEPT ![j] = f]
  BY ThreadContext DEF SweepExits, SweepDies, Alive
<1>2. e \in {"exited", "died"}
      /\ (e = "exited" => s.todo = {} /\ s.at = {} /\ s.state = "serving")
  BY DEF SweepExits
<1>3. sweep' = [sweep EXCEPT ![j] = t]
  <2>1. CASE SweepExits(j)
    BY <2>1, <1>1 DEF SweepExits
  <2>2. CASE ~ SweepExits(j)
    BY <2>2, <1>1 DEF SweepDies
  <2>q. QED
    BY <2>1, <2>2
<1> HIDE DEF e
<1>4. /\ t.state = e /\ t.todo = s.todo /\ t.at = s.at
      /\ t.done = s.done /\ t.ready = s.ready /\ t.resume = s.resume /\ t \in Sweep
  BY <1>1, <1>2 DEF Sweep
<1> HIDE DEF t
<1>5. worker[j] \notin {"none", "submitted", "gate", "launching", "returned"}
  BY <1>1 DEF JobOK, ThreadOK
<1>6. JobOK(j, worker[j], t, f)
  BY <1>1, <1>2, <1>4, <1>5 DEF JobOK, SweepOK, FilesOK, ThreadOK
<1>q. QED
  BY <1>1, <1>3, <1>4, <1>6, SweepFrame

LEMMA SweepStepInv ==
    ASSUME ExecInv, NEW j \in DOMAIN worker, SweepStep(j)
    PROVE  ExecInv'
BY SweepBootsInv, IterateInv, SaveTraceInv, SaveRunInv, SweepEndsInv DEF SweepStep

-----------------------------------------------------------------------------
\* The main thread

\* Every job of a pool that starts, or is ended by an interrupt, is fresh.
FreshPool ==
  /\ \A j \in Jobs : worker'[j] = "none" /\ sweep'[j] = NoSweep
  /\ worker' \in [Jobs -> WorkerState] /\ sweep' \in [Jobs -> Sweep]
  /\ UNCHANGED prepareVars
  /\ holds' = {} /\ permits' = Permits
  /\ running' = {} /\ usedGpus' = {} /\ usedPorts' = {} /\ failures' = {}
  /\ \/ main' = "idle" /\ pending' = {}
     \/ main' = "placing" /\ pending' = Jobs

LEMMA FreshPoolInv ==
    ASSUME PlanTyped, stage = "prepared", jobs # <<>>, FreshPool,
           DOMAIN files' = Jobs, files' = [j \in Jobs |-> files'[j]],
           \A j \in Jobs : /\ files'[j] \in Files(j)
                           /\ JobOK(j, "none", NoSweep, files'[j])
    PROVE  ExecInv'
<1>1. /\ Jobs' = Jobs /\ jobs' = jobs /\ stage' = stage
      /\ DOMAIN worker' = Jobs
  BY DEF FreshPool, prepareVars, Jobs
<1>2. PlanTyped'
  BY PlanKept DEF FreshPool
<1>3. Started'
  <2>1. \A i : Files(i)' = Files(i)
    BY <1>1 DEF Files
  <2>q. QED
    BY <1>1, <2>1 DEF FreshPool, Started
<1>4. \A j \in Jobs : JobOK(j, worker'[j], sweep'[j], files'[j])
  BY DEF FreshPool
<1>5. \A j \in Jobs : JobInv(j)'
  BY <1>1, <1>4 DEF JobInv, JobOK, SweepOK, FilesOK, ThreadOK, Complete
<1>6. PermitInv'
  <2>1. Permits \in Nat /\ Permits' = Permits
    BY <1>1, PermitsTyped DEF Permits, WorkerCount, Jobs
  <2>2. Cardinality({}) = 0
    BY FS_EmptySet
  <2>q. QED
    BY <2>1, <2>2 DEF FreshPool, PermitInv
<1>7. PoolInv'
  <2>1. GpusOf({})' = {} /\ PortsOf({})' = {}
    BY DEF GpusOf, PortsOf
  <2>2. /\ GpusOf(running)' = {} /\ PortsOf(running)' = {} /\ Apart(running)'
    BY <2>1 DEF FreshPool, GpusOf, PortsOf, Apart
  <2>3. \A j \in Jobs : worker'[j] = "none"
    BY DEF FreshPool
  <2>4. main' = "placing" => \A j \in Jobs : Believed(j)'
    BY <2>3 DEF FreshPool, Believed
  <2>5. main' \in {"idle", "placing"} /\ pending' \subseteq Jobs
        /\ (main' = "idle" => pending' = {})
    BY DEF FreshPool
  <2>q. QED
    BY <1>1, <2>2, <2>3, <2>4, <2>5 DEF FreshPool, PoolInv, Main
<1>q. QED
  BY <1>1, <1>2, <1>3, <1>5, <1>6, <1>7 DEF ExecInv

LEMMA StartPoolInv ==
    ASSUME ExecInv, StartPool
    PROVE  ExecInv'
<1>1. /\ PlanTyped /\ stage = "prepared" /\ jobs # <<>> /\ UNCHANGED prepareVars
  BY DEF StartPool, ExecInv, PlanTyped
<1>2. NoSweep \in Sweep
  BY DEF NoSweep, Sweep
<1>3. FreshPool
  BY <1>1, <1>2 DEF FreshPool, StartPool, WorkerState
<1>4. /\ DOMAIN files' = Jobs /\ files' = [j \in Jobs |-> files'[j]]
      /\ \A j \in Jobs : files'[j] \in Files(j) /\ JobOK(j, "none", NoSweep, files'[j])
  <2>1. CASE files = <<>>
    <3>1. files' = [j \in Jobs |-> NoFiles(j)]
      BY <2>1 DEF StartPool
    <3>2. \A j \in Jobs : NoFiles(j) \in Files(j) /\ JobOK(j, "none", NoSweep, NoFiles(j))
      BY <1>1, JobNew
    <3>q. QED
      BY <3>1, <3>2
  <2>2. CASE files # <<>>
    <3>1. Started /\ files' = files
      BY <2>2 DEF StartPool, ExecInv, NotStarted
    <3>2. \A j \in Jobs : JobInv(j) /\ files[j] \in Files(j) /\ sweep[j] \in Sweep
      BY <3>1 DEF ExecInv, Started
    <3>3. \A j \in Jobs : JobOK(j, "none", NoSweep, files[j])
      BY <1>1, <3>2, JobReset DEF JobInv
    <3>q. QED
      BY <3>1, <3>2, <3>3 DEF Started
  <2>q. QED
    BY <2>1, <2>2
<1>q. QED
  BY <1>1, <1>3, <1>4, FreshPoolInv

LEMMA RerunInv ==
    ASSUME ExecInv, Rerun
    PROVE  ExecInv'
<1>1. main # "idle"
  BY DEF Rerun
<1>2. /\ Started /\ jobs # <<>> /\ PlanTyped /\ files' = files
      /\ \A j \in Jobs : JobInv(j) /\ sweep[j] \in Sweep /\ files[j] \in Files(j)
  BY <1>1, IsStarted DEF Rerun
<1>3. NoSweep \in Sweep
  BY DEF NoSweep, Sweep
<1>4. FreshPool
  BY <1>3 DEF FreshPool, Rerun, WorkerState
<1>5. \A j \in Jobs : JobOK(j, "none", NoSweep, files[j])
  BY <1>2, JobReset DEF JobInv
<1>q. QED
  BY <1>2, <1>4, <1>5, FreshPoolInv DEF Started

LEMMA GpusOfUnion ==
    \A S, T : /\ GpusOf(S \cup T) = GpusOf(S) \cup GpusOf(T)
              /\ PortsOf(S \cup T) = PortsOf(S) \cup PortsOf(T)
BY DEF GpusOf, PortsOf

LEMMA GpusOfRest ==
    ASSUME NEW S, Apart(S), NEW T \in SUBSET S
    PROVE  /\ GpusOf(S \ T) = GpusOf(S) \ GpusOf(T)
           /\ PortsOf(S \ T) = PortsOf(S) \ PortsOf(T)
BY DEF GpusOf, PortsOf, Apart

\* The jobs of one pass fit beside each other and beside what runs.
LEMMA PlacedApart ==
    ASSUME ExecInv, main = "placing", NEW placed \in SUBSET pending,
           \A j \in pending :
              j \in placed <=> FitsBeside(j, {i \in placed : i < j})
    PROVE  Apart(running \cup placed)
<1>1. /\ Apart(running) /\ usedGpus = GpusOf(running) /\ usedPorts = PortsOf(running)
      /\ pending \subseteq Jobs /\ running \subseteq Jobs
  BY IsStarted DEF ExecInv, PoolInv
<1>2. Jobs \subseteq Int
  BY DEF ExecInv, PlanTyped, Jobs
<1>3. ASSUME NEW j \in placed,
             NEW i \in running \cup {k \in placed : k < j}
      PROVE  /\ jobs[i].gpus \cap jobs[j].gpus = {}
             /\ Ports(i) \cap Ports(j) = {}
  <2> DEFINE before == {k \in placed : k < j}
  <2>1. FitsBeside(j, before)
    OBVIOUS
  <2> HIDE DEF before
  <2>2. /\ (usedGpus \cup GpusOf(before)) \cap jobs[j].gpus = {}
        /\ (usedPorts \cup PortsOf(before)) \cap Ports(j) = {}
    BY <2>1 DEF FitsBeside
  <2>3. /\ jobs[i].gpus \subseteq usedGpus \cup GpusOf(before)
        /\ Ports(i) \subseteq usedPorts \cup PortsOf(before)
    <3>1. i \in running \/ i \in before
      BY DEF before
    <3>q. QED
      BY <3>1, <1>1 DEF GpusOf, PortsOf
  <2>q. QED
    BY <2>2, <2>3
<1>4. ASSUME NEW i \in running \cup placed, NEW j \in running \cup placed, i # j
      PROVE  /\ jobs[i].gpus \cap jobs[j].gpus = {}
             /\ Ports(i) \cap Ports(j) = {}
  <2>1. CASE i \in running /\ j \in running
    BY <2>1, <1>1, <1>4 DEF Apart
  <2>2. CASE i \in running /\ j \in placed
    BY <2>2, <1>3
  <2>3. CASE i \in placed /\ j \in running
    BY <2>3, <1>3
  <2>4. CASE i \in placed /\ j \in placed
    <3>1. i < j \/ j < i
      BY <1>1, <1>2, <1>4, <2>4
    <3>2. CASE i < j
      BY <3>2, <2>4, <1>3
    <3>3. CASE j < i
      BY <3>3, <2>4, <1>3
    <3>q. QED
      BY <3>1, <3>2, <3>3
  <2>q. QED
    BY <2>1, <2>2, <2>3, <2>4
<1>q. QED
  BY <1>4 DEF Apart

\* The main thread moves: sweeps, files and permits are not its business.
LEMMA MainFrame ==
    ASSUME ExecInv, main # "idle", main' # "idle", UNCHANGED prepareVars,
           UNCHANGED <<permits, holds, sweep, files>>,
           worker' \in [Jobs -> WorkerState],
           \A j \in Jobs : \/ worker'[j] = worker[j]
                           \/ worker[j] = "none" /\ worker'[j] = "submitted",
           PoolInv'
    PROVE  ExecInv'
<1>1. /\ Started /\ DOMAIN worker = Jobs /\ PlanTyped /\ jobs # <<>>
      /\ \A j \in Jobs : JobInv(j)
  BY IsStarted
<1>2. jobs' = jobs /\ Jobs' = Jobs /\ stage' = stage
  BY DEF prepareVars, Jobs
<1>3. PlanTyped'
  BY <1>1, PlanKept
<1>4. Started'
  <2>1. \A i : Files(i)' = Files(i)
    BY <1>2 DEF Files
  <2>q. QED
    BY <1>1, <1>2, <2>1 DEF Started
<1>5. \A j \in Jobs : JobOK(j, worker'[j], sweep[j], files[j])
  BY <1>1 DEF JobInv, JobOK, ThreadOK
<1>6. \A j \in Jobs : JobInv(j)'
  BY <1>2, <1>5 DEF JobInv, JobOK, SweepOK, FilesOK, ThreadOK, Complete
<1>7. PermitInv'
  <2>1. Permits' = Permits
    BY <1>2 DEF Permits, WorkerCount, Jobs
  <2>2. \A j \in holds : worker'[j] = worker[j]
    BY <1>1 DEF ExecInv, PermitInv
  <2>q. QED
    BY <1>1, <2>1, <2>2 DEF ExecInv, PermitInv
<1>q. QED
  BY <1>2, <1>3, <1>4, <1>6, <1>7 DEF ExecInv

LEMMA PlaceJobsInv ==
    ASSUME ExecInv, PlaceJobs
    PROVE  ExecInv'
<1>1. PICK placed \in SUBSET pending :
        /\ \A j \in pending :
             j \in placed <=> FitsBeside(j, {i \in placed : i < j})
        /\ running' = running \cup placed
        /\ pending' = pending \ placed
        /\ usedGpus' = usedGpus \cup GpusOf(placed)
        /\ usedPorts' = usedPorts \cup PortsOf(placed)
        /\ worker' = [j \in Jobs |-> IF j \in placed THEN "submitted" ELSE worker[j]]
  BY DEF PlaceJobs
<1>2. /\ main = "placing" /\ main' \in {"unplaceable", "waiting"}
      /\ UNCHANGED prepareVars /\ failures' = failures
      /\ UNCHANGED <<permits, holds, sweep, files>>
  BY DEF PlaceJobs
<1>3. /\ Started /\ DOMAIN worker = Jobs /\ worker \in [Jobs -> WorkerState]
      /\ jobs' = jobs
  BY <1>2, IsStarted DEF Started, prepareVars
<1>4. /\ {pending, running, failures} \subseteq SUBSET Jobs /\ pending \cap running = {}
      /\ usedGpus = GpusOf(running) /\ usedPorts = PortsOf(running)
      /\ \A j \in Jobs : Believed(j)
  BY <1>2, <1>3 DEF ExecInv, PoolInv
<1>5. Apart(running \cup placed)
  BY <1>1, <1>2, PlacedApart
<1>6. \A j \in Jobs : \/ j \in placed /\ worker'[j] = "submitted" /\ worker[j] = "none"
                      \/ j \notin placed /\ worker'[j] = worker[j]
  BY <1>1, <1>4 DEF Believed
<1>7. worker' \in [Jobs -> WorkerState] /\ DOMAIN worker' = Jobs
  BY <1>1, <1>3 DEF WorkerState
<1>8. \A j \in Jobs : Believed(j)'
  <2> SUFFICES ASSUME NEW j \in Jobs PROVE Believed(j)'
    OBVIOUS
  <2>1. CASE j \in placed
    BY <2>1, <1>1, <1>2, <1>4, <1>6 DEF Believed
  <2>2. CASE j \notin placed
    BY <2>2, <1>1, <1>2, <1>4, <1>6 DEF Believed, Ended
  <2>q. QED
    BY <2>1, <2>2
<1>9. /\ usedGpus' = GpusOf(running \cup placed)
      /\ usedPorts' = PortsOf(running \cup placed)
  BY <1>1, <1>4, GpusOfUnion
<1>10. /\ GpusOf(running)' = GpusOf(running \cup placed)
       /\ PortsOf(running)' = PortsOf(running \cup placed)
       /\ Apart(running)' <=> Apart(running \cup placed)
  BY <1>1, <1>3 DEF GpusOf, PortsOf, Apart, Ports
<1>11. PoolInv'
  <2>1. {pending', running', failures'} \subseteq SUBSET Jobs /\ pending' \cap running' = {}
    BY <1>1, <1>2, <1>4
  <2>q. QED
    BY <2>1, <1>2, <1>5, <1>7, <1>8, <1>9, <1>10 DEF PoolInv, Main
<1>q. QED
  BY <1>2, <1>6, <1>7, <1>11, MainFrame

LEMMA CollectKeeps ==
    ASSUME ExecInv, Collect
    PROVE  ExecInv'
<1> DEFINE completed == {j \in running : Ended(j)}
<1>1. /\ running' = running \ completed
      /\ usedGpus' = usedGpus \ GpusOf(completed)
      /\ usedPorts' = usedPorts \ PortsOf(completed)
      /\ failures' = failures \cup {j \in completed : worker[j] = "raised"}
      /\ pending' = pending
      /\ main' = IF pending = {} /\ running' = {} THEN "drained" ELSE "placing"
  BY DEF Collect, FreedGpus
<1>2. /\ main = "waiting" /\ main' \in {"drained", "placing"}
      /\ UNCHANGED prepareVars /\ worker' = worker
      /\ UNCHANGED <<permits, holds, sweep, files>>
  BY <1>1 DEF Collect, workerVars
<1>3. /\ Started /\ DOMAIN worker = Jobs /\ worker \in [Jobs -> WorkerState]
      /\ jobs' = jobs
  BY <1>2, IsStarted DEF Started, prepareVars
<1>4. /\ {pending, running, failures} \subseteq SUBSET Jobs /\ pending \cap running = {}
      /\ usedGpus = GpusOf(running) /\ usedPorts = PortsOf(running)
      /\ \A j \in Jobs : Believed(j)
      /\ Apart(running)
  BY <1>2, <1>3 DEF ExecInv, PoolInv
<1>5. completed \in SUBSET running /\ \A j \in completed : Ended(j)
  OBVIOUS
<1> HIDE DEF completed
<1>6. /\ usedGpus' = GpusOf(running \ completed)
      /\ usedPorts' = PortsOf(running \ completed)
  BY <1>1, <1>4, <1>5, GpusOfRest
<1>7. /\ GpusOf(running)' = GpusOf(running \ completed)
      /\ PortsOf(running)' = PortsOf(running \ completed)
  BY <1>1, <1>3 DEF GpusOf, PortsOf, Ports
<1>8. Apart(running)'
  BY <1>1, <1>3, <1>4 DEF Apart, Ports
<1>9. \A j \in Jobs : Believed(j)'
  BY <1>1, <1>2, <1>4, <1>5 DEF Believed, Ended
<1>10. {pending', running', failures'} \subseteq SUBSET Jobs /\ pending' \cap running' = {}
  BY <1>1, <1>4, <1>5
<1>11. PoolInv'
  BY <1>1, <1>2, <1>3, <1>6, <1>7, <1>8, <1>9, <1>10 DEF PoolInv, Main
<1>q. QED
  BY <1>2, <1>3, <1>11, MainFrame

LEMMA JudgeInv ==
    ASSUME ExecInv, IndexTraces \/ CollectRecords
    PROVE  ExecInv'
<1>1. /\ main \in {"drained", "indexed"} /\ main' \in {"indexed", "invalid", "collected"}
      /\ UNCHANGED prepareVars /\ worker' = worker
      /\ UNCHANGED <<pending, running, usedGpus, usedPorts, failures>>
      /\ UNCHANGED <<permits, holds, sweep, files>>
  BY DEF IndexTraces, CollectRecords, workerVars
<1>2. /\ Started /\ DOMAIN worker = Jobs /\ worker \in [Jobs -> WorkerState]
      /\ jobs' = jobs
  BY <1>1, IsStarted DEF Started, prepareVars
<1>3. /\ GpusOf(running)' = GpusOf(running) /\ PortsOf(running)' = PortsOf(running)
      /\ Apart(running)' <=> Apart(running)
      /\ \A j \in Jobs : Believed(j)' <=> Believed(j)
  BY <1>1, <1>2 DEF GpusOf, PortsOf, Apart, Ports, Believed, Ended
<1>4. PoolInv'
  BY <1>1, <1>2, <1>3 DEF ExecInv, PoolInv, Main
<1>q. QED
  BY <1>1, <1>2, <1>4, MainFrame

-----------------------------------------------------------------------------
\* The invariant

\* Nothing has been started while the jobs are prepared.
LEMMA PreparesInv ==
    ASSUME ExecInv, Prepares
    PROVE  ExecInv'
<1>1. PrepareStep /\ UNCHANGED <<main, pending, running, usedGpus, usedPorts, failures>>
      /\ UNCHANGED <<worker, permits, holds, sweep, files>>
  BY DEF Prepares, poolVars, workerVars
<1>2. stage # "prepared"
  BY <1>1 DEF PrepareStep, Reject, PrepareSerial, PrepareParallel, PlaceSpec
<1>3. NotStarted /\ DOMAIN worker = {}
  BY <1>2 DEF ExecInv, Started, NotStarted
<1>4. PlanTyped'
  BY <1>1, PrepareTyped DEF ExecInv
<1>5. NotStarted' /\ DOMAIN worker' = {} /\ main' = "idle"
  BY <1>1, <1>3 DEF NotStarted
<1>6. PermitInv'
  BY <1>1, <1>3, <1>5 DEF ExecInv, PermitInv
<1>7. PoolInv'
  <2>1. running = {} /\ usedGpus = {} /\ usedPorts = {} /\ pending = {} /\ failures = {}
        /\ holds = {}
    BY <1>3 DEF ExecInv, PoolInv, NotStarted, GpusOf, PortsOf
  <2>2. GpusOf(running)' = {} /\ PortsOf(running)' = {} /\ Apart(running)'
    BY <1>1, <2>1 DEF GpusOf, PortsOf, Apart
  <2>q. QED
    BY <1>1, <1>5, <2>1, <2>2 DEF PoolInv, Main
<1>q. QED
  BY <1>4, <1>5, <1>6, <1>7 DEF ExecInv

LEMMA ExecStutters ==
    ASSUME ExecInv, UNCHANGED execVars
    PROVE  ExecInv'
<1>1. /\ UNCHANGED prepareVars /\ UNCHANGED poolVars
      /\ UNCHANGED <<worker, permits, holds, sweep, files>> /\ jobs' = jobs
      /\ main' = main /\ stage' = stage
  BY DEF execVars, workerVars, prepareVars, poolVars
<1>2. PlanTyped'
  BY <1>1, PlanKept DEF ExecInv
<1>3. NotStarted' \/ Started'
  <2>1. \A i : Files(i)' = Files(i)
    BY <1>1 DEF Files
  <2>q. QED
    BY <1>1, <2>1 DEF ExecInv, NotStarted, Started, Jobs
<1>4. \A j \in DOMAIN worker' : JobInv(j)'
  BY <1>1 DEF ExecInv, JobInv, JobOK, SweepOK, FilesOK, ThreadOK, Complete
<1>5. PermitInv'
  BY <1>1 DEF ExecInv, PermitInv, Permits, WorkerCount, Jobs
<1>6. PoolInv'
  BY <1>1 DEF ExecInv, PoolInv, GpusOf, PortsOf, Apart, Ports, poolVars, Believed, Ended
<1>q. QED
  BY <1>2, <1>3, <1>4, <1>5, <1>6 DEF ExecInv

LEMMA ExecInitInv ==
    ASSUME ExecInit
    PROVE  ExecInv
<1>1. PlanTyped
  BY PlanInit DEF ExecInit
<1>2. /\ main = "idle" /\ pending = {} /\ running = {} /\ failures = {}
      /\ usedGpus = {} /\ usedPorts = {} /\ DOMAIN worker = {}
      /\ permits = 0 /\ holds = {} /\ NotStarted
  BY DEF ExecInit, NotStarted
<1>3. GpusOf(running) = {} /\ PortsOf(running) = {} /\ Apart(running)
  BY <1>2 DEF GpusOf, PortsOf, Apart
<1>4. PoolInv /\ PermitInv
  BY <1>2, <1>3 DEF PoolInv, PermitInv, Main
<1>q. QED
  BY <1>1, <1>2, <1>4 DEF ExecInv

LEMMA ExecNextInv ==
    ASSUME ExecInv, [ExecNext]_execVars
    PROVE  ExecInv'
<1>1. CASE Prepares
  BY <1>1, PreparesInv
<1>2. CASE MainStep
  BY <1>2, StartPoolInv, PlaceJobsInv, CollectKeeps, RerunInv, JudgeInv DEF MainStep
<1>3. CASE \E j \in DOMAIN worker : WorkerStep(j) \/ SweepStep(j)
  BY <1>3, WorkerStepInv, SweepStepInv
<1>4. CASE UNCHANGED execVars
  BY <1>4, ExecStutters
<1>q. QED
  BY <1>1, <1>2, <1>3, <1>4 DEF ExecNext, Halt

\* The state of the main thread, the threads, the sweeps and the files agree in
\* every reachable state of the executor.
THEOREM VllmInvariant == ExecSpec => []ExecInv
<1>1. ExecInit => ExecInv
  BY ExecInitInv
<1>2. ExecInv /\ [ExecNext]_execVars => ExecInv'
  BY ExecNextInv
<1>q. QED
  BY <1>1, <1>2, PTL DEF ExecSpec

-----------------------------------------------------------------------------
\* What follows from the invariant

LEMMA AliveIsRunning ==
    ASSUME ExecInv, NEW j \in DOMAIN worker, Alive(j), ~ Ended(j)
    PROVE  j \in running
<1>1. j \in Jobs /\ JobInv(j) /\ worker[j] \in WorkerState
  BY IsStarted DEF Started
<1>2. worker[j] = "reading"
  BY <1>1 DEF JobInv, JobOK, ThreadOK, Alive, Ended, WorkerState
<1>3. main # "idle"
  BY <1>2 DEF ExecInv, PoolInv
<1>4. Believed(j)
  BY <1>3 DEF ExecInv, PoolInv
<1>q. QED
  BY <1>2, <1>4 DEF Believed, Ended

LEMMA InvResources ==
    ASSUME ExecInv
    PROVE  ResourcesSound
<1>1. GpusExclusive
  BY AliveIsRunning DEF GpusExclusive, ExecInv, PoolInv, Apart
<1>2. PermitsReturned
  BY DEF PermitsReturned, ExecInv, PermitInv
<1>q. QED
  BY <1>1, <1>2 DEF ResourcesSound

LEMMA InvOutcomes ==
    ASSUME ExecInv
    PROVE  OutcomesReported
<1> SUFFICES ASSUME main = "drained"
             PROVE  /\ running = {} /\ usedGpus = {} /\ usedPorts = {}
                    /\ \A j \in Jobs : /\ Ended(j)
                                       /\ j \in failures <=> worker[j] = "raised"
                                       /\ j \notin failures => JobIsComplete(j)
  BY DEF OutcomesReported
<1>1. /\ Started /\ DOMAIN worker = Jobs /\ worker \in [Jobs -> WorkerState]
      /\ \A j \in Jobs : JobInv(j)
  BY IsStarted DEF Started
<1>2. running = {} /\ pending = {} /\ \A j \in Jobs : Believed(j)
  BY <1>1 DEF ExecInv, PoolInv
<1>3. usedGpus = {} /\ usedPorts = {}
  BY <1>2 DEF ExecInv, PoolInv, GpusOf, PortsOf
<1>4. \A j \in Jobs : Ended(j) /\ (j \in failures <=> worker[j] = "raised")
  BY <1>2 DEF Believed
<1>5. \A j \in Jobs : worker[j] = "returned" => JobIsComplete(j)
  BY <1>1, CompleteIsComplete DEF JobInv, JobOK, ThreadOK
<1>q. QED
  BY <1>2, <1>3, <1>4, <1>5 DEF Ended

\* No two live sweeps whose workers wait for them share a GPU or a port, and no
\* startup permit is lost or given back twice: for every request, every number
\* of GPUs and every interleaving of threads, sweeps, failures and interrupts.
THEOREM VllmResourcesSound == ExecSpec => []ResourcesSound
<1>1. ExecInv => ResourcesSound
  BY InvResources
<1>q. QED
  BY <1>1, VllmInvariant, PTL

\* A drained pool reports as failed exactly the jobs whose worker raised, and
\* every other job has all the run and trace files collection will ask for.
THEOREM VllmOutcomesReported == ExecSpec => []OutcomesReported
<1>1. ExecInv => OutcomesReported
  BY InvOutcomes
<1>q. QED
  BY <1>1, VllmInvariant, PTL

Unlogged == \A j \in DOMAIN worker : \A p \in files[j].runs :
               files'[j].logged[p] = files[j].logged[p]

LEMMA StepRedoesNothing ==
    ASSUME ExecInv, [ExecNext]_execVars
    PROVE  Unlogged
<1> SUFFICES ASSUME NEW j \in DOMAIN worker, NEW p \in files[j].runs
             PROVE  files'[j].logged[p] = files[j].logged[p]
  BY DEF Unlogged
<1>1. /\ Started /\ DOMAIN worker = Jobs /\ files # <<>>
      /\ \A i \in Jobs : files[i] \in Files(i) /\ sweep[i] \in Sweep
      /\ DOMAIN files = Jobs /\ files = [i \in Jobs |-> files[i]]
  <2>1. /\ Started /\ DOMAIN worker = Jobs /\ DOMAIN files = Jobs
        /\ \A i \in Jobs : files[i] \in Files(i) /\ sweep[i] \in Sweep
        /\ files = [i \in Jobs |-> files[i]]
    BY IsStarted DEF Started
  <2>q. QED
    BY <2>1
<1>2. CASE files' = files
  BY <1>2
<1>3. CASE \E i \in DOMAIN worker : SweepStep(i)
  <2>1. PICK i \in DOMAIN worker : SweepStep(i)
    BY <1>3
  <2>2. CASE SweepBoots(i)
    BY <2>2, <1>1 DEF SweepBoots, Files
  <2>3. CASE Iterate(i)
    <3>1. PICK q \in jobs[i].points :
            /\ q \notin files[i].runs
            /\ files' = [files EXCEPT ![i] =
                   [files[i] EXCEPT !.logged =
                      [files[i].logged EXCEPT ![q] = files[i].logged[q] + 1]]]
      BY <2>3, IterateIs
    <3>2. CASE i = j
      <4> DEFINE l == [files[i].logged EXCEPT ![q] = files[i].logged[q] + 1]
      <4>1. files'[j] = [files[i] EXCEPT !.logged = l]
        BY <3>1, <3>2, <1>1
      <4>2. l[p] = files[i].logged[p]
        BY <3>1, <3>2, <1>1 DEF Files
      <4> HIDE DEF l
      <4>3. files'[j].logged = l
        BY <4>1, <1>1 DEF Files
      <4>q. QED
        BY <4>2, <4>3, <3>2
    <3>3. CASE i # j
      BY <3>1, <3>3, <1>1
    <3>q. QED
      BY <3>2, <3>3
  <2>4. CASE SaveTrace(i)
    BY <2>4, <1>1 DEF SaveTrace, Files
  <2>5. CASE SaveRun(i)
    BY <2>5, <1>1 DEF SaveRun, Files
  <2>6. CASE SweepExits(i) \/ SweepDies(i)
    BY <2>6 DEF SweepExits, SweepDies
  <2>q. QED
    BY <2>1, <2>2, <2>3, <2>4, <2>5, <2>6 DEF SweepStep
<1>4. CASE StartPool
  BY <1>4, <1>1 DEF StartPool
<1>5. CASE Prepares \/ PlaceJobs \/ Collect \/ Rerun \/ IndexTraces \/ CollectRecords
  BY <1>2, <1>5 DEF Prepares, PlaceJobs, Collect, Rerun, IndexTraces, CollectRecords
<1>6. CASE \E i \in DOMAIN worker : WorkerStep(i)
  BY <1>2, <1>6 DEF WorkerStep, WorkerKeeps, StartJob, AcquirePermit, GateTimesOut,
                    Launch, LaunchFails, ReadReady, ReadEnd, LogFails
<1>7. CASE UNCHANGED execVars
  BY <1>2, <1>7 DEF execVars
<1>q. QED
  BY <1>3, <1>4, <1>5, <1>6, <1>7 DEF ExecNext, MainStep, Halt

\* No point that has a run file is measured again, in this invocation of the
\* command or a later one: --resume is passed where there are run files.
THEOREM VllmNothingRedone == ExecSpec => NothingRedone
<1>1. ExecInv /\ [ExecNext]_execVars => [Unlogged]_execVars
  BY StepRedoesNothing
<1>2. ExecSpec => [][Unlogged]_execVars
  BY <1>1, VllmInvariant, PTL DEF ExecSpec
<1>q. QED
  BY <1>2 DEF NothingRedone, Unlogged

-----------------------------------------------------------------------------
\* What the cut of a phase contains

LEMMA SmallRemainder ==
    ASSUME NEW n \in Nat, NEW w \in Nat \ {0}
    PROVE  /\ n % w \in 0..(w - 1)
           /\ n < w => n % w = n
           /\ n = w => n % w = 0
  OBVIOUS

\* The parts 1..c, by their remainders: a benchmark point is in exactly one.
LEMMA PartOfPoint ==
    ASSUME NEW c \in Nat \ {0}, NEW b \in Nat
    PROVE  /\ \E i \in 1..c : b % c = i % c
           /\ \A i, j \in 1..c : i % c = j % c => i = j
<1>1. \A i \in 1..c : i % c = IF i = c THEN 0 ELSE i
  <2> SUFFICES ASSUME NEW i \in 1..c PROVE i % c = IF i = c THEN 0 ELSE i
    OBVIOUS
  <2>1. i \in Nat /\ (i = c \/ i < c)
    OBVIOUS
  <2>q. QED
    BY <2>1, SmallRemainder
<1>2. b % c \in 0..(c - 1)
  BY SmallRemainder
<1> DEFINE rem(i) == i % c
<1>3. /\ \A i \in 1..c : rem(i) = IF i = c THEN 0 ELSE i
      /\ rem(b) \in 0..(c - 1)
  BY <1>1, <1>2
<1> HIDE DEF rem
<1>4. \E i \in 1..c : rem(b) = rem(i)
  <2>1. CASE rem(b) = 0
    <3>1. c \in 1..c
      OBVIOUS
    <3>q. QED
      BY <2>1, <3>1, <1>3
  <2>2. CASE rem(b) # 0
    <3>1. rem(b) \in 1..c /\ rem(b) # c
      BY <2>2, <1>3
    <3>q. QED
      BY <3>1, <1>3
  <2>q. QED
    BY <2>1, <2>2
<1>5. \A i, j \in 1..c : rem(i) = rem(j) => i = j
  BY <1>3
<1>q. QED
  BY <1>4, <1>5 DEF rem

LEMMA PointsOfServe ==
    ASSUME request \in Requests, Max(WorldSizes) <= NGpus, MaxParallel > 1,
           NEW p \in Phases, NEW s \in DOMAIN request.serve,
           NEW i \in 1..ShardCount(p, s)
    PROVE  /\ OfServe(p, s)[i].world = request.serve[s]
           /\ OfServe(p, s)[i].points =
                {<<s, b>> : b \in {e \in 1..request.bench[p] :
                                     e % ShardCount(p, s) = i % ShardCount(p, s)}}
BY DEF OfServe, Shard, Partition

\* Every point of a phase is in one of its shards, and in no other; the shard
\* has the world size of the serve point; no shard is empty.
LEMMA PointsOfPhase ==
    ASSUME request \in Requests, Max(WorldSizes) <= NGpus, MaxParallel > 1,
           NEW p \in Phases
    PROVE  /\ \A k \in 1..Len(PhaseShards(p)) : PhaseShards(p)[k].points # {}
           /\ \A s \in DOMAIN request.serve : \A b \in 1..request.bench[p] :
                \E k \in 1..Len(PhaseShards(p)) :
                   /\ <<s, b>> \in PhaseShards(p)[k].points
                   /\ PhaseShards(p)[k].world = request.serve[s]
                   /\ \A l \in 1..Len(PhaseShards(p)) :
                        <<s, b>> \in PhaseShards(p)[l].points => l = k
<1> DEFINE sh == PhaseShards(p)
           ss == ByServe(p)
           S == DOMAIN request.serve
           n == request.bench[p]
           D == 1..Len(sh)
           count(s) == ShardCount(p, s)
           part(s, i) == {e \in 1..n : e % count(s) = i % count(s)}
<1>1. PICK at : ComesFrom(sh, at, ss, Len(request.serve))
  BY PhaseShardsTyped
<1>2. S = 1..Len(request.serve) /\ Len(request.serve) \in Nat
  BY RequestTyped
<1>3. \A s \in S : /\ count(s) \in 1..n /\ n \in Nat /\ count(s) \in Nat \ {0}
                   /\ ss[s] = OfServe(p, s) /\ Len(OfServe(p, s)) = count(s)
  <2> SUFFICES ASSUME NEW s \in S
               PROVE  /\ count(s) \in 1..n /\ n \in Nat /\ count(s) \in Nat \ {0}
                      /\ ss[s] = OfServe(p, s) /\ Len(OfServe(p, s)) = count(s)
    OBVIOUS
  <2>1. count(s) \in 1..n /\ n \in Nat
    BY ShardCountBounded
  <2>2. Len(OfServe(p, s)) = count(s)
    BY OfServeTyped
  <2>q. QED
    BY <2>1, <2>2 DEF ByServe
<1>4. \A s \in S : \A i \in 1..count(s) :
        /\ OfServe(p, s)[i].world = request.serve[s]
        /\ OfServe(p, s)[i].points = {<<s, b>> : b \in part(s, i)}
  BY PointsOfServe
<1>5. \A pl \in Places(ss, Len(request.serve)) :
         pl[1] \in S /\ pl[2] \in 1..count(pl[1]) /\ pl = <<pl[1], pl[2]>>
  BY <1>2, <1>3 DEF Places
<1>6. \A s \in S : \A i \in 1..count(s) : <<s, i>> \in Places(ss, Len(request.serve))
  BY <1>2, <1>3 DEF Places
<1>7. /\ \A k \in D : at[k] \in Places(ss, Len(request.serve))
      /\ \A k \in D : sh[k] = ss[at[k][1]][at[k][2]]
      /\ \A k, l \in D : at[k] = at[l] => k = l
      /\ \A pl \in Places(ss, Len(request.serve)) : \E k \in D : at[k] = pl
  BY <1>1 DEF ComesFrom
<1> HIDE DEF sh, ss, D, S
<1>8. \A k \in D : \E s \in S : \E i \in 1..count(s) :
         /\ at[k] = <<s, i>> /\ sh[k].world = request.serve[s]
         /\ sh[k].points = {<<s, b>> : b \in part(s, i)}
  <2> SUFFICES ASSUME NEW k \in D
               PROVE  \E s \in S : \E i \in 1..count(s) :
                        /\ at[k] = <<s, i>> /\ sh[k].world = request.serve[s]
                        /\ sh[k].points = {<<s, b>> : b \in part(s, i)}
    OBVIOUS
  <2>1. /\ at[k][1] \in S /\ at[k][2] \in 1..count(at[k][1])
        /\ at[k] = <<at[k][1], at[k][2]>> /\ sh[k] = OfServe(p, at[k][1])[at[k][2]]
    BY <1>3, <1>5, <1>7
  <2> HIDE DEF part, count
  <2>q. QED
    BY <2>1, <1>4
<1>9. \A k \in D : sh[k].points # {}
  <2> SUFFICES ASSUME NEW k \in D PROVE sh[k].points # {}
    OBVIOUS
  <2>0. PICK s \in S :
          \E i \in 1..count(s) : sh[k].points = {<<s, b>> : b \in part(s, i)}
    <3> HIDE DEF part, count
    <3>q. QED
      BY <1>8
  <2>1. PICK i \in 1..count(s) : sh[k].points = {<<s, b>> : b \in part(s, i)}
    <3> HIDE DEF part, count
    <3>q. QED
      BY <2>0
  <2>2. i \in part(s, i)
    BY <1>3
  <2> HIDE DEF part
  <2>q. QED
    BY <2>1, <2>2
<1>10. ASSUME NEW s \in S, NEW b \in 1..n
       PROVE  \E k \in D : /\ <<s, b>> \in sh[k].points /\ sh[k].world = request.serve[s]
                           /\ \A l \in D : <<s, b>> \in sh[l].points => l = k
  <2>1. count(s) \in Nat \ {0} /\ b \in Nat
    BY <1>3
  <2>2. /\ \E i \in 1..count(s) : b % count(s) = i % count(s)
        /\ \A i, j \in 1..count(s) : i % count(s) = j % count(s) => i = j
    <3> HIDE DEF count
    <3>q. QED
      BY <2>1, PartOfPoint
  <2>3. PICK i \in 1..count(s) : b \in part(s, i)
    BY <2>2
  <2>4. \A j \in 1..count(s) : b \in part(s, j) => j = i
    BY <2>2, <2>3
  <2> HIDE DEF part, count
  <2>5. PICK k \in D : at[k] = <<s, i>>
    BY <1>6, <1>7
  <2>6. sh[k].world = request.serve[s] /\ sh[k].points = {<<s, e>> : e \in part(s, i)}
    <3>0. PICK t \in S : \E j \in 1..count(t) :
            /\ at[k] = <<t, j>> /\ sh[k].world = request.serve[t]
            /\ sh[k].points = {<<t, e>> : e \in part(t, j)}
      BY <1>8
    <3>1. PICK j \in 1..count(t) :
            /\ at[k] = <<t, j>> /\ sh[k].world = request.serve[t]
            /\ sh[k].points = {<<t, e>> : e \in part(t, j)}
      BY <3>0
    <3>2. t = s /\ j = i
      BY <3>1, <2>5
    <3>q. QED
      BY <3>1, <3>2
  <2>7. ASSUME NEW l \in D, <<s, b>> \in sh[l].points PROVE l = k
    <3>0. PICK t \in S : \E j \in 1..count(t) :
            /\ at[l] = <<t, j>> /\ sh[l].points = {<<t, e>> : e \in part(t, j)}
      BY <1>8
    <3>1. PICK j \in 1..count(t) :
            /\ at[l] = <<t, j>> /\ sh[l].points = {<<t, e>> : e \in part(t, j)}
      BY <3>0
    <3>2. t = s /\ b \in part(t, j)
      BY <3>1, <2>7
    <3>3. j = i
      BY <3>2, <2>4
    <3>4. at[l] = at[k]
      BY <3>1, <3>2, <3>3, <2>5
    <3>q. QED
      BY <3>4, <1>7
  <2>q. QED
    BY <2>3, <2>6, <2>7
<1> HIDE DEF n
<1>q. QED
  BY <1>9, <1>10 DEF sh, D, S, n

\* The specs are the phases' shards, once per measurement ...
SpecsAreShards(N) ==
  \A i \in N : \E p \in Phases, m \in Measurement :
    \E k \in 1..Len(PhaseShards(p)) :
      ParallelSpecs[i] = [phase |-> p, measurement |-> m, shard |-> k,
                          world |-> PhaseShards(p)[k].world,
                          points |-> PhaseShards(p)[k].points]

\* ... no two of them the same ...
SpecsDiffer(N) ==
  \A i, j \in N : /\ ParallelSpecs[i].phase = ParallelSpecs[j].phase
                  /\ ParallelSpecs[i].measurement = ParallelSpecs[j].measurement
                  /\ ParallelSpecs[i].shard = ParallelSpecs[j].shard
                  => i = j

\* ... and none of them missing.
ShardsSpecified(N) ==
  \A p \in Phases, m \in Measurement : \A k \in 1..Len(PhaseShards(p)) :
    \E i \in N : /\ ParallelSpecs[i].phase = p
                 /\ ParallelSpecs[i].measurement = m
                 /\ ParallelSpecs[i].shard = k

\* The specs of a parallel profile: one for every phase, measurement and shard.
LEMMA SpecsIndexed ==
    ASSUME request \in Requests, Max(WorldSizes) <= NGpus, MaxParallel > 1,
           NEW N, N = 1..Len(ParallelSpecs)
    PROVE  SpecsAreShards(N) /\ SpecsDiffer(N) /\ ShardsSpecified(N)
<1> DEFINE ps == ParallelSpecs
           ss == [p \in Phases |-> MeasuredTwice(p)]
           np == Len(request.bench)
           n(p) == Len(PhaseShards(p))
           rec(p, m, k) == [phase |-> p, measurement |-> m, shard |-> k,
                            world |-> PhaseShards(p)[k].world,
                            points |-> PhaseShards(p)[k].points]
           place(p, m, k) == IF m = "timing" THEN k ELSE n(p) + k
<1>1. PICK at : ComesFrom(ps, at, ss, np)
  BY ParallelSpecsTyped
<1>2. Phases = 1..np /\ \A p \in Phases : ss[p] = MeasuredTwice(p)
  BY RequestTyped DEF Phases
<1>3. \A p \in Phases : n(p) \in Nat
  BY PhaseShardsTyped
<1>4. ASSUME NEW p \in Phases
      PROVE  /\ Len(MeasuredTwice(p)) = n(p) + n(p)
             /\ \A m \in Measurement : \A k \in 1..n(p) :
                  /\ place(p, m, k) \in 1..(n(p) + n(p))
                  /\ MeasuredTwice(p)[place(p, m, k)] = rec(p, m, k)
             /\ \A q \in 1..(n(p) + n(p)) :
                  \E m \in Measurement : \E k \in 1..n(p) : q = place(p, m, k)
  <2> DEFINE a == Measured(p, "timing")
             b == Measured(p, "trace")
  <2>1. a \in Seq(JobSpec) /\ b \in Seq(JobSpec) /\ Len(a) = n(p) /\ Len(b) = n(p)
    BY MeasuredTyped DEF Measurement
  <2>2. \A k \in 1..n(p) : a[k] = rec(p, "timing", k) /\ b[k] = rec(p, "trace", k)
    BY MeasuredTyped DEF Measurement
  <2>3. MeasuredTwice(p) = a \o b
    BY DEF MeasuredTwice
  <2>4. n(p) \in Nat
    BY <1>3
  <2> HIDE DEF a, b, n, rec
  <2>5. /\ Len(a \o b) = n(p) + n(p)
        /\ \A k \in 1..n(p) : (a \o b)[k] = a[k] /\ (a \o b)[n(p) + k] = b[k]
    BY <2>1, <2>4
  <2>6. \A m \in Measurement : \A k \in 1..n(p) :
          /\ place(p, m, k) \in 1..(n(p) + n(p))
          /\ MeasuredTwice(p)[place(p, m, k)] = rec(p, m, k)
    <3>1. \A k \in 1..n(p) : k \in 1..(n(p) + n(p)) /\ n(p) + k \in 1..(n(p) + n(p))
      BY <2>4
    <3>2. \A k \in 1..n(p) :
            /\ MeasuredTwice(p)[k] = rec(p, "timing", k)
            /\ MeasuredTwice(p)[n(p) + k] = rec(p, "trace", k)
      BY <2>2, <2>3, <2>5
    <3>q. QED
      BY <3>1, <3>2 DEF Measurement
  <2>7. \A q \in 1..(n(p) + n(p)) :
          \E m \in Measurement : \E k \in 1..n(p) : q = place(p, m, k)
    <3> SUFFICES ASSUME NEW q \in 1..(n(p) + n(p))
                 PROVE  \E m \in Measurement : \E k \in 1..n(p) : q = place(p, m, k)
      OBVIOUS
    <3>1. CASE q <= n(p)
      <4>1. q \in 1..n(p) /\ q = place(p, "timing", q)
        BY <3>1, <2>4
      <4>q. QED
        BY <4>1 DEF Measurement
    <3>2. CASE q > n(p)
      <4>1. q - n(p) \in 1..n(p) /\ q = place(p, "trace", q - n(p))
        BY <3>2, <2>4
      <4>q. QED
        BY <4>1 DEF Measurement
    <3>q. QED
      BY <3>1, <3>2, <2>4
  <2>q. QED
    BY <2>3, <2>5, <2>6, <2>7
<1>5. /\ \A i \in N : at[i] \in Places(ss, np)
      /\ \A i \in N : ps[i] = ss[at[i][1]][at[i][2]]
      /\ \A i, j \in N : at[i] = at[j] => i = j
      /\ \A pl \in Places(ss, np) : \E i \in N : at[i] = pl
  BY <1>1 DEF ComesFrom
<1>6. \A pl \in Places(ss, np) :
         /\ pl[1] \in Phases /\ pl = <<pl[1], pl[2]>>
         /\ pl[2] \in 1..(n(pl[1]) + n(pl[1]))
  <2> HIDE DEF ss, n
  <2>q. QED
    BY <1>2, <1>4 DEF Places
<1>7. \A p \in Phases : \A q \in 1..(n(p) + n(p)) : <<p, q>> \in Places(ss, np)
  <2> HIDE DEF ss, n
  <2>q. QED
    BY <1>2, <1>3, <1>4 DEF Places
<1> HIDE DEF ss, n, place, ps
<1>8. ASSUME NEW i \in N
      PROVE  \E p \in Phases, m \in Measurement : \E k \in 1..n(p) :
               /\ at[i] = <<p, place(p, m, k)>>
               /\ ps[i] = rec(p, m, k)
  <2>1. /\ at[i][1] \in Phases /\ at[i] = <<at[i][1], at[i][2]>>
        /\ at[i][2] \in 1..(n(at[i][1]) + n(at[i][1]))
    BY <1>5, <1>6
  <2>2. PICK p \in Phases : p = at[i][1]
    BY <2>1
  <2>3. PICK m \in Measurement, k \in 1..n(p) : at[i][2] = place(p, m, k)
    BY <2>1, <2>2, <1>4
  <2>4. ps[i] = MeasuredTwice(p)[place(p, m, k)]
    BY <2>2, <2>3, <1>2, <1>5
  <2>5. ps[i] = rec(p, m, k)
    BY <2>4, <1>4
  <2> HIDE DEF rec
  <2>q. QED
    BY <2>1, <2>2, <2>3, <2>5
<1>9. ASSUME NEW i \in N, NEW j \in N, ps[i].phase = ps[j].phase,
             ps[i].measurement = ps[j].measurement, ps[i].shard = ps[j].shard
      PROVE  i = j
  <2>1. PICK p \in Phases, m \in Measurement : \E k \in 1..n(p) :
               at[i] = <<p, place(p, m, k)>> /\ ps[i] = rec(p, m, k)
    <3> HIDE DEF rec
    <3>q. QED
      BY <1>8
  <2>a. PICK k \in 1..n(p) : at[i] = <<p, place(p, m, k)>> /\ ps[i] = rec(p, m, k)
    BY <2>1
  <2>2. PICK p2 \in Phases, m2 \in Measurement : \E k2 \in 1..n(p2) :
               at[j] = <<p2, place(p2, m2, k2)>> /\ ps[j] = rec(p2, m2, k2)
    <3> HIDE DEF rec
    <3>q. QED
      BY <1>8
  <2>b. PICK k2 \in 1..n(p2) :
          at[j] = <<p2, place(p2, m2, k2)>> /\ ps[j] = rec(p2, m2, k2)
    BY <2>2
  <2>3. p = p2 /\ m = m2 /\ k = k2
    BY <2>a, <2>b, <1>9
  <2>4. at[i] = at[j]
    <3> HIDE DEF rec
    <3>q. QED
      BY <2>a, <2>b, <2>3
  <2>q. QED
    BY <2>4, <1>5
<1>10. ASSUME NEW p \in Phases, NEW m \in Measurement, NEW k \in 1..n(p)
       PROVE  \E i \in N : ps[i].phase = p /\ ps[i].measurement = m /\ ps[i].shard = k
  <2>1. <<p, place(p, m, k)>> \in Places(ss, np)
    BY <1>4, <1>7
  <2>2. PICK i \in N : at[i] = <<p, place(p, m, k)>>
    BY <2>1, <1>5
  <2>3. ps[i] = MeasuredTwice(p)[place(p, m, k)]
    BY <2>2, <1>2, <1>5
  <2>4. ps[i] = rec(p, m, k)
    BY <2>3, <1>4
  <2>5. ps[i].phase = p /\ ps[i].measurement = m /\ ps[i].shard = k
    <3> HIDE DEF n
    <3>q. QED
      BY <2>4
  <2>q. QED
    BY <2>2, <2>5
<1>11. \A i \in N : \E p \in Phases, m \in Measurement : \E k \in 1..n(p) :
          ps[i] = rec(p, m, k)
  <2> HIDE DEF rec
  <2>q. QED
    BY <1>8
<1>12. \A i, j \in N :
         /\ ps[i].phase = ps[j].phase /\ ps[i].measurement = ps[j].measurement
         /\ ps[i].shard = ps[j].shard
         => i = j
  <2> HIDE DEF rec
  <2>q. QED
    BY <1>9
<1>13. \A p \in Phases, m \in Measurement : \A k \in 1..n(p) :
         \E i \in N : ps[i].phase = p /\ ps[i].measurement = m /\ ps[i].shard = k
  <2> HIDE DEF rec
  <2>q. QED
    BY <1>10
<1> USE DEF n, ps
<1>14. SpecsAreShards(N)
  BY <1>11 DEF SpecsAreShards
<1>15. SpecsDiffer(N)
  BY <1>12 DEF SpecsDiffer
<1>16. ShardsSpecified(N)
  BY <1>13 DEF ShardsSpecified
<1>q. QED
  BY <1>14, <1>15, <1>16

-----------------------------------------------------------------------------
\* The plan: what has been placed, and the room left in every wave

Injective(q) == \A k, l \in DOMAIN q : q[k] = q[l] => k = l

\* The GPUs and workers of the waves ws against the jobs js given to them.
WavesOK(ws, js) ==
  /\ \A v \in DOMAIN ws : Injective(ws[v].available) /\ ws[v].workers <= limit
  /\ \A i \in DOMAIN js :
       /\ js[i].wave \in DOMAIN ws
       /\ Cardinality(js[i].gpus) = js[i].world
       /\ js[i].port \in 1..ws[js[i].wave].workers
       /\ js[i].gpus \cap ToSet(ws[js[i].wave].available) = {}
  /\ \A i, j \in DOMAIN js :
       i # j /\ js[i].wave = js[j].wave =>
         js[i].gpus \cap js[j].gpus = {} /\ js[i].port # js[j].port

SameWork(job, spec) ==
  /\ job.phase = spec.phase /\ job.measurement = spec.measurement
  /\ job.shard = spec.shard /\ job.world = spec.world /\ job.points = spec.points

\* The jobs are the first of the specs, in their order; the rest is to come.
Progress ==
  /\ Len(jobs) + Len(specs) = Len(ParallelSpecs)
  /\ \A i \in 1..Len(jobs) : SameWork(jobs[i], ParallelSpecs[i])
  /\ \A i \in 1..Len(specs) : specs[i] = ParallelSpecs[Len(jobs) + i]

PlanInv ==
  /\ PlanTyped
  /\ \/ stage \in {"start", "rejected"} /\ jobs = <<>> /\ waves = <<>>
     \/ stage = "prepared" /\ Max(WorldSizes) <= NGpus /\ jobs = SerialJobs
     \/ /\ stage \in {"placing", "prepared"} /\ Max(WorldSizes) <= NGpus
        /\ MaxParallel > 1 /\ limit >= 1
        /\ Progress /\ WavesOK(waves, jobs)
        /\ stage = "prepared" => specs = <<>>

LEMMA PlanInvInit ==
    ASSUME PrepareInit
    PROVE  PlanInv
BY PlanInit DEF PlanInv, PrepareInit

LEMMA PlanInvKept ==
    ASSUME PlanInv, UNCHANGED prepareVars
    PROVE  PlanInv'
<1>1. PlanTyped'
  BY PlanKept DEF PlanInv
<1>2. /\ WorldSizes' = WorldSizes /\ MaxParallel' = MaxParallel /\ SerialJobs' = SerialJobs
      /\ ParallelSpecs' = ParallelSpecs
  BY DEF prepareVars, WorldSizes, MaxParallel, HardwareLimit, SerialJobs,
         ParallelSpecs, Measured, PhaseShards, Shard, Phases
<1>3. Progress' <=> Progress
  BY <1>2 DEF Progress, prepareVars, SameWork
<1>4. WavesOK(waves, jobs)' <=> WavesOK(waves, jobs)
  BY DEF WavesOK, prepareVars
<1>q. QED
  BY <1>1, <1>2, <1>3, <1>4 DEF PlanInv, prepareVars

LEMMA PlanInvStarts ==
    ASSUME PlanInv, Reject \/ PrepareSerial \/ PrepareParallel
    PROVE  PlanInv'
<1>1. PlanTyped' /\ stage = "start" /\ request' = request
  BY PrepareTyped DEF PlanInv, PrepareStep, Reject, PrepareSerial, PrepareParallel
<1>2. /\ WorldSizes' = WorldSizes /\ MaxParallel' = MaxParallel /\ SerialJobs' = SerialJobs
      /\ ParallelSpecs' = ParallelSpecs
  BY <1>1 DEF WorldSizes, MaxParallel, HardwareLimit, SerialJobs,
         ParallelSpecs, Measured, PhaseShards, Shard, Phases
<1>3. jobs = <<>> /\ waves = <<>> /\ PlanTyped
  BY <1>1 DEF PlanInv
<1>4. CASE Reject
  BY <1>1, <1>3, <1>4 DEF Reject, PlanInv
<1>5. CASE PrepareSerial
  BY <1>1, <1>2, <1>5 DEF PrepareSerial, PlanInv
<1>6. CASE PrepareParallel
  <2>1. /\ Max(WorldSizes) <= NGpus /\ MaxParallel > 1 /\ specs' = ParallelSpecs
        /\ stage' = "placing" /\ limit' = Min({MaxParallel, Len(ParallelSpecs)})
        /\ waves' = <<>> /\ jobs' = <<>>
    BY <1>3, <1>6 DEF PrepareParallel
  <2>2. ParallelSpecs \in Seq(JobSpec) /\ Len(ParallelSpecs) \in Nat \ {0}
    BY <2>1, <1>3, ParallelSpecsTyped DEF PlanTyped
  <2>3. limit' >= 1
    <3>1. MaxParallel \in Int /\ Len(ParallelSpecs) \in Int
      BY <2>2, <1>3, MaxParallelTyped DEF PlanTyped
    <3>2. limit' \in {MaxParallel, Len(ParallelSpecs)}
      BY <2>1, <3>1, MinOfTwo
    <3>q. QED
      BY <2>1, <2>2, <3>1, <3>2
  <2>4. Progress'
    <3>1. Len(jobs') = 0 /\ 1..Len(jobs') = {}
      BY <2>1
    <3>2. \A i \in 1..Len(ParallelSpecs) : 0 + i = i
      OBVIOUS
    <3>q. QED
      BY <2>1, <2>2, <3>1, <3>2, <1>2 DEF Progress
  <2>5. WavesOK(waves, jobs)'
    BY <2>1 DEF WavesOK
  <2>q. QED
    BY <1>1, <1>2, <2>1, <2>3, <2>4, <2>5 DEF PlanInv
<1>q. QED
  BY <1>4, <1>5, <1>6

\* The first n members of a list without repetitions.
LEMMA PrefixOf ==
    ASSUME NEW S, NEW q \in Seq(S), Injective(q), NEW n \in Nat, n <= Len(q)
    PROVE  /\ Cardinality(ToSet(SubSeq(q, 1, n))) = n
           /\ ToSet(SubSeq(q, 1, n)) \subseteq ToSet(q)
           /\ ToSet(SubSeq(q, n + 1, Len(q))) \subseteq ToSet(q)
           /\ ToSet(SubSeq(q, 1, n)) \cap ToSet(SubSeq(q, n + 1, Len(q))) = {}
           /\ Injective(SubSeq(q, n + 1, Len(q)))
<1> DEFINE a == SubSeq(q, 1, n)
           b == SubSeq(q, n + 1, Len(q))
           D == 1..n
           R == 1..(Len(q) - n)
           Q == 1..Len(q)
           up(k) == n + k
<1>1. Len(q) \in Nat /\ DOMAIN q = Q
  OBVIOUS
<1>2. DOMAIN a = D /\ \A k \in D : a[k] = q[k] /\ k \in Q
  BY <1>1
<1>3. DOMAIN b = R /\ \A k \in R : b[k] = q[up(k)] /\ up(k) \in Q /\ up(k) \notin D
  <2>1. Len(b) = Len(q) - n /\ DOMAIN b = 1..Len(b)
    <3> HIDE DEF a, D, R, Q, up
    <3>1. Len(b) = IF n + 1 <= Len(q) THEN Len(q) - (n + 1) + 1 ELSE 0
      BY <1>1
    <3>2. DOMAIN b = 1..Len(b)
      BY <1>1
    <3> HIDE DEF b
    <3>3. Len(b) = Len(q) - n
      BY <3>1, <1>1
    <3>q. QED
      BY <3>2, <3>3
  <2>2. \A k \in R : b[k] = q[(n + 1) + k - 1]
    BY <1>1
  <2>3. \A k \in R : (n + 1) + k - 1 = up(k) /\ up(k) \in Q /\ up(k) \notin D
    BY <1>1
  <2>q. QED
    BY <2>1, <2>2, <2>3
<1>4. \A k, l \in R : up(k) = up(l) => k = l
  BY <1>1
<1>5. \A k, l \in Q : q[k] = q[l] => k = l
  BY <1>1 DEF Injective
<1>6. IsFiniteSet(D) /\ Cardinality(D) = n
  <2>1. IsFiniteSet(D) /\ Cardinality(D) = IF 1 > n THEN 0 ELSE n - 1 + 1
    BY FS_Interval
  <2> HIDE DEF D
  <2>q. QED
    BY <2>1
<1> HIDE DEF a, b, D, R, Q, up
<1>7. /\ ToSet(a) = {q[k] : k \in D} /\ ToSet(b) = {q[up(k)] : k \in R}
      /\ ToSet(q) = {q[k] : k \in Q}
  BY <1>1, <1>2, <1>3 DEF ToSet
<1>8. Cardinality(ToSet(a)) = n
  <2> DEFINE T == ToSet(a)
  <2>1. a = [k \in D |-> a[k]]
    BY <1>2 DEF a
  <2>2. /\ \A k \in D : a[k] \in T
        /\ \A k, l \in D : a[k] = a[l] => k = l
        /\ \A x \in T : \E k \in D : a[k] = x
    BY <1>2, <1>5, <1>7
  <2> HIDE DEF T
  <2>3. a \in [D -> T]
    BY <2>1, <2>2
  <2>4. a \in Injection(D, T) /\ a \in Surjection(D, T)
    BY <2>2, <2>3 DEF Injection, IsInjective, Surjection
  <2>5. ExistsBijection(D, T)
    BY <2>4 DEF ExistsBijection, Bijection
  <2>6. Cardinality(T) = Cardinality(D)
    BY <1>6, <2>5, FS_Bijection
  <2>q. QED
    BY <2>6, <1>6 DEF T
<1>9. ToSet(a) \cap ToSet(b) = {}
  BY <1>2, <1>3, <1>5, <1>7
<1>10. Injective(b)
  BY <1>3, <1>4, <1>5 DEF Injective
<1>11. ToSet(a) \subseteq ToSet(q) /\ ToSet(b) \subseteq ToSet(q)
  BY <1>2, <1>3, <1>7
<1>q. QED
  BY <1>8, <1>9, <1>10, <1>11 DEF a, b

\* The wave a shard goes to has room for it, a new one to begin with.
LEMMA RoomInWave ==
    ASSUME PlanTyped, WavesOK(waves, jobs), limit >= 1, NEW spec,
           spec.world \in 1..NGpus, NEW w, w = SelectedWave(spec)
    PROVE  /\ WavesOK(WithWave(w), jobs)
           /\ WithWave(w)[w].workers < limit
<1>1. /\ w \in 1..(Len(waves) + 1)
      /\ \/ w = Len(waves) + 1
         \/ w \in DOMAIN waves /\ Fits(w, spec)
  BY SelectedWaveTyped
<1>2. waves \in Seq(Wave) /\ Len(waves) \in Nat /\ DOMAIN waves = 1..Len(waves)
  BY DEF PlanTyped
<1>3. CASE w \in DOMAIN waves
  <2>1. w # Len(waves) + 1
    BY <1>2, <1>3
  <2>q. QED
    BY <1>1, <1>3, <2>1 DEF WithWave, Fits
<1>4. CASE w \notin DOMAIN waves
  <2> DEFINE all == [g \in Gpus |-> g]
             new == [available |-> all, workers |-> 0]
             W == Append(waves, new)
  <2>1. w = Len(waves) + 1
    BY <1>1, <1>4
  <2>2. Injective(all)
    BY DEF Injective
  <2> HIDE DEF all
  <2>3. new.available = all /\ new.workers = 0
    OBVIOUS
  <2>4. WithWave(w) = W
    BY <1>4 DEF WithWave, all
  <2> HIDE DEF new
  <2>5. /\ DOMAIN W = 1..(Len(waves) + 1) /\ W[w] = new
        /\ \A v \in DOMAIN waves : W[v] = waves[v]
    BY <2>1, <1>2
  <2> HIDE DEF W
  <2>6. \A v \in DOMAIN W : v \in DOMAIN waves \/ v = w
    BY <2>1, <2>5, <1>2
  <2>7. limit \in Nat /\ DOMAIN waves \subseteq DOMAIN W
    BY <2>5, <1>2 DEF PlanTyped
  <2>8. \A v \in DOMAIN W : Injective(W[v].available) /\ W[v].workers <= limit
    BY <2>2, <2>3, <2>5, <2>6, <2>7 DEF WavesOK
  <2>9. WavesOK(W, jobs)
    BY <2>5, <2>7, <2>8 DEF WavesOK
  <2>q. QED
    BY <2>3, <2>4, <2>5, <2>7, <2>9
<1>q. QED
  BY <1>3, <1>4

LEMMA PlanInvPlaces ==
    ASSUME PlanInv, PlaceSpec
    PROVE  PlanInv'
<1> DEFINE spec == Head(specs)
           w == SelectedWave(spec)
           W == WithWave(w)
           job == Placed(spec, w)
           n == Len(jobs)
<1>1. /\ stage = "placing" /\ specs' = Tail(specs)
      /\ jobs' = Append(jobs, job)
      /\ waves' = [W EXCEPT ![w] = LeftOver(spec, w)]
      /\ stage' = IF Len(specs) = 1 THEN "prepared" ELSE "placing"
      /\ UNCHANGED <<request, limit>>
  BY PlaceSpecIs
<1>2. PlanTyped' /\ PlanTyped
  BY PlaceSpecTyped DEF PlanInv
<1>3. /\ Max(WorldSizes) <= NGpus /\ MaxParallel > 1 /\ limit >= 1
      /\ Progress /\ WavesOK(waves, jobs) /\ specs # <<>> /\ specs \in Seq(JobSpec)
      /\ jobs \in Seq(Job) /\ limit \in Nat
  BY <1>1 DEF PlanInv, PlanTyped
<1>4. spec \in JobSpec /\ spec = specs[1] /\ Len(specs) \in Nat \ {0}
  BY <1>3
<1>5. /\ W \in Seq(Wave) /\ w \in DOMAIN W
      /\ Len(W[w].available) >= spec.world /\ spec.world \in 1..NGpus
  <2>1. spec.world \in 1..NGpus
    BY <1>4 DEF JobSpec
  <2>q. QED
    BY <2>1, <1>2, SelectedWaveTyped
<1>6. WavesOK(W, jobs) /\ W[w].workers < limit
  BY <1>2, <1>3, <1>5, RoomInWave
<1>7. /\ WorldSizes' = WorldSizes /\ MaxParallel' = MaxParallel
      /\ ParallelSpecs' = ParallelSpecs
  BY <1>1 DEF WorldSizes, MaxParallel, HardwareLimit,
         ParallelSpecs, Measured, PhaseShards, Shard, Phases
<1>8. /\ Len(jobs') = n + 1 /\ jobs'[n + 1] = job /\ n \in Nat
      /\ \A i \in 1..n : jobs'[i] = jobs[i]
      /\ DOMAIN jobs' = 1..(n + 1) /\ DOMAIN jobs = 1..n
      /\ \A i \in 1..(n + 1) : i \in 1..n \/ i = n + 1
      /\ \A i \in 1..n : i # n + 1
  BY <1>1, <1>3
<1>9. Progress'
  <2>1. Len(specs') = Len(specs) - 1 /\ \A i \in 1..Len(specs') : specs'[i] = specs[i + 1]
    BY <1>1, <1>3
  <2>2. job.phase = spec.phase /\ job.measurement = spec.measurement
        /\ job.shard = spec.shard /\ job.world = spec.world /\ job.points = spec.points
    BY DEF Placed
  <2> HIDE DEF spec, job, n, W, w
  <2>3. spec = ParallelSpecs[n + 1] /\ n + Len(specs) = Len(ParallelSpecs)
    BY <1>3, <1>4 DEF Progress, n
  <2>4. \A i \in 1..(n + 1) : SameWork(jobs'[i], ParallelSpecs[i])
    <3>1. SameWork(job, ParallelSpecs[n + 1])
      BY <2>2, <2>3 DEF SameWork
    <3>2. \A i \in 1..n : SameWork(jobs[i], ParallelSpecs[i])
      BY <1>3 DEF Progress, n
    <3>q. QED
      BY <3>1, <3>2, <1>8
  <2>5. \A i \in 1..Len(specs') : specs'[i] = ParallelSpecs[(n + 1) + i]
    <3> SUFFICES ASSUME NEW i \in 1..Len(specs')
                 PROVE  specs'[i] = ParallelSpecs[(n + 1) + i]
      OBVIOUS
    <3>1. i + 1 \in 1..Len(specs) /\ n + (i + 1) = (n + 1) + i
      BY <2>1, <1>4, <1>8
    <3>2. specs[i + 1] = ParallelSpecs[n + (i + 1)]
      BY <3>1, <1>3 DEF Progress, n
    <3>q. QED
      BY <3>1, <3>2, <2>1
  <2>6. (n + 1) + Len(specs') = Len(ParallelSpecs)
    <3>1. n \in Int /\ Len(specs) \in Int
      BY <1>4, <1>8
    <3>2. Len(specs') = Len(specs) - 1 /\ n + Len(specs) = Len(ParallelSpecs)
      BY <2>1, <2>3
    <3>q. QED
      BY <3>1, <3>2
  <2>7. \A i \in 1..Len(jobs') : SameWork(jobs'[i], ParallelSpecs[i])
    BY <2>4, <1>8
  <2>8. \A i : SameWork(jobs[i], ParallelSpecs[i])' <=> SameWork(jobs'[i'], ParallelSpecs[i'])
    BY <1>7 DEF SameWork
  <2>q. QED
    BY <2>5, <2>6, <2>7, <1>7, <1>8 DEF Progress, SameWork
<1>10. WavesOK(waves', jobs')
  <2> DEFINE av == W[w].available
             a == SubSeq(av, 1, spec.world)
             b == SubSeq(av, spec.world + 1, Len(av))
             left == LeftOver(spec, w)
             used == W[w].workers
  <2>1. /\ av \in Seq(Gpus) /\ Injective(av) /\ spec.world \in Nat
        /\ spec.world <= Len(av) /\ used \in Nat /\ used < limit
    <3>1. W[w] \in Wave
      BY <1>5
    <3>q. QED
      BY <3>1, <1>5, <1>6 DEF Wave, WavesOK
  <2>2. /\ Cardinality(ToSet(a)) = spec.world /\ ToSet(a) \subseteq ToSet(av)
        /\ ToSet(b) \subseteq ToSet(av) /\ ToSet(a) \cap ToSet(b) = {}
        /\ Injective(b)
    <3> HIDE DEF av
    <3>q. QED
      BY <2>1, PrefixOf
  <2>3. /\ left.available = b /\ left.workers = used + 1
        /\ job.wave = w /\ job.gpus = ToSet(a) /\ job.port = used + 1
        /\ job.world = spec.world
    BY DEF LeftOver, Placed
  <2>4. /\ DOMAIN waves' = DOMAIN W /\ waves'[w] = left
        /\ \A v \in DOMAIN W : v # w => waves'[v] = W[v]
    BY <1>1, <1>5
  <2>5. /\ \A i \in 1..n :
              /\ jobs[i].wave \in DOMAIN W
              /\ Cardinality(jobs[i].gpus) = jobs[i].world
              /\ jobs[i].port \in 1..W[jobs[i].wave].workers
              /\ jobs[i].gpus \cap ToSet(W[jobs[i].wave].available) = {}
        /\ \A i, j \in 1..n :
              i # j /\ jobs[i].wave = jobs[j].wave =>
                jobs[i].gpus \cap jobs[j].gpus = {} /\ jobs[i].port # jobs[j].port
        /\ \A v \in DOMAIN W : Injective(W[v].available) /\ W[v].workers <= limit
    BY <1>6, <1>8 DEF WavesOK
  <2>h. \A i \in 1..n : jobs[i].wave = w =>
          /\ jobs[i].gpus \cap ToSet(av) = {} /\ jobs[i].port \in 1..used
    BY <2>5
  <2> HIDE DEF av, a, b, left, used, job, w, W, spec, n
  <2>6. \A v \in DOMAIN waves' :
           Injective(waves'[v].available) /\ waves'[v].workers <= limit
    <3>1. left.workers <= limit
      BY <2>1, <2>3, <1>3
    <3>q. QED
      BY <3>1, <2>2, <2>3, <2>4, <2>5
  <2>7. ASSUME NEW i \in 1..n
        PROVE  /\ jobs[i].port \in 1..waves'[jobs[i].wave].workers
               /\ jobs[i].gpus \cap ToSet(waves'[jobs[i].wave].available) = {}
    <3>1. CASE jobs[i].wave = w
      <4>1. jobs[i].port \in 1..(used + 1) /\ jobs[i].gpus \cap ToSet(b) = {}
        BY <3>1, <2>h, <2>1, <2>2
      <4>q. QED
        BY <3>1, <4>1, <2>3, <2>4
    <3>2. CASE jobs[i].wave # w
      BY <3>2, <2>4, <2>5
    <3>q. QED
      BY <3>1, <3>2
  <2>8. \A i \in 1..(n + 1) :
           /\ jobs'[i].wave \in DOMAIN waves'
           /\ Cardinality(jobs'[i].gpus) = jobs'[i].world
           /\ jobs'[i].port \in 1..waves'[jobs'[i].wave].workers
           /\ jobs'[i].gpus \cap ToSet(waves'[jobs'[i].wave].available) = {}
    <3>1. /\ job.wave \in DOMAIN waves' /\ Cardinality(job.gpus) = job.world
          /\ job.port \in 1..waves'[job.wave].workers
          /\ job.gpus \cap ToSet(waves'[job.wave].available) = {}
      BY <2>1, <2>2, <2>3, <2>4, <1>5
    <3>q. QED
      BY <3>1, <2>4, <2>5, <2>7, <1>8
  <2>9. \A i \in 1..n : jobs[i].wave = job.wave =>
          jobs[i].gpus \cap job.gpus = {} /\ jobs[i].port # job.port
    <3> SUFFICES ASSUME NEW i \in 1..n, jobs[i].wave = w
                 PROVE  jobs[i].gpus \cap job.gpus = {} /\ jobs[i].port # job.port
      BY <2>3
    <3>1. jobs[i].gpus \cap ToSet(av) = {} /\ jobs[i].port \in 1..used
      BY <2>h
    <3>q. QED
      BY <3>1, <2>1, <2>2, <2>3
  <2>10. \A i, j \in 1..(n + 1) :
            i # j /\ jobs'[i].wave = jobs'[j].wave =>
              jobs'[i].gpus \cap jobs'[j].gpus = {} /\ jobs'[i].port # jobs'[j].port
    <3> SUFFICES ASSUME NEW i \in 1..(n + 1), NEW j \in 1..(n + 1), i # j,
                        jobs'[i].wave = jobs'[j].wave
                 PROVE  jobs'[i].gpus \cap jobs'[j].gpus = {} /\ jobs'[i].port # jobs'[j].port
      OBVIOUS
    <3>1. CASE i \in 1..n /\ j \in 1..n
      BY <3>1, <1>8, <2>5
    <3>2. CASE i = n + 1 /\ j \in 1..n
      BY <3>2, <1>8, <2>9
    <3>3. CASE j = n + 1 /\ i \in 1..n
      BY <3>3, <1>8, <2>9
    <3>q. QED
      BY <3>1, <3>2, <3>3, <1>8
  <2>q. QED
    BY <2>6, <2>8, <2>10, <1>8 DEF WavesOK
<1>11. WavesOK(waves, jobs)'
  BY <1>1, <1>10 DEF WavesOK
<1>12. stage' = "prepared" => specs' = <<>>
  <2>1. Tail(specs) \in Seq(JobSpec) /\ Len(Tail(specs)) = Len(specs) - 1
    BY <1>3
  <2>2. \A q \in Seq(JobSpec) : Len(q) = 0 => q = <<>>
    OBVIOUS
  <2>q. QED
    BY <2>1, <2>2, <1>1
<1>q. QED
  BY <1>1, <1>2, <1>3, <1>7, <1>9, <1>11, <1>12 DEF PlanInv

LEMMA PlanInvStep ==
    ASSUME PlanInv, [ExecNext]_execVars
    PROVE  PlanInv'
<1>1. CASE PrepareStep
  BY <1>1, PlanInvStarts, PlanInvPlaces DEF PrepareStep
<1>2. CASE UNCHANGED prepareVars
  BY <1>2, PlanInvKept
<1>3. Prepares => PrepareStep
  BY DEF Prepares
<1>4. MainStep \/ Halt \/ UNCHANGED execVars => UNCHANGED prepareVars
  BY DEF MainStep, Halt, execVars, StartPool, PlaceJobs, Collect, Rerun, IndexTraces,
         CollectRecords
<1>5. (\E j \in DOMAIN worker : WorkerStep(j)) => UNCHANGED prepareVars
  BY DEF WorkerStep, WorkerKeeps, StartJob, AcquirePermit, GateTimesOut,
                    Launch, LaunchFails, ReadReady, ReadEnd, LogFails
<1>6. (\E j \in DOMAIN worker : SweepStep(j)) => UNCHANGED prepareVars
  BY DEF SweepStep, SweepKeeps, SweepBoots, Iterate, SaveTrace, SaveRun, SweepExits,
         SweepDies
<1>q. QED
  BY <1>1, <1>2, <1>3, <1>4, <1>5, <1>6 DEF ExecNext

\* The jobs of a serial profile: all points of a phase, timed and then traced.
LEMMA SerialJobsAre ==
    ASSUME request \in Requests, Max(WorldSizes) <= NGpus, jobs = SerialJobs
    PROVE  /\ DOMAIN jobs = 1..(2 * Len(request.bench))
           /\ \A i \in DOMAIN jobs :
                /\ jobs[i].phase = (i + 1) \div 2
                /\ jobs[i].measurement = IF i % 2 = 1 THEN "timing" ELSE "trace"
                /\ jobs[i].shard = 0 /\ jobs[i].wave = i /\ jobs[i].port = NoPort
                /\ Cardinality(jobs[i].gpus) = jobs[i].world
                /\ jobs[i].world = Max(WorldSizes)
                /\ jobs[i].points = {<<s, b>> : s \in DOMAIN request.serve,
                                                b \in 1..request.bench[(i + 1) \div 2]}
<1> DEFINE D == 1..(2 * Len(request.bench))
           m(w) == IF w % 2 = 1 THEN "timing" ELSE "trace"
           pts(w) == {<<s, b>> : s \in DOMAIN request.serve,
                                 b \in 1..request.bench[(w + 1) \div 2]}
           world == Max(WorldSizes)
           job(w) == [phase |-> (w + 1) \div 2, measurement |-> m(w), shard |-> 0,
                      world |-> world, points |-> pts(w), wave |-> w,
                      gpus |-> 1..world, port |-> NoPort]
<1>1. jobs = [w \in D |-> job(w)]
  BY DEF SerialJobs
<1>2. Cardinality(1..world) = world
  <2>1. world \in Nat \ {0}
    BY WorldsBounded
  <2> HIDE DEF world
  <2>2. Cardinality(1..world) = IF 1 > world THEN 0 ELSE world - 1 + 1
    BY <2>1, FS_Interval
  <2>q. QED
    BY <2>1, <2>2
<1>3. \A i \in D : jobs[i] = job(i) /\ DOMAIN jobs = D
  BY <1>1
<1>4. DOMAIN jobs = D
  BY <1>1
<1> HIDE DEF D, m, pts, world
<1>5. \A i \in D :
        /\ jobs[i].phase = (i + 1) \div 2 /\ jobs[i].measurement = m(i)
        /\ jobs[i].shard = 0 /\ jobs[i].wave = i /\ jobs[i].port = NoPort
        /\ jobs[i].gpus = 1..world /\ jobs[i].world = world /\ jobs[i].points = pts(i)
  <2> SUFFICES ASSUME NEW i \in D
        PROVE  /\ jobs[i].phase = (i + 1) \div 2 /\ jobs[i].measurement = m(i)
               /\ jobs[i].shard = 0 /\ jobs[i].wave = i /\ jobs[i].port = NoPort
               /\ jobs[i].gpus = 1..world /\ jobs[i].world = world
               /\ jobs[i].points = pts(i)
    OBVIOUS
  <2>1. jobs[i] = job(i)
    BY <1>3
  <2>q. QED
    BY <2>1
<1>q. QED
  BY <1>2, <1>4, <1>5 DEF D, m, pts, world

LEMMA TwoPerPhase ==
    ASSUME NEW np \in Nat
    PROVE  /\ \A i \in 1..(2 * np) : (i + 1) \div 2 \in 1..np
           /\ \A i, j \in 1..(2 * np) :
                (i + 1) \div 2 = (j + 1) \div 2 /\ (i % 2 = 1 <=> j % 2 = 1) => i = j
           /\ \A p \in 1..np : /\ 2 * p - 1 \in 1..(2 * np) /\ 2 * p \in 1..(2 * np)
                               /\ (2 * p - 1) % 2 = 1 /\ (2 * p) % 2 # 1
                               /\ ((2 * p - 1) + 1) \div 2 = p
                               /\ (2 * p + 1) \div 2 = p
OBVIOUS

\* The point of phase p with serve index s and bench index b, measured as m, has
\* exactly one job, which has GPUs enough for it: the body of EveryPointOnce.
PointOnce(p, m, s, b) ==
    LET having == {i \in DOMAIN jobs :
                     /\ jobs[i].phase = p /\ jobs[i].measurement = m
                     /\ <<s, b>> \in jobs[i].points}
    IN  /\ Cardinality(having) = 1
        /\ \A i \in having : Cardinality(jobs[i].gpus) >= request.serve[s]

LEMMA SerialPlan ==
    ASSUME request \in Requests, Max(WorldSizes) <= NGpus, jobs = SerialJobs
    PROVE  WavesFeasible /\ EveryPointOnce /\ ShardsMatch
<1> DEFINE np == Len(request.bench)
           ph(i) == (i + 1) \div 2
           odd(i) == i % 2 = 1
           timing(p) == 2 * p - 1
           trace(p) == 2 * p
           D == DOMAIN jobs
           pts(p) == {<<s, b>> : s \in DOMAIN request.serve, b \in 1..request.bench[p]}
           at(p, m) == IF m = "timing" THEN timing(p) ELSE trace(p)
<1>1. \A i \in D :
        /\ jobs[i].phase = ph(i)
        /\ jobs[i].measurement = IF odd(i) THEN "timing" ELSE "trace"
        /\ jobs[i].shard = 0 /\ jobs[i].wave = i /\ jobs[i].port = NoPort
        /\ Cardinality(jobs[i].gpus) = jobs[i].world
        /\ jobs[i].world = Max(WorldSizes)
        /\ jobs[i].points = pts(ph(i))
  BY SerialJobsAre
<1>2. /\ \A i \in D : ph(i) \in Phases
      /\ \A i, j \in D : ph(i) = ph(j) /\ (odd(i) <=> odd(j)) => i = j
      /\ \A p \in Phases : /\ timing(p) \in D /\ trace(p) \in D
                           /\ odd(timing(p)) /\ ~ odd(trace(p))
                           /\ ph(timing(p)) = p /\ ph(trace(p)) = p
  <2>1. np \in Nat /\ Phases = 1..np
    BY RequestTyped DEF Phases
  <2>2. D = 1..(2 * np)
    BY SerialJobsAre
  <2> HIDE DEF np, D
  <2>q. QED
    BY <2>1, <2>2, TwoPerPhase
<1> HIDE DEF D, ph, odd, timing, trace, np, pts
<1>3. WavesFeasible
  <2>1. \A i, j \in D : jobs[i].wave = jobs[j].wave => i = j
    BY <1>1
  <2>q. QED
    BY <1>1, <2>1 DEF WavesFeasible, D
<1>4. ASSUME NEW p \in Phases, NEW m \in {"timing", "trace"},
             NEW s \in DOMAIN request.serve, NEW b \in 1..request.bench[p]
      PROVE  PointOnce(p, m, s, b)
  <2> DEFINE having == {i \in DOMAIN jobs :
                          /\ jobs[i].phase = p /\ jobs[i].measurement = m
                          /\ <<s, b>> \in jobs[i].points}
  <2>1. <<s, b>> \in pts(p)
    BY DEF pts
  <2>2. /\ at(p, m) \in D /\ jobs[at(p, m)].phase = p /\ jobs[at(p, m)].measurement = m
        /\ jobs[at(p, m)].points = pts(p)
    BY <1>1, <1>2
  <2>3. \A i \in D : jobs[i].phase = p /\ jobs[i].measurement = m => i = at(p, m)
    BY <2>2, <1>1, <1>2
  <2> HIDE DEF at
  <2>4. having = {at(p, m)}
    BY <2>1, <2>2, <2>3 DEF D
  <2>5. Cardinality({at(p, m)}) = 1
    BY FS_Singleton
  <2>6. request.serve[s] <= Max(WorldSizes) /\ request.serve[s] \in Nat
        /\ Max(WorldSizes) \in Nat
    BY WorldsBounded
  <2>7. Cardinality(jobs[at(p, m)].gpus) >= request.serve[s]
    BY <2>2, <2>6, <1>1
  <2>q. QED
    BY <2>4, <2>5, <2>7 DEF PointOnce
<1>5. \A i \in DOMAIN jobs : jobs[i].points # {}
  <2> SUFFICES ASSUME NEW i \in D PROVE jobs[i].points # {}
    BY DEF D
  <2>1. ph(i) \in Phases
    BY <1>2
  <2>2. request.bench[ph(i)] \in Nat \ {0} /\ 1 \in DOMAIN request.serve
    BY <2>1, RequestTyped DEF Phases
  <2>3. <<1, 1>> \in pts(ph(i))
    BY <2>2 DEF pts
  <2>q. QED
    BY <2>3, <1>1
<1>6. EveryPointOnce
  <2>1. \A p \in Phases, m \in {"timing", "trace"}, s \in DOMAIN request.serve :
          \A b \in 1..request.bench[p] : PointOnce(p, m, s, b)
    BY <1>4
  <2>q. QED
    BY <2>1, <1>5 DEF EveryPointOnce, PointOnce
<1>7. ShardsMatch
  <2>1. ASSUME NEW i \in D, NEW j \in D, jobs[i].phase = jobs[j].phase,
               jobs[i].measurement = jobs[j].measurement
        PROVE  i = j
    BY <2>1, <1>1, <1>2
  <2>2. ASSUME NEW i \in D
        PROVE  \E j \in D : /\ jobs[j].measurement # jobs[i].measurement
                            /\ jobs[j].phase = jobs[i].phase
                            /\ jobs[j].shard = jobs[i].shard
                            /\ jobs[j].points = jobs[i].points
    <3>1. ph(i) \in Phases
      BY <1>2
    <3>2. CASE odd(i)
      BY <3>1, <3>2, <1>1, <1>2
    <3>3. CASE ~ odd(i)
      BY <3>1, <3>3, <1>1, <1>2
    <3>q. QED
      BY <3>2, <3>3
  <2>q. QED
    BY <2>1, <2>2 DEF ShardsMatch, D
<1>q. QED
  BY <1>3, <1>6, <1>7

LEMMA WavesFeasibleFrom ==
    ASSUME PlanTyped, WavesOK(waves, jobs)
    PROVE  WavesFeasible
<1>1. limit \in Nat /\ \A v \in DOMAIN waves : waves[v].workers \in Nat
  <2>1. limit \in Nat /\ \A v \in DOMAIN waves : waves[v] \in Wave
    BY DEF PlanTyped
  <2>q. QED
    BY <2>1 DEF Wave
<1>2. ASSUME NEW i \in DOMAIN jobs
      PROVE  jobs[i].port \in 1..limit
  <2>1. jobs[i].wave \in DOMAIN waves /\ jobs[i].port \in 1..waves[jobs[i].wave].workers
    BY DEF WavesOK
  <2>2. waves[jobs[i].wave].workers \in Nat /\ waves[jobs[i].wave].workers <= limit
    BY <1>1, <2>1 DEF WavesOK
  <2>q. QED
    BY <1>1, <2>1, <2>2
<1>q. QED
  BY <1>2 DEF WavesFeasible, WavesOK

LEMMA ParallelPlan ==
    ASSUME PlanTyped, Max(WorldSizes) <= NGpus, MaxParallel > 1, specs = <<>>,
           Progress, WavesFeasible
    PROVE  EveryPointOnce /\ ShardsMatch
<1> DEFINE N == 1..Len(ParallelSpecs)
           n(p) == Len(PhaseShards(p))
           sh(p, k) == PhaseShards(p)[k]
<1>1. request \in Requests /\ jobs \in Seq(Job)
  BY DEF PlanTyped
<1>2. /\ DOMAIN jobs = N
      /\ \A i \in N : SameWork(jobs[i], ParallelSpecs[i])
  <2>1. Len(specs) = 0 /\ Len(jobs) \in Nat /\ DOMAIN jobs = 1..Len(jobs)
    BY <1>1
  <2>2. Len(jobs) = Len(ParallelSpecs)
    BY <2>1 DEF Progress
  <2>q. QED
    BY <2>1, <2>2 DEF Progress
<1>3. ASSUME NEW i \in N
      PROVE  \E p \in Phases, m \in Measurement : \E k \in 1..n(p) :
               /\ jobs[i].phase = p /\ jobs[i].measurement = m /\ jobs[i].shard = k
               /\ jobs[i].world = sh(p, k).world /\ jobs[i].points = sh(p, k).points
  <2>0. \A l \in N : \E p \in Phases, m \in Measurement : \E k \in 1..n(p) :
          ParallelSpecs[l] = [phase |-> p, measurement |-> m, shard |-> k,
                              world |-> sh(p, k).world, points |-> sh(p, k).points]
    BY <1>1, SpecsIndexed DEF SpecsAreShards
  <2>1. PICK p \in Phases, m \in Measurement : \E k \in 1..n(p) :
          ParallelSpecs[i] = [phase |-> p, measurement |-> m, shard |-> k,
                              world |-> sh(p, k).world, points |-> sh(p, k).points]
    <3> HIDE DEF N, n, sh
    <3>q. QED
      BY <2>0
  <2>2. PICK k \in 1..n(p) :
          ParallelSpecs[i] = [phase |-> p, measurement |-> m, shard |-> k,
                              world |-> sh(p, k).world, points |-> sh(p, k).points]
    BY <2>1
  <2> HIDE DEF sh, n
  <2>3. /\ jobs[i].phase = p /\ jobs[i].measurement = m /\ jobs[i].shard = k
        /\ jobs[i].world = sh(p, k).world /\ jobs[i].points = sh(p, k).points
    BY <2>2, <1>2 DEF SameWork
  <2>q. QED
    BY <2>3
<1>4. \A i, j \in N : /\ jobs[i].phase = jobs[j].phase
                      /\ jobs[i].measurement = jobs[j].measurement
                      /\ jobs[i].shard = jobs[j].shard
                      => i = j
  <2>1. \A i, j \in N :
           /\ ParallelSpecs[i].phase = ParallelSpecs[j].phase
           /\ ParallelSpecs[i].measurement = ParallelSpecs[j].measurement
           /\ ParallelSpecs[i].shard = ParallelSpecs[j].shard
           => i = j
    BY <1>1, SpecsIndexed DEF SpecsDiffer
  <2> HIDE DEF N
  <2>q. QED
    BY <2>1, <1>2 DEF SameWork
<1>5. \A p \in Phases, m \in Measurement : \A k \in 1..n(p) : \E i \in N :
         jobs[i].phase = p /\ jobs[i].measurement = m /\ jobs[i].shard = k
  <2>1. \A p \in Phases, m \in Measurement : \A k \in 1..n(p) : \E i \in N :
           /\ ParallelSpecs[i].phase = p
           /\ ParallelSpecs[i].measurement = m /\ ParallelSpecs[i].shard = k
    BY <1>1, SpecsIndexed DEF ShardsSpecified
  <2> HIDE DEF N, n
  <2>q. QED
    BY <2>1, <1>2 DEF SameWork
<1>6. ASSUME NEW p \in Phases
      PROVE  /\ \A k \in 1..n(p) : sh(p, k).points # {}
             /\ \A s \in DOMAIN request.serve : \A b \in 1..request.bench[p] :
                  \E k \in 1..n(p) :
                     /\ <<s, b>> \in sh(p, k).points /\ sh(p, k).world = request.serve[s]
                     /\ \A l \in 1..n(p) : <<s, b>> \in sh(p, l).points => l = k
  BY <1>1, PointsOfPhase
<1> HIDE DEF N, n, sh
<1>7. ASSUME NEW p \in Phases, NEW s \in DOMAIN request.serve,
             NEW b \in 1..request.bench[p], NEW m \in {"timing", "trace"}
      PROVE  LET having == {i \in DOMAIN jobs :
                              /\ jobs[i].phase = p /\ jobs[i].measurement = m
                              /\ <<s, b>> \in jobs[i].points}
             IN  /\ Cardinality(having) = 1
                 /\ \A i \in having : Cardinality(jobs[i].gpus) >= request.serve[s]
  <2> DEFINE having == {i \in DOMAIN jobs :
                          /\ jobs[i].phase = p /\ jobs[i].measurement = m
                          /\ <<s, b>> \in jobs[i].points}
  <2>1. PICK k \in 1..n(p) :
          /\ <<s, b>> \in sh(p, k).points /\ sh(p, k).world = request.serve[s]
          /\ \A l \in 1..n(p) : <<s, b>> \in sh(p, l).points => l = k
    BY <1>6
  <2>2. PICK i \in N : /\ jobs[i].phase = p /\ jobs[i].measurement = m
                       /\ jobs[i].shard = k
    BY <1>5 DEF Measurement
  <2>3. jobs[i].world = sh(p, k).world /\ jobs[i].points = sh(p, k).points
    BY <2>2, <1>3
  <2>4. ASSUME NEW j \in N, jobs[j].phase = p, jobs[j].measurement = m,
               <<s, b>> \in jobs[j].points
        PROVE  j = i
    <3>1. PICK l \in 1..n(p) : jobs[j].shard = l /\ jobs[j].points = sh(p, l).points
      BY <1>3, <2>4
    <3>2. l = k
      BY <3>1, <2>1, <2>4
    <3>q. QED
      BY <3>1, <3>2, <2>2, <2>4, <1>4
  <2>5. having = {i}
    BY <2>1, <2>2, <2>3, <2>4, <1>2
  <2>6. Cardinality({i}) = 1
    BY FS_Singleton
  <2>7. Cardinality(jobs[i].gpus) = request.serve[s] /\ request.serve[s] \in Nat
    <3>1. request.serve[s] \in Nat
      BY <1>1, WorldsBounded
    <3>q. QED
      BY <3>1, <2>1, <2>2, <2>3, <1>2 DEF WavesFeasible
  <2>8. Cardinality(jobs[i].gpus) >= request.serve[s]
    BY <2>7
  <2> HIDE DEF having
  <2>9. Cardinality(having) = 1 /\ \A x \in having : Cardinality(jobs[x].gpus) >= request.serve[s]
    BY <2>5, <2>6, <2>8
  <2>q. QED
    BY <2>9 DEF having
<1>8. \A i \in DOMAIN jobs : jobs[i].points # {}
  BY <1>2, <1>3, <1>6
<1>9. EveryPointOnce
  BY <1>7, <1>8 DEF EveryPointOnce
<1>10. ShardsMatch
  <2>1. ASSUME NEW i \in N
        PROVE  \E j \in N : /\ jobs[j].measurement # jobs[i].measurement
                            /\ jobs[j].phase = jobs[i].phase
                            /\ jobs[j].shard = jobs[i].shard
                            /\ jobs[j].points = jobs[i].points
    <3>1. PICK p \in Phases, m \in Measurement : \E k \in 1..n(p) :
               /\ jobs[i].phase = p /\ jobs[i].measurement = m /\ jobs[i].shard = k
               /\ jobs[i].points = sh(p, k).points
      BY <1>3
    <3>2. PICK k \in 1..n(p) :
               /\ jobs[i].phase = p /\ jobs[i].measurement = m /\ jobs[i].shard = k
               /\ jobs[i].points = sh(p, k).points
      BY <3>1
    <3>3. PICK o \in Measurement : o # m
      BY DEF Measurement
    <3>4. PICK j \in N : jobs[j].phase = p /\ jobs[j].measurement = o /\ jobs[j].shard = k
      BY <1>5
    <3>5. jobs[j].points = sh(p, k).points
      BY <3>4, <1>3
    <3>q. QED
      BY <3>2, <3>3, <3>4, <3>5
  <2>q. QED
    BY <2>1, <1>2, <1>4 DEF ShardsMatch
<1>q. QED
  BY <1>9, <1>10

LEMMA InvPlanSound ==
    ASSUME PlanInv
    PROVE  PlanSound
<1>1. CASE stage \in {"start", "rejected"} /\ jobs = <<>> /\ waves = <<>>
  BY <1>1 DEF PlanSound, WavesFeasible, EveryPointOnce, ShardsMatch
<1>2. CASE stage = "prepared" /\ Max(WorldSizes) <= NGpus /\ jobs = SerialJobs
  BY <1>2, SerialPlan DEF PlanSound, PlanInv, PlanTyped
<1>3. CASE /\ stage \in {"placing", "prepared"} /\ Max(WorldSizes) <= NGpus
           /\ MaxParallel > 1 /\ limit >= 1
           /\ Progress /\ WavesOK(waves, jobs)
           /\ stage = "prepared" => specs = <<>>
  <2>1. WavesFeasible
    BY <1>3, WavesFeasibleFrom DEF PlanInv
  <2>2. stage = "prepared" => EveryPointOnce /\ ShardsMatch
    BY <1>3, <2>1, ParallelPlan DEF PlanInv
  <2>q. QED
    BY <2>1, <2>2 DEF PlanSound, EveryPointOnce, ShardsMatch
<1>q. QED
  BY <1>1, <1>2, <1>3 DEF PlanInv

\* For every request, every number of visible GPUs and every max_parallel: the
\* jobs of one wave have GPUs and ports of their own, every point of every phase
\* is timed once and traced once on GPUs enough for it, and each timing shard has
\* the trace shard that indexing will look for.
THEOREM VllmPlanSound == ExecSpec => []PlanSound
<1>1. ExecInit => PlanInv
  BY PlanInvInit DEF ExecInit
<1>2. PlanInv /\ [ExecNext]_execVars => PlanInv'
  BY PlanInvStep
<1>3. PlanInv => PlanSound
  BY InvPlanSound
<1>q. QED
  BY <1>1, <1>2, <1>3, PTL DEF ExecSpec

-----------------------------------------------------------------------------
\* Profiling with Megatron-Bridge

-----------------------------------------------------------------------------
\* The invariant of the commands

Listed == {c \in Candidates : ValidCandidate(c)}
Outcomes == {"success", "failed", "submitted"}

Dir == [manifest : {None, Torn, "written"}, status : {None, Torn} \cup Outcomes,
        oomLog : BOOLEAN, events : Seq(Count), snapshot : {None} \cup Snapshots,
        sidecar : {None} \cup Sidecars, jobs : Nat]

RunState == [pc : {"next", "running", "exited"}, selected : Seq(Listed),
             todo : Seq(Listed), backend : {"local", "slurm"}, resume : BOOLEAN,
             failures : Nat, exit : {None} \cup Outcomes]

Peak == [allocated : Int, reserved : Int]
Gathered == [candidate : Listed, status : {"success", "oom", "failed"},
             times : Seq(Int), peaks : SUBSET Peak]

CollectState == [pc : {"status", "data", "written"}, config : Configs,
                 selected : Seq(Listed), todo : Seq(Listed),
                 records : Seq(Gathered), status : {None} \cup Outcomes]

TypeOK ==
    /\ candidates \in Seq(Listed) \cup {None, Torn}
    /\ dirs \in [Candidates -> Dir]
    /\ run \in RunState \cup {NoRun}
    /\ collect \in CollectState \cup {NoCollect}

\* What a directory says happened.
DirInv == \A c \in Candidates : /\ dirs[c].status = "success" => c \in clean
                                /\ dirs[c].oomLog => c \in ranOut

\* A command works through its selection from the front.
Behind(r) == Len(r.selected) - Len(r.todo)
Suffix(r) == /\ Behind(r) \in Nat
             /\ \A i \in 1..Len(r.todo) : r.todo[i] = r.selected[Behind(r) + i]

\* The candidates the run has dealt with, and those of them that failed.
Done == {run.selected[i] : i \in 1..Behind(run)}
Failed == {c \in Done : dirs[c].status = "failed"}

(* A candidate that was dealt with has its files, and nobody else tears    *)
(* them; the one at hand has a manifest, and an exit of 0 is a clean one.  *)
RunInv ==
    run # NoRun =>
        /\ Suffix(run)
        /\ \A c \in Done : /\ dirs[c].manifest = "written"
                           /\ dirs[c].status \in Outcomes
        /\ Cardinality(Failed) <= run.failures
        /\ run.pc # "next" => /\ run.todo # <<>>
                              /\ dirs[Current].manifest = "written"
        /\ run.pc = "exited" => /\ run.exit # None
                                /\ run.exit = "success" => Current \in clean

Earned(r) == /\ r.status = "success" => r.candidate \in clean
             /\ r.status = "oom" => r.candidate \in ranOut

\* A success with its measurements.
WellMeasured(r) == r.status = "success" => r.times # <<>> /\ r.peaks # {}

(* A collect that allows no gaps has a record of everything behind it.  The *)
(* status it read stays true while the run command rewrites the file.       *)
CollectInv ==
    collect # NoCollect =>
        /\ \A i \in 1..Len(collect.records) : Earned(collect.records[i])
        /\ collect.pc = "data" =>
              /\ collect.todo # <<>>
              /\ collect.status = "success" => Reading \in clean
        /\ collect.pc = "written" => collect.todo = <<>>
        /\ ~collect.config.allowIncomplete =>
              /\ Suffix(collect)
              /\ Len(collect.records) = Behind(collect)
              /\ \A i \in 1..Len(collect.records) :
                    /\ collect.records[i].candidate = collect.selected[i]
                    /\ WellMeasured(collect.records[i])

IInv == TypeOK /\ DirInv /\ RunInv /\ CollectInv /\ RefusalsEarned

-----------------------------------------------------------------------------
\* The replay of a snapshot

LEMMA MaxOfTwo ==
    ASSUME NEW a \in Int, NEW b \in Int
    PROVE  Max({a, b}) \in {a, b} /\ Max({a, b}) >= a /\ Max({a, b}) >= b
  BY PairFacts, MaxIsGreatest

\* g is the fold of F over D: each set is folded without the member that c
\* chooses of it, and that one last.
IsChosenFold(g, D, c, z, F) ==
    \A t \in SUBSET D : g[t] = IF t = {} THEN z ELSE F[<<g[t \ {c[t]}], c[t]>>]

(* Every fold over a finite set exists: it is defined on the sets of at    *)
(* most m members, for one m after the other.                              *)
LEMMA ChosenFoldExists ==
    ASSUME NEW D, IsFiniteSet(D), NEW c, \A t \in SUBSET D : t # {} => c[t] \in t,
           NEW S, NEW z \in S, NEW F, F \in [S \X D -> S]
    PROVE  \E g : g \in [SUBSET D -> S] /\ IsChosenFold(g, D, c, z, F)
<1> DEFINE Folds(g, t) == g[t] = IF t = {} THEN z ELSE F[<<g[t \ {c[t]}], c[t]>>]
           T == {m \in Nat : \E g \in [SUBSET D -> S] :
                    \A t \in SUBSET D : Cardinality(t) <= m => Folds(g, t)}
<1>1. IsFiniteSet(D)
  OBVIOUS
<1>2. \A t \in SUBSET D : IsFiniteSet(t) /\ Cardinality(t) \in Nat
  BY <1>1, FS_Subset, FS_CardinalityType
<1>3. ASSUME NEW t \in SUBSET D, t # {}
      PROVE  /\ c[t] \in t /\ c[t] \in D /\ t \ {c[t]} \in SUBSET D
             /\ Cardinality(t \ {c[t]}) = Cardinality(t) - 1
             /\ Cardinality(t) # 0
  <2>1. IsFiniteSet(t)
    BY <1>2
  <2>2. c[t] \in t
    BY <1>3
  <2>3. Cardinality(t \ {c[t]}) = Cardinality(t) - 1 /\ Cardinality(t) # 0
    BY <1>3, <2>1, <2>2, FS_RemoveElement, FS_EmptySet
  <2>q. QED
    BY <2>2, <2>3
<1>4. 0 \in T
  <2> DEFINE g == [t \in SUBSET D |-> z]
  <2>1. \A t \in SUBSET D : Cardinality(t) <= 0 => t = {}
    BY <1>2, FS_EmptySet
  <2>2. g \in [SUBSET D -> S]
    OBVIOUS
  <2>3. \A t \in SUBSET D : Cardinality(t) <= 0 => Folds(g, t)
    BY <2>1
  <2> HIDE DEF Folds, g
  <2>q. QED
    BY <2>2, <2>3
<1>5. ASSUME NEW m \in Nat, m \in T
      PROVE  m + 1 \in T
  <2>1. PICK g \in [SUBSET D -> S] :
           \A t \in SUBSET D : Cardinality(t) <= m => Folds(g, t)
    BY <1>5
  <2> DEFINE h == [t \in SUBSET D |-> IF Cardinality(t) = m + 1
                                      THEN F[<<g[t \ {c[t]}], c[t]>>] ELSE g[t]]
  <2>2. ASSUME NEW t \in SUBSET D, Cardinality(t) = m + 1
        PROVE  h[t] \in S /\ Folds(h, t)
    <3>1. t # {}
      <4>1. Cardinality({}) = 0 /\ m + 1 # 0
        BY FS_EmptySet
      <4> HIDE DEF h
      <4>q. QED
        BY <2>2, <4>1
    <3>2. /\ c[t] \in D /\ t \ {c[t]} \in SUBSET D
          /\ Cardinality(t \ {c[t]}) = m
      <4>1. /\ c[t] \in D /\ t \ {c[t]} \in SUBSET D
            /\ Cardinality(t \ {c[t]}) = Cardinality(t) - 1
        BY <1>3, <3>1
      <4>2. (m + 1) - 1 = m
        OBVIOUS
      <4>q. QED
        BY <2>2, <4>1, <4>2
    <3>3. g[t \ {c[t]}] \in S /\ h[t \ {c[t]}] = g[t \ {c[t]}]
      BY <3>2
    <3>4. h[t] = F[<<h[t \ {c[t]}], c[t]>>]
      BY <2>2, <3>3
    <3>5. <<h[t \ {c[t]}], c[t]>> \in S \X D
      BY <3>2, <3>3
    <3> HIDE DEF h
    <3>q. QED
      BY <3>1, <3>4, <3>5
  <2>3. ASSUME NEW t \in SUBSET D, Cardinality(t) <= m
        PROVE  Folds(h, t)
    <3>1. Folds(g, t) /\ h[t] = g[t]
      BY <1>2, <2>1, <2>3
    <3>2. CASE t = {}
      BY <3>1, <3>2
    <3>3. CASE t # {}
      <4>1. t \ {c[t]} \in SUBSET D /\ Cardinality(t \ {c[t]}) = Cardinality(t) - 1
        BY <1>3, <3>3
      <4>2. Cardinality(t \ {c[t]}) # m + 1
        BY <1>2, <2>3, <4>1
      <4>3. h[t \ {c[t]}] = g[t \ {c[t]}]
        BY <4>1, <4>2
      <4> HIDE DEF h
      <4>q. QED
        BY <3>1, <3>3, <4>3
    <3>q. QED
      BY <3>2, <3>3
  <2>4. h \in [SUBSET D -> S]
    BY <2>2
  <2>5. ASSUME NEW t \in SUBSET D, Cardinality(t) <= m + 1
        PROVE  Folds(h, t)
    <3>1. Cardinality(t) <= m \/ Cardinality(t) = m + 1
      BY <1>2, <2>5
    <3> HIDE DEF h, Folds
    <3>q. QED
      BY <2>2, <2>3, <3>1
  <2> HIDE DEF h, Folds
  <2>q. QED
    BY <2>4, <2>5
<1>6. Nat \subseteq T
  <2> HIDE DEF T
  <2>q. QED
    BY <1>4, <1>5, NatSetInduction
<1>7. PICK g \in [SUBSET D -> S] :
         \A t \in SUBSET D : Cardinality(t) <= Cardinality(D) => Folds(g, t)
  BY <1>2, <1>6
<1>8. \A t \in SUBSET D : Folds(g, t)
  <2> HIDE DEF Folds
  <2>q. QED
    BY <1>1, <1>7, FS_Subset
<1>q. QED
  BY <1>7, <1>8 DEF IsChosenFold

\* g is the fold of F over the sets of places in D.
IsFold(g, D, z, F) ==
    \A t \in SUBSET D : g[t] = IF t = {} THEN z ELSE F[<<g[t \ {Max(t)}], Max(t)>>]

\* A fold over the places D of a sequence folds the last place last.
LEMMA FoldExists ==
    ASSUME NEW D, IsFiniteSet(D), \A k \in D : k \in Int,
           NEW S, NEW z \in S, NEW F, F \in [S \X D -> S]
    PROVE  \E g : g \in [SUBSET D -> S] /\ IsFold(g, D, z, F)
<1> DEFINE c == [t \in SUBSET D |-> Max(t)]
<1>1. ASSUME NEW t \in SUBSET D
      PROVE  c[t] = Max(t) /\ (t # {} => c[t] \in t)
  <2>1. IsFiniteSet(t) /\ \A k \in t : k \in Int
    BY FS_Subset
  <2>2. t # {} => Max(t) \in t
    BY <2>1, MaxIsGreatest
  <2>q. QED
    BY <2>2
<1> HIDE DEF c
<1>2. PICK g : g \in [SUBSET D -> S] /\ IsChosenFold(g, D, c, z, F)
  BY <1>1, ChosenFoldExists
<1>3. IsFold(g, D, z, F)
  BY <1>1, <1>2 DEF IsFold, IsChosenFold
<1>q. QED
  BY <1>2, <1>3

-----------------------------------------------------------------------------
\* The enumeration

LEMMA ToSetOfSeq ==
    ASSUME NEW S, NEW seq \in Seq(S)
    PROVE  IsFiniteSet(ToSet(seq)) /\ ToSet(seq) \subseteq S
<1>1. seq \in Surjection(1..Len(seq), ToSet(seq)) /\ ToSet(seq) \subseteq S
  BY LenProperties DEF ToSet, Surjection
<1>2. Len(seq) \in Nat
  BY LenProperties
<1>3. IsFiniteSet(1..Len(seq))
  BY <1>2, FS_Interval
<1> DEFINE D == 1..Len(seq)
           T == ToSet(seq)
<1> HIDE DEF D, T
<1>q. QED
  BY <1>1, <1>3, FS_Surjection DEF D, T

\* A place in the product: sizes and positions in the configured lists.
Place == Int \X Int \X Int \X Int \X Int \X Int \X Int

LEMMA EarlierIsStrict ==
    ASSUME NEW a \in Place, NEW b \in Place, NEW c \in Place
    PROVE  /\ ~Earlier(a, a)
           /\ Earlier(a, b) /\ Earlier(b, c) => Earlier(a, c)
           /\ a # b => Earlier(a, b) \/ Earlier(b, a)
<1>1. /\ DOMAIN a = 1..7 /\ DOMAIN b = 1..7 /\ DOMAIN c = 1..7
      /\ \A k \in 1..7 : a[k] \in Int /\ b[k] \in Int /\ c[k] \in Int
  BY DEF Place
<1>2. ~Earlier(a, a)
  BY <1>1 DEF Earlier
<1>3. ASSUME Earlier(a, b), Earlier(b, c)
      PROVE  Earlier(a, c)
  <2>1. PICK i \in 1..7 : a[i] < b[i] /\ \A m \in 1..(i - 1) : a[m] = b[m]
    BY <1>1, <1>3 DEF Earlier
  <2>2. PICK j \in 1..7 : b[j] < c[j] /\ \A m \in 1..(j - 1) : b[m] = c[m]
    BY <1>1, <1>3 DEF Earlier
  <2> DEFINE k == IF i < j THEN i ELSE j
  <2>3. k \in 1..7 /\ a[k] < c[k]
    BY <1>1, <2>1, <2>2
  <2>4. \A m \in 1..(k - 1) : a[m] = c[m]
    BY <1>1, <2>1, <2>2
  <2> HIDE DEF k
  <2>q. QED
    BY <1>1, <2>3, <2>4 DEF Earlier
<1>4. ASSUME a # b
      PROVE  Earlier(a, b) \/ Earlier(b, a)
  <2>1. ASSUME NEW k \in 1..7, a[k] # b[k], \A m \in 1..(k - 1) : a[m] = b[m]
        PROVE  Earlier(a, b) \/ Earlier(b, a)
    <3>1. a[k] < b[k] \/ b[k] < a[k]
      BY <1>1, <2>1
    <3>q. QED
      BY <1>1, <2>1, <3>1 DEF Earlier
  <2>2. \/ a[1] # b[1] \/ a[2] # b[2] \/ a[3] # b[3] \/ a[4] # b[4]
        \/ a[5] # b[5] \/ a[6] # b[6] \/ a[7] # b[7]
    BY <1>4 DEF Place
  <2>3. \E k \in 1..7 : a[k] # b[k] /\ \A m \in 1..(k - 1) : a[m] = b[m]
    BY <2>2
  <2>q. QED
    BY <2>1, <2>3
<1>q. QED
  BY <1>2, <1>3, <1>4

LEMMA ProductIsFinite ==
    ASSUME NEW s \in Searches
    PROVE  /\ IsFiniteSet(Product(s))
           /\ Product(s) \subseteq Place
           /\ \A d \in Product(s) :
                 /\ d[1] \in Count /\ d[2] \in Count /\ d[3] \in Count
                 /\ d[4] \in Microbatches(s) /\ d[5] \in DOMAIN s.shapes
<1> DEFINE A == ToSet(s.tp)  B == ToSet(s.pp)  C == ToSet(s.cp)
           D == Microbatches(s)  E == DOMAIN s.shapes
           F == DOMAIN s.schedules  G == DOMAIN s.recompute
<1>1. /\ s.tp \in Seq(Count) /\ s.pp \in Seq(Count) /\ s.cp \in Seq(Count)
      /\ s.nmb \in Seq(Int) /\ s.shapes \in Seq(Seq(Int))
      /\ s.schedules \in Seq(STRING) /\ s.recompute \in Seq(STRING)
  BY DEF Searches
<1>2. /\ IsFiniteSet(A) /\ IsFiniteSet(B) /\ IsFiniteSet(C)
      /\ A \subseteq Count /\ B \subseteq Count /\ C \subseteq Count
  BY <1>1, ToSetOfSeq
<1>3. IsFiniteSet(D) /\ D \subseteq Int
  <2>1. CASE s.nmb # <<>>
    BY <1>1, <2>1, ToSetOfSeq DEF Microbatches
  <2>2. CASE s.nmb = <<>>
    <3>1. IsFiniteSet({1}) /\ D = {1} \cup B
      BY <2>2, FS_Singleton DEF Microbatches
    <3>2. IsFiniteSet({1} \cup B)
      BY <1>2, <3>1, FS_Union
    <3>q. QED
      BY <1>2, <3>1, <3>2 DEF Count
  <2>q. QED
    BY <2>1, <2>2
<1>4. /\ IsFiniteSet(E) /\ IsFiniteSet(F) /\ IsFiniteSet(G)
      /\ E \subseteq Int /\ F \subseteq Int /\ G \subseteq Int
  <2>1. ASSUME NEW S, NEW seq \in Seq(S)
        PROVE  IsFiniteSet(DOMAIN seq) /\ DOMAIN seq \subseteq Int
    <3>1. DOMAIN seq = 1..Len(seq) /\ Len(seq) \in Nat
      BY LenProperties
    <3>q. QED
      BY <3>1, FS_Interval
  <2>q. QED
    BY <1>1, <2>1
<1>5. Product(s) = A \X B \X C \X D \X E \X F \X G
  BY DEF Product
<1> HIDE DEF A, B, C, D, E, F, G
<1> DEFINE N == (((((A \X B) \X C) \X D) \X E) \X F) \X G
           P == A \X B \X C \X D \X E \X F \X G
           flat == [p \in N |-> <<p[1][1][1][1][1][1], p[1][1][1][1][1][2], p[1][1][1][1][2],
                                  p[1][1][1][2], p[1][1][2], p[1][2], p[2]>>]
<1>6. IsFiniteSet(N)
  BY <1>2, <1>3, <1>4, FS_Product
<1>7. flat \in Surjection(N, P)
  <2>1. flat \in [N -> P]
    OBVIOUS
  <2>2. ASSUME NEW q \in P
        PROVE  \E p \in N : flat[p] = q
    <3> DEFINE p == <<<<<<<<<<<<q[1], q[2]>>, q[3]>>, q[4]>>, q[5]>>, q[6]>>, q[7]>>
    <3>1. p \in N
      OBVIOUS
    <3>2. flat[p] = q
      BY <3>1
    <3>q. QED
      BY <3>1, <3>2
  <2>q. QED
    BY <2>1, <2>2 DEF Surjection
<1>8. IsFiniteSet(P)
  <2> HIDE DEF N, P, flat
  <2>q. QED
    BY <1>6, <1>7, FS_Surjection
<1>9. P \subseteq Place
  <2>1. A \subseteq Int /\ B \subseteq Int /\ C \subseteq Int
    BY <1>2 DEF Count
  <2>2. ASSUME NEW q \in P
        PROVE  q \in Place
    BY <1>3, <1>4, <2>1 DEF Place
  <2>q. QED
    BY <2>2
<1>q. QED
  BY <1>2, <1>5, <1>8, <1>9 DEF D, E

(* Every place of the list is taken: the rank of a combination, the number *)
(* of accepted ones before it, is a bijection onto the places.             *)
LEMMA KeptIsAccepted ==
    ASSUME NEW s \in Searches
    PROVE  \E n \in Nat : /\ DOMAIN Kept(s) = 1..n
                          /\ \A k \in 1..n : /\ Kept(s)[k] \in Product(s)
                                             /\ Accepted(s, Kept(s)[k])
<1> DEFINE kept == {d \in Product(s) : Accepted(s, d)}
           before(d) == {e \in kept : Earlier(e, d)}
           n == Cardinality(kept)
           rank == [d \in kept |-> Cardinality(before(d))]
<1>1. IsFiniteSet(kept) /\ n \in Nat /\ kept \subseteq Place
  <2>1. IsFiniteSet(Product(s)) /\ Product(s) \subseteq Place /\ kept \in SUBSET Product(s)
    BY ProductIsFinite
  <2> HIDE DEF kept
  <2>q. QED
    BY <2>1, FS_Subset, FS_CardinalityType
<1>2. ASSUME NEW d \in kept
      PROVE  /\ IsFiniteSet(before(d)) /\ Cardinality(before(d)) \in Int
             /\ Cardinality(before(d)) \in 0..(n - 1)
  <2>1. before(d) \in SUBSET kept
    OBVIOUS
  <2>2. d \notin before(d)
    BY <1>1, EarlierIsStrict
  <2> HIDE DEF kept, before
  <2>3. /\ IsFiniteSet(before(d)) /\ Cardinality(before(d)) <= n
        /\ Cardinality(before(d)) = n => before(d) = kept
        /\ Cardinality(before(d)) \in Nat
    BY <1>1, <2>1, FS_Subset, FS_CardinalityType
  <2>q. QED
    BY <1>1, <2>2, <2>3
<1>3. ASSUME NEW d \in kept, NEW e \in kept, Earlier(d, e)
      PROVE  Cardinality(before(d)) < Cardinality(before(e))
  <2>1. \A f \in before(d) : f \in before(e)
    BY <1>1, <1>3, EarlierIsStrict
  <2>2. before(d) \in SUBSET before(e)
    BY <2>1
  <2>3. d \in before(e) /\ d \notin before(d)
    BY <1>1, <1>3, EarlierIsStrict
  <2>4. /\ IsFiniteSet(before(e))
        /\ Cardinality(before(d)) \in Int /\ Cardinality(before(e)) \in Int
    <3> HIDE DEF before, kept, n
    <3>q. QED
      BY <1>2
  <2> HIDE DEF before
  <2>q. QED
    BY <2>2, <2>3, <2>4, FS_Subset
<1>4. rank \in Injection(kept, 0..(n - 1))
  <2>1. rank \in [kept -> 0..(n - 1)]
    BY <1>2
  <2>2. ASSUME NEW d \in kept, NEW e \in kept, d # e
        PROVE  rank[d] # rank[e]
    <3>1. Earlier(d, e) \/ Earlier(e, d)
      BY <1>1, <2>2, EarlierIsStrict
    <3>2. Cardinality(before(d)) \in Int /\ Cardinality(before(e)) \in Int
      <4> HIDE DEF before, kept, n
      <4>q. QED
        BY <1>2
    <3>3. Cardinality(before(d)) # Cardinality(before(e))
      <4> HIDE DEF before
      <4>q. QED
        BY <1>3, <2>2, <3>1, <3>2
    <3>q. QED
      BY <2>2, <3>3
  <2> HIDE DEF rank
  <2>q. QED
    BY <2>1, <2>2 DEF Injection, IsInjective
<1>5. rank \in Surjection(kept, 0..(n - 1))
  <2>1. n - 1 \in Int /\ 0 \in Int
    BY <1>1
  <2>2. IsFiniteSet(0..(n - 1)) /\ Cardinality(0..(n - 1)) = n
    BY <1>1, <2>1, FS_Interval
  <2> HIDE DEF rank, kept
  <2>q. QED
    BY <1>1, <1>4, <2>2, FS_Injection
<1>6. \A k \in 1..n : \E d \in kept : Cardinality(before(d)) = k - 1
  <2>1. \A r \in 0..(n - 1) : \E d \in kept : rank[d] = r
    <3> HIDE DEF kept, rank, n
    <3>q. QED
      BY <1>5 DEF Surjection
  <2>2. \A k \in 1..n : k - 1 \in 0..(n - 1)
    BY <1>1
  <2>q. QED
    BY <2>1, <2>2
<1>7. Kept(s) = [k \in 1..n |-> CHOOSE d \in kept : Cardinality(before(d)) = k - 1]
  BY DEF Kept
<1>8. \A k \in 1..n : Kept(s)[k] \in kept
  <2> HIDE DEF kept, before, n
  <2>q. QED
    BY <1>6, <1>7
<1>q. QED
  BY <1>1, <1>7, <1>8

LEMMA CandidateIsValid ==
    ASSUME NEW s \in Searches, NEW d \in Product(s), Accepted(s, d),
           d[4] \in Nat \ {0}, NEW dp, dp = s.world \div (d[1] * d[2] * d[3])
    PROVE  ValidCandidate(Candidate(s, d, dp, s.mbs * dp * d[4]))
<1>1. /\ d[1] \in Nat \ {0} /\ d[2] \in Nat \ {0} /\ d[3] = 1
      /\ s.world \in Nat \ {0} /\ s.mbs \in Nat \ {0}
      /\ s.world % (d[1] * d[2] * d[3]) = 0
      /\ s.schedules[d[6]] = "1f1b"
      /\ Len(s.shapes[d[5]]) = s.mbs
      /\ ToSet(s.shapes[d[5]]) \subseteq Nat \ {0}
  BY ProductIsFinite DEF Accepted, Searches, Count
<1>2. \A a, b \in Nat \ {0} : a * b \in Nat \ {0}
  OBVIOUS
<1>3. \A w, q \in Nat \ {0} : w % q = 0 => w = q * (w \div q) /\ w \div q \in Nat \ {0}
  OBVIOUS
<1>4. d[1] * d[2] * d[3] \in Nat \ {0}
  BY <1>1, <1>2
<1>5. dp \in Nat \ {0} /\ s.world = (d[1] * d[2] * d[3]) * dp
  BY <1>1, <1>3, <1>4
<1>6. \A a, b, c, e \in Nat : (a * b * c) * e = a * b * e * c
  OBVIOUS
<1>7. s.world = d[1] * d[2] * dp * d[3]
  BY <1>1, <1>5, <1>6
<1>8. s.mbs * dp * d[4] \in Nat \ {0}
  BY <1>1, <1>2, <1>5
<1> DEFINE gbs == s.mbs * dp * d[4]
           c == Candidate(s, d, dp, gbs)
<1>9. /\ c.par.tp = d[1] /\ c.par.pp = d[2] /\ c.par.dp = dp /\ c.par.cp = d[3]
      /\ c.par.world = s.world /\ c.mbs = s.mbs /\ c.gbs = gbs /\ c.nmb = d[4]
      /\ c.shape = s.shapes[d[5]] /\ c.schedule = s.schedules[d[6]]
  BY DEF Candidate, Parallelism
<1>10. ValidParallelism(c.par)
  <2>1. s.world = c.par.tp * c.par.pp * c.par.dp * c.par.cp
    BY <1>7, <1>9
  <2>2. {c.par.tp, c.par.pp, c.par.dp, c.par.cp} \subseteq Nat \ {0}
    <3>1. dp \in Nat \ {0}
      BY <1>5
    <3>2. d[1] \in Nat \ {0} /\ d[2] \in Nat \ {0} /\ d[3] \in Nat \ {0}
      BY <1>1
    <3> HIDE DEF c
    <3>q. QED
      BY <1>9, <3>1, <3>2
  <2>3. c.par.world = c.par.tp * c.par.pp * c.par.dp * c.par.cp
    BY <1>9, <2>1
  <2> HIDE DEF c
  <2>q. QED
    BY <2>2, <2>3 DEF ValidParallelism
<1>11. c.gbs = c.mbs * c.par.dp * c.nmb
  BY <1>9
<1> HIDE DEF c, gbs
<1>12. ValidCandidate(c)
  BY <1>1, <1>8, <1>9, <1>10, <1>11 DEF ValidCandidate, gbs
<1>q. QED
  BY <1>12 DEF c, gbs

LEMMA CandidatesMade ==
    ASSUME NEW s \in Searches
    PROVE  \E n \in Nat :
              /\ DOMAIN TrainingCandidates(s) = 1..n
              /\ \A i \in 1..n :
                    /\ TrainingCandidates(s)[i].shape \in Seq(Int)
                    /\ SearchAllowed(s) => ValidCandidate(TrainingCandidates(s)[i])
<1>1. PICK n \in Nat : /\ DOMAIN Kept(s) = 1..n
                      /\ \A k \in 1..n : /\ Kept(s)[k] \in Product(s)
                                         /\ Accepted(s, Kept(s)[k])
  BY KeptIsAccepted
<1>2. DOMAIN TrainingCandidates(s) = 1..n
  BY <1>1 DEF TrainingCandidates
<1>3. ASSUME NEW i \in 1..n
      PROVE  /\ TrainingCandidates(s)[i].shape \in Seq(Int)
             /\ SearchAllowed(s) => ValidCandidate(TrainingCandidates(s)[i])
  <2> DEFINE d == Kept(s)[i]
             dp == s.world \div (d[1] * d[2] * d[3])
  <2>1. d \in Product(s) /\ Accepted(s, d)
    BY <1>1
  <2>2. TrainingCandidates(s)[i] = Candidate(s, d, dp, s.mbs * dp * d[4])
    BY <1>1 DEF TrainingCandidates
  <2> HIDE DEF d
  <2>3. d[4] \in Microbatches(s) /\ d[5] \in DOMAIN s.shapes
    BY <2>1, ProductIsFinite
  <2>4. TrainingCandidates(s)[i].shape = s.shapes[d[5]]
    BY <2>2 DEF Candidate
  <2>5. s.shapes[d[5]] \in Seq(Int)
    <3>1. s.shapes \in Seq(Seq(Int))
      BY DEF Searches
    <3> DEFINE T == Seq(Int)
    <3> HIDE DEF T
    <3>2. s.shapes[d[5]] \in T
      BY <2>3, <3>1, LenProperties, ElementOfSeq DEF T
    <3>q. QED
      BY <3>2 DEF T
  <2>6. SearchAllowed(s) => d[4] \in Nat \ {0}
    BY <2>3 DEF SearchAllowed
  <2> HIDE DEF dp
  <2>7. dp = s.world \div (d[1] * d[2] * d[3])
    BY DEF dp
  <2>8. SearchAllowed(s) => ValidCandidate(TrainingCandidates(s)[i])
    BY <2>1, <2>2, <2>6, <2>7, CandidateIsValid
  <2>q. QED
    BY <2>4, <2>5, <2>8
<1>q. QED
  BY <1>2, <1>3

\* generate writes a list of candidates that the constructor accepts.
LEMMA ListIsSound ==
    ASSUME NEW config \in Configs, SearchAllowed(config.search)
    PROVE  TrainingCandidates(config.search) \in Seq(Listed)
<1> DEFINE made == TrainingCandidates(config.search)
<1>1. config.search \in Searches
  BY BridgeAssumption
<1>2. PICK n \in Nat : /\ DOMAIN made = 1..n
                      /\ \A i \in 1..n : ValidCandidate(made[i])
  BY <1>1, CandidatesMade
<1>3. \A i \in 1..n : made[i] \in Candidates
  BY <1>2 DEF Candidates, ToSet
<1>4. made = [i \in 1..n |-> made[i]]
  BY <1>2 DEF TrainingCandidates
<1> HIDE DEF made
<1>5. made \in [1..n -> Listed]
  BY <1>2, <1>3, <1>4 DEF Listed
<1>6. made \in Seq(Listed)
  BY <1>5, SeqDef
<1>q. QED
  BY <1>6 DEF made

-----------------------------------------------------------------------------
\* The record that is collected

\* The counters of a memory history.
Counters == [allocated : Nat, reserved : Nat, topAllocated : Nat, topReserved : Nat]

LEMMA ReplayType ==
    ASSUME NEW p \in Counters, NEW e \in [action : STRING, size : Nat]
    PROVE  Replay(p, e) \in Counters
<1> DEFINE allocated == CASE e.action = "alloc" -> p.allocated + e.size
                          [] e.action = "free" -> Max({0, p.allocated - e.size})
                          [] OTHER -> p.allocated
           reserved == CASE e.action = "segment_alloc" -> p.reserved + e.size
                         [] e.action = "segment_free" -> Max({0, p.reserved - e.size})
                         [] OTHER -> p.reserved
<1>1. /\ p.allocated \in Nat /\ p.reserved \in Nat /\ e.size \in Nat
      /\ p.topAllocated \in Nat /\ p.topReserved \in Nat
  BY DEF Counters
<1>2. \A a, b \in Nat : Max({0, a - b}) \in Nat
  <2> SUFFICES ASSUME NEW a \in Nat, NEW b \in Nat PROVE Max({0, a - b}) \in Nat
    OBVIOUS
  <2>1. a - b \in Int /\ 0 \in Int
    OBVIOUS
  <2>q. QED
    BY <2>1, MaxOfTwo
<1>3. \A a, b \in Nat : Max({a, b}) \in Nat
  BY MaxOfTwo
<1>4. allocated \in Nat /\ reserved \in Nat
  BY <1>1, <1>2
<1>5. Replay(p, e) = [allocated |-> allocated, reserved |-> reserved,
                      topAllocated |-> Max({p.topAllocated, allocated}),
                      topReserved |-> Max({p.topReserved, reserved})]
  BY DEF Replay
<1> HIDE DEF allocated, reserved
<1>6. /\ Max({p.topAllocated, allocated}) \in Nat
      /\ Max({p.topReserved, reserved}) \in Nat
  BY <1>1, <1>3, <1>4
<1>q. QED
  BY <1>4, <1>5, <1>6 DEF Counters

LEMMA HistoryType ==
    ASSUME NEW events \in Seq([action : STRING, size : Nat]), NEW zero \in Counters
    PROVE  FoldLeft(Replay, zero, events) \in Counters
<1> DEFINE n == Len(events)
           D == 1..n
           After(g, t) == IF t = {} THEN zero
                          ELSE Replay(g[t \ {Max(t)}], events[Max(t)])
           h == CHOOSE g : g = [t \in SUBSET D |-> After(g, t)]
           F == [x \in Counters \X D |-> Replay(x[1], events[x[2]])]
<1>1. n \in Nat /\ DOMAIN events = D /\ IsFiniteSet(D)
  BY LenProperties, FS_Interval
<1>2. FoldLeft(Replay, zero, events) = h[D]
  <2>1. FoldLeft(Replay, zero, events) =
           (CHOOSE g : g = [t \in SUBSET (DOMAIN events) |-> After(g, t)])[DOMAIN events]
    BY DEF FoldLeft, MapThenFoldSet
  <2>q. QED
    BY <1>1, <2>1
<1>3. \A k \in D : events[k] \in [action : STRING, size : Nat]
  BY ElementOfSeq
<1>4. \A t \in SUBSET D : t # {} => Max(t) \in t
  <2> SUFFICES ASSUME NEW t \in SUBSET D, t # {} PROVE Max(t) \in t
    OBVIOUS
  <2>1. \A x \in t : x \in Int
    BY <1>1
  <2>2. IsFiniteSet(t)
    <3> HIDE DEF D
    <3>q. QED
      BY <1>1, FS_Subset
  <2>q. QED
    BY <2>1, <2>2, MaxIsGreatest
<1>5. h = [t \in SUBSET D |-> After(h, t)]
  <2>1. F \in [Counters \X D -> Counters]
    BY <1>3, ReplayType
  <2>2. PICK g : g \in [SUBSET D -> Counters] /\ IsFold(g, D, zero, F)
    <3>1. \A k \in D : k \in Int
      BY <1>1
    <3>2. zero \in Counters /\ IsFiniteSet(D)
      BY <1>1
    <3> HIDE DEF F, D
    <3>q. QED
      BY <2>1, <3>1, <3>2, FoldExists
  <2>3. ASSUME NEW t \in SUBSET D
        PROVE  g[t] = After(g, t)
    <3>1. CASE t = {}
      BY <2>2, <3>1 DEF IsFold
    <3>2. CASE t # {}
      <4>1. Max(t) \in D /\ t \ {Max(t)} \in SUBSET D
        BY <1>4, <3>2
      <4>2. <<g[t \ {Max(t)}], Max(t)>> \in Counters \X D
        BY <2>2, <4>1
      <4>3. g[t] = F[<<g[t \ {Max(t)}], Max(t)>>]
        BY <2>2, <3>2 DEF IsFold
      <4>q. QED
        BY <3>2, <4>2, <4>3
    <3>q. QED
      BY <3>1, <3>2
  <2>4. g = [t \in SUBSET D |-> After(g, t)]
    <3> HIDE DEF After, D
    <3>q. QED
      BY <2>2, <2>3
  <2>5. \E f : f = [t \in SUBSET D |-> After(f, t)]
    BY <2>4
  <2> HIDE DEF After, D
  <2>q. QED
    BY <2>5
<1>6. \A t \in SUBSET D : h[t] = After(h, t)
  <2> HIDE DEF h, After
  <2>q. QED
    BY <1>5
<1> DEFINE Bad == {t \in SUBSET D : h[t] \notin Counters}
<1>7. Bad = {}
  <2> SUFFICES ASSUME Bad # {} PROVE FALSE
    OBVIOUS
  <2>1. PICK t \in Bad : \A u \in Bad : u \subseteq t => u = t
    <3>1. Bad \in SUBSET (SUBSET D)
      OBVIOUS
    <3> HIDE DEF Bad, D
    <3>q. QED
      BY <1>1, <3>1, MinimalSet
  <2> HIDE DEF h
  <2>2. t # {}
    BY <1>6, <2>1
  <2>3. Max(t) \in t /\ Max(t) \in D /\ t \ {Max(t)} \in SUBSET D
    BY <1>4, <2>1, <2>2
  <2>4. h[t \ {Max(t)}] \in Counters
    BY <2>1, <2>3
  <2>5. h[t] \in Counters
    BY <1>3, <1>6, <2>2, <2>3, <2>4, ReplayType
  <2>q. QED
    BY <2>1, <2>5
<1>q. QED
  BY <1>2, <1>7

LEMMA SnapshotPeakIsSound ==
    ASSUME NEW s \in Snapshots
    PROVE  /\ SnapshotPeak(s) \in Peak
           /\ 0 <= SnapshotPeak(s).allocated
           /\ SnapshotPeak(s).allocated <= SnapshotPeak(s).reserved
<1> DEFINE zero == [allocated |-> 0, reserved |-> 0, topAllocated |-> 0, topReserved |-> 0]
           end == FoldLeft(Replay, zero, s.events)
           none == end.topReserved = 0
           allocated == IF none THEN s.segments.allocated ELSE end.topAllocated
           reserved == IF none THEN s.segments.total ELSE end.topReserved
<1>1. zero \in Counters /\ s.events \in Seq([action : STRING, size : Nat])
  BY DEF Counters, Snapshots
<1>2. end \in Counters
  <2> HIDE DEF zero
  <2>q. QED
    BY <1>1, HistoryType
<1>3. SnapshotPeak(s) = [allocated |-> allocated, reserved |-> Max({allocated, reserved})]
  BY DEF SnapshotPeak
<1> HIDE DEF end
<1>4. allocated \in Nat /\ reserved \in Nat
  BY <1>2 DEF Counters, Snapshots
<1> HIDE DEF allocated, reserved
<1>5. Max({allocated, reserved}) >= allocated /\ Max({allocated, reserved}) \in {allocated, reserved}
  BY <1>4, MaxOfTwo
<1>q. QED
  BY <1>3, <1>4, <1>5 DEF Peak

LEMMA ShapeIsSound ==
    ASSUME NEW c \in Listed
    PROVE  /\ Len(EffectiveShape(c)) = c.mbs
           /\ ToSet(EffectiveShape(c)) \subseteq Nat \ {0}
<1>1. /\ c.mbs \in Nat \ {0} /\ Len(c.shape) = c.mbs /\ ToSet(c.shape) \subseteq Nat \ {0}
  BY DEF Listed, ValidCandidate
<1>2. c.shape \in Seq(Int)
  <2>1. PICK config \in Configs : c \in ToSet(TrainingCandidates(config.search))
    BY DEF Listed, Candidates
  <2>2. config.search \in Searches
    BY BridgeAssumption
  <2>q. QED
    BY <2>1, <2>2, CandidatesMade DEF ToSet
<1> DEFINE longest == Max(ToSet(c.shape))
<1>3. longest \in Nat \ {0}
  <2>1. IsFiniteSet(ToSet(c.shape)) /\ \A x \in ToSet(c.shape) : x \in Int
    BY <1>2, ToSetOfSeq
  <2>2. c.shape[1] \in ToSet(c.shape)
    BY <1>1, <1>2, LenProperties DEF ToSet
  <2>q. QED
    BY <1>1, <2>1, <2>2, MaxIsGreatest
<1>4. EffectiveShape(c) = [k \in 1..c.mbs |-> longest]
  BY DEF EffectiveShape
<1> HIDE DEF longest
<1>q. QED
  BY <1>1, <1>3, <1>4 DEF ToSet

\* The step times that are left after the warmup are some of what was logged.
LEMMA TimesAreLogged ==
    ASSUME NEW d \in Dir, NEW status, collect.config \in Configs
    PROVE  /\ StepTimes(d, status) \in Seq(Int)
           /\ d.sidecar = None \/ ToSet(d.sidecar.times) \subseteq Count =>
                 ToSet(StepTimes(d, status)) \subseteq Count
<1> DEFINE all == Metric(d, "times", <<>>, IF status = "success" THEN d.events ELSE <<>>)
           warmup == collect.config.warmup
           Logged == d.sidecar = None \/ ToSet(d.sidecar.times) \subseteq Count
<1>1. /\ warmup \in Nat /\ d.events \in Seq(Count)
      /\ d.sidecar # None => d.sidecar.times \in Seq(Int)
  BY BridgeAssumption DEF Dir, Sidecars
<1>2. all \in Seq(Int) /\ (Logged => all \in Seq(Count))
  <2>1. \A t \in Seq(Count) : t \in Seq(Int)
    BY ElementOfSeq, SeqDef DEF Count
  <2>2. \A t \in Seq(Int) : ToSet(t) \subseteq Count => t \in Seq(Count)
    <3> SUFFICES ASSUME NEW t \in Seq(Int), ToSet(t) \subseteq Count
                 PROVE  t \in Seq(Count)
      OBVIOUS
    <3>1. Len(t) \in Nat /\ DOMAIN t = 1..Len(t) /\ t = [i \in 1..Len(t) |-> t[i]]
      BY LenProperties
    <3>2. \A i \in 1..Len(t) : t[i] \in Count
      BY <3>1 DEF ToSet
    <3>q. QED
      BY <3>1, <3>2, SeqDef
  <2>3. <<>> \in Seq(Count)
    OBVIOUS
  <2>4. CASE d.sidecar = None \/ d.sidecar.times = <<>>
    <3>1. all = IF status = "success" THEN d.events ELSE <<>>
      BY <2>4 DEF Metric
    <3>q. QED
      BY <1>1, <2>1, <2>3, <3>1
  <2>5. CASE d.sidecar # None /\ d.sidecar.times # <<>>
    <3>1. all = d.sidecar.times
      BY <2>5 DEF Metric
    <3>q. QED
      BY <1>1, <2>2, <2>5, <3>1
  <2>q. QED
    BY <2>4, <2>5
<1>3. StepTimes(d, status) =
         IF Len(all) > warmup THEN SubSeq(all, warmup + 1, Len(all)) ELSE all
  BY DEF StepTimes
<1> HIDE DEF all, warmup
<1>4. ASSUME NEW S, all \in Seq(S)
      PROVE  StepTimes(d, status) \in Seq(S)
  <2>1. Len(all) \in Nat
    BY <1>4, LenProperties
  <2>2. Len(all) > warmup => SubSeq(all, warmup + 1, Len(all)) \in Seq(S)
    BY <1>1, <1>4, <2>1, SubSeqProperties
  <2>q. QED
    BY <1>3, <1>4, <2>2
<1>5. \A t \in Seq(Count) : ToSet(t) \subseteq Count
  BY ElementOfSeq, LenProperties DEF ToSet
<1>q. QED
  BY <1>2, <1>4, <1>5

\* collect_bridge_record builds no record that the constructors refuse, but
\* from a sidecar that does not agree with the candidate.
LEMMA RecordIsValid ==
    ASSUME NEW c \in Listed, NEW d \in Dir, NEW status, collect.config \in Configs,
           d.sidecar = None \/ Agrees(d.sidecar, c)
    PROVE  ValidPayload(c.par, c.par.world, c.mbs, c.gbs, c.nmb,
                        Microbatched(c, d), StepTimes(d, status), Peaks(d))
<1> DEFINE micro == Microbatched(c, d)
           padded == [m \in 1..c.nmb |-> EffectiveShape(c)]
<1>1. /\ ValidParallelism(c.par) /\ {c.mbs, c.gbs, c.nmb} \subseteq Nat \ {0}
      /\ c.gbs = c.mbs * c.par.dp * c.nmb
  BY DEF Listed, ValidCandidate
<1>2. /\ Len(micro) = c.nmb
      /\ \A i \in DOMAIN micro : /\ Len(micro[i]) = c.mbs
                                  /\ ToSet(micro[i]) \subseteq Nat \ {0}
  <2>1. CASE d.sidecar = None \/ d.sidecar.shapes = None
    <3>1. micro = padded
      BY <2>1 DEF Microbatched, Metric
    <3>2. Len(padded) = c.nmb /\ DOMAIN padded = 1..c.nmb
      BY <1>1
    <3>3. \A i \in 1..c.nmb : padded[i] = EffectiveShape(c)
      OBVIOUS
    <3> HIDE DEF micro, padded
    <3>q. QED
      BY <3>1, <3>2, <3>3, ShapeIsSound
  <2>2. CASE d.sidecar # None /\ d.sidecar.shapes # None
    <3>1. micro = d.sidecar.shapes
      BY <2>2 DEF Microbatched, Metric
    <3>2. micro \in Seq(Seq(Int))
      BY <2>2, <3>1 DEF Dir, Sidecars
    <3>3. /\ Len(micro) = c.nmb
          /\ \A m \in 1..c.nmb : /\ Len(micro[m]) = c.mbs
                                 /\ ToSet(micro[m]) \subseteq Count
      BY <2>2, <3>1 DEF Agrees
    <3> HIDE DEF micro
    <3>q. QED
      BY <3>2, <3>3, LenProperties DEF Count
  <2>q. QED
    BY <2>1, <2>2
<1>3. \A peak \in Peaks(d) : 0 <= peak.allocated /\ peak.allocated <= peak.reserved
  <2>1. CASE d.sidecar = None \/ d.sidecar.ranks = None
    <3>1. Peaks(d) = IF d.snapshot = None THEN {} ELSE {SnapshotPeak(d.snapshot)}
      BY <2>1 DEF Peaks, Metric
    <3>2. d.snapshot # None => d.snapshot \in Snapshots
      BY DEF Dir
    <3>q. QED
      BY <3>1, <3>2, SnapshotPeakIsSound
  <2>2. CASE d.sidecar # None /\ d.sidecar.ranks # None
    BY <2>2 DEF Peaks, Metric, Agrees
  <2>q. QED
    BY <2>1, <2>2
<1>4. ToSet(StepTimes(d, status)) \subseteq Nat \ {0}
  BY TimesAreLogged DEF Agrees, Count
<1> HIDE DEF micro
<1>5. ValidPayload(c.par, c.par.world, c.mbs, c.gbs, c.nmb, micro,
                   StepTimes(d, status), Peaks(d))
  BY <1>1, <1>2, <1>3, <1>4 DEF ValidPayload
<1>q. QED
  BY <1>5 DEF micro

-----------------------------------------------------------------------------
\* What is left of a selection, and steps that leave a command alone

\* Going on to the next candidate puts the current one behind.
LEMMA TailIsSuffix ==
    ASSUME NEW S, NEW r, NEW t, r.selected \in Seq(S), r.todo \in Seq(S),
           r.todo # <<>>, Suffix(r), t.selected = r.selected, t.todo = Tail(r.todo)
    PROVE  /\ Suffix(t)
           /\ Behind(t) = Behind(r) + 1
           /\ Behind(t) \in 1..Len(r.selected)
           /\ r.selected[Behind(t)] = Head(r.todo)
           /\ Head(r.todo) \in S
<1>1. /\ Head(r.todo) \in S
      /\ Len(t.todo) = Len(r.todo) - 1
      /\ \A i \in 1..Len(t.todo) : t.todo[i] = r.todo[i + 1]
  BY HeadTailProperties
<1>2. Len(r.todo) \in Nat \ {0} /\ Len(r.selected) \in Nat
  BY EmptySeq, LenProperties
<1>3. Behind(t) = Behind(r) + 1 /\ Behind(t) \in 1..Len(r.selected)
  <2>1. Behind(r) = Len(r.selected) - Len(r.todo) /\ Behind(r) \in Nat
    BY DEF Behind, Suffix
  <2>2. Behind(t) = Len(r.selected) - (Len(r.todo) - 1)
    BY <1>1 DEF Behind
  <2>3. \A l \in Nat, m \in Nat \ {0} :
           l - m \in Nat => l - (m - 1) = (l - m) + 1 /\ l - (m - 1) \in 1..l
    OBVIOUS
  <2>q. QED
    BY <1>2, <2>1, <2>2, <2>3
<1>4. Behind(r) \in Nat /\ \A i \in 1..Len(r.todo) : r.todo[i] = r.selected[Behind(r) + i]
  BY DEF Suffix
<1>5. ASSUME NEW i \in 1..Len(t.todo)
      PROVE  t.todo[i] = t.selected[Behind(t) + i]
  <2>1. i + 1 \in 1..Len(r.todo) /\ Behind(r) + (i + 1) = Behind(t) + i
    <3>1. i \in Nat /\ 1 <= i /\ i <= Len(r.todo) - 1
      BY <1>1, <1>2
    <3>2. Behind(t) = Behind(r) + 1 /\ Behind(r) \in Nat
      BY <1>3, <1>4
    <3>3. \A l, b, k \in Nat : 1 <= k /\ k <= l - 1 =>
             k + 1 \in 1..l /\ b + (k + 1) = (b + 1) + k
      OBVIOUS
    <3>4. Len(r.todo) \in Nat
      BY <1>2
    <3>q. QED
      BY <3>1, <3>2, <3>3, <3>4
  <2>2. r.todo[i + 1] = r.selected[Behind(r) + (i + 1)]
    BY <1>4, <2>1
  <2>3. t.todo[i] = r.todo[i + 1]
    BY <1>1
  <2>q. QED
    BY <2>1, <2>2, <2>3
<1>6. r.selected[Behind(t)] = Head(r.todo)
  <2>1. 1 \in 1..Len(r.todo)
    BY <1>2
  <2>2. r.todo[1] = r.selected[Behind(r) + 1]
    BY <1>4, <2>1
  <2>q. QED
    BY <1>3, <2>2
<1>q. QED
  BY <1>1, <1>3, <1>5, <1>6 DEF Suffix

\* All of a selection is still to do when a command starts.
LEMMA WholeIsSuffix ==
    ASSUME NEW S, NEW r, r.selected \in Seq(S), r.todo = r.selected
    PROVE  Suffix(r) /\ Behind(r) = 0
<1>1. Len(r.selected) \in Nat
  BY LenProperties
<1>q. QED
  BY <1>1 DEF Suffix, Behind

LEMMA DoneIsListed ==
    ASSUME TypeOK, RunInv, run # NoRun
    PROVE  Done \subseteq Listed /\ IsFiniteSet(Done) /\ IsFiniteSet(Failed)
<1>1. run.selected \in Seq(Listed) /\ run.todo \in Seq(Listed) /\ Behind(run) \in Nat
  BY DEF TypeOK, RunState, RunInv, Suffix
<1>2. Behind(run) <= Len(run.selected)
  <2>1. Len(run.selected) \in Nat /\ Len(run.todo) \in Nat
    BY <1>1, LenProperties
  <2>2. \A l, m \in Nat : l - m <= l
    OBVIOUS
  <2>q. QED
    BY <2>1, <2>2 DEF Behind
<1>3. \A i \in 1..Behind(run) : run.selected[i] \in Listed
  BY <1>1, <1>2, ElementOfSeq, LenProperties
<1>4. IsFiniteSet(Done)
  <2> DEFINE f == [i \in 1..Behind(run) |-> run.selected[i]]
  <2>1. f \in Surjection(1..Behind(run), Done)
    BY DEF Done, Surjection
  <2>2. IsFiniteSet(1..Behind(run))
    BY <1>1, FS_Interval
  <2> HIDE DEF f
  <2>q. QED
    BY <2>1, <2>2, FS_Surjection
<1>5. Failed \in SUBSET Done
  BY DEF Failed
<1>q. QED
  BY <1>3, <1>4, <1>5, FS_Subset DEF Done

\* The run command is not disturbed by what leaves its files alone.
LEMMA RunFrame ==
    ASSUME TypeOK, RunInv, run' = run, clean \subseteq clean',
           \A c \in Candidates : /\ dirs'[c].manifest = dirs[c].manifest
                                 /\ dirs'[c].status = dirs[c].status
    PROVE  RunInv'
<1> SUFFICES ASSUME run # NoRun PROVE RunInv'
  BY DEF RunInv
<1>1. Done \subseteq Candidates /\ Done' = Done /\ Suffix(run)'
  BY DoneIsListed DEF Listed, Done, Behind, RunInv, Suffix
<1>2. Failed' = Failed
  BY <1>1 DEF Failed
<1>3. run.pc # "next" => Current \in Candidates
  BY HeadTailProperties DEF TypeOK, RunState, RunInv, Current, Listed
<1>4. Current' = Current
  BY DEF Current
<1>q. QED
  BY <1>1, <1>2, <1>3, <1>4 DEF RunInv

\* Nor is a collect by anything but its own steps.
LEMMA CollectFrame ==
    ASSUME CollectInv, collect' = collect, clean \subseteq clean', ranOut \subseteq ranOut'
    PROVE  CollectInv'
<1>1. \A r : Earned(r) => Earned(r)'
  BY DEF Earned
<1>2. Reading' = Reading
  BY DEF Reading
<1>q. QED
  BY <1>1, <1>2 DEF CollectInv, Suffix, Behind

-----------------------------------------------------------------------------
\* generate, and the start of the other commands

LEMMA PcOfIdle ==
    ASSUME TypeOK
    PROVE  /\ run.pc = "idle" <=> run = NoRun
           /\ run # NoRun <=> run \in RunState
           /\ collect.pc = "idle" <=> collect = NoCollect
           /\ collect # NoCollect <=> collect \in CollectState
BY DEF TypeOK, RunState, CollectState, NoRun, NoCollect

LEMMA SelectionIsListed ==
    ASSUME TypeOK, NEW selected \in Selections
    PROVE  selected \in Seq(Listed)
<1>1. candidates \notin {None, Torn} /\ candidates \in Seq(Listed)
  BY DEF TypeOK, Selections
<1>2. CASE selected = candidates
  BY <1>1, <1>2
<1>3. ASSUME NEW i \in DOMAIN candidates, selected = <<candidates[i]>>
      PROVE  selected \in Seq(Listed)
  <2>1. candidates[i] \in Listed
    BY <1>1, ElementOfSeq, LenProperties
  <2>q. QED
    BY <1>3, <2>1
<1>4. ASSUME NEW id \in ToSet(candidates), selected = WithId(id)
      PROVE  selected \in Seq(Listed)
  <2> DEFINE places == {i \in DOMAIN candidates : candidates[i] = id}
  <2>1. DOMAIN candidates = 1..Len(candidates) /\ Len(candidates) \in Nat
    BY <1>1, LenProperties
  <2>2. IsFiniteSet(DOMAIN candidates) /\ places \in SUBSET DOMAIN candidates
    BY <2>1, FS_Interval
  <2>3. Cardinality(places) \in Nat
    BY <2>2, FS_Subset, FS_CardinalityType
  <2>4. id \in Listed
    BY <1>1, ElementOfSeq, LenProperties DEF ToSet
  <2>5. selected = [k \in 1..Cardinality(places) |-> id]
    BY <1>4 DEF WithId
  <2> HIDE DEF places
  <2>q. QED
    BY <2>3, <2>4, <2>5, SeqDef
<1>q. QED
  BY <1>1, <1>2, <1>3, <1>4 DEF Selections

LEMMA GenerateInv == ASSUME IInv, Generate \/ GenerateKilled PROVE IInv'
<1>1. candidates' \in Seq(Listed) \cup {None, Torn} /\ rejected' = rejected
  <2>1. CASE GenerateKilled
    BY <2>1 DEF GenerateKilled
  <2>2. CASE Generate
    <3> DEFINE Made(config) == TrainingCandidates(config.search)
               Refused(config) == {c \in ToSet(Made(config)) : ~ValidCandidate(c)}
    <3>1. PICK config \in Configs :
             /\ SearchAllowed(config.search)
             /\ candidates' = IF Refused(config) = {} THEN Made(config) ELSE candidates
             /\ rejected' = rejected \cup {Refusal(c, None) : c \in Refused(config)}
      BY <2>2 DEF Generate
    <3>2. Made(config) \in Seq(Listed)
      BY <3>1, ListIsSound
    <3>3. Refused(config) = {}
      <4>1. \A t \in Seq(Listed) : \A c \in ToSet(t) : ValidCandidate(c)
        BY ElementOfSeq, LenProperties DEF Listed, ToSet
      <4>q. QED
        BY <3>2, <4>1
    <3>q. QED
      BY <3>1, <3>2, <3>3
  <2>q. QED
    BY <2>1, <2>2
<1>2. UNCHANGED <<dirs, run, collect, historyVars>>
  BY DEF Generate, GenerateKilled
<1>3. TypeOK' /\ RefusalsEarned'
  BY <1>1, <1>2 DEF IInv, TypeOK, RefusalsEarned
<1>4. RunInv' /\ CollectInv' /\ DirInv'
  BY <1>2, RunFrame, CollectFrame DEF IInv, DirInv, historyVars
<1>q. QED
  BY <1>3, <1>4 DEF IInv

LEMMA RunStartsInv == ASSUME IInv, RunStarts PROVE IInv'
<1>1. PICK selected \in Selections, backend \in {"local", "slurm"}, resume \in BOOLEAN :
          run' = [pc |-> "next", selected |-> selected, todo |-> selected,
                  backend |-> backend, resume |-> resume, failures |-> 0,
                  exit |-> None]
  BY DEF RunStarts
<1>2. /\ selected \in Seq(Listed)
      /\ UNCHANGED <<candidates, dirs, collect, rejected, historyVars>>
  BY SelectionIsListed DEF IInv, RunStarts
<1>3. TypeOK' /\ DirInv' /\ RefusalsEarned' /\ CollectInv'
  <2>1. run' \in RunState
    BY <1>1, <1>2 DEF RunState
  <2>2. CollectInv'
    BY <1>2, CollectFrame DEF IInv, historyVars
  <2>q. QED
    BY <1>2, <2>1, <2>2 DEF IInv, TypeOK, DirInv, RefusalsEarned, historyVars
<1>4. Suffix(run') /\ Behind(run') = 0
  BY <1>1, <1>2, WholeIsSuffix
<1>5. Done' = {} /\ Failed' = {} /\ Cardinality({}) = 0
  BY <1>4, FS_EmptySet DEF Done, Failed
<1>6. RunInv'
  BY <1>1, <1>4, <1>5 DEF RunInv
<1>q. QED
  BY <1>3, <1>6 DEF IInv

LEMMA DryRunsInv == ASSUME IInv, DryRuns PROVE IInv'
<1>1. /\ run = NoRun /\ run' = run
      /\ UNCHANGED <<candidates, collect, rejected, historyVars>>
  BY PcOfIdle DEF IInv, DryRuns
<1>2. PICK selected \in Selections :
          dirs' = [c \in Candidates |->
                     IF c \in ToSet(selected)
                     THEN [dirs[c] EXCEPT !.manifest = "written"] ELSE dirs[c]]
  BY DEF DryRuns
<1>3. ASSUME NEW c \in Candidates
      PROVE  /\ dirs'[c] \in Dir
             /\ dirs'[c].status = dirs[c].status /\ dirs'[c].oomLog = dirs[c].oomLog
  BY <1>2 DEF IInv, TypeOK, Dir
<1>4. TypeOK' /\ DirInv' /\ RefusalsEarned'
  BY <1>1, <1>2, <1>3 DEF IInv, TypeOK, DirInv, RefusalsEarned, historyVars
<1>5. CollectInv' /\ RunInv'
  BY <1>1, CollectFrame DEF IInv, RunInv, historyVars
<1>q. QED
  BY <1>4, <1>5 DEF IInv

-----------------------------------------------------------------------------
\* run

LEMMA AtHand ==
    ASSUME TypeOK, run # NoRun, run.todo # <<>>
    PROVE  /\ run \in RunState
           /\ Current \in Listed /\ Current \in Candidates
           /\ dirs[Current] \in Dir
<1>1. run \in RunState
  BY PcOfIdle
<1>2. Current \in Listed
  BY <1>1, HeadTailProperties DEF Current, RunState
<1>q. QED
  BY <1>1, <1>2 DEF Listed, TypeOK

(* Putting a candidate behind with its manifest, the status of an attempt  *)
(* and its failure counted.                                                *)
LEMMA MoveOn ==
    ASSUME IInv, run # NoRun, run.todo # <<>>,
           run' \in RunState, run'.pc = "next",
           run'.selected = run.selected, run'.todo = Tail(run.todo),
           \A c \in Candidates : c # Current =>
                /\ dirs'[c].manifest = dirs[c].manifest
                /\ dirs'[c].status = dirs[c].status,
           dirs'[Current].manifest = "written", dirs'[Current].status \in Outcomes,
           run'.failures >= run.failures,
           dirs'[Current].status = "failed" => run'.failures >= run.failures + 1
    PROVE  RunInv'
<1>1. /\ run \in RunState
      /\ Current \in Listed /\ Current \in Candidates
      /\ Suffix(run)
      /\ Done \subseteq Listed /\ IsFiniteSet(Done) /\ IsFiniteSet(Failed)
  BY AtHand, DoneIsListed DEF IInv, RunInv
<1>2. /\ Suffix(run') /\ Behind(run') = Behind(run) + 1
      /\ Behind(run') \in 1..Len(run.selected)
      /\ run.selected[Behind(run')] = Current
  <2>1. run.selected \in Seq(Listed) /\ run.todo \in Seq(Listed)
    BY <1>1 DEF RunState
  <2>q. QED
    BY <1>1, <2>1, TailIsSuffix DEF Current
<1>3. Done' = Done \cup {Current}
  <2>1. Behind(run) \in Nat
    BY <1>1 DEF Suffix
  <2>2. 1..Behind(run') = (1..Behind(run)) \cup {Behind(run')}
    BY <1>2, <2>1
  <2>3. Done' = {run.selected[i] : i \in 1..Behind(run')}
    BY DEF Done, Behind
  <2>q. QED
    BY <1>2, <2>2, <2>3 DEF Done
<1>4. \A c \in Done' : dirs'[c].manifest = "written" /\ dirs'[c].status \in Outcomes
  BY <1>1, <1>3 DEF IInv, RunInv, Listed
<1>5. Cardinality(Failed') <= run'.failures
  <2>0. /\ run.failures \in Nat /\ run'.failures \in Nat
        /\ Cardinality(Failed) \in Nat /\ Cardinality(Failed) <= run.failures
    BY <1>1, FS_CardinalityType DEF RunState, IInv, RunInv
  <2>1. /\ IsFiniteSet(Failed \cup {Current})
        /\ Cardinality(Failed \cup {Current}) <= Cardinality(Failed) + 1
        /\ Cardinality(Failed \cup {Current}) \in Nat
    <3>1. /\ IsFiniteSet(Failed \cup {Current})
          /\ Cardinality(Failed \cup {Current}) =
                IF Current \in Failed THEN Cardinality(Failed) ELSE Cardinality(Failed) + 1
      BY <1>1, FS_AddElement
    <3>q. QED
      BY <2>0, <3>1
  <2>2. CASE dirs'[Current].status = "failed"
    <3>1. Failed' \in SUBSET (Failed \cup {Current})
      BY <1>1, <1>3 DEF Failed, Listed
    <3>2. Cardinality(Failed') <= Cardinality(Failed \cup {Current})
          /\ Cardinality(Failed') \in Nat
      BY <2>1, <3>1, FS_Subset, FS_CardinalityType
    <3>q. QED
      BY <2>0, <2>1, <2>2, <3>2
  <2>3. CASE dirs'[Current].status # "failed"
    <3>1. Failed' \in SUBSET Failed
      BY <1>1, <1>3, <2>3 DEF Failed, Listed
    <3>2. Cardinality(Failed') <= Cardinality(Failed) /\ Cardinality(Failed') \in Nat
      BY <1>1, <3>1, FS_Subset, FS_CardinalityType
    <3>q. QED
      BY <2>0, <3>2
  <2>q. QED
    BY <2>2, <2>3
<1>q. QED
  BY <1>2, <1>4, <1>5 DEF RunInv, Suffix, Behind

LEMMA PrepareInv == ASSUME IInv, Prepare PROVE IInv'
<1> DEFINE skipped == run.resume /\ dirs[Current].status = "success"
           fails == run.resume /\ dirs[Current].status = Torn
           launched == ~skipped /\ ~fails
<1>1. /\ run # NoRun /\ run.todo # <<>> /\ run.pc = "next"
      /\ UNCHANGED <<candidates, collect, rejected, historyVars>>
      /\ dirs' = [dirs EXCEPT ![Current].manifest = "written",
                             ![Current].oomLog =
                      IF launched /\ run.backend = "local" THEN FALSE ELSE @]
      /\ run' = IF fails THEN NoRun
                ELSE IF launched THEN [run EXCEPT !.pc = "running"] ELSE Onward(run)
  BY PcOfIdle DEF IInv, Prepare, Going, NoRun
<1>2. /\ run \in RunState /\ Current \in Candidates /\ dirs[Current] \in Dir
      /\ dirs \in [Candidates -> Dir]
  BY <1>1, AtHand DEF IInv, TypeOK
<1> HIDE DEF skipped, fails, launched
<1>3. /\ dirs' \in [Candidates -> Dir]
      /\ dirs'[Current].manifest = "written"
      /\ dirs'[Current].status = dirs[Current].status
      /\ dirs'[Current].oomLog => dirs[Current].oomLog
      /\ \A c \in Candidates : c # Current => dirs'[c] = dirs[c]
  BY <1>1, <1>2 DEF Dir
<1>4. DirInv' /\ CollectInv' /\ RefusalsEarned'
  <2>1. CollectInv'
    BY <1>1, CollectFrame DEF IInv, historyVars
  <2>q. QED
    BY <1>1, <1>2, <1>3, <2>1 DEF IInv, DirInv, RefusalsEarned, historyVars
<1>5. CASE fails
  <2>1. run' = NoRun
    BY <1>1, <1>5
  <2>q. QED
    BY <1>1, <1>3, <1>4, <2>1 DEF IInv, TypeOK, RunInv
<1>6. CASE ~fails /\ launched
  <2>1. /\ run' \in RunState
        /\ run'.pc = "running" /\ run'.selected = run.selected
        /\ run'.todo = run.todo /\ run'.failures = run.failures
    BY <1>1, <1>2, <1>6 DEF RunState
  <2>2. Done' = Done /\ Suffix(run') /\ Current' = Current
    <3>1. Behind(run') = Behind(run) /\ Behind(run)' = Behind(run)
      BY <2>1 DEF Behind
    <3>2. Suffix(run)
      BY <1>1 DEF IInv, RunInv
    <3>q. QED
      BY <2>1, <3>1, <3>2 DEF Done, Suffix, Current
  <2>3. Done \subseteq Candidates
    BY <1>1, DoneIsListed DEF IInv, Listed
  <2>4. \A c \in Done : dirs'[c].manifest = "written" /\ dirs'[c].status = dirs[c].status
    BY <1>1, <1>3, <2>3 DEF IInv, RunInv
  <2>5. Failed' = Failed
    BY <2>2, <2>4 DEF Failed
  <2>6. RunInv'
    BY <1>1, <1>3, <2>1, <2>2, <2>4, <2>5 DEF IInv, RunInv, Suffix, Behind
  <2>q. QED
    BY <1>1, <1>3, <1>4, <2>1, <2>6 DEF IInv, TypeOK
<1>7. CASE ~fails /\ ~launched
  <2>1. dirs[Current].status = "success"
    BY <1>7 DEF skipped, launched, fails
  <2>2. run' = Onward(run)
    BY <1>1, <1>7
  <2>3. Tail(run.todo) \in Seq(Listed)
    BY <1>1, <1>2, HeadTailProperties DEF RunState
  <2>4. /\ run' \in RunState
        /\ run'.pc = "next" /\ run'.selected = run.selected
        /\ run'.todo = Tail(run.todo) /\ run'.failures = run.failures
    BY <1>2, <2>2, <2>3 DEF Onward, RunState
  <2>5. run.failures \in Nat
    BY <1>2 DEF RunState
  <2>6. RunInv'
    BY <1>1, <1>3, <2>1, <2>4, <2>5, MoveOn DEF Outcomes
  <2>q. QED
    BY <1>1, <1>3, <1>4, <2>4, <2>6 DEF IInv, TypeOK
<1>q. QED
  BY <1>5, <1>6, <1>7

LEMMA LeavesType ==
    ASSUME NEW d \in Dir, NEW left \in Leavings
    PROVE  /\ Leaves(d, left) \in Dir
           /\ Leaves(d, left).manifest = d.manifest
           /\ Leaves(d, left).status = d.status
           /\ Leaves(d, left).oomLog = d.oomLog
           /\ Leaves(d, left).jobs = d.jobs
<1>1. /\ left.timers \in Seq(Count) /\ left.sidecar \in {None} \cup Sidecars
      /\ left.snapshot \in {None} \cup Snapshots
  BY BridgeAssumption
<1>2. /\ d.events \in Seq(Count) /\ d.events \o left.timers \in Seq(Count)
      /\ d.sidecar \in {None} \cup Sidecars /\ d.snapshot \in {None} \cup Snapshots
  BY <1>1 DEF Dir
<1> DEFINE events == d.events \o left.timers
           sidecar == IF left.sidecar = None THEN d.sidecar ELSE left.sidecar
           snapshot == IF left.snapshot = None THEN d.snapshot ELSE left.snapshot
<1>3. /\ events \in Seq(Count) /\ sidecar \in {None} \cup Sidecars
      /\ snapshot \in {None} \cup Snapshots
  BY <1>1, <1>2
<1>4. Leaves(d, left) = [d EXCEPT !.events = events, !.sidecar = sidecar,
                                  !.snapshot = snapshot]
  BY DEF Leaves
<1> HIDE DEF events, sidecar, snapshot
<1>q. QED
  BY <1>3, <1>4 DEF Dir

(* An attempt that ends: no status has been written yet, and none of the   *)
(* others is touched.                                                      *)
LEMMA ExitedInv ==
    ASSUME IInv, run.pc = "running", NEW exit \in Outcomes, Attempt(exit),
           clean \subseteq clean', exit = "success" => Current \in clean',
           \A c \in Candidates : /\ dirs'[c].manifest = dirs[c].manifest
                                 /\ dirs'[c].status = dirs[c].status
    PROVE  RunInv' /\ run' \in RunState
<1>1. run # NoRun /\ run \in RunState /\ run.todo # <<>> /\ exit # None
  BY PcOfIdle, BridgeAssumption DEF IInv, NoRun, RunInv, Outcomes
<1>2. /\ run' \in RunState /\ run'.pc = "exited" /\ run'.exit = exit
      /\ run'.selected = run.selected /\ run'.todo = run.todo
      /\ run'.failures = run.failures
  BY <1>1 DEF Attempt, RunState
<1>3. Suffix(run') /\ Done' = Done /\ Current' = Current
  <2>1. Behind(run') = Behind(run) /\ Behind(run)' = Behind(run)
    BY <1>2 DEF Behind
  <2>2. Suffix(run)
    BY <1>1 DEF IInv, RunInv
  <2>q. QED
    BY <1>2, <2>1, <2>2 DEF Done, Suffix, Current
<1>4. Done \subseteq Candidates /\ Current \in Candidates
  BY <1>1, DoneIsListed, AtHand DEF IInv, Listed
<1>5. Failed' = Failed
  BY <1>3, <1>4 DEF Failed
<1>6. dirs[Current].manifest = "written"
  BY <1>1 DEF IInv, RunInv
<1>7. /\ \A c \in Done : dirs[c].manifest = "written" /\ dirs[c].status \in Outcomes
      /\ Cardinality(Failed) <= run.failures
  BY <1>1 DEF IInv, RunInv
<1>q. QED
  BY <1>1, <1>2, <1>3, <1>4, <1>5, <1>6, <1>7 DEF RunInv

LEMMA ProcessSucceedsInv == ASSUME IInv, ProcessSucceeds PROVE IInv'
<1>1. PICK left \in Leavings : dirs' = [dirs EXCEPT ![Current] = Leaves(@, left)]
  BY DEF ProcessSucceeds
<1>2. /\ run.pc = "running" /\ Attempt("success")
      /\ clean' = clean \cup {Current}
      /\ UNCHANGED <<candidates, collect, rejected, ranOut>>
  BY DEF ProcessSucceeds
<1>3. Current \in Candidates /\ dirs[Current] \in Dir /\ dirs \in [Candidates -> Dir]
  BY <1>2, AtHand DEF IInv, RunInv, TypeOK, NoRun
<1>4. /\ dirs' \in [Candidates -> Dir]
      /\ \A c \in Candidates : /\ dirs'[c].manifest = dirs[c].manifest
                               /\ dirs'[c].status = dirs[c].status
                               /\ dirs'[c].oomLog = dirs[c].oomLog
  BY <1>1, <1>3, LeavesType
<1>5. RunInv' /\ run' \in RunState
  BY <1>2, <1>4, ExitedInv DEF Outcomes
<1>6. CollectInv'
  BY <1>2, CollectFrame DEF IInv
<1>q. QED
  BY <1>2, <1>4, <1>5, <1>6 DEF IInv, TypeOK, DirInv, RefusalsEarned

LEMMA ProcessFailsInv == ASSUME IInv, ProcessFails PROVE IInv'
<1>1. PICK oom \in BOOLEAN, left \in {l \in Leavings : l.sidecar = None} :
          /\ dirs' = [dirs EXCEPT ![Current] = [Leaves(@, left) EXCEPT !.oomLog = oom]]
          /\ ranOut' = IF oom THEN ranOut \cup {Current} ELSE ranOut
  BY DEF ProcessFails
<1>2. /\ run.pc = "running" /\ Attempt("failed")
      /\ UNCHANGED <<candidates, collect, rejected, clean>>
  BY DEF ProcessFails
<1>3. Current \in Candidates /\ dirs[Current] \in Dir /\ dirs \in [Candidates -> Dir]
  BY <1>2, AtHand DEF IInv, RunInv, TypeOK, NoRun
<1> DEFINE left_ == Leaves(dirs[Current], left)
<1>4. /\ left_ \in Dir
      /\ left_.manifest = dirs[Current].manifest /\ left_.status = dirs[Current].status
  BY <1>3, LeavesType
<1>5. dirs' = [dirs EXCEPT ![Current] = [left_ EXCEPT !.oomLog = oom]]
  BY <1>1, <1>3
<1> HIDE DEF left_
<1>6. /\ dirs' \in [Candidates -> Dir]
      /\ \A c \in Candidates : /\ dirs'[c].manifest = dirs[c].manifest
                               /\ dirs'[c].status = dirs[c].status
                               /\ dirs'[c].oomLog = IF c = Current THEN oom
                                                     ELSE dirs[c].oomLog
  BY <1>3, <1>4, <1>5 DEF Dir
<1>7. RunInv' /\ run' \in RunState
  BY <1>2, <1>6, ExitedInv DEF Outcomes
<1>8. ranOut \subseteq ranOut' /\ (oom => Current \in ranOut')
  BY <1>1
<1>9. CollectInv'
  BY <1>2, <1>8, CollectFrame DEF IInv
<1>10. DirInv'
  BY <1>2, <1>6, <1>8 DEF IInv, DirInv
<1>q. QED
  BY <1>2, <1>6, <1>7, <1>9, <1>10 DEF IInv, TypeOK, RefusalsEarned

LEMMA SlurmSubmitsInv == ASSUME IInv, SlurmSubmits PROVE IInv'
<1>1. /\ run.pc = "running"
      /\ UNCHANGED <<candidates, collect, rejected, historyVars>>
      /\ \/ dirs' = [dirs EXCEPT ![Current].jobs = @ + 1] /\ Attempt("submitted")
         \/ dirs' = dirs /\ Attempt("failed")
  BY DEF SlurmSubmits
<1>2. Current \in Candidates /\ dirs[Current] \in Dir /\ dirs \in [Candidates -> Dir]
  BY <1>1, AtHand DEF IInv, RunInv, TypeOK, NoRun
<1> DEFINE Queued(d) == [d EXCEPT !.jobs = @ + 1]
<1>a. ASSUME NEW d \in Dir
      PROVE  /\ Queued(d) \in Dir /\ Queued(d).manifest = d.manifest
             /\ Queued(d).status = d.status /\ Queued(d).oomLog = d.oomLog
  <2>1. d.jobs + 1 \in Nat
    BY DEF Dir
  <2>q. QED
    BY <2>1 DEF Dir
<1>b. dirs' = dirs \/ dirs' = [dirs EXCEPT ![Current] = Queued(dirs[Current])]
  BY <1>1
<1> HIDE DEF Queued
<1>3. /\ dirs' \in [Candidates -> Dir]
      /\ \A c \in Candidates : /\ dirs'[c].manifest = dirs[c].manifest
                               /\ dirs'[c].status = dirs[c].status
                               /\ dirs'[c].oomLog = dirs[c].oomLog
  BY <1>2, <1>a, <1>b
<1>4. PICK exit \in {"submitted", "failed"} : Attempt(exit)
  BY <1>1
<1>5. RunInv' /\ run' \in RunState
  BY <1>1, <1>3, <1>4, ExitedInv DEF Outcomes, historyVars
<1>6. CollectInv'
  BY <1>1, CollectFrame DEF IInv, historyVars
<1>q. QED
  BY <1>1, <1>3, <1>5, <1>6 DEF IInv, TypeOK, DirInv, RefusalsEarned, historyVars

LEMMA SlurmJobRunsInv == ASSUME IInv, SlurmJobRuns PROVE IInv'
<1>1. PICK c \in Candidates, left \in Leavings :
          /\ dirs[c].jobs > 0
          /\ dirs' = [dirs EXCEPT ![c] =
                         [Leaves(dirs[c], left) EXCEPT !.jobs = @ - 1]]
  BY DEF SlurmJobRuns
<1>2. UNCHANGED <<candidates, run, collect, rejected, historyVars>>
  BY DEF SlurmJobRuns
<1> DEFINE left_ == Leaves(dirs[c], left)
<1>3. /\ left_ \in Dir /\ left_.manifest = dirs[c].manifest
      /\ left_.status = dirs[c].status /\ left_.oomLog = dirs[c].oomLog
      /\ left_.jobs = dirs[c].jobs /\ dirs \in [Candidates -> Dir] /\ dirs[c] \in Dir
  BY LeavesType DEF IInv, TypeOK
<1>4. dirs' = [dirs EXCEPT ![c] = [left_ EXCEPT !.jobs = left_.jobs - 1]]
  BY <1>1
<1> HIDE DEF left_
<1>5. left_.jobs - 1 \in Nat
  BY <1>1, <1>3 DEF Dir
<1>6. /\ dirs' \in [Candidates -> Dir]
      /\ \A k \in Candidates : /\ dirs'[k].manifest = dirs[k].manifest
                               /\ dirs'[k].status = dirs[k].status
                               /\ dirs'[k].oomLog = dirs[k].oomLog
  BY <1>3, <1>4, <1>5 DEF Dir
<1>7. RunInv' /\ CollectInv'
  BY <1>2, <1>6, RunFrame, CollectFrame DEF IInv, historyVars
<1>q. QED
  BY <1>2, <1>6, <1>7 DEF IInv, TypeOK, DirInv, RefusalsEarned, historyVars

LEMMA RecordOutcomeInv == ASSUME IInv, RecordOutcome PROVE IInv'
<1>1. /\ run.pc = "exited"
      /\ dirs' = [dirs EXCEPT ![Current].status = run.exit]
      /\ UNCHANGED <<candidates, collect, rejected, historyVars>>
  BY DEF RecordOutcome
<1>2. /\ run # NoRun /\ run.todo # <<>>
      /\ dirs[Current].manifest = "written"
      /\ run.exit # None /\ (run.exit = "success" => Current \in clean)
  BY <1>1 DEF IInv, RunInv, NoRun
<1>3. /\ run \in RunState /\ Current \in Candidates /\ dirs[Current] \in Dir
      /\ dirs \in [Candidates -> Dir]
  BY <1>2, AtHand DEF IInv, TypeOK
<1>4. run.exit \in Outcomes
  BY <1>2, <1>3 DEF RunState
<1>5. /\ dirs' \in [Candidates -> Dir]
      /\ dirs'[Current].manifest = "written" /\ dirs'[Current].status = run.exit
      /\ \A c \in Candidates : /\ c # Current => dirs'[c] = dirs[c]
                               /\ dirs'[c].oomLog = dirs[c].oomLog
  BY <1>1, <1>2, <1>3, <1>4 DEF Dir
<1>6. /\ Tail(run.todo) \in Seq(Listed)
      /\ run.failures \in Nat /\ run.failures + 1 \in Nat
  BY <1>2, <1>3, HeadTailProperties DEF RunState
<1>7. /\ run' \in RunState /\ run'.pc = "next"
      /\ run'.selected = run.selected /\ run'.todo = Tail(run.todo)
      /\ run'.failures = IF run.exit = "failed" THEN run.failures + 1 ELSE run.failures
  BY <1>3, <1>6 DEF RecordOutcome, Onward, RunState
<1>8. RunInv'
  <2>1. /\ run'.failures >= run.failures
        /\ run.exit = "failed" => run'.failures >= run.failures + 1
    BY <1>6, <1>7
  <2>q. QED
    BY <1>2, <1>4, <1>5, <1>7, <2>1, MoveOn
<1>9. DirInv' /\ CollectInv'
  BY <1>1, <1>2, <1>5, CollectFrame DEF IInv, DirInv, historyVars
<1>q. QED
  BY <1>1, <1>5, <1>7, <1>8, <1>9 DEF IInv, TypeOK, RefusalsEarned

LEMMA RunStopsInv == ASSUME IInv, RunEnds \/ RunKilled PROVE IInv'
<1>1. run' = NoRun /\ UNCHANGED <<candidates, collect, rejected, historyVars>>
  BY DEF RunEnds, RunKilled
<1>2. RunInv' /\ CollectInv'
  BY <1>1, CollectFrame DEF IInv, RunInv, historyVars
<1>3. /\ dirs' \in [Candidates -> Dir]
      /\ \A c \in Candidates : /\ dirs'[c].status \in {dirs[c].status, Torn}
                               /\ dirs'[c].oomLog = dirs[c].oomLog
  <2>1. CASE dirs' = dirs
    BY <2>1 DEF IInv, TypeOK
  <2>2. CASE Going /\ dirs' = [dirs EXCEPT ![Current].manifest = Torn]
    <3>1. Current \in Candidates /\ dirs[Current] \in Dir /\ dirs \in [Candidates -> Dir]
      BY <2>2, AtHand DEF Going, NoRun, IInv, TypeOK
    <3>q. QED
      BY <2>2, <3>1 DEF Dir
  <2>3. CASE run.pc = "exited" /\ dirs' = [dirs EXCEPT ![Current].status = Torn]
    <3>1. Current \in Candidates /\ dirs[Current] \in Dir /\ dirs \in [Candidates -> Dir]
      BY <2>3, AtHand DEF IInv, RunInv, NoRun, TypeOK
    <3>q. QED
      BY <2>3, <3>1 DEF Dir
  <2>q. QED
    BY <2>1, <2>2, <2>3 DEF RunEnds, RunKilled
<1>4. DirInv'
  BY <1>1, <1>3, BridgeAssumption DEF IInv, DirInv, historyVars
<1>q. QED
  BY <1>1, <1>2, <1>3, <1>4 DEF IInv, TypeOK, RefusalsEarned

-----------------------------------------------------------------------------
\* collect

\* The steps of a collect change nothing that the other parts speak of.
LEMMA RunUntouched ==
    ASSUME IInv, UNCHANGED <<candidates, dirs, run, historyVars>>
    PROVE  /\ RunInv' /\ DirInv'
           /\ candidates' \in Seq(Listed) \cup {None, Torn}
           /\ dirs' \in [Candidates -> Dir]
           /\ run' \in RunState \cup {NoRun}
BY RunFrame DEF IInv, TypeOK, DirInv, historyVars

LEMMA CollectStartsInv == ASSUME IInv, CollectStarts PROVE IInv'
<1>1. PICK selected \in Selections, config \in Configs :
          collect' = [pc |-> "status", config |-> config, selected |-> selected,
                      todo |-> selected, records |-> <<>>, status |-> None]
  BY DEF CollectStarts
<1>2. UNCHANGED <<candidates, dirs, run, rejected, historyVars>>
  BY DEF CollectStarts
<1>3. selected \in Seq(Listed) /\ <<>> \in Seq(Gathered) /\ Len(<<>>) = 0
  BY SelectionIsListed, EmptySeq DEF IInv
<1>4. collect' \in CollectState
  BY <1>1, <1>3 DEF CollectState
<1>5. Suffix(collect') /\ Behind(collect') = 0
  BY <1>1, <1>3, WholeIsSuffix
<1>6. CollectInv'
  BY <1>1, <1>3, <1>5 DEF CollectInv, Suffix, Behind
<1>q. QED
  BY <1>2, <1>4, <1>6, RunUntouched DEF IInv, TypeOK, RefusalsEarned

LEMMA CollectStopsInv == ASSUME IInv, CollectEnds \/ CollectKilled PROVE IInv'
<1>1. collect' = NoCollect /\ UNCHANGED <<candidates, dirs, run, rejected, historyVars>>
  BY DEF CollectEnds, CollectKilled
<1>2. CollectInv'
  BY <1>1 DEF CollectInv
<1>q. QED
  BY <1>1, <1>2, RunUntouched DEF IInv, TypeOK, RefusalsEarned

LEMMA ReplaceInv == ASSUME IInv, Replace PROVE IInv'
<1>1. /\ collect # NoCollect /\ collect \in CollectState /\ collect.todo = <<>>
      /\ collect' = [collect EXCEPT !.pc = "written"]
      /\ UNCHANGED <<candidates, dirs, run, rejected, historyVars>>
  BY PcOfIdle DEF IInv, Replace, NoCollect
<1>2. /\ collect' \in CollectState /\ collect'.pc = "written"
      /\ collect'.config = collect.config /\ collect'.selected = collect.selected
      /\ collect'.todo = collect.todo /\ collect'.records = collect.records
  BY <1>1 DEF CollectState
<1>3. CollectInv'
  <2>1. /\ \A i \in 1..Len(collect.records) : Earned(collect.records[i])
        /\ ~collect.config.allowIncomplete =>
              /\ Suffix(collect)
              /\ Len(collect.records) = Behind(collect)
              /\ \A i \in 1..Len(collect.records) :
                    /\ collect.records[i].candidate = collect.selected[i]
                    /\ WellMeasured(collect.records[i])
    BY <1>1 DEF IInv, CollectInv
  <2>2. Behind(collect') = Behind(collect) /\ (Suffix(collect) => Suffix(collect'))
    BY <1>2 DEF Suffix, Behind
  <2>3. (\A i \in 1..Len(collect.records) : Earned(collect.records[i]))'
    BY <1>1, <1>2, <2>1 DEF Earned, historyVars
  <2>5. ~collect'.config.allowIncomplete =>
              /\ Suffix(collect')
              /\ Len(collect'.records) = Behind(collect')
              /\ \A i \in 1..Len(collect'.records) :
                    /\ collect'.records[i].candidate = collect'.selected[i]
                    /\ WellMeasured(collect'.records[i])
    BY <1>2, <2>1, <2>2
  <2>q. QED
    BY <1>1, <1>2, <2>3, <2>5 DEF CollectInv
<1>q. QED
  BY <1>1, <1>2, <1>3, RunUntouched DEF IInv, TypeOK, RefusalsEarned

LEMMA ReadManifestInv == ASSUME IInv, ReadManifest PROVE IInv'
<1>1. /\ collect # NoCollect /\ collect \in CollectState
      /\ collect.pc = "status" /\ collect.todo # <<>>
      /\ UNCHANGED <<candidates, dirs, run, rejected, historyVars>>
  BY PcOfIdle DEF IInv, ReadManifest, NoCollect
<1>2. Reading \in Listed /\ dirs[Reading] \in Dir /\ Reading \in Candidates
      /\ Tail(collect.todo) \in Seq(Listed)
  BY <1>1, HeadTailProperties DEF CollectState, Reading, Listed, IInv, TypeOK
<1>3. CASE collect' = NoCollect
  BY <1>1, <1>3, RunUntouched DEF IInv, TypeOK, RefusalsEarned, CollectInv
<1>4. CASE /\ collect.config.allowIncomplete
           /\ collect' = [collect EXCEPT !.todo = Tail(@)]
  <2>1. /\ collect' \in CollectState /\ collect'.pc = "status"
        /\ collect'.config = collect.config /\ collect'.records = collect.records
    BY <1>1, <1>2, <1>4 DEF CollectState
  <2>2. CollectInv'
    BY <1>1, <1>4, <2>1 DEF IInv, CollectInv, Earned, historyVars
  <2>q. QED
    BY <1>1, <2>1, <2>2, RunUntouched DEF IInv, TypeOK, RefusalsEarned
<1>5. CASE /\ dirs[Reading].status # Torn
           /\ collect' = [collect EXCEPT !.pc = "data", !.status = dirs[Reading].status]
  <2>1. dirs[Reading].status \in {None} \cup Outcomes
    BY <1>2, <1>5 DEF Dir
  <2>2. /\ collect' \in CollectState /\ collect'.pc = "data"
        /\ collect'.config = collect.config /\ collect'.records = collect.records
        /\ collect'.todo = collect.todo /\ collect'.selected = collect.selected
        /\ collect'.status = dirs[Reading].status
    BY <1>1, <1>5, <2>1 DEF CollectState
  <2>3. Reading' = Reading /\ (dirs[Reading].status = "success" => Reading \in clean)
    BY <1>2, <2>2 DEF Reading, IInv, DirInv
  <2>4. CollectInv'
    BY <1>1, <2>2, <2>3 DEF IInv, CollectInv, Earned, Suffix, Behind, historyVars
  <2>q. QED
    BY <1>1, <2>2, <2>4, RunUntouched DEF IInv, TypeOK, RefusalsEarned
<1>q. QED
  BY <1>3, <1>4, <1>5 DEF ReadManifest

\* What is gathered, and the status of a record.
LEMMA GatheredType ==
    ASSUME NEW d \in Dir, NEW read \in {None} \cup Outcomes
    PROVE  /\ Status(read, d) \in {"success", "oom", "failed"}
           /\ Status(read, d) = "success" => read = "success"
           /\ Status(read, d) = "oom" => d.oomLog
           /\ Peaks(d) \in SUBSET Peak
<1>1. Peaks(d) \in SUBSET Peak
  <2>1. d.sidecar # None => d.sidecar.ranks \in {None} \cup SUBSET Peak
    BY DEF Dir, Sidecars, Peak
  <2>2. d.snapshot # None => SnapshotPeak(d.snapshot) \in Peak
    BY SnapshotPeakIsSound DEF Dir
  <2>q. QED
    BY <2>1, <2>2 DEF Peaks, Metric
<1>q. QED
  BY <1>1 DEF Status

(* A record is added for the candidate that was read: its success was      *)
(* earned when the status was read, its lack of memory when the log was.   *)
LEMMA ReadDataInv == ASSUME IInv, ReadData PROVE IInv'
<1> DEFINE d == dirs[Reading]
           status == Status(collect.status, d)
           times == StepTimes(d, status)
           peaks == Peaks(d)
           gathered == [candidate |-> Reading, status |-> status,
                        times |-> times, peaks |-> peaks]
           valid == ValidPayload(Reading.par, Reading.par.world, Reading.mbs,
                        Reading.gbs, Reading.nmb, Microbatched(Reading, d), times, peaks)
<1>1. /\ collect # NoCollect /\ collect \in CollectState /\ collect.pc = "data"
      /\ collect.todo # <<>>
      /\ collect.status = "success" => Reading \in clean
      /\ UNCHANGED <<candidates, dirs, run, historyVars>>
  BY PcOfIdle DEF IInv, ReadData, NoCollect, CollectInv
<1>2. /\ Reading \in Listed /\ d \in Dir /\ Reading \in Candidates
      /\ Tail(collect.todo) \in Seq(Listed)
      /\ collect.config \in Configs /\ collect.status \in {None} \cup Outcomes
  BY <1>1, HeadTailProperties DEF CollectState, Reading, Listed, IInv, TypeOK
<1>3. d.sidecar = None \/ Agrees(d.sidecar, Reading) => valid
  BY <1>2, RecordIsValid
<1>4. RefusalsEarned'
  <2>1. \A r \in rejected' : r \in rejected \/ (~valid /\ r = Refusal(Reading, d.sidecar))
    BY DEF ReadData
  <2> HIDE DEF valid, d
  <2>q. QED
    BY <1>3, <2>1 DEF IInv, RefusalsEarned, Refusal
<1>5. \/ collect' = NoCollect
      \/ /\ collect' = [collect EXCEPT !.pc = "status", !.status = None,
                                        !.todo = Tail(@),
                                        !.records = Append(@, gathered)]
         /\ ~collect.config.allowIncomplete => WellMeasured(gathered)
  BY DEF ReadData, WellMeasured
<1>6. /\ gathered \in Gathered
      /\ status = "success" => Reading \in clean
      /\ status = "oom" => Reading \in ranOut
  <2>1. /\ status \in {"success", "oom", "failed"}
        /\ status = "success" => collect.status = "success"
        /\ status = "oom" => d.oomLog
        /\ times \in Seq(Int) /\ peaks \in SUBSET Peak
    BY <1>2, GatheredType, TimesAreLogged
  <2>2. d.oomLog => Reading \in ranOut
    BY <1>2 DEF IInv, DirInv
  <2> HIDE DEF d, status, times, peaks
  <2>q. QED
    BY <1>1, <1>2, <2>1, <2>2 DEF Gathered
<1>7. gathered.candidate = Reading /\ gathered.status = status
  OBVIOUS
<1> HIDE DEF d, status, times, peaks, gathered, valid
<1>8. CASE collect' = NoCollect
  BY <1>1, <1>4, <1>8, RunUntouched DEF IInv, TypeOK, CollectInv
<1>9. CASE /\ collect' = [collect EXCEPT !.pc = "status", !.status = None,
                                         !.todo = Tail(@),
                                         !.records = Append(@, gathered)]
           /\ ~collect.config.allowIncomplete => WellMeasured(gathered)
  <2>1. collect.records \in Seq(Gathered) /\ Len(collect.records) \in Nat
    BY <1>1, LenProperties DEF CollectState
  <2>2. /\ Append(collect.records, gathered) \in Seq(Gathered)
        /\ Len(Append(collect.records, gathered)) = Len(collect.records) + 1
        /\ \A i \in 1..Len(collect.records) :
              Append(collect.records, gathered)[i] = collect.records[i]
        /\ Append(collect.records, gathered)[Len(collect.records) + 1] = gathered
    BY <1>6, <2>1, AppendProperties
  <2>3. /\ collect' \in CollectState /\ collect'.pc = "status"
        /\ collect'.config = collect.config /\ collect'.selected = collect.selected
        /\ collect'.todo = Tail(collect.todo)
        /\ collect'.records = Append(collect.records, gathered)
    BY <1>1, <1>2, <1>9, <2>2 DEF CollectState
  <2>4. \A i \in 1..Len(collect'.records) :
           \/ /\ i \in 1..Len(collect.records)
              /\ collect'.records[i] = collect.records[i]
           \/ i = Len(collect.records) + 1 /\ collect'.records[i] = gathered
    BY <2>1, <2>2, <2>3
  <2>5. (\A i \in 1..Len(collect.records) : Earned(collect.records[i]))'
    <3>1. \A i \in 1..Len(collect.records) : Earned(collect.records[i])
      BY <1>1 DEF IInv, CollectInv
    <3>q. QED
      BY <1>1, <1>6, <1>7, <2>4, <3>1 DEF Earned, historyVars
  <2>6. ASSUME ~collect.config.allowIncomplete
        PROVE  /\ Suffix(collect') /\ Len(collect'.records) = Behind(collect')
               /\ \A i \in 1..Len(collect'.records) :
                    /\ collect'.records[i].candidate = collect.selected[i]
                    /\ WellMeasured(collect'.records[i])
    <3>1. /\ Suffix(collect) /\ Len(collect.records) = Behind(collect)
          /\ \A i \in 1..Len(collect.records) :
                /\ collect.records[i].candidate = collect.selected[i]
                /\ WellMeasured(collect.records[i])
      BY <1>1, <2>6 DEF IInv, CollectInv
    <3>2. collect.selected \in Seq(Listed) /\ collect.todo \in Seq(Listed)
      BY <1>1 DEF CollectState
    <3>a. /\ Len(collect'.records) = Len(collect.records) + 1
          /\ collect.todo # <<>> /\ collect'.selected = collect.selected
          /\ collect'.todo = Tail(collect.todo)
      BY <1>1, <2>2, <2>3
    <3>3. /\ Suffix(collect') /\ Behind(collect') = Behind(collect) + 1
          /\ collect.selected[Behind(collect')] = Reading
      BY <3>1, <3>2, <3>a, TailIsSuffix DEF Reading
    <3>5. Len(collect'.records) = Behind(collect')
      BY <3>1, <3>3, <3>a
    <3>6. /\ gathered.candidate = collect.selected[Len(collect.records) + 1]
          /\ WellMeasured(gathered)
      BY <1>7, <1>9, <2>6, <3>1, <3>3
    <3>7. ASSUME NEW i \in 1..Len(collect'.records)
          PROVE  /\ collect'.records[i].candidate = collect.selected[i]
                 /\ WellMeasured(collect'.records[i])
      BY <2>4, <3>1, <3>6
    <3>q. QED
      BY <3>3, <3>5, <3>7
  <2>7. CollectInv'
    BY <2>3, <2>5, <2>6 DEF CollectInv, Suffix, Behind
  <2>q. QED
    BY <1>1, <1>4, <2>3, <2>7, RunUntouched DEF IInv, TypeOK
<1>q. QED
  BY <1>5, <1>8, <1>9

-----------------------------------------------------------------------------
\* The theorems

LEMMA StartsInv == BridgeInit => IInv
<1> SUFFICES ASSUME BridgeInit PROVE IInv
  OBVIOUS
<1>1. NewDir \in Dir /\ NewDir.status = None /\ ~NewDir.oomLog
  BY DEF NewDir, Dir
<1>2. \A c \in Candidates : dirs[c] = NewDir
  BY DEF BridgeInit
<1>3. DirInv
  BY <1>1, <1>2, BridgeAssumption DEF DirInv
<1>q. QED
  BY <1>1, <1>3 DEF BridgeInit, IInv, TypeOK, RunInv, CollectInv, RefusalsEarned

LEMMA StepsInv == IInv /\ [BridgeNext]_bridgeVars => IInv'
<1> SUFFICES ASSUME IInv, [BridgeNext]_bridgeVars PROVE IInv'
  OBVIOUS
<1>1. CASE Generate \/ GenerateKilled
  BY <1>1, GenerateInv
<1>2. CASE RunStarts \/ DryRuns
  BY <1>2, RunStartsInv, DryRunsInv
<1>3. CASE RunSteps \/ RunKilled
  BY <1>3, PrepareInv, ProcessSucceedsInv, ProcessFailsInv, SlurmSubmitsInv,
     RecordOutcomeInv, RunStopsInv DEF RunSteps
<1>4. CASE SlurmJobRuns
  BY <1>4, SlurmJobRunsInv
<1>5. CASE CollectStarts \/ CollectSteps \/ CollectKilled
  BY <1>5, CollectStartsInv, ReadManifestInv, ReadDataInv, ReplaceInv, CollectStopsInv
     DEF CollectSteps
<1>6. CASE UNCHANGED bridgeVars
  <2>1. /\ UNCHANGED <<candidates, dirs, run, collect, historyVars>>
        /\ rejected' = rejected
    BY <1>6 DEF bridgeVars
  <2>2. CollectInv'
    BY <2>1, CollectFrame DEF IInv, historyVars
  <2>q. QED
    BY <2>1, <2>2, RunUntouched DEF IInv, TypeOK, RefusalsEarned
<1>q. QED
  BY <1>1, <1>2, <1>3, <1>4, <1>5, <1>6 DEF BridgeNext

(* The invariant holds from the first step on. *)
THEOREM BridgeInvariant == BridgeSpec => []IInv
<1>1. BridgeInit => IInv
  BY StartsInv
<1>2. IInv /\ [BridgeNext]_bridgeVars => IInv'
  BY StepsInv
<1>q. QED
  BY <1>1, <1>2, PTL DEF BridgeSpec

(* A profile on disk has one record per selected candidate, in order, and  *)
(* no success without its step times and its memory, unless gaps are       *)
(* allowed: whatever a run that is under way does to the directories.      *)
THEOREM BridgeOutputWhole == BridgeSpec => []OutputWhole
<1>1. ASSUME IInv, Written, ~collect.config.allowIncomplete
      PROVE  /\ Len(collect.records) = Len(collect.selected)
             /\ \A i \in DOMAIN collect.selected :
                   LET r == collect.records[i]
                   IN /\ r.candidate = collect.selected[i]
                      /\ r.status = "success" => r.times # <<>> /\ r.peaks # {}
  <2>1. collect # NoCollect /\ collect \in CollectState
    BY <1>1, PcOfIdle DEF IInv, Written, NoCollect
  <2>2. /\ collect.todo = <<>> /\ Len(collect.records) = Behind(collect)
        /\ \A i \in 1..Len(collect.records) :
              /\ collect.records[i].candidate = collect.selected[i]
              /\ WellMeasured(collect.records[i])
    BY <1>1, <2>1 DEF IInv, CollectInv, Written
  <2>3. /\ Len(collect.selected) \in Nat
        /\ DOMAIN collect.selected = 1..Len(collect.selected)
    BY <2>1, LenProperties DEF CollectState
  <2>4. Len(<<>>) = 0
    OBVIOUS
  <2>5. Behind(collect) = Len(collect.selected)
    BY <2>2, <2>3, <2>4 DEF Behind
  <2>q. QED
    BY <2>2, <2>3, <2>5 DEF WellMeasured
<1>2. IInv => OutputWhole
  BY <1>1 DEF OutputWhole
<1>q. QED
  BY <1>2, BridgeInvariant, PTL

(* No collected status is made up: a success is a candidate of which an    *)
(* attempt exited with 0, an OOM one of which an attempt ran out of memory. *)
THEOREM BridgeStatusesEarned == BridgeSpec => []StatusesEarned
<1>1. ASSUME IInv, Written
      PROVE  \A i \in DOMAIN collect.records :
                LET r == collect.records[i]
                IN /\ r.status = "success" => r.candidate \in clean
                   /\ r.status = "oom" => r.candidate \in ranOut
  <2>1. collect # NoCollect /\ collect \in CollectState
    BY <1>1, PcOfIdle DEF IInv, Written, NoCollect
  <2>2. DOMAIN collect.records = 1..Len(collect.records)
    BY <2>1, LenProperties DEF CollectState
  <2>q. QED
    BY <1>1, <2>1, <2>2 DEF IInv, CollectInv, Earned
<1>2. IInv => StatusesEarned
  BY <1>1 DEF StatusesEarned
<1>q. QED
  BY <1>2, BridgeInvariant, PTL

(* A run command that comes to its end has attempted every candidate it    *)
(* selected and has counted their failures.                                *)
THEOREM BridgeAllAttempted == BridgeSpec => []AllAttempted
<1>1. ASSUME IInv, run.pc = "next", run.todo = <<>>
      PROVE  /\ \A c \in ToSet(run.selected) :
                   /\ dirs[c].manifest = "written"
                   /\ dirs[c].status \notin {None, Torn}
             /\ Cardinality({c \in ToSet(run.selected) : dirs[c].status = "failed"})
                   <= run.failures
  <2>1. run # NoRun /\ run \in RunState
    BY <1>1, PcOfIdle DEF IInv, NoRun
  <2>2. /\ Len(run.selected) \in Nat /\ DOMAIN run.selected = 1..Len(run.selected)
        /\ Len(<<>>) = 0
    BY <2>1, LenProperties DEF RunState
  <2>3. Behind(run) = Len(run.selected)
    BY <1>1, <2>2 DEF Behind
  <2>4. ToSet(run.selected) = Done
    BY <2>2, <2>3 DEF ToSet, Done
  <2>5. {c \in ToSet(run.selected) : dirs[c].status = "failed"} = Failed
    BY <2>4 DEF Failed
  <2>q. QED
    BY <1>1, <2>1, <2>4, <2>5, BridgeAssumption DEF IInv, RunInv, Outcomes
<1>2. IInv => AllAttempted
  BY <1>1 DEF AllAttempted
<1>q. QED
  BY <1>2, BridgeInvariant, PTL

(* The schema refuses no candidate that is enumerated and no record that   *)
(* is collected, but one with a sidecar that contradicts its candidate.    *)
THEOREM BridgeRefusalsEarned == BridgeSpec => []RefusalsEarned
<1>1. IInv => RefusalsEarned
  BY DEF IInv
<1>q. QED
  BY <1>1, BridgeInvariant, PTL

-----------------------------------------------------------------------------
\* The closed form of a decode segment

\* The terms of a segment; a step takes some time.
Coeffs == {c \in [floor : Nat, alpha : Nat, beta : Nat] : c.floor + c.alpha > 0}

\* What step i of the segment costs.
StepCost(c, i) == Max({c.floor, c.alpha + c.beta * i})

\* The product of natural numbers is monotone.
LEMMA ProductGrows ==
    ASSUME NEW a \in Nat, NEW i \in Nat, NEW j \in Nat, i <= j
    PROVE  a * i \in Nat /\ a * j \in Nat /\ a * i <= a * j
<1> DEFINE d == j - i
<1>1. d \in Nat /\ j = i + d
  OBVIOUS
<1> HIDE DEF d
<1>2. a * i \in Nat /\ a * d \in Nat
  BY <1>1
<1>3. a * j = a * i + a * d
  BY <1>1
<1>q. QED
  BY <1>2, <1>3

LEMMA StepCostFacts ==
    ASSUME NEW c \in Coeffs, NEW i \in Nat
    PROVE  /\ StepCost(c, i) \in Nat /\ StepCost(c, i) > 0
           /\ StepCost(c, i) >= c.floor
           /\ c.alpha + c.beta * i \in Nat
           /\ c.alpha + c.beta * i <= c.floor => StepCost(c, i) = c.floor
           /\ c.alpha + c.beta * i >= c.floor => StepCost(c, i) = c.alpha + c.beta * i
<1> DEFINE f == c.floor
           x == c.alpha + c.beta * i
<1>1. c.floor \in Nat /\ c.alpha \in Nat /\ c.beta \in Nat /\ c.floor + c.alpha > 0
  BY DEF Coeffs
<1>2. c.beta * i \in Nat
  BY <1>1
<1>3. f \in Nat /\ x \in Nat /\ f + x > 0
  BY <1>1, <1>2
<1>4. StepCost(c, i) = Max({f, x})
  BY DEF StepCost
<1> HIDE DEF f, x
<1>5. Max({f, x}) \in {f, x} /\ Max({f, x}) >= f /\ Max({f, x}) >= x
  BY <1>3, MaxOfTwo
<1>6. /\ Max({f, x}) \in Nat /\ Max({f, x}) > 0 /\ Max({f, x}) >= f
      /\ x <= f => Max({f, x}) = f
      /\ x >= f => Max({f, x}) = x
  BY <1>3, <1>5
<1>q. QED
  BY <1>3, <1>4, <1>6 DEF f, x

\* The integer division of the code's ceiling.
LEMMA CeilFacts ==
    ASSUME NEW n \in Nat, NEW d \in Nat \ {0}
    PROVE  /\ CeilDiv(n, d) \in Nat
           /\ d * CeilDiv(n, d) >= n
           /\ CeilDiv(n, d) > 0 => d * (CeilDiv(n, d) - 1) < n
<1> DEFINE x == -n
           q == x \div d
           r == x % d
<1>1. x \in Int /\ d \in Nat /\ d > 0 /\ x <= 0 /\ n = -x
  OBVIOUS
<1> HIDE DEF x
<1>2. q \in Int /\ r \in 0..(d - 1) /\ x = d * q + r
  BY <1>1
<1>3. CeilDiv(n, d) = -q
  BY DEF CeilDiv, x
<1> HIDE DEF q, r
<1>4. d * q <= 0 /\ d * q \in Int
  BY <1>1, <1>2
<1>5. q <= 0
  <2> SUFFICES ASSUME q >= 1 PROVE FALSE
    BY <1>2
  <2>1. d * 1 <= d * q
    BY <1>1, <1>2, ProductGrows
  <2>q. QED
    BY <1>1, <1>4, <2>1
<1> DEFINE p == -q
<1>6. p \in Nat /\ q = -p
  BY <1>2, <1>5
<1> HIDE DEF p
<1>7. d * p \in Nat /\ d * q = -(d * p) /\ d * (p - 1) = d * p - d
  BY <1>1, <1>6
<1>8. d * p >= n /\ d * (p - 1) < n
  BY <1>1, <1>2, <1>7
<1>q. QED
  BY <1>3, <1>6, <1>8

(* Before the crossing a step costs the floor; from there on, unless the    *)
(* cap was met first, it costs the linear term.                             *)
LEMMA CrossingFacts ==
    ASSUME NEW c \in Coeffs, NEW cap \in Nat
    PROVE  LET k == CrossingStep(c, cap)
           IN /\ k \in Nat /\ k <= cap
              /\ \A i \in Nat : i < k => c.alpha + c.beta * i <= c.floor
              /\ k < cap => \A i \in Nat : i >= k => c.alpha + c.beta * i >= c.floor
              /\ \A j \in Nat : /\ j <= k => CrossingStep(c, j) = j
                                /\ k < cap /\ j >= k => CrossingStep(c, j) = k
<1>1. c.floor \in Nat /\ c.alpha \in Nat /\ c.beta \in Nat
  BY DEF Coeffs
<1>2. CASE c.alpha >= c.floor
  <2>1. \A j : CrossingStep(c, j) = 0
    BY <1>2 DEF CrossingStep
  <2>2. \A i \in Nat : c.beta * i \in Nat
    BY <1>1
  <2>3. \A i \in Nat : c.alpha + c.beta * i >= c.floor
    BY <1>1, <1>2, <2>2
  <2>q. QED
    BY <2>1, <2>3
<1>3. CASE c.alpha < c.floor /\ c.beta = 0
  <2>1. \A j : CrossingStep(c, j) = j
    BY <1>1, <1>3 DEF CrossingStep
  <2>2. \A i \in Nat : c.alpha + c.beta * i <= c.floor
    BY <1>1, <1>3
  <2>q. QED
    BY <2>1, <2>2
<1>4. CASE c.alpha < c.floor /\ c.beta # 0
  <2> DEFINE n == c.floor - c.alpha
             q == CeilDiv(n, c.beta)
  <2>1. n \in Nat /\ c.beta \in Nat \ {0}
    BY <1>1, <1>4
  <2>2. \A j : CrossingStep(c, j) = Min({j, q})
    BY <1>1, <1>4 DEF CrossingStep
  <2> HIDE DEF n
  <2>3. q \in Nat /\ c.beta * q >= n /\ (q > 0 => c.beta * (q - 1) < n)
    BY <2>1, CeilFacts
  <2> HIDE DEF q
  <2>4. \A j \in Nat : CrossingStep(c, j) = IF j <= q THEN j ELSE q
    <3> SUFFICES ASSUME NEW j \in Nat PROVE CrossingStep(c, j) = IF j <= q THEN j ELSE q
      OBVIOUS
    <3>1. Min({j, q}) \in {j, q} /\ Min({j, q}) <= j /\ Min({j, q}) <= q
      <4>1. j \in Int /\ q \in Int
        BY <2>3
      <4>q. QED
        BY <4>1, MinOfTwo
    <3>q. QED
      BY <2>2, <2>3, <3>1
  <2>5. \A i \in Nat : i >= q => c.alpha + c.beta * i >= c.floor
    <3> SUFFICES ASSUME NEW i \in Nat, i >= q PROVE c.alpha + c.beta * i >= c.floor
      OBVIOUS
    <3>1. c.beta * q <= c.beta * i /\ c.beta * i \in Nat /\ c.beta * q \in Nat
      BY <1>1, <2>3, ProductGrows
    <3>q. QED
      BY <1>1, <2>3, <3>1 DEF n
  <2>6. \A i \in Nat : i < q => c.alpha + c.beta * i <= c.floor
    <3> SUFFICES ASSUME NEW i \in Nat, i < q PROVE c.alpha + c.beta * i <= c.floor
      OBVIOUS
    <3>0. q - 1 \in Nat /\ i <= q - 1 /\ q > 0
      BY <2>3
    <3>1. /\ c.beta * i <= c.beta * (q - 1) /\ c.beta * i \in Nat
          /\ c.beta * (q - 1) \in Nat
      BY <1>1, <3>0, ProductGrows
    <3>2. c.beta * (q - 1) < c.floor - c.alpha
      BY <2>3, <3>0 DEF n
    <3>q. QED
      BY <1>1, <3>1, <3>2
  <2> DEFINE k == CrossingStep(c, cap)
  <2>7. k = IF cap <= q THEN cap ELSE q
    BY <2>4
  <2>8. k \in Nat /\ k <= cap /\ k <= q /\ (k < cap => k = q)
    BY <2>3, <2>7
  <2> HIDE DEF k
  <2>9. \A i \in Nat : i < k => c.alpha + c.beta * i <= c.floor
    BY <2>3, <2>6, <2>8
  <2>10. k < cap => \A i \in Nat : i >= k => c.alpha + c.beta * i >= c.floor
    BY <2>5, <2>8
  <2>11. \A j \in Nat : /\ j <= k => CrossingStep(c, j) = j
                        /\ k < cap /\ j >= k => CrossingStep(c, j) = k
    BY <2>3, <2>4, <2>8
  <2>q. QED
    BY <2>8, <2>9, <2>10, <2>11 DEF k
<1>q. QED
  BY <1>1, <1>2, <1>3, <1>4

\* One more row of the triangle.
LEMMA Triangle ==
    ASSUME NEW n \in Nat
    PROVE  /\ (n * (n - 1)) \div 2 \in Nat
           /\ ((n + 1) * n) \div 2 = (n * (n - 1)) \div 2 + n
<1> DEFINE x == n * (n - 1)
<1>1. x \in Nat
  <2>1. CASE n = 0
    BY <2>1
  <2>2. CASE n # 0
    <3>1. n - 1 \in Nat
      BY <2>2
    <3>q. QED
      BY <3>1
  <2>q. QED
    BY <2>1, <2>2
<1>2. (n + 1) * n = x + 2 * n
  OBVIOUS
<1> HIDE DEF x
<1>3. (x + 2 * n) \div 2 = x \div 2 + n /\ x \div 2 \in Nat
  BY <1>1
<1>q. QED
  BY <1>2, <1>3 DEF x

\* One more step: what it costs is added.
LEMMA ElapsedStep ==
    ASSUME NEW c \in Coeffs, NEW k \in Nat
    PROVE  /\ Elapsed(c, k) \in Nat
           /\ Elapsed(c, k + 1) = Elapsed(c, k) + StepCost(c, k)
<1> DEFINE k0 == CrossingStep(c, k)
           k1 == CrossingStep(c, k + 1)
<1>1. c.floor \in Nat /\ c.alpha \in Nat /\ c.beta \in Nat
  BY DEF Coeffs
<1>2. /\ k0 \in Nat /\ k0 <= k
      /\ k0 < k => CrossingStep(c, k + 1) = k0
  <2>1. k + 1 \in Nat
    OBVIOUS
  <2>2. /\ k0 \in Nat /\ k0 <= k
        /\ \A j \in Nat : k0 < k /\ j >= k0 => CrossingStep(c, j) = k0
    BY CrossingFacts
  <2> HIDE DEF k0
  <2>3. k0 < k => k + 1 >= k0
    BY <2>2
  <2>q. QED
    BY <2>1, <2>2, <2>3
<1>3. /\ k1 \in Nat /\ k1 <= k + 1
      /\ \A i \in Nat : i < k1 => c.alpha + c.beta * i <= c.floor
      /\ k1 < k + 1 => \A i \in Nat : i >= k1 => c.alpha + c.beta * i >= c.floor
      /\ k <= k1 => k0 = k
  <2>1. k + 1 \in Nat
    OBVIOUS
  <2>2. /\ k1 \in Nat /\ k1 <= k + 1
        /\ \A i \in Nat : i < k1 => c.alpha + c.beta * i <= c.floor
        /\ k1 < k + 1 => \A i \in Nat : i >= k1 => c.alpha + c.beta * i >= c.floor
        /\ \A j \in Nat : j <= k1 => CrossingStep(c, j) = j
    BY <2>1, CrossingFacts
  <2>q. QED
    BY <2>2
<1>4. k1 = k0 \/ (k0 = k /\ k1 = k + 1)
  <2> HIDE DEF k0
  <2>1. CASE k0 < k
    BY <1>2, <2>1
  <2>2. CASE k0 = k /\ k1 <= k
    <3>1. CASE k1 = k
      BY <2>2, <3>1
    <3>2. CASE k1 < k
      <4>1. \A j \in Nat : k1 < k + 1 /\ j >= k1 => CrossingStep(c, j) = k1
        <5>1. k + 1 \in Nat
          OBVIOUS
        <5>q. QED
          BY <5>1, CrossingFacts
      <4>2. CrossingStep(c, k) = k1
        BY <1>3, <3>2, <4>1
      <4>q. QED
        BY <2>2, <4>2 DEF k0
    <3> HIDE DEF k1
    <3>q. QED
      BY <1>3, <2>2, <3>1, <3>2
  <2> HIDE DEF k1
  <2>q. QED
    BY <1>2, <1>3, <2>1, <2>2
<1>5. /\ Elapsed(c, k) = k0 * c.floor + (k - k0) * (c.alpha + c.beta * k0)
                          + c.beta * (((k - k0) * ((k - k0) - 1)) \div 2)
      /\ Elapsed(c, k + 1) = k1 * c.floor + ((k + 1) - k1) * (c.alpha + c.beta * k1)
                              + c.beta * ((((k + 1) - k1) * (((k + 1) - k1) - 1)) \div 2)
  BY DEF Elapsed
<1> HIDE DEF k0, k1
<1> DEFINE n == k - k0
           t == (n * (n - 1)) \div 2
<1>6. n \in Nat /\ k = k0 + n
  BY <1>2
<1> HIDE DEF n
<1>7. t \in Nat /\ ((n + 1) * n) \div 2 = t + n
  BY <1>6, Triangle
<1>8. Elapsed(c, k) = k0 * c.floor + n * (c.alpha + c.beta * k0) + c.beta * t
  BY <1>5 DEF n
<1> HIDE DEF t
<1>9. Elapsed(c, k) \in Nat
  <2>1. k0 * c.floor \in Nat /\ c.beta * k0 \in Nat /\ c.beta * t \in Nat
    BY <1>1, <1>2, <1>7
  <2>2. n * (c.alpha + c.beta * k0) \in Nat
    BY <1>1, <1>6, <2>1
  <2>q. QED
    BY <1>8, <2>1, <2>2
<1>10. CASE k1 = k0
  <2>1. (k + 1) - k1 = n + 1 /\ (n + 1) - 1 = n
    BY <1>2, <1>6, <1>10
  <2>2. Elapsed(c, k + 1) = k0 * c.floor + (n + 1) * (c.alpha + c.beta * k0)
                              + c.beta * (t + n)
    BY <1>5, <1>7, <1>10, <2>1
  <2>3. /\ c.beta * (t + n) = c.beta * t + c.beta * n
        /\ (n + 1) * (c.alpha + c.beta * k0) =
             n * (c.alpha + c.beta * k0) + (c.alpha + c.beta * k0)
        /\ c.beta * k = c.beta * k0 + c.beta * n
    <3> DEFINE y == c.alpha + c.beta * k0
               b == c.beta
    <3>1. y \in Int /\ b \in Int /\ n \in Int /\ t \in Int /\ k0 \in Int
      BY <1>1, <1>2, <1>6, <1>7
    <3> HIDE DEF y, b
    <3>2. /\ b * (t + n) = b * t + b * n /\ (n + 1) * y = n * y + y
          /\ b * (k0 + n) = b * k0 + b * n
      BY <3>1
    <3>q. QED
      BY <1>6, <3>2 DEF y, b
  <2>4. StepCost(c, k) = c.alpha + c.beta * k
    <3>1. c.alpha + c.beta * k >= c.floor
      BY <1>2, <1>3, <1>10
    <3>q. QED
      BY <3>1, StepCostFacts
  <2> DEFINE p == n * (c.alpha + c.beta * k0)
             r == c.beta * k0
             s == c.beta * t
             u == c.beta * n
             v == k0 * c.floor
  <2>5. p \in Int /\ r \in Int /\ s \in Int /\ u \in Int /\ v \in Int
    BY <1>1, <1>2, <1>6, <1>7
  <2>6. /\ Elapsed(c, k) = v + p + s
        /\ Elapsed(c, k + 1) = v + (p + (c.alpha + r)) + (s + u)
        /\ StepCost(c, k) = c.alpha + (r + u)
    BY <1>8, <2>2, <2>3, <2>4
  <2> HIDE DEF p, r, s, u, v
  <2>q. QED
    BY <1>1, <1>9, <2>5, <2>6
<1>11. CASE k0 = k /\ k1 = k + 1
  <2>1. n = 0 /\ (k + 1) - k1 = 0
    BY <1>6, <1>11
  <2>2. (0 * (0 - 1)) \div 2 = 0
    OBVIOUS
  <2>3. t = 0
    BY <2>1, <2>2 DEF t
  <2>4. Elapsed(c, k) = k * c.floor /\ Elapsed(c, k + 1) = (k + 1) * c.floor
    <3>1. Elapsed(c, k) = k * c.floor + 0 * (c.alpha + c.beta * k) + c.beta * 0
      BY <1>8, <1>11, <2>1, <2>3
    <3>2. Elapsed(c, k + 1) = (k + 1) * c.floor + 0 * (c.alpha + c.beta * (k + 1))
                                + c.beta * 0
      BY <1>5, <1>11, <2>1, <2>2
    <3>q. QED
      BY <1>1, <3>1, <3>2
  <2>5. StepCost(c, k) = c.floor
    <3>1. c.alpha + c.beta * k <= c.floor
      BY <1>3, <1>11
    <3>q. QED
      BY <3>1, StepCostFacts
  <2>6. (k + 1) * c.floor = k * c.floor + c.floor
    BY <1>1
  <2>q. QED
    BY <1>9, <2>4, <2>5, <2>6
<1>q. QED
  BY <1>4, <1>10, <1>11

\* The steps within the crossing cost the floor, those of a flat segment the
\* same.
LEMMA ElapsedFloor ==
    ASSUME NEW c \in Coeffs, NEW cap \in Nat, NEW k \in Nat, k <= CrossingStep(c, cap)
    PROVE  Elapsed(c, k) = k * c.floor
<1>1. CrossingStep(c, k) = k /\ c.floor \in Nat /\ c.alpha \in Nat /\ c.beta \in Nat
  BY CrossingFacts DEF Coeffs
<1>2. k - k = 0 /\ (0 * (0 - 1)) \div 2 = 0
  OBVIOUS
<1>3. Elapsed(c, k) = k * c.floor + 0 * (c.alpha + c.beta * k) + c.beta * 0
  BY <1>1, <1>2 DEF Elapsed
<1>q. QED
  BY <1>1, <1>3

\* Every step takes time: the more steps, the more time.
LEMMA ElapsedGrows ==
    ASSUME NEW c \in Coeffs, NEW j \in Nat, NEW k \in Nat, j <= k
    PROVE  /\ Elapsed(c, j) \in Nat
           /\ Elapsed(c, k) >= Elapsed(c, j) + (k - j)
<1> DEFINE T == {m \in Nat : Elapsed(c, j + m) >= Elapsed(c, j) + m}
<1>1. Elapsed(c, j) \in Nat
  BY ElapsedStep
<1>2. 0 \in T
  <2>1. j + 0 = j
    OBVIOUS
  <2>q. QED
    BY <1>1, <2>1
<1>3. ASSUME NEW m \in Nat, m \in T PROVE m + 1 \in T
  <2>1. j + m \in Nat /\ j + (m + 1) = (j + m) + 1
    OBVIOUS
  <2>2. /\ Elapsed(c, j + m) \in Nat
        /\ Elapsed(c, (j + m) + 1) = Elapsed(c, j + m) + StepCost(c, j + m)
    BY <2>1, ElapsedStep
  <2>3. StepCost(c, j + m) \in Nat /\ StepCost(c, j + m) > 0
    BY <2>1, StepCostFacts
  <2>4. Elapsed(c, j + m) >= Elapsed(c, j) + m
    BY <1>3
  <2>5. Elapsed(c, (j + m) + 1) >= Elapsed(c, j) + (m + 1)
    BY <1>1, <2>2, <2>3, <2>4
  <2>q. QED
    BY <2>1, <2>5
<1>4. Nat \subseteq T
  <2> HIDE DEF T
  <2>q. QED
    BY <1>2, <1>3, NatSetInduction
<1>5. k - j \in Nat /\ j + (k - j) = k
  OBVIOUS
<1>q. QED
  BY <1>1, <1>4, <1>5

\* An integer quotient is exact up to the next one.
LEMMA QuotientFacts ==
    ASSUME NEW n \in Nat, NEW d \in Nat \ {0}
    PROVE  n \div d \in Nat /\ d * (n \div d) <= n /\ n < d * (n \div d) + d
<1> DEFINE q == n \div d
           r == n % d
<1>1. q \in Int /\ r \in 0..(d - 1) /\ n = d * q + r
  OBVIOUS
<1>2. q \in Nat
  BY PositiveQuotient
<1> HIDE DEF q, r
<1>3. d * q \in Int
  BY <1>1
<1>q. QED
  BY <1>1, <1>2, <1>3 DEF q

\* k is the number of steps the budget allows.
LastToFit(c, budget, k) ==
    k \in Nat /\ Elapsed(c, k) <= budget /\ budget < Elapsed(c, k + 1)

\* Multiples keep the order of their factors.
LEMMA FactorsOrdered ==
    ASSUME NEW d \in Nat \ {0}, NEW i \in Nat, NEW j \in Nat, d * i <= d * j
    PROVE  i <= j
<1> SUFFICES ASSUME j + 1 <= i PROVE FALSE
  OBVIOUS
<1>1. j + 1 \in Nat /\ d \in Nat
  OBVIOUS
<1>2. d * (j + 1) <= d * i /\ d * (j + 1) \in Nat /\ d * i \in Nat
  BY <1>1, ProductGrows
<1>3. d * (j + 1) = d * j + d /\ d * j \in Nat
  OBVIOUS
<1>q. QED
  BY <1>2, <1>3

\* A segment whose steps cost the same.
LEMMA FitsFlat ==
    ASSUME NEW c \in Coeffs, c.beta = 0, NEW budget \in Nat
    PROVE  LastToFit(c, budget, budget \div Max({c.floor, c.alpha}))
<1> DEFINE tau == Max({c.floor, c.alpha})
           q == budget \div tau
<1>1. c.floor \in Nat /\ c.alpha \in Nat /\ c.beta \in Nat /\ c.floor + c.alpha > 0
  BY DEF Coeffs
<1>2. /\ tau \in Nat \ {0} /\ tau \in {c.floor, c.alpha}
      /\ tau >= c.floor /\ tau >= c.alpha
  <2> DEFINE f == c.floor
             a == c.alpha
  <2>1. f \in Nat /\ a \in Nat /\ f + a > 0
    BY <1>1
  <2> HIDE DEF f, a
  <2>2. Max({f, a}) \in {f, a} /\ Max({f, a}) >= f /\ Max({f, a}) >= a
    BY <2>1, MaxOfTwo
  <2>3. Max({f, a}) \in Nat \ {0}
    BY <2>1, <2>2
  <2>q. QED
    BY <2>2, <2>3 DEF f, a
<1>3. ASSUME NEW k \in Nat PROVE Elapsed(c, k) = tau * k
  <2>1. CASE c.alpha >= c.floor
    <3>1. CrossingStep(c, k) = 0 /\ tau = c.alpha
      BY <1>1, <1>2, <2>1 DEF CrossingStep
    <3>2. Elapsed(c, k) = 0 * c.floor + (k - 0) * (c.alpha + 0 * 0)
                            + 0 * (((k - 0) * ((k - 0) - 1)) \div 2)
      BY <3>1 DEF Elapsed
    <3>3. k - 0 = k /\ (k * (k - 1)) \div 2 \in Nat
      BY Triangle
    <3> DEFINE t == (k * (k - 1)) \div 2
    <3>4. Elapsed(c, k) = 0 * c.floor + k * (c.alpha + 0 * 0) + 0 * t
      BY <3>2, <3>3
    <3>5. t \in Nat
      BY <3>3
    <3> HIDE DEF t, tau
    <3>6. Elapsed(c, k) = k * c.alpha
      BY <1>1, <3>4, <3>5
    <3>q. QED
      BY <1>1, <3>1, <3>6
  <2>2. CASE c.alpha < c.floor
    <3>1. CrossingStep(c, k) = k /\ tau = c.floor
      BY <1>1, <1>2, <2>2 DEF CrossingStep
    <3>2. Elapsed(c, k) = k * c.floor
      BY <3>1, ElapsedFloor
    <3> HIDE DEF tau
    <3>q. QED
      BY <1>1, <3>1, <3>2
  <2> HIDE DEF tau
  <2>q. QED
    BY <1>1, <2>1, <2>2
<1> HIDE DEF tau
<1>4. q \in Nat /\ tau * q <= budget /\ budget < tau * q + tau
  BY <1>2, QuotientFacts
<1> HIDE DEF q
<1>5. tau * (q + 1) = tau * q + tau /\ q + 1 \in Nat
  BY <1>2, <1>4
<1>6. LastToFit(c, budget, q)
  BY <1>3, <1>4, <1>5 DEF LastToFit
<1>q. QED
  BY <1>6 DEF q, tau

\* A budget that ends before the crossing.
LEMMA FitsFloor ==
    ASSUME NEW c \in Coeffs, NEW budget \in Nat \ {0},
           budget <= CrossingStep(c, budget) * c.floor
    PROVE  LastToFit(c, budget, budget \div c.floor)
<1> DEFINE k0 == CrossingStep(c, budget)
           q == budget \div c.floor
<1>1. k0 \in Nat /\ c.floor \in Nat /\ budget \in Nat /\ budget > 0
  BY CrossingFacts DEF Coeffs
<1>2. c.floor # 0
  <2> SUFFICES ASSUME c.floor = 0 PROVE FALSE
    OBVIOUS
  <2>1. k0 * 0 = 0
    BY <1>1
  <2>q. QED
    BY <1>1, <2>1
<1>3. q \in Nat /\ c.floor * q <= budget /\ budget < c.floor * q + c.floor
  BY <1>1, <1>2, QuotientFacts
<1>4. budget <= c.floor * k0
  BY <1>1
<1> HIDE DEF q
<1>5. q <= k0
  <2>1. c.floor * q <= c.floor * k0
    <3> HIDE DEF k0
    <3>1. c.floor * q \in Int /\ c.floor * k0 \in Int
      BY <1>1, <1>3
    <3>q. QED
      BY <1>1, <1>3, <1>4, <3>1
  <2> HIDE DEF k0
  <2>q. QED
    BY <1>1, <1>2, <1>3, <2>1, FactorsOrdered
<1>6. Elapsed(c, q) = q * c.floor
  BY <1>1, <1>3, <1>5, ElapsedFloor
<1>7. Elapsed(c, q + 1) = Elapsed(c, q) + StepCost(c, q)
  BY <1>3, ElapsedStep
<1>8. StepCost(c, q) >= c.floor /\ StepCost(c, q) \in Nat
  BY <1>3, StepCostFacts
<1>9. q * c.floor = c.floor * q /\ c.floor * q \in Nat
  BY <1>1, <1>3
<1>10. LastToFit(c, budget, q)
  BY <1>1, <1>3, <1>6, <1>7, <1>8, <1>9 DEF LastToFit
<1>q. QED
  BY <1>10 DEF q

\* The two walks end where the budget does, wherever they start.
LEMMA FitsWalk ==
    ASSUME NEW c \in Coeffs, NEW budget \in Nat \ {0}, NEW seed \in Nat,
           CrossingStep(c, budget) * c.floor < budget
    PROVE  LET k0 == CrossingStep(c, budget)
               up == {n \in seed..(seed + budget) : Elapsed(c, k0 + n + 1) > budget}
               down == {n \in 1..Min(up) : Elapsed(c, k0 + n) <= budget}
           IN LastToFit(c, budget, k0 + Max({0} \cup down))
<1> DEFINE k0 == CrossingStep(c, budget)
           up == {n \in seed..(seed + budget) : Elapsed(c, k0 + n + 1) > budget}
           u == Min(up)
           down == {n \in 1..u : Elapsed(c, k0 + n) <= budget}
           some == {0} \cup down
           m == Max(some)
<1>1. k0 \in Nat /\ budget \in Nat /\ budget > 0 /\ seed \in Nat
  BY CrossingFacts
<1>2. Elapsed(c, k0) <= budget
  <2>1. Elapsed(c, k0) = k0 * c.floor
    BY <1>1, ElapsedFloor
  <2>2. k0 * c.floor \in Int /\ k0 * c.floor < budget
    BY <1>1 DEF Coeffs
  <2> HIDE DEF k0
  <2>q. QED
    BY <1>1, <2>1, <2>2
<1> HIDE DEF k0
<1>3. ASSUME NEW k \in Nat PROVE Elapsed(c, k) \in Nat /\ Elapsed(c, k) >= k
  <2>1. 0 \in Nat /\ 0 <= k /\ k - 0 = k
    OBVIOUS
  <2>2. Elapsed(c, 0) \in Nat /\ Elapsed(c, k) >= Elapsed(c, 0) + (k - 0)
    BY <2>1, ElapsedGrows
  <2>3. Elapsed(c, k) \in Nat
    BY ElapsedStep
  <2>q. QED
    BY <2>1, <2>2, <2>3
<1>4. u \in up
  <2>1. seed + budget \in up
    <3>1. (k0 + (seed + budget)) + 1 \in Nat
      BY <1>1
    <3>2. Elapsed(c, (k0 + (seed + budget)) + 1) >= (k0 + (seed + budget)) + 1
      BY <1>3, <3>1
    <3>3. /\ Elapsed(c, (k0 + (seed + budget)) + 1) > budget
          /\ seed + budget \in seed..(seed + budget)
      BY <1>1, <1>3, <3>1, <3>2
    <3>q. QED
      BY <3>3
  <2>2. IsFiniteSet(seed..(seed + budget))
    <3>1. seed \in Int /\ seed + budget \in Int
      BY <1>1
    <3>q. QED
      BY <3>1, FS_Interval
  <2>3. IsFiniteSet(up) /\ (\A x \in up : x \in Int) /\ up # {}
    BY <2>1, <2>2, FS_Subset
  <2> HIDE DEF up
  <2>q. QED
    BY <2>3, MinIsLeast
<1>5. u \in Nat /\ Elapsed(c, k0 + u + 1) > budget
  BY <1>1, <1>4
<1> HIDE DEF up, u
<1>6. m \in some /\ \A y \in some : m >= y
  <2>1. IsFiniteSet(1..u)
    <3>1. 1 \in Int /\ u \in Int
      BY <1>5
    <3>q. QED
      BY <3>1, FS_Interval
  <2>2. IsFiniteSet(down) /\ IsFiniteSet({0})
    BY <2>1, FS_Subset, FS_Singleton
  <2>3. IsFiniteSet(some)
    <3> HIDE DEF down
    <3>q. QED
      BY <2>2, FS_Union
  <2>4. (\A x \in some : x \in Int) /\ some # {}
    BY <1>5
  <2> HIDE DEF some
  <2>q. QED
    BY <2>3, <2>4, MaxIsGreatest
<1>7. m = 0 \/ m \in down
  <2> HIDE DEF m, down
  <2>q. QED
    BY <1>6
<1>8. m \in Nat /\ m <= u /\ Elapsed(c, k0 + m) <= budget
  <2>1. CASE m = 0
    <3>1. k0 + 0 = k0
      BY <1>1
    <3> HIDE DEF m
    <3>q. QED
      BY <1>2, <1>5, <2>1, <3>1
  <2>2. CASE m \in down
    <3> HIDE DEF m
    <3>q. QED
      BY <1>5, <2>2
  <2>q. QED
    BY <1>7, <2>1, <2>2
<1>9. budget < Elapsed(c, (k0 + m) + 1)
  <2>1. CASE m = u
    BY <1>5, <2>1
  <2>2. CASE m < u
    <3>1. m + 1 \in 1..u /\ m + 1 > m
      BY <1>5, <1>8, <2>2
    <3>2. m + 1 \notin some
      <4> HIDE DEF m, some
      <4>q. QED
        BY <1>5, <1>6, <1>8, <3>1
    <3>3. ~ (Elapsed(c, k0 + (m + 1)) <= budget)
      <4> HIDE DEF m
      <4>q. QED
        BY <3>1, <3>2
    <3>4. k0 + (m + 1) = (k0 + m) + 1 /\ k0 + (m + 1) \in Nat
      <4> HIDE DEF m
      <4>q. QED
        BY <1>1, <1>8
    <3>5. Elapsed(c, k0 + (m + 1)) \in Nat
      BY <1>3, <3>4
    <3> HIDE DEF m
    <3>q. QED
      BY <1>1, <3>3, <3>4, <3>5
  <2> HIDE DEF m
  <2>q. QED
    BY <1>5, <1>8, <2>1, <2>2
<1>10. k0 + m \in Nat
  <2> HIDE DEF m
  <2>q. QED
    BY <1>1, <1>8
<1>11. LastToFit(c, budget, k0 + m)
  <2> HIDE DEF m
  <2>q. QED
    BY <1>8, <1>9, <1>10 DEF LastToFit
<1>q. QED
  BY <1>11 DEF m, some, down, u, up, k0

\* The code's answer is the number of steps the budget allows.
LEMMA StepsWithinFits ==
    ASSUME NEW c \in Coeffs, NEW budget \in Nat \ {0}, NEW seed \in Nat
    PROVE  LastToFit(c, budget, StepsWithin(c, budget, seed))
<1>1. c.floor \in Nat /\ CrossingStep(c, budget) \in Nat /\ budget \in Nat
  BY CrossingFacts DEF Coeffs
<1>2. CASE c.beta = 0
  BY <1>2, FitsFlat DEF StepsWithin
<1>3. CASE c.beta # 0 /\ budget <= CrossingStep(c, budget) * c.floor
  BY <1>3, FitsFloor DEF StepsWithin
<1>4. CASE c.beta # 0 /\ ~ (budget <= CrossingStep(c, budget) * c.floor)
  <2>1. CrossingStep(c, budget) * c.floor \in Int
    BY <1>1
  <2>2. CrossingStep(c, budget) * c.floor < budget
    BY <1>1, <1>4, <2>1
  <2>q. QED
    BY <1>4, <2>2, FitsWalk DEF StepsWithin
<1>q. QED
  BY <1>2, <1>3, <1>4

\* That number is the largest one that fits.
LEMMA LargestThatFits ==
    ASSUME NEW c \in Coeffs, NEW budget \in Nat, NEW k, LastToFit(c, budget, k)
    PROVE  k = Max({j \in 0..budget : Elapsed(c, j) <= budget})
<1> DEFINE S == {j \in 0..budget : Elapsed(c, j) <= budget}
<1>1. k \in Nat /\ Elapsed(c, k) <= budget /\ budget < Elapsed(c, k + 1)
  BY DEF LastToFit
<1>2. k \in S
  <2>1. 0 \in Nat /\ 0 <= k /\ k - 0 = k
    BY <1>1
  <2>2. Elapsed(c, 0) \in Nat /\ Elapsed(c, k) >= Elapsed(c, 0) + (k - 0)
    BY <1>1, <2>1, ElapsedGrows
  <2>3. Elapsed(c, k) \in Nat
    BY <1>1, ElapsedStep
  <2>4. k <= budget
    BY <1>1, <2>1, <2>2, <2>3
  <2>q. QED
    BY <1>1, <2>4
<1>3. ASSUME NEW j \in S PROVE j <= k
  <2> SUFFICES ASSUME k + 1 <= j PROVE FALSE
    BY <1>1
  <2>1. j \in Nat /\ k + 1 \in Nat /\ Elapsed(c, j) <= budget
    BY <1>1
  <2>2. Elapsed(c, k + 1) \in Nat /\ Elapsed(c, j) >= Elapsed(c, k + 1) + (j - (k + 1))
    BY <2>1, ElapsedGrows
  <2>3. Elapsed(c, j) \in Nat
    BY <2>1, ElapsedStep
  <2>q. QED
    BY <1>1, <2>1, <2>2, <2>3
<1>4. Max(S) \in S /\ \A y \in S : Max(S) >= y
  <2>1. IsFiniteSet(0..budget)
    <3>1. 0 \in Int /\ budget \in Int
      OBVIOUS
    <3>q. QED
      BY <3>1, FS_Interval
  <2>2. IsFiniteSet(S) /\ (\A x \in S : x \in Int) /\ S # {}
    BY <1>2, <2>1, FS_Subset
  <2> HIDE DEF S
  <2>q. QED
    BY <2>2, MaxIsGreatest
<1>5. (\A x \in S : x \in Int) /\ k \in Int
  BY <1>1
<1> HIDE DEF S
<1>6. k = Max(S)
  <2>1. Max(S) >= k /\ Max(S) <= k /\ Max(S) \in Int
    BY <1>2, <1>3, <1>4, <1>5
  <2>q. QED
    BY <1>5, <2>1
<1>q. QED
  BY <1>6 DEF S

-----------------------------------------------------------------------------
\* Sums

Picked(t) == CHOOSE r \in t : TRUE

\* h adds up f over the subsets of S, the picked member first.
AddsUp(h, f, S) ==
    \A t \in SUBSET S : /\ h[t] \in Nat
                        /\ h[t] = IF t = {} THEN 0 ELSE f[Picked(t)] + h[t \ {Picked(t)}]

LEMMA PickedFacts ==
    ASSUME NEW t, t # {}
    PROVE  Picked(t) \in t
  BY DEF Picked

\* A sum is the last value of a fold.
LEMMA SumFold ==
    ASSUME NEW S, IsFiniteSet(S), NEW f, DOMAIN f = S, \A r \in S : f[r] \in Nat
    PROVE  \E h : AddsUp(h, f, S) /\ FoldFunction(+, 0, f) = h[S]
<1> DEFINE Pick(t) == CHOOSE r \in t : TRUE
           c == [t \in SUBSET S |-> Pick(t)]
           After(g, t) == IF t = {} THEN 0 ELSE f[Pick(t)] + g[t \ {Pick(t)}]
           h == CHOOSE g : g = [t \in SUBSET S |-> After(g, t)]
           F == [x \in Nat \X S |-> f[x[2]] + x[1]]
           Typed(g) == {t \in SUBSET S : g[t] \in Nat}
<1>1. FoldFunction(+, 0, f) = h[S]
  BY DEF FoldFunction, FoldFunctionOnSet, MapThenFoldSet
<1>2. \A t \in SUBSET S : /\ c[t] = Pick(t)
                          /\ t # {} => Pick(t) \in t /\ Pick(t) \in S
                                       /\ t \ {Pick(t)} \in SUBSET S
  OBVIOUS
<1>3. \A n \in Nat, r \in S : F[<<n, r>>] = f[r] + n /\ f[r] + n \in Nat
  OBVIOUS
<1>0. \A t : Pick(t) = Picked(t)
  BY DEF Picked
<1> HIDE DEF c, F, Pick
<1>4. \E g : g = [t \in SUBSET S |-> After(g, t)]
  <2> DEFINE z == 0
  <2>1. z = 0
    OBVIOUS
  <2> HIDE DEF z, After
  <2>2. \A t \in SUBSET S : t # {} => c[t] \in t
    BY <1>2
  <2>3. F \in [Nat \X S -> Nat] /\ z \in Nat
    BY <1>3, <2>1 DEF F
  <2>4. PICK g : g \in [SUBSET S -> Nat] /\ IsChosenFold(g, S, c, z, F)
    BY <2>2, <2>3, ChosenFoldExists
  <2>5. \A t \in SUBSET S : g[t] = IF t = {} THEN z ELSE F[<<g[t \ {c[t]}], c[t]>>]
    BY <2>4 DEF IsChosenFold
  <2>6. \A t \in SUBSET S : g[t] = After(g, t)
    <3> SUFFICES ASSUME NEW t \in SUBSET S PROVE g[t] = After(g, t)
      OBVIOUS
    <3>1. CASE t = {}
      BY <2>1, <2>5, <3>1 DEF After
    <3>2. CASE t # {}
      <4>1. t \ {Pick(t)} \in SUBSET S /\ Pick(t) \in S /\ c[t] = Pick(t)
        BY <1>2, <3>2
      <4>2. g[t \ {Pick(t)}] \in Nat
        BY <2>4, <4>1
      <4>3. g[t] = F[<<g[t \ {Pick(t)}], Pick(t)>>]
        BY <2>5, <3>2, <4>1
      <4>q. QED
        BY <1>3, <3>2, <4>1, <4>2, <4>3 DEF After
    <3>q. QED
      BY <3>1, <3>2
  <2>7. g = [t \in SUBSET S |-> After(g, t)]
    BY <2>4, <2>6
  <2>q. QED
    BY <2>7
<1>5. h = [t \in SUBSET S |-> After(h, t)]
  <2> HIDE DEF After
  <2>q. QED
    BY <1>4
<1>6. \A t \in SUBSET S : h[t] = After(h, t)
  <2> HIDE DEF h, After
  <2>q. QED
    BY <1>5
<1> HIDE DEF h
<1>7. {} \in Typed(h)
  <2>1. {} \in SUBSET S
    OBVIOUS
  <2>2. h[{}] = 0
    BY <1>6, <2>1
  <2>q. QED
    BY <2>1, <2>2
<1>8. ASSUME NEW t \in SUBSET S, t # {}, t \ {c[t]} \in Typed(h)
      PROVE  t \in Typed(h)
  <2>1. h[t \ {Pick(t)}] \in Nat /\ Pick(t) \in S
    BY <1>2, <1>8
  <2>2. h[t] = f[Pick(t)] + h[t \ {Pick(t)}]
    BY <1>6, <1>8
  <2>q. QED
    BY <2>1, <2>2
<1>9. \A t \in SUBSET S : h[t] \in Nat
  <2> DEFINE T == Typed(h)
  <2>1. Grows(T, c, S)
    BY <1>2, <1>7, <1>8 DEF Grows
  <2> HIDE DEF T
  <2>2. \A t \in SUBSET S : t \in T
    BY <2>1, OneByOne
  <2>q. QED
    BY <2>2 DEF T
<1>10. ASSUME NEW t \in SUBSET S
       PROVE  /\ h[t] \in Nat
              /\ h[t] = IF t = {} THEN 0 ELSE f[Picked(t)] + h[t \ {Picked(t)}]
  <2>1. h[t] \in Nat
    BY <1>9
  <2>2. h[t] = IF t = {} THEN 0 ELSE f[Pick(t)] + h[t \ {Pick(t)}]
    BY <1>6
  <2>q. QED
    BY <1>0, <2>1, <2>2
<1>11. AddsUp(h, f, S)
  BY <1>10 DEF AddsUp
<1>q. QED
  BY <1>1, <1>11

\* Any member may come first.
AnyOrder(h, f, S) == \A t \in SUBSET S : \A x \in t : h[t] = f[x] + h[t \ {x}]

\* The picked member does not matter.
LEMMA AnyFirst ==
    ASSUME NEW S, IsFiniteSet(S), NEW f, \A r \in S : f[r] \in Nat, NEW h, AddsUp(h, f, S)
    PROVE  AnyOrder(h, f, S)
<1> DEFINE Bad == {t \in SUBSET S : \E x \in t : h[t] # f[x] + h[t \ {x}]}
<1> SUFFICES ASSUME Bad # {} PROVE FALSE
  BY Zenon DEF AnyOrder
<1>1. PICK t \in Bad : \A u \in Bad : u \subseteq t => u = t
  <2>1. Bad \in SUBSET (SUBSET S)
    OBVIOUS
  <2> HIDE DEF Bad
  <2>q. QED
    BY <2>1, MinimalSet
<1>2. PICK x \in t : h[t] # f[x] + h[t \ {x}]
  BY <1>1
<1> DEFINE p == Picked(t)
<1>3. p \in t /\ t \in SUBSET S
  BY <1>1, <1>2, PickedFacts
<1>4. \A u \in SUBSET S : /\ h[u] \in Nat
                          /\ u # {} => h[u] = f[Picked(u)] + h[u \ {Picked(u)}]
  BY DEF AddsUp
<1> HIDE DEF p
<1>5. h[t] = f[p] + h[t \ {p}]
  BY <1>3, <1>4 DEF p
<1>6. x # p
  BY <1>2, <1>5
<1>7. \A u \in SUBSET S : u \subseteq t /\ u # t => \A y \in u : h[u] = f[y] + h[u \ {y}]
  BY <1>1
<1>8. h[t \ {p}] = f[x] + h[(t \ {p}) \ {x}]
  <2>1. t \ {p} \in SUBSET S /\ t \ {p} \subseteq t /\ t \ {p} # t /\ x \in t \ {p}
    BY <1>3, <1>6
  <2> HIDE DEF Bad
  <2>q. QED
    BY <1>7, <2>1
<1>9. h[t \ {x}] = f[p] + h[(t \ {x}) \ {p}]
  <2>1. t \ {x} \in SUBSET S /\ t \ {x} \subseteq t /\ t \ {x} # t /\ p \in t \ {x}
    BY <1>3, <1>6
  <2> HIDE DEF Bad
  <2>q. QED
    BY <1>7, <2>1
<1>10. (t \ {x}) \ {p} = (t \ {p}) \ {x}
  OBVIOUS
<1> DEFINE a == h[(t \ {p}) \ {x}]
<1>11. a \in Nat /\ f[p] \in Nat /\ f[x] \in Nat
  BY <1>3, <1>4
<1>12. h[t \ {p}] = f[x] + a /\ h[t \ {x}] = f[p] + a
  BY <1>8, <1>9, <1>10
<1> HIDE DEF a, Bad
<1>q. QED
  BY <1>2, <1>5, <1>11, <1>12

\* The sum of f over the members of t.
Part(f, t) == FoldFunction(+, 0, [r \in t |-> f[r]])

\* What sums are made of.
Sums(f, S) ==
    /\ Part(f, {}) = 0
    /\ \A t \in SUBSET S : /\ Part(f, t) \in Nat
                           /\ \A x \in t : Part(f, t) = f[x] + Part(f, t \ {x})

LEMMA PartSums ==
    ASSUME NEW S, IsFiniteSet(S), NEW f, \A r \in S : f[r] \in Nat
    PROVE  Sums(f, S)
<1> DEFINE g == [r \in S |-> f[r]]
<1>1. DOMAIN g = S /\ \A r \in S : g[r] \in Nat /\ g[r] = f[r]
  OBVIOUS
<1> HIDE DEF g
<1>2. PICK H : AddsUp(H, g, S)
  BY <1>1, SumFold
<1>a. \A t \in SUBSET S : t # {} => H[t] = g[Picked(t)] + H[t \ {Picked(t)}]
  BY <1>2 DEF AddsUp
<1>3. ASSUME NEW t \in SUBSET S PROVE Part(f, t) = H[t]
  <2> DEFINE e == [r \in t |-> f[r]]
  <2>1. IsFiniteSet(t) /\ DOMAIN e = t /\ \A r \in t : e[r] \in Nat /\ e[r] = g[r]
    BY <1>1, FS_Subset
  <2>2. Part(f, t) = FoldFunction(+, 0, e)
    BY DEF Part
  <2> HIDE DEF e
  <2>3. PICK h : AddsUp(h, e, t) /\ FoldFunction(+, 0, e) = h[t]
    BY <2>1, SumFold
  <2> DEFINE c == [u \in SUBSET t |-> Picked(u)]
             Same == {u \in SUBSET t : h[u] = H[u]}
  <2>4. \A u \in SUBSET t : c[u] = Picked(u) /\ (u # {} => c[u] \in u)
    BY PickedFacts
  <2> HIDE DEF c
  <2>5. {} \in Same
    <3>1. {} \in SUBSET t /\ {} \in SUBSET S
      OBVIOUS
    <3>q. QED
      BY <1>2, <2>3, <3>1 DEF AddsUp
  <2>6. ASSUME NEW u \in SUBSET t, u # {}, u \ {c[u]} \in Same
        PROVE  u \in Same
    <3>1. c[u] \in u /\ u \in SUBSET S /\ c[u] \in t /\ h[u \ {c[u]}] = H[u \ {c[u]}]
      BY <2>4, <2>6
    <3>2. h[u] = e[c[u]] + h[u \ {c[u]}]
      BY <2>3, <2>4, <2>6 DEF AddsUp
    <3>3. H[u] = g[c[u]] + H[u \ {c[u]}]
      BY <1>a, <2>4, <2>6, <3>1
    <3>4. e[c[u]] = g[c[u]]
      BY <2>1, <3>1
    <3>q. QED
      BY <3>1, <3>2, <3>3, <3>4
  <2>9. \A u \in SUBSET t : u \in Same
    <3> HIDE DEF Same
    <3>1. Grows(Same, c, t)
      BY <2>4, <2>5, <2>6 DEF Grows
    <3>q. QED
      BY <2>1, <3>1, OneByOne
  <2>10. h[t] = H[t]
    BY <2>9
  <2>q. QED
    BY <2>2, <2>3, <2>10
<1>4. \A t \in SUBSET S : \A x \in t : H[t] = g[x] + H[t \ {x}]
  <2>1. \A r \in S : g[r] \in Nat
    BY <1>1
  <2>2. AnyOrder(H, g, S)
    BY <1>2, <2>1, AnyFirst
  <2>q. QED
    BY <2>2, Zenon DEF AnyOrder
<1>5. {} \in SUBSET S
  OBVIOUS
<1>6. Part(f, {}) = 0
  <2>1. H[{}] = 0
    BY <1>2, <1>5 DEF AddsUp
  <2>q. QED
    BY <1>3, <1>5, <2>1
<1>7. ASSUME NEW t \in SUBSET S
      PROVE  /\ Part(f, t) \in Nat
             /\ \A x \in t : Part(f, t) = f[x] + Part(f, t \ {x})
  <2>1. Part(f, t) = H[t] /\ H[t] \in Nat
    BY <1>2, <1>3 DEF AddsUp
  <2>2. ASSUME NEW x \in t PROVE Part(f, t) = f[x] + Part(f, t \ {x})
    <3>1. t \ {x} \in SUBSET S /\ g[x] = f[x]
      BY <1>1
    <3>2. Part(f, t \ {x}) = H[t \ {x}]
      BY <1>3, <3>1
    <3>q. QED
      BY <1>4, <2>1, <3>1, <3>2
  <2>q. QED
    BY <2>1, <2>2
<1>q. QED
  BY <1>6, <1>7 DEF Sums

\* The greater the summands, the greater the sum.
LEMMA PartAtMost ==
    ASSUME NEW S, IsFiniteSet(S), NEW f, NEW e, \A r \in S : f[r] \in Nat,
           \A r \in S : e[r] \in Nat, \A r \in S : f[r] <= e[r]
    PROVE  Part(f, S) <= Part(e, S)
<1> DEFINE F == {t \in SUBSET S : Part(f, t) <= Part(e, t)}
<1>1. Sums(f, S) /\ Sums(e, S)
  BY PartSums
<1>2. {} \in F
  BY <1>1 DEF Sums
<1>3. ASSUME NEW t \in SUBSET S, NEW x \in t, t \ {x} \in F
      PROVE  t \in F
  <2> DEFINE a == Part(f, t \ {x})
             b == Part(e, t \ {x})
  <2>1. a \in Nat /\ b \in Nat /\ a <= b
    BY <1>1, <1>3 DEF Sums
  <2>2. Part(f, t) = f[x] + a /\ Part(e, t) = e[x] + b
    BY <1>1 DEF Sums
  <2>3. f[x] \in Nat /\ e[x] \in Nat /\ f[x] <= e[x]
    OBVIOUS
  <2> HIDE DEF a, b
  <2>4. f[x] + a <= e[x] + b
    BY <2>1, <2>3
  <2>q. QED
    BY <2>2, <2>4
<1>4. S \in F
  <2> HIDE DEF F
  <2>q. QED
    BY <1>2, <1>3, MemberByMember
<1>q. QED
  BY <1>4

-----------------------------------------------------------------------------
\* The steps of a segment, one by one

\* The closed form is the sum of the steps.
LEMMA ElapsedSums ==
    ASSUME NEW c \in Coeffs, NEW k \in Nat
    PROVE  Elapsed(c, k) = FoldFunction(+, 0, [i \in 0..(k - 1) |-> StepCost(c, i)])
<1> DEFINE f == [i \in Nat |-> StepCost(c, i)]
           T == {m \in Nat : Elapsed(c, m) = Part(f, 0..(m - 1))}
<1>1. \A i \in Nat : f[i] = StepCost(c, i) /\ f[i] \in Nat
  BY StepCostFacts
<1> HIDE DEF f
<1>2. ASSUME NEW m \in Nat PROVE IsFiniteSet(0..m) /\ Sums(f, 0..m)
  <2> DEFINE S == 0..m
  <2>1. IsFiniteSet(S)
    <3>1. 0 \in Int /\ m \in Int
      OBVIOUS
    <3>q. QED
      BY <3>1, FS_Interval
  <2>2. \A r \in S : f[r] \in Nat
    BY <1>1
  <2> HIDE DEF S
  <2>3. Sums(f, S)
    BY <2>1, <2>2, PartSums
  <2>q. QED
    BY <2>1, <2>3 DEF S
<1>3. 0 \in T
  <2>1. 0..(0 - 1) = {}
    OBVIOUS
  <2>2. Part(f, {}) = 0
    BY <1>2 DEF Sums
  <2>3. Elapsed(c, 0) = 0 * c.floor /\ c.floor \in Nat
    <3>1. 0 <= CrossingStep(c, 0)
      BY CrossingFacts
    <3>q. QED
      BY <3>1, ElapsedFloor DEF Coeffs
  <2>q. QED
    BY <2>1, <2>2, <2>3
<1>4. ASSUME NEW m \in Nat, m \in T PROVE m + 1 \in T
  <2> DEFINE S == 0..m
             R == 0..(m - 1)
  <2>1. S \in SUBSET S /\ m \in S /\ S \ {m} = R /\ 0..((m + 1) - 1) = S
    OBVIOUS
  <2>2. Sums(f, S)
    BY <1>2
  <2>3. Elapsed(c, m) = Part(f, R)
    BY <1>4
  <2> HIDE DEF S, R
  <2>4. Part(f, S) = f[m] + Part(f, R)
    BY <2>1, <2>2 DEF Sums
  <2>5. Elapsed(c, m + 1) = Elapsed(c, m) + StepCost(c, m) /\ Elapsed(c, m) \in Nat
    BY ElapsedStep
  <2>6. Elapsed(c, m + 1) = Part(f, S)
    BY <1>1, <2>3, <2>4, <2>5
  <2>q. QED
    BY <2>1, <2>6
<1>5. Nat \subseteq T
  <2> HIDE DEF T
  <2>q. QED
    BY <1>3, <1>4, NatSetInduction
<1>6. [i \in 0..(k - 1) |-> StepCost(c, i)] = [i \in 0..(k - 1) |-> f[i]]
  BY <1>1
<1>q. QED
  BY <1>5, <1>6 DEF Part

Rooflines == [F : Positive, W : Nat, G : Nat, Ap : Nat, Ad : Nat, b : Positive]
PsrlModels == {m \in [prefill : PsrlPhase, decode : PsrlPhase] :
                 m.decode.attn_b + m.decode.floor + m.decode.other_b > 0}

\* One step of a roofline, and the terms of a segment of such steps.
LEMMA RooflineStep ==
    ASSUME NEW m \in Rooflines, NEW n \in Nat, NEW ctx \in Nat, NEW i \in Nat
    PROVE  /\ RooflineSegment(m, n, ctx) \in Coeffs
           /\ RooflinePredict(m, Step(n, 0, ctx + i * n, n)) =
                StepCost(RooflineSegment(m, n, ctx), i)
<1> DEFINE w == Step(n, 0, ctx + i * n, n)
           c == RooflineSegment(m, n, ctx)
<1>1. /\ m.F \in Nat /\ m.F > 0 /\ m.W \in Nat /\ m.G \in Nat /\ m.Ad \in Nat
  BY DEF Rooflines, Positive
<1>2. m.G * n \in Nat /\ m.Ad * ctx \in Nat /\ m.Ad * n \in Nat /\ i * n \in Nat
  BY <1>1
<1>3. c = [floor |-> m.F, alpha |-> m.W + m.G * n + m.Ad * ctx, beta |-> m.Ad * n]
  BY DEF RooflineSegment
<1>4. c \in Coeffs
  <2>1. m.W + m.G * n + m.Ad * ctx \in Nat
    BY <1>1, <1>2
  <2>q. QED
    BY <1>1, <1>2, <1>3, <2>1 DEF Coeffs
<1>5. w.tokens = n /\ w.l2 = 0 /\ w.ctx = ctx + i * n /\ PhaseOf(w) = "decode"
  BY DEF Step, PhaseOf
<1> HIDE DEF w
<1>6. Raw(m, w) = m.W + m.G * n + 0 + m.Ad * (ctx + i * n)
  BY <1>5 DEF Raw
<1>7. m.Ad * (ctx + i * n) = m.Ad * ctx + (m.Ad * n) * i
  BY <1>1
<1>8. Raw(m, w) = c.alpha + c.beta * i
  BY <1>1, <1>2, <1>3, <1>6, <1>7
<1> HIDE DEF c
<1>9. RooflinePredict(m, w) = StepCost(c, i)
  <2>1. c.floor = m.F
    BY <1>3
  <2>q. QED
    BY <1>8, <2>1 DEF RooflinePredict, StepCost
<1>q. QED
  BY <1>4, <1>9 DEF w, c

\* One step of the PSRL model: a segment of them has no floor of its own.
LEMMA PsrlStep ==
    ASSUME NEW m \in PsrlModels, NEW n \in Nat, NEW ctx \in Nat, NEW i \in Nat
    PROVE  /\ PsrlSegment(m, n, ctx) \in Coeffs
           /\ PsrlPredict(m, Step(n, 0, ctx + i * n, n)) =
                StepCost(PsrlSegment(m, n, ctx), i)
<1> DEFINE w == Step(n, 0, ctx + i * n, n)
           c == PsrlSegment(m, n, ctx)
           d == m.decode
           other == OtherTime(d, n)
<1>1. /\ d.attn_b \in Nat /\ d.attn_k \in Nat /\ d.floor \in Nat
      /\ d.other_b \in Nat /\ d.other_k \in Nat
      /\ d.attn_b + d.floor + d.other_b > 0
  BY DEF PsrlModels, PsrlPhase
<1> HIDE DEF d
<1>2. other \in Nat /\ other >= d.floor /\ other >= d.other_b
  <2> DEFINE f == d.floor
             x == d.other_b + d.other_k * n
  <2>1. d.other_k * n \in Nat
    BY <1>1
  <2>2. f \in Nat /\ x \in Nat /\ x >= d.other_b
    BY <1>1, <2>1
  <2>3. other = Max({f, x})
    BY DEF OtherTime
  <2> HIDE DEF f, x
  <2>4. Max({f, x}) \in {f, x} /\ Max({f, x}) >= f /\ Max({f, x}) >= x
    BY <2>2, MaxOfTwo
  <2>5. /\ Max({f, x}) \in Nat /\ Max({f, x}) >= f
        /\ Max({f, x}) >= d.other_b
    BY <1>1, <2>2, <2>4
  <2>q. QED
    BY <2>3, <2>5 DEF f
<1>3. c = [floor |-> 0, alpha |-> (d.attn_b + d.attn_k * ctx) + other,
           beta |-> d.attn_k * n]
  BY DEF PsrlSegment, Attention, d
<1> HIDE DEF other
<1>4. d.attn_k * ctx \in Nat /\ d.attn_k * n \in Nat
  BY <1>1
<1>5. c \in Coeffs
  <2>1. (d.attn_b + d.attn_k * ctx) + other \in Nat
    BY <1>1, <1>2, <1>4
  <2>2. (d.attn_b + d.attn_k * ctx) + other > 0
    BY <1>1, <1>2, <1>4
  <2>q. QED
    BY <1>3, <1>4, <2>1, <2>2 DEF Coeffs
<1>6. /\ w.requests = n /\ w.ctx = ctx + i * n /\ PhaseOf(w) = "decode"
  BY DEF Step, PhaseOf
<1> HIDE DEF w
<1>7. PsrlPredict(m, w) = (d.attn_b + d.attn_k * (ctx + i * n)) + other
  BY <1>6 DEF PsrlPredict, Attention, d, other
<1>8. d.attn_k * (ctx + i * n) = d.attn_k * ctx + (d.attn_k * n) * i
  BY <1>1
<1>9. PsrlPredict(m, w) = c.alpha + c.beta * i
  <2>1. (d.attn_k * n) * i \in Nat
    BY <1>4
  <2>q. QED
    BY <1>1, <1>2, <1>3, <1>4, <1>7, <1>8, <2>1
<1>10. StepCost(c, i) = c.alpha + c.beta * i
  <2>1. c.floor = 0
    BY <1>3
  <2> HIDE DEF c
  <2>2. c.alpha + c.beta * i \in Nat
    BY <1>5, StepCostFacts
  <2>3. c.alpha + c.beta * i >= c.floor
    BY <2>1, <2>2
  <2>q. QED
    BY <1>5, <2>3, StepCostFacts
<1>q. QED
  BY <1>5, <1>9, <1>10 DEF w, c

\* A loaded rollout model.
RolloutModel(model) ==
    \/ model.type = "roofline" /\ model.coefficients \in Rooflines
    \/ model.type = "psrl" /\ model.coefficients \in PsrlModels
    \/ model.type = "distserve" /\ DistServeTerms(model.coefficients) \in Rooflines

\* In all three families the terms of a segment give each of its steps.
LEMMA DecodeStep ==
    ASSUME NEW model, RolloutModel(model), NEW n \in Nat, NEW ctx \in Nat, NEW i \in Nat
    PROVE  /\ DecodeCoeffs(model, n, ctx) \in Coeffs
           /\ Predict(model, Step(n, 0, ctx + i * n, n)) =
                StepCost(DecodeCoeffs(model, n, ctx), i)
<1>1. CASE model.type = "roofline" /\ model.coefficients \in Rooflines
  BY <1>1, RooflineStep DEF DecodeCoeffs, Predict
<1>2. CASE model.type = "psrl" /\ model.coefficients \in PsrlModels
  BY <1>2, PsrlStep DEF DecodeCoeffs, Predict
<1>3. CASE model.type = "distserve" /\ DistServeTerms(model.coefficients) \in Rooflines
  BY <1>3, RooflineStep DEF DecodeCoeffs, Predict
<1>q. QED
  BY <1>1, <1>2, <1>3 DEF RolloutModel

LEMMA ExactQuotient ==
    ASSUME NEW x \in Nat, NEW d \in Nat \ {0}, x % d = 0
    PROVE  x \div d \in Nat /\ (x \div d) * d = x
<1> DEFINE q == x \div d
           r == x % d
<1>1. q \in Int /\ x = d * q + r
  OBVIOUS
<1>2. q \in Nat /\ r = 0
  BY PositiveQuotient
<1> HIDE DEF q, r
<1>3. q * d = x
  BY <1>1, <1>2
<1>q. QED
  BY <1>2, <1>3 DEF q

\* The DistServe constants stand for the roofline they come from: C3 and C4
\* share out W, and the other divisions are exact.
LEMMA DistServeStandsFor ==
    ASSUME NEW m \in Rooflines, Exact(m), NEW h, NEW i,
           h = Hidden, i = Intermediate, h \in Positive, i \in Positive
    PROVE  DistServeTerms(DistServeConstants(m, h, i)) = m
<1> DEFINE g == Gemm(h, i)
           norm == 1 + g * g
           e == 3 * h
           c == DistServeConstants(m, h, i)
<1>1. /\ m.F \in Nat /\ m.W \in Nat /\ m.G \in Nat /\ m.Ap \in Nat /\ m.Ad \in Nat
      /\ m = [F |-> m.F, W |-> m.W, G |-> m.G, Ap |-> m.Ap, Ad |-> m.Ad, b |-> m.b]
  BY DEF Rooflines, Positive
<1>2. g \in Nat /\ g > 0 /\ e \in Nat /\ e > 0
  <2>1. h \in Nat /\ i \in Nat /\ h > 0 /\ i > 0
    BY DEF Positive
  <2>2. h * h \in Nat /\ h * h > 0 /\ h * i \in Nat /\ h * i > 0
    <3>1. h * 1 <= h * h /\ h * 1 <= h * i /\ h * h \in Nat /\ h * i \in Nat
      BY <2>1, ProductGrows
    <3>q. QED
      BY <2>1, <3>1
  <2>3. g = 4 * (h * h) + 2 * (h * i)
    BY <2>1 DEF Gemm
  <2>q. QED
    BY <2>1, <2>2, <2>3
<1>3. norm \in Nat /\ norm > 0
  BY <1>2
<1>4. m.G % g = 0 /\ m.W % norm = 0 /\ m.Ap % e = 0 /\ m.Ad % e = 0
  BY DEF Exact
<1>5. c = [h |-> h, m |-> i, C1 |-> m.G \div g, C2 |-> m.Ap \div e,
           C3 |-> m.W \div norm, C4 |-> (m.W * g) \div norm,
           C5 |-> m.Ad \div e, b |-> m.b, F |-> m.F]
  BY DEF DistServeConstants
<1>6. DistServeTerms(c) = [F |-> c.F, W |-> c.C3 + c.C4 * g, G |-> c.C1 * g,
                           Ap |-> c.C2 * 3 * h, Ad |-> c.C5 * 3 * h, b |-> c.b]
  BY <1>5 DEF DistServeTerms
<1>7. \A x \in Nat, d \in Nat \ {0} :
         x % d = 0 => x \div d \in Nat /\ (x \div d) * d = x
  BY ExactQuotient
<1>8. c.C1 * g = m.G
  <2> HIDE DEF g
  <2>q. QED
    BY <1>1, <1>2, <1>4, <1>5, <1>7
<1>9. c.C2 * 3 * h = m.Ap /\ c.C5 * 3 * h = m.Ad
  <2>1. c.C2 * e = m.Ap /\ c.C5 * e = m.Ad /\ c.C2 \in Nat /\ c.C5 \in Nat
    <3> HIDE DEF e
    <3>q. QED
      BY <1>1, <1>2, <1>4, <1>5, <1>7
  <2>2. h \in Nat
    BY DEF Positive
  <2> DEFINE x == c.C2
             y == c.C5
  <2>3. x \in Nat /\ y \in Nat /\ x * (3 * h) = m.Ap /\ y * (3 * h) = m.Ad
    BY <2>1
  <2> HIDE DEF x, y
  <2>4. x * 3 * h = m.Ap /\ y * 3 * h = m.Ad
    BY <2>2, <2>3
  <2>q. QED
    BY <2>4 DEF x, y
<1>10. c.C3 + c.C4 * g = m.W
  <2> DEFINE v == m.W \div norm
  <2>1. v \in Nat /\ v * norm = m.W
    BY <1>1, <1>3, <1>4, <1>7
  <2>2. c.C3 = v /\ c.C4 = (m.W * g) \div norm
    BY <1>5
  <2> HIDE DEF v, g
  <2>3. m.W * g = (v * g) * norm /\ v * g \in Nat
    BY <1>2, <2>1
  <2>4. ((v * g) * norm) \div norm = v * g
    <3> DEFINE a == v * g
               n == norm
    <3>1. a \in Nat /\ n \in Nat /\ n > 0
      BY <1>3, <2>3
    <3> HIDE DEF a, n
    <3>2. (a * n) \div n = a
      BY <3>1
    <3>q. QED
      BY <3>2 DEF a, n
  <2>5. c.C3 + c.C4 * g = v + (v * g) * g
    BY <2>2, <2>3, <2>4
  <2>6. v + (v * g) * g = v * norm
    BY <1>2, <2>1
  <2>q. QED
    BY <2>1, <2>5, <2>6
<1>11. c.F = m.F /\ c.b = m.b
  BY <1>5
<1>q. QED
  BY <1>1, <1>6, <1>8, <1>9, <1>10, <1>11

-----------------------------------------------------------------------------
\* The records of an artifact

\* The records of a profile that are of one kind.
OfKind(file, kind) == {r \in ToSet(file) : r.kind = kind}

\* What is read are records of the file, and of the asked kind.
LEMMA ReadRecordsType ==
    ASSUME NEW file, file \in Seq(ToSet(file)), NEW kind
    PROVE  ReadRecords(file, kind) \in Seq(OfKind(file, kind))
<1> DEFINE n == Len(file)
           D == 1..n
           U == Seq(OfKind(file, kind))
           Op(kept, k) == IF file[k].kind = kind THEN Append(kept, file[k]) ELSE kept
           After(g, t) == IF t = {} THEN <<>> ELSE Op(g[t \ {Max(t)}], Max(t))
           h == CHOOSE g : g = [t \in SUBSET D |-> After(g, t)]
           F == [x \in U \X D |-> Op(x[1], x[2])]
<1>1. n \in Nat /\ DOMAIN file = D /\ IsFiniteSet(D) /\ \A k \in D : k \in Int
  <2>1. n \in Nat /\ DOMAIN file = D
    OBVIOUS
  <2>2. 1 \in Int /\ n \in Int
    BY <2>1
  <2>3. IsFiniteSet(D)
    BY <2>2, FS_Interval
  <2>4. \A k \in D : k \in Int
    BY <2>1
  <2>q. QED
    BY <2>1, <2>3, <2>4
<1>2. ReadRecords(file, kind) = h[D]
  <2>1. ReadRecords(file, kind) =
           (CHOOSE g : g = [t \in SUBSET (DOMAIN file) |-> After(g, t)])[DOMAIN file]
    BY DEF ReadRecords, FoldLeft, MapThenFoldSet
  <2>q. QED
    BY <1>1, <2>1
<1>3. \A k \in D : file[k].kind = kind => file[k] \in OfKind(file, kind)
  BY <1>1 DEF OfKind, ToSet
<1>4. \A u \in U, k \in D : F[<<u, k>>] = Op(u, k) /\ Op(u, k) \in U
  BY <1>3
<1>5. \A t \in SUBSET D : t # {} => /\ Max(t) \in t /\ Max(t) \in D
                                    /\ t \ {Max(t)} \in SUBSET D
  <2> SUFFICES ASSUME NEW t \in SUBSET D, t # {} PROVE Max(t) \in t
    OBVIOUS
  <2>1. \A x \in t : x \in Int
    BY <1>1
  <2>2. IsFiniteSet(t)
    <3> HIDE DEF D
    <3>q. QED
      BY <1>1, FS_Subset
  <2>q. QED
    BY <2>1, <2>2, MaxIsGreatest
<1> DEFINE z == <<>>
           Typed == {t \in SUBSET D : h[t] \in U}
<1>7. z \in U /\ z = <<>> /\ {} \in SUBSET D /\ F \in [U \X D -> U]
  <2> HIDE DEF U, Op, D
  <2>1. F \in [U \X D -> U]
    BY <1>4
  <2> USE DEF U
  <2>q. QED
    BY <2>1
<1> HIDE DEF z, F, U, Op
<1>8. \E g : g = [t \in SUBSET D |-> After(g, t)]
  <2> HIDE DEF D, After
  <2>1. PICK g : g \in [SUBSET D -> U] /\ IsFold(g, D, z, F)
    BY <1>1, <1>7, FoldExists
  <2>2. \A t \in SUBSET D : g[t] = IF t = {} THEN z ELSE F[<<g[t \ {Max(t)}], Max(t)>>]
    BY <2>1 DEF IsFold
  <2>6. \A t \in SUBSET D : g[t] = After(g, t)
    <3> SUFFICES ASSUME NEW t \in SUBSET D PROVE g[t] = After(g, t)
      OBVIOUS
    <3>1. CASE t = {}
      BY <1>7, <2>2, <3>1 DEF After
    <3>2. CASE t # {}
      <4>1. /\ t \ {Max(t)} \in SUBSET D /\ Max(t) \in D /\ g[t \ {Max(t)}] \in U
            /\ g[t] = F[<<g[t \ {Max(t)}], Max(t)>>]
        BY <1>5, <2>1, <2>2, <3>2
      <4>q. QED
        BY <1>4, <3>2, <4>1 DEF After
    <3>q. QED
      BY <3>1, <3>2
  <2>7. g = [t \in SUBSET D |-> After(g, t)]
    BY <2>1, <2>6
  <2>q. QED
    BY <2>7
<1>9. h = [t \in SUBSET D |-> After(h, t)]
  <2> HIDE DEF D, After
  <2>q. QED
    BY <1>8
<1>10. \A t \in SUBSET D : h[t] = After(h, t)
  <2> HIDE DEF h, After
  <2>q. QED
    BY <1>9
<1> HIDE DEF h
<1>11. {} \in Typed
  BY <1>7, <1>10
<1>12. ASSUME NEW t \in SUBSET D, t # {}, t \ {Max(t)} \in Typed
       PROVE  t \in Typed
  <2>1. Max(t) \in D /\ h[t \ {Max(t)}] \in U
    BY <1>5, <1>12
  <2>2. h[t] = Op(h[t \ {Max(t)}], Max(t))
    BY <1>10, <1>12
  <2>q. QED
    BY <1>4, <2>1, <2>2
<1>13. D \in Typed
  <2> DEFINE c == [t \in SUBSET D |-> Max(t)]
  <2> HIDE DEF D, Typed
  <2>1. Grows(Typed, c, D)
    BY <1>5, <1>11, <1>12 DEF Grows
  <2> HIDE DEF c
  <2>2. \A t \in SUBSET D : t \in Typed
    BY <1>1, <2>1, OneByOne
  <2>q. QED
    BY <2>2
<1>14. h[D] \in U
  BY <1>13
<1>q. QED
  BY <1>2, <1>14 DEF U

\* A finite set as a sequence: every member, once.
LEMMA SetToSeqFacts ==
    ASSUME NEW S, IsFiniteSet(S)
    PROVE  /\ SetToSeq(S) \in Seq(S) /\ Len(SetToSeq(S)) = Cardinality(S)
           /\ \A k, l \in DOMAIN SetToSeq(S) : SetToSeq(S)[k] = SetToSeq(S)[l] => k = l
           /\ \A x \in S : \E k \in DOMAIN SetToSeq(S) : SetToSeq(S)[k] = x
<1> DEFINE n == Cardinality(S)
           D == 1..n
           f == SetToSeq(S)
<1>1. n \in Nat /\ \E b : ExistsBijection(D, S) /\ b = n
  BY FS_CardinalityType
<1>2. PICK g : g \in Bijection(D, S)
  BY <1>1 DEF ExistsBijection
<1>3. g \in [D -> S] /\ IsInjective(g)
  BY <1>2 DEF Bijection, Injection, IsInjective
<1>4. f \in [D -> S] /\ IsInjective(f)
  <2> HIDE DEF D
  <2>1. \E e \in [D -> S] : IsInjective(e)
    BY <1>3
  <2>2. f = CHOOSE e \in [D -> S] : IsInjective(e)
    BY DEF SetToSeq, D
  <2> HIDE DEF f
  <2>q. QED
    BY <2>1, <2>2
<1> HIDE DEF f
<1>5. f \in Seq(S) /\ Len(f) = n /\ DOMAIN f = D
  BY <1>1, <1>4
<1>6. \A k, l \in DOMAIN f : f[k] = f[l] => k = l
  BY <1>4 DEF IsInjective
<1>7. IsFiniteSet(D) /\ Cardinality(D) = n
  <2>1. 1 \in Int /\ n \in Int
    BY <1>1
  <2>2. IsFiniteSet(D) /\ Cardinality(D) = IF 1 > n THEN 0 ELSE n - 1 + 1
    BY <2>1, FS_Interval
  <2>q. QED
    BY <1>1, <2>2
<1>8. \A x \in S : \E k \in DOMAIN f : f[k] = x
  <2>1. f \in Injection(D, S)
    BY <1>4 DEF Injection, IsInjective
  <2> HIDE DEF D, n
  <2>2. f \in Surjection(D, S)
    BY <1>7, <2>1, FS_Injection DEF n
  <2>q. QED
    BY <1>5, <2>2 DEF Surjection
<1>q. QED
  BY <1>5, <1>6, <1>8 DEF f

-----------------------------------------------------------------------------
\* Holding out whole launches

\* No launch is in both parts, or none could be held out.
SoundSplit(part, S, launch, asked) ==
    /\ part.train \subseteq S /\ part.validation \subseteq S
    /\ \/ /\ part.train = part.validation
          /\ NoneToHoldOut({launch[a] : a \in part.train}, asked)
       \/ /\ part.train # {} /\ part.validation # {}
          /\ \A a \in part.train, b \in part.validation : launch[a] # launch[b]

\* Rounding adds at most a half.
LEMMA RoundedIsNear ==
    ASSUME NEW n \in Nat, NEW d \in Nat \ {0}
    PROVE  /\ RoundHalfEven(n, d) \in Nat
           /\ 2 * (d * RoundHalfEven(n, d)) <= 2 * n + d
<1> DEFINE q == n \div d
           r == n % d
<1>1. q \in Nat /\ r \in 0..(d - 1) /\ n = d * q + r
  BY PositiveQuotient
<1>2. RoundHalfEven(n, d) = IF 2 * r > d \/ (2 * r = d /\ q % 2 = 1) THEN q + 1 ELSE q
  BY DEF RoundHalfEven
<1> HIDE DEF q, r
<1>3. d * q \in Nat /\ d * (q + 1) = d * q + d
  BY <1>1
<1>4. CASE RoundHalfEven(n, d) = q
  BY <1>1, <1>3, <1>4
<1>5. CASE RoundHalfEven(n, d) = q + 1 /\ 2 * r >= d
  BY <1>1, <1>3, <1>5
<1>q. QED
  BY <1>1, <1>2, <1>4, <1>5

\* The first launch is always held out, and the last one only when the share
\* rounds to them all.
LEMMA SplitIsSound ==
    ASSUME NEW S, IsFiniteSet(S), NEW launch, \A i \in S : launch[i] \in Nat,
           NEW asked, asked.num \in Nat, asked.den \in Nat \ {0}
    PROVE  SoundSplit(SplitByRun(S, launch, asked.num, asked.den), S, launch, asked)
<1> DEFINE f == [i \in S |-> launch[i]]
           num == asked.num
           den == asked.den
           ids == {launch[i] : i \in S}
           n == Cardinality(ids)
           rounded == RoundHalfEven(n * num, den)
           count == Max({1, rounded})
           heldOut == {u \in ids : Cardinality({v \in ids : v <= u}) <= count}
           train == {i \in S : launch[i] \notin heldOut}
           split == SplitByRun(S, launch, num, den)
<1>1. split = IF num = 0 \/ n < 2 \/ train = {}
              THEN [train |-> S, validation |-> S]
              ELSE [train |-> train, validation |-> S \ train]
  BY DEF SplitByRun
<1>2. IsFiniteSet(ids) /\ \A u \in ids : u \in Int
  <2>1. DOMAIN f = S /\ ids = {f[i] : i \in S}
    OBVIOUS
  <2> HIDE DEF f
  <2>2. IsFiniteSet({f[i] : i \in S})
    BY <2>1, FiniteImage
  <2>3. \A u \in ids : u \in Int
    OBVIOUS
  <2> HIDE DEF ids
  <2>q. QED
    BY <2>1, <2>2, <2>3
<1>3. /\ n \in Nat /\ n * num \in Nat /\ rounded \in Nat
      /\ count \in {1, rounded} /\ count >= 1
      /\ 2 * (den * rounded) <= 2 * (n * num) + den
  <2> HIDE DEF ids
  <2>1. n \in Nat
    BY <1>2, FS_CardinalityType
  <2> HIDE DEF n
  <2>2. n * num \in Nat
    BY <2>1
  <2>3. rounded \in Nat /\ 2 * (den * rounded) <= 2 * (n * num) + den
    BY <2>2, RoundedIsNear
  <2> HIDE DEF rounded
  <2>4. 1 \in Int /\ rounded \in Int
    BY <2>3
  <2>5. count \in {1, rounded} /\ count >= 1
    BY <2>4, MaxOfTwo
  <2>q. QED
    BY <2>1, <2>2, <2>3, <2>5
<1>4. CASE num = 0 \/ n < 2 \/ train = {}
  <2>1. split.train = S /\ split.validation = S
    <3> HIDE DEF split, n, train
    <3>q. QED
      BY <1>1, <1>4
  <2>2. ASSUME n >= 2, train = {} PROVE 2 * n * (den - num) <= den
    <3>1. ids # {} /\ \A u \in ids : u \in heldOut
      <4>1. \A i \in S : launch[i] \in heldOut
        BY <2>2
      <4>2. \A u \in ids : u \in heldOut
        BY <4>1
      <4> HIDE DEF ids, train, heldOut
      <4>q. QED
        BY <2>2, <4>2, FS_EmptySet
    <3> HIDE DEF ids, count, split, train
    <3>2. PICK last \in ids : \A v \in ids : v <= last
      BY <1>2, <3>1, MaxIsGreatest
    <3>3. {v \in ids : v <= last} = ids
      BY <3>2
    <3>4. n <= count
      BY <3>1, <3>2, <3>3
    <3> HIDE DEF n, rounded, heldOut
    <3>5. n <= rounded
      BY <1>3, <2>2, <3>4
    <3>6. den * n <= den * rounded /\ den * n \in Nat /\ den * rounded \in Nat
      BY <1>3, <3>5, ProductGrows
    <3>7. 2 * n * (den - num) = 2 * (den * n) - 2 * (n * num)
      BY <1>3
    <3>q. QED
      BY <1>3, <3>6, <3>7
  <2>3. NoneToHoldOut(ids, asked)
    <3> HIDE DEF ids, train
    <3>q. QED
      BY <1>3, <1>4, <2>2 DEF NoneToHoldOut
  <2> HIDE DEF split
  <2>q. QED
    BY <2>1, <2>3 DEF SoundSplit, split
<1>5. CASE ~ (num = 0 \/ n < 2 \/ train = {})
  <2>1. split.train = train /\ split.validation = S \ train
    BY <1>1, <1>5
  <2>2. train # {} /\ train \subseteq S
    BY <1>5
  <2>3. ids # {}
    BY <2>2
  <2>4. PICK first \in ids : \A v \in ids : first <= v
    <3> HIDE DEF ids
    <3>q. QED
      BY <1>2, <2>3, MinIsLeast
  <2>5. {v \in ids : v <= first} = {first}
    BY <1>2, <2>4
  <2>6. Cardinality({first}) = 1
    BY FS_Singleton
  <2> HIDE DEF count
  <2>7. first \in heldOut
    BY <1>3, <2>4, <2>5, <2>6
  <2>8. PICK i \in S : launch[i] = first
    BY <2>4
  <2>9. i \in S \ train
    BY <2>7, <2>8
  <2>10. \A a \in train, b \in S \ train : launch[a] # launch[b]
    OBVIOUS
  <2> HIDE DEF split, train
  <2>q. QED
    BY <2>1, <2>2, <2>9, <2>10 DEF SoundSplit, split
<1>q. QED
  BY <1>4, <1>5

-----------------------------------------------------------------------------
\* What an artifact is

Collected == UNION {ToSet(p) : p \in Profiles}

\* The positions of a sequence.
LEMMA Positions ==
    ASSUME NEW S, NEW s \in Seq(S)
    PROVE  /\ Len(s) \in Nat /\ DOMAIN s = 1..Len(s) /\ IsFiniteSet(DOMAIN s)
           /\ \A i \in DOMAIN s : s[i] \in S /\ i \in Int
<1>1. Len(s) \in Nat /\ DOMAIN s = 1..Len(s) /\ \A i \in DOMAIN s : s[i] \in S
  OBVIOUS
<1>2. 1 \in Int /\ Len(s) \in Int
  BY <1>1
<1>3. IsFiniteSet(1..Len(s))
  BY <1>2, FS_Interval
<1>q. QED
  BY <1>1, <1>3

\* What is fitted are collected records of one kind.
LEMMA RecordsRead ==
    ASSUME CostAssumption, profile = <<>> \/ profile \in Profiles, NEW kind
    PROVE  /\ ReadRecords(profile, kind) \in Seq({r \in Collected : r.kind = kind})
           /\ \A i \in DOMAIN ReadRecords(profile, kind) :
                /\ ReadRecords(profile, kind)[i].kind = kind
                /\ ReadRecords(profile, kind)[i].run \in Nat
<1> DEFINE R == {r \in Collected : r.kind = kind}
           s == ReadRecords(profile, kind)
<1>1. profile \in Seq(ToSet(profile)) /\ OfKind(profile, kind) \subseteq R
  <2>1. CASE profile = <<>>
    BY <2>1 DEF OfKind, ToSet
  <2>2. CASE profile \in Profiles
    BY <2>2 DEF CostAssumption, ProfileAssumption, OfKind, Collected
  <2>q. QED
    BY <2>1, <2>2
<1>2. s \in Seq(OfKind(profile, kind))
  BY <1>1, ReadRecordsType
<1> HIDE DEF s
<1>3. s \in Seq(R)
  <2>1. \A i \in DOMAIN s : s[i] \in R
    BY <1>1, <1>2, Positions
  <2>2. Len(s) \in Nat /\ DOMAIN s = 1..Len(s) /\ s = [i \in 1..Len(s) |-> s[i]]
    BY <1>2
  <2> HIDE DEF R
  <2>q. QED
    BY <2>1, <2>2
<1>4. \A r \in R : r.kind = kind /\ r.run \in Nat
  BY DEF CostAssumption, ProfileAssumption, Collected
<1>5. \A i \in DOMAIN s : s[i] \in R
  <2> HIDE DEF R
  <2>q. QED
    BY <1>3, Positions
<1>q. QED
  BY <1>3, <1>4, <1>5 DEF s

\* A holdout of fitted records keeps their launches apart.
LEMMA HoldoutOfRecords ==
    ASSUME CostAssumption, NEW records, NEW R, records \in Seq(R),
           \A i \in DOMAIN records : records[i].run \in Nat,
           NEW S \in SUBSET (DOMAIN records), NEW split \in Splits
    PROVE  SoundSplit(SplitByRun(S, Launches(records), split.num, split.den),
                      S, Launches(records), split)
<1>1. IsFiniteSet(S)
  BY Positions, FS_Subset
<1>2. \A i \in S : Launches(records)[i] \in Nat
  BY DEF Launches
<1>3. split.num \in Nat /\ split.den \in Nat \ {0}
  BY DEF CostAssumption, ProfileAssumption, Positive
<1>q. QED
  BY <1>1, <1>2, <1>3, SplitIsSound

\* The holdouts of a fitted cell.
HoldoutsOK(records, split, e) ==
    \A part \in e.holdouts : SoundSplit(part, DOMAIN records, Launches(records), split)

\* What is fitted of a topology: sound holdouts, and a model that predicts.
RolloutEntryOK(type, records, split, e) ==
    /\ HoldoutsOK(records, split, e)
    /\ RolloutModel([type |-> type, coefficients |-> e.coefficients])
    /\ type = "distserve" => DistServeTerms(e.coefficients) \in RooflineFits

RolloutArtifactOK(a) ==
    /\ a.kind = "rollout"
    /\ \A k \in DOMAIN a.entries : RolloutEntryOK(a.type, a.records, a.split, a.entries[k])

RolloutTypes == {"roofline", "psrl", "distserve"}

LEMMA RolloutHoldoutsOK ==
    ASSUME CostAssumption, NEW records, NEW R, records \in Seq(R),
           \A k \in DOMAIN records : records[k].run \in Nat,
           NEW type, NEW par, NEW split \in Splits, NEW coefficients
    PROVE  HoldoutsOK(records, split, RolloutEntry(type, records, par, split, coefficients))
<1> DEFINE S == InTopology(records, par)
           L == Launches(records)
           OK(part) == SoundSplit(part, DOMAIN records, L, split)
<1>1. S \subseteq DOMAIN records
  BY DEF InTopology, Observed
<1>2. ASSUME NEW T \in SUBSET S
      PROVE  OK(PhaseSplit(records, T, split))
  <2>1. T \in SUBSET (DOMAIN records)
    BY <1>1
  <2>2. SoundSplit(SplitByRun(T, L, split.num, split.den), T, L, split)
    BY <2>1, HoldoutOfRecords
  <2>q. QED
    BY <2>1, <2>2 DEF SoundSplit, PhaseSplit
<1> HIDE DEF OK
<1>3. \A part \in RolloutHoldouts(type, records, par, split) : OK(part)
  <2>1. CASE type = "psrl"
    <3>1. \A phase : InPhase(records, S, phase) \in SUBSET S
      BY DEF InPhase
    <3>2. \A phase : OK(PhaseSplit(records, InPhase(records, S, phase), split))
      BY <1>2, <3>1
    <3>q. QED
      BY <2>1, <3>2 DEF RolloutHoldouts
  <2>2. CASE type # "psrl"
    <3>1. OK(PhaseSplit(records, S, split))
      BY <1>2
    <3>q. QED
      BY <2>2, <3>1 DEF RolloutHoldouts
  <2>q. QED
    BY <2>1, <2>2
<1>q. QED
  BY <1>3 DEF HoldoutsOK, RolloutEntry, OK

\* DistServe starts from the roofline and stands for it.
LEMMA FittedCoefficients ==
    ASSUME CostAssumption, NEW type \in RolloutTypes, NEW fitted,
           fitted \in IF type = "psrl" THEN PsrlFitted ELSE RooflineFits,
           NEW c, c = IF type = "distserve"
                      THEN DistServeConstants(fitted, Hidden, Intermediate) ELSE fitted
    PROVE  /\ RolloutModel([type |-> type, coefficients |-> c])
           /\ type = "distserve" => DistServeTerms(c) \in RooflineFits
<1>1. CASE type = "psrl"
  <2>1. c = fitted /\ fitted \in PsrlModels
    BY <1>1 DEF CostAssumption, FitAssumption, PsrlModels
  <2>q. QED
    BY <1>1, <2>1 DEF RolloutModel
<1>2. CASE type # "psrl"
  <2>1. fitted \in RooflineFits /\ fitted \in Rooflines /\ Exact(fitted)
    BY <1>2 DEF CostAssumption, FitAssumption, Rooflines
  <2>2. CASE type = "roofline"
    BY <2>1, <2>2 DEF RolloutModel
  <2>3. CASE type = "distserve"
    <3>1. DistServeTerms(c) = fitted
      BY <2>1, <2>3, DistServeStandsFor DEF CostAssumption, FitAssumption
    <3>q. QED
      BY <2>1, <2>3, <3>1 DEF RolloutModel
  <2>q. QED
    BY <1>2, <2>2, <2>3 DEF RolloutTypes
<1>q. QED
  BY <1>1, <1>2

LEMMA FittedRollout ==
    ASSUME CostAssumption, profile = <<>> \/ profile \in Profiles,
           NEW split \in Splits, NEW type \in RolloutTypes,
           NEW fits, fits \in [Topologies(ReadRecords(profile, "rollout")) ->
                                  IF type = "psrl" THEN PsrlFitted ELSE RooflineFits],
           NEW a, a = FitRollout(profile, type, split, fits, Hidden, Intermediate),
           a # Missing
    PROVE  RolloutArtifactOK(a)
<1> DEFINE records == ReadRecords(profile, "rollout")
           R == {r \in Collected : r.kind = "rollout"}
           pars == Topologies(records)
           C(par) == IF type = "distserve"
                     THEN DistServeConstants(fits[par], Hidden, Intermediate) ELSE fits[par]
           Fitted(par) == RolloutEntry(type, records, par, split, C(par))
           E == {Fitted(par) : par \in pars}
<1>1. /\ records \in Seq(R) /\ \A k \in DOMAIN records : records[k].run \in Nat
  BY RecordsRead
<1>2. a = [kind |-> "rollout", type |-> type, records |-> records, split |-> split,
           entries |-> SetToSeq(E)]
  BY DEF FitRollout
<1> HIDE DEF records, R
<1>3. IsFiniteSet(E)
  <2> DEFINE O == Observed(records)
             f == [k \in O |-> records[k].par]
             g == [par \in pars |-> Fitted(par)]
  <2>1. IsFiniteSet(O)
    <3>1. O \subseteq DOMAIN records
      BY DEF Observed
    <3>2. IsFiniteSet(DOMAIN records)
      BY <1>1, Positions
    <3>q. QED
      BY <3>1, <3>2, FS_Subset
  <2>2. pars = {f[k] : k \in O} /\ DOMAIN f = O
    BY DEF Topologies
  <2>3. IsFiniteSet(pars)
    <3> HIDE DEF O, f, pars
    <3>1. IsFiniteSet({f[k] : k \in O})
      BY <2>1, <2>2, FiniteImage
    <3>q. QED
      BY <2>2, <3>1
  <2>4. E = {g[par] : par \in pars} /\ DOMAIN g = pars
    OBVIOUS
  <2>5. IsFiniteSet({g[par] : par \in pars})
    <3> HIDE DEF g, pars
    <3>q. QED
      BY <2>3, <2>4, FiniteImage
  <2>q. QED
    BY <2>4, <2>5
<1>4. ASSUME NEW par \in pars
      PROVE  RolloutEntryOK(type, records, split, Fitted(par))
  <2> DEFINE c == C(par)
  <2>1. fits[par] \in IF type = "psrl" THEN PsrlFitted ELSE RooflineFits
    BY DEF records
  <2>2. /\ RolloutModel([type |-> type, coefficients |-> c])
        /\ type = "distserve" => DistServeTerms(c) \in RooflineFits
    BY <2>1, FittedCoefficients
  <2> HIDE DEF c
  <2>3. HoldoutsOK(records, split, RolloutEntry(type, records, par, split, c))
    BY <1>1, RolloutHoldoutsOK
  <2>4. RolloutEntry(type, records, par, split, c).coefficients = c
    BY DEF RolloutEntry
  <2>5. RolloutEntryOK(type, records, split, RolloutEntry(type, records, par, split, c))
    BY <2>2, <2>3, <2>4 DEF RolloutEntryOK
  <2>q. QED
    BY <2>5 DEF c
<1>5. \A e \in E : RolloutEntryOK(type, records, split, e)
  <2> HIDE DEF Fitted, pars
  <2>q. QED
    BY <1>4
<1> HIDE DEF E
<1>6. \A k \in DOMAIN SetToSeq(E) : SetToSeq(E)[k] \in E
  BY <1>3, SetToSeqFacts, Positions
<1>q. QED
  BY <1>2, <1>5, <1>6 DEF RolloutArtifactOK

\* A cell that is found is one of the entries.
LEMMA EntryForIsEntry ==
    ASSUME NEW entries, NEW par, NEW requested, HasEntryFor(entries, par, requested)
    PROVE  \E k \in DOMAIN entries :
              /\ EntryFor(entries, par, requested) = entries[k]
              /\ entries[k].parallelism = par /\ Selects(entries[k].selector, requested)
<1> DEFINE found == Matches(entries, par, requested)
<1>1. Cardinality(found) = 1
  BY DEF HasEntryFor
<1>2. found # {}
  BY <1>1, FS_EmptySet
<1>3. (CHOOSE k \in found : TRUE) \in found
  BY <1>2
<1> DEFINE k == CHOOSE i \in found : TRUE
<1>4. EntryFor(entries, par, requested) = entries[k]
  BY DEF EntryFor
<1> HIDE DEF k
<1>5. k \in found
  BY <1>3 DEF k
<1>q. QED
  BY <1>4, <1>5 DEF Matches

-----------------------------------------------------------------------------
\* Features of a microbatch sequence

LEMMA SumOfSeq ==
    ASSUME NEW s, s \in Seq(Nat)
    PROVE  SumSeq(s) \in Nat /\ SumSeq(s) = Part(s, DOMAIN s)
<1>1. IsFiniteSet(DOMAIN s) /\ \A k \in DOMAIN s : s[k] \in Nat
  BY Positions
<1>2. [k \in DOMAIN s |-> s[k]] = s
  OBVIOUS
<1>3. Sums(s, DOMAIN s)
  BY <1>1, PartSums
<1>4. Part(s, DOMAIN s) \in Nat
  BY <1>3 DEF Sums
<1>5. SumSeq(s) = Part(s, DOMAIN s)
  BY <1>2 DEF SumSeq, Part
<1>q. QED
  BY <1>4, <1>5

\* The squares of a microbatch.
Squared(s) == [k \in DOMAIN s |-> s[k] * s[k]]

LEMMA SquaredType ==
    ASSUME NEW s, s \in Seq(Nat)
    PROVE  /\ Squared(s) \in Seq(Nat) /\ DOMAIN Squared(s) = DOMAIN s
           /\ SumSquares(s) = SumSeq(Squared(s))
<1>1. \A k \in DOMAIN s : s[k] \in Nat /\ s[k] * s[k] \in Nat
  BY Positions
<1>2. Len(s) \in Nat /\ DOMAIN s = 1..Len(s)
  OBVIOUS
<1>3. Squared(s) \in Seq(Nat)
  BY <1>1, <1>2 DEF Squared
<1>q. QED
  BY <1>3 DEF Squared, SumSquares

RankMicros(micro) == micro \in Seq(Seq(Nat)) /\ micro # <<>>

\* What a rank computes, microbatch by microbatch.
LEMMA ValuesType ==
    ASSUME NEW micro, RankMicros(micro)
    PROVE  /\ QValues(micro) \in Seq(Nat) /\ TValues(micro) \in Seq(Nat)
           /\ DOMAIN QValues(micro) = DOMAIN micro /\ DOMAIN TValues(micro) = DOMAIN micro
           /\ 1 \in DOMAIN micro /\ Len(micro) \in Nat /\ Len(micro) > 0
<1>1. /\ Len(micro) \in Nat /\ DOMAIN micro = 1..Len(micro)
      /\ \A i \in DOMAIN micro : micro[i] \in Seq(Nat)
  BY DEF RankMicros
<1>2. Len(micro) > 0
  BY <1>1 DEF RankMicros
<1>3. \A i \in DOMAIN micro : SumSeq(micro[i]) \in Nat /\ SumSquares(micro[i]) \in Nat
  BY <1>1, SumOfSeq, SquaredType
<1>4. QValues(micro) \in Seq(Nat) /\ TValues(micro) \in Seq(Nat)
  BY <1>1, <1>3 DEF QValues, TValues
<1>q. QED
  BY <1>1, <1>2, <1>4 DEF QValues, TValues

\* The greatest value of a non-empty sequence.
LEMMA MaxOfSeq ==
    ASSUME NEW s, s \in Seq(Nat), 1 \in DOMAIN s
    PROVE  /\ Max(ToSet(s)) \in Nat /\ \E k \in DOMAIN s : Max(ToSet(s)) = s[k]
           /\ \A k \in DOMAIN s : s[k] <= Max(ToSet(s))
<1>1. IsFiniteSet(ToSet(s)) /\ ToSet(s) \subseteq Nat
  BY ToSetOfSeq
<1>2. ToSet(s) # {} /\ \A k \in DOMAIN s : s[k] \in ToSet(s)
  BY DEF ToSet
<1> DEFINE T == ToSet(s)
<1>3. \A x \in T : x \in Int
  BY <1>1
<1>4. IsFiniteSet(T) /\ T # {}
  BY <1>1, <1>2
<1> HIDE DEF T
<1>5. Max(T) \in T /\ \A y \in T : Max(T) >= y
  BY <1>3, <1>4, MaxIsGreatest
<1>6. Max(ToSet(s)) \in ToSet(s) /\ \A y \in ToSet(s) : y <= Max(ToSet(s))
  BY <1>3, <1>5 DEF T
<1>7. \E k \in DOMAIN s : Max(ToSet(s)) = s[k]
  BY <1>6 DEF ToSet
<1>q. QED
  BY <1>1, <1>2, <1>6, <1>7

LEMMA MinOfNats ==
    ASSUME NEW a \in Nat, NEW b \in Nat
    PROVE  Min({a, b}) \in Nat
<1>1. a \in Int /\ b \in Int
  OBVIOUS
<1>q. QED
  BY <1>1, MinOfTwo

LEMMA FeaturesType ==
    ASSUME NEW micro, RankMicros(micro), NEW pp \in Nat \ {0}
    PROVE  /\ LatencyFeatures(micro, pp) \in [LatencyFeatureNames -> Nat]
           /\ ActivationFeature(micro, pp) \in Nat
<1> DEFINE q == QValues(micro)
           t == TValues(micro)
           a == Max(ToSet(q))
           b == Max(ToSet(t))
           d == Min({Len(micro), pp})
           f == LatencyFeatures(micro, pp)
<1>1. /\ q \in Seq(Nat) /\ t \in Seq(Nat) /\ DOMAIN q = DOMAIN micro
      /\ DOMAIN t = DOMAIN micro /\ 1 \in DOMAIN micro /\ Len(micro) \in Nat /\ Len(micro) > 0
  BY ValuesType
<1>2. SumSeq(q) \in Nat /\ SumSeq(t) \in Nat
  BY <1>1, SumOfSeq
<1>3. a \in Nat /\ b \in Nat
  BY <1>1, MaxOfSeq
<1>4. d \in Nat
  BY <1>1, MinOfNats
<1>5. Len(micro[1]) \in Nat
  BY <1>1 DEF RankMicros
<1>6. f = [q_effective |-> SumSeq(q) + (pp - 1) * a, t_effective |-> SumSeq(t) + (pp - 1) * b,
           pipeline_slots |-> Len(micro) + pp - 1, micro_batch_size |-> Len(micro[1])]
  BY DEF LatencyFeatures
<1>7. ActivationFeature(micro, pp) = b * d
  BY DEF ActivationFeature
<1> HIDE DEF f, a, b, d, q, t
<1>8. /\ SumSeq(q) + (pp - 1) * a \in Nat /\ SumSeq(t) + (pp - 1) * b \in Nat
      /\ Len(micro) + pp - 1 \in Nat /\ b * d \in Nat
  <2>1. pp - 1 \in Nat
    OBVIOUS
  <2>2. (pp - 1) * a \in Nat /\ (pp - 1) * b \in Nat /\ b * d \in Nat
    BY <1>3, <1>4, <2>1
  <2>q. QED
    BY <1>1, <1>2, <2>2
<1>9. f \in [LatencyFeatureNames -> Nat]
  BY <1>5, <1>6, <1>8 DEF LatencyFeatureNames
<1>q. QED
  BY <1>7, <1>8, <1>9 DEF f

LEMMA QuotientNat ==
    ASSUME NEW n \in Nat, NEW d \in Nat \ {0}
    PROVE  n \div d \in Nat
  BY PositiveQuotient

LEMMA InventoryType ==
    ASSUME NEW n \in Nat, NEW par \in Shape, NEW distributed
    PROVE  ParameterInventory(n, par, distributed) \in Nat
<1> DEFINE d == par.tp * par.pp
           local == n \div d
           shard == IF distributed THEN par.dp ELSE 1
<1>1. par.tp \in Nat \ {0} /\ par.pp \in Nat \ {0} /\ par.dp \in Nat \ {0}
  BY DEF Shape, Positive
<1>2. d \in Nat \ {0}
  <2>1. par.tp * 1 <= par.tp * par.pp /\ par.tp * par.pp \in Nat
    BY <1>1, ProductGrows
  <2>q. QED
    BY <1>1, <2>1
<1>3. shard \in Nat \ {0}
  BY <1>1
<1> HIDE DEF d, shard
<1>4. local \in Nat
  BY <1>2, QuotientNat
<1> HIDE DEF local
<1>5. local * 2 \in Nat /\ local * 4 \in Nat /\ local * 8 \in Nat
  BY <1>4
<1> DEFINE x == (local * 4) \div shard
           y == (local * 8) \div shard
<1>6. x \in Nat /\ y \in Nat
  BY <1>3, <1>5, QuotientNat
<1>7. ParameterInventory(n, par, distributed) = local * 2 + x + x + y
  BY DEF ParameterInventory, local, shard, d
<1> HIDE DEF x, y
<1>q. QED
  BY <1>5, <1>6, <1>7

-----------------------------------------------------------------------------
\* What is fitted of a training cell

FittedRecords(records) ==
    /\ \E R : records \in Seq(R)
    /\ \A i \in DOMAIN records : /\ records[i].run \in Nat
                                 /\ TrainingRecord(records[i])

TakesTime(c) == c.q + c.t + c.pipeline + c.update > 0

\* What the regressions of the cells returned.
FitsOK(records, fits) ==
    \A cell \in Cells(records) : /\ fits[cell].latency \in LatencyCoefficients
                                 /\ fits[cell].memory \in MemoryCoefficients
                                 /\ TakesTime(fits[cell].latency)

\* A cell names a topology and a number of parameters.
LEMMA CellFacts ==
    ASSUME CostAssumption, NEW records, FittedRecords(records),
           NEW i \in DOMAIN records
    PROVE  /\ CellOf(records[i]).tp \in Nat \ {0} /\ CellOf(records[i]).pp \in Nat \ {0}
           /\ CellOf(records[i]).count \in Nat
           /\ RankMicros(records[i].micro) /\ records[i].par \in Shape
<1> DEFINE r == records[i]
<1>1. TrainingRecord(r)
  BY DEF FittedRecords
<1> HIDE DEF r
<1>2. r.par \in Shape /\ r.count \in Nat /\ EvenMicrobatches(r.micro)
  BY <1>1 DEF TrainingRecord
<1>3. ParameterCount(r) \in Nat
  BY <1>2 DEF ParameterCount, CostAssumption, ProfileAssumption
<1>4. RankMicros(r.micro)
  <2>1. r.micro \in Seq(Seq(Positive)) /\ r.micro # <<>>
    BY <1>2 DEF EvenMicrobatches
  <2>2. Seq(Positive) \subseteq Seq(Nat)
    BY DEF Positive
  <2>3. r.micro \in Seq(Seq(Nat))
    BY <2>1, <2>2
  <2>q. QED
    BY <2>1, <2>3 DEF RankMicros
<1>5. /\ CellOf(r).tp = r.par.tp /\ CellOf(r).pp = r.par.pp
      /\ CellOf(r).count = ParameterCount(r)
  BY DEF CellOf
<1>6. r.par.tp \in Nat \ {0} /\ r.par.pp \in Nat \ {0}
  BY <1>2 DEF Shape, Positive
<1>q. QED
  BY <1>2, <1>3, <1>4, <1>5, <1>6 DEF r

\* What an out-of-memory run asks for is a number.
LEMMA DeficitType ==
    ASSUME CostAssumption, NEW records, FittedRecords(records),
           NEW cell \in Cells(records), NEW i \in InCell(records, cell),
           records[i].gpuMemory # Missing,
           NEW fit, fit \in MemoryCoefficients
    PROVE  /\ Static(records, cell, i) \in Nat
           /\ ActivationFeature(records[i].micro, cell.pp) \in Nat
           /\ records[i].gpuMemory \in Nat
           /\ Deficit(records, cell, fit, i) \in Int
<1> DEFINE s == Static(records, cell, i)
           a == ActivationFeature(records[i].micro, cell.pp)
           g == records[i].gpuMemory
<1>1. i \in DOMAIN records /\ cell = CellOf(records[i])
  BY DEF InCell, Supported
<1>2. /\ cell.pp \in Nat \ {0} /\ cell.count \in Nat
      /\ RankMicros(records[i].micro) /\ records[i].par \in Shape
  BY <1>1, CellFacts
<1>3. s \in Nat
  BY <1>2, InventoryType DEF Static
<1>4. a \in Nat
  BY <1>2, FeaturesType
<1>5. g \in Nat
  BY <1>1 DEF FittedRecords, TrainingRecord
<1>6. fit.slope \in Nat /\ fit.residual \in Nat
  BY DEF MemoryCoefficients
<1>7. Deficit(records, cell, fit, i) = g + 1 - s - (fit.slope * a + fit.residual)
  BY DEF Deficit
<1> HIDE DEF s, a, g
<1>8. fit.slope * a \in Nat
  BY <1>4, <1>6
<1>9. g + 1 - s - (fit.slope * a + fit.residual) \in Int
  BY <1>3, <1>5, <1>6, <1>8
<1>q. QED
  BY <1>3, <1>4, <1>5, <1>7, <1>9 DEF s, a, g

\* The intercept is raised as far as any of them asks, and never lowered.
LEMMA IncreaseFacts ==
    ASSUME CostAssumption, NEW records, FittedRecords(records),
           NEW cell \in Cells(records), NEW fit, fit \in MemoryCoefficients
    PROVE  /\ OomIncrease(records, cell, fit) \in Nat
           /\ \A i \in OutOfMemory(records, InCell(records, cell)) :
                 records[i].gpuMemory # Missing =>
                    Deficit(records, cell, fit, i) <= OomIncrease(records, cell, fit)
<1> DEFINE T == {j \in OutOfMemory(records, InCell(records, cell)) :
                   records[j].gpuMemory # Missing}
           f == [i \in T |-> Deficit(records, cell, fit, i)]
           V == {Deficit(records, cell, fit, i) : i \in T}
           W == {0} \cup V
<1>1. T \subseteq InCell(records, cell) /\ InCell(records, cell) \subseteq DOMAIN records
  BY DEF OutOfMemory, InCell, Supported
<1>2. IsFiniteSet(T)
  <2>1. IsFiniteSet(DOMAIN records)
    <3>1. PICK R : records \in Seq(R)
      BY DEF FittedRecords
    <3>q. QED
      BY <3>1, Positions
  <2>2. T \subseteq DOMAIN records
    BY <1>1
  <2> HIDE DEF T
  <2>q. QED
    BY <2>1, <2>2, FS_Subset
<1>3. \A i \in T : Deficit(records, cell, fit, i) \in Int
  BY <1>1, DeficitType
<1> HIDE DEF T
<1>4. IsFiniteSet(V)
  <2>1. DOMAIN f = T /\ V = {f[i] : i \in T}
    OBVIOUS
  <2> HIDE DEF f, V
  <2>2. IsFiniteSet({f[i] : i \in T})
    BY <1>2, <2>1, FiniteImage
  <2>q. QED
    BY <2>1, <2>2
<1>5. \A x \in W : x \in Int
  BY <1>3
<1>6. IsFiniteSet(W) /\ W # {} /\ 0 \in W
  <2> HIDE DEF V
  <2>1. IsFiniteSet({0})
    BY FS_Singleton
  <2>2. IsFiniteSet(W)
    BY <1>4, <2>1, FS_Union
  <2>q. QED
    BY <2>2
<1>7. OomIncrease(records, cell, fit) = Max(W)
  BY DEF OomIncrease, T
<1>8. \A i \in T : Deficit(records, cell, fit, i) \in W
  OBVIOUS
<1> HIDE DEF W
<1>9. Max(W) \in W /\ \A y \in W : Max(W) >= y
  BY <1>5, <1>6, MaxIsGreatest
<1>10. Max(W) \in Int /\ Max(W) >= 0
  BY <1>5, <1>6, <1>9
<1>11. \A i \in T : Deficit(records, cell, fit, i) <= Max(W)
  BY <1>3, <1>8, <1>9, <1>10
<1>q. QED
  BY <1>7, <1>10, <1>11 DEF T

-----------------------------------------------------------------------------
\* The entries of a training artifact

CellEntriesOf(records, split, fits, cells) ==
    [k \in DOMAIN cells |-> CellEntries(records, cells[k], split, fits[cells[k]])]

\* It was fitted from its records, cell by cell.
TrainingArtifactOK(a) ==
    /\ a.kind = "training" /\ FittedRecords(a.records)
    /\ \A i \in DOMAIN a.records : a.records[i].kind = "training"
    /\ a.split \in Splits
    /\ \E fits :
          LET cells == SetToSeq(Cells(a.records))
          IN /\ FitsOK(a.records, fits)
             /\ a.entries = FlattenSeq(CellEntriesOf(a.records, a.split, fits, cells))
             /\ a.entries # <<>>

LEMMA FittedTraining ==
    ASSUME CostAssumption, profile = <<>> \/ profile \in Profiles,
           NEW split \in Splits,
           NEW fits, FitsOK(ReadRecords(profile, "training"), fits),
           NEW a, a = FitTraining(profile, split, fits), a # Missing
    PROVE  TrainingArtifactOK(a)
<1> DEFINE records == ReadRecords(profile, "training")
           R == {r \in Collected : r.kind = "training"}
           cells == SetToSeq(Cells(records))
           entries == FlattenSeq([k \in DOMAIN cells |->
                         CellEntries(records, cells[k], split, fits[cells[k]])])
<1>1. /\ a = [kind |-> "training", type |-> "hydraulis", records |-> records,
              split |-> split, entries |-> entries]
      /\ entries # <<>>
  BY DEF FitTraining
<1>2. /\ records \in Seq(R)
      /\ \A i \in DOMAIN records : records[i].kind = "training" /\ records[i].run \in Nat
  BY RecordsRead
<1>3. \A r \in R : TrainingRecord(r)
  BY DEF CostAssumption, ProfileAssumption, Collected
<1>4. FittedRecords(records)
  <2> HIDE DEF R, records
  <2>1. \A i \in DOMAIN records : records[i] \in R
    BY <1>2, Positions
  <2>q. QED
    BY <1>2, <1>3, <2>1 DEF FittedRecords
<1>5. a.kind = "training" /\ a.records = records /\ a.split = split
      /\ a.entries = entries
  BY <1>1
<1>6. entries = FlattenSeq(CellEntriesOf(records, split, fits, cells))
  BY DEF CellEntriesOf
<1> HIDE DEF entries, cells, records
<1>7. FitsOK(records, fits)
  BY DEF records
<1>q. QED
  BY <1>1, <1>2, <1>4, <1>5, <1>6, <1>7 DEF TrainingArtifactOK, cells

\* The timed runs of a cell, and those that say something about its memory.
TimedOf(records, cell) == Timed(records, InCell(records, cell))
MeasuredOf(records, cell) == MeasuredRuns(records, InCell(records, cell))
SeenOf(records, cell) ==
    MeasuredOf(records, cell) \cup OutOfMemory(records, InCell(records, cell))

LatencyEntry(records, cell, split, coefficients) ==
    [parallelism |-> CellParallelism(cell), selector |-> CellSelector(cell, "latency"),
     coefficients |-> coefficients,
     holdouts |-> {Holdout(records, TimedOf(records, cell), split)},
     ranges |-> [name \in LatencyFeatureNames |->
                   RangeOf(Feature(name, records, TimedOf(records, cell), cell.pp))]]

\* What the memory of a cell is fitted with: nothing, if every run exhausted it.
MemoryFit(records, cell, coefficients) ==
    IF MeasuredOf(records, cell) = {} THEN [slope |-> 0, residual |-> 0] ELSE coefficients

MemoryEntry(records, cell, split, coefficients) ==
    LET fit == MemoryFit(records, cell, coefficients)
    IN [parallelism |-> CellParallelism(cell), selector |-> CellSelector(cell, "memory"),
        coefficients |-> [slope |-> fit.slope,
                          residual |-> fit.residual + OomIncrease(records, cell, fit),
                          count |-> cell.count],
        holdouts |-> {Holdout(records, MeasuredOf(records, cell), split)},
        ranges |-> [activation_feature |->
            RangeOf({ActivationFeature(records[i].micro, cell.pp) :
                       i \in SeenOf(records, cell)})]]

\* The entry that place e, a cell and a component, names.
EntryOf(records, e, split, fits) ==
    IF e[2] = "latency" THEN LatencyEntry(records, e[1], split, fits[e[1]].latency)
    ELSE MemoryEntry(records, e[1], split, fits[e[1]].memory)

\* The components of a cell that have an entry.
HasEntry(records, cell, component) ==
    \/ component = "latency" /\ TimedOf(records, cell) # {}
    \/ component = "memory" /\ SeenOf(records, cell) # {}

Made(records) == {e \in Cells(records) \X {"latency", "memory"} :
                    HasEntry(records, e[1], e[2])}

\* at says of which cell and component each entry of an artifact is.
EntriesAt(a, split, fits, at) ==
    /\ DOMAIN a.entries = 1..Len(a.entries) /\ Len(a.entries) \in Nat
    /\ \A k \in DOMAIN a.entries :
          at[k] \in Made(a.records) /\ a.entries[k] = EntryOf(a.records, at[k], split, fits)
    /\ \A k, l \in DOMAIN a.entries : at[k] = at[l] => k = l
    /\ \A e \in Made(a.records) : \E k \in DOMAIN a.entries : at[k] = e

LEMMA ComponentOfEntry ==
    ASSUME NEW records, NEW e, e[2] \in {"latency", "memory"}, NEW split, NEW fits
    PROVE  /\ EntryOf(records, e, split, fits).selector = CellSelector(e[1], e[2])
           /\ EntryOf(records, e, split, fits).selector.component = e[2]
           /\ EntryOf(records, e, split, fits).parallelism = CellParallelism(e[1])
  BY DEF EntryOf, LatencyEntry, MemoryEntry, CellSelector, Selector

\* A cell has at most one entry of each component.
CellEntriesOK(records, cell, split, fits, ce) ==
    /\ ce \in Seq({EntryOf(records, <<cell, "latency">>, split, fits),
                   EntryOf(records, <<cell, "memory">>, split, fits)})
    /\ \A l \in DOMAIN ce :
          \E component \in {"latency", "memory"} :
             /\ HasEntry(records, cell, component)
             /\ ce[l] = EntryOf(records, <<cell, component>>, split, fits)
    /\ \A l, m \in DOMAIN ce : ce[l] = ce[m] => l = m
    /\ \A component \in {"latency", "memory"} :
          HasEntry(records, cell, component) =>
             \E l \in DOMAIN ce : ce[l] = EntryOf(records, <<cell, component>>, split, fits)

LEMMA CellEntriesFacts ==
    ASSUME NEW records, NEW cell, NEW split, NEW fits
    PROVE  CellEntriesOK(records, cell, split, fits,
                         CellEntries(records, cell, split, fits[cell]))
<1> DEFINE x == EntryOf(records, <<cell, "latency">>, split, fits)
           y == EntryOf(records, <<cell, "memory">>, split, fits)
           fit == fits[cell]
           xs == LatencyEntries(records, cell, split, fit.latency)
           ys == MemoryEntries(records, cell, split, fit.memory)
           ce == CellEntries(records, cell, split, fits[cell])
           p == HasEntry(records, cell, "latency")
           q == HasEntry(records, cell, "memory")
<1>1. xs = IF p THEN <<x>> ELSE <<>>
  BY DEF LatencyEntries, EntryOf, LatencyEntry, HasEntry, TimedOf
<1>2. ys = IF q THEN <<y>> ELSE <<>>
  BY DEF MemoryEntries, EntryOf, MemoryEntry, MemoryFit, HasEntry, SeenOf, MeasuredOf
<1>3. ce = xs \o ys
  BY DEF CellEntries
<1>4. x # y
  BY ComponentOfEntry
<1> HIDE DEF x, y, xs, ys, p, q, ce
<1>5. /\ ce \in Seq({x, y})
      /\ \A l \in DOMAIN ce : (p /\ ce[l] = x) \/ (q /\ ce[l] = y)
      /\ \A l, m \in DOMAIN ce : ce[l] = ce[m] => l = m
      /\ p => \E l \in DOMAIN ce : ce[l] = x
      /\ q => \E l \in DOMAIN ce : ce[l] = y
  <2>1. CASE p /\ q
    <3>0. xs = <<x>> /\ ys = <<y>>
      BY <1>1, <1>2, <2>1
    <3>1. /\ <<x>> \o <<y>> \in Seq({x, y}) /\ Len(<<x>> \o <<y>>) = 2
          /\ (<<x>> \o <<y>>)[1] = x /\ (<<x>> \o <<y>>)[2] = y
      OBVIOUS
    <3>2. ce \in Seq({x, y}) /\ DOMAIN ce = {1, 2} /\ ce[1] = x /\ ce[2] = y
      BY <1>3, <3>0, <3>1
    <3>q. QED
      BY <1>4, <2>1, <3>1, <3>2
  <2>2. CASE p /\ ~q
    <3>1. ce = <<x>>
      BY <1>1, <1>2, <1>3, <2>2
    <3>2. DOMAIN ce = {1} /\ ce[1] = x
      BY <3>1
    <3>q. QED
      BY <2>2, <3>1, <3>2
  <2>3. CASE ~p /\ q
    <3>1. ce = <<y>>
      BY <1>1, <1>2, <1>3, <2>3
    <3>2. DOMAIN ce = {1} /\ ce[1] = y
      BY <3>1
    <3>q. QED
      BY <2>3, <3>1, <3>2
  <2>4. CASE ~p /\ ~q
    <3>1. ce = <<>>
      BY <1>1, <1>2, <1>3, <2>4
    <3>q. QED
      BY <2>4, <3>1
  <2>q. QED
    BY <2>1, <2>2, <2>3, <2>4
<1>q. QED
  BY <1>5 DEF CellEntriesOK, x, y, p, q, ce

LEMMA CellsFinite ==
    ASSUME NEW records, FittedRecords(records)
    PROVE  IsFiniteSet(Cells(records))
<1> DEFINE O == Supported(records)
           f == [i \in O |-> CellOf(records[i])]
<1>1. PICK R : records \in Seq(R)
  BY DEF FittedRecords
<1>2. IsFiniteSet(DOMAIN records) /\ O \subseteq DOMAIN records
  BY <1>1, Positions DEF Supported
<1>3. IsFiniteSet(O)
  BY <1>2, FS_Subset
<1>4. Cells(records) = {f[i] : i \in O} /\ DOMAIN f = O
  BY DEF Cells
<1> HIDE DEF f, O
<1>5. IsFiniteSet({f[i] : i \in O})
  BY <1>3, <1>4, FiniteImage
<1>q. QED
  BY <1>4, <1>5

\* Each cell and component that has an entry has one place in the artifact.
LEMMA TrainingEntries ==
    ASSUME NEW a, TrainingArtifactOK(a), NEW split, NEW fits,
           a.entries = FlattenSeq(CellEntriesOf(a.records, split, fits,
                                                SetToSeq(Cells(a.records)))),
           a.entries # <<>>
    PROVE  \E at : EntriesAt(a, split, fits, at)
<1> DEFINE records == a.records
           C == Cells(records)
           cells == SetToSeq(C)
           ss == CellEntriesOf(records, split, fits, cells)
           E(e) == EntryOf(records, e, split, fits)
           S == {E(e) : e \in C \X {"latency", "memory"}}
           flat == FlattenSeq(ss)
<1>1. IsFiniteSet(C)
  BY CellsFinite DEF TrainingArtifactOK
<1> HIDE DEF C
<1>2. /\ cells \in Seq(C)
      /\ \A i, j \in DOMAIN cells : cells[i] = cells[j] => i = j
      /\ \A x \in C : \E i \in DOMAIN cells : cells[i] = x
  BY <1>1, SetToSeqFacts
<1> HIDE DEF cells
<1>3. Len(cells) \in Nat /\ DOMAIN cells = 1..Len(cells) /\ \A i \in DOMAIN cells : cells[i] \in C
  BY <1>2
<1>4. /\ Len(ss) = Len(cells) /\ DOMAIN ss = DOMAIN cells
      /\ \A i \in DOMAIN cells : ss[i] = CellEntries(records, cells[i], split, fits[cells[i]])
  BY <1>3 DEF CellEntriesOf
<1>5. ASSUME NEW i \in DOMAIN cells
      PROVE  /\ ss[i] \in Seq(S)
             /\ \A l \in DOMAIN ss[i] :
                   \E component \in {"latency", "memory"} :
                      HasEntry(records, cells[i], component)
                      /\ ss[i][l] = E(<<cells[i], component>>)
             /\ \A l, m \in DOMAIN ss[i] : ss[i][l] = ss[i][m] => l = m
             /\ \A component \in {"latency", "memory"} :
                   HasEntry(records, cells[i], component) =>
                      \E l \in DOMAIN ss[i] : ss[i][l] = E(<<cells[i], component>>)
  <2> DEFINE c == cells[i]
             two == {E(<<c, "latency">>), E(<<c, "memory">>)}
  <2>0. CellEntriesOK(records, c, split, fits, CellEntries(records, c, split, fits[c]))
    BY CellEntriesFacts
  <2>1. CellEntriesOK(records, c, split, fits, ss[i])
    BY <1>4, <2>0
  <2>2. ss[i] \in Seq(two)
    BY <2>1 DEF CellEntriesOK
  <2>3. two \subseteq S
    <3>1. \A component \in {"latency", "memory"} : <<c, component>> \in C \X {"latency", "memory"}
      BY <1>3
    <3> HIDE DEF E
    <3>q. QED
      BY <3>1
  <2>4. ss[i] \in Seq(S)
    <3> HIDE DEF two, S, ss, E
    <3>q. QED
      BY <2>2, <2>3
  <2>q. QED
    BY <2>1, <2>4 DEF CellEntriesOK
<1> HIDE DEF S, ss, E
<1>6. ss \in Seq(Seq(S))
  <2>1. \A i \in 1..Len(ss) : ss[i] \in Seq(S)
    BY <1>3, <1>4, <1>5
  <2>2. ss = [i \in 1..Len(ss) |-> ss[i]] /\ Len(ss) \in Nat
    BY <1>3, <1>4 DEF ss, CellEntriesOf
  <2>q. QED
    BY <2>1, <2>2
<1>7. a.entries = flat /\ Len(ss) > 0
  <2>1. a.entries = flat
    BY DEF ss, cells, C
  <2>2. Len(ss) # 0
    <3> SUFFICES ASSUME Len(ss) = 0 PROVE FALSE
      OBVIOUS
    <3>1. flat = ss
      BY DEF FlattenSeq
    <3>2. ss = <<>>
      BY <1>6
    <3>q. QED
      BY <2>1, <3>1, <3>2
  <2>q. QED
    BY <1>3, <1>4, <2>1, <2>2
<1>8. flat \in Seq(S) /\ \E where : ComesFrom(flat, where, ss, Len(ss))
  BY <1>6, <1>7, FlattenPlaces
<1>9. PICK where : ComesFrom(flat, where, ss, Len(ss))
  BY <1>8
<1> HIDE DEF flat
<1>10. Len(flat) \in Nat /\ DOMAIN flat = 1..Len(flat)
  BY <1>8
<1> DEFINE at == [k \in 1..Len(flat) |-> <<cells[where[k][1]], flat[k].selector.component>>]
<1>11. ASSUME NEW k \in 1..Len(flat)
       PROVE  /\ where[k][1] \in DOMAIN cells /\ where[k][2] \in DOMAIN ss[where[k][1]]
              /\ flat[k] = ss[where[k][1]][where[k][2]]
              /\ where[k] = <<where[k][1], where[k][2]>>
  <2>1. /\ where[k] \in Places(ss, Len(ss)) /\ flat[k] = ss[where[k][1]][where[k][2]]
    BY <1>9 DEF ComesFrom
  <2>2. /\ where[k][1] \in 1..Len(ss) /\ where[k][2] \in 1..Len(ss[where[k][1]])
        /\ where[k] = <<where[k][1], where[k][2]>>
    BY <2>1 DEF Places
  <2>3. DOMAIN ss[where[k][1]] = 1..Len(ss[where[k][1]])
    BY <1>3, <1>4, <1>5, <2>2
  <2>q. QED
    BY <1>3, <1>4, <2>1, <2>2, <2>3
<1>12. ASSUME NEW k \in 1..Len(flat)
       PROVE  at[k] \in Made(records) /\ flat[k] = E(at[k])
  <2> DEFINE c == cells[where[k][1]]
  <2>1. PICK component \in {"latency", "memory"} :
           HasEntry(records, c, component) /\ flat[k] = E(<<c, component>>)
    BY <1>5, <1>11
  <2>2. flat[k].selector.component = component
    <3> DEFINE e == <<c, component>>
    <3>0. e[2] = component /\ component \in {"latency", "memory"}
      BY <2>1
    <3> HIDE DEF e
    <3>1. EntryOf(records, e, split, fits).selector.component = component
      BY <3>0, ComponentOfEntry
    <3>2. flat[k] = EntryOf(records, <<c, component>>, split, fits)
      BY <2>1 DEF E
    <3>q. QED
      BY <3>1, <3>2 DEF e
  <2>3. at[k] = <<c, component>>
    BY <2>2
  <2>4. c \in C
    BY <1>3, <1>11
  <2> HIDE DEF at, c
  <2>5. at[k] \in Made(records)
    <3>1. at[k] \in C \X {"latency", "memory"} /\ at[k][1] = c /\ at[k][2] = component
      BY <2>3, <2>4
    <3>q. QED
      BY <2>1, <3>1 DEF Made, C
  <2>q. QED
    BY <2>1, <2>3, <2>5
<1>13. ASSUME NEW k \in 1..Len(flat), NEW l \in 1..Len(flat), at[k] = at[l]
       PROVE  k = l
  <2>1. cells[where[k][1]] = cells[where[l][1]] /\ flat[k] = flat[l]
    <3>1. cells[where[k][1]] = cells[where[l][1]]
      BY <1>13
    <3> HIDE DEF at
    <3>2. flat[k] = E(at[k]) /\ flat[l] = E(at[l])
      BY <1>12
    <3>q. QED
      BY <1>13, <3>1, <3>2
  <2>2. where[k][1] = where[l][1]
    BY <1>2, <1>11, <2>1
  <2>3. where[k][2] = where[l][2]
    <3>1. ss[where[k][1]][where[k][2]] = ss[where[k][1]][where[l][2]]
      BY <1>11, <2>1, <2>2
    <3>2. /\ where[k][1] \in DOMAIN cells /\ where[k][2] \in DOMAIN ss[where[k][1]]
          /\ where[l][2] \in DOMAIN ss[where[k][1]]
      BY <1>11, <2>2
    <3>3. \A i \in DOMAIN cells : \A x, y \in DOMAIN ss[i] : ss[i][x] = ss[i][y] => x = y
      BY <1>5
    <3>q. QED
      BY <3>1, <3>2, <3>3
  <2>4. where[k] = where[l]
    BY <1>11, <2>2, <2>3
  <2>q. QED
    BY <1>9, <2>4 DEF ComesFrom
<1>14. ASSUME NEW e \in Made(records)
       PROVE  \E k \in 1..Len(flat) : at[k] = e
  <2>1. PICK c \in C, component \in {"latency", "memory"} :
           e = <<c, component>> /\ HasEntry(records, c, component)
    BY DEF Made, C
  <2>2. PICK i \in DOMAIN cells : cells[i] = c
    BY <1>2
  <2>3. PICK l \in DOMAIN ss[i] : ss[i][l] = E(<<c, component>>)
    BY <1>5, <2>1, <2>2
  <2>4. <<i, l>> \in Places(ss, Len(ss))
    <3>1. i \in 1..Len(ss) /\ ss[i] \in Seq(S)
      BY <1>3, <1>4, <1>5
    <3>2. l \in Nat /\ l \in 1..Len(ss[i])
      BY <3>1
    <3>q. QED
      BY <3>1, <3>2 DEF Places
  <2>5. PICK k \in 1..Len(flat) : where[k] = <<i, l>>
    BY <1>9, <2>4 DEF ComesFrom
  <2>6. flat[k] = E(<<c, component>>) /\ cells[where[k][1]] = c
    BY <1>11, <2>2, <2>3, <2>5
  <2>7. flat[k].selector.component = component
    <3> DEFINE p == <<c, component>>
    <3>0. p[2] = component /\ component \in {"latency", "memory"}
      BY <2>1
    <3> HIDE DEF p
    <3>1. EntryOf(records, p, split, fits).selector.component = component
      BY <3>0, ComponentOfEntry
    <3>2. flat[k] = EntryOf(records, <<c, component>>, split, fits)
      BY <2>6 DEF E
    <3>q. QED
      BY <3>1, <3>2 DEF p
  <2>8. at[k] = <<c, component>>
    BY <2>6, <2>7
  <2>q. QED
    BY <2>1, <2>8
<1> HIDE DEF at
<1>15. EntriesAt(a, split, fits, at)
  BY <1>7, <1>10, <1>12, <1>13, <1>14 DEF EntriesAt, E
<1>q. QED
  BY <1>15

\* The coefficients of an entry.
EntryTyped(e) ==
    /\ e.selector.component = "latency" => e.coefficients \in LatencyCoefficients
    /\ e.selector.component = "memory" =>
          e.coefficients \in [slope : Nat, residual : Nat, count : Nat]

LEMMA MadeIsTyped ==
    ASSUME CostAssumption, NEW records, FittedRecords(records), NEW split \in Splits,
           NEW fits, FitsOK(records, fits), NEW e \in Made(records)
    PROVE  /\ HoldoutsOK(records, split, EntryOf(records, e, split, fits))
           /\ EntryTyped(EntryOf(records, e, split, fits))
<1> DEFINE entry == EntryOf(records, e, split, fits)
           cell == e[1]
           S == InCell(records, cell)
           L == Launches(records)
<1>1. /\ cell \in Cells(records) /\ e[2] \in {"latency", "memory"}
  BY DEF Made
<1>2. S \subseteq DOMAIN records
  BY DEF InCell, Supported
<1>3. ASSUME NEW T \in SUBSET S
      PROVE  SoundSplit(Holdout(records, T, split), DOMAIN records, L, split)
  <2>1. T \in SUBSET (DOMAIN records)
    BY <1>2
  <2>2. PICK R : records \in Seq(R)
    BY DEF FittedRecords
  <2>3. \A i \in DOMAIN records : records[i].run \in Nat
    BY DEF FittedRecords
  <2>4. SoundSplit(SplitByRun(T, L, split.num, split.den), T, L, split)
    BY <2>1, <2>2, <2>3, HoldoutOfRecords
  <2>q. QED
    BY <2>1, <2>4 DEF SoundSplit, Holdout
<1>4. entry.selector.component = e[2]
  BY <1>1, ComponentOfEntry
<1>5. CASE e[2] = "latency"
  <2>1. entry = LatencyEntry(records, cell, split, fits[cell].latency)
    BY <1>5 DEF EntryOf
  <2>2. TimedOf(records, cell) \in SUBSET S
    BY DEF TimedOf, Timed
  <2>3. /\ entry.holdouts = {Holdout(records, TimedOf(records, cell), split)}
        /\ entry.coefficients = fits[cell].latency
    BY <2>1 DEF LatencyEntry
  <2> HIDE DEF entry
  <2>4. SoundSplit(Holdout(records, TimedOf(records, cell), split), DOMAIN records, L, split)
    BY <1>3, <2>2
  <2>5. fits[cell].latency \in LatencyCoefficients
    BY <1>1 DEF FitsOK
  <2>6. HoldoutsOK(records, split, entry)
    BY <2>3, <2>4 DEF HoldoutsOK
  <2>7. EntryTyped(entry)
    BY <1>4, <1>5, <2>3, <2>5 DEF EntryTyped
  <2>q. QED
    BY <2>6, <2>7 DEF entry
<1>6. CASE e[2] = "memory"
  <2> DEFINE fit == MemoryFit(records, cell, fits[cell].memory)
             up == OomIncrease(records, cell, fit)
  <2>1. entry = MemoryEntry(records, cell, split, fits[cell].memory)
    BY <1>6 DEF EntryOf
  <2>2. MeasuredOf(records, cell) \in SUBSET S
    BY DEF MeasuredOf, MeasuredRuns
  <2>3. /\ entry.holdouts = {Holdout(records, MeasuredOf(records, cell), split)}
        /\ entry.coefficients = [slope |-> fit.slope, residual |-> fit.residual + up,
                                 count |-> cell.count]
    BY <2>1 DEF MemoryEntry
  <2> HIDE DEF entry, fit, up
  <2>4. SoundSplit(Holdout(records, MeasuredOf(records, cell), split), DOMAIN records, L, split)
    BY <1>3, <2>2
  <2>5. fit \in MemoryCoefficients
    <3>1. fits[cell].memory \in MemoryCoefficients
      BY <1>1 DEF FitsOK
    <3>2. [slope |-> 0, residual |-> 0] \in MemoryCoefficients
      BY DEF MemoryCoefficients
    <3>q. QED
      BY <3>1, <3>2 DEF fit, MemoryFit
  <2>6. up \in Nat
    BY <1>1, <2>5, IncreaseFacts DEF up
  <2>7. cell.count \in Nat
    <3>1. PICK i \in DOMAIN records : cell = CellOf(records[i])
      BY <1>1 DEF Cells, Supported
    <3>q. QED
      BY <3>1, CellFacts
  <2>8. fit.slope \in Nat /\ fit.residual + up \in Nat
    BY <2>5, <2>6 DEF MemoryCoefficients
  <2>9. HoldoutsOK(records, split, entry)
    BY <2>3, <2>4 DEF HoldoutsOK
  <2>10. EntryTyped(entry)
    BY <1>4, <1>6, <2>3, <2>7, <2>8 DEF EntryTyped
  <2>q. QED
    BY <2>9, <2>10 DEF entry
<1>q. QED
  BY <1>1, <1>5, <1>6

\* The fit that an artifact came from.
LEMMA FitOfArtifact ==
    ASSUME NEW a, TrainingArtifactOK(a)
    PROVE  \E fits, at : FitsOK(a.records, fits) /\ EntriesAt(a, a.split, fits, at)
<1>1. PICK fits :
        /\ FitsOK(a.records, fits)
        /\ a.entries = FlattenSeq(CellEntriesOf(a.records, a.split, fits,
                                                SetToSeq(Cells(a.records))))
        /\ a.entries # <<>>
  BY DEF TrainingArtifactOK
<1>2. PICK at : EntriesAt(a, a.split, fits, at)
  BY <1>1, TrainingEntries
<1>q. QED
  BY <1>1, <1>2

LEMMA TrainingEntryFacts ==
    ASSUME CostAssumption, NEW a, TrainingArtifactOK(a)
    PROVE  \A k \in DOMAIN a.entries : /\ HoldoutsOK(a.records, a.split, a.entries[k])
                                       /\ EntryTyped(a.entries[k])
<1>1. PICK fits, at : FitsOK(a.records, fits) /\ EntriesAt(a, a.split, fits, at)
  BY FitOfArtifact
<1>2. FittedRecords(a.records) /\ a.split \in Splits
  BY DEF TrainingArtifactOK
<1>3. \A k \in DOMAIN a.entries :
         at[k] \in Made(a.records) /\ a.entries[k] = EntryOf(a.records, at[k], a.split, fits)
  BY <1>1 DEF EntriesAt
<1>q. QED
  BY <1>1, <1>2, <1>3, MadeIsTyped

-----------------------------------------------------------------------------
\* The life of an artifact

\* What an estimate is made of.
Estimated(a, w, par, distributed, extrapolate) ==
    [of |-> "batch", w |-> w, par |-> par, distributed |-> distributed,
     latency |-> PredictLatency(a, w, par, distributed, extrapolate),
     memory |-> PredictMemory(a, w, par, distributed, extrapolate)]

BatchAnswer ==
    /\ artifact # Missing /\ TrainingArtifactOK(artifact)
    /\ \E w \in Batches, par \in Parallelisms : \E distributed, extrapolate :
          answer = Estimated(artifact, w, par, distributed, extrapolate)

\* What a segment is made of.
Decoded(model, s) ==
    [of |-> "segment", model |-> model, s |-> s,
     c |-> DecodeCoeffs(model, s.requests, s.ctx)]

SegmentAnswer ==
    \E model : \E s \in Segments :
        /\ RolloutModel(model)
        /\ model.type = "distserve" => DistServeTerms(model.coefficients) \in RooflineFits
        /\ answer = Decoded(model, s)

CostInv ==
    /\ profile = <<>> \/ profile \in Profiles
    /\ artifact # Missing => TrainingArtifactOK(artifact) \/ RolloutArtifactOK(artifact)
    /\ answer # Missing => BatchAnswer \/ SegmentAnswer

LEMMA CostInitInv ==
    ASSUME CostInit
    PROVE  CostInv
  BY DEF CostInit, CostInv

LEMMA SaveKeeps ==
    ASSUME CostAssumption, CostInv, NEW a, Save(a),
           a # Missing => TrainingArtifactOK(a) \/ RolloutArtifactOK(a)
    PROVE  CostInv'
<1>1. profile' = profile /\ artifact' = a /\ answer' = Missing
  BY DEF Save
<1>q. QED
  BY <1>1 DEF CostInv

LEMMA RegressTrainingKeeps ==
    ASSUME CostAssumption, CostInv, RegressTraining
    PROVE  CostInv'
<1> DEFINE records == ReadRecords(profile, "training")
<1>1. PICK split \in Splits, fits \in [Cells(records) -> TrainingFits], allow \in BOOLEAN :
         Save(FitTraining(profile, split,
                [c \in DOMAIN fits |-> [fits[c] EXCEPT !.fullRank = @ \/ allow]]))
  BY DEF RegressTraining
<1> DEFINE full == [c \in DOMAIN fits |-> [fits[c] EXCEPT !.fullRank = @ \/ allow]]
           a == FitTraining(profile, split, full)
<1>2. FitsOK(records, full)
  <2> HIDE DEF records
  <2>1. ASSUME NEW cell \in Cells(records)
        PROVE  /\ full[cell].latency \in LatencyCoefficients
               /\ full[cell].memory \in MemoryCoefficients
               /\ TakesTime(full[cell].latency)
    <3> DEFINE fit == fits[cell]
    <3>1. /\ fit \in [latency : LatencyCoefficients, memory : MemoryCoefficients,
                      fullRank : BOOLEAN]
          /\ TakesTime(fit.latency)
      BY DEF TakesTime, CostAssumption, FitAssumption
    <3>2. full[cell] = [fit EXCEPT !.fullRank = @ \/ allow]
      OBVIOUS
    <3> HIDE DEF fit, full
    <3>3. full[cell].latency = fit.latency /\ full[cell].memory = fit.memory
      BY <3>1, <3>2
    <3>q. QED
      BY <3>1, <3>3
  <2> HIDE DEF full
  <2>q. QED
    BY <2>1 DEF FitsOK
<1> HIDE DEF full
<1>3. profile = <<>> \/ profile \in Profiles
  BY DEF CostInv
<1>4. a # Missing => TrainingArtifactOK(a)
  BY <1>2, <1>3, FittedTraining
<1>5. Save(a)
  BY <1>1 DEF full
<1> HIDE DEF a
<1>q. QED
  BY <1>4, <1>5, SaveKeeps

LEMMA RegressRolloutKeeps ==
    ASSUME CostAssumption, CostInv, RegressRollout
    PROVE  CostInv'
<1> DEFINE records == ReadRecords(profile, "rollout")
<1>1. PICK split \in Splits, type \in RolloutTypes :
         \E fits \in [Topologies(records) -> IF type = "psrl" THEN PsrlFitted
                                             ELSE RooflineFits] :
            Save(FitRollout(profile, type, split, fits, Hidden, Intermediate))
  BY DEF RegressRollout, RolloutTypes
<1>2. PICK fits \in [Topologies(records) -> IF type = "psrl" THEN PsrlFitted
                                            ELSE RooflineFits] :
         Save(FitRollout(profile, type, split, fits, Hidden, Intermediate))
  BY <1>1
<1> DEFINE a == FitRollout(profile, type, split, fits, Hidden, Intermediate)
<1>3. profile = <<>> \/ profile \in Profiles
  BY DEF CostInv
<1>4. a # Missing => RolloutArtifactOK(a)
  BY <1>3, FittedRollout
<1>5. Save(a)
  BY <1>2
<1> HIDE DEF a
<1>q. QED
  BY <1>4, <1>5, SaveKeeps

LEMMA EstimateKeeps ==
    ASSUME CostAssumption, CostInv, Estimate
    PROVE  CostInv'
<1>1. artifact # Missing /\ artifact.kind = "training" /\ profile' = profile
      /\ artifact' = artifact
  BY DEF Estimate
<1>2. TrainingArtifactOK(artifact)
  BY <1>1 DEF CostInv, RolloutArtifactOK
<1>3. \E w \in Batches, par \in Parallelisms : \E distributed, extrapolate :
         answer' = Estimated(artifact, w, par, distributed, extrapolate)
  BY DEF Estimate, Estimated
<1>4. BatchAnswer'
  BY <1>1, <1>2, <1>3 DEF BatchAnswer
<1>q. QED
  BY <1>1, <1>4 DEF CostInv

LEMMA DecodeSegmentKeeps ==
    ASSUME CostAssumption, CostInv, DecodeSegment
    PROVE  CostInv'
<1>1. artifact # Missing /\ profile' = profile /\ artifact' = artifact
  BY DEF DecodeSegment
<1>2. PICK par \in Parallelisms, s \in Segments, type \in RolloutTypes :
         LET model == LoadRollout(artifact, type, par)
         IN model # Missing /\ answer' = Decoded(model, s)
  BY DEF DecodeSegment, RolloutTypes, Decoded
<1> DEFINE model == LoadRollout(artifact, type, par)
           entry == EntryFor(artifact.entries, par, <<>>)
           found == HasEntryFor(artifact.entries, par, <<>>)
<1>3. model # Missing /\ answer' = Decoded(model, s)
  BY <1>2
<1>4. /\ artifact.kind = "rollout" /\ artifact.type = type /\ found
      /\ model = [type |-> type, coefficients |-> entry.coefficients]
  BY <1>3 DEF LoadRollout
<1>5. PICK k \in DOMAIN artifact.entries : entry = artifact.entries[k]
  BY <1>4, EntryForIsEntry
<1>6. RolloutArtifactOK(artifact)
  BY <1>1, <1>4 DEF CostInv, TrainingArtifactOK
<1>7. RolloutEntryOK(type, artifact.records, artifact.split, entry)
  BY <1>4, <1>5, <1>6 DEF RolloutArtifactOK
<1> HIDE DEF entry, model
<1>8. /\ RolloutModel(model)
      /\ model.type = "distserve" => DistServeTerms(model.coefficients) \in RooflineFits
  BY <1>4, <1>7 DEF RolloutEntryOK
<1>9. SegmentAnswer'
  <2> DEFINE m == LoadRollout(artifact, type, par)
  <2>1. s \in Segments
    BY <1>2
  <2>2. /\ RolloutModel(m)
        /\ m.type = "distserve" => DistServeTerms(m.coefficients) \in RooflineFits
        /\ answer' = Decoded(m, s)
    BY <1>3, <1>8 DEF model
  <2> HIDE DEF m
  <2>3. \E n : \E t \in Segments :
           /\ RolloutModel(n)
           /\ n.type = "distserve" => DistServeTerms(n.coefficients) \in RooflineFits
           /\ answer' = Decoded(n, t)
    BY <2>1, <2>2
  <2>q. QED
    BY <2>3 DEF SegmentAnswer
<1>q. QED
  BY <1>1, <1>9 DEF CostInv

LEMMA CostNextInv ==
    ASSUME CostAssumption, CostInv, [CostNext]_costVars
    PROVE  CostInv'
<1>1. CASE CollectProfile
  BY <1>1 DEF CollectProfile, CostInv, BatchAnswer, SegmentAnswer
<1>2. CASE RegressTraining
  BY <1>2, RegressTrainingKeeps
<1>3. CASE RegressRollout
  BY <1>3, RegressRolloutKeeps
<1>4. CASE Estimate
  BY <1>4, EstimateKeeps
<1>5. CASE DecodeSegment
  BY <1>5, DecodeSegmentKeeps
<1>6. CASE UNCHANGED costVars
  BY <1>6 DEF costVars, CostInv, BatchAnswer, SegmentAnswer
<1>q. QED
  BY <1>1, <1>2, <1>3, <1>4, <1>5, <1>6 DEF CostNext

\* Every artifact was fitted from collected records, and every answer is that of
\* a loaded model: what the regress commands and the predictors keep true.
THEOREM CostInvariant == CostSpec => []CostInv
<1>1. CostInit => CostInv
  BY CostInitInv
<1>2. CostInv /\ [CostNext]_costVars => CostInv'
  BY CostNextInv, CostAssumption
<1>q. QED
  BY <1>1, <1>2, PTL DEF CostSpec

\* Whenever a share of the launches can be held out, SplitByRun holds out whole
\* launches, at least one of them and not all; if not, it validates on them all.
THEOREM CostHoldoutSound == CostSpec => []HoldoutSound
<1>1. ASSUME CostAssumption, CostInv PROVE HoldoutSound
  <2> DEFINE records == artifact.records
             Runs(S) == {records[a].run : a \in S}
  <2> SUFFICES ASSUME artifact # Missing, NEW i \in DOMAIN artifact.entries,
                      NEW part \in artifact.entries[i].holdouts
               PROVE  \/ /\ part.train = part.validation
                         /\ NoneToHoldOut(Runs(part.train), artifact.split)
                      \/ /\ part.train # {} /\ part.validation # {}
                         /\ Runs(part.train) \cap Runs(part.validation) = {}
    BY DEF HoldoutSound
  <2>1. HoldoutsOK(records, artifact.split, artifact.entries[i])
    <3>1. CASE TrainingArtifactOK(artifact)
      BY <1>1, <3>1, TrainingEntryFacts
    <3>2. CASE RolloutArtifactOK(artifact)
      BY <3>2 DEF RolloutArtifactOK, RolloutEntryOK
    <3>q. QED
      BY <1>1, <3>1, <3>2 DEF CostInv
  <2>2. SoundSplit(part, DOMAIN records, Launches(records), artifact.split)
    BY <2>1 DEF HoldoutsOK
  <2>3. \A a \in DOMAIN records : Launches(records)[a] = records[a].run
    BY DEF Launches
  <2>4. part.train \subseteq DOMAIN records /\ part.validation \subseteq DOMAIN records
    BY <2>2 DEF SoundSplit
  <2>5. {Launches(records)[a] : a \in part.train} = Runs(part.train)
    BY <2>3, <2>4
  <2>6. ASSUME \A a \in part.train, b \in part.validation :
                  Launches(records)[a] # Launches(records)[b]
        PROVE  Runs(part.train) \cap Runs(part.validation) = {}
    BY <2>3, <2>4, <2>6
  <2> HIDE DEF records, Runs
  <2>q. QED
    BY <2>2, <2>5, <2>6 DEF SoundSplit
<1>2. CostInv => HoldoutSound
  BY <1>1, CostAssumption
<1>q. QED
  BY <1>2, CostInvariant, PTL

\* The segment that was answered.
LEMMA AnsweredSegment ==
    ASSUME CostInv, answer # Missing, answer.of = "segment"
    PROVE  \E model : \E s \in Segments :
              /\ RolloutModel(model)
              /\ model.type = "distserve" => DistServeTerms(model.coefficients) \in RooflineFits
              /\ answer = Decoded(model, s)
<1>1. ~BatchAnswer
  BY DEF BatchAnswer, Estimated
<1>q. QED
  BY <1>1 DEF CostInv, SegmentAnswer

\* The closed form of a segment is the sum of its steps in all three families,
\* and the DistServe constants stand for their roofline.
THEOREM CostDecodeTimesAgree == CostSpec => []DecodeTimesAgree
<1>1. ASSUME CostAssumption, CostInv, answer # Missing, answer.of = "segment"
      PROVE  DecodeTimesAgree
  <2>0. PICK model, s :
           /\ s \in Segments /\ RolloutModel(model)
           /\ model.type = "distserve" => DistServeTerms(model.coefficients) \in RooflineFits
           /\ answer = Decoded(model, s)
    BY <1>1, AnsweredSegment
  <2> DEFINE n == s.requests
             ctx == s.ctx
             c == DecodeCoeffs(model, n, ctx)
             StepTime(i) == Predict(model, Step(n, 0, ctx + i * n, n))
  <2>1. n \in Nat /\ ctx \in Nat
    BY <1>1, <2>0 DEF CostAssumption, RequestAssumption, Positive
  <2>2. answer.model = model /\ answer.s = s /\ answer.c = c
    BY <2>0 DEF Decoded
  <2>3. DecodeSteps \in Nat
    BY <1>1 DEF CostAssumption, RequestAssumption
  <2> HIDE DEF n, ctx
  <2>4. \A i \in Nat : StepTime(i) = StepCost(c, i)
    BY <2>0, <2>1, DecodeStep
  <2>5. c \in Coeffs
    <3>1. 0 \in Nat
      OBVIOUS
    <3>q. QED
      BY <2>0, <2>1, <3>1, DecodeStep
  <2> HIDE DEF c, StepTime
  <2>6. ASSUME NEW k \in 0..DecodeSteps
        PROVE  Elapsed(c, k) = FoldFunction(+, 0, [i \in 0..(k - 1) |-> StepTime(i)])
    <3>1. k \in Nat
      BY <2>3
    <3>2. Elapsed(c, k) = FoldFunction(+, 0, [i \in 0..(k - 1) |-> StepCost(c, i)])
      BY <2>5, <3>1, ElapsedSums
    <3>3. [i \in 0..(k - 1) |-> StepCost(c, i)] = [i \in 0..(k - 1) |-> StepTime(i)]
      BY <2>4, <3>1
    <3>q. QED
      BY <3>2, <3>3
  <2>q. QED
    BY <2>0, <2>2, <2>6 DEF DecodeTimesAgree, StepTime, n, ctx
<1>2. ASSUME ~ (answer # Missing /\ answer.of = "segment")
      PROVE  DecodeTimesAgree
  BY <1>2 DEF DecodeTimesAgree
<1>3. CostInv => DecodeTimesAgree
  BY <1>1, <1>2, CostAssumption
<1>q. QED
  BY <1>3, CostInvariant, PTL

\* steps_within returns the largest number of steps that a budget allows,
\* wherever the root of the quadratic lands.
THEOREM CostStepsWithinExact == CostSpec => []StepsWithinExact
<1>1. ASSUME CostAssumption, CostInv, answer # Missing, answer.of = "segment"
      PROVE  StepsWithinExact
  <2>0. PICK model, s :
           /\ s \in Segments /\ RolloutModel(model) /\ answer = Decoded(model, s)
    BY <1>1, AnsweredSegment
  <2> DEFINE c == DecodeCoeffs(model, s.requests, s.ctx)
  <2>1. c \in Coeffs
    <3>1. s.requests \in Nat /\ s.ctx \in Nat /\ 0 \in Nat
      BY <1>1, <2>0 DEF CostAssumption, RequestAssumption, Positive
    <3>q. QED
      BY <2>0, <3>1, DecodeStep
  <2>2. answer.c = c
    BY <2>0 DEF Decoded
  <2> HIDE DEF c
  <2>3. ASSUME NEW budget \in Budgets, NEW seed \in Seeds
        PROVE  StepsWithin(c, budget, seed) =
                  Max({k \in 0..budget : Elapsed(c, k) <= budget})
    <3>1. budget \in Nat \ {0} /\ seed \in Nat
      BY <1>1 DEF CostAssumption, RequestAssumption, Positive
    <3>2. LastToFit(c, budget, StepsWithin(c, budget, seed))
      BY <2>1, <3>1, StepsWithinFits
    <3>q. QED
      BY <2>1, <3>1, <3>2, LargestThatFits
  <2>q. QED
    BY <2>2, <2>3 DEF StepsWithinExact
<1>2. ASSUME ~ (answer # Missing /\ answer.of = "segment")
      PROVE  StepsWithinExact
  BY <1>2 DEF StepsWithinExact
<1>3. CostInv => StepsWithinExact
  BY <1>1, <1>2, CostAssumption
<1>q. QED
  BY <1>3, CostInvariant, PTL

-----------------------------------------------------------------------------
\* The lengths, longest first

\* j is dealt no later than i.
Sooner(lengths, j, i) ==
    lengths[j] > lengths[i] \/ (lengths[j] = lengths[i] /\ j <= i)

SoonerThan(lengths, i) == {j \in DOMAIN lengths : Sooner(lengths, j, i)}

\* Who is dealt later has more before him.
LEMMA LaterHasMore ==
    ASSUME NEW lengths, lengths \in Seq(Nat), NEW i \in DOMAIN lengths,
           NEW j \in DOMAIN lengths, Sooner(lengths, j, i), j # i
    PROVE  /\ Cardinality(SoonerThan(lengths, i)) \in Nat
           /\ Cardinality(SoonerThan(lengths, j)) \in Nat
           /\ Cardinality(SoonerThan(lengths, j)) < Cardinality(SoonerThan(lengths, i))
<1> DEFINE A == SoonerThan(lengths, j)
           B == SoonerThan(lengths, i)
<1>1. /\ IsFiniteSet(DOMAIN lengths)
      /\ \A k \in DOMAIN lengths : lengths[k] \in Nat /\ k \in Int
  BY Positions
<1>2. A \subseteq B
  BY <1>1 DEF SoonerThan, Sooner
<1>3. i \in B /\ i \notin A
  BY <1>1 DEF SoonerThan, Sooner
<1>4. B \subseteq DOMAIN lengths
  BY DEF SoonerThan
<1> HIDE DEF A, B
<1>5. IsFiniteSet(B)
  BY <1>1, <1>4, FS_Subset
<1>6. /\ IsFiniteSet(A) /\ Cardinality(A) <= Cardinality(B)
      /\ Cardinality(A) = Cardinality(B) => A = B
  BY <1>2, <1>5, FS_Subset
<1>7. Cardinality(A) \in Nat /\ Cardinality(B) \in Nat
  BY <1>5, <1>6, FS_CardinalityType
<1>8. Cardinality(A) # Cardinality(B)
  BY <1>3, <1>6
<1>9. Cardinality(A) < Cardinality(B)
  BY <1>6, <1>7, <1>8
<1>q. QED
  BY <1>7, <1>9 DEF A, B

\* Each length has a place of its own, and the longer come first.
LEMMA LongestFirstFacts ==
    ASSUME NEW lengths, lengths \in Seq(Nat)
    PROVE  /\ DOMAIN LongestFirst(lengths) = 1..Len(lengths)
           /\ \A k \in 1..Len(lengths) :
                 \E i \in DOMAIN lengths : LongestFirst(lengths)[k] = lengths[i]
           /\ \A k, l \in 1..Len(lengths) :
                 k <= l => LongestFirst(lengths)[l] <= LongestFirst(lengths)[k]
<1> DEFINE D == DOMAIN lengths
           n == Len(lengths)
           place == [i \in D |-> Cardinality(SoonerThan(lengths, i))]
           at(k) == CHOOSE i \in D : place[i] = k
<1>1. /\ n \in Nat /\ D = 1..n /\ IsFiniteSet(D)
      /\ \A k \in D : lengths[k] \in Nat /\ k \in Int
  BY Positions
<1>2. LongestFirst(lengths) = [k \in D |-> lengths[at(k)]]
  BY DEF LongestFirst, SoonerThan, Sooner
<1>3. Cardinality(D) = n
  <2>1. 1 \in Int /\ n \in Int
    BY <1>1
  <2>2. Cardinality(1..n) = IF 1 > n THEN 0 ELSE n - 1 + 1
    BY <2>1, FS_Interval
  <2>3. Cardinality(1..n) = n
    BY <1>1, <2>2
  <2>q. QED
    BY <1>1, <2>3
<1>4. \A i \in D : place[i] = Cardinality(SoonerThan(lengths, i))
  OBVIOUS
<1> HIDE DEF place, D
<1>5. ASSUME NEW i \in D
      PROVE  place[i] \in D
  <2> DEFINE B == SoonerThan(lengths, i)
  <2>1. B \subseteq D /\ i \in B
    BY <1>1, <1>5 DEF SoonerThan, Sooner, D
  <2> HIDE DEF B
  <2>2. IsFiniteSet(B) /\ Cardinality(B) <= Cardinality(D) /\ Cardinality(B) \in Nat
    BY <1>1, <2>1, FS_Subset, FS_CardinalityType
  <2>3. Cardinality(B) # 0
    BY <2>1, <2>2, FS_EmptySet
  <2>4. Cardinality(B) \in 1..n
    BY <1>1, <1>3, <2>2, <2>3
  <2>q. QED
    BY <1>1, <1>4, <2>4 DEF B
<1>6. \A i, j \in D : Sooner(lengths, j, i) /\ j # i => place[j] < place[i] /\ place[j] # place[i]
  <2> SUFFICES ASSUME NEW i \in D, NEW j \in D, Sooner(lengths, j, i), j # i
               PROVE  place[j] < place[i] /\ place[j] # place[i]
    OBVIOUS
  <2>1. /\ Cardinality(SoonerThan(lengths, i)) \in Nat
        /\ Cardinality(SoonerThan(lengths, j)) \in Nat
        /\ Cardinality(SoonerThan(lengths, j)) < Cardinality(SoonerThan(lengths, i))
    BY LaterHasMore DEF D
  <2>q. QED
    BY <1>4, <2>1
<1>7. \A i, j \in D : place[i] = place[j] => i = j
  <2>1. \A i, j \in D : Sooner(lengths, j, i) \/ Sooner(lengths, i, j)
    BY <1>1 DEF Sooner
  <2>q. QED
    BY <1>6, <2>1
<1>8. \A k \in D : at(k) \in D /\ place[at(k)] = k
  <2>1. place \in Injection(D, D)
    <3>1. place = [i \in D |-> place[i]]
      BY DEF place
    <3>2. place \in [D -> D]
      BY <1>5, <3>1
    <3>q. QED
      BY <1>7, <3>2 DEF Injection, IsInjective
  <2>2. place \in Surjection(D, D)
    BY <1>1, <2>1, FS_Injection
  <2>3. \A k \in D : \E i \in D : place[i] = k
    BY <2>2 DEF Surjection
  <2>q. QED
    BY <2>3
<1> HIDE DEF at
<1>9. ASSUME NEW k \in D, NEW l \in D, k <= l
      PROVE  lengths[at(l)] <= lengths[at(k)]
  <2> DEFINE x == at(k)
             y == at(l)
  <2>1. x \in D /\ y \in D /\ place[x] = k /\ place[y] = l
    BY <1>8
  <2> HIDE DEF x, y
  <2>2. SUFFICES ASSUME ~ (lengths[y] <= lengths[x]) PROVE FALSE
    BY DEF x, y
  <2>3. lengths[y] > lengths[x]
    BY <1>1, <2>1, <2>2
  <2>4. Sooner(lengths, y, x) /\ y # x
    BY <1>1, <2>1, <2>3 DEF Sooner
  <2>5. l < k
    BY <1>6, <2>1, <2>4
  <2>q. QED
    BY <1>1, <1>9, <2>5
<1>10. \A k \in D : LongestFirst(lengths)[k] = lengths[at(k)]
  BY <1>2
<1>11. DOMAIN LongestFirst(lengths) = D
  BY <1>2
<1>12. \A k \in D : \E i \in D : LongestFirst(lengths)[k] = lengths[i]
  BY <1>8, <1>10
<1>13. \A k, l \in D : k <= l => LongestFirst(lengths)[l] <= LongestFirst(lengths)[k]
  BY <1>9, <1>10
<1>14. D = 1..Len(lengths) /\ D = DOMAIN lengths
  BY <1>1 DEF D
<1>q. QED
  BY <1>11, <1>12, <1>13, <1>14

-----------------------------------------------------------------------------
\* The ranks of a batch

\* Microbatch by microbatch and length by length, b is at most a.
Dominates(a, b) ==
    /\ RankMicros(a) /\ RankMicros(b) /\ DOMAIN a = DOMAIN b /\ Len(a) = Len(b)
    /\ \A m \in DOMAIN a : /\ DOMAIN a[m] = DOMAIN b[m] /\ Len(a[m]) = Len(b[m])
                           /\ \A k \in DOMAIN a[m] : b[m][k] <= a[m][k]

LEMMA QuotientOfProduct ==
    ASSUME NEW a \in Nat, NEW n \in Nat \ {0}
    PROVE  (a * n) \div n = a
  OBVIOUS

\* A batch that divides evenly: n sequences, the same number of them for each of
\* dp ranks, in microbatches of mbs.
CutEvenly(n, dp, mbs) ==
    /\ n \div dp \in Nat /\ dp * (n \div dp) = n
    /\ (n \div dp) \div mbs \in Nat \ {0}
    /\ n \div dp = mbs * ((n \div dp) \div mbs)

LEMMA EvenShares ==
    ASSUME NEW n \in Nat \ {0}, NEW dp \in Nat \ {0}, NEW mbs \in Nat \ {0},
           n % (dp * mbs) = 0
    PROVE  CutEvenly(n, dp, mbs)
<1> DEFINE d == dp * mbs
           M == n \div d
<1>1. d \in Nat \ {0}
  <2>1. dp * 1 <= dp * mbs /\ dp * mbs \in Nat
    BY ProductGrows
  <2>q. QED
    BY <2>1
<1>2. n % d = 0
  OBVIOUS
<1>3. d = dp * mbs
  OBVIOUS
<1> HIDE DEF d
<1>4. M \in Nat /\ M * d = n
  BY <1>1, <1>2, ExactQuotient
<1> HIDE DEF M
<1> DEFINE per == M * mbs
<1>5. per \in Nat /\ per * dp = n
  BY <1>3, <1>4
<1>6. M # 0
  BY <1>1, <1>4
<1>7. per \div mbs = M
  BY <1>4, QuotientOfProduct
<1>8. per = mbs * M
  BY <1>4
<1> HIDE DEF per
<1>9. n \div dp = per
  <2>1. (per * dp) \div dp = per
    BY <1>5, QuotientOfProduct
  <2>q. QED
    BY <1>5, <2>1
<1>10. (n \div dp) \div mbs = M
  BY <1>7, <1>9
<1> DEFINE share == n \div dp
           cut == share \div mbs
<1>11. share = per /\ cut = M
  BY <1>9, <1>10
<1> HIDE DEF share, cut
<1>12. share \in Nat /\ dp * share = n /\ cut \in Nat \ {0} /\ share = mbs * cut
  BY <1>4, <1>5, <1>6, <1>8, <1>11
<1>q. QED
  BY <1>12 DEF CutEvenly, share, cut

\* Where the k-th length of a microbatch of a rank is dealt from.
LEMMA DealtPlace ==
    ASSUME NEW dp \in Nat \ {0}, NEW mbs \in Nat \ {0}, NEW M \in Nat \ {0},
           NEW per \in Nat, per = mbs * M, NEW n \in Nat, n = dp * per,
           NEW r \in 1..dp, NEW m \in 1..M, NEW k \in 1..mbs
    PROVE  r + dp * ((m - 1) * mbs + k - 1) \in 1..n
<1> DEFINE y == mbs * (m - 1)
           z == mbs * (M - 1)
           x == (m - 1) * mbs + k - 1
<1>1. y \in Nat /\ z \in Nat /\ y <= z
  <2>1. m - 1 \in Nat /\ M - 1 \in Nat /\ m - 1 <= M - 1
    OBVIOUS
  <2>q. QED
    BY <2>1, ProductGrows
<1>2. z = per - mbs
  OBVIOUS
<1>3. x = y + k - 1
  OBVIOUS
<1> HIDE DEF y, z, x
<1>4. x \in Nat /\ x <= per - 1 /\ per - 1 \in Nat
  BY <1>1, <1>2, <1>3
<1> DEFINE p == dp * x
           q == dp * (per - 1)
<1>5. p \in Nat /\ q \in Nat /\ p <= q
  BY <1>4, ProductGrows
<1>6. q = n - dp
  OBVIOUS
<1> HIDE DEF p, q
<1>7. r + p \in 1..n
  BY <1>5, <1>6
<1>q. QED
  BY <1>7 DEF p, x

\* The first rank has the longest lengths.
LEMMA FirstRankDominates ==
    ASSUME NEW lengths, lengths \in Seq(Nat), lengths # <<>>,
           NEW dp \in Nat \ {0}, NEW mbs \in Nat \ {0}, Divisible(lengths, dp, mbs)
    PROVE  /\ DOMAIN RankMicrobatches(lengths, dp, mbs) = 1..dp
           /\ \A r \in 1..dp : Dominates(RankMicrobatches(lengths, dp, mbs)[1],
                                         RankMicrobatches(lengths, dp, mbs)[r])
<1> DEFINE n == Len(lengths)
           ordered == LongestFirst(lengths)
           per == n \div dp
           M == per \div mbs
           place(r, m, k) == r + dp * ((m - 1) * mbs + k - 1)
           micro(r) == [m \in 1..M |-> [k \in 1..mbs |-> ordered[place(r, m, k)]]]
           ranks == RankMicrobatches(lengths, dp, mbs)
<1>1. n \in Nat \ {0}
  OBVIOUS
<1>2. /\ per \in Nat /\ dp * per = n /\ M \in Nat \ {0} /\ per = mbs * M
  <2>1. n % (dp * mbs) = 0
    BY DEF Divisible
  <2> HIDE DEF n
  <2>2. CutEvenly(n, dp, mbs)
    BY <1>1, <2>1, EvenShares
  <2>q. QED
    BY <2>2 DEF CutEvenly
<1>3. /\ \A k \in 1..n : \E i \in DOMAIN lengths : ordered[k] = lengths[i]
      /\ \A k, l \in 1..n : k <= l => ordered[l] <= ordered[k]
  BY LongestFirstFacts
<1>4. \A k \in 1..n : ordered[k] \in Nat
  BY <1>3, Positions
<1>5. ranks = [r \in 1..dp |-> micro(r)]
  BY DEF RankMicrobatches
<1> HIDE DEF ranks, ordered, per, M, n
<1>6. \A r \in 1..dp, m \in 1..M, k \in 1..mbs :
         /\ place(r, m, k) \in 1..n
         /\ r \in Int /\ place(r, m, k) = place(1, m, k) + (r - 1)
  <2> SUFFICES ASSUME NEW r \in 1..dp, NEW m \in 1..M, NEW k \in 1..mbs
               PROVE  /\ place(r, m, k) \in 1..n
                      /\ r \in Int /\ place(r, m, k) = place(1, m, k) + (r - 1)
    OBVIOUS
  <2>1. place(r, m, k) \in 1..n
    BY <1>1, <1>2, DealtPlace
  <2>2. r \in Int /\ dp * ((m - 1) * mbs + k - 1) \in Int
    BY <1>2
  <2> DEFINE t == dp * ((m - 1) * mbs + k - 1)
  <2>3. r + t = (1 + t) + (r - 1)
    <3> HIDE DEF t
    <3>1. t \in Int /\ r \in Int
      BY <2>2 DEF t
    <3>q. QED
      BY <3>1
  <2>q. QED
    BY <2>1, <2>2, <2>3
<1>7. 1 \in 1..dp
  OBVIOUS
<1>8. \A m \in 1..M, k \in 1..mbs : place(1, m, k) \in 1..n
  BY <1>6, <1>7
<1> HIDE DEF place
<1>9. ASSUME NEW r \in 1..dp
      PROVE  /\ RankMicros(micro(r)) /\ DOMAIN micro(r) = 1..M /\ Len(micro(r)) = M
             /\ \A m \in 1..M : /\ DOMAIN micro(r)[m] = 1..mbs /\ Len(micro(r)[m]) = mbs
                                /\ \A k \in 1..mbs : micro(r)[m][k] = ordered[place(r, m, k)]
  <2> DEFINE row(m) == [k \in 1..mbs |-> ordered[place(r, m, k)]]
             u == micro(r)
  <2>1. \A m \in 1..M : /\ row(m) \in Seq(Nat) /\ DOMAIN row(m) = 1..mbs
                        /\ Len(row(m)) = mbs
    <3> SUFFICES ASSUME NEW m \in 1..M
                 PROVE  row(m) \in Seq(Nat) /\ DOMAIN row(m) = 1..mbs /\ Len(row(m)) = mbs
      OBVIOUS
    <3>1. \A k \in 1..mbs : ordered[place(r, m, k)] \in Nat
      BY <1>4, <1>6
    <3>q. QED
      BY <3>1
  <2>2. u = [m \in 1..M |-> row(m)]
    OBVIOUS
  <2>3. \A m \in 1..M : \A k \in 1..mbs : row(m)[k] = ordered[place(r, m, k)]
    OBVIOUS
  <2> HIDE DEF row, u
  <2>4. u \in Seq(Seq(Nat)) /\ DOMAIN u = 1..M /\ Len(u) = M
    BY <1>2, <2>1, <2>2
  <2>5. u # <<>>
    BY <1>2, <2>4
  <2>6. RankMicros(u)
    BY <2>4, <2>5 DEF RankMicros
  <2>q. QED
    BY <2>1, <2>2, <2>3, <2>4, <2>6 DEF u
<1>10. ASSUME NEW r \in 1..dp
       PROVE  Dominates(micro(1), micro(r))
  <2>1. \A m \in 1..M, k \in 1..mbs : ordered[place(r, m, k)] <= ordered[place(1, m, k)]
    <3> SUFFICES ASSUME NEW m \in 1..M, NEW k \in 1..mbs
                 PROVE  ordered[place(r, m, k)] <= ordered[place(1, m, k)]
      OBVIOUS
    <3>1. /\ place(1, m, k) \in 1..n /\ place(r, m, k) \in 1..n
          /\ r \in Int /\ place(r, m, k) = place(1, m, k) + (r - 1)
      BY <1>6, <1>8
    <3>2. place(1, m, k) <= place(r, m, k)
      BY <3>1
    <3>q. QED
      BY <1>3, <3>1, <3>2
  <2> HIDE DEF micro
  <2>2. /\ RankMicros(micro(1)) /\ DOMAIN micro(1) = 1..M /\ Len(micro(1)) = M
        /\ \A m \in 1..M : /\ DOMAIN micro(1)[m] = 1..mbs /\ Len(micro(1)[m]) = mbs
                           /\ \A k \in 1..mbs : micro(1)[m][k] = ordered[place(1, m, k)]
    BY <1>7, <1>9
  <2>3. /\ RankMicros(micro(r)) /\ DOMAIN micro(r) = 1..M /\ Len(micro(r)) = M
        /\ \A m \in 1..M : /\ DOMAIN micro(r)[m] = 1..mbs /\ Len(micro(r)[m]) = mbs
                           /\ \A k \in 1..mbs : micro(r)[m][k] = ordered[place(r, m, k)]
    BY <1>9
  <2>q. QED
    BY <2>1, <2>2, <2>3 DEF Dominates
<1> HIDE DEF micro
<1>11. DOMAIN ranks = 1..dp /\ \A r \in 1..dp : ranks[r] = micro(r)
  BY <1>5
<1>12. \A r \in 1..dp : Dominates(ranks[1], ranks[r])
  BY <1>7, <1>10, <1>11
<1>q. QED
  BY <1>11, <1>12 DEF ranks

-----------------------------------------------------------------------------
\* What a rank costs grows with its lengths

\* Position by position, b is at most a.
AtMost(b, a) ==
    /\ a \in Seq(Nat) /\ b \in Seq(Nat) /\ DOMAIN a = DOMAIN b
    /\ \A k \in DOMAIN a : b[k] <= a[k]

LEMMA SumAtMost ==
    ASSUME NEW a, NEW b, AtMost(b, a)
    PROVE  SumSeq(b) <= SumSeq(a)
<1>1. IsFiniteSet(DOMAIN a) /\ \A k \in DOMAIN a : a[k] \in Nat
  BY Positions DEF AtMost
<1>2. \A k \in DOMAIN a : b[k] \in Nat
  BY Positions DEF AtMost
<1>3. Part(b, DOMAIN a) <= Part(a, DOMAIN a)
  BY <1>1, <1>2, PartAtMost DEF AtMost
<1>q. QED
  BY <1>3, SumOfSeq DEF AtMost

LEMMA SquaresAtMost ==
    ASSUME NEW a, NEW b, AtMost(b, a)
    PROVE  SumSquares(b) <= SumSquares(a)
<1>1. \A k \in DOMAIN a : a[k] \in Nat /\ b[k] \in Nat /\ b[k] <= a[k]
  BY Positions DEF AtMost
<1>2. ASSUME NEW k \in DOMAIN a
      PROVE  b[k] * b[k] <= a[k] * a[k]
  <2> DEFINE x == b[k]
             y == a[k]
  <2>1. x \in Nat /\ y \in Nat /\ x <= y
    BY <1>1
  <2> HIDE DEF x, y
  <2>2. x * x <= x * y /\ y * x <= y * y /\ x * y = y * x
    BY <2>1, ProductGrows
  <2>3. x * x \in Nat /\ x * y \in Nat /\ y * y \in Nat
    BY <2>1
  <2>4. x * x <= y * y
    BY <2>2, <2>3
  <2>q. QED
    BY <2>4 DEF x, y
<1>3. AtMost(Squared(b), Squared(a))
  <2>1. /\ Squared(a) \in Seq(Nat) /\ Squared(b) \in Seq(Nat)
        /\ DOMAIN Squared(a) = DOMAIN a /\ DOMAIN Squared(b) = DOMAIN a
    BY SquaredType DEF AtMost
  <2>2. \A k \in DOMAIN a : Squared(a)[k] = a[k] * a[k] /\ Squared(b)[k] = b[k] * b[k]
    BY DEF Squared, AtMost
  <2>q. QED
    BY <1>2, <2>1, <2>2 DEF AtMost
<1>q. QED
  BY <1>3, SumAtMost, SquaredType DEF AtMost

LEMMA MaxAtMost ==
    ASSUME NEW a, NEW b, AtMost(b, a), 1 \in DOMAIN a
    PROVE  Max(ToSet(b)) <= Max(ToSet(a))
<1>1. a \in Seq(Nat) /\ b \in Seq(Nat) /\ 1 \in DOMAIN b /\ DOMAIN a = DOMAIN b
  BY DEF AtMost
<1> DEFINE x == Max(ToSet(a))
           y == Max(ToSet(b))
<1>2. x \in Nat /\ \A k \in DOMAIN a : a[k] <= x
  BY <1>1, MaxOfSeq
<1>3. y \in Nat /\ \E k \in DOMAIN b : y = b[k]
  BY <1>1, MaxOfSeq
<1> HIDE DEF x, y
<1>4. PICK k \in DOMAIN a : y = b[k]
  BY <1>1, <1>3
<1>5. b[k] <= a[k] /\ a[k] <= x /\ a[k] \in Nat
  BY <1>1, <1>2, <1>4, Positions DEF AtMost
<1>6. y <= x
  BY <1>2, <1>3, <1>4, <1>5
<1>q. QED
  BY <1>6 DEF x, y

LEMMA ValuesAtMost ==
    ASSUME NEW a, NEW b, Dominates(a, b)
    PROVE  /\ AtMost(QValues(b), QValues(a)) /\ AtMost(TValues(b), TValues(a))
           /\ 1 \in DOMAIN QValues(a) /\ 1 \in DOMAIN TValues(a)
<1>1. /\ RankMicros(a) /\ RankMicros(b) /\ DOMAIN a = DOMAIN b
      /\ \A m \in DOMAIN a : a[m] \in Seq(Nat) /\ b[m] \in Seq(Nat)
  BY DEF Dominates, RankMicros
<1>2. /\ QValues(a) \in Seq(Nat) /\ TValues(a) \in Seq(Nat)
      /\ QValues(b) \in Seq(Nat) /\ TValues(b) \in Seq(Nat)
      /\ DOMAIN QValues(a) = DOMAIN a /\ DOMAIN TValues(a) = DOMAIN a
      /\ DOMAIN QValues(b) = DOMAIN a /\ DOMAIN TValues(b) = DOMAIN a
      /\ 1 \in DOMAIN a
  BY <1>1, ValuesType
<1>3. \A m \in DOMAIN a : AtMost(b[m], a[m])
  BY <1>1 DEF Dominates, AtMost
<1>4. \A m \in DOMAIN a : SumSeq(b[m]) <= SumSeq(a[m]) /\ SumSquares(b[m]) <= SumSquares(a[m])
  BY <1>3, SumAtMost, SquaresAtMost
<1>5. \A m \in DOMAIN a : /\ QValues(a)[m] = SumSquares(a[m]) /\ QValues(b)[m] = SumSquares(b[m])
                          /\ TValues(a)[m] = SumSeq(a[m]) /\ TValues(b)[m] = SumSeq(b[m])
  BY <1>1 DEF QValues, TValues
<1>q. QED
  BY <1>2, <1>4, <1>5 DEF AtMost

\* The features of a dominated rank are at most those of the first.
LEMMA FeaturesAtMost ==
    ASSUME NEW a, NEW b, Dominates(a, b), NEW pp \in Nat \ {0}
    PROVE  /\ LatencyFeatures(b, pp).q_effective <= LatencyFeatures(a, pp).q_effective
           /\ LatencyFeatures(b, pp).t_effective <= LatencyFeatures(a, pp).t_effective
           /\ LatencyFeatures(b, pp).pipeline_slots = LatencyFeatures(a, pp).pipeline_slots
           /\ ActivationFeature(b, pp) <= ActivationFeature(a, pp)
<1> DEFINE qa == SumSeq(QValues(a))
           qb == SumSeq(QValues(b))
           ta == SumSeq(TValues(a))
           tb == SumSeq(TValues(b))
           mqa == Max(ToSet(QValues(a)))
           mqb == Max(ToSet(QValues(b)))
           mta == Max(ToSet(TValues(a)))
           mtb == Max(ToSet(TValues(b)))
           d == Min({Len(a), pp})
<1>1. /\ AtMost(QValues(b), QValues(a)) /\ AtMost(TValues(b), TValues(a))
      /\ 1 \in DOMAIN QValues(a) /\ 1 \in DOMAIN TValues(a)
  BY ValuesAtMost
<1>2. RankMicros(a) /\ RankMicros(b) /\ Len(a) = Len(b) /\ Len(a) \in Nat
  BY ValuesType DEF Dominates
<1>3. qb <= qa /\ tb <= ta
  BY <1>1, SumAtMost
<1>4. mqb <= mqa /\ mtb <= mta
  BY <1>1, MaxAtMost
<1>5. qa \in Nat /\ qb \in Nat /\ ta \in Nat /\ tb \in Nat
  BY <1>1, SumOfSeq DEF AtMost
<1>6. mqa \in Nat /\ mqb \in Nat /\ mta \in Nat /\ mtb \in Nat
  BY <1>1, MaxOfSeq DEF AtMost
<1>7. d \in Nat
  BY <1>2, MinOfNats
<1>8. /\ LatencyFeatures(a, pp).q_effective = qa + (pp - 1) * mqa
      /\ LatencyFeatures(b, pp).q_effective = qb + (pp - 1) * mqb
      /\ LatencyFeatures(a, pp).t_effective = ta + (pp - 1) * mta
      /\ LatencyFeatures(b, pp).t_effective = tb + (pp - 1) * mtb
      /\ LatencyFeatures(b, pp).pipeline_slots = LatencyFeatures(a, pp).pipeline_slots
  BY <1>2 DEF LatencyFeatures
<1>9. ActivationFeature(a, pp) = d * mta /\ ActivationFeature(b, pp) = d * mtb
  <2>1. ActivationFeature(a, pp) = mta * d /\ ActivationFeature(b, pp) = mtb * d
    BY <1>2 DEF ActivationFeature
  <2> HIDE DEF mta, mtb, d
  <2>q. QED
    BY <1>6, <1>7, <2>1
<1> HIDE DEF qa, qb, ta, tb, mqa, mqb, mta, mtb, d
<1> DEFINE p == pp - 1
<1>10. p \in Nat
  OBVIOUS
<1>11. p * mqb <= p * mqa /\ p * mtb <= p * mta /\ d * mtb <= d * mta
  BY <1>4, <1>6, <1>7, <1>10, ProductGrows
<1>12. p * mqb \in Nat /\ p * mqa \in Nat /\ p * mtb \in Nat /\ p * mta \in Nat
  BY <1>6, <1>10
<1> HIDE DEF p
<1>13. qb + p * mqb <= qa + p * mqa /\ tb + p * mtb <= ta + p * mta
  BY <1>3, <1>5, <1>11, <1>12
<1>q. QED
  BY <1>8, <1>9, <1>11, <1>13 DEF p

\* Never heavier, and never costlier.
LEMMA LoadAtMost ==
    ASSUME NEW a, NEW b, Dominates(a, b)
    PROVE  ~Heavier(Load(b), Load(a))
<1> DEFINE qa == SumSeq(QValues(a))
           qb == SumSeq(QValues(b))
           ta == SumSeq(TValues(a))
           tb == SumSeq(TValues(b))
<1>1. AtMost(QValues(b), QValues(a)) /\ AtMost(TValues(b), TValues(a))
  BY ValuesAtMost
<1>2. qb <= qa /\ tb <= ta
  BY <1>1, SumAtMost
<1>3. qa \in Nat /\ qb \in Nat /\ ta \in Nat /\ tb \in Nat
  BY <1>1, SumOfSeq DEF AtMost
<1>4. Load(a) = <<qa, ta>> /\ Load(b) = <<qb, tb>>
  BY DEF Load
<1> HIDE DEF qa, qb, ta, tb
<1>5. ~(qb > qa) /\ ~(qb = qa /\ tb > ta)
  BY <1>2, <1>3
<1>q. QED
  BY <1>4, <1>5 DEF Heavier

LEMMA LatencyAtMost ==
    ASSUME NEW a, NEW b, Dominates(a, b), NEW pp \in Nat \ {0},
           NEW entry, entry.coefficients \in LatencyCoefficients
    PROVE  LatencyOf(entry, b, pp) <= LatencyOf(entry, a, pp)
<1> DEFINE fa == LatencyFeatures(a, pp)
           fb == LatencyFeatures(b, pp)
           c == entry.coefficients
<1>1. /\ fb.q_effective <= fa.q_effective /\ fb.t_effective <= fa.t_effective
      /\ fb.pipeline_slots = fa.pipeline_slots
  BY FeaturesAtMost
<1>2. /\ fa \in [LatencyFeatureNames -> Nat] /\ fb \in [LatencyFeatureNames -> Nat]
  BY FeaturesType DEF Dominates
<1>3. c.q \in Nat /\ c.t \in Nat /\ c.pipeline \in Nat /\ c.update \in Nat
  BY DEF LatencyCoefficients
<1>4. /\ LatencyOf(entry, a, pp) = c.q * fa.q_effective + c.t * fa.t_effective
                                     + c.pipeline * fa.pipeline_slots + c.update
      /\ LatencyOf(entry, b, pp) = c.q * fb.q_effective + c.t * fb.t_effective
                                     + c.pipeline * fb.pipeline_slots + c.update
  BY DEF LatencyOf
<1> HIDE DEF fa, fb, c
<1>5. /\ fa.q_effective \in Nat /\ fa.t_effective \in Nat /\ fa.pipeline_slots \in Nat
      /\ fb.q_effective \in Nat /\ fb.t_effective \in Nat
  BY <1>2 DEF LatencyFeatureNames
<1> DEFINE qa == c.q * fa.q_effective
           qb == c.q * fb.q_effective
           ta == c.t * fa.t_effective
           tb == c.t * fb.t_effective
           s == c.pipeline * fa.pipeline_slots
<1>6. /\ qb <= qa /\ tb <= ta
  BY <1>1, <1>3, <1>5, ProductGrows
<1>7. qa \in Nat /\ qb \in Nat /\ ta \in Nat /\ tb \in Nat /\ s \in Nat
  BY <1>3, <1>5
<1>8. /\ LatencyOf(entry, a, pp) = qa + ta + s + c.update
      /\ LatencyOf(entry, b, pp) = qb + tb + s + c.update
  BY <1>1, <1>4
<1> HIDE DEF qa, qb, ta, tb, s
<1>q. QED
  BY <1>3, <1>6, <1>7, <1>8

LEMMA MemoryAtMost ==
    ASSUME NEW a, NEW b, Dominates(a, b), NEW par \in Shape, NEW distributed,
           NEW entry, entry.coefficients \in [slope : Nat, residual : Nat, count : Nat]
    PROVE  MemoryOf(entry, b, par, distributed) <= MemoryOf(entry, a, par, distributed)
<1> DEFINE fa == ActivationFeature(a, par.pp)
           fb == ActivationFeature(b, par.pp)
           c == entry.coefficients
           static == ParameterInventory(c.count, par, distributed)
<1>1. par.pp \in Nat \ {0}
  BY DEF Shape, Positive
<1>2. fb <= fa
  BY <1>1, FeaturesAtMost
<1>3. fa \in Nat /\ fb \in Nat
  BY <1>1, FeaturesType DEF Dominates
<1>4. c.slope \in Nat /\ c.residual \in Nat /\ c.count \in Nat
  OBVIOUS
<1>5. static \in Nat
  BY <1>4, InventoryType
<1>6. /\ MemoryOf(entry, a, par, distributed) = static + c.slope * fa + c.residual
      /\ MemoryOf(entry, b, par, distributed) = static + c.slope * fb + c.residual
  BY DEF MemoryOf
<1> HIDE DEF fa, fb, c, static
<1>7. c.slope * fb <= c.slope * fa /\ c.slope * fb \in Nat /\ c.slope * fa \in Nat
  BY <1>2, <1>3, <1>4, ProductGrows
<1>q. QED
  BY <1>4, <1>5, <1>6, <1>7

\* The first rank is the critical one: no other is heavier than it.
LEMMA FirstRankCritical ==
    ASSUME NEW ranks, NEW n \in Nat \ {0}, DOMAIN ranks = 1..n,
           \A r \in 1..n : Dominates(ranks[1], ranks[r])
    PROVE  CriticalRank(ranks) = 1
<1> DEFINE Critical(r) == /\ \A q \in DOMAIN ranks : ~Heavier(Load(ranks[q]), Load(ranks[r]))
                          /\ \A q \in 1..(r - 1) : Heavier(Load(ranks[r]), Load(ranks[q]))
<1>1. \A q \in DOMAIN ranks : ~Heavier(Load(ranks[q]), Load(ranks[1]))
  BY LoadAtMost
<1>2. 1 \in DOMAIN ranks /\ \A q \in 1..(1 - 1) : FALSE
  OBVIOUS
<1>3. Critical(1)
  BY <1>1, <1>2
<1>4. ASSUME NEW r \in DOMAIN ranks, Critical(r), r # 1 PROVE FALSE
  <2>1. 1 \in 1..(r - 1)
    BY <1>4
  <2>2. Heavier(Load(ranks[r]), Load(ranks[1]))
    BY <1>4, <2>1
  <2>q. QED
    BY <1>1, <2>2
<1>5. \A r \in DOMAIN ranks : Critical(r) => r = 1
  BY <1>4
<1>6. CriticalRank(ranks) = CHOOSE r \in DOMAIN ranks : Critical(r)
  BY DEF CriticalRank
<1> HIDE DEF Critical
<1>q. QED
  BY <1>2, <1>3, <1>5, <1>6

\* The ranks of a batch that divides evenly: the critical one is the first.
LEMMA CriticalDominates ==
    ASSUME CostAssumption, NEW w \in Batches, NEW par \in Parallelisms,
           Divisible(w.lengths, par.dp, w.mbs)
    PROVE  /\ par \in Shape /\ par.pp \in Nat \ {0}
           /\ \A micro \in ToSet(RankMicrobatches(w.lengths, par.dp, w.mbs)) :
                 Dominates(CriticalMicrobatches(w, par), micro)
<1> DEFINE ranks == RankMicrobatches(w.lengths, par.dp, w.mbs)
<1>1. /\ w.lengths \in Seq(Positive) /\ w.lengths # <<>> /\ w.mbs \in Nat \ {0}
      /\ par \in Shape
  BY DEF CostAssumption, RequestAssumption, Positive
<1>2. par.pp \in Nat \ {0} /\ par.dp \in Nat \ {0}
  BY <1>1 DEF Shape, Positive
<1>3. w.lengths \in Seq(Nat)
  <2>1. Len(w.lengths) \in Nat /\ DOMAIN w.lengths = 1..Len(w.lengths)
    BY <1>1
  <2>2. \A k \in DOMAIN w.lengths : w.lengths[k] \in Nat
    BY <1>1 DEF Positive
  <2>3. w.lengths \in [1..Len(w.lengths) -> Nat]
    BY <1>1, <2>1, <2>2
  <2>q. QED
    BY <2>1, <2>3
<1>4. DOMAIN ranks = 1..par.dp /\ \A r \in 1..par.dp : Dominates(ranks[1], ranks[r])
  BY <1>1, <1>2, <1>3, FirstRankDominates
<1>5. CriticalMicrobatches(w, par) = ranks[CriticalRank(ranks)]
  BY DEF CriticalMicrobatches
<1> HIDE DEF ranks
<1>6. CriticalRank(ranks) = 1
  BY <1>2, <1>4, FirstRankCritical
<1>7. \A micro \in ToSet(ranks) : Dominates(CriticalMicrobatches(w, par), micro)
  BY <1>4, <1>5, <1>6 DEF ToSet
<1>q. QED
  BY <1>1, <1>2, <1>7 DEF ranks

\* The entry that answers a request holds coefficients of what was asked for.
LEMMA AnsweringEntry ==
    ASSUME CostAssumption, NEW a, TrainingArtifactOK(a), NEW component, NEW w, NEW par,
           NEW distributed, HasTrainingEntry(a, component, w, par, distributed)
    PROVE  /\ TrainingEntry(a, component, w, par, distributed).selector.component = component
           /\ EntryTyped(TrainingEntry(a, component, w, par, distributed))
<1> DEFINE wanted == Selector(component, w.recompute, distributed)
           entry == EntryFor(a.entries, Canonical(par), wanted)
<1>1. /\ TrainingEntry(a, component, w, par, distributed) = entry
      /\ HasEntryFor(a.entries, Canonical(par), wanted)
  BY DEF TrainingEntry, HasTrainingEntry
<1>2. PICK k \in DOMAIN a.entries :
         entry = a.entries[k] /\ Selects(a.entries[k].selector, wanted)
  BY <1>1, EntryForIsEntry
<1>3. "component" \in DOMAIN wanted /\ wanted.component = component
  BY DEF Selector
<1> HIDE DEF entry, wanted
<1>4. entry.selector.component = component
  BY <1>2, <1>3 DEF Selects
<1>5. EntryTyped(entry)
  BY <1>2, TrainingEntryFacts
<1>q. QED
  BY <1>1, <1>4, <1>5

\* The answer for the critical rank covers the others: the longest sequences go
\* to the first rank, microbatch by microbatch, so that it is the heaviest one
\* and the one with the longest microbatch, for the latency as for the memory.
THEOREM CostEstimateCoversRanks == CostSpec => []EstimateCoversRanks
<1>1. ASSUME CostAssumption, CostInv, answer # Missing, answer.of = "batch"
      PROVE  EstimateCoversRanks
  <2>1. ~SegmentAnswer
    BY <1>1 DEF SegmentAnswer, Decoded
  <2>2. BatchAnswer
    BY <1>1, <2>1 DEF CostInv
  <2>3. PICK w \in Batches, par \in Parallelisms : \E distributed, extrapolate :
           answer = Estimated(artifact, w, par, distributed, extrapolate)
    BY <2>2 DEF BatchAnswer
  <2>4. PICK distributed, extrapolate :
           answer = Estimated(artifact, w, par, distributed, extrapolate)
    BY <2>3
  <2>5. /\ answer.w = w /\ answer.par = par /\ answer.distributed = distributed
        /\ answer.latency = PredictLatency(artifact, w, par, distributed, extrapolate)
        /\ answer.memory = PredictMemory(artifact, w, par, distributed, extrapolate)
    BY <2>4 DEF Estimated
  <2>6. TrainingArtifactOK(artifact)
    BY <2>2 DEF BatchAnswer
  <2> DEFINE ranks == ToSet(RankMicrobatches(w.lengths, par.dp, w.mbs))
             critical == CriticalMicrobatches(w, par)
             Entry(component) == TrainingEntry(artifact, component, w, par, distributed)
  <2>7. ASSUME answer.latency # Missing, NEW micro \in ranks
        PROVE  LatencyOf(Entry("latency"), micro, par.pp) <= answer.latency
    <3> DEFINE entry == Entry("latency")
    <3>1. /\ Divisible(w.lengths, par.dp, w.mbs)
          /\ HasTrainingEntry(artifact, "latency", w, par, distributed)
          /\ answer.latency = LatencyOf(entry, critical, par.pp)
      BY <2>5, <2>7 DEF PredictLatency
    <3>2. Dominates(critical, micro) /\ par.pp \in Nat \ {0}
      BY <1>1, <2>3, <2>7, <3>1, CriticalDominates
    <3>3. entry.coefficients \in LatencyCoefficients
      BY <1>1, <2>6, <3>1, AnsweringEntry DEF EntryTyped
    <3> HIDE DEF entry, critical
    <3>4. LatencyOf(entry, micro, par.pp) <= LatencyOf(entry, critical, par.pp)
      BY <3>2, <3>3, LatencyAtMost
    <3>q. QED
      BY <3>1, <3>4 DEF entry
  <2>8. ASSUME answer.memory # Missing, NEW micro \in ranks
        PROVE  MemoryOf(Entry("memory"), micro, par, distributed) <= answer.memory
    <3> DEFINE entry == Entry("memory")
    <3>1. /\ Divisible(w.lengths, par.dp, w.mbs)
          /\ HasTrainingEntry(artifact, "memory", w, par, distributed)
          /\ answer.memory = MemoryOf(entry, critical, par, distributed)
      BY <2>5, <2>8 DEF PredictMemory
    <3>2. Dominates(critical, micro) /\ par \in Shape
      BY <1>1, <2>3, <2>8, <3>1, CriticalDominates
    <3>3. entry.coefficients \in [slope : Nat, residual : Nat, count : Nat]
      BY <1>1, <2>6, <3>1, AnsweringEntry DEF EntryTyped
    <3> HIDE DEF entry, critical
    <3>4. MemoryOf(entry, micro, par, distributed)
             <= MemoryOf(entry, critical, par, distributed)
      BY <3>2, <3>3, MemoryAtMost
    <3>q. QED
      BY <3>1, <3>4 DEF entry
  <2> HIDE DEF ranks, Entry
  <2>9. /\ answer.latency # Missing => \A micro \in ranks :
              LatencyOf(Entry("latency"), micro, par.pp) <= answer.latency
        /\ answer.memory # Missing => \A micro \in ranks :
              MemoryOf(Entry("memory"), micro, par, distributed) <= answer.memory
    BY <2>7, <2>8
  <2>q. QED
    BY <2>5, <2>9 DEF EstimateCoversRanks, ranks, Entry
<1>2. ASSUME ~ (answer # Missing /\ answer.of = "batch")
      PROVE  EstimateCoversRanks
  BY <1>2 DEF EstimateCoversRanks
<1>3. CostInv => EstimateCoversRanks
  BY <1>1, <1>2, CostAssumption
<1>q. QED
  BY <1>3, CostInvariant, PTL

-----------------------------------------------------------------------------
\* The batch that a padded record measured

\* n values, all of them x.
Uniform(s, n, x) ==
    /\ s \in Seq(Positive) /\ Len(s) = n /\ DOMAIN s = 1..n
    /\ \A k \in 1..n : s[k] = x

\* at numbers the places of n rows of m.
Numbers(at, l, n, m) ==
    /\ at \in [1..l -> (1..n) \X (1..m)]
    /\ \A i, j \in 1..l : at[i] = at[j] => i = j
    /\ \A pl \in (1..n) \X (1..m) : \E k \in 1..l : at[k] = pl

LEMMA SameLength ==
    ASSUME NEW n \in Nat, NEW m \in Nat, NEW l \in Nat, NEW at, Numbers(at, l, n, m)
    PROVE  l = n * m
<1> DEFINE D == 1..l
           N == 1..n
           M == 1..m
<1>1. 1 \in Int /\ l \in Int /\ n \in Int /\ m \in Int
  OBVIOUS
<1>2. IsFiniteSet(D) /\ IsFiniteSet(N) /\ IsFiniteSet(M)
  BY <1>1, FS_Interval
<1>3. Cardinality(D) = l /\ Cardinality(N) = n /\ Cardinality(M) = m
  <2>1. \A b \in Nat : Cardinality(1..b) = b
    <3> SUFFICES ASSUME NEW b \in Nat PROVE Cardinality(1..b) = b
      OBVIOUS
    <3>1. 1 \in Int /\ b \in Int
      OBVIOUS
    <3>2. Cardinality(1..b) = IF 1 > b THEN 0 ELSE b - 1 + 1
      BY <3>1, FS_Interval
    <3>q. QED
      BY <3>2
  <2>q. QED
    BY <2>1
<1> HIDE DEF D, N, M
<1>4. Cardinality(N \X M) = n * m
  BY <1>2, <1>3, FS_Product
<1>5. at \in Injection(D, N \X M) /\ at \in Surjection(D, N \X M)
  BY DEF Numbers, Injection, IsInjective, Surjection, D, N, M
<1>6. ExistsBijection(D, N \X M)
  BY <1>5 DEF ExistsBijection, Bijection
<1>7. Cardinality(N \X M) = Cardinality(D)
  BY <1>2, <1>6, FS_Bijection
<1>q. QED
  BY <1>3, <1>4, <1>7

\* Equal rows of equal values in one.
LEMMA UniformRows ==
    ASSUME NEW n \in Nat \ {0}, NEW m \in Nat, NEW x,
           NEW ss, DOMAIN ss = 1..n, Len(ss) = n, ss \in Seq(Seq(Positive)),
           \A i \in 1..n : Uniform(ss[i], m, x)
    PROVE  Uniform(FlattenSeq(ss), n * m, x)
<1> DEFINE flat == FlattenSeq(ss)
           l == Len(flat)
<1>1. flat \in Seq(Positive) /\ \E at : ComesFrom(flat, at, ss, Len(ss))
  BY FlattenPlaces
<1>2. PICK at : ComesFrom(flat, at, ss, n)
  BY <1>1
<1> HIDE DEF flat
<1>3. l \in Nat /\ DOMAIN flat = 1..l
  BY <1>1
<1>4. \A i \in 1..n : Len(ss[i]) = m /\ \A k \in 1..m : ss[i][k] = x
  BY DEF Uniform
<1>5. Places(ss, n) = (1..n) \X (1..m)
  <2>1. \A pl \in Places(ss, n) :
          pl[1] \in 1..n /\ pl[2] \in Nat /\ pl[2] \in 1..Len(ss[pl[1]]) /\ pl = <<pl[1], pl[2]>>
    BY DEF Places
  <2>2. \A c, d : c \in 1..n /\ d \in Nat /\ d \in 1..Len(ss[c]) => <<c, d>> \in Places(ss, n)
    BY DEF Places
  <2>3. \A d \in 1..m : d \in Nat
    OBVIOUS
  <2>q. QED
    BY <1>4, <2>1, <2>2, <2>3
<1>6. /\ at \in [1..l -> (1..n) \X (1..m)]
      /\ \A k \in 1..l : flat[k] = ss[at[k][1]][at[k][2]]
      /\ \A i, j \in 1..l : at[i] = at[j] => i = j
      /\ \A pl \in (1..n) \X (1..m) : \E k \in 1..l : at[k] = pl
  BY <1>2, <1>5 DEF ComesFrom
<1>7. l = n * m
  <2>1. Numbers(at, l, n, m)
    BY <1>6 DEF Numbers
  <2>q. QED
    BY <1>3, <2>1, SameLength
<1>8. \A k \in 1..l : flat[k] = x
  <2> SUFFICES ASSUME NEW k \in 1..l PROVE flat[k] = x
    OBVIOUS
  <2> DEFINE i == at[k][1]
             j == at[k][2]
  <2>1. i \in 1..n /\ j \in 1..m
    BY <1>6
  <2>2. flat[k] = ss[i][j]
    BY <1>6
  <2> HIDE DEF i, j
  <2>q. QED
    BY <1>4, <2>1, <2>2
<1>q. QED
  BY <1>1, <1>3, <1>7, <1>8 DEF Uniform, flat

\* A padded sequence of microbatches is M times mbs sequences of one length.
PaddedAs(micro, M, mbs, x) ==
    /\ M \in Nat \ {0} /\ mbs \in Nat \ {0} /\ x \in Positive
    /\ Len(micro) = M /\ Len(micro[1]) = mbs /\ RankMicros(micro)
    /\ micro = [m \in 1..M |-> [k \in 1..mbs |-> x]]

LEMMA PaddedFacts ==
    ASSUME NEW micro, Padded(micro)
    PROVE  PaddedAs(micro, Len(micro), Len(micro[1]), micro[1][1])
<1> DEFINE M == Len(micro)
           mbs == Len(micro[1])
           x == micro[1][1]
           u == [m \in 1..M |-> [k \in 1..mbs |-> x]]
<1>1. /\ micro \in Seq(Seq(Positive)) /\ micro # <<>> /\ micro[1] # <<>>
      /\ \A m \in DOMAIN micro : /\ Len(micro[m]) = mbs
                                 /\ \A k \in DOMAIN micro[m] : micro[m][k] = x
  BY DEF Padded, EvenMicrobatches
<1>2. M \in Nat \ {0} /\ DOMAIN micro = 1..M /\ 1 \in DOMAIN micro
  BY <1>1
<1>3. \A m \in 1..M : micro[m] \in Seq(Positive)
  BY <1>1, <1>2
<1>4. micro[1] \in Seq(Positive)
  BY <1>2, <1>3
<1>5. mbs \in Nat \ {0} /\ x \in Positive
  BY <1>1, <1>4
<1> HIDE DEF M, mbs, x
<1>6. \A m \in 1..M : micro[m] = [k \in 1..mbs |-> x]
  <2> SUFFICES ASSUME NEW m \in 1..M PROVE micro[m] = [k \in 1..mbs |-> x]
    OBVIOUS
  <2> DEFINE s == micro[m]
  <2>1. s \in Seq(Positive) /\ Len(s) = mbs /\ \A k \in DOMAIN s : s[k] = x
    BY <1>1, <1>2, <1>3
  <2> HIDE DEF s
  <2>2. s = [k \in 1..mbs |-> s[k]] /\ DOMAIN s = 1..mbs
    BY <2>1
  <2>3. s = [k \in 1..mbs |-> x]
    BY <2>1, <2>2
  <2>q. QED
    BY <2>3 DEF s
<1>7. micro = u
  <2>1. micro = [m \in 1..M |-> micro[m]]
    BY <1>1, <1>2 DEF M
  <2>q. QED
    BY <1>6, <2>1
<1>8. RankMicros(micro)
  <2>1. Seq(Positive) \subseteq Seq(Nat)
    BY DEF Positive
  <2>2. micro \in Seq(Seq(Nat))
    BY <1>1, <2>1
  <2>q. QED
    BY <1>1, <2>2 DEF RankMicros
<1>q. QED
  BY <1>2, <1>5, <1>7, <1>8 DEF PaddedAs, M, mbs, x

LEMMA RemainderOfProduct ==
    ASSUME NEW a \in Nat, NEW d \in Nat \ {0}
    PROVE  (a * d) % d = 0
  OBVIOUS

\* dp times M times mbs sequences divide into dp ranks of M microbatches.
Divides(n, dp, M, mbs) ==
    /\ n \in Nat \ {0} /\ n % (dp * mbs) = 0 /\ n \div dp = M * mbs
    /\ (n \div dp) \div mbs = M

LEMMA ProductDivides ==
    ASSUME NEW dp \in Nat \ {0}, NEW M \in Nat \ {0}, NEW mbs \in Nat \ {0}
    PROVE  Divides(dp * (M * mbs), dp, M, mbs)
<1> DEFINE per == M * mbs
           d == dp * mbs
           n == dp * per
<1>1. per \in Nat \ {0}
  <2>1. M * 1 <= M * mbs /\ M * mbs \in Nat
    BY ProductGrows
  <2>q. QED
    BY <2>1
<1>2. d \in Nat \ {0}
  <2>1. dp * 1 <= dp * mbs /\ dp * mbs \in Nat
    BY ProductGrows
  <2>q. QED
    BY <2>1
<1>3. n = M * d
  OBVIOUS
<1>4. per \div mbs = M
  BY QuotientOfProduct
<1>5. d = dp * mbs /\ per = M * mbs
  OBVIOUS
<1> HIDE DEF per, d
<1>6. n \in Nat \ {0}
  <2>1. dp * 1 <= dp * per /\ dp * per \in Nat
    BY <1>1, ProductGrows
  <2>q. QED
    BY <2>1
<1>7. n = per * dp
  BY <1>1
<1>8. (per * dp) \div dp = per
  BY <1>1, QuotientOfProduct
<1>9. (M * d) % d = 0
  BY <1>2, RemainderOfProduct
<1> HIDE DEF n
<1>10. n \div dp = per /\ n % d = 0
  BY <1>3, <1>7, <1>8, <1>9
<1>q. QED
  BY <1>4, <1>5, <1>6, <1>10 DEF Divides, n, per

\* Every rank has M microbatches of mbs sequences of one length.
DealtEvenly(lengths, dp, M, mbs, x) ==
    /\ Divisible(lengths, dp, mbs) /\ lengths \in Seq(Nat) /\ lengths # <<>>
    /\ RankMicrobatches(lengths, dp, mbs) =
          [r \in 1..dp |-> [m \in 1..M |-> [k \in 1..mbs |-> x]]]

\* Equal lengths make equal microbatches, however they are dealt.
LEMMA UniformRanks ==
    ASSUME NEW dp \in Nat \ {0}, NEW M \in Nat \ {0}, NEW mbs \in Nat \ {0}, NEW x,
           NEW n \in Nat, n = dp * (M * mbs), NEW lengths, Uniform(lengths, n, x)
    PROVE  DealtEvenly(lengths, dp, M, mbs, x)
<1> DEFINE per == M * mbs
           ordered == LongestFirst(lengths)
<1>1. /\ n \in Nat \ {0} /\ n % (dp * mbs) = 0 /\ n \div dp = per /\ per \div mbs = M
  <2>1. Divides(dp * (M * mbs), dp, M, mbs)
    BY ProductDivides
  <2>2. Divides(n, dp, M, mbs)
    BY <2>1
  <2>q. QED
    BY <2>2 DEF Divides
<1>2. /\ lengths \in Seq(Positive) /\ Len(lengths) = n /\ DOMAIN lengths = 1..n
      /\ \A k \in 1..n : lengths[k] = x
  BY DEF Uniform
<1>3. per \in Nat /\ per = mbs * M /\ n = dp * per
  OBVIOUS
<1> HIDE DEF per
<1>4. Divisible(lengths, dp, mbs)
  BY <1>1, <1>2 DEF Divisible
<1>5. lengths \in Seq(Nat) /\ lengths # <<>>
  <2>1. Seq(Positive) \subseteq Seq(Nat)
    BY DEF Positive
  <2>q. QED
    BY <1>1, <1>2, <2>1
<1>6. \A k \in 1..n : ordered[k] = x
  BY <1>2, <1>5, LongestFirstFacts
<1> HIDE DEF ordered
<1> DEFINE place(r, m, k) == r + dp * ((m - 1) * mbs + k - 1)
           micro(r) == [m \in 1..M |-> [k \in 1..mbs |-> ordered[place(r, m, k)]]]
<1>7. \A r \in 1..dp, m \in 1..M, k \in 1..mbs : place(r, m, k) \in 1..n
  BY <1>1, <1>3, DealtPlace
<1>8. RankMicrobatches(lengths, dp, mbs) = [r \in 1..dp |-> micro(r)]
  BY <1>1, <1>2 DEF RankMicrobatches, ordered
<1> HIDE DEF place
<1>9. \A r \in 1..dp : micro(r) = [m \in 1..M |-> [k \in 1..mbs |-> x]]
  BY <1>6, <1>7
<1> HIDE DEF micro
<1>q. QED
  BY <1>4, <1>5, <1>8, <1>9 DEF DealtEvenly

\* The batch of a record is cut back into the microbatches that were measured.
LEMMA WorkloadFacts ==
    ASSUME NEW r, TrainingRecord(r), Padded(r.micro)
    PROVE  /\ Divisible(WorkloadOf(r).lengths, r.par.dp, WorkloadOf(r).mbs)
           /\ CriticalMicrobatches(WorkloadOf(r), r.par) = r.micro
           /\ WorkloadOf(r).recompute = r.recompute
<1> DEFINE micro == r.micro
           dp == r.par.dp
           M == Len(micro)
           mbs == Len(micro[1])
           x == micro[1][1]
           row == FlattenSeq(micro)
           rows == [d \in 1..dp |-> row]
           lengths == FlattenSeq(rows)
           w == WorkloadOf(r)
<1>1. w.lengths = lengths /\ w.mbs = mbs /\ w.recompute = r.recompute
  BY DEF WorkloadOf
<1>2. dp \in Nat \ {0} /\ Padded(micro)
  BY DEF TrainingRecord, Shape, Positive
<1>3. PaddedAs(micro, M, mbs, x)
  BY <1>2, PaddedFacts
<1>4. CriticalMicrobatches(w, r.par) =
         RankMicrobatches(lengths, dp, mbs)[CriticalRank(RankMicrobatches(lengths, dp, mbs))]
  BY <1>1 DEF CriticalMicrobatches
<1>5. /\ M \in Nat \ {0} /\ mbs \in Nat \ {0} /\ x \in Positive /\ RankMicros(micro)
      /\ micro = [m \in 1..M |-> [k \in 1..mbs |-> x]]
  BY <1>3 DEF PaddedAs
<1>6. Len(micro) = M
  OBVIOUS
<1> HIDE DEF w, M, mbs, x, dp, micro
<1>7. micro \in Seq(Seq(Positive)) /\ DOMAIN micro = 1..M
  <2>1. micro \in Seq(Seq(Positive))
    BY <1>2 DEF Padded, EvenMicrobatches
  <2>q. QED
    BY <1>5, <2>1
<1>8. \A i \in 1..M : Uniform(micro[i], mbs, x)
  <2> SUFFICES ASSUME NEW i \in 1..M PROVE Uniform(micro[i], mbs, x)
    OBVIOUS
  <2>1. micro[i] = [k \in 1..mbs |-> x]
    BY <1>5
  <2> DEFINE s == [k \in 1..mbs |-> x]
  <2>2. s \in Seq(Positive) /\ Len(s) = mbs /\ DOMAIN s = 1..mbs /\ \A k \in 1..mbs : s[k] = x
    BY <1>5
  <2> HIDE DEF s
  <2>3. Uniform(s, mbs, x)
    BY <2>2 DEF Uniform
  <2>q. QED
    BY <2>1, <2>3 DEF s
<1>9. Uniform(row, M * mbs, x)
  BY <1>5, <1>6, <1>7, <1>8, UniformRows
<1> HIDE DEF row
<1>10. /\ rows \in Seq(Seq(Positive)) /\ DOMAIN rows = 1..dp /\ Len(rows) = dp
       /\ \A i \in 1..dp : rows[i] = row
  <2>1. row \in Seq(Positive)
    BY <1>9 DEF Uniform
  <2>q. QED
    BY <1>2, <2>1
<1> HIDE DEF rows
<1>11. Uniform(lengths, dp * (M * mbs), x)
  <2> DEFINE per == M * mbs
  <2>1. per \in Nat /\ \A i \in 1..dp : Uniform(rows[i], per, x)
    BY <1>5, <1>9, <1>10
  <2> HIDE DEF per
  <2>2. Uniform(FlattenSeq(rows), dp * per, x)
    BY <1>2, <1>10, <2>1, UniformRows
  <2>q. QED
    BY <2>2 DEF per
<1> HIDE DEF lengths
<1> DEFINE ranks == RankMicrobatches(lengths, dp, mbs)
<1>12. /\ Divisible(lengths, dp, mbs) /\ lengths \in Seq(Nat) /\ lengths # <<>>
       /\ ranks = [q \in 1..dp |-> [m \in 1..M |-> [k \in 1..mbs |-> x]]]
  <2> DEFINE n == dp * (M * mbs)
  <2>1. Uniform(lengths, n, x) /\ n = dp * (M * mbs) /\ n \in Nat
    BY <1>2, <1>5, <1>11
  <2> HIDE DEF n
  <2>2. DealtEvenly(lengths, dp, M, mbs, x)
    BY <1>2, <1>5, <2>1, UniformRanks
  <2>q. QED
    BY <2>2 DEF DealtEvenly
<1>13. DOMAIN ranks = 1..dp /\ \A q \in 1..dp : Dominates(ranks[1], ranks[q])
  BY <1>2, <1>5, <1>12, FirstRankDominates
<1>14. ranks[1] = micro
  BY <1>2, <1>5, <1>12
<1> HIDE DEF ranks
<1>15. CriticalRank(ranks) = 1
  BY <1>2, <1>13, FirstRankCritical
<1>16. CriticalMicrobatches(w, r.par) = micro
  BY <1>4, <1>14, <1>15 DEF ranks
<1>q. QED
  BY <1>1, <1>12, <1>16 DEF w, micro, dp

-----------------------------------------------------------------------------
\* The entry of a cell is the one that is found

LEMMA CellIsRecord ==
    ASSUME NEW records, NEW cell \in Cells(records)
    PROVE  \E i \in Supported(records) :
              /\ cell = CellOf(records[i])
              /\ cell = [tp |-> cell.tp, pp |-> cell.pp, recompute |-> cell.recompute,
                         distributed |-> cell.distributed, count |-> cell.count]
<1>1. PICK i \in Supported(records) : cell = CellOf(records[i])
  BY DEF Cells
<1> DEFINE r == records[i]
<1>2. cell = [tp |-> r.par.tp, pp |-> r.par.pp, recompute |-> r.recompute,
              distributed |-> r.distributed, count |-> ParameterCount(r)]
  BY <1>1 DEF CellOf
<1> HIDE DEF r
<1>3. cell = [tp |-> cell.tp, pp |-> cell.pp, recompute |-> cell.recompute,
              distributed |-> cell.distributed, count |-> cell.count]
  BY <1>2
<1>q. QED
  BY <1>1, <1>3

\* What two cells of one parallelism and one selector share.
LEMMA SameButCount ==
    ASSUME NEW records, NEW cell \in Cells(records), NEW other \in Cells(records),
           OneCount(records, cell), NEW x, NEW y,
           CellParallelism(other) = CellParallelism(cell),
           Selects(CellSelector(other, y), CellSelector(cell, x))
    PROVE  other = cell /\ y = x
<1>1. other.tp = cell.tp /\ other.pp = cell.pp
  BY DEF CellParallelism, Par
<1>2. /\ y = x /\ other.recompute = cell.recompute /\ other.distributed = cell.distributed
  <2> DEFINE s == CellSelector(other, y)
             t == CellSelector(cell, x)
  <2>1. /\ DOMAIN t = {"component", "recompute", "distributed"}
        /\ s.component = y /\ t.component = x
        /\ s.recompute = other.recompute /\ t.recompute = cell.recompute
        /\ s.distributed = other.distributed /\ t.distributed = cell.distributed
    BY DEF CellSelector, Selector
  <2> HIDE DEF s, t
  <2>2. \A k \in DOMAIN t : s[k] = t[k]
    BY DEF Selects, s, t
  <2>q. QED
    BY <2>1, <2>2
<1>3. /\ cell = [tp |-> cell.tp, pp |-> cell.pp, recompute |-> cell.recompute,
                 distributed |-> cell.distributed, count |-> cell.count]
      /\ other = [tp |-> other.tp, pp |-> other.pp, recompute |-> other.recompute,
                  distributed |-> other.distributed, count |-> other.count]
  BY CellIsRecord
<1>4. [other EXCEPT !.count = cell.count] = cell
  <2>1. [other EXCEPT !.count = cell.count] =
           [tp |-> other.tp, pp |-> other.pp, recompute |-> other.recompute,
            distributed |-> other.distributed, count |-> cell.count]
    BY <1>3
  <2>q. QED
    BY <1>1, <1>2, <1>3, <2>1
<1>q. QED
  BY <1>2, <1>4 DEF OneCount

\* The entry of the cell and the component that a run was measured for.
LEMMA OwnEntry ==
    ASSUME CostAssumption, NEW a, TrainingArtifactOK(a), NEW split, NEW fits, NEW at,
           EntriesAt(a, split, fits, at), NEW i \in Supported(a.records),
           OneCount(a.records, CellOf(a.records[i])),
           NEW component \in {"latency", "memory"},
           HasEntry(a.records, CellOf(a.records[i]), component),
           NEW w, w.recompute = a.records[i].recompute
    PROVE  /\ HasTrainingEntry(a, component, w, a.records[i].par, a.records[i].distributed)
           /\ TrainingEntry(a, component, w, a.records[i].par, a.records[i].distributed)
                = EntryOf(a.records, <<CellOf(a.records[i]), component>>, split, fits)
<1> DEFINE records == a.records
           r == records[i]
           cell == CellOf(r)
           e == <<cell, component>>
           wanted == Selector(component, w.recompute, r.distributed)
           found == Matches(a.entries, Canonical(r.par), wanted)
<1>1. cell \in Cells(records) /\ e \in Made(records) /\ e[1] = cell /\ e[2] = component
  <2>1. cell \in Cells(records)
    BY DEF Cells
  <2> HIDE DEF cell
  <2>2. e \in Cells(records) \X {"latency", "memory"} /\ e[1] = cell /\ e[2] = component
    BY <2>1
  <2>3. HasEntry(records, cell, component)
    BY DEF cell
  <2>q. QED
    BY <2>1, <2>2, <2>3 DEF Made
<1>2. cell.tp = r.par.tp /\ cell.pp = r.par.pp /\ wanted = CellSelector(cell, component)
  BY DEF CellOf, CellSelector
<1>3. Canonical(r.par) = CellParallelism(cell)
  <2>1. i \in DOMAIN records
    BY DEF Supported
  <2>2. r.par \in Shape
    BY <2>1 DEF TrainingArtifactOK, FittedRecords, TrainingRecord
  <2>3. [r.par EXCEPT !.dp = 1] = [tp |-> r.par.tp, pp |-> r.par.pp, dp |-> 1]
    BY <2>2 DEF Shape
  <2>q. QED
    BY <1>2, <2>3 DEF Canonical, CellParallelism, Par
<1>4. PICK k \in DOMAIN a.entries : at[k] = e
  BY <1>1 DEF EntriesAt
<1> HIDE DEF cell, wanted, e, records
<1>5. /\ \A l \in DOMAIN a.entries :
            at[l] \in Made(records) /\ a.entries[l] = EntryOf(records, at[l], split, fits)
      /\ \A l \in DOMAIN a.entries : at[l] = at[k] => l = k
  BY DEF EntriesAt, records
<1>6. \A c \in Made(records) :
         /\ EntryOf(records, c, split, fits).selector = CellSelector(c[1], c[2])
         /\ EntryOf(records, c, split, fits).parallelism = CellParallelism(c[1])
         /\ c[1] \in Cells(records) /\ c = <<c[1], c[2]>>
  <2>1. \A c \in Made(records) : c[1] \in Cells(records) /\ c = <<c[1], c[2]>>
                                 /\ c[2] \in {"latency", "memory"}
    BY DEF Made
  <2>q. QED
    BY <2>1, ComponentOfEntry
<1>7. \A x : Selects(x, x)
  BY DEF Selects
<1>8. k \in found
  BY <1>1, <1>2, <1>3, <1>4, <1>5, <1>6, <1>7 DEF Matches
<1>9. ASSUME NEW l \in found PROVE l = k
  <2> DEFINE c == at[l]
  <2>1. /\ l \in DOMAIN a.entries /\ a.entries[l].parallelism = CellParallelism(cell)
        /\ Selects(a.entries[l].selector, wanted)
    BY <1>3 DEF Matches
  <2>2. c \in Made(records) /\ a.entries[l] = EntryOf(records, c, split, fits)
    BY <1>5, <2>1
  <2> HIDE DEF c, found
  <2>3. /\ CellParallelism(c[1]) = CellParallelism(cell) /\ c[1] \in Cells(records)
        /\ Selects(CellSelector(c[1], c[2]), CellSelector(cell, component))
        /\ c = <<c[1], c[2]>>
    BY <1>2, <1>6, <2>1, <2>2
  <2>4. OneCount(records, cell)
    BY DEF records, cell
  <2>5. c[1] = cell /\ c[2] = component
    BY <1>1, <2>3, <2>4, SameButCount
  <2>6. at[l] = at[k]
    BY <1>4, <2>3, <2>5 DEF c, e
  <2>q. QED
    BY <1>5, <2>1, <2>6
<1> HIDE DEF found
<1>10. found = {k}
  BY <1>8, <1>9
<1>11. Cardinality(found) = 1
  BY <1>10, FS_Singleton
<1>12. (CHOOSE l \in found : TRUE) = k
  BY <1>10
<1>13. a.entries[k] = EntryOf(records, e, split, fits)
  BY <1>4, <1>5
<1>14. HasEntryFor(a.entries, Canonical(r.par), wanted)
  BY <1>11 DEF HasEntryFor, found
<1>15. EntryFor(a.entries, Canonical(r.par), wanted) = a.entries[k]
  BY <1>12 DEF EntryFor, found
<1>q. QED
  BY <1>13, <1>14, <1>15 DEF HasTrainingEntry, TrainingEntry, wanted, e, cell, records

-----------------------------------------------------------------------------
\* What was profiled is answered

LEMMA RangeHolds ==
    ASSUME NEW V, IsFiniteSet(V), \A x \in V : x \in Int, NEW v \in V
    PROVE  RangeOf(V).low <= v /\ v <= RangeOf(V).high
<1>1. V # {}
  OBVIOUS
<1>2. Min(V) \in V /\ \A y \in V : Min(V) <= y
  BY <1>1, MinIsLeast
<1>3. Max(V) \in V /\ \A y \in V : Max(V) >= y
  BY <1>1, MaxIsGreatest
<1>4. Min(V) <= v /\ v <= Max(V)
  BY <1>2, <1>3
<1>q. QED
  BY <1>4 DEF RangeOf

\* No summand is greater than the sum.
LEMMA SumAtLeast ==
    ASSUME NEW s, s \in Seq(Nat), NEW k \in DOMAIN s
    PROVE  s[k] <= SumSeq(s)
<1>1. IsFiniteSet(DOMAIN s) /\ \A j \in DOMAIN s : s[j] \in Nat
  BY Positions
<1>2. Sums(s, DOMAIN s)
  BY <1>1, PartSums
<1> DEFINE D == DOMAIN s
           rest == Part(s, D \ {k})
<1>3. D \ {k} \in SUBSET D /\ D \in SUBSET D
  OBVIOUS
<1>4. rest \in Nat /\ Part(s, D) = s[k] + rest
  BY <1>2, <1>3 DEF Sums
<1>5. SumSeq(s) = Part(s, D)
  BY SumOfSeq
<1> HIDE DEF rest, D
<1>q. QED
  BY <1>1, <1>4, <1>5 DEF D

\* A padded sequence of microbatches has something to compute.
LEMMA PaddedFeatures ==
    ASSUME NEW micro, Padded(micro), NEW pp \in Nat \ {0}
    PROVE  /\ RankMicros(micro)
           /\ LatencyFeatures(micro, pp).q_effective >= 1
           /\ LatencyFeatures(micro, pp).t_effective >= 1
           /\ LatencyFeatures(micro, pp).pipeline_slots >= 1
<1> DEFINE s == micro[1]
           q == QValues(micro)
           t == TValues(micro)
           x == s[1]
<1>1. /\ RankMicros(micro) /\ x \in Positive /\ Len(s) \in Nat \ {0}
  BY PaddedFacts DEF PaddedAs
<1>2. s \in Seq(Nat) /\ 1 \in DOMAIN micro /\ Len(micro) \in Nat \ {0}
  BY <1>1, ValuesType DEF RankMicros
<1>3. 1 \in DOMAIN s /\ x \in Nat /\ x >= 1
  BY <1>1, <1>2 DEF Positive
<1>4. SumSeq(s) >= 1 /\ SumSeq(s) \in Nat
  <2>1. s[1] <= SumSeq(s) /\ SumSeq(s) \in Nat
    BY <1>2, <1>3, SumAtLeast, SumOfSeq
  <2>q. QED
    BY <1>3, <2>1
<1>5. SumSquares(s) >= 1 /\ SumSquares(s) \in Nat
  <2>1. /\ Squared(s) \in Seq(Nat) /\ DOMAIN Squared(s) = DOMAIN s
        /\ SumSquares(s) = SumSeq(Squared(s))
    BY <1>2, SquaredType
  <2>2. Squared(s)[1] <= SumSeq(Squared(s)) /\ SumSeq(Squared(s)) \in Nat
    BY <1>3, <2>1, SumAtLeast, SumOfSeq
  <2>3. Squared(s)[1] = x * x
    BY <1>3 DEF Squared
  <2>4. x * 1 <= x * x /\ x * x \in Nat /\ x * 1 = x
    BY <1>3, ProductGrows
  <2>q. QED
    BY <1>3, <2>1, <2>2, <2>3, <2>4
<1>6. /\ q \in Seq(Nat) /\ t \in Seq(Nat) /\ 1 \in DOMAIN q /\ 1 \in DOMAIN t
      /\ q[1] = SumSquares(s) /\ t[1] = SumSeq(s)
  BY <1>1, <1>2, ValuesType DEF QValues, TValues
<1> HIDE DEF q, t, s, x
<1>7. SumSeq(q) >= 1 /\ SumSeq(t) >= 1 /\ SumSeq(q) \in Nat /\ SumSeq(t) \in Nat
  <2>1. q[1] <= SumSeq(q) /\ t[1] <= SumSeq(t) /\ SumSeq(q) \in Nat /\ SumSeq(t) \in Nat
    BY <1>6, SumAtLeast, SumOfSeq
  <2>q. QED
    BY <1>4, <1>5, <1>6, <2>1
<1> DEFINE mq == Max(ToSet(q))
           mt == Max(ToSet(t))
<1>8. mq \in Nat /\ mt \in Nat
  BY <1>6, MaxOfSeq
<1>9. /\ LatencyFeatures(micro, pp).q_effective = SumSeq(q) + (pp - 1) * mq
      /\ LatencyFeatures(micro, pp).t_effective = SumSeq(t) + (pp - 1) * mt
      /\ LatencyFeatures(micro, pp).pipeline_slots = Len(micro) + pp - 1
  BY DEF LatencyFeatures, q, t
<1> HIDE DEF mq, mt
<1>10. (pp - 1) * mq \in Nat /\ (pp - 1) * mt \in Nat
  <2>1. pp - 1 \in Nat
    OBVIOUS
  <2>q. QED
    BY <1>8, <2>1
<1>q. QED
  BY <1>1, <1>2, <1>7, <1>9, <1>10

LEMMA LatencyIsPositive ==
    ASSUME NEW micro, Padded(micro), NEW pp \in Nat \ {0},
           NEW entry, entry.coefficients \in LatencyCoefficients, TakesTime(entry.coefficients)
    PROVE  LatencyOf(entry, micro, pp) \in Nat /\ LatencyOf(entry, micro, pp) > 0
<1> DEFINE f == LatencyFeatures(micro, pp)
           c == entry.coefficients
<1>1. f.q_effective >= 1 /\ f.t_effective >= 1 /\ f.pipeline_slots >= 1 /\ RankMicros(micro)
  BY PaddedFeatures
<1>2. f \in [LatencyFeatureNames -> Nat]
  BY <1>1, FeaturesType
<1>3. /\ c.q \in Nat /\ c.t \in Nat /\ c.pipeline \in Nat /\ c.update \in Nat
      /\ c.q + c.t + c.pipeline + c.update > 0
  BY DEF LatencyCoefficients, TakesTime
<1>4. LatencyOf(entry, micro, pp) = c.q * f.q_effective + c.t * f.t_effective
                                      + c.pipeline * f.pipeline_slots + c.update
  BY DEF LatencyOf
<1> HIDE DEF f, c
<1>5. f.q_effective \in Nat /\ f.t_effective \in Nat /\ f.pipeline_slots \in Nat
  BY <1>2 DEF LatencyFeatureNames
<1> DEFINE u == c.q * f.q_effective
           v == c.t * f.t_effective
           s == c.pipeline * f.pipeline_slots
<1>6. u \in Nat /\ v \in Nat /\ s \in Nat
  BY <1>3, <1>5
<1>7. c.q * 1 <= u /\ c.t * 1 <= v /\ c.pipeline * 1 <= s
  BY <1>1, <1>3, <1>5, ProductGrows
<1>8. LatencyOf(entry, micro, pp) = u + v + s + c.update
  BY <1>4
<1> HIDE DEF u, v, s
<1>q. QED
  BY <1>3, <1>6, <1>7, <1>8

\* A padded run, in its cell.
Answerable(a, i) ==
    /\ TrainingArtifactOK(a) /\ i \in Supported(a.records)
    /\ Padded(a.records[i].micro) /\ OneCount(a.records, CellOf(a.records[i]))

LEMMA RunFacts ==
    ASSUME CostAssumption, NEW a, NEW i, Answerable(a, i)
    PROVE  /\ i \in DOMAIN a.records /\ TrainingRecord(a.records[i])
           /\ FittedRecords(a.records) /\ IsFiniteSet(DOMAIN a.records)
           /\ i \in InCell(a.records, CellOf(a.records[i]))
           /\ CellOf(a.records[i]) \in Cells(a.records)
           /\ CellOf(a.records[i]).pp = a.records[i].par.pp
           /\ CellOf(a.records[i]).distributed = a.records[i].distributed
           /\ a.records[i].par \in Shape /\ a.records[i].par.pp \in Nat \ {0}
           /\ Padded(a.records[i].micro) /\ RankMicros(a.records[i].micro)
           /\ CellOf(a.records[i]).count \in Nat
<1>1. i \in Supported(a.records) /\ FittedRecords(a.records)
  BY DEF Answerable, TrainingArtifactOK
<1>2. i \in DOMAIN a.records
  BY <1>1 DEF Supported
<1>3. TrainingRecord(a.records[i])
  BY <1>1, <1>2 DEF FittedRecords
<1>4. IsFiniteSet(DOMAIN a.records)
  <2>1. PICK R : a.records \in Seq(R)
    BY <1>1 DEF FittedRecords
  <2>q. QED
    BY <2>1, Positions
<1>5. /\ i \in InCell(a.records, CellOf(a.records[i]))
      /\ CellOf(a.records[i]) \in Cells(a.records)
  BY <1>1 DEF InCell, Cells
<1>6. /\ CellOf(a.records[i]).pp = a.records[i].par.pp
      /\ CellOf(a.records[i]).distributed = a.records[i].distributed
  BY DEF CellOf
<1>7. a.records[i].par \in Shape /\ Padded(a.records[i].micro)
  BY <1>3 DEF TrainingRecord, Answerable
<1>8. a.records[i].par.pp \in Nat \ {0}
  BY <1>7 DEF Shape, Positive
<1>9. RankMicros(a.records[i].micro) /\ CellOf(a.records[i]).count \in Nat
  BY <1>1, <1>2, CellFacts
<1>q. QED
  BY <1>1, <1>2, <1>3, <1>4, <1>5, <1>6, <1>7, <1>8, <1>9

\* The range of a feature holds what each record it was taken from has of it.
LEMMA RangeOfRecords ==
    ASSUME NEW records, FittedRecords(records), NEW S \in SUBSET (DOMAIN records),
           NEW f, DOMAIN f = S, \A j \in S : f[j] \in Nat, NEW i \in S
    PROVE  /\ RangeOf({f[j] : j \in S}).low <= f[i]
           /\ f[i] <= RangeOf({f[j] : j \in S}).high
<1> DEFINE V == {f[j] : j \in S}
<1>1. IsFiniteSet(S)
  <2>1. PICK R : records \in Seq(R)
    BY DEF FittedRecords
  <2>q. QED
    BY <2>1, Positions, FS_Subset
<1>2. IsFiniteSet(V) /\ f[i] \in V /\ \A x \in V : x \in Int
  BY <1>1, FiniteImage
<1> HIDE DEF V
<1>3. RangeOf(V).low <= f[i] /\ f[i] <= RangeOf(V).high
  BY <1>2, RangeHolds
<1>q. QED
  BY <1>3 DEF V

LEMMA FeatureRange ==
    ASSUME CostAssumption, NEW records, FittedRecords(records),
           NEW S \in SUBSET (DOMAIN records), NEW name \in LatencyFeatureNames,
           NEW pp \in Nat \ {0}, NEW i \in S
    PROVE  /\ RangeOf(Feature(name, records, S, pp)).low
                 <= LatencyFeatures(records[i].micro, pp)[name]
           /\ LatencyFeatures(records[i].micro, pp)[name]
                 <= RangeOf(Feature(name, records, S, pp)).high
<1> DEFINE f == [j \in S |-> LatencyFeatures(records[j].micro, pp)[name]]
<1>1. \A j \in S : LatencyFeatures(records[j].micro, pp)[name] \in Nat
  BY CellFacts, FeaturesType
<1>2. /\ {f[j] : j \in S} = Feature(name, records, S, pp)
      /\ DOMAIN f = S /\ \A j \in S : f[j] \in Nat
      /\ f[i] = LatencyFeatures(records[i].micro, pp)[name]
  BY <1>1 DEF Feature
<1> HIDE DEF f
<1>q. QED
  BY <1>2, RangeOfRecords

LEMMA ActivationRange ==
    ASSUME CostAssumption, NEW records, FittedRecords(records),
           NEW S \in SUBSET (DOMAIN records), NEW pp \in Nat \ {0}, NEW i \in S
    PROVE  LET V == {ActivationFeature(records[j].micro, pp) : j \in S}
           IN /\ RangeOf(V).low <= ActivationFeature(records[i].micro, pp)
              /\ ActivationFeature(records[i].micro, pp) <= RangeOf(V).high
<1> DEFINE f == [j \in S |-> ActivationFeature(records[j].micro, pp)]
<1>1. \A j \in S : ActivationFeature(records[j].micro, pp) \in Nat
  BY CellFacts, FeaturesType
<1>2. /\ {f[j] : j \in S} = {ActivationFeature(records[j].micro, pp) : j \in S}
      /\ DOMAIN f = S /\ \A j \in S : f[j] \in Nat
      /\ f[i] = ActivationFeature(records[i].micro, pp)
  BY <1>1
<1> HIDE DEF f
<1>q. QED
  BY <1>2, RangeOfRecords

\* A run that was timed gets a latency.
LEMMA TimedAnswered ==
    ASSUME CostAssumption, NEW a, NEW i, Answerable(a, i),
           i \in TimedOf(a.records, CellOf(a.records[i])), NEW extrapolate
    PROVE  PredictLatency(a, WorkloadOf(a.records[i]), a.records[i].par,
                          a.records[i].distributed, extrapolate) # Missing
<1> DEFINE records == a.records
           r == records[i]
           cell == CellOf(r)
           w == WorkloadOf(r)
           entry == TrainingEntry(a, "latency", w, r.par, r.distributed)
           timed == TimedOf(records, cell)
<1>1. PICK fits, at : FitsOK(records, fits) /\ EntriesAt(a, a.split, fits, at)
  BY FitOfArtifact DEF Answerable
<1>2. /\ i \in DOMAIN records /\ TrainingRecord(r) /\ FittedRecords(records)
      /\ cell \in Cells(records) /\ cell.pp = r.par.pp /\ r.par.pp \in Nat \ {0}
      /\ Padded(r.micro)
  BY RunFacts
<1>3. /\ Divisible(w.lengths, r.par.dp, w.mbs) /\ CriticalMicrobatches(w, r.par) = r.micro
      /\ w.recompute = r.recompute
  BY <1>2, WorkloadFacts
<1>4. HasEntry(records, cell, "latency")
  BY DEF HasEntry
<1>5. /\ HasTrainingEntry(a, "latency", w, r.par, r.distributed)
      /\ entry = EntryOf(records, <<cell, "latency">>, a.split, fits)
  BY <1>1, <1>3, <1>4, OwnEntry DEF Answerable
<1>6. entry = LatencyEntry(records, cell, a.split, fits[cell].latency)
  BY <1>5 DEF EntryOf
<1>7. /\ entry.coefficients = fits[cell].latency
      /\ entry.ranges = [name \in LatencyFeatureNames |->
                           RangeOf(Feature(name, records, timed, cell.pp))]
  BY <1>6 DEF LatencyEntry
<1>8. entry.coefficients \in LatencyCoefficients /\ TakesTime(entry.coefficients)
  BY <1>1, <1>2, <1>7 DEF FitsOK
<1>9. timed \in SUBSET (DOMAIN records) /\ i \in timed
  BY DEF TimedOf, Timed, InCell, Supported
<1> HIDE DEF entry, w, cell, r, timed, records
<1>10. LatencyOf(entry, r.micro, r.par.pp) \in Nat /\ LatencyOf(entry, r.micro, r.par.pp) > 0
  BY <1>2, <1>8, LatencyIsPositive
<1>11. InDomain(entry, LatencyFeatures(r.micro, r.par.pp))
  <2>1. DOMAIN entry.ranges = LatencyFeatureNames
    BY <1>7
  <2>2. \A name \in LatencyFeatureNames :
           /\ entry.ranges[name].low <= LatencyFeatures(r.micro, r.par.pp)[name]
           /\ LatencyFeatures(r.micro, r.par.pp)[name] <= entry.ranges[name].high
    BY <1>2, <1>7, <1>9, FeatureRange DEF r
  <2>q. QED
    BY <2>1, <2>2 DEF InDomain
<1>12. PredictLatency(a, w, r.par, r.distributed, extrapolate) = LatencyOf(entry, r.micro, r.par.pp)
  BY <1>3, <1>5, <1>10, <1>11 DEF PredictLatency, entry
<1>13. Missing \notin Int
  BY DEF CostAssumption, ProfileAssumption
<1>14. PredictLatency(a, w, r.par, r.distributed, extrapolate) # Missing
  BY <1>10, <1>12, <1>13
<1>q. QED
  BY <1>14 DEF w, r, records

\* A run whose memory was measured or exhausted gets an estimate of it; above
\* what its GPU has, if it was exhausted.
LEMMA SeenAnswered ==
    ASSUME CostAssumption, NEW a, NEW i, Answerable(a, i),
           i \in SeenOf(a.records, CellOf(a.records[i])), NEW extrapolate, NEW answered,
           answered = PredictMemory(a, WorkloadOf(a.records[i]), a.records[i].par,
                                    a.records[i].distributed, extrapolate)
    PROVE  /\ answered # Missing
           /\ a.records[i].status = "oom" /\ a.records[i].gpuMemory # Missing
                => answered > a.records[i].gpuMemory
<1> DEFINE records == a.records
           r == records[i]
           cell == CellOf(r)
           w == WorkloadOf(r)
           entry == TrainingEntry(a, "memory", w, r.par, r.distributed)
           seen == SeenOf(records, cell)
<1>1. PICK fits, at : FitsOK(records, fits) /\ EntriesAt(a, a.split, fits, at)
  BY FitOfArtifact DEF Answerable
<1>2. /\ i \in DOMAIN records /\ TrainingRecord(r) /\ FittedRecords(records)
      /\ i \in InCell(records, cell)
      /\ cell \in Cells(records) /\ cell.pp = r.par.pp /\ r.par.pp \in Nat \ {0}
      /\ cell.distributed = r.distributed /\ r.par \in Shape /\ RankMicros(r.micro)
      /\ cell.count \in Nat /\ Padded(r.micro)
  BY RunFacts
<1>3. /\ Divisible(w.lengths, r.par.dp, w.mbs) /\ CriticalMicrobatches(w, r.par) = r.micro
      /\ w.recompute = r.recompute
  BY <1>2, WorkloadFacts
<1>4. HasEntry(records, cell, "memory")
  BY DEF HasEntry
<1>5. /\ HasTrainingEntry(a, "memory", w, r.par, r.distributed)
      /\ entry = EntryOf(records, <<cell, "memory">>, a.split, fits)
  BY <1>1, <1>3, <1>4, OwnEntry DEF Answerable
<1>6. entry = MemoryEntry(records, cell, a.split, fits[cell].memory)
  BY <1>5 DEF EntryOf
<1> DEFINE fit == MemoryFit(records, cell, fits[cell].memory)
           up == OomIncrease(records, cell, fit)
           act == ActivationFeature(r.micro, r.par.pp)
           static == ParameterInventory(cell.count, r.par, r.distributed)
           V == {ActivationFeature(records[j].micro, cell.pp) : j \in seen}
<1>7. /\ entry.coefficients = [slope |-> fit.slope, residual |-> fit.residual + up,
                               count |-> cell.count]
      /\ entry.ranges = [activation_feature |-> RangeOf(V)]
  BY <1>6 DEF MemoryEntry
<1>8. fit \in MemoryCoefficients
  <2>1. fits[cell].memory \in MemoryCoefficients
    BY <1>1, <1>2 DEF FitsOK
  <2>2. [slope |-> 0, residual |-> 0] \in MemoryCoefficients
    BY DEF MemoryCoefficients
  <2> HIDE DEF cell
  <2>q. QED
    BY <2>1, <2>2 DEF MemoryFit
<1>9. seen \in SUBSET (DOMAIN records) /\ i \in seen
  BY DEF SeenOf, MeasuredOf, MeasuredRuns, OutOfMemory, InCell, Supported
<1> HIDE DEF entry, w, seen, fit
<1>10. up \in Nat
  BY <1>2, <1>8, IncreaseFacts
<1>11. act \in Nat /\ static \in Nat
  BY <1>2, FeaturesType, InventoryType
<1>12. InDomain(entry, [activation_feature |-> act])
  <2> DEFINE range == RangeOf(V)
  <2>1. range.low <= act /\ act <= range.high
    BY <1>2, <1>9, ActivationRange
  <2>2. entry.ranges = [activation_feature |-> range]
    BY <1>7
  <2> HIDE DEF range, act
  <2>q. QED
    BY <2>1, <2>2 DEF InDomain
<1> HIDE DEF V
<1>13. answered = MemoryOf(entry, r.micro, r.par, r.distributed)
  BY <1>3, <1>5, <1>12 DEF PredictMemory, entry, w
<1>14. MemoryOf(entry, r.micro, r.par, r.distributed)
          = static + fit.slope * act + (fit.residual + up)
  BY <1>7 DEF MemoryOf
<1>15. ASSUME r.status = "oom", r.gpuMemory # Missing
       PROVE  /\ r.gpuMemory \in Nat
              /\ r.gpuMemory + 1 - static - (fit.slope * act + fit.residual) <= up
  <2>1. i \in OutOfMemory(records, InCell(records, cell))
    BY <1>2, <1>15 DEF OutOfMemory
  <2>2. Deficit(records, cell, fit, i) <= up
    BY <1>2, <1>8, <1>15, <2>1, IncreaseFacts
  <2>3. Deficit(records, cell, fit, i) =
           r.gpuMemory + 1 - static - (fit.slope * act + fit.residual)
    BY <1>2 DEF Deficit, Static
  <2>4. r.gpuMemory \in Nat
    BY <1>2, <1>15 DEF TrainingRecord
  <2>q. QED
    BY <2>2, <2>3, <2>4
<1>16. fit.slope \in Nat /\ fit.residual \in Nat
  BY <1>8 DEF MemoryCoefficients
<1>17. Missing \notin Int
  BY DEF CostAssumption, ProfileAssumption
<1> DEFINE load == fit.slope * act
<1>18. load \in Nat
  BY <1>11, <1>16
<1>19. answered = static + load + (fit.residual + up)
  BY <1>13, <1>14
<1>20. ASSUME r.status = "oom", r.gpuMemory # Missing
       PROVE  /\ r.gpuMemory \in Nat
              /\ r.gpuMemory + 1 - static - (load + fit.residual) <= up
  BY <1>15, <1>20
<1> HIDE DEF load, static, up, act, r, cell
<1>21. answered \in Int
  BY <1>10, <1>11, <1>16, <1>18, <1>19
<1>22. r.status = "oom" /\ r.gpuMemory # Missing => answered > r.gpuMemory
  BY <1>10, <1>11, <1>16, <1>18, <1>19, <1>20
<1>q. QED
  BY <1>17, <1>21, <1>22 DEF r

\* What was profiled is answered: its features lie in the range that was fitted,
\* its cell has one entry, and the intercept was raised above the GPU of every
\* run that exhausted it.
THEOREM CostProfiledPointsAnswered == CostSpec => []ProfiledPointsAnswered
<1>1. ASSUME CostAssumption, CostInv, artifact # Missing, artifact.kind = "training"
      PROVE  ProfiledPointsAnswered
  <2> DEFINE records == artifact.records
             Latency(i) == PredictLatency(artifact, WorkloadOf(records[i]), records[i].par,
                                          records[i].distributed, FALSE)
             Memory(i) == PredictMemory(artifact, WorkloadOf(records[i]), records[i].par,
                                        records[i].distributed, FALSE)
             answered == {i \in Supported(records) :
                            /\ Padded(records[i].micro)
                            /\ OneCount(records, CellOf(records[i]))}
  <2>1. TrainingArtifactOK(artifact)
    BY <1>1 DEF CostInv, RolloutArtifactOK
  <2>2. ASSUME NEW i \in answered
        PROVE  Answerable(artifact, i) /\ i \in InCell(records, CellOf(records[i]))
    BY <2>1, <2>2, <1>1, RunFacts DEF Answerable
  <2>3. ASSUME NEW i \in Timed(records, answered)
        PROVE  Latency(i) # Missing
    <3>1. i \in answered /\ i \in TimedOf(records, CellOf(records[i]))
      BY <2>2, <2>3 DEF Timed, TimedOf
    <3>q. QED
      BY <1>1, <2>2, <3>1, TimedAnswered
  <2>4. ASSUME NEW i \in MeasuredRuns(records, answered)
        PROVE  Memory(i) # Missing
    <3>1. i \in answered /\ i \in SeenOf(records, CellOf(records[i]))
      BY <2>2, <2>4 DEF MeasuredRuns, SeenOf, MeasuredOf
    <3>q. QED
      BY <1>1, <2>2, <3>1, SeenAnswered
  <2>5. ASSUME NEW i \in OutOfMemory(records, answered), records[i].gpuMemory # Missing
        PROVE  Memory(i) # Missing /\ Memory(i) > records[i].gpuMemory
    <3>1. /\ i \in answered /\ i \in SeenOf(records, CellOf(records[i]))
          /\ records[i].status = "oom"
      BY <2>2, <2>5 DEF OutOfMemory, SeenOf
    <3>q. QED
      BY <1>1, <2>2, <2>5, <3>1, SeenAnswered
  <2> HIDE DEF Latency, Memory, answered
  <2>6. /\ \A i \in Timed(records, answered) : Latency(i) # Missing
        /\ \A i \in MeasuredRuns(records, answered) : Memory(i) # Missing
        /\ \A i \in OutOfMemory(records, answered) :
              records[i].gpuMemory # Missing =>
                 Memory(i) # Missing /\ Memory(i) > records[i].gpuMemory
    BY <2>3, <2>4, <2>5
  <2>q. QED
    BY <2>6 DEF ProfiledPointsAnswered, Latency, Memory, answered
<1>2. ASSUME ~ (artifact # Missing /\ artifact.kind = "training")
      PROVE  ProfiledPointsAnswered
  BY <1>2 DEF ProfiledPointsAnswered
<1>3. CostInv => ProfiledPointsAnswered
  BY <1>1, <1>2, CostAssumption
<1>q. QED
  BY <1>3, CostInvariant, PTL

=============================================================================
