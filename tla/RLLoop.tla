------------------------------- MODULE RLLoop -------------------------------
(***************************************************************************)
(* The control loop of the simulator, class Simulator of                   *)
(* src/dryrun/simulator/simulator.py, for any staleness policy and any     *)
(* rollout engine.                                                         *)
(*                                                                         *)
(* The loop owns the requests: each one is in flight on a rollout          *)
(* instance, ready for training, consumed by a training step or dropped.   *)
(* What the policy plugin decides (the admission quota, keep or drop on    *)
(* completion, the batch, the requests that expire, the weight version     *)
(* the engines serve, its own assertions) is a parameter of the actions;   *)
(* a policy module conjoins each action with the update of the policy's    *)
(* own state.  What the engine decides (which request completes next, and  *)
(* when the training deadline passes) is nondeterministic.  The engine     *)
(* reports a set of completions per event, so the completions of one event *)
(* are the Complete steps taken before the loop looks at the batch again.  *)
(***************************************************************************)
EXTENDS Integers, FiniteSets

CONSTANTS NVersions,        \* cfg.n_versions: training steps to simulate
          LivelockRounds,   \* cfg.livelock_rounds
          MemoryMayExceed,  \* may a training step not fit in GPU memory?
          MaxRequests,      \* bound: requests admitted in one behaviour (LoopNext only)
          None              \* an absent max_inflight

ASSUME LoopAssumption ==
    /\ NVersions \in Nat \ {0}
    /\ LivelockRounds \in Nat
    /\ MemoryMayExceed \in BOOLEAN
    /\ MaxRequests \in Nat
    /\ None \notin Int

VARIABLES pc,             \* where run(), _train() or _run_engine() stands
          phase,          \* why the engine runs: to get a batch, or beside training
          version,        \* weight version of the trainer
          engineVersion,  \* weight version the rollout engines serve
          nextRid,        \* next request id; also n_admitted
          inflight,       \* requests on an instance
          ready,          \* completed requests kept for training
          consumed,       \* requests trained on, each with its consume_version
          dropped,        \* requests given up
          nConsumed,
          idleRounds

loopVars == <<pc, phase, version, engineVersion, nextRid, inflight, ready,
              consumed, dropped, nConsumed, idleRounds>>

PCs == {"top", "take", "retry", "begin", "engine", "event", "failed", "livelocked"}

\* A request: its id and the weight version it was admitted under (v_traj).
Request == [rid : Nat, v : Nat]

LoopTypeOK ==
    /\ pc \in PCs
    /\ phase \in {"generate", "train"}
    /\ version \in Nat
    /\ engineVersion \in 0..version
    /\ nextRid \in Nat
    /\ inflight \in SUBSET Request
    /\ ready \in SUBSET Request
    /\ consumed \in SUBSET [req : Request, at : Nat]
    /\ dropped \in SUBSET Request
    /\ nConsumed \in Nat
    /\ idleRounds \in Nat

LoopInit ==
    /\ pc = "top"
    /\ phase = "generate"
    /\ version = 0
    /\ engineVersion = 0
    /\ nextRid = 0
    /\ inflight = {}
    /\ ready = {}
    /\ consumed = {}
    /\ dropped = {}
    /\ nConsumed = 0
    /\ idleRounds = 0

-----------------------------------------------------------------------------
(* What the policies share: the quota left of a budget once max_inflight,  *)
(* if there is one, is applied.                                            *)

Room(budget, maxInflight, busy) ==
    LET room == IF maxInflight = None \/ budget <= maxInflight - busy
                  THEN budget ELSE maxInflight - busy
    IN IF room > 0 THEN room ELSE 0

(* Admission.  _admit(quota) dispatches requests one after the other until *)
(* the quota is used or the chosen instance refuses one; an empty engine   *)
(* refuses none, because its gates count only the requests it holds.  The  *)
(* four call sites differ in where the program goes next.                  *)

NewRequests(n) == {[rid |-> nextRid + i, v |-> engineVersion] : i \in 0..(n - 1)}

\* run() looks for a batch after the admission at the top of its loop.
AfterTop == 
    /\ pc = "top"
    /\ pc' = "take"
    /\ UNCHANGED <<phase, idleRounds>>

\* Broken variant: an idle round is not counted.
SameRound == idleRounds

NextRound == idleRounds + 1

\* Nothing was in flight and there was no batch: generate if the second
\* attempt admitted something, else count an idle round.
AfterRetry(n) ==
    /\ pc = "retry"
    /\ IF n > 0
         THEN pc' = "engine" /\ phase' = "generate" /\ UNCHANGED idleRounds
         ELSE /\ pc' = IF NextRound > LivelockRounds THEN "livelocked" ELSE "top"
              /\ idleRounds' = NextRound
              /\ UNCHANGED phase

\* _train() estimates the step and runs the engines beside it; an estimate
\* above the GPU memory raises RuntimeError.
AfterBegin ==
    /\ pc = "begin"
    /\ pc' \in {"engine"} \cup (IF MemoryMayExceed THEN {"failed"} ELSE {})
    /\ phase' = "train"
    /\ UNCHANGED idleRounds

\* _run_engine() goes on with the next event.
AfterEvent ==
    /\ pc = "event"
    /\ pc' = "engine"
    /\ UNCHANGED <<phase, idleRounds>>

Admit(quota, n) ==
    /\ pc = "top" => version < NVersions
    /\ n \in 0..quota
    /\ inflight = {} /\ quota > 0 => n > 0
    /\ inflight' = inflight \cup NewRequests(n)
    /\ nextRid' = nextRid + n
    /\ AfterTop \/ AfterRetry(n) \/ AfterBegin \/ AfterEvent
    /\ UNCHANGED <<version, engineVersion, ready, consumed, dropped, nConsumed>>

-----------------------------------------------------------------------------
(* run() and the first half of _train().                                   *)

\* take_batch() returned None.
NoBatch ==
    /\ pc = "take"
    /\ IF inflight = {}
         THEN pc' = "retry" /\ UNCHANGED phase
         ELSE pc' = "engine" /\ phase' = "generate"
    /\ UNCHANGED <<version, engineVersion, nextRid, inflight, ready, consumed,
                   dropped, nConsumed, idleRounds>>

\* Broken variants: the batch is stamped with the version it produces, and
\* stays in the ready list.
StampedNext(batch) == {[req |-> r, at |-> version + 1] : r \in batch}
ReadyWithBatch(batch, expired) == ready \ expired

Stamped(batch) == {[req |-> r, at |-> version] : r \in batch}
ReadyAfter(batch, expired) == (ready \ batch) \ expired

\* take_batch() returned batch: consume it, advance the version, push weights
\* as the policy says, discard what expires.  ok is FALSE when the policy's
\* expire() raises an AssertionError, before anything is discarded.
TakeBatch(batch, newEngine, expired, ok) ==
    /\ pc = "take"
    /\ ok \/ expired = {}
    /\ pc' = IF ok THEN "begin" ELSE "failed"
    /\ consumed' = consumed \cup Stamped(batch)
    /\ nConsumed' = nConsumed + Cardinality(batch)
    /\ version' = version + 1
    /\ engineVersion' = newEngine
    /\ inflight' = inflight \ expired
    /\ ready' = ReadyAfter(batch, expired)
    /\ dropped' = dropped \cup expired
    /\ idleRounds' = 0
    /\ UNCHANGED <<phase, nextRid>>

-----------------------------------------------------------------------------
(* _run_engine(), seen from the loop.                                      *)

\* _collect() of one completed request.
Complete(r, keep) ==
    /\ pc \in {"engine", "event"}
    /\ r \in inflight
    /\ pc' = "event"
    /\ inflight' = inflight \ {r}
    /\ ready' = IF keep THEN ready \cup {r} ELSE ready
    /\ dropped' = IF keep THEN dropped ELSE dropped \cup {r}
    /\ UNCHANGED <<phase, version, engineVersion, nextRid, consumed, nConsumed, idleRounds>>

\* A completion made the batch available: the engines stop.  The lists have
\* changed since the engine started, so run() resets idle_rounds.
StopOnBatch ==
    /\ pc = "event"
    /\ phase = "generate"
    /\ pc' = "top"
    /\ idleRounds' = 0
    /\ UNCHANGED <<phase, version, engineVersion, nextRid, inflight, ready,
                   consumed, dropped, nConsumed>>

\* The event queue is empty and no batch was found.
GenerateExhausted ==
    /\ pc = "engine"
    /\ phase = "generate"
    /\ inflight = {}
    /\ pc' = "top"
    /\ idleRounds' = 0
    /\ UNCHANGED <<phase, version, engineVersion, nextRid, inflight, ready,
                   consumed, dropped, nConsumed>>

\* The training step ends; the policy then asserts its own contract.
Deadline(contract) ==
    /\ pc = "engine"
    /\ phase = "train"
    /\ pc' = IF contract THEN "top" ELSE "failed"
    /\ UNCHANGED <<phase, version, engineVersion, nextRid, inflight, ready,
                   consumed, dropped, nConsumed, idleRounds>>

\* Aligning the instances completed a request that was not expected to.
EngineFails ==
    /\ pc \in {"engine", "event"}
    /\ pc' = "failed"
    /\ UNCHANGED <<phase, version, engineVersion, nextRid, inflight, ready,
                   consumed, dropped, nConsumed, idleRounds>>

\* The three regular ways out of _run_engine(); batchFound is peek_batch() is not None.
EngineReturns(batchFound, contract) ==
    \/ batchFound /\ StopOnBatch
    \/ GenerateExhausted
    \/ Deadline(contract)

Finished == pc = "top" /\ version = NVersions
Stopped == Finished \/ pc \in {"failed", "livelocked"}

Halt == Stopped /\ UNCHANGED loopVars

-----------------------------------------------------------------------------
(* The loop under an arbitrary policy.                                     *)

LoopNext ==
    \/ \E quota \in 0..(MaxRequests - nextRid) : \E n \in 0..quota : Admit(quota, n)
    \/ NoBatch
    \/ \E batch \in (SUBSET ready) \ {{}} :
       \E newEngine \in engineVersion..(version + 1) :
       \E expired \in SUBSET (inflight \cup (ready \ batch)), ok \in BOOLEAN :
          TakeBatch(batch, newEngine, expired, ok)
    \/ \E r \in inflight, keep \in BOOLEAN : Complete(r, keep)
    \/ \E batchFound, contract \in BOOLEAN : EngineReturns(batchFound, contract)
    \/ EngineFails
    \/ Halt

LoopSpec == LoopInit /\ [][LoopNext]_loopVars

-----------------------------------------------------------------------------
(* Properties of the loop, whatever the policy.                            *)

Trained == {c.req : c \in consumed}
Admitted == inflight \cup ready \cup dropped \cup Trained

(* Every admitted request has exactly one fate, and is trained on at most  *)
(* once: _collect, _discard and _train together neither lose a request nor *)
(* count it in two lists.                                                  *)
OneFate ==
    /\ inflight \cap (ready \cup dropped \cup Trained) = {}
    /\ ready \cap (dropped \cup Trained) = {}
    /\ dropped \cap Trained = {}
    /\ \A c, d \in consumed : c.req = d.req => c = d

(* The requests the lists hold are exactly those _admit numbered, each     *)
(* under one id.                                                           *)
AllAccounted ==
    /\ {r.rid : r \in Admitted} = 0..(nextRid - 1)
    /\ \A r, s \in Admitted : r.rid = s.rid => r = s

(* A request admitted later was never admitted under older weights, and no *)
(* batch contains a request from weights the trainer had not yet produced: *)
(* staleness is never negative.                                            *)
VersionsOrdered ==
    /\ \A r, s \in Admitted : r.rid < s.rid => r.v <= s.v
    /\ \A r \in Admitted : r.v <= engineVersion
    /\ \A c \in consumed : c.req.v <= c.at /\ c.at < version

(* Every training step consumed a batch of its own, and n_consumed is the  *)
(* number of requests trained on.                                          *)
BatchPerVersion ==
    /\ {c.at : c \in consumed} = 0..(version - 1)
    /\ nConsumed = Cardinality(consumed)

(* The versions, the batches and the counters of a run agree: what the     *)
(* staleness of every trained request is computed from.                    *)
BatchesAccounted == VersionsOrdered /\ BatchPerVersion

(* The loop always ends: it trains every version, reports a livelock, or   *)
(* an assertion of a policy or the memory check stops it.                  *)
LoopEnds == <>Stopped

=============================================================================
