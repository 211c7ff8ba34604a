----------------------------- MODULE ArealLoop -----------------------------
(***************************************************************************)
(* The control loop under AReaL's cumulative token bucket, ArealPolicy of  *)
(* src/dryrun/policy/areal.py.  The policy keeps two counters; the bucket  *)
(* grows by one batch per trained version.                                 *)
(***************************************************************************)
EXTENDS RLLoop

CONSTANTS BatchSize,     \* cfg.batch_size
          MaxStaleness,  \* cfg.max_staleness
          MaxInflight    \* the policy's max_inflight, or None

ASSUME ArealAssumption ==
    /\ BatchSize \in Nat \ {0}
    /\ MaxStaleness \in Nat
    /\ MaxInflight \in Nat \cup {None}

VARIABLES accepted, running

vars == <<loopVars, accepted, running>>

TypeOK ==
    /\ LoopTypeOK
    /\ accepted \in Nat
    /\ running \in Nat

Init ==
    /\ LoopInit
    /\ accepted = 0
    /\ running = 0

\* Broken variant: the bucket is one batch too large.
AdmitQuotaOneMore ==
    Room((MaxStaleness + version + 2) * BatchSize - (accepted + running), MaxInflight, running)

AdmitQuota ==
    Room((MaxStaleness + version + 1) * BatchSize - (accepted + running), MaxInflight, running)

\* peek_batch: the BatchSize oldest ready requests, as a set of at most one
\* batch.  Request ids follow dispatch times, so rid alone gives the order.
PeekBatch ==
    {b \in SUBSET ready : /\ Cardinality(b) = BatchSize
                          /\ \A r \in b, s \in ready \ b : r.rid < s.rid}

\* check_invariants: the requests admitted and not consumed fit the bucket.
Contract == nextRid - nConsumed <= (MaxStaleness + 1) * BatchSize

ArealAdmit(n) ==
    /\ Admit(AdmitQuota, n)
    /\ running' = running + n
    /\ UNCHANGED accepted

ArealNoBatch ==
    /\ PeekBatch = {}
    /\ NoBatch
    /\ UNCHANGED <<accepted, running>>

ArealTrain(batch) ==
    /\ TakeBatch(batch, version + 1, {}, TRUE)
    /\ UNCHANGED <<accepted, running>>

\* Broken variant: the running slot is not given back.
ArealCompleteKeepsSlot(r) ==
    Complete(r, TRUE) /\ accepted' = accepted + 1 /\ UNCHANGED running

ArealComplete(r) ==
    /\ Complete(r, TRUE)
    /\ running' = running - 1
    /\ accepted' = accepted + 1

ArealEngineReturns ==
    /\ EngineReturns(PeekBatch # {}, Contract)
    /\ UNCHANGED <<accepted, running>>

\* After an event that ends the engine run, the loop admits nothing more.
ArealGoesOn(n) ==
    /\ pc = "event" /\ phase = "generate" => PeekBatch = {}
    /\ ArealAdmit(n)

Next ==
    \/ \E n \in 0..AdmitQuota : ArealGoesOn(n)
    \/ ArealNoBatch
    \/ \E batch \in PeekBatch : ArealTrain(batch)
    \/ \E r \in inflight : ArealComplete(r)
    \/ ArealEngineReturns
    \/ Halt /\ UNCHANGED <<accepted, running>>

Spec == Init /\ [][Next]_vars

FairSpec == Spec /\ WF_vars(Next)

-----------------------------------------------------------------------------

(* The two counters of the policy are the sizes of the loop's own lists    *)
(* (running the in-flight ones, accepted everything completed so far): a   *)
(* completion counted twice or missed would leak capacity for ever.        *)
CountersAgree ==
    /\ running = Cardinality(inflight)
    /\ accepted = Cardinality(ready) + nConsumed

(* check_invariants of areal.py, at every step and not only at the end of  *)
(* a training step: admitted and unconsumed requests never exceed          *)
(* max_staleness + 1 batches.                                              *)
TokenBucket == nextRid - nConsumed <= (MaxStaleness + 1) * BatchSize

(* Every version gets trained: no contract fails and the loop is never     *)
(* starved, because with nothing in flight and less than a batch ready the *)
(* bucket always has room.                                                 *)
TrainingCompletes == <>Finished

(* The bucket is an admission window of max_staleness + 1 batches.         *)
Bucket == INSTANCE AdmissionWindow WITH
            Window <- (MaxStaleness + 1) * BatchSize,
            Steps <- NVersions,
            outstanding <- nextRid - nConsumed,
            trained <- version

ImplementsWindow == Bucket!Spec

=============================================================================
