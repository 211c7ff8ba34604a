------------------------------ MODULE VerlLoop ------------------------------
(***************************************************************************)
(* The control loop under verl's fully asynchronous policy, VerlPolicy of  *)
(* src/dryrun/policy/verl.py: admission is bounded by a window of samples  *)
(* that is recounted at every weight sync, and completed samples wait in a *)
(* bounded hand-off queue.                                                 *)
(***************************************************************************)
EXTENDS RLLoop, Sequences

CONSTANTS Required,     \* batch_size * require_batches: samples per training step
          SyncStep,     \* trigger_parameter_sync_step
          MaxRequired,  \* int(Required * (staleness_threshold + 1) * SyncStep)
          MaxInflight   \* the policy's max_inflight, or None

\* staleness_threshold is a sample overage, at least 0.
ASSUME VerlAssumption ==
    /\ Required \in Nat \ {0}
    /\ SyncStep \in Nat \ {0}
    /\ MaxRequired \in Nat /\ MaxRequired >= Required * SyncStep
    /\ MaxInflight \in Nat \cup {None}

VARIABLES queue,             \* the hand-off queue, oldest completion first
          stalenessSamples,  \* samples counted against the window
          localTriggerStep

policyVars == <<queue, stalenessSamples, localTriggerStep>>
vars == <<loopVars, policyVars>>

TypeOK ==
    /\ LoopTypeOK
    /\ queue \in Seq(Request)
    /\ stalenessSamples \in Nat
    /\ localTriggerStep \in 1..SyncStep

\* The policy configures itself on the first admit_quota call, before any use.
Init ==
    /\ LoopInit
    /\ queue = <<>>
    /\ stalenessSamples = 0
    /\ localTriggerStep = 1

\* max_queue_size is max_required.
QueueFull == Len(queue) >= MaxRequired

AdmitQuota ==
    IF QueueFull \/ stalenessSamples >= MaxRequired THEN 0
    ELSE Room(MaxRequired - stalenessSamples, MaxInflight, Cardinality(inflight))

InQueue(q) == {q[i] : i \in 1..Len(q)}

BatchFound == Len(queue) >= Required

VerlAdmit(n) ==
    /\ pc = "event" /\ phase = "generate" => ~BatchFound
    /\ Admit(AdmitQuota, n)
    /\ stalenessSamples' = stalenessSamples + n
    /\ UNCHANGED <<queue, localTriggerStep>>

VerlNoBatch ==
    /\ ~BatchFound
    /\ NoBatch
    /\ UNCHANGED policyVars

\* Broken variants: take_batch leaves its last sample in the queue; the sync
\* forgets the samples in flight, is never reached, or comes one step late.
RestWithLast == SubSeq(queue, Required, Len(queue))
SyncForgetsInflight(q) ==
    IF localTriggerStep < SyncStep
      THEN localTriggerStep' = localTriggerStep + 1 /\ UNCHANGED stalenessSamples
      ELSE localTriggerStep' = 1 /\ stalenessSamples' = Len(q)
SyncNever(q) == UNCHANGED <<localTriggerStep, stalenessSamples>>

RestOfQueue == SubSeq(queue, Required + 1, Len(queue))

\* on_version_advance: every SyncStep-th training step recounts the window.
SyncWindow(q) ==
    IF localTriggerStep < SyncStep
      THEN localTriggerStep' = localTriggerStep + 1 /\ UNCHANGED stalenessSamples
      ELSE /\ localTriggerStep' = 1
           /\ stalenessSamples' = Cardinality(inflight') + Len(q)

VerlTrain ==
    /\ BatchFound
    /\ TakeBatch(InQueue(SubSeq(queue, 1, Required)), version + 1, {}, TRUE)
    /\ queue' = RestOfQueue
    /\ SyncWindow(queue')

\* on_complete: a full queue refuses the newcomer.
VerlComplete(r) ==
    /\ Complete(r, ~QueueFull)
    /\ queue' = IF QueueFull THEN queue ELSE Append(queue, r)
    /\ UNCHANGED <<stalenessSamples, localTriggerStep>>

Contract == Len(queue) <= MaxRequired

VerlEngineReturns ==
    /\ EngineReturns(BatchFound, Contract)
    /\ UNCHANGED policyVars

Next ==
    \/ \E n \in 0..AdmitQuota : VerlAdmit(n)
    \/ VerlNoBatch
    \/ VerlTrain
    \/ \E r \in inflight : VerlComplete(r)
    \/ VerlEngineReturns
    \/ Halt /\ UNCHANGED policyVars

Spec == Init /\ [][Next]_vars

FairSpec == Spec /\ WF_vars(Next)

-----------------------------------------------------------------------------

(* The policy's hand-off queue and the loop's ready list hold the same     *)
(* samples, each once: on_complete, take_batch and the loop's own append   *)
(* and remove stay in step.                                                *)
QueueIsReady ==
    /\ InQueue(queue) = ready
    /\ Len(queue) = Cardinality(ready)

(* Every sample in flight or queued is counted against the window, and the *)
(* window never overflows, although a sync recounts it while samples of    *)
(* earlier windows are still in flight.                                    *)
WindowCounts ==
    /\ Cardinality(inflight) + Len(queue) <= stalenessSamples
    /\ stalenessSamples <= MaxRequired

(* The window makes the overflow branch of on_complete unreachable: no     *)
(* finished sample is ever thrown away.                                    *)
NothingDropped == dropped = {}

(* The window keeps its books: queue, window counter and ready list agree  *)
(* at every step, across any number of syncs.                              *)
WindowAccounts == QueueIsReady /\ WindowCounts /\ NothingDropped

(* Every version gets trained: the loop is not starved between two syncs,  *)
(* although consuming a batch gives no admission back before the sync.     *)
TrainingCompletes == <>Finished

(* verl's policy is an admission window of max_required samples.           *)
Window == INSTANCE AdmissionWindow WITH
            Window <- MaxRequired,
            Steps <- NVersions,
            outstanding <- Cardinality(inflight) + Cardinality(ready),
            trained <- version

ImplementsWindow == Window!Spec

=============================================================================
