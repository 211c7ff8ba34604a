--------------------------- MODULE EngineInstance ---------------------------
(***************************************************************************)
(* One rollout instance (class NativeInstance) driven the way the          *)
(* simulator drives it: requests are added while no event is pending; an   *)
(* event is produced ahead of time and then either committed or undone;    *)
(* after an undo the instance is aligned to a time before that event; and  *)
(* between two engine runs requests are aborted or cancelled and new       *)
(* weights arrive.                                                         *)
(***************************************************************************)
EXTENDS EngineSteps

CONSTANTS NRequests,   \* bound: requests added in one behaviour
          Interrupts   \* bound: undos, aborts, cancels and weight updates

ASSUME InstanceAssumption ==
    /\ NRequests \in Nat
    /\ Interrupts \in Nat

VARIABLES inst,       \* the instance
          pending,    \* the event produced and not yet committed, or NoPending
          snapshot,   \* its undo point, or NoPending
          before,     \* history: the instance when that event was asked for
          weights,    \* weight version of the engine
          added,      \* requests added so far
          cancelled,  \* requests taken off the instance unfinished
          interrupts

instanceVars == <<inst, pending, snapshot, before, weights, added, cancelled, interrupts>>

NoPending == [kind |-> "none", done |-> <<>>, dt |-> 0]

Event == [kind : {"none", "prefill", "complete", "kv_preempt", "deadlock_preempt"},
          done : Seq(Nat), dt : Nat]

InstanceTypeOK ==
    /\ ToSet(inst.waiting \o inst.running \o inst.completed) \subseteq 0..(added - 1)
    /\ DOMAIN inst.req = 0..(added - 1)
    /\ \A r \in DOMAIN inst.req : inst.req[r] \in ReqState
    /\ pending \in Event
    /\ weights \in Nat
    /\ added \in 0..NRequests
    /\ cancelled \subseteq 0..(added - 1)
    /\ interrupts \in 0..Interrupts

InstanceInit ==
    /\ inst = NewInstance
    /\ pending = NoPending
    /\ snapshot = Capture(NewInstance)
    /\ before = NewInstance
    /\ weights = 0
    /\ added = 0
    /\ cancelled = {}
    /\ interrupts = 0

Quiet == pending = NoPending

Interrupt == interrupts < Interrupts /\ interrupts' = interrupts + 1

Add ==
    /\ Quiet
    /\ added < NRequests
    /\ Accepts(inst, added)
    /\ inst' = AddRequest(inst, added)
    /\ added' = added + 1
    /\ UNCHANGED <<pending, snapshot, before, weights, cancelled, interrupts>>

\* advance_one_event on a busy instance.
ProduceEvent ==
    /\ Quiet
    /\ ~Idle(inst)
    /\ LET ready == PromoteReady(inst)
           event == AdvanceOneEvent(ready, weights)
       IN /\ snapshot' = Capture(ready)
          /\ inst' = event.inst
          /\ pending' = [kind |-> event.kind, done |-> event.done, dt |-> event.dt]
    /\ before' = inst
    /\ UNCHANGED <<weights, added, cancelled, interrupts>>

\* _run_engine pops the event; the instance already is in the state after it.
Commit ==
    /\ ~Quiet
    /\ pending' = NoPending
    /\ UNCHANGED <<inst, snapshot, before, weights, added, cancelled, interrupts>>

\* _undo_and_align, to a time before that of the event.
UndoAndAdvance(elapsed) ==
    /\ ~Quiet
    /\ Interrupt
    /\ pending' = NoPending
    /\ inst' = AdvanceTo(Restore(inst, snapshot), elapsed, weights).inst
    /\ UNCHANGED <<snapshot, before, weights, added, cancelled>>

Abort ==
    /\ Quiet
    /\ Interrupt
    /\ inst' = AbortAll(inst)
    /\ UNCHANGED <<pending, snapshot, before, weights, added, cancelled>>

CancelSome(gone) ==
    /\ Quiet
    /\ Interrupt
    /\ inst' = Cancel(inst, gone)
    /\ cancelled' = cancelled \cup gone
    /\ UNCHANGED <<pending, snapshot, before, weights, added>>

NewWeights ==
    /\ Quiet
    /\ Interrupt
    /\ weights' = weights + 1
    /\ UNCHANGED <<inst, pending, snapshot, before, added, cancelled>>

Drained == Quiet /\ Idle(inst) /\ added = NRequests

InstanceNext ==
    \/ Add
    \/ ProduceEvent
    \/ Commit
    \/ \E elapsed \in {0} \cup 0..(pending.dt - 1) : UndoAndAdvance(elapsed)
    \/ Abort
    \/ \E gone \in SUBSET Active(inst) \ {{}} : CancelSome(gone)
    \/ NewWeights
    \/ Quiet /\ Idle(inst) /\ UNCHANGED instanceVars

InstanceSpec == InstanceInit /\ [][InstanceNext]_instanceVars

\* The simulator keeps admitting and stepping; interruptions are its choice.
\* The third conjunct is WF_instanceVars(ProduceEvent) with its guard written
\* out: TLC takes very long to evaluate ENABLED ProduceEvent.
InstanceFairSpec ==
    /\ InstanceSpec
    /\ WF_instanceVars(Add)
    /\ WF_instanceVars(Commit)
    /\ []<>(~Quiet \/ Idle(inst)) \/ []<><<ProduceEvent>>_instanceVars

-----------------------------------------------------------------------------

(* Undoing an event leaves no trace of it ("every mutation an event        *)
(* performs must be reversible", snapshot.py): the lists, KV tokens,       *)
(* generated tokens and segments are those from before it was asked for.   *)
UndoLeavesNoTrace == ~Quiet => Restore(inst, snapshot) = before

(* The two ways to advance an instance agree: before the time of its next  *)
(* event advance_to completes nothing, and given exactly that time it does *)
(* what the event does.                                                    *)
AdvanceAgrees ==
    Quiet /\ ~Idle(inst) =>
      LET event == AdvanceOneEvent(PromoteReady(inst), weights)
          then == AdvanceTo(inst, event.dt, weights)
      IN /\ \A t \in 0..(event.dt - 1) : AdvanceTo(inst, t, weights).done = <<>>
         /\ event.dt > 0 => then.inst = event.inst /\ then.done = event.done

(* The batch never exceeds max_concurrency, counting requests in the       *)
(* middle of their prefill; therefore no prefilled request is ever left    *)
(* waiting, and asking for an event changes nothing before the snapshot.   *)
BatchFits ==
    /\ MaxConcurrency # NoLimit => InBatch(inst) <= MaxConcurrency
    /\ PromoteReady(inst) = inst

(* Every request added to the instance completes or is cancelled, whatever *)
(* is preempted, aborted and prefilled again.                              *)
AllComplete ==
    <>[](Drained /\ ToSet(inst.completed) = (0..(NRequests - 1)) \ cancelled)

=============================================================================
