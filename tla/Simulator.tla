------------------------------ MODULE Simulator ------------------------------
(***************************************************************************)
(* The control loop of RLLoop together with the rollout instances it       *)
(* drives: class Simulator of src/dryrun/simulator/simulator.py with the   *)
(* event coordinator of _run_engine.                                       *)
(*                                                                         *)
(* Every busy instance has one pending event, produced ahead of time.  The *)
(* earliest one is committed; when the engines have to stop, or requests   *)
(* are admitted, the others are undone and their instances are aligned to  *)
(* the common time.  Each step of the loop is the action of RLLoop with    *)
(* what it does to the instances.  The staleness policy is arbitrary,      *)
(* except that it trains on BatchSize requests as soon as they are ready   *)
(* and keeps what completes.                                               *)
(***************************************************************************)
EXTENDS RLLoop, EngineSteps

CONSTANTS NInstances,      \* cfg.n_instances
          BatchSize,       \* cfg.batch_size
          TrainTimes,      \* the possible durations of a training step
          PartialRollout   \* cfg.partial_rollout

ASSUME SimulatorAssumption ==
    /\ NInstances \in Nat \ {0}
    /\ BatchSize \in Nat \ {0}
    /\ TrainTimes \subseteq Nat \ {0}
    /\ PartialRollout \in BOOLEAN

VARIABLES engines,     \* the instances, each in the state after its pending event
          clock,       \* t_local of each instance before its pending event
          events,      \* pending events
          snapshots,   \* undo points
          now,         \* self.t
          deadline,    \* of the training step
          seeded,      \* has _run_engine produced the first events?
          collecting,  \* completions of the committed event still to be collected
          last         \* the instance whose event was committed last

engineVars == <<engines, clock, events, snapshots, now, deadline, seeded, collecting, last>>
vars == <<loopVars, engineVars>>

Instances == 0..(NInstances - 1)

NoEvent == [done |-> <<>>, t |-> 0, pending |-> FALSE]

TypeOK ==
    /\ LoopTypeOK
    /\ \A i \in Instances :
          /\ ToSet(engines[i].waiting \o engines[i].running \o engines[i].completed)
               \subseteq DOMAIN engines[i].req
          /\ DOMAIN engines[i].req \subseteq 0..(nextRid - 1)
    /\ clock \in [Instances -> Nat]
    /\ events \in [Instances -> [done : Seq(Nat), t : Nat, pending : BOOLEAN]]
    /\ now \in Nat
    /\ deadline \in Nat
    /\ seeded \in BOOLEAN
    /\ collecting \in Seq(Nat)
    /\ last \in Instances

Init ==
    /\ LoopInit
    /\ engines = [i \in Instances |-> NewInstance]
    /\ clock = [i \in Instances |-> 0]
    /\ events = [i \in Instances |-> NoEvent]
    /\ snapshots = [i \in Instances |-> Capture(NewInstance)]
    /\ now = 0
    /\ deadline = 0
    /\ seeded = FALSE
    /\ collecting = <<>>
    /\ last = 0

-----------------------------------------------------------------------------
(* Undoing and aligning.                                                   *)

Pending == {i \in Instances : events[i].pending}

\* undo_last_event, on the instances that have a pending event.
Undone(i) == IF i \in Pending THEN Restore(engines[i], snapshots[i]) ELSE engines[i]

\* The result of advance_to(t) on every instance.
Aligned(t) == [i \in Instances |-> AdvanceTo(Undone(i), t - clock[i], engineVersion)]

\* _align_instances asserts that no request completes on the way.
NothingExtra(aligned) == \A i \in Instances : aligned[i].done = <<>>

\* _undo_and_align: no event is pending any more and the instances stand at t.
\* Without force_align_t_local an instance may stop short of t.
UndoAndAlign(aligned, t, force) ==
    /\ NothingExtra(aligned)
    /\ engines' = [i \in Instances |-> aligned[i].inst]
    /\ clock' = [i \in Instances |-> IF force THEN t ELSE t - aligned[i].left]
    /\ events' = [i \in Instances |-> NoEvent]
    /\ now' = Max({now, t})
    /\ UNCHANGED snapshots

\* The alignment at the end of _run_engine goes on where the first one stopped.
AlignedAgain(aligned) ==
    [i \in Instances |-> AdvanceTo(aligned[i].inst, aligned[i].left, engineVersion)]

-----------------------------------------------------------------------------
(* Admission.                                                              *)

\* _select_instance: the first of the least loaded instances.
LeastLoaded(es) ==
    Min({i \in Instances :
           \A j \in Instances : Cardinality(Active(es[i])) <= Cardinality(Active(es[j]))})

\* One round of the loop of _admit; it ends when the instance refuses.
PlaceOne(s, k) ==
    LET i == LeastLoaded(s.engines)
    IN IF s.open /\ Accepts(s.engines[i], nextRid + s.n)
         THEN [s EXCEPT !.engines[i] = AddRequest(@, nextRid + s.n), !.n = @ + 1]
         ELSE [s EXCEPT !.open = FALSE]

Place(es, quota) ==
    FoldLeft(PlaceOne, [engines |-> es, n |-> 0, open |-> TRUE], [k \in 1..quota |-> k])

Quotas == 0..(MaxRequests - nextRid)

\* The admissions outside the engine run.  Beside training, _train then sets
\* the deadline.
SimAdmit ==
    /\ pc \in {"top", "retry", "begin"}
    /\ \E quota \in Quotas :
       \E placed \in {Place(engines, quota)} :
          /\ Admit(quota, placed.n)
          /\ engines' = placed.engines
    /\ IF pc = "begin" THEN \E time \in TrainTimes : deadline' = now + time
                       ELSE UNCHANGED deadline
    /\ seeded' = FALSE
    /\ UNCHANGED <<clock, events, snapshots, now, collecting, last>>

-----------------------------------------------------------------------------
(* run() and _train().                                                     *)

BatchReady == Cardinality(ready) >= BatchSize

SimNoBatch ==
    /\ ~BatchReady
    /\ NoBatch
    /\ seeded' = FALSE
    /\ UNCHANGED <<engines, clock, events, snapshots, now, deadline, collecting, last>>

\* Discarded requests are taken off their instances; with partial rollouts the
\* remaining ones are aborted and prefilled again.
AfterUpdate(i, expired) ==
    LET kept == Cancel(i, {r.rid : r \in expired})
    IN IF PartialRollout THEN AbortAll(kept) ELSE kept

SimTrain ==
    /\ BatchReady
    /\ \E batch \in kSubset(BatchSize, ready), newEngine \in {engineVersion, version + 1},
          expired \in SUBSET inflight :
          /\ TakeBatch(batch, newEngine, expired, TRUE)
          /\ engines' = [i \in Instances |-> AfterUpdate(engines[i], expired)]
    /\ UNCHANGED <<clock, events, snapshots, now, deadline, seeded, collecting, last>>

-----------------------------------------------------------------------------
(* _run_engine().                                                          *)

\* The instances of S produce their next event, as far as they are busy.
Produced(S) ==
    [i \in {j \in S : ~Idle(engines[j])} |->
       LET ready_ == PromoteReady(engines[i])
           event == AdvanceOneEvent(ready_, engineVersion)
       IN [snapshot |-> Capture(ready_), inst |-> event.inst,
           event |-> [done |-> event.done, t |-> clock[i] + event.dt, pending |-> TRUE]]]

Produce(produced) ==
    /\ engines' = [i \in Instances |->
                     IF i \in DOMAIN produced THEN produced[i].inst ELSE engines[i]]
    /\ events' = [i \in Instances |->
                    IF i \in DOMAIN produced THEN produced[i].event ELSE events[i]]
    /\ snapshots' = [i \in Instances |->
                       IF i \in DOMAIN produced THEN produced[i].snapshot ELSE snapshots[i]]

SeedEvents ==
    /\ pc = "engine"
    /\ ~seeded
    /\ seeded' = TRUE
    /\ \E produced \in {Produced(Instances)} : Produce(produced)
    /\ UNCHANGED <<loopVars, clock, now, deadline, collecting, last>>

\* The committed instance stands without an event although it is busy.
Owes == last \notin Pending /\ ~Idle(engines[last])

\* The head of the loop over the event queue.
AtQueue == pc = "engine" /\ seeded /\ collecting = <<>> /\ ~Owes

\* Broken variant: the events are taken in the order of the instances.
EarliestByInstance == Min(Pending)

\* heappop: the earliest event, of the first instance among equals.
Earliest ==
    CHOOSE i \in Pending :
       \A j \in Pending : \/ events[i].t < events[j].t
                          \/ events[i].t = events[j].t /\ i <= j

TooLateFor(i) == phase = "train" /\ events[i].t > deadline

\* An event is committed.  Its completions are collected next; without any the
\* instance produces its next event (ProduceNext).
CommitEvent ==
    /\ AtQueue
    /\ Pending # {}
    /\ LET i == Earliest
       IN /\ ~TooLateFor(i)
          /\ now' = Max({now, events[i].t})
          /\ clock' = [clock EXCEPT ![i] = events[i].t]
          /\ events' = [events EXCEPT ![i] = NoEvent]
          /\ collecting' = events[i].done
          /\ last' = i
    /\ UNCHANGED <<loopVars, engines, snapshots, deadline, seeded>>

ProduceNext ==
    /\ pc = "engine" /\ seeded /\ collecting = <<>>
    /\ Owes
    /\ \E produced \in {Produced({last})} : Produce(produced)
    /\ UNCHANGED <<loopVars, clock, now, deadline, seeded, collecting, last>>

SimCollect ==
    /\ collecting # <<>>
    /\ \E r \in inflight : r.rid = Head(collecting) /\ Complete(r, TRUE)
    /\ collecting' = Tail(collecting)
    /\ UNCHANGED <<engines, clock, events, snapshots, now, deadline, seeded, last>>

Collected == pc = "event" /\ collecting = <<>>

\* The batch is there: the engines stop at the time of the event.
SimStopOnBatch ==
    /\ Collected
    /\ phase = "generate"
    /\ BatchReady
    /\ \E first \in {Aligned(now)} :
          /\ NothingExtra(first)
          /\ UndoAndAlign(AlignedAgain(first), now, FALSE)
    /\ StopOnBatch
    /\ UNCHANGED <<deadline, seeded, collecting, last>>

\* The policy has no quota: the other events stay pending.
SimGoOn ==
    /\ Collected
    /\ phase = "generate" => ~BatchReady
    /\ Admit(0, 0)
    /\ UNCHANGED engineVars

\* The policy has quota: undo, align, admit and produce all events anew.
SimAdmitMore ==
    /\ Collected
    /\ phase = "generate" => ~BatchReady
    /\ \E aligned \in {Aligned(now)} :
          /\ NothingExtra(aligned)
          /\ \E quota \in Quotas \ {0} :
             \E placed \in {Place([i \in Instances |-> aligned[i].inst], quota)} :
                /\ Admit(quota, placed.n)
                /\ engines' = placed.engines
          /\ clock' = [i \in Instances |-> now - aligned[i].left]
    /\ events' = [i \in Instances |-> NoEvent]
    /\ seeded' = FALSE
    /\ UNCHANGED <<snapshots, now, deadline, collecting, last>>

\* The earliest event lies beyond the deadline, or there is none.
AtDeadline ==
    /\ AtQueue
    /\ phase = "train"
    /\ Pending # {} => TooLateFor(Earliest)

\* The training step ends at its deadline.
SimDeadline ==
    /\ AtDeadline
    /\ UndoAndAlign(Aligned(deadline), deadline, TRUE)
    /\ Deadline(TRUE)
    /\ UNCHANGED <<deadline, seeded, collecting, last>>

\* An alignment completes a request, which _align_instances asserts it does
\* not: after a committed event, at the end of generation, or at the deadline.
AlignFails ==
    /\ \/ Collected /\ ~NothingExtra(Aligned(now))
       \/ Collected /\ phase = "generate" /\ BatchReady
            /\ ~NothingExtra(AlignedAgain(Aligned(now)))
       \/ AtDeadline /\ ~NothingExtra(Aligned(deadline))
    /\ EngineFails
    /\ UNCHANGED engineVars

\* No instance has anything left to do.
SimExhausted ==
    /\ AtQueue
    /\ Pending = {}
    /\ GenerateExhausted
    /\ UndoAndAlign(Aligned(now), now, FALSE)
    /\ UNCHANGED <<deadline, seeded, collecting, last>>

Next ==
    \/ SimAdmit
    \/ SimNoBatch
    \/ SimTrain
    \/ SeedEvents
    \/ CommitEvent
    \/ ProduceNext
    \/ SimCollect
    \/ SimStopOnBatch
    \/ SimGoOn
    \/ SimAdmitMore
    \/ SimDeadline
    \/ SimExhausted
    \/ AlignFails
    \/ Halt /\ UNCHANGED engineVars

Spec == Init /\ [][Next]_vars

\* WF_vars(Next), written out because Next is enabled until the loop stops.
FairSpec == Spec /\ ([]<>Stopped \/ []<><<Next>>_vars)

-----------------------------------------------------------------------------

\* An instance without the effects of its pending event.
Committed == [i \in Instances |-> Undone(i)]

(* The loop and the instances agree on what is in flight: at every moment  *)
(* each request in flight is held by exactly one instance, not counting    *)
(* what uncommitted events did, or its completion is being collected.      *)
InflightIsHeld ==
    LET held == [i \in Instances |-> Active(Committed[i])]
    IN /\ {r.rid : r \in inflight} = (UNION {held[i] : i \in Instances}) \cup ToSet(collecting)
       /\ \A i \in Instances : held[i] \cap ToSet(collecting) = {}
       /\ \A i, j \in Instances : i # j => held[i] \cap held[j] = {}

(* Events happen in time order: no instance has committed beyond the       *)
(* common time and no pending event lies in the past, so a commit never    *)
(* turns the clock back.  Between engine runs all clocks agree.            *)
TimeOrder ==
    /\ \A i \in Instances : clock[i] <= now
    /\ pc # "failed" => \A i \in Pending : events[i].t >= now
    /\ pc \in {"top", "take", "retry", "begin"} => \A i \in Instances : clock[i] = now

(* Undoing, aligning, aborting and re-prefilling never take back a token   *)
(* that a committed event generated.                                       *)
TokensKept ==
    [][\A i \in Instances : \A r \in DOMAIN Committed[i].req :
         Committed[i].req[r].generated <= (Committed[i].req[r].generated)']_vars

(* The weights that really generated a request lie between the version it  *)
(* was admitted under and the one that consumes it, and it is complete: so *)
(* a policy's bound on admission versions bounds the measured staleness.   *)
TrainedAsMeasured ==
    \A c \in consumed : \E i \in Instances :
      /\ c.req.rid \in ToSet(engines[i].completed)
      /\ engines[i].req[c.req.rid].generated = TargetLen(c.req.rid)
      /\ \A seg \in ToSet(engines[i].req[c.req.rid].segments) : seg.version \in c.req.v..c.at

(* Reserving every admitted request's blocks makes preemption unnecessary: *)
(* only a weight update sends a running request back to the waiting list,  *)
(* and no instance ever uses more blocks than it has.                      *)
ReservationHolds ==
    [][RejectIfKvFull =>
         \A i \in Instances :
           /\ BlocksUsed(engines'[i]) <= KvBlocks
           /\ version' = version =>
                ToSet(Committed[i].running) \cap ToSet(Committed[i].waiting)' = {}]_vars

(* "No extra completions expected." (simulator.py): aligning the other     *)
(* instances to the time of a committed event completes no request.        *)
NoExtraCompletions == pc # "failed"

=============================================================================
