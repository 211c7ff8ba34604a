------------------------------ MODULE RollLoop ------------------------------
(***************************************************************************)
(* The control loop under ROLL's policy, RollPolicy of                     *)
(* src/dryrun/policy/roll.py: AReaL's bucket for admission, one group of   *)
(* prompts per admission version, a consumption floor of max_staleness     *)
(* versions, and a per-step collection of the groups that aged past it.    *)
(***************************************************************************)
EXTENDS RLLoop, SequencesExt

CONSTANTS BatchSize,     \* cfg.batch_size
          MaxStaleness,  \* cfg.max_staleness
          MaxInflight    \* the policy's max_inflight, or None

ASSUME RollAssumption ==
    /\ BatchSize \in Nat \ {0}
    /\ MaxStaleness \in Nat
    /\ MaxInflight \in Nat \cup {None}

VARIABLES budget,
          runningPrompts,
          completedPrompts,
          groups            \* admission version -> its running ids and finished prompts

policyVars == <<budget, runningPrompts, completedPrompts, groups>>
vars == <<loopVars, policyVars>>

Group == [running : SUBSET Nat, finished : Seq(Request)]

TypeOK ==
    /\ LoopTypeOK
    /\ budget \in Nat
    /\ runningPrompts \in Nat
    /\ completedPrompts \in Nat
    /\ DOMAIN groups \subseteq 0..version
    /\ groups \in [DOMAIN groups -> Group]

EmptyGroup == [running |-> {}, finished |-> <<>>]

EnsureGroup(gs, s) == [t \in DOMAIN gs \cup {s} |-> IF t \in DOMAIN gs THEN gs[t] ELSE EmptyGroup]

\* The state after _configure, which the first admit_quota call runs.
Init ==
    /\ LoopInit
    /\ budget = (MaxStaleness + 1) * BatchSize
    /\ runningPrompts = 0
    /\ completedPrompts = 0
    /\ groups = [s \in {0} |-> EmptyGroup]

\* Broken variant: completed prompts do not count against the budget.
AdmitQuotaRunning == Room(budget - runningPrompts, MaxInflight, Cardinality(inflight))

AdmitQuota ==
    Room(budget - (runningPrompts + completedPrompts), MaxInflight, Cardinality(inflight))

\* The oldest admission version a batch of this version may contain; expire(),
\* which runs after the version has advanced, collects the groups up to it.
Floor == version - MaxStaleness

\* _eligible_steps: the groups from the floor up to the version.
EligibleSteps == {s \in DOMAIN groups : Floor <= s /\ s <= version}

FinishedIn(s) == groups[s].finished

\* The finished prompts of the eligible groups, each by its group and its place.
Available == UNION {{s} \X DOMAIN FinishedIn(s) : s \in EligibleSteps}

BatchFound == Cardinality(Available) >= BatchSize

\* Broken variant: newest first.
NeededAfterNewer(s) == BatchSize - Cardinality({q \in Available : q[1] > s})

\* peek_batch goes through the groups oldest first: what the older ones leave
\* for group s to fill.
Needed(s) == BatchSize - Cardinality({q \in Available : q[1] < s})

\* The prompts taken from the head of group s.
TakenFrom(s) ==
    IF s \notin EligibleSteps \/ Needed(s) <= 0 THEN 0
    ELSE IF Needed(s) <= Len(FinishedIn(s)) THEN Needed(s) ELSE Len(FinishedIn(s))

Batch == UNION {{FinishedIn(s)[i] : i \in 1..TakenFrom(s)} : s \in EligibleSteps}

RollAdmit(n) ==
    /\ pc = "event" /\ phase = "generate" => ~BatchFound
    /\ Admit(AdmitQuota, n)
    /\ runningPrompts' = runningPrompts + n
    /\ groups' = [EnsureGroup(groups, engineVersion) EXCEPT
                    ![engineVersion].running = @ \cup {r.rid : r \in NewRequests(n)}]
    /\ UNCHANGED <<budget, completedPrompts>>

RollNoBatch ==
    /\ ~BatchFound
    /\ NoBatch
    /\ UNCHANGED policyVars

\* take_batch: pop the batch from the heads of the finished queues.
WithoutBatch ==
    [s \in DOMAIN groups |->
       [groups[s] EXCEPT !.finished = SubSeq(@, TakenFrom(s) + 1, Len(@))]]

\* expire() at version + 1: the groups that can no longer be consumed.
Aged == {s \in DOMAIN groups : s <= Floor}

\* expire() asserts that an aged group has no finished prompt left.
AgedAreCollected == \A s \in Aged : WithoutBatch[s].finished = <<>>

\* Broken variant: aged groups are forgotten without discarding their prompts.
AgedForgotten == {}

\* The victims: prompts of aged groups that are still running.
AgedRunning == UNION {groups[s].running : s \in Aged}

\* on_version_advance opens the group of the new version.
OpenedStep == version + 1

RollTrain ==
    /\ BatchFound
    /\ TakeBatch(Batch, version + 1,
                 IF AgedAreCollected THEN {r \in inflight : r.rid \in AgedRunning} ELSE {},
                 AgedAreCollected)
    /\ budget' = budget + BatchSize
    /\ LET kept == EnsureGroup(WithoutBatch, OpenedStep)
       IN IF AgedAreCollected
            THEN /\ groups' = [s \in DOMAIN kept \ Aged |-> kept[s]]
                 /\ runningPrompts' = runningPrompts - Cardinality(AgedRunning)
            ELSE groups' = kept /\ UNCHANGED runningPrompts
    /\ UNCHANGED completedPrompts

\* on_complete: only a prompt its group still counts as running is kept.
Counted(r) == r.v \in DOMAIN groups /\ r.rid \in groups[r.v].running

\* Broken variant: a prompt is filed under the weights it completed with.
RollCompleteUnderCurrent(r) ==
    /\ Complete(r, Counted(r))
    /\ IF Counted(r)
         THEN /\ groups' = [groups EXCEPT ![r.v].running = @ \ {r.rid},
                                          ![engineVersion].finished = Append(@, r)]
              /\ runningPrompts' = runningPrompts - 1
              /\ completedPrompts' = completedPrompts + 1
         ELSE UNCHANGED <<groups, runningPrompts, completedPrompts>>
    /\ UNCHANGED budget

RollComplete(r) ==
    /\ Complete(r, Counted(r))
    /\ IF Counted(r)
         THEN /\ groups' = [groups EXCEPT ![r.v].running = @ \ {r.rid},
                                          ![r.v].finished = Append(@, r)]
              /\ runningPrompts' = runningPrompts - 1
              /\ completedPrompts' = completedPrompts + 1
         ELSE UNCHANGED <<groups, runningPrompts, completedPrompts>>
    /\ UNCHANGED budget

\* check_invariants: nothing is left below the consumption floor.
Contract ==
    \A s \in DOMAIN groups : s < version - MaxStaleness => groups[s] = EmptyGroup

RollEngineReturns ==
    /\ EngineReturns(BatchFound, Contract)
    /\ UNCHANGED policyVars

Next ==
    \/ \E n \in 0..AdmitQuota : RollAdmit(n)
    \/ RollNoBatch
    \/ RollTrain
    \/ \E r \in inflight : RollComplete(r)
    \/ RollEngineReturns
    \/ Halt /\ UNCHANGED policyVars

Spec == Init /\ [][Next]_vars

FairSpec == Spec /\ WF_vars(Next)

-----------------------------------------------------------------------------

(* The consumption floor: no request trained on is more than max_staleness *)
(* versions old.                                                           *)
StalenessBound == \A c \in consumed : c.at - c.req.v <= MaxStaleness

(* The groups partition the loop's lists by admission version: what is in  *)
(* flight is running in its group, what is ready is finished in its group, *)
(* so discarding an aged group forgets no request the loop still holds.    *)
GroupsMatchLists ==
    pc # "failed" =>
      /\ UNION {groups[s].running : s \in DOMAIN groups} = {r.rid : r \in inflight}
      /\ UNION {ToSet(groups[s].finished) : s \in DOMAIN groups} = ready
      /\ \A r \in inflight : Counted(r)
      /\ \A s \in DOMAIN groups : \A r \in ToSet(groups[s].finished) : r.v = s
      /\ runningPrompts = Cardinality(inflight)
      /\ completedPrompts = Cardinality(ready) + nConsumed

(* "ROLL invariant violated: group ... still holds ... uncollected         *)
(* finished prompt(s) at gc time" (roll.py): when a training step is about *)
(* to collect the aged groups, their finished prompts have been consumed.  *)
GcFindsNoFinished == pc = "take" /\ BatchFound => AgedAreCollected

(* Every version gets trained: no assertion fails and the loop is never    *)
(* starved.                                                                *)
TrainingCompletes == <>Finished

(* ROLL's policy is the same admission window as AReaL's, with requests    *)
(* given up in flight.                                                     *)
Window == INSTANCE AdmissionWindow WITH
            Window <- (MaxStaleness + 1) * BatchSize,
            Steps <- NVersions,
            outstanding <- Cardinality(inflight) + Cardinality(ready),
            trained <- version

ImplementsWindow == Window!Spec

=============================================================================
