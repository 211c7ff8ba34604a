----------------------------- MODULE EngineSteps -----------------------------
(***************************************************************************)
(* What one rollout instance does, class NativeInstance of                 *)
(* src/dryrun/component/rollout/engine/instance.py, as operators on the    *)
(* state of an instance.                                                   *)
(*                                                                         *)
(* An instance holds request ids in three lists and, for each request it   *)
(* ever held, the tokens in its KV cache (prefilled), the tokens generated *)
(* and the segments that say under which weight version.  Requests are     *)
(* ordered by (dispatch_time, rid); ids follow dispatch times, so by id.   *)
(* The cost model only decides how long a step takes: one time for a step  *)
(* with prefills in it, one for each step of a pure decode segment.        *)
(* chunk_cap is never set by the simulator and is left out.                *)
(***************************************************************************)
EXTENDS Integers, SequencesExt, FiniteSetsExt

CONSTANTS PromptLengths,        \* cfg.prompt_lengths, used in turn
          TargetLengths,        \* the response lengths, used in turn
          TokenBudget,          \* token_budget (M)
          KvBlocks,
          BlockSize,
          MaxRunning,           \* max_running, or NoLimit
          MaxConcurrency,       \* max_concurrency, or NoLimit
          RejectIfKvFull,
          RejectIfWaiting,
          RejectIfRunningFull,
          PrefillTime,          \* duration of a step with prefills
          DecodeTime,           \* duration of a pure decode step
          NoLimit

Below(n, limit) == limit # NoLimit => n < limit

BlocksFor(n) == (n + BlockSize - 1) \div BlockSize

PromptLen(r) == PromptLengths[(r % Len(PromptLengths)) + 1]
TargetLen(r) == TargetLengths[(r % Len(TargetLengths)) + 1]
Reserved(r) == BlocksFor(PromptLen(r) + TargetLen(r))

\* Every request fits into an empty instance (add_request raises ValueError
\* otherwise), and prompts and responses are not empty.
ASSUME EngineAssumption ==
    /\ {PromptLengths, TargetLengths} \subseteq Seq(Nat \ {0}) \ {<<>>}
    /\ {TokenBudget, KvBlocks, BlockSize, PrefillTime, DecodeTime} \subseteq Nat \ {0}
    /\ {MaxRunning, MaxConcurrency} \subseteq (Nat \ {0}) \cup {NoLimit}
    /\ {RejectIfKvFull, RejectIfWaiting, RejectIfRunningFull} \subseteq BOOLEAN
    /\ NoLimit \notin Int
    /\ \A r \in 0..(Len(PromptLengths) * Len(TargetLengths)) : Reserved(r) <= KvBlocks

Segment == [version : Nat, tokens : Nat]
ReqState == [prefilled : Nat, generated : Nat, segments : Seq(Segment)]

\* stats: of each entry in step_stats, the tokens it decoded.
NewInstance == [waiting |-> <<>>, running |-> <<>>, completed |-> <<>>, req |-> <<>>,
                stats |-> <<>>]

NewReq == [prefilled |-> 0, generated |-> 0, segments |-> <<>>]

-----------------------------------------------------------------------------
(* Reading an instance.                                                    *)

Active(i) == ToSet(i.waiting) \cup ToSet(i.running)

\* The sum of the values of f, a function on a finite set.
Total(f) == FoldFunction(+, 0, f)

BlocksUsed(i) == Total([r \in Active(i) |-> BlocksFor(i.req[r].prefilled)])
FreeBlocks(i) == KvBlocks - BlocksUsed(i)

\* Broken variant: one token too many.
RemainingAndOne(i, r) == TargetLen(r) - i.req[r].generated + 1

Remaining(i, r) == TargetLen(r) - i.req[r].generated

\* Tokens that still have to be prefilled.
Need(i, r) == PromptLen(r) + i.req[r].generated - i.req[r].prefilled

\* Requests in the middle of their prefill keep their place in the batch.
InBatch(i) ==
    Len(i.running) + Cardinality({k \in DOMAIN i.waiting : i.req[i.waiting[k]].prefilled > 0})

CanScheduleNew(i) == Below(InBatch(i), MaxConcurrency)
RunningRoom(i) == IF MaxConcurrency = NoLimit THEN Len(i.waiting)
                  ELSE MaxConcurrency - Len(i.running)

AtBlockEnd(i, r) == i.req[r].prefilled % BlockSize = 0

-----------------------------------------------------------------------------
(* add_request                                                             *)

\* Broken variant: blocks are reserved for prompts only.
AcceptsPrompts(i, r) ==
    Total([s \in Active(i) \cup {r} |-> BlocksFor(PromptLen(s))]) <= KvBlocks

Accepts(i, r) ==
    /\ Below(Cardinality(Active(i)), MaxRunning)
    /\ RejectIfWaiting => i.waiting = <<>>
    /\ RejectIfRunningFull => CanScheduleNew(i)
    /\ RejectIfKvFull => Total([s \in Active(i) |-> Reserved(s)]) + Reserved(r) <= KvBlocks

AddRequest(i, r) ==
    [i EXCEPT !.waiting = Append(@, r),
              !.req = [q \in DOMAIN @ \cup {r} |-> IF q = r THEN NewReq ELSE @[q]]]

-----------------------------------------------------------------------------
(* Moving requests between the lists.                                      *)

\* The members of list that are in S, in their order.
Kept(list, S) ==
    FoldLeft(LAMBDA kept, r : IF r \in S THEN Append(kept, r) ELSE kept, <<>>, list)

Without(list, gone) == Kept(list, ToSet(list) \ gone)

\* Start decoding the first of ready, as many as have room.
Promote(i, ready) ==
    LET n == Min({Len(ready), Max({0, RunningRoom(i)})})
        promoted == SubSeq(ready, 1, n)
    IN [i EXCEPT !.waiting = Without(@, ToSet(promoted)), !.running = @ \o promoted]

PromoteReady(i) == Promote(i, Kept(i.waiting, {r \in ToSet(i.waiting) : Need(i, r) <= 0}))

\* The segments with a last one of version v.
Opened(segments, v) ==
    IF segments = <<>> \/ Last(segments).version # v
      THEN Append(segments, [version |-> v, tokens |-> 0])
      ELSE segments

AddTokens(req, v, n) ==
    LET old == Opened(req.segments, v)
    IN [req EXCEPT !.generated = @ + n,
                   !.segments = [old EXCEPT ![Len(old)].tokens = @ + n]]

\* n tokens, which also fill the KV cache.
Decoded(req, v, n) == [AddTokens(req, v, n) EXCEPT !.prefilled = @ + n]

\* Every request of rs generates n tokens under version v.
Generate(i, rs, v, n) ==
    IF n = 0 THEN i
    ELSE [i EXCEPT !.req = [r \in DOMAIN @ |->
                              IF r \in rs THEN Decoded(@[r], v, n) ELSE @[r]]]

Logged(i, tokens) == [i EXCEPT !.stats = Append(@, tokens)]

\* A decode segment of k steps; an empty one is not logged.
DecodeSegment(i, v, k) ==
    IF k = 0 THEN i
    ELSE Logged(Generate(i, ToSet(i.running), v, k), k * Len(i.running))

Retire(i, done) ==
    [i EXCEPT !.running = Without(@, ToSet(done)), !.completed = @ \o done]

\* The requests of list that have all their tokens.
AtTarget(i, list) == Kept(list, {r \in ToSet(list) : Remaining(i, r) <= 0})

Ended(i) == AtTarget(i, i.running)

\* Broken variant: the victim is not queued again.
PreemptForGood(i, victim) ==
    [i EXCEPT !.running = Without(@, {victim}), !.req[victim].prefilled = 0]

\* _preempt_one: the victim's KV cache is freed, its tokens are kept.
Preempt(i, victim) ==
    [i EXCEPT !.running = Without(@, {victim}),
              !.waiting = <<victim>> \o @,
              !.req[victim].prefilled = 0]

PreemptLast(i) == IF i.running = <<>> THEN i ELSE Preempt(i, Last(i.running))

Deadlocked(i) ==
    /\ i.running # <<>>
    /\ FreeBlocks(i) <= 0
    /\ \A r \in ToSet(i.running) : AtBlockEnd(i, r)
    /\ \E r \in ToSet(i.waiting) : Need(i, r) > 0

\* _preempt_for_progress: the newest running request, but never the oldest one.
PreemptForProgress(i) ==
    LET victims == ToSet(i.running) \ {Min(Active(i))}
    IN IF victims = {} THEN i ELSE Preempt(i, Max(victims))

-----------------------------------------------------------------------------
(* _prefill_budget_step: one engine step with decodes and prefill chunks.  *)

\* The chunk of request r, given the token budget and free blocks that are left.
Chunk(i, r, budget, free) ==
    LET held == i.req[r].prefilled
    IN Min({Need(i, r), budget,
            (BlocksFor(held) + Max({0, free})) * BlockSize - held})

\* Broken variant: a request that starts its prefill is not counted.
EnteredUncounted(s, held) == s.inBatch

\* The size of the batch with this request in it.
Entered(s, held) == IF held = 0 THEN s.inBatch + 1 ELSE s.inBatch

\* n more tokens of request r are in the cache.
Fill(i, r, n) == [i EXCEPT !.req[r].prefilled = @ + n]

\* One round of the loop over the waiting requests, oldest first.  s.open is
\* FALSE once the loop has been left.
PrefillOne(s, r) ==
    LET held == s.inst.req[r].prefilled
        chunk == Chunk(s.inst, r, s.budget, s.free)
        blocked == held = 0 /\ ~Below(s.inBatch, MaxConcurrency)
    IN IF ~s.open \/ s.budget <= 0 \/ blocked
         THEN [s EXCEPT !.open = FALSE]
       ELSE IF Need(s.inst, r) <= 0
         THEN [s EXCEPT !.inBatch = Entered(s, held), !.finished = Append(@, r)]
       ELSE IF chunk <= 0
         THEN [s EXCEPT !.open = FALSE]
       ELSE [s EXCEPT
               !.inBatch = Entered(s, held),
               !.inst = Fill(@, r, chunk),
               !.free = @ - (BlocksFor(held + chunk) - BlocksFor(held)),
               !.budget = @ - chunk,
               !.finished = IF chunk = Need(s.inst, r) THEN Append(@, r) ELSE @]

\* Each set of waiting requests is prefilled up to its newest member, and that
\* one last: the oldest comes first.
Prefilled(i) ==
    MapThenFoldSet(LAMBDA r, s : PrefillOne(s, r),
                   [inst |-> i, open |-> TRUE, finished |-> <<>>, free |-> FreeBlocks(i),
                    inBatch |-> InBatch(i),
                    budget |-> TokenBudget - Min({Len(i.running), TokenBudget})],
                   LAMBDA r : r, Max, ToSet(i.waiting))

\* The decodes of the step: a request that needs a block when none is free is
\* skipped, unless it is the oldest running one.
HasBlock(i, r) ==
    AtBlockEnd(i, r) /\ FreeBlocks(i) <= 0 => r = Min(ToSet(i.running))

DecodeOne(s, r, v) ==
    IF HasBlock(s.inst, r)
      THEN [inst |-> Generate(s.inst, {r}, v, 1), stepped |-> Append(s.stepped, r)]
      ELSE s

\* The requests of list, one after the other.
DecodedAll(i, v, list) ==
    FoldLeft(LAMBDA s, r : DecodeOne(s, r, v), [inst |-> i, stepped |-> <<>>], list)

\* The state after the step and the requests it finishes, not yet retired.
BudgetStep(i, v) ==
    LET n == Min({Len(i.running), TokenBudget})
        prefilled == Prefilled(i)
        decoded == DecodedAll(Logged(prefilled.inst, n), v, SubSeq(i.running, 1, n))
    IN [inst |-> Promote(decoded.inst, prefilled.finished),
        done |-> AtTarget(decoded.inst, decoded.stepped)]

PrefillEvent(i, v) ==
    LET step == BudgetStep(i, v)
    IN IF step.done # <<>>
         THEN [inst |-> Retire(step.inst, step.done), kind |-> "complete",
               done |-> step.done, dt |-> PrefillTime]
       ELSE IF Deadlocked(step.inst)
         THEN [inst |-> PreemptForProgress(step.inst), kind |-> "deadlock_preempt",
               done |-> <<>>, dt |-> PrefillTime]
       ELSE [inst |-> step.inst, kind |-> "prefill", done |-> <<>>, dt |-> PrefillTime]

-----------------------------------------------------------------------------
(* _decode_one_event: decode until a completion or until the KV cache is   *)
(* exhausted.                                                              *)

BlocksAfter(i, k) ==
    Total([r \in ToSet(i.running) |-> BlocksFor(i.req[r].prefilled + k)])
      + Total([r \in ToSet(i.waiting) |-> BlocksFor(i.req[r].prefilled)])

\* _kv_exhaustion_steps: the steps after which the cache is exceeded, if any.
KvExhaustion(i) ==
    LET cap == Max({0} \cup {Remaining(i, r) : r \in ToSet(i.running)})
    IN {k \in 0..cap : BlocksAfter(i, k) > KvBlocks}

ToCompletion(i) == Min({Remaining(i, r) : r \in ToSet(i.running)})

\* Length of the decode segment.
SegmentSteps(i) == Max({0, Min({ToCompletion(i)} \cup KvExhaustion(i))})

DecodeEvent(i, v) ==
    LET k == SegmentSteps(i)
        next == DecodeSegment(i, v, k)
        exhausted == \E e \in KvExhaustion(i) : e <= k
    IN IF BlocksUsed(next) > KvBlocks \/ exhausted
         THEN [inst |-> PreemptLast(next), kind |-> "kv_preempt", done |-> <<>>,
               dt |-> k * DecodeTime]
         ELSE [inst |-> Retire(next, Ended(next)), kind |-> "complete",
               done |-> Ended(next), dt |-> k * DecodeTime]

-----------------------------------------------------------------------------
(* advance_one_event.  The loop never calls it on an idle instance.        *)

Idle(i) == Active(i) = {}

AdvanceOneEvent(i, v) == IF i.waiting # <<>> THEN PrefillEvent(i, v) ELSE DecodeEvent(i, v)

-----------------------------------------------------------------------------
(* advance_to: the work an instance does in the given time, by the loop of *)
(* its own.  Every round takes at least one tick.  a.left is the time left *)
(* when the loop ends, 0 if the limit is reached.                          *)

AtLimit(a, i) == [a EXCEPT !.inst = i, !.left = 0, !.open = FALSE]

\* Broken variant: a step that ends exactly at the limit is not taken.
TooLateAtLimit(a) == PrefillTime >= a.left

TooLate(a) == PrefillTime > a.left

PrefillRound(a, v) ==
    LET step == BudgetStep(a.inst, v)
        preempted == PreemptForProgress(step.inst)
        next == [a EXCEPT !.inst = step.inst, !.left = @ - PrefillTime]
    IN IF TooLate(a)
         THEN AtLimit(a, a.inst)
       ELSE IF step.done # <<>>
         THEN [next EXCEPT !.inst = Retire(@, step.done), !.done = step.done, !.open = FALSE]
       ELSE IF ~Deadlocked(step.inst)
         THEN next
       ELSE IF preempted = step.inst
         THEN AtLimit(a, step.inst)
       ELSE [next EXCEPT !.inst = preempted]

DecodeRound(a, v) ==
    LET full == SegmentSteps(a.inst)
        k == Min({full, a.left \div DecodeTime})
        next == DecodeSegment(a.inst, v, k)
        done == Ended(next)
        after == [a EXCEPT !.inst = next, !.left = @ - k * DecodeTime, !.open = FALSE]
    IN IF BlocksUsed(next) > KvBlocks
         THEN [after EXCEPT !.inst = PreemptLast(@)]
       ELSE IF k < full \/ done = <<>>
         THEN AtLimit(a, next)
       ELSE [after EXCEPT !.inst = Retire(@, done), !.done = done]

ReadyRound(a, v) ==
    IF a.inst.waiting # <<>> THEN PrefillRound(a, v)
    ELSE IF a.inst.running = <<>> THEN AtLimit(a, a.inst)
    ELSE DecodeRound(a, v)

AdvanceRound(a, v) ==
    IF ~a.open \/ a.left <= 0 THEN a
    ELSE ReadyRound([a EXCEPT !.inst = PromoteReady(@)], v)

AdvanceTo(i, time, v) ==
    FoldLeft(LAMBDA a, tick : AdvanceRound(a, v),
             [inst |-> i, left |-> time, done |-> <<>>, open |-> TRUE],
             [tick \in 1..time |-> tick])

-----------------------------------------------------------------------------
(* snapshot.py: what is saved before an event and put back to undo it.     *)

LastTokens(req) == IF req.segments = <<>> THEN 0 ELSE Last(req.segments).tokens

Capture(i) ==
    [waiting |-> i.waiting, running |-> i.running, completedLen |-> Len(i.completed),
     statsLen |-> Len(i.stats),
     req |-> [r \in Active(i) \cup ToSet(i.completed) |->
                [prefilled |-> i.req[r].prefilled, generated |-> i.req[r].generated,
                 nSegments |-> Len(i.req[r].segments), lastTokens |-> LastTokens(i.req[r])]]]

\* Broken variant: the tokens of the last segment are not put back.
RestoreReqCutOnly(req, saved) ==
    [prefilled |-> saved.prefilled, generated |-> saved.generated,
     segments |-> SubSeq(req.segments, 1, saved.nSegments)]

\* The segments list only grows: cut it and put the last count back.
RestoreReq(req, saved) ==
    LET cut == SubSeq(req.segments, 1, saved.nSegments)
    IN [prefilled |-> saved.prefilled, generated |-> saved.generated,
        segments |-> IF cut = <<>> THEN cut
                     ELSE [cut EXCEPT ![Len(cut)].tokens = saved.lastTokens]]

Restore(i, snapshot) ==
    [waiting |-> snapshot.waiting,
     running |-> snapshot.running,
     completed |-> SubSeq(i.completed, 1, snapshot.completedLen),
     stats |-> SubSeq(i.stats, 1, snapshot.statsLen),
     req |-> [r \in DOMAIN i.req |->
                IF r \in DOMAIN snapshot.req THEN RestoreReq(i.req[r], snapshot.req[r])
                ELSE i.req[r]]]

-----------------------------------------------------------------------------
(* What the simulator does to an instance between two engine runs.         *)

\* Broken variant: the tokens are freed with the cache.
AbortAllForgetting(i) ==
    [i EXCEPT !.waiting = i.running \o i.waiting, !.running = <<>>,
              !.req = [r \in DOMAIN @ |-> IF r \in Active(i) THEN NewReq ELSE @[r]]]

\* abort_all: the KV cache is freed; everything is prefilled again.
AbortAll(i) ==
    [i EXCEPT !.waiting = i.running \o i.waiting, !.running = <<>>,
              !.req = [r \in DOMAIN @ |->
                         IF r \in Active(i) THEN [@[r] EXCEPT !.prefilled = 0] ELSE @[r]]]

\* Broken variant: only waiting requests are taken off.
CancelWaiting(i, gone) == [i EXCEPT !.waiting = Without(@, gone)]

\* cancel(reqs, keep_tokens=False), the only form in use.
Cancel(i, gone) ==
    [i EXCEPT !.waiting = Without(@, gone), !.running = Without(@, gone),
              !.req = [r \in DOMAIN @ |->
                         IF r \in gone \cap Active(i)
                           THEN [@[r] EXCEPT !.prefilled = 0] ELSE @[r]]]

=============================================================================
