---------------------------- MODULE SimTelemetry ----------------------------
(***************************************************************************)
(* The telemetry of a simulation: class SimTelemetry of                    *)
(* src/dryrun/telemetry/writer.py and the places where the simulator calls *)
(* it.  Each action is the one of Simulator together with what it writes.  *)
(*                                                                         *)
(* Streams only grow.  Of the occupancy stream of an instance the last     *)
(* sample is kept, which is what the filter of duplicates compares with;   *)
(* of the step stream the position in step_stats and the decoded tokens    *)
(* written; of the request stream the events of each request; of the train *)
(* stream every row.  Writing to disk is external.                         *)
(***************************************************************************)
EXTENDS Simulator

VARIABLES sample,     \* the last occupancy sample of each instance
          cursor,     \* entries of step_stats written, for each instance
          written,    \* decoded tokens in those entries
          requests,   \* for each request the events written
          rows,       \* the rows of the train stream
          step        \* the training step under way: its start and its drops

streamVars == <<sample, cursor, written, requests, rows, step>>
telemetryVars == <<vars, streamVars>>

NoSample == [t |-> 0, running |-> <<>>, waiting |-> <<>>, blocks |-> 0]

TelemetryInit ==
    /\ Init
    /\ sample = [i \in Instances |-> NoSample]
    /\ cursor = [i \in Instances |-> 0]
    /\ written = [i \in Instances |-> 0]
    /\ requests = <<>>
    /\ rows = <<>>
    /\ step = [start |-> 0, drops |-> 0]

-----------------------------------------------------------------------------
(* The streams of the instances.                                           *)

Progress(e, list) ==
    [k \in DOMAIN list |-> [rid |-> list[k], generated |-> e.req[list[k]].generated,
                            prefilled |-> e.req[list[k]].prefilled]]

\* The key of emit_instance, which determines the rest of the sample.
Occupancy(e, t) ==
    [t |-> t, running |-> Progress(e, e.running), waiting |-> Progress(e, e.waiting),
     blocks |-> BlocksUsed(e)]

\* emit_instance on the instances of S, in the states es at the times ts.  A
\* sample that equals the last one is not written.
Emit(S, es, ts) ==
    sample' = [i \in Instances |-> IF i \in S THEN Occupancy(es[i], ts[i]) ELSE sample[i]]

SumOf(tokens) == FoldLeft(LAMBDA a, b : a + b, 0, tokens)

\* flush_rollout_step: the entries behind the cursor.
Flush(S, es) ==
    /\ written' = [i \in Instances |->
                     IF i \in S
                       THEN written[i] + SumOf(SubSeq(es[i].stats, cursor[i] + 1,
                                                      Len(es[i].stats)))
                       ELSE written[i]]
    /\ cursor' = [i \in Instances |-> IF i \in S THEN Len(es[i].stats) ELSE cursor[i]]

Sync(S, es, ts) == Emit(S, es, ts) /\ Flush(S, es)

KeepInstances == UNCHANGED <<sample, cursor, written>>

-----------------------------------------------------------------------------
(* The streams of requests and training steps.                             *)

\* write_request for each request of rs.
Written(log, event, rs) ==
    [r \in DOMAIN log \cup rs |->
       IF r \in rs THEN Append(IF r \in DOMAIN log THEN log[r] ELSE <<>>, event)
       ELSE log[r]]

Rids(rs) == {r.rid : r \in rs}

\* write_train.
Row(end) ==
    [version |-> version, start |-> step.start, end |-> end, drops |-> step.drops,
     inflight |-> Cardinality(inflight), ready |-> Cardinality(ready)]

-----------------------------------------------------------------------------
(* The simulator with its telemetry.                                       *)

Dispatched == nextRid..(nextRid' - 1)

EmitAdmitted ==
    IF nextRid' > nextRid THEN Emit(Instances, engines', clock') /\ UNCHANGED <<cursor, written>>
    ELSE KeepInstances

LogAdmit ==
    /\ SimAdmit
    /\ requests' = Written(requests, "admit", Dispatched)
    /\ EmitAdmitted
    /\ UNCHANGED <<rows, step>>

LogNoBatch == SimNoBatch /\ UNCHANGED streamVars

\* Broken variant: a request that expires while it runs is not written.
GoneWhileReady == Rids((dropped' \ dropped) \cap ready)

\* What _discard drops, running or ready.
Gone == Rids(dropped' \ dropped)

\* Samples are taken after a discard, and after the aborts of a partial rollout.
LogTrain ==
    /\ SimTrain
    /\ LET batch == Rids(ready \ ready')
       IN /\ requests' = Written(Written(requests, "consume", batch), "drop", Gone)
          /\ step' = [start |-> now, drops |-> Cardinality(Gone)]
          /\ IF Gone # {} \/ (PartialRollout /\ inflight' # {})
               THEN Emit(Instances, engines', clock') /\ UNCHANGED <<cursor, written>>
               ELSE KeepInstances
    /\ UNCHANGED rows

\* _run_engine writes what is committed before it produces events, unless it
\* only seeds anew after an admission, where the same was written before.
LogSeed ==
    /\ SeedEvents
    /\ Sync(Instances, engines, clock)
    /\ UNCHANGED <<requests, rows, step>>

\* Broken variant: a commit writes the pending events of the others too.
SyncedBySeveral(i) == Instances

\* The instances that are written when i commits: the others hold the effects
\* of pending events.
SyncedBy(i) == {i}

LogCommit ==
    /\ CommitEvent
    /\ Sync(SyncedBy(last'), engines, clock')
    /\ UNCHANGED <<requests, rows, step>>

LogProduce == ProduceNext /\ UNCHANGED streamVars

LogCollect ==
    /\ SimCollect
    /\ requests' = Written(requests, "complete", {Head(collecting)})
    /\ KeepInstances
    /\ UNCHANGED <<rows, step>>

LogStopOnBatch ==
    /\ SimStopOnBatch
    /\ Sync(Instances, engines', clock')
    /\ UNCHANGED <<requests, rows, step>>

LogGoOn == SimGoOn /\ UNCHANGED streamVars

\* Written twice, before and after the admission; the cursor stands before it.
LogAdmitMore ==
    /\ SimAdmitMore
    /\ requests' = Written(requests, "admit", Dispatched)
    /\ Sync(Instances, engines', clock')
    /\ UNCHANGED <<rows, step>>

LogDeadline ==
    /\ SimDeadline
    /\ Sync(Instances, engines', clock')
    /\ rows' = Append(rows, Row(now'))
    /\ UNCHANGED <<requests, step>>

LogExhausted ==
    /\ SimExhausted
    /\ Sync(Instances, engines', clock')
    /\ UNCHANGED <<requests, rows, step>>

LogAlignFails == AlignFails /\ UNCHANGED streamVars

TelemetryNext ==
    \/ LogAdmit \/ LogNoBatch \/ LogTrain \/ LogSeed \/ LogCommit \/ LogProduce
    \/ LogCollect \/ LogStopOnBatch \/ LogGoOn \/ LogAdmitMore \/ LogDeadline
    \/ LogExhausted \/ LogAlignFails
    \/ Halt /\ UNCHANGED <<engineVars, streamVars>>

TelemetrySpec == TelemetryInit /\ [][TelemetryNext]_telemetryVars

TelemetryFairSpec ==
    TelemetrySpec /\ ([]<>Stopped \/ []<><<TelemetryNext>>_telemetryVars)

-----------------------------------------------------------------------------

Between == pc \in {"top", "take", "retry", "begin"}

(* "Commit-only": no step of an event that may still be undone is written. *)
(* Whatever is pending, the cursor stays within the committed entries, and *)
(* what lies behind it is what was written; between two engine runs every  *)
(* token the instances generated is in the stream exactly once, and the    *)
(* last sample shows what each of them holds.                              *)
StreamCommitted ==
    /\ \A i \in Instances :
          /\ cursor[i] <= Len(Committed[i].stats)
          /\ written[i] = SumOf(SubSeq(Committed[i].stats, 1, cursor[i]))
    /\ Between => \A i \in Instances :
          /\ sample[i] = Occupancy(engines[i], clock[i])
          /\ written[i] = Total([r \in DOMAIN engines[i].req |->
                                    engines[i].req[r].generated])

(* The request and train streams tell the same story as the loop's lists:  *)
(* one admission for every request, then a completion and one end of it,   *)
(* and one row for every training step, in the order of time.              *)
StreamsAgree ==
    /\ DOMAIN requests = 0..(nextRid - 1)
    /\ \A r \in inflight : requests[r.rid] = <<"admit">>
    /\ \A r \in ready : requests[r.rid] = <<"admit", "complete">>
    /\ \A c \in consumed : requests[c.req.rid] = <<"admit", "complete", "consume">>
    /\ \A r \in dropped : requests[r.rid] = <<"admit", "drop">>
    /\ pc = "top" => Len(rows) = version
    /\ \A k \in DOMAIN rows :
          /\ rows[k].version = k
          /\ rows[k].start < rows[k].end
          /\ k > 1 => rows[k - 1].end <= rows[k].start

=============================================================================
