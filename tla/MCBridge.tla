------------------------------ MODULE MCBridge ------------------------------
(* Two versions of a configuration and small candidates for BridgeProfile. *)
EXTENDS BridgeProfile

Search(tp, pp, cp, nmb, shapes) ==
    [world |-> 2, mbs |-> 2, tp |-> tp, pp |-> pp, cp |-> cp, nmb |-> nmb,
     shapes |-> shapes, schedules |-> <<"1f1b">>, recompute |-> <<"full">>]

\* One candidate of one microbatch; the same and one of three microbatches.
MCConfigs ==
    {[search |-> Search(<<3, 1, 1>>, <<1>>, <<2, 1>>, <<1>>, <<<<1, 2>>, <<1>>>>),
      warmup |-> 1, allowIncomplete |-> FALSE],
     [search |-> Search(<<1>>, <<1, 3>>, <<1>>, <<>>, <<<<1, 2>>>>),
      warmup |-> 0, allowIncomplete |-> TRUE]}

Event(action, size) == [action |-> action, size |-> size]

Snapshot ==
    [events |-> <<Event("alloc", 2), Event("segment_alloc", 1), Event("free", 1)>>,
     segments |-> [allocated |-> 0, total |-> 1]]

Sidecar(times, ranks, shapes) == [times |-> times, ranks |-> ranks, shapes |-> shapes]

Left(timers, snapshot, sidecar) ==
    [timers |-> timers, snapshot |-> snapshot, sidecar |-> sidecar]

(***************************************************************************)
(* The timers and a snapshot; nothing; and a sidecar with a memory and      *)
(* lengths of its own, right for one microbatch and wrong for three, beside *)
(* which the step times of any timers count.                                *)
(***************************************************************************)
MCLeavings ==
    {Left(<<3, 2>>, Snapshot, None), Left(<<>>, None, None),
     Left(<<>>, None, Sidecar(<<>>, {[allocated |-> 1, reserved |-> 1]}, <<<<2, 1>>>>))}
=============================================================================
