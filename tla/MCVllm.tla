------------------------------- MODULE MCVllm -------------------------------
(* Profile requests for VllmExecutor, with three GPUs.                     *)
EXTENDS VllmExecutor

\* Dry runs of every profile of one or two serve points and phases, with world
\* sizes up to one more than the visible GPUs.
UpTo(S) == {<<x>> : x \in S} \cup {<<x, y>> : x, y \in S}

DryRuns == [serve : UpTo(1..4), bench : UpTo(1..3), maxParallel : 0..3,
            dryRun : {TRUE}, invocations : {1}]

\* A serve point of two GPUs and one of one: six jobs, of which two of different
\* waves share a port and no GPU.
Mixed == [serve |-> <<2, 1>>, bench |-> <<2>>, maxParallel |-> 0,
          dryRun |-> FALSE, invocations |-> 1]

\* A serve point that leaves no room for another: two jobs in turn, without
\* ports, run up to three times.
InTurn == [serve |-> <<2>>, bench |-> <<2>>, maxParallel |-> 0,
           dryRun |-> FALSE, invocations |-> 3]

MCRequests == DryRuns \cup {Mixed, InTurn}
OnlyInTurn == {InTurn}

=============================================================================
