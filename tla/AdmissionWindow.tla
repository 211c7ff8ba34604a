-------------------------- MODULE AdmissionWindow --------------------------
(***************************************************************************)
(* What a staleness policy promises the trainer, seen from outside: the    *)
(* rollouts started and neither trained on nor given up never exceed a     *)
(* window, and the trainer consumes them one training step at a time.      *)
(* Each policy implements this specification with a window of its own.     *)
(***************************************************************************)
EXTENDS Integers

CONSTANTS Window,   \* largest number of outstanding rollouts
          Steps     \* training steps

VARIABLES outstanding,  \* rollouts started, not yet trained on or given up
          trained       \* training steps done

Init == outstanding = 0 /\ trained = 0

Start(n) ==
    /\ outstanding + n <= Window
    /\ outstanding' = outstanding + n
    /\ UNCHANGED trained

GiveUp(n) ==
    /\ n <= outstanding
    /\ outstanding' = outstanding - n
    /\ UNCHANGED trained

\* A training step uses up a batch; the weight update may end other rollouts.
Train(n) ==
    /\ trained < Steps
    /\ n <= outstanding
    /\ outstanding' = outstanding - n
    /\ trained' = trained + 1

Next ==
    \/ \E n \in 1..Window : Start(n) \/ GiveUp(n)
    \/ \E n \in 1..Window : Train(n)

Spec == Init /\ [][Next]_<<outstanding, trained>>

=============================================================================
