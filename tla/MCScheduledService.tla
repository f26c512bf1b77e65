------------------------- MODULE MCScheduledService -------------------------
(* Instances of ScheduledService for TLC.                                   *)
EXTENDS ScheduledService

At(d) == [kind |-> "at", delay |-> d]

(* All that the base class accepts.                                         *)
EveryInstruction == {At(0), At(Interval)} \cup [kind: {"none", "skip", "error"}, delay: {0}]

=============================================================================
