---------------------------- MODULE MCSupervisor ----------------------------
(* Instances of Supervisor for TLC.                                         *)
EXTENDS Supervisor

ThreeServices == <<"profile_fetcher", "score_fetcher", "rule_validation">>

=============================================================================
