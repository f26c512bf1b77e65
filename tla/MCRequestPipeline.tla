-------------------------- MODULE MCRequestPipeline --------------------------
(* Instances of RequestPipeline for TLC.                                    *)
EXTENDS RequestPipeline, TLC

Symmetry == Permutations(Posters)

=============================================================================
