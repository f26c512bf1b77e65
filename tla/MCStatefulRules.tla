--------------------------- MODULE MCStatefulRules ---------------------------
(* Instances of StatefulRules for TLC.                                      *)
EXTENDS StatefulRules, TLC

LimitFirst == <<"rate_limit", "cooldown">>

Symmetry == Permutations(Posts)

=============================================================================
