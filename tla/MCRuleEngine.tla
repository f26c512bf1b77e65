----------------------------- MODULE MCRuleEngine -----------------------------
(* Instances of RuleEngine for TLC.                                         *)
EXTENDS RuleEngine

Atom(t) == [op |-> "atom", type |-> t]
Composite(op, ts) == [op |-> op, rules |-> ts]
Rule(t) == [tree |-> t, active |-> TRUE, supported |-> TRUE]

(* blacklist, beatmap rules, osu! API rules.                                *)
Tiers == [black |-> 1, ar |-> 2, bpm |-> 2, mode |-> 2, ranked |-> 3, unique |-> 3]

Nested == Composite("or", <<Composite("and", <<Atom("ar"), Atom("bpm")>>),
                            Composite("not", <<Composite("or", <<Atom("mode"), Atom("ar")>>)>>)>>)

(* Two Tier-3 rules, one rule that is inactive, one of another version.     *)
AllRules == <<Rule(Atom("black")), Rule(Nested), Rule(Composite("not", <<Atom("mode")>>)),
              Rule(Composite("and", <<Atom("ar"), Atom("bpm")>>)),
              [Rule(Atom("bpm")) EXCEPT !.active = FALSE],
              [Rule(Atom("mode")) EXCEPT !.supported = FALSE],
              Rule(Atom("ranked")), Rule(Atom("unique"))>>

Mixed == <<Rule(Composite("and", <<Atom("ar"), Atom("ranked")>>)), Rule(Atom("unique"))>>

=============================================================================
