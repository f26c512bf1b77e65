------------------------------ MODULE RuleEngine ------------------------------
(***************************************************************************)
(* What becomes of one request under the rules of its queue.  Phase1Runner *)
(* evaluates the cheap rules one after another inside POST /requests;      *)
(* RuleValidationService then selects the Tier-3 rules and Phase2Runner    *)
(* evaluates them concurrently, over one shared ExecutionContext, and is   *)
(* retried when a rule could not be decided.                               *)
(*                                                                         *)
(* A rule is a tree: an atom, or a composite of trees.  What the checks of *)
(* the atoms would find is the function truth; a check may instead fail.   *)
(* Stateful rules are StatefulRules; a beatmapset that cannot be fetched   *)
(* is in RequestPipeline.                                                  *)
(***************************************************************************)
EXTENDS Naturals, Sequences, FiniteSets, FiniteSetsExt, Functions

CONSTANTS
  Rules,        \* the queue's rules: tree, active, supported (version)
  Tier,         \* RULE_TIERS: the tier of each atom's type
  MaxAttempts,  \* auto_retry's max_attempts
  Faults        \* subset of {"error", "timeout"}

Types == DOMAIN Tier
N == Len(Rules)
Results == {"pass", "violation", "error"}
Outcomes == {"PASS", "VIOLATION", "RETRYABLE"}
Stages == {"phase1", "refused", "validating", "phase2", "done", "rejected", "failed"}

VARIABLES
  truth,    \* what the check of each atom finds
  stage,    \* where the request is
  cur,      \* Phase 1: position in Phase1Rules
  results,  \* for each rule, what its atoms have returned so far
  one,      \* _validate_one of each rule: waiting, running or its outcome
  last,     \* context.last_violation: the rule that has set it, or 0
  tries     \* attempts of the validation job

vars == <<truth, stage, cur, results, one, last, tries>>

-----------------------------------------------------------------------------
(* effective_rule_tier                                                     *)
RECURSIVE EffectiveTier(_)
EffectiveTier(t) ==
  IF t.op = "atom" THEN Tier[t.type]
  ELSE Max({2} \cup {EffectiveTier(t.rules[k]) : k \in DOMAIN t.rules})

(* What evaluate() of a tree makes of the results of its atoms, taken in   *)
(* the order it asks for them: true, false, or "more" when the check of    *)
(* atom "next" has not returned.  AND ends at the first false, OR at the   *)
(* first true; a check that raises an unexpected error is a plain false.   *)
RECURSIVE Run(_, _), RunEach(_, _, _, _)
Run(t, rs) ==
  CASE t.op = "atom" ->
         IF rs = <<>> THEN [val |-> "more", rest |-> rs, next |-> t.type]
         ELSE [val |-> IF Head(rs) = "pass" THEN "true" ELSE "false",
               rest |-> Tail(rs), next |-> t.type]
    [] t.op = "and" -> RunEach(t.rules, rs, "false", "true")
    [] t.op = "or" -> RunEach(t.rules, rs, "true", "false")
    [] t.op = "not" ->
         LET r == Run(t.rules[1], rs)
         IN [r EXCEPT !.val = CASE @ = "true" -> "false" [] @ = "false" -> "true"
                                [] OTHER -> @]
RunEach(ts, rs, stop, end) ==
  LET r == Run(Head(ts), rs)
  IN IF r.val \in {stop, "more"} THEN r
     ELSE IF Len(ts) = 1 THEN [r EXCEPT !.val = end]
     ELSE RunEach(Tail(ts), r.rest, stop, end)

(* The reference: what the composite means.                                *)
RECURSIVE Holds(_)
Holds(t) ==
  CASE t.op = "atom" -> truth[t.type]
    [] t.op = "and" -> \A k \in DOMAIN t.rules : Holds(t.rules[k])
    [] t.op = "or" -> \E k \in DOMAIN t.rules : Holds(t.rules[k])
    [] t.op = "not" -> ~Holds(t.rules[1])

Tree(r) == Rules[r].tree
Live(r) == Rules[r].active /\ Rules[r].supported
Phase1Rules == {r \in 1..N : Live(r) /\ EffectiveTier(Tree(r)) < 3}

(* _run_validation keeps the rules whose own type is Tier 3, and           *)
(* Phase2Runner those of them whose effective tier is.                     *)
Selected == {r \in 1..N : Tree(r).op = "atom" /\ Tier[Tree(r).type] = 3}
Phase2Rules == {r \in Selected : Live(r) /\ EffectiveTier(Tree(r)) = 3}

-----------------------------------------------------------------------------
TypeOK ==
  /\ truth \in [Types -> BOOLEAN]
  /\ stage \in Stages
  /\ cur \in 1..(N + 1)
  /\ \A r \in 1..N : results[r] \in Seq(Results)
  /\ one \in [1..N -> {"waiting", "running"} \cup Outcomes]
  /\ last \in 0..N
  /\ tries \in 0..MaxAttempts

Init ==
  /\ truth \in [Types -> BOOLEAN]
  /\ stage = "phase1"
  /\ cur = 1
  /\ results = [r \in 1..N |-> <<>>]
  /\ one = [r \in 1..N |-> "waiting"]
  /\ last = 0
  /\ tries = 0

(* AtomicRuleNode.evaluate: the awaited check of the atom r asks for, when *)
(* last_violation is old.  (blacklist raises Forbidden, which refuses the  *)
(* request as a violation does: the schema keeps it out of composites.)    *)
Checks(r, old) ==
  \E o \in {IF truth[Run(Tree(r), results[r]).next] THEN "pass" ELSE "violation"}
             \cup ({"error"} \cap Faults) :
    /\ results' = [results EXCEPT ![r] = Append(@, o)]
    /\ last' = IF o = "violation" THEN r ELSE old

Value(r) == Run(Tree(r), results'[r]).val

-----------------------------------------------------------------------------
Phase1Skips ==
  /\ stage = "phase1"
  /\ cur \in 1..N \ Phase1Rules
  /\ cur' = cur + 1
  /\ UNCHANGED <<truth, stage, results, one, last, tries>>

Phase1Checks ==
  /\ stage = "phase1"
  /\ cur \in Phase1Rules
  /\ Checks(cur, IF results[cur] = <<>> THEN 0 ELSE last)
  /\ CASE Value(cur) = "more" -> UNCHANGED <<stage, cur>>
       [] Value(cur) = "true" -> cur' = cur + 1 /\ UNCHANGED stage
       [] Value(cur) = "false" -> stage' = "refused" /\ UNCHANGED cur
  /\ UNCHANGED <<truth, one, tries>>

(* The request is enqueued and posted, its validation dispatched.          *)
Phase1Passes ==
  /\ stage = "phase1"
  /\ cur = N + 1
  /\ stage' = "validating"
  /\ tries' = 1
  /\ UNCHANGED <<truth, cur, results, one, last>>

(* _run_validation: a context of its own, or nothing to do.                *)
ValidationBegins ==
  /\ stage = "validating"
  /\ stage' = IF Selected = {} THEN "done" ELSE "phase2"
  /\ results' = [r \in 1..N |-> IF r \in Selected THEN <<>> ELSE results[r]]
  /\ one' = [r \in 1..N |-> "waiting"]
  /\ last' = 0
  /\ UNCHANGED <<truth, cur, tries>>

(* gather starts the coroutines in order.                                  *)
ValidateBegins(r) ==
  /\ stage = "phase2"
  /\ r \in Phase2Rules
  /\ one[r] = "waiting"
  /\ \A q \in Phase2Rules : q < r => one[q] # "waiting"
  /\ one' = [one EXCEPT ![r] = "running"]
  /\ last' = 0
  /\ UNCHANGED <<truth, stage, cur, results, tries>>

(* Mutant: an undecided rule passes.                                       *)
ValidatePassesErrors(r) ==
  /\ stage = "phase2"
  /\ one[r] = "running"
  /\ Checks(r, last)
  /\ one' = [one EXCEPT ![r] = CASE Value(r) = "true" \/ last' = 0 -> "PASS"
                                 [] OTHER -> "VIOLATION"]
  /\ UNCHANGED <<truth, stage, cur, tries>>

(* Mutant: an undecided rule is a violation.                               *)
ValidateRejectsErrors(r) ==
  /\ stage = "phase2"
  /\ one[r] = "running"
  /\ Checks(r, last)
  /\ one' = [one EXCEPT ![r] = IF Value(r) = "true" THEN "PASS" ELSE "VIOLATION"]
  /\ UNCHANGED <<truth, stage, cur, tries>>

(* A false is a violation when the shared last_violation holds one.        *)
ValidateChecks(r) ==
  /\ stage = "phase2"
  /\ one[r] = "running"
  /\ Checks(r, last)
  /\ one' = [one EXCEPT ![r] = CASE Value(r) = "more" -> "running"
                                 [] Value(r) = "true" -> "PASS"
                                 [] OTHER -> IF last' # 0 THEN "VIOLATION" ELSE "RETRYABLE"]
  /\ UNCHANGED <<truth, stage, cur, tries>>

ValidateTimesOut(r) ==
  /\ "timeout" \in Faults
  /\ stage = "phase2"
  /\ one[r] = "running"
  /\ one' = [one EXCEPT ![r] = "RETRYABLE"]
  /\ UNCHANGED <<truth, stage, cur, results, last, tries>>

(* Mutant: the attempts are not limited.                                   *)
GatherRetriesAlways ==
  /\ stage = "phase2"
  /\ \A r \in Phase2Rules : one[r] \in Outcomes
  /\ LET Some(o) == \E r \in Phase2Rules : one[r] = o
     IN /\ stage' = CASE Some("VIOLATION") -> "rejected"
                      [] ~Some("VIOLATION") /\ Some("RETRYABLE") -> "validating"
                      [] OTHER -> "done"
        /\ tries' = tries
  /\ UNCHANGED <<truth, cur, results, one, last>>

(* Rejections take precedence; else what is not decided is retried.        *)
Gather ==
  /\ stage = "phase2"
  /\ \A r \in Phase2Rules : one[r] \in Outcomes
  /\ LET Some(o) == \E r \in Phase2Rules : one[r] = o
         retry == ~Some("VIOLATION") /\ Some("RETRYABLE")
     IN /\ stage' = CASE Some("VIOLATION") -> "rejected"
                      [] retry /\ tries < MaxAttempts -> "validating"
                      [] retry /\ tries = MaxAttempts -> "failed"
                      [] OTHER -> "done"
        /\ tries' = IF retry /\ tries < MaxAttempts THEN tries + 1 ELSE tries
  /\ UNCHANGED <<truth, cur, results, one, last>>

Next ==
  \/ Phase1Skips \/ Phase1Checks \/ Phase1Passes \/ ValidationBegins
  \/ \E r \in 1..N : ValidateBegins(r) \/ ValidateChecks(r) \/ ValidateTimesOut(r)
  \/ Gather

Spec == Init /\ [][Next]_vars

(* Every step is code that runs to its next await; checks time out.        *)
FairSpec == Spec /\ WF_vars(Next)

-----------------------------------------------------------------------------
(* No check of r has failed for a reason that is not a violation.          *)
Faultless(r) == "error" \notin Range(results[r])

(* A request that has gone through both phases satisfies every active rule *)
(* of its queue, whatever failed on the way: a Phase-2 rule is asked again *)
(* until it is decided.  (In Phase 1 a failed check under NOT passes.)     *)
DoneMeansHolds ==
  stage = "done" =>
    \A r \in 1..N : Live(r) /\ (r \in Phase1Rules => Faultless(r)) => Holds(Tree(r))

(* POST refuses only a request that breaks a rule or whose check failed:   *)
(* the short-circuits of Phase1Runner's composites never invent a refusal. *)
(* And Phase 2 rejects only a request that breaks a rule: errors and       *)
(* timeouts of one rule never reject it, whatever the others, run at once  *)
(* over one context, do to last_violation.                                 *)
VerdictMeansBroken ==
  /\ stage = "refused" => \E r \in Phase1Rules : ~Holds(Tree(r)) \/ ~Faultless(r)
  /\ stage = "rejected" => \E r \in Phase2Rules : ~Holds(Tree(r))

(* Every request gets a verdict, or its validation is given up, although   *)
(* auto_retry runs an undecided validation again.                          *)
VerdictReached == <>(stage \in {"refused", "done", "rejected", "failed"})

=============================================================================
