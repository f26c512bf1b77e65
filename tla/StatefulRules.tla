----------------------------- MODULE StatefulRules -----------------------------
(***************************************************************************)
(* The rules of a queue that consume Redis state: a rate_limit counter per *)
(* period and a cooldown key.  POST /requests reserves them one after      *)
(* another (app/database/rules/engine/stateful.py), enqueues the request   *)
(* and rolls them back when a later rule or the enqueue fails.  The keys   *)
(* hold queue, user and a fingerprint of the rule's config, so one user,   *)
(* one queue and one rule of each type are modelled.  Phase 1 skips both   *)
(* types.  A step is one Redis command; time passes between any two.       *)
(***************************************************************************)
EXTENDS Integers, Sequences, FiniteSets, Functions

CONSTANTS
  Posts,         \* the POSTs of the user to the queue
  Rules,         \* the queue's stateful rules, in order
  MaxRequests,   \* max_requests of the rate_limit rule
  PeriodLength,  \* how long a bucket of _truncate_to_period lasts
  Duration,      \* _period_duration_seconds: the TTL of its counter
  Cooldown,      \* cooldown_seconds
  MaxTime,       \* bound: the clock
  Prompt,        \* whether a POST ends before its own cooldown key expires
  Faults,        \* subset of {"enqueue", "crash", "rollback"}
  None

ASSUME StatefulAssumption ==
  /\ Rules \in Seq({"rate_limit", "cooldown"})
  /\ IsInjective(Rules)
  /\ {MaxRequests, PeriodLength, Duration, Cooldown} \subseteq Nat \ {0}
  /\ MaxTime \in Nat
  /\ Prompt \in BOOLEAN
  /\ IsFiniteSet(Posts)

VARIABLES
  now,      \* the clock
  counter,  \* the rate_limit key of each bucket: value and expiry, or None
  cool,     \* expiry of the cooldown key, or None
  post      \* each POST

vars == <<now, counter, cool, post>>

Bucket == now \div PeriodLength
Buckets == 0..(MaxTime \div PeriodLength)
Expiries == 0..(MaxTime + Duration + Cooldown)
Steps == {"reserve", "expire", "over", "enqueue", "rollback", "accepted", "refused", "lost"}

TypeOK ==
  /\ now \in 0..MaxTime
  /\ counter \in [Buckets -> [n: Int, ex: Expiries \cup {None}] \cup {None}]
  /\ cool \in Expiries \cup {None}
  /\ post \in [Posts -> [pc: Steps, i: 1..(Len(Rules) + 1), bucket: Buckets, at: 0..MaxTime,
                         held: Seq(Range(Rules)), leaked: SUBSET Range(Rules)]]

Init ==
  /\ now = 0
  /\ counter = [b \in Buckets |-> None]
  /\ cool = None
  /\ post = [p \in Posts |-> [pc |-> "reserve", i |-> 1, bucket |-> 0, at |-> 0,
                              held |-> <<>>, leaked |-> {}]]

-----------------------------------------------------------------------------
(* INCR and DECR create a key that is not there, without an expiry.        *)
Value(b) == IF counter[b] = None THEN 0 ELSE counter[b].n
Add(b, k) ==
  counter' = [counter EXCEPT ![b] = IF @ = None THEN [n |-> k, ex |-> None]
                                                ELSE [@ EXCEPT !.n = @ + k]]

At(p, rule) == post[p].pc = "reserve" /\ Rules[post[p].i] = rule

(* What is left to do once rule i is reserved.                             *)
AfterRule(i) == IF i = Len(Rules) THEN "enqueue" ELSE "reserve"

Reserved(r) ==
  [r EXCEPT !.pc = AfterRule(r.i), !.i = @ + 1, !.held = Append(@, Rules[r.i])]

(* The exception: roll back what is held, then answer.                     *)
Blocked(r) == [r EXCEPT !.pc = IF r.held = <<>> THEN "refused" ELSE "rollback"]

(* Mutant: the limit is compared off by one.                               *)
CountsOneMore(p) ==
  /\ At(p, "rate_limit")
  /\ Add(Bucket, 1)
  /\ LET n == Value(Bucket) + 1
         r == [post[p] EXCEPT !.bucket = Bucket]
     IN post' = [post EXCEPT ![p] = CASE n = 1 -> [r EXCEPT !.pc = "expire"]
                                      [] n > MaxRequests + 1 -> [r EXCEPT !.pc = "over"]
                                      [] OTHER -> Reserved(r)]
  /\ UNCHANGED <<now, cool>>

ReserveRate(p) ==
  /\ At(p, "rate_limit")
  /\ Add(Bucket, 1)
  /\ LET n == Value(Bucket) + 1
         r == [post[p] EXCEPT !.bucket = Bucket]
     IN post' = [post EXCEPT ![p] = CASE n = 1 -> [r EXCEPT !.pc = "expire"]
                                      [] n > MaxRequests -> [r EXCEPT !.pc = "over"]
                                      [] OTHER -> Reserved(r)]
  /\ UNCHANGED <<now, cool>>

SetExpiry(p) ==
  /\ post[p].pc = "expire"
  /\ counter' = [counter EXCEPT ![post[p].bucket] =
                   IF @ = None THEN None ELSE [@ EXCEPT !.ex = now + Duration]]
  /\ post' = [post EXCEPT ![p] = Reserved(@)]
  /\ UNCHANGED <<now, cool>>

(* Mutant: the increment that went over the limit is kept.                 *)
OverKeeps(p) ==
  /\ post[p].pc = "over"
  /\ post' = [post EXCEPT ![p] = Blocked(@)]
  /\ UNCHANGED <<now, counter, cool>>

OverLimit(p) ==
  /\ post[p].pc = "over"
  /\ Add(post[p].bucket, -1)
  /\ post' = [post EXCEPT ![p] = Blocked(@)]
  /\ UNCHANGED <<now, cool>>

(* Mutant: SET without NX.                                                 *)
CooldownOverwrites(p) ==
  /\ At(p, "cooldown")
  /\ cool' = now + Cooldown
  /\ post' = [post EXCEPT ![p] = Reserved([@ EXCEPT !.at = now])]
  /\ UNCHANGED <<now, counter>>

(* SET NX EX                                                               *)
ReserveCooldown(p) ==
  /\ At(p, "cooldown")
  /\ IF cool = None
     THEN /\ cool' = now + Cooldown
          /\ post' = [post EXCEPT ![p] = Reserved([@ EXCEPT !.at = now])]
     ELSE /\ post' = [post EXCEPT ![p] = Blocked(@)]
          /\ UNCHANGED cool
  /\ UNCHANGED <<now, counter>>

(* hset and publish of POST /requests; an exception rolls back.            *)
Enqueue(p) ==
  /\ post[p].pc = "enqueue"
  /\ \/ post' = [post EXCEPT ![p].pc = "accepted"]
     \/ "enqueue" \in Faults /\ post' = [post EXCEPT ![p] = Blocked(@)]
  /\ UNCHANGED <<now, counter, cool>>

Undone(r) == Blocked([r EXCEPT !.held = Tail(@)])

(* rollback_reservations: DECR of the counter, DEL of the cooldown key,    *)
(* whoever has set it.                                                     *)
Rollback(p) ==
  /\ post[p].pc = "rollback"
  /\ IF Head(post[p].held) = "rate_limit"
     THEN Add(post[p].bucket, -1) /\ UNCHANGED cool
     ELSE cool' = None /\ UNCHANGED counter
  /\ post' = [post EXCEPT ![p] = Undone(@)]
  /\ UNCHANGED now

(* A rollback that raises is logged and the next one is tried.             *)
RollbackFails(p) ==
  /\ "rollback" \in Faults
  /\ post[p].pc = "rollback"
  /\ post' = [post EXCEPT ![p] = Undone([@ EXCEPT !.leaked = @ \cup {Head(post[p].held)}])]
  /\ UNCHANGED <<now, counter, cool>>

Ended == {"accepted", "refused", "lost"}
InFlight(p) == post[p].pc \notin Ended

(* The process dies with the POST half done.                               *)
Dies(p) ==
  /\ "crash" \in Faults
  /\ InFlight(p)
  /\ post' = [post EXCEPT ![p].pc = "lost",
                ![p].leaked = @ \cup Range(post[p].held)
                  \cup (IF post[p].pc \in {"expire", "over"} THEN {"rate_limit"} ELSE {})]
  /\ UNCHANGED <<now, counter, cool>>

Holds(p, rule) == rule \in Range(post[p].held) \cup post[p].leaked

(* Time passes and Redis drops the keys that expire.                       *)
Tick ==
  /\ now < MaxTime
  /\ Prompt => \A p \in Posts :
                 InFlight(p) /\ Holds(p, "cooldown") => now + 1 < post[p].at + Cooldown
  /\ now' = now + 1
  /\ counter' = [b \in Buckets |-> IF counter[b] # None /\ counter[b].ex = now + 1
                                   THEN None ELSE counter[b]]
  /\ cool' = IF cool = now + 1 THEN None ELSE cool
  /\ UNCHANGED post

Post(p) ==
  \/ ReserveRate(p) \/ SetExpiry(p) \/ OverLimit(p) \/ ReserveCooldown(p)
  \/ Enqueue(p) \/ Rollback(p) \/ RollbackFails(p) \/ Dies(p)

Next == Tick \/ \E p \in Posts : Post(p)

Spec == Init /\ [][Next]_vars

-----------------------------------------------------------------------------
Accepted(b) == {p \in Posts : post[p].pc = "accepted" /\ Holds(p, "rate_limit") /\ post[p].bucket = b}

(* However the POSTs of a user interleave, no more than max_requests are   *)
(* accepted in one period.                                                 *)
RateLimitHeld == \A b \in Buckets : Cardinality(Accepted(b)) <= MaxRequests

Charged(b) == {p \in Posts : /\ Holds(p, "rate_limit") \/ post[p].pc \in {"expire", "over"}
                             /\ post[p].bucket = b}

(* A blocked request consumes no state: the counter of the current period  *)
(* is the number of POSTs accepted, in progress or lost in it, and the     *)
(* cooldown key is that of such a POST.                                    *)
StateIsOwned ==
  /\ Value(Bucket) = Cardinality(Charged(Bucket))
  /\ cool # None => \E p \in Posts : Holds(p, "cooldown") /\ post[p].at + Cooldown = cool

(* Two accepted requests are at least cooldown_seconds apart.              *)
CooldownHeld ==
  \A p, q \in Posts :
    p # q /\ post[p].pc = "accepted" /\ post[q].pc = "accepted"
          /\ Holds(p, "cooldown") /\ Holds(q, "cooldown") /\ post[p].at <= post[q].at
      => post[p].at + Cooldown <= post[q].at

=============================================================================
