---------------------------- MODULE QueuedRequest ----------------------------
(***************************************************************************)
(* What the pipeline promises of one queue and beatmapset, without tasks,  *)
(* messages and jobs: at most one request at a time, under an id of its    *)
(* own, for someone whose POST was accepted; verdicts on requests that     *)
(* were admitted; and a rejection that strikes only the request it judges. *)
(***************************************************************************)
EXTENDS Naturals

CONSTANTS Users, None

VARIABLES
  asked,      \* users whose POST was accepted and who may still be admitted
  request,    \* the request: its id, its author and status, or None
  last,       \* the id given last
  verdicts,   \* the ids on which the Tier-3 rules have given a verdict
  rejecting   \* the ids found in violation, the rejection not yet written

vars == <<asked, request, last, verdicts, rejecting>>

Init ==
  /\ asked = {}
  /\ request = None
  /\ last = 0
  /\ verdicts = {}
  /\ rejecting = {}

(* A later POST for the pair may take the place of an earlier one.         *)
Ask(u) ==
  /\ u \in asked'
  /\ asked' \subseteq asked \cup {u}
  /\ UNCHANGED <<request, last, verdicts, rejecting>>

Admit(u) ==
  /\ u \in asked
  /\ request = None
  /\ request' = [id |-> last + 1, by |-> u, status |-> "PENDING"]
  /\ last' = last + 1
  /\ UNCHANGED <<asked, verdicts, rejecting>>

(* The request may have been withdrawn while it was judged.                *)
Judge(i) ==
  /\ i \in 1..last
  /\ verdicts' = verdicts \cup {i}
  /\ rejecting' \in {rejecting, rejecting \cup {i}}
  /\ UNCHANGED <<asked, request, last>>

Reject(i) ==
  /\ i \in rejecting \cap verdicts
  /\ request # None /\ request.id = i
  /\ request' = [request EXCEPT !.status = "REJECTED"]
  /\ rejecting' = rejecting \ {i}
  /\ UNCHANGED <<asked, last, verdicts>>

Manage(s) ==
  /\ request # None
  /\ request' = [request EXCEPT !.status = s]
  /\ UNCHANGED <<asked, last, verdicts, rejecting>>

Withdraw ==
  /\ request' = None
  /\ UNCHANGED <<asked, last, verdicts, rejecting>>

(* Work is given up: a POST that failed or was overtaken, a rejection that *)
(* could not be written, or everything under way when the process dies.    *)
GiveUp ==
  /\ asked' \subseteq asked
  /\ rejecting' \subseteq rejecting
  /\ UNCHANGED <<request, last, verdicts>>

Next ==
  \/ \E u \in Users : Ask(u) \/ Admit(u)
  \/ \E i \in 1..last : Judge(i) \/ Reject(i)
  \/ \E s \in {"PENDING", "ACCEPTED", "REJECTED"} : Manage(s)
  \/ Withdraw
  \/ GiveUp

Spec == Init /\ [][Next]_vars
=============================================================================
