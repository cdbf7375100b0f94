--------------------------- MODULE LeaseLifecycle ---------------------------
(***************************************************************************)
(* What the control plane promises about a lease, with no queue, no        *)
(* worker table and no placement: the lifecycle of docs/distributed-       *)
(* builds.md (submit, claim, complete or cancel, reclaim from a lost       *)
(* worker).  ControlPlane implements it.                                   *)
(*                                                                         *)
(* life is a function on the leases submitted so far; a lease is           *)
(* [phase, holder, attempt].  count is the number of submissions.         *)
(***************************************************************************)
EXTENDS Integers

CONSTANTS Holders, NoHolder

VARIABLES life, count

lifeVars == <<life, count>>

(* A lease is created under the next number, never an old one, and waits. *)
Submitted ==
  /\ count' = count + 1
  /\ life' = [l \in 1 .. count + 1 |->
                IF l = count + 1
                  THEN [phase |-> "pending", holder |-> NoHolder, attempt |-> 0]
                  ELSE life[l]]

(* One waiting lease goes to one worker, as a new attempt. *)
Claimed(l, w) ==
  /\ life[l].phase = "pending"
  /\ life' = [life EXCEPT ![l].phase = "assigned", ![l].holder = w,
                          ![l].attempt = @ + 1]
  /\ UNCHANGED count

(* Only the holder ends a lease with a result. *)
Completed(l, w) ==
  /\ life[l].phase = "assigned"
  /\ life[l].holder = w
  /\ life' = [life EXCEPT ![l].phase = "completed"]
  /\ UNCHANGED count

Canceled(l) ==
  /\ life[l].phase \in {"pending", "assigned"}
  /\ life' = [life EXCEPT ![l].phase = "canceled"]
  /\ UNCHANGED count

(* Workers are lost as a whole: every lease they hold waits again, and no  *)
(* lease of anybody else is touched.                                       *)
Reclaimed(W) ==
  /\ life' = [l \in DOMAIN life |->
                IF life[l].phase = "assigned" /\ life[l].holder \in W
                  THEN [life[l] EXCEPT !.phase = "pending", !.holder = NoHolder]
                  ELSE life[l]]
  /\ UNCHANGED count

LifeInit ==
  /\ life = [l \in {} |-> 0]
  /\ count = 0

LifeNext ==
  \/ Submitted
  \/ \E l \in DOMAIN life :
       \/ \E w \in Holders : Claimed(l, w) \/ Completed(l, w)
       \/ Canceled(l)
  \/ \E W \in SUBSET Holders : Reclaimed(W)

LifeSpec == LifeInit /\ [][LifeNext]_lifeVars
=============================================================================
