--------------------------- MODULE PlacementScan ---------------------------
(***************************************************************************)
(* The loop of placement.Select (internal/placement/placement.go), one     *)
(* step per iteration.                                                     *)
(***************************************************************************)
EXTENDS Placement

CONSTANTS Fleet,         \* the workers that may ask for a lease
          Leases,        \* the leases that may be pending
          MaxPending     \* bound: the length of the queue

ASSUME PrioritiesAreIntegers == \A lease \in Leases : lease.priority \in Int
ASSUME MaxPendingAssumption == MaxPending \in Nat

VARIABLES worker, queue,     \* the arguments of Select
          i,                 \* the candidate the loop looks at next
          best               \* the best one so far; 0, in the code -1, for none

scanVars == <<worker, queue, i, best>>

ScanInit ==
  /\ worker \in Fleet
  /\ queue \in UNION {[1 .. n -> Leases] : n \in 0 .. MaxPending}
  /\ i = 1
  /\ best = 0

(* An iteration that prefers the later of two equal candidates *)
ScanPrefersLater ==
  /\ i <= Len(queue)
  /\ best' = IF /\ Eligible(worker, queue[i])
                /\ best = 0 \/ ~BetterCandidate(worker, queue[best], queue[i])
             THEN i ELSE best
  /\ i' = i + 1
  /\ UNCHANGED <<worker, queue>>

(* An iteration of the loop *)
Scan ==
  /\ i <= Len(queue)
  /\ best' = IF /\ Eligible(worker, queue[i])
                /\ best = 0 \/ BetterCandidate(worker, queue[i], queue[best])
             THEN i ELSE best
  /\ i' = i + 1
  /\ UNCHANGED <<worker, queue>>

(* Select has returned. *)
ScanReturned == i > Len(queue) /\ UNCHANGED scanVars

ScanSpec == ScanInit /\ [][Scan]_scanVars

----------------------------------------------------------------------------
(***************************************************************************)
(* What Select returns at the end of the loop is the selected lease: of    *)
(* the leases the worker is eligible for, one of the highest priority,     *)
(* among those one whose content the worker has if there is one, and among *)
(* those the earliest.  It returns none only if the worker is eligible for *)
(* none.                                                                   *)
(***************************************************************************)
SelectIsRight ==
  i > Len(queue) =>
    IF best = 0 THEN NoneEligible(worker, queue) ELSE Selected(worker, queue, best)

(***************************************************************************)
(* The loop invariant: best is the selected lease of those seen so far.    *)
(***************************************************************************)
BestSoFar ==
  /\ best \in 0 .. i - 1
  /\ best = 0 => \A j \in 1 .. i - 1 : ~Eligible(worker, queue[j])
  /\ best # 0 =>
       /\ Eligible(worker, queue[best])
       /\ \A j \in 1 .. i - 1 : Eligible(worker, queue[j]) =>
            /\ ~BetterCandidate(worker, queue[j], queue[best])
            /\ j < best => BetterCandidate(worker, queue[best], queue[j])
=============================================================================
