----------------------------- MODULE Placement -----------------------------
(***************************************************************************)
(* Which pending lease a worker gets (internal/placement/placement.go).    *)
(*                                                                         *)
(* The operators of the package, and in Selected what its function Select  *)
(* promises.  ControlPlane uses Selected; PlacementScan has the loop of    *)
(* Select, and shows that it finds what Selected says.                     *)
(*                                                                         *)
(* A worker is [platform, capabilities, cached, maxParallel, ...], a       *)
(* candidate [platform, capabilities, preferred, priority, ...].  AnyValue *)
(* stands for the empty string, which both RequiredPlatform and            *)
(* PreferredContent use for "not set".                                     *)
(***************************************************************************)
EXTENDS Integers, Sequences

CONSTANT AnyValue

(* placement.Eligible: platform and capability requirements, nothing else. *)
Eligible(worker, candidate) ==
  /\ candidate.platform \in {AnyValue, worker.platform}
  /\ candidate.capabilities \subseteq worker.capabilities

(* The cache-locality test of betterCandidate. *)
Cached(worker, candidate) ==
  candidate.preferred # AnyValue /\ candidate.preferred \in worker.cached

(* placement.betterCandidate: priority first, then cache locality. *)
BetterCandidate(worker, candidate, current) ==
  \/ candidate.priority > current.priority
  \/ /\ candidate.priority = current.priority
     /\ Cached(worker, candidate)
     /\ ~Cached(worker, current)

(***************************************************************************)
(* What Select promises about the index it returns: the worker is eligible *)
(* for it, no eligible candidate is better, and an earlier one is only     *)
(* passed over when the returned one is better (FIFO among equals).        *)
(***************************************************************************)
Selected(worker, candidates, i) ==
  /\ i \in 1 .. Len(candidates)
  /\ Eligible(worker, candidates[i])
  /\ \A j \in 1 .. Len(candidates) :
       Eligible(worker, candidates[j]) =>
         /\ ~BetterCandidate(worker, candidates[j], candidates[i])
         /\ j < i => BetterCandidate(worker, candidates[i], candidates[j])

NoneEligible(worker, candidates) ==
  \A j \in 1 .. Len(candidates) : ~Eligible(worker, candidates[j])
=============================================================================
