------------------------ MODULE PlacementScanProofs ------------------------
(***************************************************************************)
(* placement.Select finds what Placement!Selected says, for every worker   *)
(* and every queue.                                                        *)
(***************************************************************************)
EXTENDS PlacementScan, TLAPS

ScanIInv ==
  /\ queue \in Seq(Leases)
  /\ i \in 1 .. Len(queue) + 1
  /\ BestSoFar

(* What beats the best lease so far beats every lease that was no better *)
(* than that one (betterCandidate).                                       *)
LEMMA BetterThanTheBest ==
  ASSUME NEW w, NEW a, NEW b, NEW c,
         a.priority \in Int, b.priority \in Int, c.priority \in Int,
         BetterCandidate(w, a, b), ~BetterCandidate(w, c, b)
  PROVE  BetterCandidate(w, a, c)
  BY DEF BetterCandidate

(* Of two leases at most one is better (betterCandidate). *)
LEMMA BetterIsAsymmetric ==
  ASSUME NEW w, NEW a, NEW b, a.priority \in Int, b.priority \in Int,
         BetterCandidate(w, a, b)
  PROVE  ~BetterCandidate(w, b, a)
  BY DEF BetterCandidate

(* The loop starts with no best lease. *)
LEMMA ScanStarts == ScanInit => ScanIInv
<1> SUFFICES ASSUME ScanInit PROVE ScanIInv
  OBVIOUS
<1>1. PICK n \in 0 .. MaxPending : queue \in [1 .. n -> Leases]
  BY DEF ScanInit
<1>2. queue \in Seq(Leases) /\ Len(queue) = n
  BY <1>1, MaxPendingAssumption
<1> QED
  BY <1>2, MaxPendingAssumption DEF ScanInit, ScanIInv, BestSoFar

(* Every iteration keeps the loop invariant. *)
LEMMA ScanKeepsIInv == ScanIInv /\ [Scan]_scanVars => ScanIInv'
<1> SUFFICES ASSUME ScanIInv, [Scan]_scanVars PROVE ScanIInv'
  OBVIOUS
<1>1. CASE UNCHANGED scanVars
  BY <1>1 DEF scanVars, ScanIInv, BestSoFar, Eligible, BetterCandidate, Cached
<1>2. CASE Scan
  <2> DEFINE E(j) == Eligible(worker, queue[j])
             B(j, k) == BetterCandidate(worker, queue[j], queue[k])
  <2>1. /\ queue \in Seq(Leases) /\ i \in 1 .. Len(queue) /\ i' = i + 1
        /\ queue' = queue /\ worker' = worker
        /\ best' = IF E(i) /\ (best = 0 \/ B(i, best)) THEN i ELSE best
    BY <1>2 DEF Scan, ScanIInv
  <2>2. /\ best \in 0 .. i - 1
        /\ best = 0 => \A j \in 1 .. i - 1 : ~E(j)
        /\ best # 0 => /\ E(best)
                       /\ \A j \in 1 .. i - 1 : E(j) => ~B(j, best) /\ (j < best => B(best, j))
    BY DEF ScanIInv, BestSoFar
  <2>3. \A j \in 1 .. Len(queue) : queue[j].priority \in Int
    BY <2>1, PrioritiesAreIntegers
  <2>4. /\ \A j, k, l \in 1 .. Len(queue) : B(j, k) /\ ~B(l, k) => B(j, l)
        /\ \A j, k \in 1 .. Len(queue) : B(j, k) => ~B(k, j)
    BY <2>3, BetterThanTheBest, BetterIsAsymmetric
  <2>5. \A j \in 1 .. Len(queue) : ~B(j, j)
    BY <2>4
  <2> HIDE DEF E, B
  <2>6. /\ best' \in 0 .. i
        /\ best' = 0 => \A j \in 1 .. i : ~E(j)
        /\ best' # 0 => /\ E(best')
                        /\ \A j \in 1 .. i : E(j) => ~B(j, best') /\ (j < best' => B(best', j))
    <3>1. CASE E(i) /\ best = 0
      BY <3>1, <2>1, <2>2, <2>5
    <3>2. CASE E(i) /\ best # 0 /\ B(i, best)
      BY <3>2, <2>1, <2>2, <2>4, <2>5
    <3>3. CASE E(i) /\ best # 0 /\ ~B(i, best)
      BY <3>3, <2>1, <2>2, <2>4
    <3>4. CASE ~E(i)
      BY <3>4, <2>1, <2>2
    <3> QED
      BY <3>1, <3>2, <3>3, <3>4
  <2> QED
    BY <2>1, <2>6 DEF ScanIInv, BestSoFar, E, B
<1> QED
  BY <1>1, <1>2

(***************************************************************************)
(* placement.Select returns the lease that Selected describes, and none    *)
(* only if the worker is eligible for none, whatever the worker and the    *)
(* queue.                                                                  *)
(***************************************************************************)
THEOREM SelectIsCorrect == ScanSpec => []SelectIsRight
<1>1. ScanIInv => SelectIsRight
  <2> SUFFICES ASSUME ScanIInv, i > Len(queue)
               PROVE  IF best = 0 THEN NoneEligible(worker, queue)
                                  ELSE Selected(worker, queue, best)
    BY DEF SelectIsRight
  <2>1. i - 1 = Len(queue) /\ Len(queue) \in Nat
    BY DEF ScanIInv
  <2> QED
    BY <2>1 DEF ScanIInv, BestSoFar, NoneEligible, Selected
<1> QED
  BY <1>1, ScanStarts, ScanKeepsIInv, PTL DEF ScanSpec
=============================================================================
