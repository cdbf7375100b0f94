------------------------- MODULE ControlPlaneProofs -------------------------
(***************************************************************************)
(* Proofs about ControlPlane, for every set of workers, registrations and  *)
(* submissions and every bound.                                            *)
(***************************************************************************)
EXTENDS ControlPlane, FiniteSetTheorems, SequenceTheorems, TLAPS

(* A set of leases is finite, so its cardinality is a number.              *)
LEMMA LeaseSetsAreFinite ==
  ASSUME TypeOK, NEW S \in SUBSET (DOMAIN leases)
  PROVE  /\ IsFiniteSet(S)
         /\ Cardinality(S) \in Nat
<1>1. IsFiniteSet(1 .. nextID)
  BY FS_Interval DEF TypeOK
<1>2. S \subseteq 1 .. nextID
  BY DEF TypeOK
<1>3. IsFiniteSet(S)
  BY <1>1, <1>2, FS_Subset, Zenon
<1>. QED BY <1>3, FS_CardinalityType

(* Queues: no lease twice, no lease in common, a lease is listed. *)
NoRepeats(s) == \A j, k \in 1 .. Len(s) : s[j] = s[k] => j = k
Apart(s, t) == \A j \in 1 .. Len(s), k \in 1 .. Len(t) : s[j] # t[k]
Lists(s, l) == \E k \in 1 .. Len(s) : s[k] = l

(* The leases S are all held by somebody. *)
AllHeld(S) == S \in SUBSET (DOMAIN leases) /\ \A l \in S : leases[l].worker \in Workers

(* What an order of requeueing S is: a sequence of the leases of S, each   *)
(* exactly once.                                                           *)
LEMMA RequeueOrderIsEnumeration ==
  ASSUME TypeOK, NEW S, AllHeld(S), NEW q \in RequeueOrders(S)
  PROVE  /\ q \in Seq(S)
         /\ NoRepeats(q)
         /\ \A l \in S : Lists(q, l)
<1>. USE DEF AllHeld, NoRepeats, Lists
<1>. DEFINE n == Cardinality(S)
<1>1. n \in Nat
  BY LeaseSetsAreFinite
<1>2. q \in [1 .. n -> S]
  BY DEF RequeueOrders
<1>3. q \in Seq(S) /\ Len(q) = n
  BY <1>1, <1>2
<1>4. \A l \in S : l \in Nat /\ leases[l].worker \in Nat
  BY PlaneAssumption DEF TypeOK
<1>5. \A l \in S : ~RequeueBefore(l, l)
  BY <1>4 DEF RequeueBefore, LexBefore
<1>6. ASSUME NEW i \in 1 .. n, NEW j \in 1 .. n, q[i] = q[j]
      PROVE  i = j
  <2>1. ~(i < j)
    BY <1>2, <1>5, <1>6 DEF RequeueOrders
  <2>2. ~(j < i)
    BY <1>2, <1>5, <1>6 DEF RequeueOrders
  <2>. QED BY <1>1, <2>1, <2>2
<1>7. \A l \in S : \E i \in 1 .. n : q[i] = l
  BY DEF RequeueOrders
<1>. QED BY <1>3, <1>6, <1>7

----------------------------------------------------------------------------
(* Removing position i from a queue: the rest closes up, in order.         *)
LEMMA RemovedPosition ==
  ASSUME NEW S, pending \in Seq(S), NEW i \in 1 .. Len(pending)
  PROVE  /\ RemoveFromQueue(i) \in Seq(S)
         /\ Len(RemoveFromQueue(i)) = Len(pending) - 1
         /\ \A k \in 1 .. Len(pending) - 1 :
              RemoveFromQueue(i)[k] = IF k < i THEN pending[k] ELSE pending[k + 1]
<1>. DEFINE a == SubSeq(pending, 1, i - 1)
            b == SubSeq(pending, i + 1, Len(pending))
<1>1. /\ a \in Seq(S) /\ Len(a) = i - 1
      /\ \A k \in 1 .. i - 1 : a[k] = pending[k]
  OBVIOUS
<1>2. /\ b \in Seq(S) /\ Len(b) = Len(pending) - i
      /\ \A k \in 1 .. Len(pending) - i : b[k] = pending[k + i]
  OBVIOUS
<1>. HIDE DEF a, b
<1>3. Len(pending) \in Nat
  OBVIOUS
<1>4. /\ a \o b \in Seq(S) /\ Len(a \o b) = Len(pending) - 1
      /\ \A k \in 1 .. Len(pending) - 1 :
           (a \o b)[k] = IF k <= Len(a) THEN a[k] ELSE b[k - Len(a)]
  <2>1. /\ a \o b \in Seq(S) /\ Len(a \o b) = Len(a) + Len(b)
        /\ \A k \in 1 .. Len(a) + Len(b) :
             (a \o b)[k] = IF k <= Len(a) THEN a[k] ELSE b[k - Len(a)]
    BY <1>1, <1>2, ConcatProperties, Zenon
  <2>2. Len(a) + Len(b) = Len(pending) - 1
    BY <1>1, <1>2, <1>3
  <2>. QED BY <2>1, <2>2
<1>5. ASSUME NEW k \in 1 .. Len(pending) - 1
      PROVE  (a \o b)[k] = IF k < i THEN pending[k] ELSE pending[k + 1]
  <2>1. CASE k < i
    BY <1>1, <1>3, <1>4, <2>1
  <2>2. CASE ~(k < i)
    <3>1. k - Len(a) \in 1 .. Len(pending) - i /\ (k - Len(a)) + i = k + 1
      BY <1>1, <1>3, <2>2
    <3>2. b[k - Len(a)] = pending[k + 1]
      BY <1>2, <3>1, Zenon
    <3>. QED BY <1>1, <1>3, <1>4, <2>2, <3>2
  <2>. QED BY <2>1, <2>2, Zenon
<1>. QED BY <1>4, <1>5, Zenon DEF RemoveFromQueue, a, b

(* The queue without the lease at position i holds every other lease it    *)
(* held, once, and that lease no more.                                     *)
LEMMA RemovedLease ==
  ASSUME NEW S, pending \in Seq(S), NEW i \in 1 .. Len(pending),
         \A j, k \in 1 .. Len(pending) : pending[j] = pending[k] => j = k
  PROVE  LET q == RemoveFromQueue(i) IN
         /\ q \in Seq(S)
         /\ \A j, k \in 1 .. Len(q) : q[j] = q[k] => j = k
         /\ \A l : (\E k \in 1 .. Len(q) : q[k] = l) <=>
                 (l # pending[i] /\ \E k \in 1 .. Len(pending) : pending[k] = l)
<1>. DEFINE q == RemoveFromQueue(i)
<1>1. /\ q \in Seq(S)
      /\ Len(q) = Len(pending) - 1
      /\ \A k \in 1 .. Len(pending) - 1 :
           q[k] = IF k < i THEN pending[k] ELSE pending[k + 1]
  BY RemovedPosition, Zenon
<1>. HIDE DEF q
<1>2. Len(pending) \in Nat
  OBVIOUS
<1>3. \A j, k \in 1 .. Len(q) : q[j] = q[k] => j = k
  BY <1>1, <1>2
<1>4. ASSUME NEW l, NEW k \in 1 .. Len(q), q[k] = l
      PROVE  l # pending[i] /\ \E j \in 1 .. Len(pending) : pending[j] = l
  BY <1>1, <1>2, <1>4
<1>5. ASSUME NEW l, l # pending[i], NEW j \in 1 .. Len(pending), pending[j] = l
      PROVE  \E k \in 1 .. Len(q) : q[k] = l
  <2>1. CASE j < i
    BY <1>1, <1>2, <1>5, <2>1
  <2>2. CASE j > i
    <3>1. j - 1 \in 1 .. Len(q) /\ q[j - 1] = pending[j]
      BY <1>1, <1>2, <2>2
    <3>. QED BY <3>1, <1>5
  <2>. QED BY <1>5, <2>1, <2>2
<1>6. ASSUME NEW l
      PROVE  (\E k \in 1 .. Len(q) : q[k] = l) <=>
               (l # pending[i] /\ \E k \in 1 .. Len(pending) : pending[k] = l)
  BY <1>4, <1>5, Zenon
<1>. QED BY <1>1, <1>3, <1>6 DEF q


(* Appending q, whose leases are not queued yet, to the queue.             *)
LEMMA Requeued ==
  ASSUME NEW S, pending \in Seq(S), NEW q \in Seq(S), NEW r, r = pending \o q,
         NoRepeats(pending), NoRepeats(q), Apart(pending, q)
  PROVE  /\ r \in Seq(S)
         /\ NoRepeats(r)
         /\ \A l : Lists(r, l) <=> Lists(pending, l) \/ Lists(q, l)
<1>. USE DEF NoRepeats, Apart, Lists
<1>1. /\ r \in Seq(S) /\ Len(r) = Len(pending) + Len(q)
      /\ \A k \in 1 .. Len(r) :
           r[k] = IF k <= Len(pending) THEN pending[k] ELSE q[k - Len(pending)]
  OBVIOUS
<1>2. Len(pending) \in Nat /\ Len(q) \in Nat
  OBVIOUS
<1>3. ASSUME NEW j \in 1 .. Len(r), NEW k \in 1 .. Len(r), r[j] = r[k]
      PROVE  j = k
  <2>1. CASE j <= Len(pending) /\ k <= Len(pending)
    BY <1>1, <1>2, <1>3, <2>1
  <2>2. CASE j > Len(pending) /\ k > Len(pending)
    <3>1. j - Len(pending) \in 1 .. Len(q) /\ k - Len(pending) \in 1 .. Len(q)
      BY <1>1, <1>2, <2>2
    <3>2. q[j - Len(pending)] = q[k - Len(pending)]
      BY <1>1, <1>2, <1>3, <2>2
    <3>3. j - Len(pending) = k - Len(pending)
      BY <3>1, <3>2
    <3>. QED BY <3>3, <1>2
  <2>3. CASE j <= Len(pending) /\ k > Len(pending)
    <3>1. j \in 1 .. Len(pending) /\ k - Len(pending) \in 1 .. Len(q)
      BY <1>1, <1>2, <2>3
    <3>. QED BY <1>1, <1>3, <2>3, <3>1
  <2>4. CASE j > Len(pending) /\ k <= Len(pending)
    <3>1. k \in 1 .. Len(pending) /\ j - Len(pending) \in 1 .. Len(q)
      BY <1>1, <1>2, <2>4
    <3>. QED BY <1>1, <1>3, <2>4, <3>1
  <2>. QED BY <1>1, <1>2, <2>1, <2>2, <2>3, <2>4
<1>4. ASSUME NEW l, NEW k \in 1 .. Len(q), q[k] = l
      PROVE  \E j \in 1 .. Len(r) : r[j] = l
  <2>1. /\ k + Len(pending) \in 1 .. Len(r)
        /\ ~(k + Len(pending) <= Len(pending))
        /\ (k + Len(pending)) - Len(pending) = k
    BY <1>1, <1>2
  <2>2. r[k + Len(pending)] = q[k]
    BY <1>1, <2>1
  <2>. QED BY <2>1, <2>2, <1>4, Zenon
<1>5. ASSUME NEW l, NEW k \in 1 .. Len(pending), pending[k] = l
      PROVE  \E j \in 1 .. Len(r) : r[j] = l
  BY <1>1, <1>2, <1>5
<1>6. ASSUME NEW l, NEW k \in 1 .. Len(r), r[k] = l
      PROVE  \/ \E j \in 1 .. Len(pending) : pending[j] = l
             \/ \E j \in 1 .. Len(q) : q[j] = l
  <2>1. CASE k <= Len(pending)
    BY <1>1, <1>2, <1>6, <2>1
  <2>2. CASE k > Len(pending)
    <3>1. k - Len(pending) \in 1 .. Len(q) /\ q[k - Len(pending)] = l
      BY <1>1, <1>2, <1>6, <2>2
    <3>. QED BY <3>1
  <2>. QED BY <1>1, <1>2, <2>1, <2>2
<1>7. ASSUME NEW l
      PROVE  (\E k \in 1 .. Len(r) : r[k] = l) <=>
               \/ \E k \in 1 .. Len(pending) : pending[k] = l
               \/ \E k \in 1 .. Len(q) : q[k] = l
  BY <1>4, <1>5, <1>6, Zenon
<1>. QED BY <1>1, <1>3, <1>7, Zenon
----------------------------------------------------------------------------
(* The inductive invariant: types, the queue, and the facts about one      *)
(* lease that the queue argument rests on (an assigned lease has a real    *)
(* worker, so requeueing it is ordered; a pending one has none).           *)
IInv ==
  /\ TypeOK
  /\ QueueExact
  /\ HolderIsRegistered
  /\ ProvenanceMatchesState

(* Losing the workers W keeps the types, the queue and the lease facts.    *)
LEMMA RequeueKeepsQueue ==
  ASSUME IInv, NEW W \in SUBSET Workers,
         RequeueLeasesHeldBy(W), UNCHANGED nextID
  PROVE  /\ leases' \in [1 .. nextID -> Lease]
         /\ pending' \in Seq(1 .. nextID)
         /\ QueueExact'
         /\ ProvenanceMatchesState'
         /\ \A l \in DOMAIN leases :
              leases'[l].state = "assigned" =>
                /\ leases[l].state = "assigned"
                /\ leases'[l].worker = leases[l].worker
                /\ leases[l].worker \notin W
<1>. DEFINE R == HeldBy(W)
<1>1. /\ R = {l \in DOMAIN leases : leases[l].state = "assigned" /\ leases[l].worker \in W}
      /\ R \in SUBSET (DOMAIN leases)
  BY DEF HeldBy
<1>2. PICK q \in RequeueOrders(R) : pending' = pending \o q
  BY Zenon DEF RequeueLeasesHeldBy
<1>3. leases' = [l \in DOMAIN leases |->
                  IF l \in R
                    THEN [leases[l] EXCEPT !.state = "pending", !.worker = Nobody]
                    ELSE leases[l]]
  BY Zenon DEF RequeueLeasesHeldBy
<1>. HIDE DEF R
<1>15. /\ TypeOK
      /\ \A l \in R : leases[l].worker \in Workers
  BY <1>1 DEF IInv
<1>4. /\ q \in Seq(R)
      /\ \A i, j \in 1 .. Len(q) : q[i] = q[j] => i = j
      /\ \A l \in R : \E i \in 1 .. Len(q) : q[i] = l
  <2>1. AllHeld(R)
    BY <1>1, <1>15 DEF AllHeld
  <2>2. q \in Seq(R) /\ NoRepeats(q) /\ \A l \in R : Lists(q, l)
    BY <1>2, <1>15, <2>1, RequeueOrderIsEnumeration, Zenon
  <2>. QED BY <2>2 DEF NoRepeats, Lists
<1>5. /\ nextID \in Nat
      /\ DOMAIN leases = 1 .. nextID
      /\ leases \in [1 .. nextID -> Lease]
      /\ pending \in Seq(1 .. nextID)
  BY DEF IInv, TypeOK
<1>6. /\ q \in Seq(1 .. nextID)
      /\ \A k \in 1 .. Len(q) : q[k] \in R
  BY <1>1, <1>4, <1>5
<1>7. \A j \in 1 .. Len(pending) : pending[j] \in 1 .. nextID
  BY <1>5
<1>8. \A j \in 1 .. Len(pending) : pending[j] \notin R
  BY <1>1, <1>5, <1>7 DEF IInv, QueueExact
<1>9. /\ pending' \in Seq(1 .. nextID)
      /\ \A j, k \in 1 .. Len(pending') : pending'[j] = pending'[k] => j = k
      /\ \A l : (\E k \in 1 .. Len(pending') : pending'[k] = l) <=>
               \/ \E k \in 1 .. Len(pending) : pending[k] = l
               \/ \E k \in 1 .. Len(q) : q[k] = l
  <2>1. \A j, k \in 1 .. Len(pending) : pending[j] = pending[k] => j = k
    BY DEF IInv, QueueExact
  <2>2. \A j \in 1 .. Len(pending), k \in 1 .. Len(q) : pending[j] # q[k]
    BY <1>6, <1>8
  <2>3. pending \in Seq(1 .. nextID)
    BY <1>5
  <2>4. q \in Seq(1 .. nextID)
    BY <1>6
  <2>5. \A j, k \in 1 .. Len(q) : q[j] = q[k] => j = k
    BY <1>4
  <2>6. pending' = pending \o q
    BY <1>2
  <2>7. PICK S : S = 1 .. nextID
    OBVIOUS
  <2>8. PICK r : r = pending \o q
    BY Zenon
  <2>9. pending \in Seq(S)
    BY <2>3, <2>7
  <2>12. q \in Seq(S)
    BY <2>4, <2>7
  <2>13. NoRepeats(pending) /\ NoRepeats(q) /\ Apart(pending, q)
    BY <2>1, <2>2, <2>5 DEF NoRepeats, Apart
  <2>10. /\ r \in Seq(S)
         /\ NoRepeats(r)
         /\ \A l : Lists(r, l) <=> Lists(pending, l) \/ Lists(q, l)
    BY <2>8, <2>9, <2>12, <2>13, Requeued, Zenon
  <2>11. pending' = r
    BY <2>6, <2>8
  <2>. QED BY <2>7, <2>10, <2>11, Zenon DEF NoRepeats, Lists
<1>10. /\ DOMAIN leases' = DOMAIN leases
       /\ leases' \in [1 .. nextID -> Lease]
  <2>1. ASSUME NEW l \in DOMAIN leases
        PROVE  [leases[l] EXCEPT !.state = "pending", !.worker = Nobody] \in Lease
    <3>1. leases[l] \in Lease
      BY <1>5
    <3>. QED BY <3>1, Zenon DEF Lease, LeaseStates
  <2>2. \A l \in DOMAIN leases : leases'[l] \in Lease
    <3>1. ASSUME NEW l \in DOMAIN leases PROVE leases'[l] \in Lease
      <4>1. CASE l \in R
        BY <1>3, <2>1, <4>1, Zenon
      <4>2. CASE l \notin R
        BY <1>3, <1>5, <4>2, Zenon
      <4>. QED BY <4>1, <4>2
    <3>. QED BY <3>1
  <2>3. leases' = [l \in DOMAIN leases |-> leases'[l]]
    BY <1>3, Zenon
  <2>. QED BY <1>5, <2>2, <2>3
<1>11. \A l \in DOMAIN leases : leases'[l].state = "pending" <=>
                                (leases[l].state = "pending" \/ l \in R)
  BY <1>3, <1>5, Zenon DEF Lease
<1>12. QueueExact'
  <2>1. ASSUME NEW l \in DOMAIN leases
        PROVE  leases'[l].state = "pending" <=>
                 \E i \in 1 .. Len(pending') : pending'[i] = l
    <3>1. leases[l].state = "pending" <=> \E i \in 1 .. Len(pending) : pending[i] = l
      BY DEF IInv, QueueExact
    <3>2. l \in R <=> \E k \in 1 .. Len(q) : q[k] = l
      BY <1>4, <1>6
    <3>3. (\E k \in 1 .. Len(pending') : pending'[k] = l) <=>
            \/ \E k \in 1 .. Len(pending) : pending[k] = l
            \/ \E k \in 1 .. Len(q) : q[k] = l
      BY <1>9
    <3>4. leases'[l].state = "pending" <=> (leases[l].state = "pending" \/ l \in R)
      BY <1>11
    <3>. QED BY <3>1, <3>2, <3>3, <3>4
  <2>. QED BY <1>9, <1>10, <2>1 DEF QueueExact
<1>13. ProvenanceMatchesState'
  <2>1. ASSUME NEW l \in DOMAIN leases, l \in R
        PROVE  /\ leases'[l].state = "pending"
               /\ leases'[l].worker = Nobody
               /\ leases'[l].completedBy = leases[l].completedBy
               /\ leases'[l].canceledBy = leases[l].canceledBy
               /\ leases'[l].result = leases[l].result
               /\ leases[l].state = "assigned"
    BY <1>1, <1>3, <1>5, <2>1, Zenon DEF Lease
  <2>2. ASSUME NEW l \in DOMAIN leases, l \notin R
        PROVE  leases'[l] = leases[l]
    BY <1>3, <2>2, Zenon
  <2>. QED BY <1>10, <2>1, <2>2 DEF IInv, ProvenanceMatchesState
<1>14. ASSUME NEW l \in DOMAIN leases, leases'[l].state = "assigned"
       PROVE  /\ leases[l].state = "assigned"
              /\ leases'[l].worker = leases[l].worker
              /\ leases[l].worker \notin W
  BY <1>1, <1>3, <1>5, <1>14, Zenon DEF Lease
<1>. QED BY <1>9, <1>10, <1>12, <1>13, <1>14
----------------------------------------------------------------------------
(* A step that gives back what the workers W hold, and forgets or renews   *)
(* their registrations, keeps the invariant.                               *)
LEMMA LosingWorkersKeepsIInv ==
  ASSUME IInv, NEW W \in SUBSET Workers, RequeueLeasesHeldBy(W), UNCHANGED nextID,
         DOMAIN workers' \subseteq Workers,
         workers' \in [DOMAIN workers' -> WorkerStatus],
         DOMAIN workers \ W \subseteq DOMAIN workers'
  PROVE  IInv'
<1>1. /\ leases' \in [1 .. nextID -> Lease]
      /\ pending' \in Seq(1 .. nextID)
      /\ QueueExact'
      /\ ProvenanceMatchesState'
      /\ \A l \in DOMAIN leases :
           leases'[l].state = "assigned" =>
             /\ leases[l].state = "assigned"
             /\ leases'[l].worker = leases[l].worker
             /\ leases[l].worker \notin W
  BY RequeueKeepsQueue
<1>2. TypeOK'
  BY <1>1 DEF IInv, TypeOK
<1>3. HolderIsRegistered'
  <2>1. DOMAIN leases' = DOMAIN leases
    BY <1>1 DEF IInv, TypeOK
  <2>. QED BY <1>1, <2>1 DEF IInv, HolderIsRegistered
<1>. QED BY <1>1, <1>2, <1>3 DEF IInv

(* A registration, the first one of an id or a repeated one.               *)
LEMMA RegisterKeepsIInv ==
  ASSUME IInv, NEW w \in Workers, NEW r \in Registrations, RegisterWorker(w, r)
  PROVE  IInv'
<1>1. /\ DOMAIN workers' = DOMAIN workers \cup {w}
      /\ DOMAIN workers' \subseteq Workers
      /\ workers' \in [DOMAIN workers' -> WorkerStatus]
  BY DEF RegisterWorker, IInv, TypeOK, WorkerStatus
<1>2. CASE w \in DOMAIN workers
  <2>1. RequeueLeasesHeldBy({w}) /\ UNCHANGED nextID
    BY <1>2 DEF RegisterWorker
  <2>. QED BY <1>1, <2>1, LosingWorkersKeepsIInv
<1>3. CASE w \notin DOMAIN workers
  <2>1. UNCHANGED <<leases, pending, nextID>>
    BY <1>3 DEF RegisterWorker
  <2>. QED BY <1>1, <2>1 DEF IInv, TypeOK, QueueExact, HolderIsRegistered, ProvenanceMatchesState
<1>. QED BY <1>2, <1>3

(* Reaping, of however many workers at once.                               *)
LEMMA ReapKeepsIInv ==
  ASSUME IInv, Reap
  PROVE  IInv'
<1>1. /\ Expired \in SUBSET Workers
      /\ DOMAIN workers' = DOMAIN workers \ Expired
      /\ DOMAIN workers' \subseteq Workers
      /\ workers' \in [DOMAIN workers' -> WorkerStatus]
  BY DEF Reap, Expired, IInv, TypeOK
<1>2. RequeueLeasesHeldBy(Expired) /\ UNCHANGED nextID
  BY DEF Reap
<1>. QED BY <1>1, <1>2, LosingWorkersKeepsIInv

(* Heartbeats and the passing of time only touch the worker table.         *)
LEMMA HeartbeatsKeepIInv ==
  ASSUME IInv, NEW w \in Workers, Heartbeat(w) \/ HeartbeatExpires(w)
  PROVE  IInv'
<1>1. /\ UNCHANGED <<leases, pending, nextID>>
      /\ DOMAIN workers' = DOMAIN workers
      /\ workers' \in [DOMAIN workers' -> WorkerStatus]
  BY Zenon DEF Heartbeat, HeartbeatExpires, IInv, TypeOK, WorkerStatus
<1>. QED BY <1>1 DEF IInv, TypeOK, QueueExact, HolderIsRegistered, ProvenanceMatchesState

(* A submission: the new lease is pending, and queued once.                *)
LEMMA SubmitKeepsIInv ==
  ASSUME IInv, NEW s \in Submissions, SubmitLease(s)
  PROVE  IInv'
<1>. DEFINE n == nextID + 1
<1>1. /\ nextID \in Nat /\ nextID' = n
      /\ leases \in [1 .. nextID -> Lease]
      /\ pending \in Seq(1 .. nextID)
      /\ workers' = workers
      /\ pending' = Append(pending, n)
  BY DEF IInv, TypeOK, SubmitLease
<1>2. /\ DOMAIN leases' = 1 .. n
      /\ leases'[n] = NewLease(s)
      /\ \A l \in 1 .. nextID : leases'[l] = leases[l]
  BY <1>1 DEF SubmitLease
<1>3. NewLease(s) \in Lease
  BY DEF NewLease, Lease, LeaseStates
<1>4. leases' \in [1 .. n -> Lease]
  BY <1>1, <1>3 DEF SubmitLease
<1>5. /\ pending' \in Seq(1 .. n)
      /\ Len(pending') = Len(pending) + 1
      /\ pending'[Len(pending) + 1] = n
      /\ \A i \in 1 .. Len(pending) : pending'[i] = pending[i] /\ pending[i] \in 1 .. nextID
  BY <1>1
<1>6. Len(pending) \in Nat
  BY <1>1
<1>7. TypeOK'
  BY <1>1, <1>4, <1>5 DEF IInv, TypeOK
<1>8. QueueExact'
  <2>1. \A i, j \in 1 .. Len(pending') : pending'[i] = pending'[j] => i = j
    BY <1>1, <1>5, <1>6 DEF IInv, QueueExact
  <2>2. ASSUME NEW l \in 1 .. n
        PROVE  leases'[l].state = "pending" <=> \E i \in 1 .. Len(pending') : pending'[i] = l
    <3>1. CASE l = n
      BY <1>2, <1>5, <1>6, <3>1 DEF NewLease
    <3>2. CASE l \in 1 .. nextID
      <4>1. leases[l].state = "pending" <=> \E i \in 1 .. Len(pending) : pending[i] = l
        BY <1>1, <3>2 DEF IInv, QueueExact
      <4>2. (\E i \in 1 .. Len(pending') : pending'[i] = l) <=>
              \E i \in 1 .. Len(pending) : pending[i] = l
        BY <1>1, <1>5, <1>6, <3>2
      <4>. QED BY <1>2, <3>2, <4>1, <4>2
    <3>. QED BY <1>1, <3>1, <3>2
  <2>. QED BY <1>2, <2>1, <2>2 DEF QueueExact
<1>9. HolderIsRegistered' /\ ProvenanceMatchesState'
  <2>1. \A l \in DOMAIN leases' : l \in 1 .. nextID \/ l = n
    BY <1>1, <1>2
  <2>2. HolderIsRegistered'
    BY <1>1, <1>2, <2>1 DEF IInv, HolderIsRegistered, NewLease
  <2>3. ASSUME NEW l \in 1 .. nextID
        PROVE  l \in DOMAIN leases /\ leases'[l] = leases[l]
    BY <1>1, <1>2
  <2>4. ProvenanceMatchesState'
    BY <1>2, <2>1, <2>3 DEF IInv, ProvenanceMatchesState, NewLease
  <2>. QED BY <2>2, <2>4
<1>. QED BY <1>7, <1>8, <1>9 DEF IInv

(* A step that takes the lease at position i out of the queue.             *)
LEMMA Dequeued ==
  ASSUME IInv, NEW i \in 1 .. Len(pending), pending' = RemoveFromQueue(i)
  PROVE  /\ pending' \in Seq(1 .. nextID)
         /\ \A j, k \in 1 .. Len(pending') : pending'[j] = pending'[k] => j = k
         /\ \A l : (\E k \in 1 .. Len(pending') : pending'[k] = l) <=>
                 (l # pending[i] /\ \E k \in 1 .. Len(pending) : pending[k] = l)
<1>. DEFINE q == RemoveFromQueue(i)
<1>1. PICK S : S = 1 .. nextID
  OBVIOUS
<1>2. pending \in Seq(S)
  BY <1>1 DEF IInv, TypeOK
<1>3. \A j, k \in 1 .. Len(pending) : pending[j] = pending[k] => j = k
  BY DEF IInv, QueueExact
<1>4. /\ q \in Seq(S)
      /\ \A j, k \in 1 .. Len(q) : q[j] = q[k] => j = k
      /\ \A l : (\E k \in 1 .. Len(q) : q[k] = l) <=>
              (l # pending[i] /\ \E k \in 1 .. Len(pending) : pending[k] = l)
  BY <1>2, <1>3, RemovedLease, Zenon
<1>5. pending' = q
  OBVIOUS
<1>. HIDE DEF q
<1>. QED BY <1>1, <1>4, <1>5

(* A claim: the lease leaves the queue as it becomes assigned.             *)
LEMMA NextLeaseKeepsIInv ==
  ASSUME IInv, NEW w \in Workers, NextLease(w)
  PROVE  IInv'
<1>1. PICK i \in 1 .. Len(pending) :
        /\ pending' = RemoveFromQueue(i)
        /\ leases' = [leases EXCEPT ![pending[i]].state = "assigned",
                                    ![pending[i]].worker = w,
                                    ![pending[i]].attempt = @ + 1]
  BY Zenon DEF NextLease
<1>. DEFINE c == pending[i]
<1>2. /\ nextID \in Nat
      /\ leases \in [1 .. nextID -> Lease]
      /\ workers' = workers /\ nextID' = nextID
      /\ w \in DOMAIN workers
  BY DEF IInv, TypeOK, NextLease
<1>3. pending \in Seq(1 .. nextID)
  BY DEF IInv, TypeOK
<1>4. c \in 1 .. nextID
  BY <1>2, <1>3
<1>6. /\ pending' \in Seq(1 .. nextID)
      /\ \A j, k \in 1 .. Len(pending') : pending'[j] = pending'[k] => j = k
      /\ \A l : (\E k \in 1 .. Len(pending') : pending'[k] = l) <=>
               (l # c /\ \E k \in 1 .. Len(pending) : pending[k] = l)
  BY <1>1, Dequeued, Zenon
<1>7. /\ leases' \in [1 .. nextID -> Lease]
      /\ \A l \in 1 .. nextID : l # c => leases'[l] = leases[l]
      /\ leases'[c].state = "assigned"
      /\ leases'[c].worker = w
      /\ leases'[c].attempt = leases[c].attempt + 1
      /\ leases'[c].result = leases[c].result
      /\ leases'[c].completedBy = leases[c].completedBy
      /\ leases'[c].canceledBy = leases[c].canceledBy
      /\ leases[c].attempt \in Nat
  BY <1>1, <1>2, <1>4 DEF Lease, LeaseStates
<1>8. leases[c].state = "pending"
  BY <1>2, <1>4 DEF IInv, QueueExact
<1>. HIDE DEF c
<1>9. DOMAIN leases = 1 .. nextID /\ DOMAIN leases' = 1 .. nextID
  BY <1>2, <1>7
<1>10. TypeOK'
  BY <1>2, <1>6, <1>7 DEF IInv, TypeOK
<1>11. QueueExact'
  <2>1. ASSUME NEW l \in 1 .. nextID
        PROVE  leases'[l].state = "pending" <=> \E k \in 1 .. Len(pending') : pending'[k] = l
    <3>1. leases[l].state = "pending" <=> \E k \in 1 .. Len(pending) : pending[k] = l
      BY <1>9 DEF IInv, QueueExact
    <3>2. (\E k \in 1 .. Len(pending') : pending'[k] = l) <=>
            (l # c /\ \E k \in 1 .. Len(pending) : pending[k] = l)
      BY <1>6, Zenon
    <3>3. leases'[l].state = "pending" <=> (l # c /\ leases[l].state = "pending")
      BY <1>7
    <3>. QED BY <3>1, <3>2, <3>3
  <2>. QED BY <1>6, <1>9, <2>1 DEF QueueExact
<1>12. HolderIsRegistered'
  BY <1>2, <1>7, <1>9 DEF IInv, HolderIsRegistered
<1>13. ProvenanceMatchesState'
  BY <1>7, <1>8, <1>9 DEF IInv, ProvenanceMatchesState
<1>. QED BY <1>10, <1>11, <1>12, <1>13 DEF IInv

(* A completion: the lease was assigned, so it is in no queue.             *)
LEMMA CompleteKeepsIInv ==
  ASSUME IInv, NEW w \in Workers, NEW l \in DOMAIN leases, NEW r \in Results,
         CompleteLease(w, l, r)
  PROVE  IInv'
<1>1. /\ nextID \in Nat
      /\ leases \in [1 .. nextID -> Lease]
      /\ l \in 1 .. nextID
      /\ UNCHANGED <<workers, pending, nextID>>
      /\ leases[l].state = "assigned"
      /\ leases[l].worker = w
  BY DEF IInv, TypeOK, CompleteLease, MayComplete
<1>2. /\ leases' \in [1 .. nextID -> Lease]
      /\ \A m \in 1 .. nextID : m # l => leases'[m] = leases[m]
      /\ leases'[l].state = "completed"
      /\ leases'[l].worker = w
      /\ leases'[l].completedBy = w
      /\ leases'[l].canceledBy = leases[l].canceledBy
      /\ leases'[l].attempt = leases[l].attempt
  <2>1. leases[l] \in Lease
    BY <1>1
  <2>2. leases' = [leases EXCEPT ![l] = [leases[l] EXCEPT !.state = "completed",
                                            !.result = r, !.completedBy = w]]
    BY <1>1, Zenon DEF CompleteLease
  <2>3. [leases[l] EXCEPT !.state = "completed", !.result = r, !.completedBy = w] \in Lease
    BY <2>1, Zenon DEF Lease, LeaseStates
  <2>4. leases'[l] = [leases[l] EXCEPT !.state = "completed", !.result = r, !.completedBy = w]
    BY <1>1, <2>2
  <2>5. leases' \in [1 .. nextID -> Lease] /\ \A m \in 1 .. nextID : m # l => leases'[m] = leases[m]
    BY <1>1, <2>2, <2>3
  <2>. QED BY <1>1, <2>1, <2>4, <2>5 DEF Lease
<1>3. DOMAIN leases = 1 .. nextID /\ DOMAIN leases' = 1 .. nextID
  BY <1>1, <1>2
<1>4. TypeOK'
  BY <1>1, <1>2 DEF IInv, TypeOK
<1>5. QueueExact'
  <2>1. \A m \in 1 .. nextID : leases'[m].state = "pending" <=> leases[m].state = "pending"
    BY <1>1, <1>2
  <2>. QED BY <1>1, <1>3, <2>1 DEF IInv, QueueExact
<1>6. HolderIsRegistered'
  BY <1>1, <1>2, <1>3 DEF IInv, HolderIsRegistered
<1>7. ProvenanceMatchesState'
  BY <1>1, <1>2, <1>3, PlaneAssumption DEF IInv, ProvenanceMatchesState
<1>. QED BY <1>4, <1>5, <1>6, <1>7 DEF IInv

(* A cancellation: a pending lease also leaves the queue.                  *)
LEMMA CancelKeepsIInv ==
  ASSUME IInv, NEW a \in Actors, NEW l \in DOMAIN leases, CancelLease(a, l)
  PROVE  IInv'
<1>1. /\ nextID \in Nat
      /\ leases \in [1 .. nextID -> Lease]
      /\ l \in 1 .. nextID
      /\ UNCHANGED <<workers, nextID>>
      /\ leases[l].state \in OpenStates
  BY DEF IInv, TypeOK, CancelLease
<1>2. /\ leases' \in [1 .. nextID -> Lease]
      /\ \A m \in 1 .. nextID : m # l => leases'[m] = leases[m]
      /\ leases'[l].state = "canceled"
      /\ leases'[l].canceledBy = a
      /\ leases'[l].completedBy = leases[l].completedBy
      /\ leases'[l].result = leases[l].result
  <2>. DEFINE ended == [leases[l] EXCEPT !.state = "canceled", !.canceledBy = a]
  <2>1. leases[l] \in Lease
    BY <1>1
  <2>2. leases' = [leases EXCEPT ![l] = ended]
    BY <1>1, Zenon DEF CancelLease
  <2>3. ended \in Lease
    BY <2>1, Zenon DEF Lease, LeaseStates
  <2>4. leases'[l] = ended
    BY <1>1, <2>2
  <2>5. /\ leases' \in [1 .. nextID -> Lease]
        /\ \A m \in 1 .. nextID : m # l => leases'[m] = leases[m]
    BY <1>1, <2>2, <2>3
  <2>. QED BY <2>1, <2>4, <2>5 DEF Lease
<1>3. DOMAIN leases = 1 .. nextID /\ DOMAIN leases' = 1 .. nextID
  BY <1>1, <1>2
<1>4. /\ pending' \in Seq(1 .. nextID)
      /\ \A j, k \in 1 .. Len(pending') : pending'[j] = pending'[k] => j = k
      /\ \A m : (\E k \in 1 .. Len(pending') : pending'[k] = m) <=>
              (m # l /\ \E k \in 1 .. Len(pending) : pending[k] = m)
  <2>1. CASE leases[l].state = "pending"
    <3>1. PICK i \in 1 .. Len(pending) : pending[i] = l /\ pending' = RemoveFromQueue(i)
      BY <2>1 DEF CancelLease
    <3>. QED BY <3>1, Dequeued, Zenon
  <2>2. CASE leases[l].state = "assigned"
    <3>1. pending' = pending
      BY <2>2 DEF CancelLease
    <3>2. ~\E k \in 1 .. Len(pending) : pending[k] = l
      BY <1>1, <2>2 DEF IInv, QueueExact
    <3>3. pending \in Seq(1 .. nextID)
      BY DEF IInv, TypeOK
    <3>. QED BY <3>1, <3>2, <3>3 DEF IInv, QueueExact
  <2>. QED BY <1>1, <2>1, <2>2 DEF OpenStates
<1>5. TypeOK'
  BY <1>1, <1>2, <1>4 DEF IInv, TypeOK
<1>6. QueueExact'
  <2>1. ASSUME NEW m \in 1 .. nextID
        PROVE  leases'[m].state = "pending" <=> \E k \in 1 .. Len(pending') : pending'[k] = m
    <3>1. leases[m].state = "pending" <=> \E k \in 1 .. Len(pending) : pending[k] = m
      BY <1>3 DEF IInv, QueueExact
    <3>2. (\E k \in 1 .. Len(pending') : pending'[k] = m) <=>
            (m # l /\ \E k \in 1 .. Len(pending) : pending[k] = m)
      BY <1>4, Zenon
    <3>3. leases'[m].state = "pending" <=> (m # l /\ leases[m].state = "pending")
      BY <1>2
    <3>. QED BY <3>1, <3>2, <3>3
  <2>. QED BY <1>3, <1>4, <2>1 DEF QueueExact
<1>7. HolderIsRegistered'
  BY <1>1, <1>2, <1>3 DEF IInv, HolderIsRegistered
<1>8. ProvenanceMatchesState'
  BY <1>1, <1>2, <1>3, PlaneAssumption DEF IInv, ProvenanceMatchesState, OpenStates
<1>. QED BY <1>5, <1>6, <1>7, <1>8 DEF IInv

----------------------------------------------------------------------------
(* Every step of the scheduler keeps the invariant: a case per action.     *)
LEMMA IInvIsInductive ==
  ASSUME IInv, [Next]_planeVars
  PROVE  IInv'
<1>1. CASE UNCHANGED planeVars
  BY <1>1 DEF planeVars, IInv, TypeOK, QueueExact, HolderIsRegistered, ProvenanceMatchesState
<1>2. ASSUME NEW w \in Workers, NEW r \in Registrations, RegisterWorker(w, r)
      PROVE  IInv'
  BY <1>2, RegisterKeepsIInv
<1>3. ASSUME NEW w \in Workers, Heartbeat(w) \/ HeartbeatExpires(w)
      PROVE  IInv'
  BY <1>3, HeartbeatsKeepIInv
<1>4. ASSUME NEW w \in Workers, NextLease(w)
      PROVE  IInv'
  BY <1>4, NextLeaseKeepsIInv
<1>5. ASSUME NEW w \in Workers, NEW l \in DOMAIN leases, NEW r \in Results,
             CompleteLease(w, l, r)
      PROVE  IInv'
  BY <1>5, CompleteKeepsIInv
<1>6. ASSUME NEW s \in Submissions, SubmitLease(s)
      PROVE  IInv'
  BY <1>6, SubmitKeepsIInv
<1>7. ASSUME NEW a \in Actors, NEW l \in DOMAIN leases, CancelLease(a, l)
      PROVE  IInv'
  BY <1>7, CancelKeepsIInv
<1>8. CASE Reap
  BY <1>8, ReapKeepsIInv
<1>. QED BY <1>1, <1>2, <1>3, <1>4, <1>5, <1>6, <1>7, <1>8 DEF Next

(* A new scheduler, without workers or leases, satisfies it.               *)
LEMMA InitEstablishesIInv == Init => IInv
<1>. SUFFICES ASSUME Init PROVE IInv
  OBVIOUS
<1>1. DOMAIN leases = {} /\ DOMAIN workers = {} /\ nextID = 0 /\ pending = <<>>
  BY DEF Init
<1>2. TypeOK
  <2>1. 1 .. nextID = {}
    BY <1>1
  <2>2. workers \in [DOMAIN workers -> WorkerStatus] /\ leases \in [1 .. nextID -> Lease]
    BY <1>1, <2>1 DEF Init
  <2>. QED BY <1>1, <2>2 DEF TypeOK
<1>. QED BY <1>1, <1>2 DEF IInv, QueueExact, HolderIsRegistered, ProvenanceMatchesState

(* Every reachable state of the scheduler satisfies the invariant.         *)
THEOREM SchedulerInvariant == Spec => []IInv
<1>. QED BY InitEstablishesIInv, IInvIsInductive, PTL DEF Spec

(* For any fleet, workload and bound: every state is well typed.           *)
THEOREM TypeCorrect == Spec => []TypeOK
<1>1. IInv => TypeOK
  BY DEF IInv
<1>. QED BY <1>1, SchedulerInvariant, PTL

(* The queue holds exactly the pending leases, each once, whatever the     *)
(* interleaving of submissions, claims, cancellations, re-registrations    *)
(* and reaping: no lease is lost and none is handed to two workers.        *)
THEOREM QueueIsExact == Spec => []QueueExact
<1>1. IInv => QueueExact
  BY DEF IInv
<1>. QED BY <1>1, SchedulerInvariant, PTL

(* The provenance fields of a lease agree with its state in every          *)
(* reachable state, which is what LoadControlPlane demands of a snapshot.  *)
THEOREM ProvenanceIsTrue == Spec => []ProvenanceMatchesState
<1>1. IInv => ProvenanceMatchesState
  BY DEF IInv
<1>. QED BY <1>1, SchedulerInvariant, PTL

(* An assigned lease always belongs to a registered worker, so Reap will   *)
(* find it if that worker falls silent.                                    *)
THEOREM HoldersAreRegistered == Spec => []HolderIsRegistered
<1>1. IInv => HolderIsRegistered
  BY DEF IInv
<1>. QED BY <1>1, SchedulerInvariant, PTL
=============================================================================
