---------------------------- MODULE ControlPlane ----------------------------
(***************************************************************************)
(* The lease scheduler of the control plane: internal/control/control.go.  *)
(*                                                                         *)
(* Every exported method holds one mutex from its first to its last access *)
(* of the scheduler's state, so each is one action here.  The modules that *)
(* compose the scheduler with its server, its snapshot file and its        *)
(* workers take these actions as the steps of their own processes.         *)
(*                                                                         *)
(*   c.workers   workers   a function on the registered worker ids         *)
(*   c.leases    leases    a function on the lease numbers (lease-N is N)  *)
(*   c.pending   pending   the FIFO queue of lease numbers                 *)
(*   c.nextID    nextID                                                    *)
(*                                                                         *)
(* LastHeartbeat is abstracted to what Reap asks of it: `expired' is       *)
(* now - LastHeartbeat > heartbeatTimeout.  Malformed arguments, which     *)
(* every method refuses before it takes the lock, change nothing and are   *)
(* not enumerated.                                                         *)
(***************************************************************************)
EXTENDS Integers, Sequences, FiniteSets, Placement

CONSTANTS
  Workers,        \* worker ids, numbered in the order sort.Strings gives them
  Actors,         \* identities that may cancel a lease
  Registrations,  \* [platform, capabilities, cached, maxParallel]
  Submissions,    \* [platform, capabilities, preferred, priority, tenant]
  Results,        \* what a completion may carry
  Nobody,         \* the empty Worker, CompletedBy or CanceledBy field
  NoResult,       \* the empty Result field (a completion may also carry it)
  MaxLeases,      \* bound on nextID
  MaxAttempts     \* bound on the attempts of one lease

ASSUME PlaneAssumption ==
  /\ Workers \subseteq Nat
  /\ Nobody \notin Workers
  /\ Nobody \notin Actors
  /\ \A r \in Registrations : r.maxParallel \in 1 .. 1024
  /\ MaxLeases \in Nat
  /\ MaxAttempts \in Nat

VARIABLES workers, leases, pending, nextID

planeVars == <<workers, leases, pending, nextID>>

LeaseStates == {"pending", "assigned", "completed", "canceled"}
OpenStates == {"pending", "assigned"}

(* control.Lease, without its timestamps. *)
Lease ==
  [spec : Submissions, state : LeaseStates, worker : Workers \cup {Nobody},
   attempt : Nat, result : Results \cup {NoResult},
   completedBy : Workers \cup {Nobody}, canceledBy : Actors \cup {Nobody}]

WorkerStatus == [reg : Registrations, expired : BOOLEAN]

(* Type invariant: every lease up to nextID has a record, and the queue    *)
(* holds lease numbers only.                                               *)
TypeOK ==
  /\ DOMAIN workers \subseteq Workers
  /\ workers \in [DOMAIN workers -> WorkerStatus]
  /\ nextID \in Nat
  /\ leases \in [1 .. nextID -> Lease]
  /\ pending \in Seq(1 .. nextID)

----------------------------------------------------------------------------
(* Lease-N sorts as a string: the order of N as a decimal numeral (exact   *)
(* below 100, which no bound here exceeds).                                *)
LexBefore(m, n) ==
  IF (m < 10) = (n < 10)
    THEN m < n
    ELSE IF m < 10 THEN m <= n \div 10 ELSE m \div 10 < n

(* The leases assigned to one of the workers W. *)
HeldBy(W) ==
  {l \in DOMAIN leases : leases[l].state = "assigned" /\ leases[l].worker \in W}

(* The order in which the leases S of lost workers join the queue: by      *)
(* worker, and sort.Strings within one worker.                             *)
RequeueBefore(l, m) ==
  \/ leases[l].worker < leases[m].worker
  \/ leases[l].worker = leases[m].worker /\ LexBefore(l, m)

RequeueOrders(S) ==
  {q \in [1 .. Cardinality(S) -> S] :
     /\ \A l \in S : \E i \in 1 .. Cardinality(S) : q[i] = l
     /\ \A i, j \in 1 .. Cardinality(S) : i < j => RequeueBefore(q[i], q[j])}

(* Mutant: only the first lease a lost worker held is requeued. *)
RequeueFirstLease(W) ==
  LET reclaimed == {l \in HeldBy(W) : \A m \in HeldBy(W) : l <= m} IN
  /\ leases' = [l \in DOMAIN leases |->
                  IF l \in reclaimed
                    THEN [leases[l] EXCEPT !.state = "pending", !.worker = Nobody]
                    ELSE leases[l]]
  /\ \E q \in RequeueOrders(reclaimed) : pending' = pending \o q

(* requeueLeasesHeldBy, for every worker of the set W in turn. *)
RequeueLeasesHeldBy(W) ==
  LET reclaimed == HeldBy(W) IN
  /\ leases' = [l \in DOMAIN leases |->
                  IF l \in reclaimed
                    THEN [leases[l] EXCEPT !.state = "pending", !.worker = Nobody]
                    ELSE leases[l]]
  /\ \E q \in RequeueOrders(reclaimed) : pending' = pending \o q

RemoveFromQueue(i) ==
  SubSeq(pending, 1, i - 1) \o SubSeq(pending, i + 1, Len(pending))

(* Mutant: a repeated registration is only a refresh. *)
RegisterWithoutRequeue(w, r) ==
  /\ workers' = [x \in DOMAIN workers \cup {w} |->
                   IF x = w THEN [reg |-> r, expired |-> FALSE] ELSE workers[x]]
  /\ UNCHANGED <<leases, pending, nextID>>

----------------------------------------------------------------------------
(* RegisterWorkerWithOptions.  A second registration of an id is a new     *)
(* process: what the old one held goes back to the queue.                  *)
RegisterWorker(w, r) ==
  /\ workers' = [x \in DOMAIN workers \cup {w} |->
                   IF x = w THEN [reg |-> r, expired |-> FALSE] ELSE workers[x]]
  /\ IF w \in DOMAIN workers
       THEN RequeueLeasesHeldBy({w})
       ELSE UNCHANGED <<leases, pending>>
  /\ UNCHANGED nextID

Heartbeat(w) ==
  /\ w \in DOMAIN workers
  /\ workers' = [workers EXCEPT ![w].expired = FALSE]
  /\ UNCHANGED <<leases, pending, nextID>>

(* Time: the heartbeat timeout of w elapses. *)
HeartbeatExpires(w) ==
  /\ w \in DOMAIN workers
  /\ ~workers[w].expired
  /\ workers' = [workers EXCEPT ![w].expired = TRUE]
  /\ UNCHANGED <<leases, pending, nextID>>

NewLease(s) ==
  [spec |-> s, state |-> "pending", worker |-> Nobody, attempt |-> 0,
   result |-> NoResult, completedBy |-> Nobody, canceledBy |-> Nobody]

(* Mutant: the queue gets the id before it is incremented. *)
SubmitQueuesOldID(s) ==
  /\ nextID < MaxLeases
  /\ nextID' = nextID + 1
  /\ leases' = [l \in 1 .. nextID + 1 |->
                  IF l = nextID + 1 THEN NewLease(s) ELSE leases[l]]
  /\ pending' = Append(pending, nextID)
  /\ UNCHANGED workers

SubmitLease(s) ==
  /\ nextID < MaxLeases
  /\ nextID' = nextID + 1
  /\ leases' = [l \in 1 .. nextID + 1 |->
                  IF l = nextID + 1 THEN NewLease(s) ELSE leases[l]]
  /\ pending' = Append(pending, nextID + 1)
  /\ UNCHANGED workers

Candidates == [i \in 1 .. Len(pending) |-> leases[pending[i]].spec]

(* NextLease when it assigns work, to the worker's placement choice. *)
NextLease(w) ==
  /\ w \in DOMAIN workers
  /\ Cardinality(HeldBy({w})) < workers[w].reg.maxParallel
  /\ \E i \in 1 .. Len(pending) :
       /\ Selected(workers[w].reg, Candidates, i)
       /\ leases[pending[i]].attempt < MaxAttempts
       /\ pending' = RemoveFromQueue(i)
       /\ leases' = [leases EXCEPT ![pending[i]].state = "assigned",
                                   ![pending[i]].worker = w,
                                   ![pending[i]].attempt = @ + 1]
  /\ UNCHANGED <<workers, nextID>>

(* NextLease when it answers "no work": the worker is full, or nothing     *)
(* queued is for it.                                                       *)
NoLeaseFor(w) ==
  /\ w \in DOMAIN workers
  /\ \/ Cardinality(HeldBy({w})) >= workers[w].reg.maxParallel
     \/ NoneEligible(workers[w].reg, Candidates)

(* Mutant: any worker may complete an assigned lease. *)
MayCompleteForAnother(w, l) ==
  /\ l \in DOMAIN leases
  /\ leases[l].state = "assigned"

(* The guard of CompleteLease; everything else it is asked is a conflict.  *)
MayComplete(w, l) ==
  /\ l \in DOMAIN leases
  /\ leases[l].state = "assigned"
  /\ leases[l].worker = w

CompleteLease(w, l, r) ==
  /\ MayComplete(w, l)
  /\ leases' = [leases EXCEPT ![l].state = "completed",
                              ![l].result = r,
                              ![l].completedBy = w]
  /\ UNCHANGED <<workers, pending, nextID>>

(* Mutant: a pending lease is canceled and left in the queue. *)
CancelLeavesQueueEntry(a, l) ==
  /\ l \in DOMAIN leases
  /\ leases[l].state \in OpenStates
  /\ leases' = [leases EXCEPT ![l].state = "canceled", ![l].canceledBy = a]
  /\ UNCHANGED <<workers, pending, nextID>>

(* Mutant: a completed lease may still be canceled. *)
CancelAfterCompletion(a, l) ==
  /\ l \in DOMAIN leases
  /\ leases[l].state \in {"assigned", "completed"}
  /\ leases' = [leases EXCEPT ![l].state = "canceled", ![l].canceledBy = a]
  /\ UNCHANGED <<workers, pending, nextID>>

(* CancelLease when it changes something: replays and completed leases     *)
(* are refused before this point.                                          *)
CancelLease(a, l) ==
  /\ l \in DOMAIN leases
  /\ leases[l].state \in OpenStates
  /\ \/ /\ leases[l].state = "pending"
        /\ \E i \in 1 .. Len(pending) :
             pending[i] = l /\ pending' = RemoveFromQueue(i)
     \/ /\ leases[l].state = "assigned"
        /\ UNCHANGED pending
  /\ leases' = [leases EXCEPT ![l].state = "canceled", ![l].canceledBy = a]
  /\ UNCHANGED <<workers, nextID>>

(* Reap: forget every expired worker and requeue what it held. *)
Expired == {w \in DOMAIN workers : workers[w].expired}

(* Mutant: the worker is forgotten and its leases are not. *)
ReapWithoutRequeue ==
  /\ Expired # {}
  /\ workers' = [w \in DOMAIN workers \ Expired |-> workers[w]]
  /\ UNCHANGED <<leases, pending, nextID>>

Reap ==
  /\ Expired # {}
  /\ workers' = [w \in DOMAIN workers \ Expired |-> workers[w]]
  /\ RequeueLeasesHeldBy(Expired)
  /\ UNCHANGED nextID

----------------------------------------------------------------------------
Init ==
  /\ workers = [w \in {} |-> 0]
  /\ leases = [l \in {} |-> 0]
  /\ pending = <<>>
  /\ nextID = 0

Next ==
  \/ \E w \in Workers : \/ \E r \in Registrations : RegisterWorker(w, r)
                        \/ Heartbeat(w)
                        \/ HeartbeatExpires(w)
                        \/ NextLease(w)
                        \/ \E l \in DOMAIN leases, r \in Results : CompleteLease(w, l, r)
  \/ \E s \in Submissions : SubmitLease(s)
  \/ \E a \in Actors, l \in DOMAIN leases : CancelLease(a, l)
  \/ Reap

Spec == Init /\ [][Next]_planeVars

----------------------------------------------------------------------------
(* The queue holds exactly the pending leases, each once.  Submission,     *)
(* selection, cancellation, re-registration and reaping all move a lease   *)
(* and its queue entry separately; a lease that is pending but not queued  *)
(* is never run, one that is queued twice is run by two workers at once.   *)
QueueExact ==
  /\ \A i, j \in 1 .. Len(pending) : pending[i] = pending[j] => i = j
  /\ \A l \in DOMAIN leases :
       leases[l].state = "pending" <=> \E i \in 1 .. Len(pending) : pending[i] = l

(* Only a registered worker holds a lease: losing the registration (Reap)  *)
(* or renewing it (RegisterWorker) takes everything it held with it, so    *)
(* no lease is stranded with a worker nobody will ever reap again.         *)
HolderIsRegistered ==
  \A l \in DOMAIN leases :
    leases[l].state = "assigned" => leases[l].worker \in DOMAIN workers

(* A worker never holds more leases than its current registration allows,  *)
(* also when a new process of the same id registers a lower limit.         *)
WithinMaxParallel ==
  \A w \in DOMAIN workers : Cardinality(HeldBy({w})) <= workers[w].reg.maxParallel

(* Provenance fields tell the truth about the state: LoadControlPlane      *)
(* refuses a snapshot where they do not, and the server would not restart. *)
ProvenanceMatchesState ==
  \A l \in DOMAIN leases :
    LET lease == leases[l] IN
    /\ (lease.state = "completed") <=> (lease.completedBy # Nobody)
    /\ (lease.state = "canceled") <=> (lease.canceledBy # Nobody)
    /\ lease.result # NoResult => lease.state = "completed"
    /\ lease.state = "pending" => lease.worker = Nobody
    /\ lease.state = "completed" => lease.completedBy = lease.worker
    /\ lease.state \in {"assigned", "completed"} => lease.attempt > 0

(* No step takes a lease out of a terminal state, rewrites its result or   *)
(* who ended it, or takes an attempt back.                                 *)
LeaseHistoryGrows ==
  [][\A l \in DOMAIN leases :
       /\ l \in DOMAIN leases'
       /\ leases[l].state \notin OpenStates => leases'[l] = leases[l]
       /\ leases'[l].attempt >= leases[l].attempt
       /\ leases'[l].spec = leases[l].spec]_planeVars
=============================================================================
