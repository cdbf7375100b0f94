-------------------------- MODULE MCControlServer --------------------------
(***************************************************************************)
(* ControlServer on small instances.  Each deployment switches on the      *)
(* parts of the server that its question is about; a run with several      *)
(* checks them side by side.                                               *)
(***************************************************************************)
EXTENDS ControlServer, TLC

CONSTANTS acme, Keys

MCRegistrations ==
  {[platform |-> AnyValue, capabilities |-> {}, cached |-> {}, maxParallel |-> 1, key |-> k] :
     k \in Keys}

Build(tenant) ==
  [platform |-> AnyValue, capabilities |-> {}, preferred |-> AnyValue, priority |-> 0,
   tenant |-> tenant]

MCSubmissions == {Build(acme), Build(AnyValue)}

(* Leases go through their whole life, one request at a time, in memory. *)
Plain ==
  [persistent |-> FALSE, auditing |-> FALSE, tenantLimit |-> 0, requests |-> 1, leases |-> 1,
   faults |-> 0, restarts |-> 0, builds |-> {Build(AnyValue)},
   kinds |-> {"register", "next", "complete", "submit", "cancel"}]

(* Tenant slots under concurrent requests *)
Slots == [Plain EXCEPT !.tenantLimit = 1, !.requests = 2, !.leases = 3, !.builds = {Build(acme)}]

(* Snapshots, restarts and failing disks: a request and the reap loop *)
Restarted == [Plain EXCEPT !.persistent = TRUE, !.tenantLimit = 1, !.leases = 2,
                           !.faults = 1, !.restarts = 1, !.builds = {Build(acme)}]

(* The audit journal: concurrent requests, failing appends *)
Audited == [Plain EXCEPT !.auditing = TRUE, !.requests = 2, !.leases = 2, !.faults = 1,
                         !.kinds = @ \cup {"heartbeat"}]

(* A lease that ends, failing saves, a restart *)
Durable == [Plain EXCEPT !.persistent = TRUE, !.faults = 1, !.restarts = 1]

(* Saves that land out of order, then a restart *)
Overtaken == [Durable EXCEPT !.faults = 0, !.kinds = {"submit", "cancel"}]

(* A worker that starts to sign while one of its completions is in flight *)
Signing == [Plain EXCEPT !.requests = 2]

SafetyDeployments == {Slots, Restarted, Audited}
DurableDeployments == {Durable}
OvertakenDeployments == {Overtaken}
SigningDeployments == {Signing}

Requests == Permutations(Threads)
=============================================================================
