--------------------------- MODULE MCWorkerFleet ---------------------------
(***************************************************************************)
(* WorkerFleet on small instances: workers with one slot or two, leases    *)
(* any of them can run, with or without a tenant.                          *)
(***************************************************************************)
EXTENDS WorkerFleet

CONSTANTS amd, acme, Slots

MCRegistrations ==
  {[platform |-> amd, capabilities |-> {}, cached |-> {}, maxParallel |-> n] : n \in Slots}

(* The last worker has the most slots. *)
MCRegistrationOf ==
  [w \in Workers |->
     CHOOSE r \in MCRegistrations :
       IF \E v \in Workers : v > w
         THEN \A q \in MCRegistrations : r.maxParallel <= q.maxParallel
         ELSE \A q \in MCRegistrations : r.maxParallel >= q.maxParallel]

MCResults == 1 .. MaxAttempts

Build(tenant) ==
  [platform |-> AnyValue, capabilities |-> {}, preferred |-> AnyValue, priority |-> 0, tenant |-> tenant]

MCSubmissions == {Build(AnyValue), Build(acme)}

(* Stages that end, run without an execution root.  The attempts are never *)
(* used up.                                                                *)
Simulated == [confined |-> FALSE, ending |-> TRUE, builds |-> {Build(AnyValue)},
              leases |-> 2, faults |-> 1, attempts |-> 4]

(* One lease, and twice the faults *)
Unlucky == [Simulated EXCEPT !.leases = 1, !.faults = 2, !.attempts = 5]

(* Execution roots, and leases with a tenant *)
Rooted == [Simulated EXCEPT !.confined = TRUE, !.builds = MCSubmissions, !.attempts = 2]

(* Stages that never end by themselves *)
Endless == [Simulated EXCEPT !.ending = FALSE, !.attempts = 3]

AllFleets == {Simulated, Unlucky, Rooted, Endless}
SimulatedFleets == {Simulated}
=============================================================================
