---------------------------- MODULE WorkerFleet ----------------------------
(***************************************************************************)
(* The worker processes (cmd/platform-factory-worker) composed with the    *)
(* lease scheduler they call.                                              *)
(*                                                                         *)
(* One process per worker id runs at a time.  It registers once, then      *)
(* heartbeats, polls for leases into at most MaxParallel slots, asks for   *)
(* the status of what it executes, and reports completions.  Any error of  *)
(* any of these ends the whole process (Run cancels runCtx and returns);   *)
(* a supervisor outside the repository starts it again, which is a new     *)
(* registration.                                                           *)
(*                                                                         *)
(*   up[w]       a process of w is between RegisterWithOptions and the     *)
(*               return of Run                                             *)
(*   exit[w]     why the last process of w ended                           *)
(*   exec[w]     the PollOnce calls of the process that hold a lease:      *)
(*               executing, or waiting for the answer of /lease/complete   *)
(*   wire        completions on their way to the scheduler; the handler    *)
(*               runs even when the process that sent one is gone          *)
(*   dirs[w]     workspaces under the execution root of w; they outlive    *)
(*               the process                                               *)
(*                                                                         *)
(* A request and its handler are one step unless the delay between them    *)
(* matters, as it does for completions.  A lease's result is the number of *)
(* the attempt that computed it.                                           *)
(***************************************************************************)
EXTENDS ControlPlane

CONSTANTS
  RegistrationOf,   \* what the process of each worker registers
  WorkerFields,     \* the optional fields the worker's Lease declares
  Fleets            \* the ways in which the fleet is run

(* confined is -execution-root (TRUE) or -demo-simulate (FALSE), ending    *)
(* says that a stage that does not fail ends; builds are submitted, leases *)
(* bounds how many, faults the crashes, lost answers, failed stages and    *)
(* late heartbeats, attempts the grants of a lease.                        *)
ASSUME FleetAssumption ==
  /\ RegistrationOf \in [Workers -> Registrations]
  /\ \A f \in Fleets : /\ f.confined \in BOOLEAN /\ f.ending \in BOOLEAN
                       /\ f.builds \subseteq Submissions
                       /\ {f.leases, f.faults} \subseteq Nat /\ f.attempts \in 1 .. MaxAttempts
  /\ Results = 1 .. MaxAttempts

VARIABLES fleet, up, exit, exec, wire, dirs, faults

processVars == <<fleet, up, exit, exec, wire, dirs, faults>>
fleetVars == <<workers, leases, pending, nextID, fleet, up, exit, exec, wire, dirs, faults>>

Execution == [lease : 1 .. MaxLeases, attempt : 1 .. MaxAttempts, at : {"executing", "reporting"}]
Completion == [worker : Workers, lease : 1 .. MaxLeases, attempt : 1 .. MaxAttempts]
ExitCauses == {"running", "never", "crash", "request", "decode", "workdir", "stage", "unknown", "conflict"}

(* The type invariant: the control plane's, and the processes of its       *)
(* workers.                                                                *)
FleetTypeOK ==
  /\ TypeOK
  /\ up \in [Workers -> BOOLEAN]
  /\ exit \in [Workers -> ExitCauses]
  /\ exec \in [Workers -> SUBSET Execution]
  /\ wire \subseteq Completion
  /\ dirs \in [Workers -> SUBSET (1 .. MaxLeases)]
  /\ faults \in 0 .. fleet.faults

----------------------------------------------------------------------------
Fault ==
  /\ faults < fleet.faults
  /\ faults' = faults + 1

(* Run returns: every execution of the process is canceled.  What is       *)
(* already on the wire stays there.                                        *)
Exit(w, cause) ==
  /\ up' = [up EXCEPT ![w] = FALSE]
  /\ exit' = [exit EXCEPT ![w] = cause]
  /\ exec' = [exec EXCEPT ![w] = {}]

(* The supervisor starts a process, which registers. *)
Start(w) ==
  /\ ~up[w]
  /\ RegisterWorker(w, RegistrationOf[w])
  /\ up' = [up EXCEPT ![w] = TRUE]
  /\ exit' = [exit EXCEPT ![w] = "running"]
  /\ UNCHANGED <<fleet, exec, wire, dirs, faults>>

(* The answer to the registration is lost: the process gives up, and the   *)
(* control plane counts the worker as registered.                          *)
StartUnanswered(w) ==
  /\ ~up[w]
  /\ Fault
  /\ RegisterWorker(w, RegistrationOf[w])
  /\ exit' = [exit EXCEPT ![w] = "request"]
  /\ UNCHANGED <<fleet, up, exec, wire, dirs>>

Crash(w) ==
  /\ up[w]
  /\ Fault
  /\ Exit(w, "crash")
  /\ UNCHANGED <<planeVars, fleet, wire, dirs>>

(* A request that never reaches the control plane, or whose answer does    *)
(* not come within RequestTimeout.                                         *)
RequestFails(w) ==
  /\ up[w]
  /\ Fault
  /\ Exit(w, "request")
  /\ UNCHANGED <<planeVars, fleet, wire, dirs>>

Beat(w) ==
  /\ up[w]
  /\ w \in DOMAIN workers
  /\ workers[w].expired
  /\ Heartbeat(w)
  /\ UNCHANGED processVars

(* A heartbeat or a poll of a worker that was reaped is answered 404. *)
Forgotten(w) ==
  /\ up[w]
  /\ w \notin DOMAIN workers
  /\ Exit(w, "unknown")
  /\ UNCHANGED <<planeVars, fleet, wire, dirs, faults>>

(* The heartbeat timeout elapses: it must for a worker without a process,  *)
(* and may for one whose heartbeats are late.                              *)
Silence(w) ==
  /\ HeartbeatExpires(w)
  /\ IF up[w] THEN Fault ELSE UNCHANGED faults
  /\ UNCHANGED <<fleet, up, exit, exec, wire, dirs>>

ReapLost == Reap /\ UNCHANGED processVars

----------------------------------------------------------------------------
(* The optional fields of a lease that its JSON carries (omitempty). *)
WireFields(l) ==
  (IF leases[l].spec.tenant = AnyValue THEN {} ELSE {"tenant"})
    \cup (IF leases[l].spec.priority = 0 THEN {} ELSE {"priority"})

(* The strict decoder takes no field the worker's Lease does not declare.  *)
Decodes(l) == WireFields(l) \subseteq WorkerFields

HasFreeSlot(w) == Cardinality(exec[w]) < RegistrationOf[w].maxParallel

(* The lease that a NextLease step assigns. *)
Granted(l) ==
  /\ l \in DOMAIN leases
  /\ leases'[l].attempt > leases[l].attempt
  /\ leases'[l].attempt <= fleet.attempts

(* PollOnce, up to the start of Execute: the lease is granted, decoded and *)
(* its workspace made.                                                     *)
Poll(w) ==
  /\ up[w]
  /\ HasFreeSlot(w)
  /\ NextLease(w)
  /\ \E l \in DOMAIN leases :
       /\ Granted(l)
       /\ IF ~Decodes(l) THEN Exit(w, "decode") /\ UNCHANGED dirs
          ELSE IF fleet.confined /\ l \in dirs[w] THEN Exit(w, "workdir") /\ UNCHANGED dirs
          ELSE /\ exec' = [exec EXCEPT ![w] = @ \cup {[lease |-> l, attempt |-> leases'[l].attempt,
                                                      at |-> "executing"]}]
               /\ dirs' = [dirs EXCEPT ![w] = IF fleet.confined THEN @ \cup {l} ELSE @]
               /\ UNCHANGED <<up, exit>>
  /\ UNCHANGED <<fleet, wire, faults>>

(* The lease is granted and the answer is lost. *)
PollUnanswered(w) ==
  /\ up[w]
  /\ HasFreeSlot(w)
  /\ Fault
  /\ NextLease(w)
  /\ \E l \in DOMAIN leases : Granted(l)
  /\ Exit(w, "request")
  /\ UNCHANGED <<fleet, wire, dirs>>

(* Execute returns an error: a stage failed. *)
StageFails(w) ==
  /\ \E e \in exec[w] : e.at = "executing"
  /\ Fault
  /\ Exit(w, "stage")
  /\ UNCHANGED <<planeVars, fleet, wire, dirs>>

(* Execute returns a result and PollOnce sends it. *)
Report(w, e) ==
  /\ e \in exec[w]
  /\ e.at = "executing"
  /\ exec' = [exec EXCEPT ![w] = (@ \ {e}) \cup {[e EXCEPT !.at = "reporting"]}]
  /\ wire' = wire \cup {[worker |-> w, lease |-> e.lease, attempt |-> e.attempt]}
  /\ UNCHANGED <<planeVars, fleet, up, exit, dirs, faults>>


(* The status poll finds the lease canceled: the execution is stopped and  *)
(* PollOnce returns without a report.                                      *)
Abandon(w, e) ==
  /\ e \in exec[w]
  /\ e.at = "executing"
  /\ leases[e.lease].state = "canceled"
  /\ exec' = [exec EXCEPT ![w] = @ \ {e}]
  /\ UNCHANGED <<planeVars, fleet, up, exit, wire, dirs, faults>>

(* The process call that waits for the answer to c, if it still does. *)
Waiting(c) == {e \in exec[c.worker] : e.lease = c.lease /\ e.attempt = c.attempt /\ e.at = "reporting"}

(* /lease/complete: accepted, or refused with 409. *)
Deliver(c) ==
  /\ c \in wire
  /\ wire' = wire \ {c}
  /\ \/ /\ CompleteLease(c.worker, c.lease, c.attempt)
        /\ exec' = [exec EXCEPT ![c.worker] = @ \ Waiting(c)]
        /\ UNCHANGED <<up, exit>>
     \/ /\ ~MayComplete(c.worker, c.lease)
        /\ UNCHANGED planeVars
        /\ IF Waiting(c) # {} THEN Exit(c.worker, "conflict") ELSE UNCHANGED <<up, exit, exec>>
  /\ UNCHANGED <<fleet, dirs, faults>>

Submitted(s) ==
  /\ nextID < fleet.leases
  /\ SubmitLease(s)
  /\ UNCHANGED processVars

Canceled(a, l) == CancelLease(a, l) /\ UNCHANGED processVars

----------------------------------------------------------------------------
FleetInit ==
  /\ Init
  /\ fleet \in Fleets
  /\ up = [w \in Workers |-> FALSE]
  /\ exit = [w \in Workers |-> "never"]
  /\ exec = [w \in Workers |-> {}]
  /\ wire = {}
  /\ dirs = [w \in Workers |-> {}]
  /\ faults = 0

WorkerStep(w) ==
  \/ Beat(w)
  \/ Forgotten(w)
  \/ Poll(w)
  \/ \E e \in exec[w] : Report(w, e) \/ Abandon(w, e)

WorkerFault(w) ==
  \/ StartUnanswered(w)
  \/ Crash(w)
  \/ RequestFails(w)
  \/ PollUnanswered(w)
  \/ StageFails(w)

FleetNext ==
  \/ \E w \in Workers : Start(w) \/ WorkerStep(w) \/ WorkerFault(w) \/ Silence(w)
  \/ \E c \in wire : Deliver(c)
  \/ ReapLost
  \/ \E s \in fleet.builds : Submitted(s)
  \/ \E a \in Actors, l \in DOMAIN leases : Canceled(a, l)

(* Tickers drive heartbeats, polls, status polls and the reap loop; a      *)
(* handler that has a request runs; stages end where the fleet is ending.  *)
FleetSpec ==
  /\ FleetInit
  /\ [][FleetNext]_fleetVars
  /\ \A w \in Workers :
       /\ WF_fleetVars(Start(w))
       /\ WF_fleetVars(Beat(w))
       /\ WF_fleetVars(Forgotten(w))
       /\ WF_fleetVars(Poll(w))
       /\ WF_fleetVars(fleet.ending /\ \E e \in exec[w] : Report(w, e))
       /\ \A l \in 1 .. MaxLeases :
            WF_fleetVars(\E e \in exec[w] : e.lease = l /\ Abandon(w, e))
  /\ \A w \in Workers, l \in 1 .. MaxLeases :
       WF_fleetVars(\E c \in wire : c.worker = w /\ c.lease = l /\ Deliver(c))
  /\ WF_fleetVars(ReapLost)

----------------------------------------------------------------------------



(* "rejects stale completion attempts" (control.go): a completed lease has *)
(* the result of the attempt it was last assigned for.                     *)
ResultIsCurrent ==
  \A l \in DOMAIN leases : leases[l].state = "completed" => leases[l].result = leases[l].attempt
=============================================================================
