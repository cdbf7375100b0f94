--------------------------- MODULE ControlServer ---------------------------
(***************************************************************************)
(* The control-plane server: cmd/platform-factory-control-plane/server.go  *)
(* and main.go, with the snapshot file of internal/control/persistence.go  *)
(* and the tenant slots of internal/quota.                                 *)
(*                                                                         *)
(* Requests run concurrently, each on its own goroutine (a thread), and    *)
(* every lock is released between two calls of a handler.  A handler is    *)
(* therefore a sequence of steps, one per critical section:                *)
(*                                                                         *)
(*   submit     reserve > submit > remember > capture > write > audit      *)
(*   complete   verify > complete > forget > release > capture > ...       *)
(*   cancel     (cancel) > forget > release > capture > write > audit      *)
(*   next       (claim) > capture > write > audit                          *)
(*   register   (register) > capture > write > audit                       *)
(*   heartbeat  (heartbeat) > capture > write                              *)
(*                                                                         *)
(* where thread[t].at names the step the thread takes next; the first step *)
(* is taken with the arrival of the request.  capture and write are the    *)
(* two halves of ControlPlane.Save: the state is copied under the lock and *)
(* the file is replaced after it is released.  Requests that are refused   *)
(* before they change anything are not enumerated, nor is a failed write's *)
(* retry: the client sees 500 and the handler ends.                        *)
(*                                                                         *)
(* A deployment is the server's flags and the bounds of what happens to    *)
(* it.  A server without -state-file has persistent = FALSE, one without   *)
(* -audit-file auditing = FALSE, one without -tenant-max-parallel          *)
(* tenantLimit = 0.                                                        *)
(***************************************************************************)
EXTENDS ControlPlane

CONSTANTS
  Threads,        \* request goroutines
  SignedResults,  \* the results that come with a verifiable provenance record
  Deployments     \* the ways in which the server is run

(* requests bounds the concurrent ones, leases those submitted, faults the *)
(* failing snapshot writes and audit appends, restarts the crashes; kinds  *)
(* and builds are what the clients send.                                   *)
ASSUME ServerAssumption ==
  /\ SignedResults \subseteq Results
  /\ \A d \in Deployments :
       /\ d.persistent \in BOOLEAN /\ d.auditing \in BOOLEAN
       /\ {d.tenantLimit, d.requests, d.leases, d.faults, d.restarts} \subseteq Nat
       /\ d.builds \subseteq Submissions

VARIABLES
  config,       \* the deployment
  thread,       \* what each request goroutine is doing
  reaper,       \* the goroutine of runPersistentReapLoop
  usage,        \* FairScheduler: slots in use per tenant
  leaseTenant,  \* Server.leaseTenant: the tenant whose slot a lease holds
  disk,         \* the snapshot file
  audited,      \* the events in the audit journal
  acked,        \* the ends of leases clients were told of, since the first start
  faults, restarts

serverVars ==
  <<planeVars, config, thread, reaper, usage, leaseTenant, disk, audited, acked, faults, restarts>>

Persistent == config.persistent
Auditing == config.auditing
TenantLimit == config.tenantLimit
Tenants == {s.tenant : s \in Submissions} \ {AnyValue}
Snapshot == [leases |-> leases, pending |-> pending, nextID |-> nextID]
NoSnapshot == [leases |-> <<>>, pending |-> <<>>, nextID |-> 0]

Idle == [at |-> "idle", event |-> <<>>, lease |-> 0, tenant |-> AnyValue, copy |-> NoSnapshot]

(* The steps after the scheduler and the slots are done with a request.    *)
Saving == IF Persistent THEN "capture" ELSE "audit"

Goto(t, step) == thread' = [thread EXCEPT ![t].at = step]
Finish(t) == thread' = [thread EXCEPT ![t] = Idle]
Begin(t, step, event, l, tenant) ==
  /\ thread[t].at = "idle"
  /\ Cardinality({u \in Threads : thread[u].at # "idle"}) < config.requests
  /\ thread' = [thread EXCEPT ![t] = [Idle EXCEPT !.at = step, !.event = event,
                                                  !.lease = l, !.tenant = tenant]]

slotVars == <<usage, leaseTenant>>
outsideVars == <<disk, audited, acked, faults, restarts, config>>

----------------------------------------------------------------------------
(* handleRegister, handleHeartbeat and handleNextLease, up to the save. *)
HandleRegister(t, w, r) ==
  /\ Begin(t, Saving, <<"worker.registered", w>>, 0, AnyValue)
  /\ RegisterWorker(w, r)
  /\ UNCHANGED <<reaper, slotVars, outsideVars>>

HandleHeartbeat(t, w) ==
  /\ Begin(t, Saving, <<"heartbeat", w>>, 0, AnyValue)
  /\ Heartbeat(w)
  /\ UNCHANGED <<reaper, slotVars, outsideVars>>

HandleNextLease(t, w) ==
  /\ NextLease(w)
  /\ \E l \in DOMAIN leases :
       /\ leases'[l].attempt > leases[l].attempt
       /\ Begin(t, Saving, <<"lease.assigned", l>>, l, AnyValue)
  /\ UNCHANGED <<reaper, slotVars, outsideVars>>

----------------------------------------------------------------------------
(* handleSubmitLease: FairScheduler.Schedule admits or refuses. *)
Counted(tenant) == TenantLimit > 0 /\ tenant # AnyValue

HandleSubmit(t, s) ==
  /\ Begin(t, "submit", <<s>>, 0, s.tenant)
  /\ IF Counted(s.tenant)
       THEN /\ usage[s.tenant] + 1 <= TenantLimit
            /\ usage' = [usage EXCEPT ![s.tenant] = @ + 1]
       ELSE UNCHANGED usage
  /\ UNCHANGED <<planeVars, reaper, leaseTenant, outsideVars>>

Submit(t) ==
  /\ thread[t].at = "submit"
  /\ nextID < config.leases
  /\ SubmitLease(thread[t].event[1])
  /\ thread' = [thread EXCEPT ![t].at = "remember", ![t].lease = nextID + 1,
                              ![t].event = <<"lease.submitted", nextID + 1>>]
  /\ UNCHANGED <<reaper, slotVars, outsideVars>>

(* FairScheduler.Release never goes below zero. *)
Released(tenant) ==
  [usage EXCEPT ![tenant] = IF @ > 0 THEN @ - 1 ELSE 0]

(* SubmitLeaseWithTenant refuses the payload, after the reservation:       *)
(* releaseSlotWithoutLease.                                                *)
RefuseSubmission(t) ==
  /\ thread[t].at = "submit"
  /\ usage' = IF Counted(thread[t].tenant) THEN Released(thread[t].tenant) ELSE usage
  /\ Finish(t)
  /\ UNCHANGED <<planeVars, reaper, leaseTenant, outsideVars>>

Terminal(l) == leases[l].state \in {"completed", "canceled"}
Forgotten(l) == [m \in DOMAIN leaseTenant \ {l} |-> leaseTenant[m]]
Remembered(l, tenant) ==
  [m \in DOMAIN leaseTenant \cup {l} |-> IF m = l THEN tenant ELSE leaseTenant[m]]

(* Mutant: the slot is recorded without looking at the lease again. *)
RememberWithoutReconcile(t) ==
  /\ thread[t].at = "remember"
  /\ leaseTenant' = IF Counted(thread[t].tenant)
                      THEN Remembered(thread[t].lease, thread[t].tenant)
                      ELSE leaseTenant
  /\ Goto(t, Saving)
  /\ UNCHANGED <<planeVars, reaper, usage, outsideVars>>

(* rememberTenantSlot.  The lease has been visible to workers since        *)
(* SubmitLease and may have ended already; tenantMu makes the look at the  *)
(* lease and the recording one step.                                       *)
Remember(t) ==
  LET l == thread[t].lease
      tenant == thread[t].tenant
  IN
  /\ thread[t].at = "remember"
  /\ IF ~Counted(tenant)
       THEN UNCHANGED slotVars
       ELSE IF Terminal(l)
         THEN leaseTenant' = Forgotten(l) /\ usage' = Released(tenant)
         ELSE leaseTenant' = Remembered(l, tenant) /\ UNCHANGED usage
  /\ Goto(t, Saving)
  /\ UNCHANGED <<planeVars, reaper, outsideVars>>

----------------------------------------------------------------------------
(* VerifyCompletionProvenance: only a worker that registered a key must    *)
(* sign, and the registration is read here, not when the lease completes.  *)
ProvenanceAccepted(w, r) ==
  w \in DOMAIN workers /\ workers[w].reg.key => r \in SignedResults

HandleComplete(t, w, l, r) ==
  /\ Begin(t, "complete", <<w, r>>, l, AnyValue)
  /\ ProvenanceAccepted(w, r)
  /\ UNCHANGED <<planeVars, reaper, slotVars, outsideVars>>

(* Mutant: a conflicting completion gives the slot back too. *)
CompleteReleasesOnConflict(t) ==
  LET l == thread[t].lease
      w == thread[t].event[1]
  IN
  /\ thread[t].at = "complete"
  /\ IF MayComplete(w, l)
       THEN CompleteLease(w, l, thread[t].event[2])
       ELSE UNCHANGED planeVars
  /\ thread' = [thread EXCEPT ![t].at = "forget", ![t].event = <<"lease.completed", l>>]
  /\ UNCHANGED <<reaper, slotVars, outsideVars>>

Complete(t) ==
  LET l == thread[t].lease
      w == thread[t].event[1]
  IN
  /\ thread[t].at = "complete"
  /\ IF MayComplete(w, l)
       THEN /\ CompleteLease(w, l, thread[t].event[2])
            /\ thread' = [thread EXCEPT ![t].at = "forget", ![t].event = <<"lease.completed", l>>]
       ELSE Finish(t) /\ UNCHANGED planeVars
  /\ UNCHANGED <<reaper, slotVars, outsideVars>>

(* handleCancelLease.  A replayed cancellation is saved again and answered,*)
(* but neither releases a slot nor is audited.                             *)
HandleCancel(t, a, l) ==
  /\ \/ /\ CancelLease(a, l)
        /\ Begin(t, "forget", <<"lease.canceled", l>>, l, AnyValue)
     \/ /\ leases[l].state = "canceled"
        /\ Begin(t, Saving, <<"replayed", l>>, l, AnyValue)
        /\ UNCHANGED planeVars
  /\ UNCHANGED <<reaper, slotVars, outsideVars>>

(* releaseTenantSlot: the entry goes under tenantMu, the slot after it. *)
Forget(t) ==
  LET l == thread[t].lease IN
  /\ thread[t].at = "forget"
  /\ IF TenantLimit > 0 /\ l \in DOMAIN leaseTenant
       THEN /\ leaseTenant' = Forgotten(l)
            /\ thread' = [thread EXCEPT ![t].at = "release", ![t].tenant = leaseTenant[l]]
       ELSE Goto(t, Saving) /\ UNCHANGED leaseTenant
  /\ UNCHANGED <<planeVars, reaper, usage, outsideVars>>

Release(t) ==
  /\ thread[t].at = "release"
  /\ usage' = Released(thread[t].tenant)
  /\ Goto(t, Saving)
  /\ UNCHANGED <<planeVars, reaper, leaseTenant, outsideVars>>

----------------------------------------------------------------------------
(* ControlPlane.Save: the copy under the lock, the file after it. *)
Capture(t) ==
  /\ thread[t].at = "capture"
  /\ thread' = [thread EXCEPT ![t].at = "write", ![t].copy = Snapshot]
  /\ UNCHANGED <<planeVars, reaper, slotVars, outsideVars>>

Write(t) ==
  /\ thread[t].at = "write"
  /\ disk' = thread[t].copy
  /\ thread' = [thread EXCEPT ![t].at = "audit", ![t].copy = NoSnapshot]
  /\ UNCHANGED <<planeVars, reaper, slotVars, audited, acked, faults, restarts, config>>

Ends == {"lease.completed", "lease.canceled"} \X (1 .. MaxLeases)

(* AuditJournal.Append, then the reply.  Heartbeats and replayed           *)
(* cancellations are not events.                                           *)
Answer(t) ==
  /\ thread[t].at = "audit"
  /\ audited' = IF Auditing /\ thread[t].event[1] \notin {"heartbeat", "replayed"}
                   THEN audited \cup {thread[t].event} ELSE audited
  /\ acked' = acked \cup ({thread[t].event} \cap Ends)
  /\ Finish(t)
  /\ UNCHANGED <<planeVars, reaper, slotVars, disk, faults, restarts, config>>


(* A failing write or append answers 500; what the scheduler and the slots *)
(* did stays done.                                                         *)
Fail(t) ==
  /\ \/ thread[t].at = "write"
     \/ thread[t].at = "audit" /\ Auditing
  /\ faults < config.faults
  /\ faults' = faults + 1
  /\ Finish(t)
  /\ UNCHANGED <<planeVars, reaper, slotVars, disk, audited, acked, restarts, config>>

----------------------------------------------------------------------------
(* runPersistentReapLoop. *)
Waiting == [at |-> "tick", copy |-> NoSnapshot, requeued |-> {}]

(* Mutant: the loop saves only when it requeued something. *)
TickSavesRequeuedOnly ==
  /\ reaper.at = "tick"
  /\ Expired # {}
  /\ Reap
  /\ reaper' = [Waiting EXCEPT !.at = IF HeldBy(Expired) # {} THEN Saving ELSE "audit",
                               !.requeued = HeldBy(Expired)]
  /\ UNCHANGED <<thread, slotVars, outsideVars>>

Tick ==
  /\ reaper.at = "tick"
  /\ \/ Reap
     \/ Expired = {} /\ UNCHANGED planeVars
  /\ reaper' = [Waiting EXCEPT !.at = Saving, !.requeued = HeldBy(Expired)]
  /\ UNCHANGED <<thread, slotVars, outsideVars>>

ReaperCapture ==
  /\ reaper.at = "capture"
  /\ reaper' = [reaper EXCEPT !.at = "write", !.copy = Snapshot]
  /\ UNCHANGED <<planeVars, thread, slotVars, outsideVars>>

(* A failed save or append is logged and the loop goes on. *)
ReaperWrite ==
  /\ reaper.at = "write"
  /\ reaper' = [reaper EXCEPT !.at = "audit", !.copy = NoSnapshot]
  /\ \/ disk' = reaper.copy /\ UNCHANGED faults
     \/ faults < config.faults /\ faults' = faults + 1 /\ UNCHANGED disk
  /\ UNCHANGED <<planeVars, thread, slotVars, audited, acked, restarts, config>>

ReaperAudit ==
  /\ reaper.at = "audit"
  /\ reaper' = Waiting
  /\ \/ /\ audited' = IF Auditing
                         THEN audited \cup ({"lease.requeued"} \X reaper.requeued)
                         ELSE audited
        /\ UNCHANGED faults
     \/ /\ Auditing /\ faults < config.faults /\ faults' = faults + 1
        /\ \E lost \in SUBSET reaper.requeued :
             audited' = audited \cup ({"lease.requeued"} \X (reaper.requeued \ lost))
  /\ UNCHANGED <<planeVars, thread, slotVars, disk, acked, restarts, config>>

----------------------------------------------------------------------------
(* The checks of LoadControlPlane: a snapshot that fails one is not        *)
(* loaded and the server does not start.                                   *)
Loadable(d) ==
  LET queued == {d.pending[i] : i \in 1 .. Len(d.pending)} IN
  /\ \A i, j \in 1 .. Len(d.pending) : d.pending[i] = d.pending[j] => i = j
  /\ queued \subseteq DOMAIN d.leases
  /\ \A l \in DOMAIN d.leases :
       LET lease == d.leases[l] IN
       /\ l <= d.nextID
       /\ lease.state = "pending" =>
            l \in queued /\ lease.completedBy = Nobody /\ lease.canceledBy = Nobody
       /\ lease.state = "assigned" =>
            lease.completedBy = Nobody /\ lease.canceledBy = Nobody
       /\ lease.state = "completed" =>
            l \notin queued /\ lease.completedBy # Nobody /\ lease.canceledBy = Nobody
       /\ lease.state = "canceled" =>
            l \notin queued /\ lease.completedBy = Nobody /\ lease.canceledBy # Nobody

(* The queue LoadControlPlane builds: what was queued, then what was       *)
(* assigned, in the order of the ids.                                      *)
Reclaimed(d) == {l \in DOMAIN d.leases : d.leases[l].state = "assigned"}

(* Mutant: the assigned leases are not queued. *)
LoadedQueuesAsSaved(d) == {d.pending}

LoadedQueues(d) ==
  {d.pending \o q : q \in
     {o \in [1 .. Cardinality(Reclaimed(d)) -> Reclaimed(d)] :
        \A i, j \in DOMAIN o : i < j => LexBefore(o[i], o[j])}}

LoadControlPlane(d) ==
  /\ leases' = [l \in DOMAIN d.leases |->
                  IF l \in Reclaimed(d)
                    THEN [d.leases[l] EXCEPT !.state = "pending", !.worker = Nobody]
                    ELSE d.leases[l]]
  /\ pending' \in LoadedQueues(d)

OpenOf(tenant) ==
  {l \in DOMAIN leases : leases[l].state \in OpenStates /\ leases[l].spec.tenant = tenant}

RestoreQuotaUsage ==
  /\ usage' = [tenant \in Tenants |-> IF TenantLimit > 0 THEN Cardinality(OpenOf(tenant)') ELSE 0]
  /\ leaseTenant' = [l \in {m \in DOMAIN leases' : Counted(leases'[m].spec.tenant)
                                                   /\ leases'[m].state \in OpenStates}
                        |-> leases'[l].spec.tenant]

(* The process stops at any point and main starts it again: load, save,    *)
(* RestoreQuotaUsage.  Registrations are not persisted.                    *)
Restart ==
  /\ restarts < config.restarts
  /\ restarts' = restarts + 1
  /\ IF Persistent
       THEN /\ Loadable(disk)
            /\ LoadControlPlane(disk)
            /\ nextID' = disk.nextID
            /\ disk' = [leases |-> leases', pending |-> pending', nextID |-> nextID']
       ELSE /\ leases' = [l \in {} |-> 0] /\ pending' = <<>> /\ nextID' = 0
            /\ UNCHANGED disk
  /\ workers' = [w \in {} |-> 0]
  /\ thread' = [t \in Threads |-> Idle]
  /\ reaper' = Waiting
  /\ RestoreQuotaUsage
  /\ UNCHANGED <<audited, acked, faults, config>>

----------------------------------------------------------------------------
ServerInit ==
  /\ Init
  /\ config \in Deployments
  /\ thread = [t \in Threads |-> Idle]
  /\ reaper = Waiting
  /\ usage = [tenant \in Tenants |-> 0]
  /\ leaseTenant = [l \in {} |-> 0]
  /\ disk = Snapshot
  /\ audited = {} /\ acked = {}
  /\ faults = 0 /\ restarts = 0

Arrival(t) ==
  \/ \E w \in Workers :
       \/ "register" \in config.kinds /\ \E r \in Registrations : HandleRegister(t, w, r)
       \/ "heartbeat" \in config.kinds /\ HandleHeartbeat(t, w)
       \/ "next" \in config.kinds /\ HandleNextLease(t, w)
       \/ "complete" \in config.kinds
          /\ \E l \in DOMAIN leases, r \in Results : HandleComplete(t, w, l, r)
  \/ "submit" \in config.kinds /\ \E s \in config.builds : HandleSubmit(t, s)
  \/ "cancel" \in config.kinds /\ \E a \in Actors, l \in DOMAIN leases : HandleCancel(t, a, l)

Step(t) ==
  \/ Submit(t) \/ RefuseSubmission(t) \/ Remember(t)
  \/ Complete(t) \/ Forget(t) \/ Release(t)
  \/ Capture(t) \/ Write(t) \/ Answer(t) \/ Fail(t)

ReapLoop == Tick \/ ReaperCapture \/ ReaperWrite \/ ReaperAudit

TimePasses ==
  /\ \E w \in Workers : HeartbeatExpires(w)
  /\ UNCHANGED <<thread, reaper, slotVars, outsideVars>>

ServerNext ==
  \/ \E t \in Threads : Arrival(t) \/ Step(t)
  \/ ReapLoop
  \/ TimePasses
  \/ Restart

(* A handler that has started runs on, and the ticker keeps ticking; no    *)
(* client has to send anything.                                            *)
ServerSpec ==
  /\ ServerInit /\ [][ServerNext]_serverVars
  /\ WF_serverVars(ReapLoop)
  /\ \A t \in Threads : WF_serverVars(Step(t))

----------------------------------------------------------------------------
Quiet == \A t \in Threads : thread[t].at = "idle"

(* Type invariant: slots are counted, and only for leases that exist, under *)
(* the tenant that submitted them.                                         *)
ServerTypeOK ==
  /\ TypeOK
  /\ usage \in [Tenants -> Nat]
  /\ DOMAIN leaseTenant \subseteq DOMAIN leases
  /\ \A l \in DOMAIN leaseTenant : leaseTenant[l] = leases[l].spec.tenant

(* The scheduler stays consistent under the server: whatever the handlers  *)
(* interleave, and whichever snapshot a restart loads, exactly the pending *)
(* leases are queued and only registered workers hold leases.              *)
SchedulerConsistent == QueueExact /\ HolderIsRegistered

(* A tenant never has more open leases than slots in use, nor more slots   *)
(* than its limit: no interleaving of a submission with the completion or  *)
(* the cancellation of the same lease, and no restart, frees a slot early  *)
(* or twice (Release clamps at zero, so a double release would go unseen). *)
SlotsCoverOpenLeases ==
  TenantLimit > 0 =>
    \A tenant \in Tenants :
      /\ Cardinality(OpenOf(tenant)) <= usage[tenant]
      /\ usage[tenant] <= TenantLimit

(* No slot leaks: once no request is in flight every slot in use is that   *)
(* of an open lease, and leaseTenant lists exactly those leases.           *)
SlotsSettle ==
  TenantLimit > 0 /\ Quiet =>
    /\ \A tenant \in Tenants : usage[tenant] = Cardinality(OpenOf(tenant))
    /\ DOMAIN leaseTenant = UNION {OpenOf(tenant) : tenant \in Tenants}

(* Whatever snapshot is on disk when the process dies, LoadControlPlane    *)
(* accepts it: otherwise the server would never start again.               *)
SnapshotLoads == Loadable(disk)


(* The end of a lease reaches the snapshot file even if the save of the    *)
(* request that ended it fails or is overtaken: the reap loop saves on     *)
(* every tick.  Only a restart from an older snapshot takes the end back.  *)
EndsBecomeDurable ==
  Persistent =>
    \A l \in 1 .. MaxLeases :
      (l \in DOMAIN leases /\ Terminal(l))
        ~> \/ l \in DOMAIN disk.leases /\ disk.leases[l].state \in {"completed", "canceled"}
           \/ l \notin DOMAIN leases \/ ~Terminal(l)

(* CancelLease moves work "to a durable terminal state": once a client was *)
(* told that a lease is canceled it is never open or completed again.      *)
CanceledForGood ==
  \A e \in acked : e[1] = "lease.canceled" =>
    e[2] \in DOMAIN leases /\ leases[e[2]].state = "canceled"

(* "once a worker opts into signing, every completion must be signed": no  *)
(* lease is completed without a provenance record by a worker whose        *)
(* registration has a key.                                                 *)
SignersSign ==
  [][\A l \in DOMAIN leases :
       leases[l].state = "assigned" /\ leases'[l].state = "completed"
         /\ workers[leases[l].worker].reg.key
       => leases'[l].result \in SignedResults]_serverVars
=============================================================================
