-------------------------- MODULE OperationJournal --------------------------
(***************************************************************************)
(* Mutating plugin calls under the operation journal:                      *)
(* CallWithIdempotency (internal/plugin/client.go) over FileJournal        *)
(* (internal/idempotency/file.go), with several host processes that share  *)
(* one journal directory, process crashes and power losses.                *)
(*                                                                         *)
(*   disk[id]      the record file of id, as every process sees it         *)
(*   safe[id]      the record file a power loss is sure to leave           *)
(*   records[h]    the in-memory map of host h's journal                   *)
(*   call[c]       one CallWithIdempotency: its inputs and where it is     *)
(*   sent[id]      the calls that wrote a request for id to the plugin     *)
(*   applied       the calls whose request the plugin carried out          *)
(*                                                                         *)
(* A journal method holds the host's mutex; the two that write (Start and  *)
(* finish) are split where the file is visible and not yet durable, and    *)
(* keep the mutex in between.  Read-only methods do not come here.         *)
(***************************************************************************)
EXTENDS Naturals, FiniteSets

CONSTANTS
  Hosts,       \* processes with a FileJournal on the directory
  Calls,       \* calls of CallWithIdempotency; a retry is another call
  OpIDs,       \* operation ids
  Scopes,      \* digests of plugin, method and parameters
  MaxFaults    \* bound on crashes, power losses and failing syncs

VARIABLES disk, safe, records, call, sent, applied, faults

journalVars == <<disk, safe, records, call, sent, applied, faults>>

Terminal == {"completed", "failed"}
Statuses == {"absent", "started"} \cup Terminal

(* core.OperationRecord; "absent" stands for no file or no map entry. *)
Record == [status : Statuses, scope : Scopes]

(* Where a call is.  `linked' and `renamed' are inside the mutex. *)
Points == {"idle", "lookup", "start", "linked", "dispatch", "waiting", "finish", "renamed", "returned", "dead"}
Outcomes == {"none", "completed", "failed", "indeterminate", "refused", "error"}
Call == [at : Points, host : Hosts, id : OpIDs, scope : Scopes, outcome : Outcomes]

(* Type invariant: only statuses of core.OperationRecord are ever written. *)
JournalTypeOK ==
  /\ disk \in [OpIDs -> Record]
  /\ safe \in [OpIDs -> Record]
  /\ records \in [Hosts -> [OpIDs -> Record]]
  /\ call \in [Calls -> Call]
  /\ sent \in [OpIDs -> SUBSET Calls]
  /\ applied \subseteq Calls
  /\ faults \in Nat

----------------------------------------------------------------------------
Fault ==
  /\ faults < MaxFaults
  /\ faults' = faults + 1

(* The mutex of host h is free. *)
Unlocked(h) == \A c \in Calls : call[c].host = h => call[c].at \notin {"linked", "renamed"}

Go(c, point) == call' = [call EXCEPT ![c].at = point]
Return(c, outcome) == call' = [call EXCEPT ![c].at = "returned", ![c].outcome = outcome]

Begin(c, h, id, s) ==
  /\ call[c].at = "idle"
  /\ call' = [call EXCEPT ![c] = [at |-> "lookup", host |-> h, id |-> id, scope |-> s, outcome |-> "none"]]
  /\ UNCHANGED <<disk, safe, records, sent, applied, faults>>

(* Mutant: the scope of the recorded operation is not compared. *)
VerdictByStatus(record, s) ==
  IF record.status \in Terminal THEN record.status ELSE "indeterminate"

(* What a record that is already there means for a call with scope s. *)
Verdict(record, s) ==
  IF record.scope # s THEN "refused"
  ELSE IF record.status \in Terminal THEN record.status
  ELSE "indeterminate"

(* journal.Lookup reads the file and refreshes the map. *)
Lookup(c) ==
  LET id == call[c].id  h == call[c].host IN
  /\ call[c].at = "lookup"
  /\ Unlocked(h)
  /\ IF disk[id].status = "absent"
       THEN /\ Go(c, "start")
            /\ UNCHANGED records
       ELSE /\ Return(c, Verdict(disk[id], call[c].scope))
            /\ records' = [records EXCEPT ![h][id] = disk[id]]
  /\ UNCHANGED <<disk, safe, sent, applied, faults>>

StartVerdict(record, s) == IF record.scope # s THEN "refused" ELSE "indeterminate"

(* journal.Start when the id is already claimed: in the map, or by a file  *)
(* that another process linked first.                                      *)
StartLoses(c) ==
  LET id == call[c].id  h == call[c].host
      existing == IF records[h][id].status # "absent" THEN records[h][id] ELSE disk[id] IN
  /\ call[c].at = "start"
  /\ Unlocked(h)
  /\ existing.status # "absent"
  /\ records' = [records EXCEPT ![h][id] = existing]
  /\ Return(c, StartVerdict(existing, call[c].scope))
  /\ UNCHANGED <<disk, safe, sent, applied, faults>>

(* Mutant: the claim overwrites a file that appeared since the lookup. *)
ClaimByRename(c) ==
  LET id == call[c].id  h == call[c].host IN
  /\ call[c].at = "start"
  /\ Unlocked(h)
  /\ records[h][id].status = "absent"
  /\ disk' = [disk EXCEPT ![id] = [status |-> "started", scope |-> call[c].scope]]
  /\ Go(c, "linked")
  /\ UNCHANGED <<safe, records, sent, applied, faults>>

(* claim: the hard link is the compare-and-set. *)
Claim(c) ==
  LET id == call[c].id  h == call[c].host IN
  /\ call[c].at = "start"
  /\ Unlocked(h)
  /\ records[h][id].status = "absent"
  /\ disk[id].status = "absent"
  /\ disk' = [disk EXCEPT ![id] = [status |-> "started", scope |-> call[c].scope]]
  /\ Go(c, "linked")
  /\ UNCHANGED <<safe, records, sent, applied, faults>>

(* Mutant: the call goes on before the directory is synced. *)
DispatchUnsynced(c) ==
  /\ call[c].at = "linked"
  /\ records' = [records EXCEPT ![call[c].host][call[c].id] = disk[call[c].id]]
  /\ Go(c, "dispatch")
  /\ UNCHANGED <<disk, safe, sent, applied, faults>>

(* syncDirectory makes every entry of the directory durable. *)
SyncClaim(c) ==
  /\ call[c].at = "linked"
  /\ safe' = disk
  /\ records' = [records EXCEPT ![call[c].host][call[c].id] = disk[call[c].id]]
  /\ Go(c, "dispatch")
  /\ UNCHANGED <<disk, sent, applied, faults>>

(* The temporary file cannot be removed or the directory not synced: Start *)
(* fails although the claim is there.                                      *)
SyncClaimFails(c) ==
  /\ call[c].at = "linked"
  /\ Fault
  /\ Return(c, "error")
  /\ UNCHANGED <<disk, safe, records, sent, applied>>

----------------------------------------------------------------------------
(* The context is done or the parameters do not encode: no byte was sent.  *)
PreDispatchError(c) ==
  /\ call[c].at = "dispatch"
  /\ call' = [call EXCEPT ![c].at = "finish", ![c].outcome = "failed"]
  /\ UNCHANGED <<disk, safe, records, sent, applied, faults>>

(* WriteMessage, in full or in part. *)
Send(c) ==
  /\ call[c].at = "dispatch"
  /\ sent' = [sent EXCEPT ![call[c].id] = @ \cup {c}]
  /\ Go(c, "waiting")
  /\ UNCHANGED <<disk, safe, records, applied, faults>>

(* The plugin carries a request out, perhaps after its host is gone. *)
PluginApplies(c) ==
  /\ c \in sent[call[c].id]
  /\ c \notin applied
  /\ applied' = applied \cup {c}
  /\ UNCHANGED <<disk, safe, records, call, sent, faults>>

AnswerOK(c) ==
  /\ call[c].at = "waiting"
  /\ c \in applied
  /\ call' = [call EXCEPT ![c].at = "finish", ![c].outcome = "completed"]
  /\ UNCHANGED <<disk, safe, records, sent, applied, faults>>

(* Mutant: an error of the plugin or of the transport is a failure. *)
BadAnswerFails(c) ==
  /\ call[c].at = "waiting"
  /\ call' = [call EXCEPT ![c].at = "finish", ![c].outcome = "failed"]
  /\ UNCHANGED <<disk, safe, records, sent, applied, faults>>

(* Mutant: the unknown outcome is recorded as one. *)
RecordIndeterminate(c) ==
  /\ call[c].at = "waiting"
  /\ call' = [call EXCEPT ![c].at = "finish", ![c].outcome = "indeterminate"]
  /\ UNCHANGED <<disk, safe, records, sent, applied, faults>>

(* An error answer, a broken pipe, an answer with the wrong ids: whether   *)
(* the plugin acted is not known, and the record stays Started.            *)
AnswerBad(c) ==
  /\ call[c].at = "waiting"
  /\ Return(c, "indeterminate")
  /\ UNCHANGED <<disk, safe, records, sent, applied, faults>>

----------------------------------------------------------------------------
(* finish: Complete or Fail, whichever the call found. *)
Finish(c) ==
  LET id == call[c].id IN
  /\ call[c].at = "finish"
  /\ Unlocked(call[c].host)
  /\ IF disk[id].status = "started"
       THEN /\ disk' = [disk EXCEPT ![id].status = call[c].outcome]
            /\ Go(c, "renamed")
       ELSE /\ Return(c, "error")
            /\ UNCHANGED disk
  /\ UNCHANGED <<safe, records, sent, applied, faults>>

SyncFinish(c) ==
  /\ call[c].at = "renamed"
  /\ safe' = disk
  /\ records' = [records EXCEPT ![call[c].host][call[c].id] = disk[call[c].id]]
  /\ Go(c, "returned")
  /\ UNCHANGED <<disk, sent, applied, faults>>

SyncFinishFails(c) ==
  /\ call[c].at = "renamed"
  /\ Fault
  /\ Return(c, "error")
  /\ UNCHANGED <<disk, safe, records, sent, applied>>

(* persist fails before the rename. *)
FinishFails(c) ==
  /\ call[c].at = "finish"
  /\ Unlocked(call[c].host)
  /\ Fault
  /\ Return(c, "error")
  /\ UNCHANGED <<disk, safe, records, sent, applied>>

----------------------------------------------------------------------------
Open(c) == call[c].at \notin {"idle", "returned"}

(* Process h dies and is started again: NewFileJournal loads the files. *)
HostCrash(h) ==
  /\ Fault
  /\ call' = [c \in Calls |-> IF call[c].host = h /\ Open(c) THEN [call[c] EXCEPT !.at = "dead"] ELSE call[c]]
  /\ records' = [records EXCEPT ![h] = disk]
  /\ UNCHANGED <<disk, safe, sent, applied>>

(* The machine loses power: of what was not synced, any part may survive.  *)
PowerLoss ==
  /\ Fault
  /\ disk' \in {d \in [OpIDs -> {disk[id] : id \in OpIDs} \cup {safe[id] : id \in OpIDs}] :
                  \A id \in OpIDs : d[id] \in {disk[id], safe[id]}}
  /\ safe' = disk'
  /\ records' = [h \in Hosts |-> disk']
  /\ call' = [c \in Calls |-> IF Open(c) THEN [call[c] EXCEPT !.at = "dead"] ELSE call[c]]
  /\ UNCHANGED <<sent, applied>>

----------------------------------------------------------------------------
JournalInit ==
  /\ disk \in {[id \in OpIDs |-> [status |-> "absent", scope |-> s]] : s \in Scopes}
  /\ safe = disk
  /\ records = [h \in Hosts |-> disk]
  /\ call \in {[c \in Calls |-> [at |-> "idle", host |-> h, id |-> id, scope |-> s, outcome |-> "none"]] :
                 h \in Hosts, id \in OpIDs, s \in Scopes}
  /\ sent = [id \in OpIDs |-> {}]
  /\ applied = {}
  /\ faults = 0

CallStep(c) ==
  \/ \E h \in Hosts, id \in OpIDs, s \in Scopes : Begin(c, h, id, s)
  \/ Lookup(c) \/ StartLoses(c) \/ Claim(c) \/ SyncClaim(c) \/ SyncClaimFails(c)
  \/ PreDispatchError(c) \/ Send(c) \/ AnswerOK(c) \/ AnswerBad(c)
  \/ Finish(c) \/ FinishFails(c) \/ SyncFinish(c) \/ SyncFinishFails(c)

JournalNext ==
  \/ \E c \in Calls : CallStep(c) \/ PluginApplies(c)
  \/ \E h \in Hosts : HostCrash(h)
  \/ PowerLoss

JournalSpec == JournalInit /\ [][JournalNext]_journalVars

----------------------------------------------------------------------------
(* Running the same operation again after a crash must not create a second *)
(* workload (client.go): whatever the concurrent calls, the processes, the *)
(* crashes and the retries, the plugin gets one request per operation id.  *)
AtMostOnce == \A id \in OpIDs : \A c, d \in sent[id] : c = d

(* The start is durable before the plugin hears of the operation, so a     *)
(* power loss never makes an operation that may have happened look new.    *)
SentIsDurable == \A id \in OpIDs : sent[id] # {} => safe[id].status # "absent"

(* A recorded outcome is what happened: Failed, that no request was sent;  *)
(* Completed, that the plugin did it; and the scope is that of the request.*)
RecordIsTrue ==
  \A id \in OpIDs :
    /\ disk[id].status = "failed" => sent[id] = {}
    /\ disk[id].status = "completed" => \E c \in sent[id] : c \in applied
    /\ \A c \in sent[id] : call[c].scope = disk[id].scope

(* What a caller was told stays true whatever happens later: "completed"   *)
(* means the very mutation it asked for was done, "failed" that it never   *)
(* will be.                                                                *)
AnswerIsTrue ==
  \A c \in Calls :
    call[c].at = "returned" =>
      /\ call[c].outcome = "completed" =>
           \E d \in sent[call[c].id] : d \in applied /\ call[d].scope = call[c].scope
      /\ call[c].outcome = "failed" => sent[call[c].id] = {}
=============================================================================
