----------------------------- MODULE MCJournals -----------------------------
(***************************************************************************)
(* The two journals on small instances: the operation journal and the      *)
(* audit journal.  They share nothing; part says which of them moves.      *)
(***************************************************************************)
EXTENDS OperationJournal, AuditJournal

VARIABLE part

MCInit == JournalInit /\ AuditInit /\ part \in {"operations", "audit"}

MCNext ==
  \/ part = "operations" /\ JournalNext /\ UNCHANGED <<part, auditVars>>
  \/ part = "audit" /\ AuditNext /\ UNCHANGED <<part, journalVars>>

MCSpec == MCInit /\ [][MCNext]_<<part, journalVars, auditVars>>

(* The type invariant of both journals. *)
JournalsTypeOK == JournalTypeOK /\ AuditTypeOK
=============================================================================
