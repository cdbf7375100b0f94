---------------------------- MODULE AuditJournal ----------------------------
(***************************************************************************)
(* The hash-chained audit journal: internal/control/audit.go.              *)
(*                                                                         *)
(* file is the sequence of terminated lines; torn says that bytes of an    *)
(* unfinished line follow them.  A line is an event                        *)
(* [sequence, content, previous, hash] or Garbage (bytes that do not       *)
(* decode to one event).  SHA-256 is modelled as a collision-free          *)
(* function: the hash of an event is the pair of what it covers.           *)
(*                                                                         *)
(* Append holds j.mu throughout, so it is one step with several outcomes:  *)
(* the disk may refuse the write, take a part of it, or take all of it and *)
(* then fail to sync or close.  Only full success advances the tail that   *)
(* the journal remembers.                                                  *)
(***************************************************************************)
EXTENDS Integers, Sequences

CONSTANTS
  Contents,     \* (actor, action, subject, time) of an event
  Garbage,      \* a line that is not one event
  NoHash,       \* the empty PreviousHash of the first event
  MaxLines, MaxFailures, MaxOpens

ASSUME AuditAssumption == {MaxLines, MaxFailures, MaxOpens} \subseteq Nat

VARIABLES
  file, torn,
  open,       \* a process has the journal open
  sequence,   \* j.sequence
  lastHash,   \* j.lastHash
  reported,   \* the contents of the appends that returned an event, in order
  failures, opens,
  dirty,      \* since the last open, an append that failed wrote something
  edited      \* the file as it was before somebody edited it; <<>> if nobody did

auditVars == <<file, torn, open, sequence, lastHash, reported, failures, opens, dirty, edited>>

Hash(event) == <<event.sequence, event.content, event.previous>>

Event(n, content, previous) ==
  [sequence |-> n, content |-> content, previous |-> previous,
   hash |-> <<n, content, previous>>]

(* Mutant: the hash of a line is compared with the next line's             *)
(* PreviousHash, but never recomputed.                                     *)
VerifyWithoutRehash(f, isTorn) ==
  /\ ~isTorn
  /\ \A i \in 1 .. Len(f) : f[i] # Garbage
  /\ \A i \in 1 .. Len(f) :
       /\ f[i].sequence = i
       /\ f[i].previous = IF i = 1 THEN NoHash ELSE f[i - 1].hash

(* VerifyAuditJournal. *)
Verify(f, isTorn) ==
  /\ ~isTorn
  /\ \A i \in 1 .. Len(f) : f[i] # Garbage
  /\ \A i \in 1 .. Len(f) :
       /\ f[i].sequence = i
       /\ f[i].previous = IF i = 1 THEN NoHash ELSE f[i - 1].hash
       /\ f[i].hash = Hash(f[i])

(* OpenAuditJournal; the server does not start when it fails. *)
OpenJournal ==
  /\ ~open
  /\ opens < MaxOpens
  /\ Verify(file, torn)
  /\ open' = TRUE
  /\ sequence' = IF file = <<>> THEN 0 ELSE file[Len(file)].sequence
  /\ lastHash' = IF file = <<>> THEN NoHash ELSE file[Len(file)].hash
  /\ opens' = opens + 1 /\ dirty' = FALSE
  /\ UNCHANGED <<file, torn, reported, failures, edited>>

(* A line written after torn bytes completes their line, to garbage. *)
Written(event) == Append(file, IF torn THEN Garbage ELSE event)

(* Mutant: the sequence is advanced and the hash is not. *)
AppendKeepsHash(content) ==
  LET event == Event(sequence + 1, content, lastHash) IN
  /\ open /\ Len(file) < MaxLines
  /\ file' = Written(event) /\ torn' = FALSE
  /\ sequence' = event.sequence /\ UNCHANGED lastHash
  /\ reported' = Append(reported, content)
  /\ UNCHANGED <<open, failures, opens, dirty, edited>>

(* AuditJournal.Append, when everything succeeds. *)
AppendEvent(content) ==
  LET event == Event(sequence + 1, content, lastHash) IN
  /\ open /\ Len(file) < MaxLines
  /\ file' = Written(event) /\ torn' = FALSE
  /\ sequence' = event.sequence /\ lastHash' = event.hash
  /\ reported' = Append(reported, content)
  /\ UNCHANGED <<open, failures, opens, dirty, edited>>

(* Mutant: a failed append is reported as done. *)
FailReported(content) ==
  /\ open /\ Len(file) < MaxLines /\ failures < MaxFailures
  /\ reported' = Append(reported, content)
  /\ failures' = failures + 1
  /\ UNCHANGED <<file, torn, open, sequence, lastHash, opens, dirty, edited>>

(* AuditJournal.Append, when the disk fails it: the tail is not advanced,  *)
(* whatever reached the file.                                              *)
AppendFails(content) ==
  LET event == Event(sequence + 1, content, lastHash) IN
  /\ open /\ Len(file) < MaxLines /\ failures < MaxFailures
  /\ \/ UNCHANGED <<file, torn, dirty>>
     \/ torn' = TRUE /\ dirty' = TRUE /\ UNCHANGED file
     \/ file' = Written(event) /\ torn' = FALSE /\ dirty' = TRUE
  /\ failures' = failures + 1
  /\ UNCHANGED <<open, sequence, lastHash, reported, opens, edited>>

(* The process ends between two appends. *)
Stop ==
  /\ open
  /\ open' = FALSE /\ sequence' = 0 /\ lastHash' = NoHash
  /\ UNCHANGED <<file, torn, reported, failures, opens, dirty, edited>>

(* The process ends inside an append, after a part of the line or all of   *)
(* it reached the file.                                                    *)
CrashInAppend(content) ==
  LET event == Event(sequence + 1, content, lastHash) IN
  /\ open /\ Len(file) < MaxLines
  /\ \/ torn' = TRUE /\ UNCHANGED file
     \/ file' = Written(event) /\ torn' = FALSE
  /\ open' = FALSE /\ sequence' = 0 /\ lastHash' = NoHash
  /\ UNCHANGED <<reported, failures, opens, dirty, edited>>

----------------------------------------------------------------------------
(* Somebody edits the file of a stopped journal without recomputing the    *)
(* chain: drops a line, copies a line to another place, alters a content.  *)
Without(i) == SubSeq(file, 1, i - 1) \o SubSeq(file, i + 1, Len(file))
CopyTo(i, j) == SubSeq(file, 1, j) \o <<file[i]>> \o SubSeq(file, j + 1, Len(file))

Edited ==
  \/ \E i \in 1 .. Len(file) : file' = Without(i)
  \/ \E i \in 1 .. Len(file), j \in 0 .. Len(file) : file' = CopyTo(i, j)
  \/ \E i \in 1 .. Len(file), c \in Contents :
       /\ file[i] # Garbage /\ file[i].content # c
       /\ file' = [file EXCEPT ![i].content = c]

Edit ==
  /\ ~open /\ file # <<>> /\ edited = <<>>
  /\ Verify(file, torn)
  /\ Edited
  /\ edited' = file
  /\ UNCHANGED <<torn, open, sequence, lastHash, reported, failures, opens, dirty>>

----------------------------------------------------------------------------
AuditInit ==
  /\ file = <<>> /\ torn = FALSE
  /\ open = FALSE /\ sequence = 0 /\ lastHash = NoHash
  /\ reported = <<>> /\ failures = 0 /\ opens = 0 /\ dirty = FALSE /\ edited = <<>>

AuditNext ==
  \/ OpenJournal \/ Stop \/ Edit
  \/ \E c \in Contents : AppendEvent(c) \/ AppendFails(c) \/ CrashInAppend(c)

AuditSpec == AuditInit /\ [][AuditNext]_auditVars

----------------------------------------------------------------------------
(* Type invariant: the tail the journal remembers never runs past what the *)
(* file can hold.                                                          *)
AuditTypeOK ==
  /\ torn \in BOOLEAN /\ open \in BOOLEAN
  /\ sequence \in 0 .. MaxLines
  /\ \A i \in 1 .. Len(file) : file[i] = Garbage \/ file[i].sequence \in 1 .. MaxLines

IsSubsequence(s, t) ==
  \E f \in [1 .. Len(s) -> 1 .. Len(t)] :
    /\ \A i, j \in 1 .. Len(s) : i < j => f[i] < f[j]
    /\ \A i \in 1 .. Len(s) : t[f[i]] = s[i]

Recorded == [i \in 1 .. Len(file) |-> IF file[i] = Garbage THEN Garbage ELSE file[i].content]

(* Unless an append that failed wrote something since the journal was      *)
(* opened, a file whose last line is complete verifies, and the tail the   *)
(* process remembers is the tail of the file: stops, crashes and appends   *)
(* that fail cleanly never cost the journal.                               *)
TailIsVerified ==
  ~torn /\ ~dirty /\ edited = <<>> =>
    /\ Verify(file, torn)
    /\ open => sequence = Len(file)

(* A journal that verifies has lost nothing: every append that returned an *)
(* event is in it, in order, whatever failed or crashed in between.        *)
VerifiedIsComplete ==
  edited = <<>> /\ Verify(file, torn) => IsSubsequence(reported, Recorded)

(* A journal in which a line was dropped, copied or altered does not       *)
(* verify, unless it was the newest line that was dropped.                 *)
EditsDetected ==
  [][edited' # edited /\ file' # SubSeq(file, 1, Len(file) - 1)
       => ~Verify(file', torn')]_auditVars
=============================================================================
