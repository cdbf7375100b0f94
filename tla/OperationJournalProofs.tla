----------------------- MODULE OperationJournalProofs -----------------------
(***************************************************************************)
(* That a mutating plugin call happens at most once, and that what the     *)
(* journal and the callers are told of it is true, for any number of       *)
(* processes, calls, operation ids and faults.                             *)
(***************************************************************************)
EXTENDS OperationJournal, TLAPS

(* Call c has claimed id and is still running. *)
Owns(c, id) ==
  /\ call[c].id = id
  /\ call[c].at \in {"linked", "dispatch", "waiting", "finish", "renamed"}

(* The call that claimed an id is alone with it, and its position tells    *)
(* what the record is and whether a request went out.                      *)
OwnerKnows(c, id) ==
  /\ disk[id].scope = call[c].scope
  /\ call[c].at \in {"linked", "dispatch", "waiting", "finish"} => disk[id].status = "started"
  /\ call[c].at \in {"linked", "dispatch"} => sent[id] = {}
  /\ call[c].at # "linked" => safe[id].status # "absent"
  /\ call[c].at = "waiting" => c \in sent[id]
  /\ call[c].at = "renamed" => disk[id].status = call[c].outcome
  /\ call[c].at \in {"finish", "renamed"} =>
       \/ call[c].outcome = "failed" /\ sent[id] = {}
       \/ call[c].outcome = "completed" /\ c \in sent[id] /\ c \in applied

OneOwner ==
  \A c \in Calls, id \in OpIDs :
    Owns(c, id) => /\ OwnerKnows(c, id)
                  /\ \A d \in Calls : Owns(d, id) => d = c

(* The durable record trails the visible one, and never contradicts it. *)
SafeTrails ==
  \A id \in OpIDs :
    /\ safe[id].status # "absent" => disk[id].status # "absent" /\ disk[id].scope = safe[id].scope
    /\ safe[id].status \in Terminal => disk[id] = safe[id]
    /\ disk[id].status \in Terminal => safe[id].status # "absent"

(* Only a call that has begun sent a request, and only those are applied.  *)
SentByCaller ==
  /\ \A id \in OpIDs : \A c \in sent[id] : call[c].id = id /\ call[c].at # "idle"
  /\ \A c \in applied : c \in sent[call[c].id]

(* Once some caller was told "failed", nobody is left who could send. *)
FailedIsFinal ==
  \A c, d \in Calls :
    call[c].at = "returned" /\ call[c].outcome = "failed" =>
      /\ safe[call[c].id].status # "absent"
      /\ Owns(d, call[c].id) => call[d].at = "renamed"

(* The inductive invariant: the four properties and what they rest on.     *)
JInv ==
  /\ JournalTypeOK
  /\ AtMostOnce
  /\ SentIsDurable
  /\ RecordIsTrue
  /\ AnswerIsTrue
  /\ OneOwner
  /\ SafeTrails
  /\ SentByCaller
  /\ FailedIsFinal

----------------------------------------------------------------------------
(* What a step of call c that moves it to p with outcome o leaves alone. *)
Moves(c, p, o) ==
  /\ call' \in [Calls -> Call]
  /\ call'[c].at = p
  /\ call'[c].outcome = o
  /\ \A d \in Calls : /\ call'[d].id = call[d].id
                      /\ call'[d].scope = call[d].scope
                      /\ call'[d].host = call[d].host
                      /\ d # c => call'[d].at = call[d].at /\ call'[d].outcome = call[d].outcome

(* Go changes where the call is and nothing else. *)
LEMMA GoMoves ==
  ASSUME call \in [Calls -> Call], NEW c \in Calls, NEW p \in Points, Go(c, p)
  PROVE  Moves(c, p, call[c].outcome)
<1>. DEFINE moved == [call[c] EXCEPT !.at = p]
<1>1. call' = [call EXCEPT ![c] = moved]
  BY DEF Go
<1>2. moved \in Call /\ moved.at = p /\ moved.outcome = call[c].outcome
      /\ moved.id = call[c].id /\ moved.scope = call[c].scope /\ moved.host = call[c].host
  BY DEF Call
<1>. QED
  BY <1>1, <1>2 DEF Moves

(* So does a step that also sets the outcome; Return is one. *)
LEMMA OutcomeMoves ==
  ASSUME call \in [Calls -> Call], NEW c \in Calls, NEW p \in Points, NEW o \in Outcomes,
         call' = [call EXCEPT ![c].at = p, ![c].outcome = o]
  PROVE  Moves(c, p, o)
<1>. DEFINE moved == [call[c] EXCEPT !.at = p, !.outcome = o]
<1>1. call' = [call EXCEPT ![c] = moved]
  BY Zenon
<1>2. moved \in Call /\ moved.at = p /\ moved.outcome = o
      /\ moved.id = call[c].id /\ moved.scope = call[c].scope /\ moved.host = call[c].host
  BY Zenon DEF Call
<1>. QED
  BY <1>1, <1>2 DEF Moves

(* Sending the request: the owner of the id is the first to do so. *)
LEMMA SendKeepsJInv ==
  ASSUME JInv, NEW c \in Calls, Send(c)
  PROVE  JInv'
<1>. DEFINE id == call[c].id
<1>1. Moves(c, "waiting", call[c].outcome)
  BY GoMoves DEF JInv, JournalTypeOK, Send, Points
<1>2. /\ id \in OpIDs
      /\ Owns(c, id)
      /\ sent' = [sent EXCEPT ![id] = @ \cup {c}]
      /\ sent[id] = {}
  BY Zenon DEF JInv, JournalTypeOK, Send, Owns, Call, OneOwner, OwnerKnows
<1>3. JournalTypeOK'
  BY <1>1, <1>2 DEF JInv, JournalTypeOK, Send, Moves
<1>4. AtMostOnce'
  BY <1>2 DEF JInv, JournalTypeOK, AtMostOnce
<1>5. SentIsDurable'
  BY <1>2 DEF JInv, JournalTypeOK, SentIsDurable, Send, OneOwner, OwnerKnows
<1>6. RecordIsTrue'
  BY <1>1, <1>2 DEF JInv, JournalTypeOK, RecordIsTrue, Send, OneOwner, OwnerKnows, Moves
<1>7. AnswerIsTrue'
  <2>1. \A e \in Calls : call[e].at = "returned" /\ call[e].outcome = "failed" => call[e].id # id
    BY <1>2 DEF JInv, FailedIsFinal, Send
  <2>2. \A e \in Calls : sent[call[e].id] \subseteq sent'[call[e].id]
    BY <1>2 DEF JInv, JournalTypeOK, Call
  <2>. SUFFICES ASSUME NEW e \in Calls, call'[e].at = "returned"
                PROVE  /\ call'[e].outcome = "completed" =>
                            \E d \in sent'[call[e].id] : d \in applied /\ call'[d].scope = call[e].scope
                       /\ call'[e].outcome = "failed" => sent'[call[e].id] = {}
    BY <1>1 DEF AnswerIsTrue, Send, Moves
  <2>3. e # c /\ call[e].at = "returned" /\ call'[e].outcome = call[e].outcome
    BY <1>1 DEF Moves
  <2>4. call[e].outcome = "failed" => sent'[call[e].id] = sent[call[e].id]
    BY <1>2, <2>1, <2>3 DEF JInv, JournalTypeOK, Call
  <2>5. \A d \in sent[call[e].id] : call'[d].scope = call[d].scope
    BY <1>1 DEF JInv, JournalTypeOK, Moves, Call
  <2>. QED
    BY <2>2, <2>3, <2>4, <2>5 DEF JInv, AnswerIsTrue
<1>8. OneOwner'
  <2>. SUFFICES ASSUME NEW d \in Calls, NEW i \in OpIDs, Owns(d, i)'
                PROVE  OwnerKnows(d, i)' /\ \A e \in Calls : Owns(e, i)' => e = d
    BY DEF OneOwner
  <2>1. \A e \in Calls : Owns(e, i)' <=> Owns(e, i)
    BY <1>1, <1>2 DEF Owns, Moves
  <2>2. CASE d = c
    BY <1>1, <1>2, <2>1, <2>2 DEF JInv, JournalTypeOK, Send, OneOwner, Owns, OwnerKnows, Moves
  <2>3. CASE d # c
    <3>1. i # id
      BY <1>2, <2>1, <2>3 DEF JInv, OneOwner
    <3>2. sent'[i] = sent[i]
      BY <1>2, <3>1 DEF JInv, JournalTypeOK
    <3>3. OwnerKnows(d, i) /\ \A e \in Calls : Owns(e, i) => e = d
      BY <2>1 DEF JInv, OneOwner
    <3>4. OwnerKnows(d, i)'
      BY <1>1, <2>3, <3>2, <3>3, Zenon DEF Send, OwnerKnows, Moves
    <3>. QED
      BY <2>1, <3>3, <3>4
  <2>. QED
    BY <2>2, <2>3
<1>9. SafeTrails'
  BY DEF JInv, Send, SafeTrails
<1>10. SentByCaller'
  BY <1>1, <1>2 DEF JInv, JournalTypeOK, Send, SentByCaller, Moves
<1>11. FailedIsFinal'
  BY <1>1, <1>2 DEF JInv, JournalTypeOK, Send, FailedIsFinal, Owns, Moves
<1>. QED
  BY <1>3, <1>4, <1>5, <1>6, <1>7, <1>8, <1>9, <1>10, <1>11 DEF JInv

----------------------------------------------------------------------------
(* What must hold for call c to return outcome o. *)
MayReturn(c, o) ==
  LET id == call[c].id IN
  /\ o = "completed" => \E d \in sent[id] : d \in applied /\ call[d].scope = call[c].scope
  /\ o = "failed" => /\ sent[id] = {}
                     /\ safe[id].status # "absent"
                     /\ \A d \in Calls : d # c /\ Owns(d, id) => call[d].at = "renamed"

(* A step of call c that changes no record and sends nothing, though it    *)
(* may sync the directory, keeps the invariant if c stays an owner only as *)
(* one that knows its record, and returns only what is true.               *)
LEMMA QuietKeepsJInv ==
  ASSUME JInv, JournalTypeOK', NEW c \in Calls, NEW p \in Points, NEW o \in Outcomes, Moves(c, p, o),
         UNCHANGED <<disk, sent, applied>>, safe' = safe \/ safe' = disk, p # "idle", NEW id \in OpIDs, call[c].id = id,
         Owns(c, id)' => Owns(c, id) /\ OwnerKnows(c, id)' /\ call[c].at # "renamed",
         p = "returned" => MayReturn(c, o)
  PROVE  JInv'
<1>1. \A i \in OpIDs : sent[i] \subseteq Calls
  BY DEF JInv, JournalTypeOK, Call
<1>0. \A i \in OpIDs : safe[i].status # "absent" => safe'[i].status # "absent"
  BY DEF JInv, SafeTrails
<1>2. AtMostOnce' /\ SentIsDurable' /\ SafeTrails'
  BY <1>0 DEF JInv, AtMostOnce, SentIsDurable, SafeTrails
<1>3. RecordIsTrue'
  BY <1>1 DEF JInv, RecordIsTrue, Moves
<1>4. SentByCaller'
  BY <1>1 DEF JInv, JournalTypeOK, SentByCaller, Moves
<1>5. \A d \in Calls, i \in OpIDs : Owns(d, i)' => Owns(d, i)
  BY DEF Owns, Moves
<1>6. \A d \in Calls, i \in OpIDs : d # c /\ OwnerKnows(d, i) => OwnerKnows(d, i)'
  BY <1>0 DEF OwnerKnows, Moves
<1>7. \A i \in OpIDs : Owns(c, i)' => i = id
  BY DEF Owns, Moves
<1>8. OneOwner'
  <2>. SUFFICES ASSUME NEW d \in Calls, NEW i \in OpIDs, Owns(d, i)'
                PROVE  OwnerKnows(d, i)' /\ \A e \in Calls : Owns(e, i)' => e = d
    BY DEF OneOwner
  <2>1. OwnerKnows(d, i) /\ \A e \in Calls : Owns(e, i) => e = d
    BY <1>5 DEF JInv, OneOwner
  <2>2. OwnerKnows(d, i)'
    BY <1>6, <1>7, <2>1
  <2>. QED
    BY <1>5, <2>1, <2>2
<1>9. FailedIsFinal'
  <2>. SUFFICES ASSUME NEW e \in Calls, NEW d \in Calls, NEW i \in OpIDs, i = call[e].id,
                       call'[e].at = "returned", call'[e].outcome = "failed"
                PROVE  /\ safe'[i].status # "absent"
                       /\ Owns(d, i)' => call'[d].at = "renamed"
    BY DEF FailedIsFinal, Moves, Owns, JInv, JournalTypeOK, Call
  <2>1. CASE e = c
    <3>1. MayReturn(c, "failed") /\ p = "returned"
      BY <2>1 DEF Moves
    <3>2. ~Owns(c, i)'
      BY <3>1 DEF Owns, Moves
    <3>. QED
      BY <1>0, <1>1, <1>5, <2>1, <3>1, <3>2 DEF MayReturn, Moves
  <2>2. CASE e # c
    <3>1. call[e].at = "returned" /\ call[e].outcome = "failed"
      BY <2>2 DEF Moves
    <3>2. /\ safe[i].status # "absent"
          /\ \A f \in Calls : Owns(f, i) => call[f].at = "renamed"
      BY <3>1 DEF JInv, FailedIsFinal
    <3>3. ~Owns(c, i)'
      BY <1>7, <3>2
    <3>. QED
      BY <1>0, <1>5, <3>2, <3>3 DEF Moves
  <2>. QED
    BY <2>1, <2>2
<1>10. AnswerIsTrue'
  <2>. SUFFICES ASSUME NEW e \in Calls, call'[e].at = "returned"
                PROVE  /\ call'[e].outcome = "completed" =>
                            \E d \in sent[call[e].id] : d \in applied /\ call'[d].scope = call[e].scope
                       /\ call'[e].outcome = "failed" => sent[call[e].id] = {}
    BY DEF AnswerIsTrue, Moves
  <2>1. \A d \in sent[call[e].id] : call'[d].scope = call[d].scope
    BY <1>1 DEF JInv, JournalTypeOK, Moves, Call
  <2>2. CASE e = c
    BY <2>1, <2>2 DEF MayReturn, Moves
  <2>3. CASE e # c
    BY <2>1, <2>3 DEF JInv, AnswerIsTrue, Moves
  <2>. QED
    BY <2>2, <2>3
<1>. QED
  BY <1>2, <1>3, <1>4, <1>8, <1>9, <1>10 DEF JInv

(* Start fails: the claim stays, and nobody acts on it. *)
LEMMA SyncClaimFailsKeepsJInv ==
  ASSUME JInv, NEW c \in Calls, SyncClaimFails(c)
  PROVE  JInv'
<1>0. PICK id \in OpIDs : call[c].id = id
  BY DEF JInv, JournalTypeOK, Call
<1>1. Moves(c, "returned", "error")
  BY OutcomeMoves, Zenon DEF JInv, JournalTypeOK, SyncClaimFails, Return, Points, Outcomes, Call
<1>2. JournalTypeOK'
  BY <1>1 DEF JInv, JournalTypeOK, SyncClaimFails, Fault, Moves, Call
<1>3. ~Owns(c, id)'
  BY <1>1 DEF Owns, Moves
<1>4. MayReturn(c, "error")
  BY DEF MayReturn
<1>5. UNCHANGED <<disk, sent, applied>> /\ safe' = safe
  BY DEF SyncClaimFails
<1>. QED
  BY <1>0, <1>1, <1>2, <1>3, <1>4, <1>5, QuietKeepsJInv DEF Points, Outcomes

(* A bad answer leaves the record as it is. *)
LEMMA AnswerBadKeepsJInv ==
  ASSUME JInv, NEW c \in Calls, AnswerBad(c)
  PROVE  JInv'
<1>0. PICK id \in OpIDs : call[c].id = id
  BY DEF JInv, JournalTypeOK, Call
<1>1. Moves(c, "returned", "indeterminate")
  BY OutcomeMoves, Zenon DEF JInv, JournalTypeOK, AnswerBad, Return, Points, Outcomes, Call
<1>2. JournalTypeOK'
  BY <1>1 DEF JInv, JournalTypeOK, AnswerBad, Fault, Moves, Call
<1>3. ~Owns(c, id)'
  BY <1>1 DEF Owns, Moves
<1>4. MayReturn(c, "indeterminate")
  BY DEF MayReturn
<1>5. UNCHANGED <<disk, sent, applied>> /\ safe' = safe
  BY DEF AnswerBad
<1>. QED
  BY <1>0, <1>1, <1>2, <1>3, <1>4, <1>5, QuietKeepsJInv DEF Points, Outcomes

(* The terminal record cannot be written. *)
LEMMA FinishFailsKeepsJInv ==
  ASSUME JInv, NEW c \in Calls, FinishFails(c)
  PROVE  JInv'
<1>0. PICK id \in OpIDs : call[c].id = id
  BY DEF JInv, JournalTypeOK, Call
<1>1. Moves(c, "returned", "error")
  BY OutcomeMoves, Zenon DEF JInv, JournalTypeOK, FinishFails, Return, Points, Outcomes, Call
<1>2. JournalTypeOK'
  BY <1>1 DEF JInv, JournalTypeOK, FinishFails, Fault, Moves, Call
<1>3. ~Owns(c, id)'
  BY <1>1 DEF Owns, Moves
<1>4. MayReturn(c, "error")
  BY DEF MayReturn
<1>5. UNCHANGED <<disk, sent, applied>> /\ safe' = safe
  BY DEF FinishFails
<1>. QED
  BY <1>0, <1>1, <1>2, <1>3, <1>4, <1>5, QuietKeepsJInv DEF Points, Outcomes

(* The terminal record cannot be synced. *)
LEMMA SyncFinishFailsKeepsJInv ==
  ASSUME JInv, NEW c \in Calls, SyncFinishFails(c)
  PROVE  JInv'
<1>0. PICK id \in OpIDs : call[c].id = id
  BY DEF JInv, JournalTypeOK, Call
<1>1. Moves(c, "returned", "error")
  BY OutcomeMoves, Zenon DEF JInv, JournalTypeOK, SyncFinishFails, Return, Points, Outcomes, Call
<1>2. JournalTypeOK'
  BY <1>1 DEF JInv, JournalTypeOK, SyncFinishFails, Fault, Moves, Call
<1>3. ~Owns(c, id)'
  BY <1>1 DEF Owns, Moves
<1>4. MayReturn(c, "error")
  BY DEF MayReturn
<1>5. UNCHANGED <<disk, sent, applied>> /\ safe' = safe
  BY DEF SyncFinishFails
<1>. QED
  BY <1>0, <1>1, <1>2, <1>3, <1>4, <1>5, QuietKeepsJInv DEF Points, Outcomes

(* An owner that sent nothing knows its operation failed. *)
LEMMA PreDispatchErrorKeepsJInv ==
  ASSUME JInv, NEW c \in Calls, PreDispatchError(c)
  PROVE  JInv'
<1>0. PICK id \in OpIDs : call[c].id = id
  BY DEF JInv, JournalTypeOK, Call
<1>1. Moves(c, "finish", "failed")
  BY OutcomeMoves, Zenon DEF JInv, JournalTypeOK, PreDispatchError, Return, Points, Outcomes, Call
<1>2. JournalTypeOK'
  BY <1>1 DEF JInv, JournalTypeOK, PreDispatchError, Fault, Moves, Call
<1>3. Owns(c, id) /\ OwnerKnows(c, id) /\ call[c].at # "renamed"
  BY <1>0 DEF JInv, OneOwner, Owns, PreDispatchError
<1>4. OwnerKnows(c, id)'
  BY <1>0, <1>1, <1>3 DEF OwnerKnows, Moves, PreDispatchError
<1>5. UNCHANGED <<disk, sent, applied>> /\ safe' = safe
  BY DEF PreDispatchError
<1>. QED
  BY <1>0, <1>1, <1>2, <1>3, <1>4, <1>5, QuietKeepsJInv DEF Points, Outcomes

(* An owner that was answered knows its operation was done. *)
LEMMA AnswerOKKeepsJInv ==
  ASSUME JInv, NEW c \in Calls, AnswerOK(c)
  PROVE  JInv'
<1>0. PICK id \in OpIDs : call[c].id = id
  BY DEF JInv, JournalTypeOK, Call
<1>1. Moves(c, "finish", "completed")
  BY OutcomeMoves, Zenon DEF JInv, JournalTypeOK, AnswerOK, Return, Points, Outcomes, Call
<1>2. JournalTypeOK'
  BY <1>1 DEF JInv, JournalTypeOK, AnswerOK, Fault, Moves, Call
<1>3. Owns(c, id) /\ OwnerKnows(c, id) /\ call[c].at # "renamed"
  BY <1>0 DEF JInv, OneOwner, Owns, AnswerOK, Call
<1>4. OwnerKnows(c, id)'
  BY <1>0, <1>1, <1>3 DEF OwnerKnows, Moves, AnswerOK
<1>5. UNCHANGED <<disk, sent, applied>> /\ safe' = safe
  BY DEF AnswerOK
<1>. QED
  BY <1>0, <1>1, <1>2, <1>3, <1>4, <1>5, QuietKeepsJInv DEF Points, Outcomes

(* The directory is synced: the claim is durable, and its owner may send. *)
LEMMA SyncClaimKeepsJInv ==
  ASSUME JInv, NEW c \in Calls, SyncClaim(c)
  PROVE  JInv'
<1>0. PICK id \in OpIDs : call[c].id = id
  BY DEF JInv, JournalTypeOK, Call
<1>1. Moves(c, "dispatch", call[c].outcome)
  BY GoMoves DEF JInv, JournalTypeOK, SyncClaim, Points
<1>2. JournalTypeOK'
  BY <1>0, <1>1 DEF JInv, JournalTypeOK, SyncClaim, Moves, Call
<1>3. Owns(c, id) /\ OwnerKnows(c, id) /\ call[c].at # "renamed"
  BY <1>0 DEF JInv, OneOwner, Owns, SyncClaim
<1>4. OwnerKnows(c, id)'
  BY <1>0, <1>1, <1>3 DEF OwnerKnows, Moves, SyncClaim
<1>5. UNCHANGED <<disk, sent, applied>> /\ safe' = disk /\ call[c].outcome \in Outcomes
  BY DEF SyncClaim, JInv, JournalTypeOK, Call
<1>. QED
  BY <1>0, <1>1, <1>2, <1>3, <1>4, <1>5, QuietKeepsJInv DEF Points

(* The terminal record is durable and the owner returns what it says. *)
LEMMA SyncFinishKeepsJInv ==
  ASSUME JInv, NEW c \in Calls, SyncFinish(c)
  PROVE  JInv'
<1>0. PICK id \in OpIDs : call[c].id = id
  BY DEF JInv, JournalTypeOK, Call
<1>1. Moves(c, "returned", call[c].outcome)
  BY GoMoves DEF JInv, JournalTypeOK, SyncFinish, Points
<1>2. JournalTypeOK'
  BY <1>0, <1>1 DEF JInv, JournalTypeOK, SyncFinish, Moves, Call
<1>3. /\ OwnerKnows(c, id)
      /\ \A d \in Calls : Owns(d, id) => d = c
  BY <1>0 DEF JInv, OneOwner, Owns, SyncFinish
<1>4. ~Owns(c, id)'
  BY <1>1 DEF Owns, Moves
<1>5. MayReturn(c, call[c].outcome)
  BY <1>0, <1>3 DEF MayReturn, OwnerKnows, SyncFinish
<1>6. UNCHANGED <<disk, sent, applied>> /\ safe' = disk /\ call[c].outcome \in Outcomes
  BY DEF SyncFinish, JInv, JournalTypeOK, Call
<1>. QED
  BY <1>0, <1>1, <1>2, <1>4, <1>5, <1>6, QuietKeepsJInv DEF Points

(* A terminal record may be told to any caller with the same scope. *)
LEMMA LookupKeepsJInv ==
  ASSUME JInv, NEW c \in Calls, Lookup(c)
  PROVE  JInv'
<1>0. PICK id \in OpIDs : call[c].id = id
  BY DEF JInv, JournalTypeOK, Call
<1>1. /\ UNCHANGED <<disk, safe, sent, applied, faults>>
      /\ call[c].at = "lookup"
      /\ call[c].outcome \in Outcomes
  BY DEF Lookup, JInv, JournalTypeOK, Call
<1>2. CASE disk[id].status = "absent"
  <2>1. Go(c, "start") /\ UNCHANGED records
    BY <1>0, <1>2 DEF Lookup
  <2>2. Moves(c, "start", call[c].outcome)
    BY <2>1, GoMoves DEF JInv, JournalTypeOK, Points
  <2>3. JournalTypeOK'
    BY <1>1, <2>1, <2>2 DEF JInv, JournalTypeOK, Moves
  <2>4. ~Owns(c, id)'
    BY <2>2 DEF Owns, Moves
  <2>. QED
    BY <1>0, <1>1, <2>2, <2>3, <2>4, QuietKeepsJInv DEF Points
<1>3. CASE disk[id].status # "absent"
  <2>. DEFINE o == Verdict(disk[id], call[c].scope)
  <2>1. /\ Return(c, o)
        /\ records' = [records EXCEPT ![call[c].host][id] = disk[id]]
    BY <1>0, <1>3 DEF Lookup
  <2>2. o \in Outcomes /\ disk[id] \in Record
    BY DEF JInv, JournalTypeOK, Record, Statuses, Terminal, Verdict, Outcomes
  <2>3. Moves(c, "returned", o)
    BY <2>1, <2>2, OutcomeMoves, Zenon DEF JInv, JournalTypeOK, Points, Return
  <2>4. JournalTypeOK'
    BY <1>1, <2>1, <2>2, <2>3 DEF JInv, JournalTypeOK, Moves, Call
  <2>5. ~Owns(c, id)'
    BY <2>3 DEF Owns, Moves
  <2>6. o = "completed" => disk[id].status = "completed" /\ disk[id].scope = call[c].scope
    BY DEF Verdict, Terminal
  <2>7. o = "failed" => disk[id].status = "failed"
    BY DEF Verdict, Terminal
  <2>8. disk[id].status = "failed" => \A d \in Calls : Owns(d, id) => call[d].at = "renamed"
    BY DEF JInv, OneOwner, OwnerKnows, Owns
  <2>9. MayReturn(c, o)
    BY <1>0, <2>6, <2>7, <2>8 DEF JInv, MayReturn, RecordIsTrue, SafeTrails, Terminal
  <2>10. UNCHANGED <<disk, sent, applied>> /\ safe' = safe /\ "returned" \in Points
    BY <1>1 DEF Points
  <2>. HIDE DEF o
  <2>. QED
    BY <1>0, <2>2, <2>3, <2>4, <2>5, <2>9, <2>10, QuietKeepsJInv
<1>. QED
  BY <1>2, <1>3

(* The loser of a claim is told to observe again, or refused. *)
LEMMA StartLosesKeepsJInv ==
  ASSUME JInv, NEW c \in Calls, StartLoses(c)
  PROVE  JInv'
<1>. DEFINE h == call[c].host
            existing == IF records[h][call[c].id].status # "absent"
                          THEN records[h][call[c].id] ELSE disk[call[c].id]
            o == StartVerdict(existing, call[c].scope)
<1>0. PICK id \in OpIDs : call[c].id = id
  BY DEF JInv, JournalTypeOK, Call
<1>1. /\ UNCHANGED <<disk, safe, sent, applied, faults>>
      /\ Return(c, o)
      /\ records' = [records EXCEPT ![h][call[c].id] = existing]
  BY Zenon DEF StartLoses
<1>2. o \in {"refused", "indeterminate"} /\ h \in Hosts
  BY DEF StartVerdict, JInv, JournalTypeOK, Call
<1>3. existing \in Record
  BY <1>0, <1>2 DEF JInv, JournalTypeOK
<1>4. Moves(c, "returned", o)
  BY <1>1, <1>2, OutcomeMoves, Zenon DEF JInv, JournalTypeOK, Points, Outcomes, Return
<1>5. JournalTypeOK'
  BY <1>0, <1>1, <1>2, <1>3, <1>4 DEF JInv, JournalTypeOK, Moves
<1>6. ~Owns(c, id)'
  BY <1>4 DEF Owns, Moves
<1>7. MayReturn(c, o)
  BY <1>2 DEF MayReturn
<1>8. UNCHANGED <<disk, sent, applied>> /\ safe' = safe /\ "returned" \in Points /\ o \in Outcomes
  BY <1>1, <1>2, Zenon DEF Points, Outcomes
<1>. HIDE DEF o, existing
<1>. QED
  BY <1>0, <1>4, <1>5, <1>6, <1>7, <1>8, QuietKeepsJInv

----------------------------------------------------------------------------
(* A claim is the first record of its id, and its call the only owner. *)
LEMMA ClaimKeepsJInv ==
  ASSUME JInv, NEW c \in Calls, Claim(c)
  PROVE  JInv'
<1>. DEFINE claimed == [status |-> "started", scope |-> call[c].scope]
<1>0. PICK id \in OpIDs : call[c].id = id
  BY DEF JInv, JournalTypeOK, Call
<1>1. Moves(c, "linked", call[c].outcome)
  BY GoMoves DEF JInv, JournalTypeOK, Claim, Points
<1>2. /\ UNCHANGED <<safe, records, sent, applied, faults>>
      /\ disk' = [disk EXCEPT ![id] = claimed]
      /\ disk[id].status = "absent"
      /\ call[c].at = "start"
  BY <1>0 DEF Claim
<1>3. claimed \in Record
  BY DEF JInv, JournalTypeOK, Call, Record, Statuses
<1>4. JournalTypeOK'
  BY <1>0, <1>1, <1>2, <1>3 DEF JInv, JournalTypeOK, Moves
<1>5. /\ disk'[id] = claimed
      /\ \A i \in OpIDs : i # id => disk'[i] = disk[i]
  BY <1>2 DEF JInv, JournalTypeOK
<1>6. safe[id].status = "absent" /\ sent[id] = {}
  BY <1>2 DEF JInv, SafeTrails, SentIsDurable
<1>7. AtMostOnce' /\ SentIsDurable'
  BY <1>2 DEF JInv, AtMostOnce, SentIsDurable
<1>8. RecordIsTrue'
  <2>1. \A i \in OpIDs : \A d \in sent[i] : call'[d].scope = call[d].scope
    BY <1>1 DEF JInv, JournalTypeOK, Moves
  <2>. QED
    BY <1>2, <1>5, <1>6, <2>1 DEF JInv, RecordIsTrue
<1>9. SafeTrails'
  BY <1>2, <1>5, <1>6 DEF JInv, SafeTrails, Terminal
<1>10. SentByCaller'
  <2>1. \A d \in Calls : call'[d].id = call[d].id /\ (call[d].at # "idle" => call'[d].at # "idle")
    BY <1>1 DEF Moves
  <2>2. applied \subseteq Calls /\ \A i \in OpIDs : sent[i] \subseteq Calls
    BY DEF JInv, JournalTypeOK
  <2>. QED
    BY <1>2, <2>1, <2>2 DEF JInv, SentByCaller
<1>11. \A d \in Calls : ~Owns(d, id)
  BY <1>2, <1>6 DEF JInv, OneOwner, OwnerKnows, Owns, SafeTrails, Terminal
<1>12. \A d \in Calls, i \in OpIDs : Owns(d, i)' <=> (Owns(d, i) \/ (d = c /\ i = id))
  <2>. TAKE d \in Calls, i \in OpIDs
  <2>1. CASE d = c
    <3>1. call'[c].id = id /\ call'[c].at = "linked" /\ call[c].at = "start"
      BY <1>0, <1>1, <1>2 DEF Moves
    <3>. QED
      BY <2>1, <3>1 DEF Owns
  <2>2. CASE d # c
    <3>1. call'[d].id = call[d].id /\ call'[d].at = call[d].at
      BY <1>1, <2>2 DEF Moves
    <3>. QED
      BY <2>2, <3>1 DEF Owns
  <2>. QED
    BY <2>1, <2>2
<1>13. OneOwner'
  <2>. SUFFICES ASSUME NEW d \in Calls, NEW i \in OpIDs, Owns(d, i)'
                PROVE  OwnerKnows(d, i)' /\ \A e \in Calls : Owns(e, i)' => e = d
    BY DEF OneOwner
  <2>1. CASE i = id
    <3>1. d = c
      BY <1>11, <1>12, <2>1
    <3>2. OwnerKnows(c, id)'
      BY <1>1, <1>2, <1>5, <1>6 DEF OwnerKnows, Moves
    <3>. QED
      BY <1>11, <1>12, <2>1, <3>1, <3>2
  <2>2. CASE i # id
    <3>1. d # c /\ OwnerKnows(d, i) /\ \A e \in Calls : Owns(e, i) => e = d
      BY <1>0, <1>2, <1>12, <2>2 DEF JInv, OneOwner, Owns
    <3>2. OwnerKnows(d, i)'
      BY <1>1, <1>2, <1>5, <2>2, <3>1 DEF OwnerKnows, Moves
    <3>. QED
      BY <1>12, <2>2, <3>1, <3>2
  <2>. QED
    BY <2>1, <2>2
<1>14. FailedIsFinal'
  <2>. SUFFICES ASSUME NEW e \in Calls, NEW d \in Calls, NEW i \in OpIDs, i = call[e].id,
                       call'[e].at = "returned", call'[e].outcome = "failed"
                PROVE  /\ safe[i].status # "absent"
                       /\ Owns(d, i)' => call'[d].at = "renamed"
    BY <1>1, <1>2 DEF FailedIsFinal, Moves, Owns, JInv, JournalTypeOK, Call
  <2>1. e # c /\ call[e].at = "returned" /\ call[e].outcome = "failed"
    BY <1>1 DEF Moves
  <2>2. /\ safe[i].status # "absent"
        /\ Owns(d, i) => call[d].at = "renamed"
    BY <2>1 DEF JInv, FailedIsFinal
  <2>3. i # id
    BY <1>6, <2>2
  <2>. QED
    BY <1>0, <1>1, <1>2, <1>12, <2>2, <2>3 DEF Moves, Owns
<1>15. AnswerIsTrue'
  <2>. SUFFICES ASSUME NEW e \in Calls, call'[e].at = "returned"
                PROVE  /\ call'[e].outcome = "completed" =>
                            \E d \in sent[call[e].id] : d \in applied /\ call'[d].scope = call[e].scope
                       /\ call'[e].outcome = "failed" => sent[call[e].id] = {}
    BY <1>1, <1>2 DEF AnswerIsTrue, Moves
  <2>1. \A d \in sent[call[e].id] : call'[d].scope = call[d].scope
    BY <1>1 DEF JInv, JournalTypeOK, Moves, Call
  <2>2. e # c
    BY <1>1 DEF Moves
  <2>. QED
    BY <1>1, <2>1, <2>2 DEF JInv, AnswerIsTrue, Moves
<1>. QED
  BY <1>4, <1>7, <1>8, <1>9, <1>10, <1>13, <1>14, <1>15 DEF JInv

(* The owner replaces its Started record by what it knows. *)
LEMMA FinishKeepsJInv ==
  ASSUME JInv, NEW c \in Calls, Finish(c)
  PROVE  JInv'
<1>0. PICK id \in OpIDs : call[c].id = id
  BY DEF JInv, JournalTypeOK, Call
<1>1. Owns(c, id) /\ OwnerKnows(c, id) /\ call[c].at = "finish"
  BY <1>0 DEF JInv, OneOwner, Owns, Finish
<1>2. /\ disk[id].status = "started"
      /\ safe[id].status \notin Terminal \cup {"absent"}
      /\ call[c].outcome \in Terminal
  BY <1>1 DEF OwnerKnows, JInv, SafeTrails, Terminal
<1>. DEFINE finished == [disk[id] EXCEPT !.status = call[c].outcome]
<1>3. /\ UNCHANGED <<safe, records, sent, applied, faults>>
      /\ disk' = [disk EXCEPT ![id] = finished]
      /\ Go(c, "renamed")
  BY <1>0, <1>2 DEF Finish
<1>4. Moves(c, "renamed", call[c].outcome)
  BY <1>3, GoMoves DEF JInv, JournalTypeOK, Points
<1>5. finished \in Record /\ finished.status = call[c].outcome /\ finished.scope = disk[id].scope
  BY <1>2, Zenon DEF JInv, JournalTypeOK, Record, Statuses
<1>6. /\ disk'[id] = finished
      /\ \A i \in OpIDs : i # id => disk'[i] = disk[i]
  BY <1>3 DEF JInv, JournalTypeOK
<1>. HIDE DEF finished
<1>7. JournalTypeOK'
  BY <1>3, <1>4, <1>5 DEF JInv, JournalTypeOK, Moves
<1>8. AtMostOnce' /\ SentIsDurable'
  BY <1>3 DEF JInv, AtMostOnce, SentIsDurable
<1>9. RecordIsTrue'
  <2>1. \A i \in OpIDs : \A d \in sent[i] : call'[d].scope = call[d].scope
    BY <1>4 DEF JInv, JournalTypeOK, Moves
  <2>2. /\ finished.status = "failed" => sent[id] = {}
        /\ finished.status = "completed" => c \in sent[id] /\ c \in applied
    BY <1>1, <1>5 DEF OwnerKnows
  <2>. QED
    BY <1>3, <1>5, <1>6, <2>1, <2>2 DEF JInv, RecordIsTrue
<1>10. SafeTrails'
  BY <1>2, <1>3, <1>5, <1>6 DEF JInv, SafeTrails, Terminal
<1>11. SentByCaller'
  <2>1. \A d \in Calls : call'[d].id = call[d].id /\ (call[d].at # "idle" => call'[d].at # "idle")
    BY <1>4 DEF Moves
  <2>2. applied \subseteq Calls /\ \A i \in OpIDs : sent[i] \subseteq Calls
    BY DEF JInv, JournalTypeOK
  <2>. QED
    BY <1>3, <2>1, <2>2 DEF JInv, SentByCaller
<1>12. \A d \in Calls, i \in OpIDs : Owns(d, i)' <=> Owns(d, i)
  BY <1>1, <1>4 DEF Owns, Moves
<1>13. OneOwner'
  <2>. SUFFICES ASSUME NEW d \in Calls, NEW i \in OpIDs, Owns(d, i)'
                PROVE  OwnerKnows(d, i)' /\ \A e \in Calls : Owns(e, i)' => e = d
    BY DEF OneOwner
  <2>1. OwnerKnows(d, i) /\ \A e \in Calls : Owns(e, i) => e = d
    BY <1>12 DEF JInv, OneOwner
  <2>2. CASE d = c
    <3>1. i = id
      BY <1>0, <1>12, <2>2 DEF Owns
    <3>. QED
      BY <1>1, <1>3, <1>4, <1>5, <1>6, <1>12, <2>1, <2>2, <3>1 DEF OwnerKnows, Moves
  <2>3. CASE d # c
    <3>1. i # id
      BY <1>1, <2>1, <2>3
    <3>2. OwnerKnows(d, i)'
      BY <1>3, <1>4, <1>6, <2>1, <2>3, <3>1 DEF OwnerKnows, Moves
    <3>. QED
      BY <1>12, <2>1, <3>2
  <2>. QED
    BY <2>2, <2>3
<1>14. FailedIsFinal'
  <2>. SUFFICES ASSUME NEW e \in Calls, NEW d \in Calls, NEW i \in OpIDs, i = call[e].id,
                       call'[e].at = "returned", call'[e].outcome = "failed"
                PROVE  /\ safe[i].status # "absent"
                       /\ Owns(d, i)' => call'[d].at = "renamed"
    BY <1>3, <1>4 DEF FailedIsFinal, Moves, Owns, JInv, JournalTypeOK, Call
  <2>1. e # c /\ call[e].at = "returned" /\ call[e].outcome = "failed"
    BY <1>4 DEF Moves
  <2>2. /\ safe[i].status # "absent"
        /\ Owns(d, i) => call[d].at = "renamed"
    BY <2>1 DEF JInv, FailedIsFinal
  <2>. QED
    BY <1>4, <1>12, <2>2 DEF Moves
<1>15. AnswerIsTrue'
  <2>. SUFFICES ASSUME NEW e \in Calls, call'[e].at = "returned"
                PROVE  /\ call'[e].outcome = "completed" =>
                            \E d \in sent[call[e].id] : d \in applied /\ call'[d].scope = call[e].scope
                       /\ call'[e].outcome = "failed" => sent[call[e].id] = {}
    BY <1>3, <1>4 DEF AnswerIsTrue, Moves
  <2>1. \A d \in sent[call[e].id] : call'[d].scope = call[d].scope
    BY <1>4 DEF JInv, JournalTypeOK, Moves, Call
  <2>2. e # c
    BY <1>4 DEF Moves
  <2>. QED
    BY <1>4, <2>1, <2>2 DEF JInv, AnswerIsTrue, Moves
<1>. QED
  BY <1>7, <1>8, <1>9, <1>10, <1>11, <1>13, <1>14, <1>15 DEF JInv

(* The plugin carries out a request that was sent. *)
LEMMA PluginAppliesKeepsJInv ==
  ASSUME JInv, NEW c \in Calls, PluginApplies(c)
  PROVE  JInv'
<1>1. UNCHANGED <<disk, safe, records, call, sent, faults>> /\ applied' = applied \cup {c} /\ c \in sent[call[c].id]
  BY DEF PluginApplies
<1>2. JournalTypeOK' /\ AtMostOnce' /\ SentIsDurable' /\ SafeTrails' /\ SentByCaller'
  BY <1>1 DEF JInv, JournalTypeOK, AtMostOnce, SentIsDurable, SafeTrails, SentByCaller
<1>3. RecordIsTrue' /\ AnswerIsTrue'
  BY <1>1 DEF JInv, RecordIsTrue, AnswerIsTrue
<1>4. OneOwner'
  BY <1>1 DEF JInv, OneOwner, OwnerKnows, Owns
<1>5. FailedIsFinal'
  BY <1>1 DEF JInv, FailedIsFinal, Owns
<1>. QED
  BY <1>2, <1>3, <1>4, <1>5 DEF JInv

(* A new call owns nothing and has sent nothing. *)
LEMMA BeginKeepsJInv ==
  ASSUME JInv, NEW c \in Calls, NEW h \in Hosts, NEW i0 \in OpIDs, NEW s \in Scopes, Begin(c, h, i0, s)
  PROVE  JInv'
<1>. DEFINE fresh == [at |-> "lookup", host |-> h, id |-> i0, scope |-> s, outcome |-> "none"]
<1>1. /\ UNCHANGED <<disk, safe, records, sent, applied, faults>>
      /\ call' = [call EXCEPT ![c] = fresh]
      /\ call[c].at = "idle"
  BY DEF Begin
<1>2. fresh \in Call
  BY DEF Call, Points, Outcomes
<1>3. /\ call' \in [Calls -> Call]
      /\ call'[c].at = "lookup"
      /\ \A d \in Calls : d # c => call'[d] = call[d]
  BY <1>1, <1>2 DEF JInv, JournalTypeOK
<1>4. c \notin applied /\ \A i \in OpIDs : c \notin sent[i]
  BY <1>1 DEF JInv, JournalTypeOK, SentByCaller, Call
<1>5. applied \subseteq Calls /\ \A i \in OpIDs : sent[i] \subseteq Calls
  BY DEF JInv, JournalTypeOK
<1>6. JournalTypeOK'
  BY <1>1, <1>3 DEF JInv, JournalTypeOK
<1>7. AtMostOnce' /\ SentIsDurable' /\ SafeTrails'
  BY <1>1 DEF JInv, AtMostOnce, SentIsDurable, SafeTrails
<1>8. RecordIsTrue'
  BY <1>1, <1>3, <1>4, <1>5 DEF JInv, RecordIsTrue
<1>9. SentByCaller'
  BY <1>1, <1>3, <1>4, <1>5 DEF JInv, SentByCaller
<1>10. \A d \in Calls, i \in OpIDs : Owns(d, i)' => d # c /\ Owns(d, i)
  BY <1>3 DEF Owns
<1>11. \A d \in Calls, i \in OpIDs : d # c /\ OwnerKnows(d, i) => OwnerKnows(d, i)'
  BY <1>1, <1>3 DEF OwnerKnows
<1>12. OneOwner'
  BY <1>10, <1>11 DEF JInv, OneOwner
<1>13. FailedIsFinal'
  <2>. SUFFICES ASSUME NEW e \in Calls, NEW d \in Calls, NEW i \in OpIDs, i = call'[e].id,
                       call'[e].at = "returned", call'[e].outcome = "failed"
                PROVE  /\ safe[i].status # "absent"
                       /\ Owns(d, i)' => call'[d].at = "renamed"
    BY <1>1, <1>3 DEF FailedIsFinal, Owns, Call
  <2>1. e # c /\ call'[e] = call[e]
    BY <1>3
  <2>2. safe[i].status # "absent" /\ (Owns(d, i) => call[d].at = "renamed")
    BY <2>1 DEF JInv, FailedIsFinal
  <2>. QED
    BY <1>3, <1>10, <2>2
<1>14. AnswerIsTrue'
  <2>. SUFFICES ASSUME NEW e \in Calls, call'[e].at = "returned"
                PROVE  /\ call'[e].outcome = "completed" =>
                            \E d \in sent[call'[e].id] : d \in applied /\ call'[d].scope = call'[e].scope
                       /\ call'[e].outcome = "failed" => sent[call'[e].id] = {}
    BY <1>1 DEF AnswerIsTrue
  <2>1. call'[e] = call[e] /\ call[e].id \in OpIDs
    BY <1>3 DEF JInv, JournalTypeOK, Call
  <2>2. \A d \in sent[call[e].id] : call'[d] = call[d]
    BY <1>3, <1>4, <1>5, <2>1
  <2>. QED
    BY <2>1, <2>2 DEF JInv, AnswerIsTrue
<1>. QED
  BY <1>6, <1>7, <1>8, <1>9, <1>12, <1>13, <1>14 DEF JInv

----------------------------------------------------------------------------
(* Some open calls, those of the set K, are cut off by a crash. *)
Cut(K) ==
  call' = [c \in Calls |-> IF c \in K THEN [call[c] EXCEPT !.at = "dead"] ELSE call[c]]

(* What a crash leaves of the calls. *)
LEMMA CutCalls ==
  ASSUME call \in [Calls -> Call], NEW K, Cut(K)
  PROVE  /\ call' \in [Calls -> Call]
         /\ \A c \in Calls : /\ call'[c].id = call[c].id
                             /\ call'[c].scope = call[c].scope
                             /\ call'[c].outcome = call[c].outcome
                             /\ c \in K => call'[c].at = "dead"
                             /\ c \notin K => call'[c].at = call[c].at
<1>1. \A c \in Calls : [call[c] EXCEPT !.at = "dead"] \in Call
  BY DEF Call, Points
<1>. QED
  BY <1>1 DEF Cut, Call

(* A crash keeps the invariant when every owner it spares still knows its  *)
(* record, and the records that may have been rolled back still tell the   *)
(* truth.                                                                  *)
LEMMA CutKeepsJInv ==
  ASSUME JInv, JournalTypeOK', NEW K, Cut(K), UNCHANGED <<sent, applied>>,
         \/ UNCHANGED <<disk, safe>>
         \/ /\ safe' = disk'
            /\ \A id \in OpIDs : disk'[id] \in {disk[id], safe[id]}
            /\ \A c \in Calls : Open(c) => c \in K
  PROVE  JInv'
<1>1. /\ \A c \in Calls : /\ call'[c].id = call[c].id
                          /\ call'[c].scope = call[c].scope
                          /\ call'[c].outcome = call[c].outcome
                          /\ c \in K => call'[c].at = "dead"
                          /\ c \notin K => call'[c].at = call[c].at
  BY CutCalls DEF JInv, JournalTypeOK
<1>2. applied \subseteq Calls /\ \A i \in OpIDs : sent[i] \subseteq Calls
  BY DEF JInv, JournalTypeOK
<1>3. \A i \in OpIDs : safe[i].status # "absent" => safe'[i].status # "absent"
  BY DEF JInv, SafeTrails
<1>4. AtMostOnce' /\ SentIsDurable'
  BY <1>3 DEF JInv, AtMostOnce, SentIsDurable
<1>5. SafeTrails'
  BY DEF JInv, SafeTrails, Terminal
<1>6. RecordIsTrue'
  <2>. SUFFICES ASSUME NEW i \in OpIDs
                PROVE  /\ disk'[i].status = "failed" => sent[i] = {}
                       /\ disk'[i].status = "completed" => \E c \in sent[i] : c \in applied
                       /\ \A c \in sent[i] : call[c].scope = disk'[i].scope
    BY <1>1, <1>2 DEF RecordIsTrue
  <2>1. disk'[i] \in {disk[i], safe[i]}
    OBVIOUS
  <2>2. safe[i].status \in Terminal => safe[i] = disk[i]
    BY DEF JInv, SafeTrails
  <2>3. sent[i] # {} => safe[i].scope = disk[i].scope
    BY DEF JInv, SafeTrails, SentIsDurable
  <2>. QED
    BY <2>1, <2>2, <2>3 DEF JInv, RecordIsTrue, Terminal
<1>7. SentByCaller'
  BY <1>1, <1>2 DEF JInv, SentByCaller
<1>8. \A c \in Calls, i \in OpIDs : Owns(c, i)' => c \notin K /\ Owns(c, i)
  BY <1>1 DEF Owns
<1>9. \A c \in Calls, i \in OpIDs : Owns(c, i) => Open(c)
  BY DEF Owns, Open
<1>10. OneOwner'
  <2>. SUFFICES ASSUME NEW d \in Calls, NEW i \in OpIDs, Owns(d, i)'
                PROVE  OwnerKnows(d, i)' /\ \A e \in Calls : Owns(e, i)' => e = d
    BY DEF OneOwner
  <2>1. OwnerKnows(d, i) /\ \A e \in Calls : Owns(e, i) => e = d
    BY <1>8 DEF JInv, OneOwner
  <2>2. UNCHANGED <<disk, safe>> /\ d \notin K
    BY <1>8, <1>9
  <2>3. OwnerKnows(d, i)'
    BY <1>1, <2>1, <2>2 DEF OwnerKnows
  <2>. QED
    BY <1>8, <2>1, <2>3
<1>11. FailedIsFinal'
  <2>. SUFFICES ASSUME NEW e \in Calls, NEW d \in Calls, NEW i \in OpIDs, i = call[e].id,
                       call'[e].at = "returned", call'[e].outcome = "failed"
                PROVE  /\ safe'[i].status # "absent"
                       /\ Owns(d, i)' => call'[d].at = "renamed"
    BY <1>1 DEF FailedIsFinal, Owns, JInv, JournalTypeOK, Call
  <2>1. call[e].at = "returned" /\ call[e].outcome = "failed"
    BY <1>1
  <2>2. safe[i].status # "absent" /\ (Owns(d, i) => call[d].at = "renamed")
    BY <2>1 DEF JInv, FailedIsFinal
  <2>. QED
    BY <1>1, <1>3, <1>8, <2>2
<1>12. AnswerIsTrue'
  <2>. SUFFICES ASSUME NEW e \in Calls, call'[e].at = "returned"
                PROVE  /\ call[e].outcome = "completed" =>
                            \E d \in sent[call[e].id] : d \in applied /\ call'[d].scope = call[e].scope
                       /\ call[e].outcome = "failed" => sent[call[e].id] = {}
    BY <1>1 DEF AnswerIsTrue
  <2>1. call[e].at = "returned" /\ call[e].id \in OpIDs
    BY <1>1, Zenon DEF JInv, JournalTypeOK, Call
  <2>. QED
    BY <1>1, <1>2, <2>1 DEF JInv, AnswerIsTrue
<1>. QED
  BY <1>4, <1>5, <1>6, <1>7, <1>10, <1>11, <1>12 DEF JInv

(* A process crash cuts off the calls of one host. *)
LEMMA HostCrashKeepsJInv ==
  ASSUME JInv, NEW h \in Hosts, HostCrash(h)
  PROVE  JInv'
<1>. DEFINE K == {c \in Calls : call[c].host = h /\ Open(c)}
<1>1. Cut(K)
  BY DEF HostCrash, Cut
<1>2. call' \in [Calls -> Call]
  BY <1>1, CutCalls DEF JInv, JournalTypeOK
<1>3. UNCHANGED <<disk, safe>> /\ UNCHANGED <<sent, applied>>
  BY DEF HostCrash
<1>4. JournalTypeOK'
  BY <1>2, <1>3 DEF HostCrash, Fault, JInv, JournalTypeOK
<1>. QED
  BY <1>1, <1>3, <1>4, CutKeepsJInv

(* A power loss cuts off every call and may roll records back. *)
LEMMA PowerLossKeepsJInv ==
  ASSUME JInv, PowerLoss
  PROVE  JInv'
<1>. DEFINE K == {c \in Calls : Open(c)}
<1>1. Cut(K)
  BY DEF PowerLoss, Cut
<1>2. call' \in [Calls -> Call]
  BY <1>1, CutCalls DEF JInv, JournalTypeOK
<1>3. /\ UNCHANGED <<sent, applied>>
      /\ safe' = disk'
      /\ \A id \in OpIDs : disk'[id] \in {disk[id], safe[id]}
      /\ \A c \in Calls : Open(c) => c \in K
  BY DEF PowerLoss
<1>4. disk' \in [OpIDs -> Record]
  BY <1>3 DEF PowerLoss, JInv, JournalTypeOK
<1>5. JournalTypeOK'
  BY <1>2, <1>3, <1>4 DEF PowerLoss, Fault, JInv, JournalTypeOK
<1>. QED
  BY <1>1, <1>3, <1>5, CutKeepsJInv

(* The first state: no record, no call, no request. *)
LEMMA InitEstablishesJInv ==
  ASSUME JournalInit
  PROVE  JInv
<1>1. PICK s \in Scopes : disk = [id \in OpIDs |-> [status |-> "absent", scope |-> s]]
  BY DEF JournalInit
<1>2. PICK h \in Hosts, i \in OpIDs, t \in Scopes :
        call = [c \in Calls |-> [at |-> "idle", host |-> h, id |-> i, scope |-> t, outcome |-> "none"]]
  BY DEF JournalInit
<1>3. JournalTypeOK
  BY <1>1, <1>2 DEF JournalInit, JournalTypeOK, Record, Statuses, Call, Points, Outcomes
<1>4. (\A c \in Calls : call[c].at = "idle") /\ \A id \in OpIDs : disk[id].status = "absent" /\ sent[id] = {}
  BY <1>1, <1>2 DEF JournalInit
<1>5. AtMostOnce /\ SentIsDurable /\ RecordIsTrue /\ AnswerIsTrue
  BY <1>4 DEF AtMostOnce, SentIsDurable, RecordIsTrue, AnswerIsTrue
<1>6. OneOwner /\ SafeTrails /\ SentByCaller /\ FailedIsFinal
  BY <1>4 DEF JournalInit, OneOwner, Owns, SafeTrails, SentByCaller, FailedIsFinal, Terminal
<1>. QED
  BY <1>3, <1>5, <1>6 DEF JInv

(* Every step keeps the invariant. *)
LEMMA JInvIsInductive ==
  ASSUME JInv, [JournalNext]_journalVars
  PROVE  JInv'
<1>1. CASE UNCHANGED journalVars
  <2>1. JournalTypeOK' /\ AtMostOnce' /\ SentIsDurable' /\ RecordIsTrue' /\ AnswerIsTrue'
    BY <1>1 DEF journalVars, JInv, JournalTypeOK, AtMostOnce, SentIsDurable, RecordIsTrue, AnswerIsTrue
  <2>2. OneOwner' /\ FailedIsFinal'
    BY <1>1 DEF journalVars, JInv, OneOwner, Owns, OwnerKnows, FailedIsFinal
  <2>3. SafeTrails' /\ SentByCaller'
    BY <1>1 DEF journalVars, JInv, SafeTrails, SentByCaller
  <2>. QED
    BY <2>1, <2>2, <2>3 DEF JInv
<1>2. ASSUME NEW c \in Calls, CallStep(c) PROVE JInv'
  <2>1. CASE \E h \in Hosts, id \in OpIDs, s \in Scopes : Begin(c, h, id, s)
    BY <2>1, BeginKeepsJInv
  <2>2. CASE Lookup(c) \/ StartLoses(c) \/ Claim(c) \/ SyncClaim(c) \/ SyncClaimFails(c)
    BY <2>2, LookupKeepsJInv, StartLosesKeepsJInv, ClaimKeepsJInv, SyncClaimKeepsJInv, SyncClaimFailsKeepsJInv
  <2>3. CASE PreDispatchError(c) \/ Send(c) \/ AnswerOK(c) \/ AnswerBad(c)
    BY <2>3, PreDispatchErrorKeepsJInv, SendKeepsJInv, AnswerOKKeepsJInv, AnswerBadKeepsJInv
  <2>4. CASE Finish(c) \/ FinishFails(c) \/ SyncFinish(c) \/ SyncFinishFails(c)
    BY <2>4, FinishKeepsJInv, FinishFailsKeepsJInv, SyncFinishKeepsJInv, SyncFinishFailsKeepsJInv
  <2>. QED
    BY <1>2, <2>1, <2>2, <2>3, <2>4 DEF CallStep
<1>3. ASSUME NEW c \in Calls, PluginApplies(c) PROVE JInv'
  BY <1>3, PluginAppliesKeepsJInv
<1>4. ASSUME NEW h \in Hosts, HostCrash(h) PROVE JInv'
  BY <1>4, HostCrashKeepsJInv
<1>5. CASE PowerLoss
  BY <1>5, PowerLossKeepsJInv
<1>. QED
  BY <1>1, <1>2, <1>3, <1>4, <1>5 DEF JournalNext

(* The inductive invariant holds in every behaviour. *)
THEOREM JournalInvariant == JournalSpec => []JInv
<1>1. JournalInit => JInv
  BY InitEstablishesJInv
<1>2. JInv /\ [JournalNext]_journalVars => JInv'
  BY JInvIsInductive
<1>. QED
  BY <1>1, <1>2, PTL DEF JournalSpec

(* The plugin gets at most one request per operation id, whatever          *)
(* processes, calls, crashes and power losses there are                    *)
(* (CallWithIdempotency over FileJournal.Start).                           *)
THEOREM OncePerOperation == JournalSpec => []AtMostOnce
<1>1. JInv => AtMostOnce
  BY DEF JInv
<1>. QED
  BY <1>1, JournalInvariant, PTL

(* An operation the plugin may have heard of has a durable record.         *)
THEOREM RequestsAreDurable == JournalSpec => []SentIsDurable
<1>1. JInv => SentIsDurable
  BY DEF JInv
<1>. QED
  BY <1>1, JournalInvariant, PTL

(* A terminal record says what happened to the operation.                  *)
THEOREM RecordsAreTrue == JournalSpec => []RecordIsTrue
<1>1. JInv => RecordIsTrue
  BY DEF JInv
<1>. QED
  BY <1>1, JournalInvariant, PTL

(* A caller that was told "completed" or "failed" was told the truth, and  *)
(* nothing that happens later makes it false.                              *)
THEOREM AnswersAreTrue == JournalSpec => []AnswerIsTrue
<1>1. JInv => AnswerIsTrue
  BY DEF JInv
<1>. QED
  BY <1>1, JournalInvariant, PTL
=============================================================================
