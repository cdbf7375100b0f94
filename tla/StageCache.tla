---------------------------- MODULE StageCache -----------------------------
(***************************************************************************)
(* Pipeline runs that share a cache directory: StagingRunner               *)
(* (internal/executor/materialize.go) around CachingRunner                 *)
(* (internal/executor/caching.go) around the executor, over cache.Store    *)
(* (internal/cache/store.go).                                              *)
(*                                                                         *)
(* Each build is a process with its own working directory and its own      *)
(* Store; the lock of a Store orders the stages of one build, while the    *)
(* builds interleave at every file operation.  A blob file is named after  *)
(* the content it should hold, so a content stands for its own digest.  A  *)
(* stage has one output, and at most one input.  Running a stage twice may *)
(* give different contents.                                                *)
(***************************************************************************)
EXTENDS Integers, FiniteSets

CONSTANTS Builds,        \* processes running the pipeline
          Stages,        \* its stages
          Contents,      \* what a stage's output file may hold
          Producer,      \* the stage that makes a stage's input, or NoStage
          Definition,    \* what the cache key takes from a stage: not its name
          Path,          \* where a stage's output is in the working directory
          Tainted,       \* the stages that declare secrets
          NoStage, NoContent,
          MaxFaults      \* bound: corrupted or lost files, and killed builds

ASSUME CacheAssumption ==
  /\ Producer \in [Stages -> Stages \cup {NoStage}] /\ NoStage \notin Stages
  /\ NoContent \notin Contents
  /\ Tainted \subseteq Stages
  /\ MaxFaults \in Nat

VARIABLES blobs,         \* blobs/sha256: "good", "bad" or "absent" per digest
          records,       \* records: the digest recorded under a stage key
          root,          \* the output files in each build's working directory
          outputs,       \* CachingRunner.outputs
          task,          \* where each stage of each build is
          produced,      \* history: <<key, content>> for every run of a stage
          faults         \* faults that may still happen

cacheVars == <<blobs, records, root, outputs, task, produced, faults>>

Paths == {Path[s] : s \in Stages}
Keys == {Definition[s] : s \in Stages} \X (Contents \cup {NoContent})

(* step is where Run is, content the digest it works on, cause why it      *)
(* failed.                                                                 *)
Step(t, step) == [t EXCEPT !.step = step]
Waiting == [step |-> "wait", content |-> NoContent, cause |-> "none"]
Succeeded == {"hit", "done"}
Over == Succeeded \cup {"failed", "killed"}
Locking == {"replace", "install"}

(* cache.StageKey: the definition without its name, and the input digests *)
Key(b, s) ==
  <<Definition[s], IF Producer[s] = NoStage THEN NoContent ELSE outputs[b][Producer[s]]>>

(* No other stage of the build is inside the locked part of Put. *)
Unlocked(b, s) == \A other \in Stages \ {s} : task[b][other].step \notin Locking

At(b, s, step) == task[b][s].step = step /\ Unlocked(b, s)

Go(b, s, t) == task' = [task EXCEPT ![b][s] = t]

Fail(b, s, cause) == Go(b, s, [task[b][s] EXCEPT !.step = "failed", !.cause = cause])

----------------------------------------------------------------------------
CacheInit ==
  /\ blobs = [c \in Contents |-> "absent"]
  /\ records = [k \in Keys |-> NoContent]
  /\ root = [b \in Builds |-> [p \in Paths |-> NoContent]]
  /\ outputs = [b \in Builds |-> [s \in Stages |-> NoContent]]
  /\ task = [b \in Builds |-> [s \in Stages |-> Waiting]]
  /\ produced = {}
  /\ faults = MaxFaults

(* The scheduler calls the runner once the producer has succeeded. *)
Start(b, s) ==
  /\ At(b, s, "wait")
  /\ Producer[s] # NoStage => task[b][Producer[s]].step \in Succeeded
  /\ Go(b, s, Step(task[b][s], IF Producer[s] = NoStage THEN "lookup" ELSE "stage"))
  /\ UNCHANGED <<blobs, records, root, outputs, produced, faults>>

(* StagingRunner.materialize: the copy is hashed before it is installed. *)
MaterializeUnverified(b, s) ==
  /\ At(b, s, "stage")
  /\ LET published == outputs[b][Producer[s]]
     IN  IF published = NoContent THEN Fail(b, s, "unpublished")
         ELSE IF blobs[published] # "absent"
           THEN Go(b, s, [task[b][s] EXCEPT !.step = "lookup", !.content =
                            IF blobs[published] = "good" THEN published ELSE NoContent])
         ELSE Fail(b, s, "artifact")
  /\ UNCHANGED <<blobs, records, root, outputs, produced, faults>>

Materialize(b, s) ==
  /\ At(b, s, "stage")
  /\ LET published == outputs[b][Producer[s]]
     IN  IF published = NoContent THEN Fail(b, s, "unpublished")
         ELSE IF blobs[published] = "good"
           THEN Go(b, s, [task[b][s] EXCEPT !.step = "lookup", !.content = published])
         ELSE Fail(b, s, "artifact")
  /\ UNCHANGED <<blobs, records, root, outputs, produced, faults>>

(* CachingRunner.Run and validRecord: the record is read ... *)
Lookup(b, s) ==
  /\ At(b, s, "lookup")
  /\ Go(b, s, IF records[Key(b, s)] = NoContent
                THEN Step(task[b][s], "run")
                ELSE [task[b][s] EXCEPT !.step = "verify", !.content = records[Key(b, s)]])
  /\ UNCHANGED <<blobs, records, root, outputs, produced, faults>>

(* ... and its blob is hashed again, before the stage is skipped. *)
VerifyRecord(b, s) ==
  /\ At(b, s, "verify")
  /\ IF blobs[task[b][s].content] = "good"
       THEN /\ outputs' = [outputs EXCEPT ![b][s] = task[b][s].content]
            /\ Go(b, s, Step(task[b][s], "hit"))
       ELSE Go(b, s, Step(task[b][s], "run")) /\ UNCHANGED outputs
  /\ UNCHANGED <<blobs, records, root, produced, faults>>

(* inner.Run writes the output file; a tainted stage stores nothing. *)
Execute(b, s, c) ==
  /\ task[b][s].step = "run"
  /\ root' = [root EXCEPT ![b][Path[s]] = c]
  /\ produced' = produced \cup {<<Key(b, s), c>>}
  /\ Go(b, s, Step(task[b][s], IF s \in Tainted THEN "done" ELSE "open"))
  /\ UNCHANGED <<blobs, records, outputs, faults>>

ExecuteFails(b, s) ==
  /\ task[b][s].step = "run"
  /\ Fail(b, s, "runner")
  /\ UNCHANGED <<blobs, records, root, outputs, produced, faults>>

(* putOutputs opens the output file and Put copies it, hashing it. *)
OpenOutput(b, s) ==
  /\ task[b][s].step = "open"
  /\ Go(b, s, [task[b][s] EXCEPT !.step = "put", !.content = root[b][Path[s]]])
  /\ UNCHANGED <<blobs, records, root, outputs, produced, faults>>

(* Put, under the lock: an intact copy is kept, a corrupt one replaced. *)
PutStat(b, s) ==
  /\ At(b, s, "put")
  /\ Go(b, s, Step(task[b][s], CASE blobs[task[b][s].content] = "good" -> "record"
                                 [] blobs[task[b][s].content] = "bad" -> "replace"
                                 [] blobs[task[b][s].content] = "absent" -> "install"))
  /\ UNCHANGED <<blobs, records, root, outputs, produced, faults>>

PutRemove(b, s) ==
  /\ At(b, s, "replace")
  /\ IF blobs[task[b][s].content] = "absent"
       THEN Fail(b, s, "replace") /\ UNCHANGED blobs
       ELSE /\ blobs' = [blobs EXCEPT ![task[b][s].content] = "absent"]
            /\ Go(b, s, Step(task[b][s], "install"))
  /\ UNCHANGED <<records, root, outputs, produced, faults>>

PutRename(b, s) ==
  /\ At(b, s, "install")
  /\ blobs' = [blobs EXCEPT ![task[b][s].content] = "good"]
  /\ Go(b, s, Step(task[b][s], "record"))
  /\ UNCHANGED <<records, root, outputs, produced, faults>>

(* PutRecord, then setOutputs. *)
RecordByDefinition(b, s) ==
  /\ At(b, s, "record")
  /\ records' = [k \in Keys |->
                   IF k[1] = Definition[s] THEN task[b][s].content ELSE records[k]]
  /\ outputs' = [outputs EXCEPT ![b][s] = task[b][s].content]
  /\ Go(b, s, Step(task[b][s], "done"))
  /\ UNCHANGED <<blobs, root, produced, faults>>

PutRecord(b, s) ==
  /\ At(b, s, "record")
  /\ records' = [records EXCEPT ![Key(b, s)] = task[b][s].content]
  /\ outputs' = [outputs EXCEPT ![b][s] = task[b][s].content]
  /\ Go(b, s, Step(task[b][s], "done"))
  /\ UNCHANGED <<blobs, root, produced, faults>>

(***************************************************************************)
(* Faults: a blob is damaged; GC of another process, or a power loss       *)
(* before its directory entry is durable, removes one; a record that was   *)
(* never synced is lost or torn, which GetRecord's caller takes for a      *)
(* miss; a build is killed.                                                *)
(***************************************************************************)
Fault == faults > 0 /\ faults' = faults - 1

Corrupt(c) ==
  /\ Fault
  /\ blobs[c] = "good"
  /\ blobs' = [blobs EXCEPT ![c] = "bad"]
  /\ UNCHANGED <<records, root, outputs, task, produced>>

LoseBlob(c) ==
  /\ Fault
  /\ blobs[c] # "absent"
  /\ blobs' = [blobs EXCEPT ![c] = "absent"]
  /\ UNCHANGED <<records, root, outputs, task, produced>>

LoseRecord(k) ==
  /\ Fault
  /\ records[k] # NoContent
  /\ records' = [records EXCEPT ![k] = NoContent]
  /\ UNCHANGED <<blobs, root, outputs, task, produced>>

Kill(b) ==
  /\ Fault
  /\ \E s \in Stages : task[b][s].step \notin Over
  /\ task' = [task EXCEPT ![b] = [s \in Stages |->
                IF task[b][s].step \in Over THEN task[b][s] ELSE Step(task[b][s], "killed")]]
  /\ UNCHANGED <<blobs, records, root, outputs, produced>>

Task(b, s) ==
  \/ Start(b, s) \/ Materialize(b, s) \/ Lookup(b, s) \/ VerifyRecord(b, s)
  \/ ExecuteFails(b, s) \/ OpenOutput(b, s) \/ PutStat(b, s) \/ PutRemove(b, s)
  \/ PutRename(b, s) \/ PutRecord(b, s)
  \/ \E c \in Contents : Execute(b, s, c)

CacheNext ==
  \/ \E b \in Builds : Kill(b) \/ \E s \in Stages : Task(b, s)
  \/ \E c \in Contents : Corrupt(c) \/ LoseBlob(c)
  \/ \E k \in Keys : LoseRecord(k)

CacheSpec == CacheInit /\ [][CacheNext]_cacheVars

----------------------------------------------------------------------------
(* Type invariant *)
CacheTypeOK ==
  /\ blobs \in [Contents -> {"good", "bad", "absent"}]
  /\ records \in [Keys -> Contents \cup {NoContent}]
  /\ root \in [Builds -> [Paths -> Contents \cup {NoContent}]]
  /\ outputs \in [Builds -> [Stages -> Contents \cup {NoContent}]]
  /\ \A b \in Builds, s \in Stages :
       /\ task[b][s].step \in Over \cup Locking \cup
            {"wait", "stage", "lookup", "verify", "run", "open", "put", "record"}
       /\ task[b][s].step \in {"verify", "put", "record"} \cup Locking =>
            task[b][s].content \in Contents
  /\ produced \subseteq Keys \X Contents
  /\ faults \in 0 .. MaxFaults

(***************************************************************************)
(* "A stage that does run has its declared outputs stored and recorded     *)
(* under that key for later reuse": what is recorded under a key is what   *)
(* some run of a stage with that key left in its output file, whichever    *)
(* builds wrote the record and whatever happened to the blobs.             *)
(***************************************************************************)
RecordIsTrue == \A k \in Keys : records[k] # NoContent => <<k, records[k]>> \in produced

(***************************************************************************)
(* A build only passes on what stages made: an output it publishes, run or *)
(* replayed, was made under the key the build computes for the stage, and  *)
(* the file materialized for a consumer is its producer's output.          *)
(***************************************************************************)
PublishedIsMade ==
  \A b \in Builds, s \in Stages :
    /\ outputs[b][s] # NoContent => <<Key(b, s), outputs[b][s]>> \in produced
    /\ Producer[s] # NoStage /\ task[b][s].step = "lookup" =>
         task[b][s].content = outputs[b][Producer[s]]

=============================================================================
