----------------------------- MODULE Checkpoint ----------------------------
(***************************************************************************)
(* Stage checkpoints (internal/pipeline/checkpoint.go): the                *)
(* CheckpointableRunner runs stages through a CheckpointManager, which     *)
(* keeps the current checkpoint of each stage in memory and starts a       *)
(* goroutine to write it to the CheckpointStore after each change.         *)
(*                                                                         *)
(* Every attempt of a stage creates a checkpoint with an id of its own,    *)
(* here <<stage, attempt>>; the goroutines share it with the runner, which *)
(* goes on changing it.  A pipeline is run by one process at a time, which *)
(* may be killed and followed by another.                                  *)
(***************************************************************************)
EXTENDS Integers

CONSTANTS CheckStages,   \* the stages of the pipeline
          MaxAttempts,   \* bound: calls of the runner for a stage
          MaxCrashes     \* bound: times the process is killed

ASSUME CheckpointAssumption == MaxAttempts \in Nat /\ MaxCrashes \in Nat

VARIABLES memory,        \* the Checkpoint values, by id
          current,       \* CheckpointManager.checkpoints: an id per stage
          at,            \* how far Run has come with a stage
          saves,         \* the saving goroutines
          files,         \* the checkpoint files, by id
          index,         \* CheckpointStore.checkpoints: the ids in it
          crashes,
          deleted,       \* CheckpointManager.Delete has been called
          tried,         \* history: how often a stage's runner was called
          done,          \* history: the attempts whose runner succeeded
          skipped        \* history: the stages Run did not run again

checkVars == <<memory, current, at, saves, files, index, crashes, deleted,
               tried, done, skipped>>

CheckpointIDs == CheckStages \X (1 .. MaxAttempts)
Data == [state : {"canceled", "failed", "succeeded"}, attempts : Nat]
Nothing == [state |-> "none", attempts |-> 0]

(* The goroutine that Create or Update starts: go cm.store.Save(cp) *)
Saving(id, by) == [id |-> id, by |-> by, step |-> "encode", data |-> Nothing]

(* What Run finds with Manager.Get *)
Found(s) == IF current[s] = 0 THEN Nothing ELSE memory[<<s, current[s]>>]

CheckInit ==
  /\ memory = [id \in CheckpointIDs |-> Nothing]
  /\ current = [s \in CheckStages |-> 0]
  /\ at = [s \in CheckStages |-> "idle"]
  /\ saves = {}
  /\ files = [id \in CheckpointIDs |-> Nothing]
  /\ index = {}
  /\ crashes = 0
  /\ deleted = FALSE
  /\ tried = [s \in CheckStages |-> 0]
  /\ done = {}
  /\ skipped = {}

----------------------------------------------------------------------------
(* Run returns at once for a stage that has succeeded. *)
Skip(s) ==
  /\ at[s] = "idle" /\ ~deleted /\ s \notin skipped
  /\ Found(s).state = "succeeded"
  /\ skipped' = skipped \cup {s}
  /\ UNCHANGED <<memory, current, at, saves, files, index, crashes, deleted, tried, done>>


(* Otherwise it creates a checkpoint, as canceled until the runner is done. *)
(* Checkpoints are retryable, so a failed one does not stop it.             *)
Create(s) ==
  /\ at[s] = "idle" /\ ~deleted
  /\ Found(s).state # "succeeded"
  /\ tried[s] < MaxAttempts
  /\ LET id == <<s, tried[s] + 1>> IN
       /\ memory' = [memory EXCEPT ![id] = [state |-> "canceled", attempts |-> 1]]
       /\ saves' = saves \cup {Saving(id, "create")}
  /\ current' = [current EXCEPT ![s] = tried[s] + 1]
  /\ at' = [at EXCEPT ![s] = "created"]
  /\ tried' = [tried EXCEPT ![s] = @ + 1]
  /\ UNCHANGED <<files, index, crashes, deleted, done, skipped>>

(* It looks the stage up again, finds what it has just created, adds one   *)
(* to the attempts it finds there, and calls the runner.                   *)
CountAttempt(s) ==
  /\ at[s] = "created"
  /\ memory' = [memory EXCEPT ![<<s, current[s]>>].attempts = Found(s).attempts + 1]
  /\ at' = [at EXCEPT ![s] = "running"]
  /\ UNCHANGED <<current, saves, files, index, crashes, deleted, tried, done, skipped>>

(* The runner returns; Run sets the state of the checkpoint ... *)
RunnerDone(s, state) ==
  /\ at[s] = "running"
  /\ memory' = [memory EXCEPT ![<<s, current[s]>>].state = state]
  /\ done' = IF state = "succeeded" THEN done \cup {<<s, current[s]>>} ELSE done
  /\ at' = [at EXCEPT ![s] = "returned"]
  /\ UNCHANGED <<current, saves, files, index, crashes, deleted, tried, skipped>>

(* ... and Update raises its attempt count and has it saved. *)
Update(s) ==
  /\ at[s] = "returned"
  /\ memory' = [memory EXCEPT ![<<s, current[s]>>].attempts = @ + 1]
  /\ saves' = saves \cup {Saving(<<s, current[s]>>, "update")}
  /\ at' = [at EXCEPT ![s] = "idle"]
  /\ UNCHANGED <<current, files, index, crashes, deleted, tried, done, skipped>>

----------------------------------------------------------------------------
(* Save encodes the checkpoint as it is now ... *)
Encode(w) ==
  /\ w.step = "encode"
  /\ saves' = (saves \ {w}) \cup {[w EXCEPT !.step = "write", !.data = memory[w.id]]}
  /\ UNCHANGED <<memory, current, at, files, index, crashes, deleted, tried, done, skipped>>

(* ... replaces the file ... *)
Write(w) ==
  /\ w.step = "write"
  /\ files' = [files EXCEPT ![w.id] = w.data]
  /\ saves' = (saves \ {w}) \cup {[w EXCEPT !.step = "index"]}
  /\ UNCHANGED <<memory, current, at, index, crashes, deleted, tried, done, skipped>>

(* ... or fails to, which nobody is told of ... *)
WriteFails(w) ==
  /\ w.step = "write"
  /\ saves' = saves \ {w}
  /\ UNCHANGED <<memory, current, at, files, index, crashes, deleted, tried, done, skipped>>

(* ... and enters the checkpoint in the index. *)
Index(w) ==
  /\ w.step = "index"
  /\ index' = index \cup {w.id}
  /\ saves' = saves \ {w}
  /\ UNCHANGED <<memory, current, at, files, crashes, deleted, tried, done, skipped>>

(* CheckpointManager.Delete, once nothing runs any more: the checkpoints   *)
(* that are in the index go.                                               *)
Delete ==
  /\ \A s \in CheckStages : at[s] = "idle"
  /\ ~deleted
  /\ deleted' = TRUE
  /\ files' = [id \in CheckpointIDs |-> IF id \in index THEN Nothing ELSE files[id]]
  /\ index' = {}
  /\ UNCHANGED <<memory, current, at, saves, crashes, tried, done, skipped>>

(* The process is killed; the next one loads the store's index from the    *)
(* files and makes a manager, whose checkpoints start out empty.           *)
Restart ==
  /\ crashes < MaxCrashes
  /\ crashes' = crashes + 1
  /\ index' = {id \in CheckpointIDs : files[id] # Nothing}
  /\ memory' = files
  /\ current' = [s \in CheckStages |-> 0]
  /\ at' = [s \in CheckStages |-> "idle"]
  /\ saves' = {}
  /\ skipped' = {}
  /\ UNCHANGED <<files, deleted, tried, done>>

CheckNext ==
  \/ \E s \in CheckStages : \/ Skip(s) \/ Create(s) \/ CountAttempt(s) \/ Update(s)
                       \/ \E state \in {"failed", "succeeded"} : RunnerDone(s, state)
  \/ \E w \in saves : Encode(w) \/ Write(w) \/ WriteFails(w) \/ Index(w)
  \/ Delete
  \/ Restart

CheckSpec == CheckInit /\ [][CheckNext]_checkVars

----------------------------------------------------------------------------
(* Type invariant *)
CheckTypeOK ==
  /\ \A id \in CheckpointIDs : {memory[id], files[id]} \subseteq Data \cup {Nothing}
  /\ \A s \in CheckStages : /\ current[s] \in 0 .. tried[s]
                       /\ at[s] # "idle" => Found(s) \in Data
  /\ \A w \in saves : w.id \in CheckpointIDs /\ w.by \in {"create", "update"}
  /\ index \subseteq CheckpointIDs
  /\ crashes \in 0 .. MaxCrashes

=============================================================================
