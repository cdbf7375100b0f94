----------------------------- MODULE MCStorage ------------------------------
(***************************************************************************)
(* The two users of the content-addressed store on small instances: stage  *)
(* results and chunk sessions.  They use other files of it; part says      *)
(* which of them moves.                                                    *)
(***************************************************************************)
EXTENDS StageCache, ChunkSession, TLC

VARIABLE part

(* A compile stage feeding the others *)
ChainProducer == [s \in Stages |-> IF s = "compile" THEN NoStage ELSE "compile"]
OwnDefinition == [s \in Stages |-> s]
OwnPath == [s \in Stages |-> s]

(* Independent stages that declare the same output path *)
TwinProducer == [s \in Stages |-> NoStage]
OnePath == [s \in Stages |-> "out"]

MCSources == {[len |-> 3, cuts |-> TRUE], [len |-> 5, cuts |-> FALSE]}
AnySource == [len |-> 3, cuts |-> TRUE]

MCInit ==
  /\ part \in {"results", "chunks"}
  /\ part = "results" => source = AnySource
  /\ CacheInit /\ ChunkInit

MCNext ==
  \/ part = "results" /\ CacheNext /\ UNCHANGED <<part, chunkVars>>
  \/ part = "chunks" /\ ChunkNext /\ UNCHANGED <<part, cacheVars>>

MCSpec == MCInit /\ [][MCNext]_<<part, cacheVars, chunkVars>>

Symmetry == Permutations(Builds) \cup Permutations(Contents) \cup Permutations(Clients)

(* The type invariant of both parts. *)
StorageTypeOK == CacheTypeOK /\ ChunkTypeOK
=============================================================================
