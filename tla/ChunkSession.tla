--------------------------- MODULE ChunkSession ----------------------------
(***************************************************************************)
(* Resumable ingestion of a large object (cache.ChunkSession in            *)
(* internal/cache/content.go): the source is cut into chunks, each chunk   *)
(* is a blob of the store, and a session record says how far the ingestion *)
(* has come.                                                               *)
(*                                                                         *)
(* A chunk is the interval <<first, last>> of source bytes it holds.       *)
(* Clients open the same session id, one after the other or at the same    *)
(* time, and read the source from Offset, as the package asks them to.     *)
(***************************************************************************)
EXTENDS Integers, Sequences, SequencesExt

CONSTANTS Clients,       \* processes that ingest the object
          Sources,       \* [len, cuts]: bytes in a source, and whether a
                         \* read of it may end before its last byte
          ChunkSize,     \* ChunkSession.record.ChunkSize
          MaxMishaps     \* bound: failed writes, killed clients, power losses

ASSUME ChunkAssumption ==
  /\ \A s \in Sources : s.len \in Nat /\ s.cuts \in BOOLEAN
  /\ ChunkSize \in Nat \ {0} /\ MaxMishaps \in Nat

VARIABLES source,        \* what is ingested
          client,        \* the open session of each client
          session,       \* the session record, or Absent
          synced,        \* the session record a power loss falls back to
          stored,        \* the chunks in the store
          manifests,     \* the chunk lists Finalize has stored
          mishaps

chunkVars == <<source, client, session, synced, stored, manifests, mishaps>>

Absent == [chunks |-> <<>>, size |-> -1]
Fresh == [chunks |-> <<>>, size |-> 0]
Closed == [step |-> "closed", record |-> Fresh, chunk |-> <<0, 0>>]

ClientAt(c, step) == client[c].step = step

Move(c, step) == client' = [client EXCEPT ![c].step = step]

Mishap == mishaps > 0 /\ mishaps' = mishaps - 1

ChunkInit ==
  /\ source \in Sources
  /\ client = [c \in Clients |-> Closed]
  /\ session = Absent
  /\ synced = Absent
  /\ stored = {}
  /\ manifests = {}
  /\ mishaps = MaxMishaps

(* OpenChunkSession: resume from the record, or write an empty one. *)
OpenChunkSession(c) ==
  /\ ClientAt(c, "closed")
  /\ session # Absent => Range(session.chunks) \subseteq stored
  /\ session' = IF session = Absent THEN Fresh ELSE session
  /\ client' = [client EXCEPT ![c] = [Closed EXCEPT !.step = "open", !.record = session']]
  /\ UNCHANGED <<source, synced, stored, manifests, mishaps>>

(***************************************************************************)
(* Append reads from Offset: a full chunk, what is left before the end of  *)
(* the source, or, when a read fails, nothing it keeps.  A source that     *)
(* ends early looks like the end of the source.                            *)
(***************************************************************************)
ReadPastEnd(c) ==
  /\ ClientAt(c, "open")
  /\ client' = [client EXCEPT ![c].step = "read",
                              ![c].chunk = <<client[c].record.size + 1,
                                             client[c].record.size + ChunkSize>>]
  /\ UNCHANGED <<source, session, synced, stored, manifests, mishaps>>

ReadChunk(c) ==
  LET size == client[c].record.size
  IN  /\ ClientAt(c, "open")
      /\ \E n \in 1 .. ChunkSize :
           /\ size + n <= source.len
           /\ n = ChunkSize \/ size + n = source.len \/ source.cuts
           /\ client' = [client EXCEPT ![c].step = "read", ![c].chunk = <<size + 1, size + n>>]
      /\ UNCHANGED <<source, session, synced, stored, manifests, mishaps>>

KeepFailedRead(c) ==
  /\ ClientAt(c, "open")
  /\ Mishap
  /\ client[c].record.size < source.len
  /\ client' = [client EXCEPT ![c].step = "read",
                              ![c].chunk = <<client[c].record.size + 1, client[c].record.size + 1>>]
  /\ UNCHANGED <<source, session, synced, stored, manifests>>

ReadFails(c) ==
  /\ ClientAt(c, "open")
  /\ Mishap
  /\ client' = [client EXCEPT ![c] = Closed]
  /\ UNCHANGED <<source, session, synced, stored, manifests>>

(* checkpoint: the chunk is stored first ... *)
PutChunk(c) ==
  /\ ClientAt(c, "read")
  /\ stored' = stored \cup {client[c].chunk}
  /\ Move(c, "put")
  /\ UNCHANGED <<source, session, synced, manifests, mishaps>>

Grown(r, chunk) == [chunks |-> Append(r.chunks, chunk), size |-> chunk[2]]

(* ... then the record; if that fails the session stays as it was. *)
PutSession(c) ==
  /\ ClientAt(c, "put")
  /\ session' = Grown(client[c].record, client[c].chunk)
  /\ client' = [client EXCEPT ![c].step = "open", ![c].record = session']
  /\ UNCHANGED <<source, synced, stored, manifests, mishaps>>


PutSessionFails(c) ==
  /\ ClientAt(c, "put")
  /\ Mishap
  /\ Move(c, "open")
  /\ UNCHANGED <<source, session, synced, stored, manifests>>

(* Finalize, once the whole source is in: the manifest is stored, then the *)
(* session record deleted.                                                 *)
PutManifest(c) ==
  /\ ClientAt(c, "open")
  /\ client[c].record.size = source.len
  /\ manifests' = manifests \cup {client[c].record.chunks}
  /\ Move(c, "final")
  /\ UNCHANGED <<source, session, synced, stored, mishaps>>

DeleteSession(c) ==
  /\ ClientAt(c, "final")
  /\ session' = Absent
  /\ client' = [client EXCEPT ![c] = Closed]
  /\ UNCHANGED <<source, synced, stored, manifests, mishaps>>

(* Faults: a client is killed; the machine loses power. *)
ClientKilled(c) ==
  /\ ~ClientAt(c, "closed")
  /\ Mishap
  /\ client' = [client EXCEPT ![c] = Closed]
  /\ UNCHANGED <<source, session, synced, stored, manifests>>

(* The system writes the record back: PutRecord itself syncs nothing. *)
WriteBack ==
  /\ synced # session
  /\ synced' = session
  /\ UNCHANGED <<source, client, session, stored, manifests, mishaps>>

PowerLoss ==
  /\ Mishap
  /\ session' = synced
  /\ client' = [c \in Clients |-> Closed]
  /\ UNCHANGED <<source, synced, stored, manifests>>

ChunkNext ==
  \/ WriteBack \/ PowerLoss
  \/ \E c \in Clients :
       \/ OpenChunkSession(c) \/ ReadChunk(c) \/ ReadFails(c) \/ PutChunk(c) \/ PutSession(c)
       \/ PutSessionFails(c) \/ PutManifest(c) \/ DeleteSession(c) \/ ClientKilled(c)

ChunkSpec == ChunkInit /\ [][ChunkNext]_chunkVars

----------------------------------------------------------------------------
Intervals == {<<i, j>> : i, j \in 0 .. source.len}

(* The chunks follow each other without gap or overlap, up to size. *)
Tiles(chunks, size) ==
  /\ \A i \in DOMAIN chunks :
       chunks[i][1] = 1 + (IF i = 1 THEN 0 ELSE chunks[i - 1][2]) /\ chunks[i][1] <= chunks[i][2]
  /\ size = IF chunks = <<>> THEN 0 ELSE chunks[Len(chunks)][2]

(* Type invariant *)
ChunkTypeOK ==
  /\ \A c \in Clients :
       /\ client[c].step \in {"closed", "open", "read", "put", "final"}
       /\ client[c].record.size \in 0 .. source.len
       /\ client[c].chunk \in Intervals
  /\ session.size \in -1 .. source.len /\ synced.size \in -1 .. source.len
  /\ stored \subseteq Intervals
  /\ mishaps \in 0 .. MaxMishaps


(***************************************************************************)
(* "Only complete chunks are checkpointed, so ... chunk boundaries remain  *)
(* deterministic": all finished sessions on a source whose reads do not    *)
(* end early stored the same chunks, whatever failed in between.           *)
(***************************************************************************)
BoundariesAreDeterministic == ~source.cuts => \A one, two \in manifests : one = two
=============================================================================
