\* Two builds of three stages and two ingesting clients, two faults each.
SPECIFICATION MCSpec
CONSTANTS
  Builds = {b1, b2}
  Stages = {"compile", "link", "sign"}
  Contents = {c1, c2}
  Producer <- ChainProducer
  Definition <- OwnDefinition
  Path <- OwnPath
  Tainted = {"sign"}
  NoStage = NoStage
  NoContent = NoContent
  MaxFaults = 2
  Clients = {i1, i2}
  Sources <- MCSources
  ChunkSize = 2
  MaxMishaps = 2
SYMMETRY Symmetry
INVARIANTS StorageTypeOK RecordIsTrue PublishedIsMade
INVARIANTS  BoundariesAreDeterministic
CHECK_DEADLOCK FALSE
