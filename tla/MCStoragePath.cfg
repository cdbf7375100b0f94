\* Two stages of a build that declare the same output path.
SPECIFICATION MCSpec
CONSTANTS
  Builds = {b1}
  Stages = {"compile", "link"}
  Contents = {c1, c2}
  Producer <- TwinProducer
  Definition <- OwnDefinition
  Path <- OnePath
  Tainted = {}
  NoStage = NoStage
  NoContent = NoContent
  MaxFaults = 0
  Clients = {i1, i2}
  Sources <- MCSources
  ChunkSize = 2
  MaxMishaps = 0
INVARIANTS RecordIsTrue
CHECK_DEADLOCK FALSE
