\* Two workers, three leases, two attempts each; queues of three.
SPECIFICATION MCSpec
CONSTANTS
  Workers = {1, 2}
  Actors = {ops}
  Registrations <- MCRegistrations
  Submissions <- MCSubmissions
  Results = {done}
  AnyValue = AnyValue
  Nobody = Nobody
  NoResult = NoResult
  MaxLeases = 3
  MaxAttempts = 2
  amd = amd
  arm = arm
  gpu = gpu
  blob = blob
  Priorities = {0}
  Fleet <- MCFleet
  Leases <- MCLeases
  MaxPending = 3
INVARIANTS SelectIsRight QueueExact HolderIsRegistered WithinMaxParallel ProvenanceMatchesState
PROPERTIES LeaseHistoryGrows ImplementsLifecycle
