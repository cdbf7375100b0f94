\* A completion delayed past the restart of its process.
SPECIFICATION FleetSpec
CONSTANTS
  Workers = {1}
  Actors = {ops}
  Registrations <- MCRegistrations
  Submissions <- MCSubmissions
  Results <- MCResults
  AnyValue = AnyValue
  Nobody = Nobody
  NoResult = NoResult
  MaxLeases = 1
  MaxAttempts = 5
  RegistrationOf <- MCRegistrationOf
  WorkerFields = {}
  Fleets <- SimulatedFleets
  amd = amd
  acme = acme
  Slots = {1, 2}
INVARIANTS ResultIsCurrent
CHECK_DEADLOCK FALSE
