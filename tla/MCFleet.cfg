\* Two workers, one of them with two slots; two leases; every kind of fleet.
SPECIFICATION FleetSpec
CONSTANTS
  Workers = {1, 2}
  Actors = {ops}
  Registrations <- MCRegistrations
  Submissions <- MCSubmissions
  Results <- MCResults
  AnyValue = AnyValue
  Nobody = Nobody
  NoResult = NoResult
  MaxLeases = 2
  MaxAttempts = 5
  RegistrationOf <- MCRegistrationOf
  WorkerFields = {}
  Fleets <- AllFleets
  amd = amd
  acme = acme
  Slots = {1, 2}
INVARIANTS FleetTypeOK 
  
CHECK_DEADLOCK FALSE
