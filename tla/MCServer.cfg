\* Tenant slots, restarts and the audit journal, side by side.
SPECIFICATION ServerSpec
CONSTANTS
  Workers = {1}
  Actors = {ops}
  Registrations <- MCRegistrations
  Submissions <- MCSubmissions
  Results = {signed}
  SignedResults = {signed}
  AnyValue = AnyValue
  Nobody = Nobody
  NoResult = NoResult
  MaxLeases = 3
  MaxAttempts = 1
  Threads = {t1, t2}
  Deployments <- SafetyDeployments
  acme = acme
  Keys = {FALSE}
SYMMETRY Requests
INVARIANTS ServerTypeOK SchedulerConsistent SlotsCoverOpenLeases SlotsSettle SnapshotLoads 
