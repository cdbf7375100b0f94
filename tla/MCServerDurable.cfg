\* Liveness: one lease that ends, failing saves, one restart.
SPECIFICATION ServerSpec
CONSTANTS
  Workers = {1}
  Actors = {ops}
  Registrations <- MCRegistrations
  Submissions <- MCSubmissions
  Results = {signed}
  SignedResults = {signed}
  AnyValue = AnyValue
  Nobody = Nobody
  NoResult = NoResult
  MaxLeases = 3
  MaxAttempts = 1
  Threads = {t1}
  Deployments <- DurableDeployments
  acme = acme
  Keys = {FALSE}
PROPERTIES EndsBecomeDurable
