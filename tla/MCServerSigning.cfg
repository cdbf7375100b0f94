\* A worker that starts to sign while one of its completions is in flight.
SPECIFICATION ServerSpec
CONSTANTS
  Workers = {1}
  Actors = {ops}
  Registrations <- MCRegistrations
  Submissions <- MCSubmissions
  Results = {signed, unsigned}
  SignedResults = {signed}
  AnyValue = AnyValue
  Nobody = Nobody
  NoResult = NoResult
  MaxLeases = 3
  MaxAttempts = 2
  Threads = {t1, t2}
  Deployments <- SigningDeployments
  acme = acme
  Keys = {TRUE, FALSE}
PROPERTIES SignersSign
