\* Three calls from two processes on one operation id, two faults; audit
\* journals of up to four lines, two failing appends, two openings.
SPECIFICATION MCSpec
CONSTANTS
  Hosts = {h1, h2}
  Calls = {c1, c2, c3}
  OpIDs = {op}
  Scopes = {s1, s2}
  MaxFaults = 2
  Contents = {e1, e2}
  Garbage = Garbage
  NoHash = NoHash
  MaxLines = 4
  MaxFailures = 2
  MaxOpens = 2
INVARIANTS JournalsTypeOK AtMostOnce SentIsDurable RecordIsTrue AnswerIsTrue
INVARIANTS TailIsVerified VerifiedIsComplete
PROPERTIES EditsDetected
CHECK_DEADLOCK FALSE
