\* Two runs that only the API creates, two confirmations of the first: every safety property.
SPECIFICATION Spec
CONSTANTS
  r1 = r1  r2 = r2  w1 = w1  w2 = w2  p1 = p1  p2 = p2  api = api  d1 = d1
  Runs <- TwoRuns
  Confs <- TwoConfs
  ConfRun <- AllOfR1
  Workers = {w1}
  Publishers = {p1}
  Api = api
  Creators = {api}
  MaxConcurrent = 1
  MaxToolCalls = 1
  RateLimit = 2
  ClaimCount = 2
  MaxFaults = 1
INVARIANTS NoLostRun RunningRecoverable CompletedHasReply RejectedNeverRuns InvocationsBounded ActiveRunsBounded
