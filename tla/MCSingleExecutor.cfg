\* Two workers, two publishers, one stop of a worker.
SPECIFICATION Spec
CONSTANTS
  r1 = r1  r2 = r2  w1 = w1  w2 = w2  p1 = p1  p2 = p2  api = api  d1 = d1
  Runs <- OneRun
  Confs <- NoConfs
  ConfRun <- AllOfR1
  Workers = {w1, w2}
  Publishers = {p1, p2}
  Api = api
  Creators = {api}
  MaxConcurrent = 2
  MaxToolCalls = 2
  RateLimit = 1
  ClaimCount = 2
  MaxFaults = 1
INVARIANT SingleExecutor
