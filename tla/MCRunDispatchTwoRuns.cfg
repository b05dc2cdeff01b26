\* Two runs, one at a time, a confirmation of the first, one worker, another that delegates, one fault.
SPECIFICATION Spec
CONSTANTS
  r1 = r1  r2 = r2  w1 = w1  w2 = w2  p1 = p1  p2 = p2  api = api  d1 = d1
  Runs <- TwoRuns
  Confs <- OneConf
  ConfRun <- AllOfR1
  Workers = {w1}
  Publishers = {p1}
  Api = api
  Creators = {api, d1}
  MaxConcurrent = 1
  MaxToolCalls = 1
  RateLimit = 2
  ClaimCount = 2
  MaxFaults = 1
INVARIANT ActiveRunsBounded
