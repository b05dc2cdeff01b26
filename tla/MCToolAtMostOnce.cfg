\* A stop between execute_tool and mark_confirmation_executed.
SPECIFICATION Spec
CONSTANTS
  r1 = r1  r2 = r2  w1 = w1  w2 = w2  p1 = p1  p2 = p2  api = api  d1 = d1
  Runs <- OneRun
  Confs <- OneConf
  ConfRun <- AllOfR1
  Workers = {w1}
  Publishers = {p1}
  Api = api
  Creators = {api}
  MaxConcurrent = 2
  MaxToolCalls = 2
  RateLimit = 6
  ClaimCount = 2
  MaxFaults = 1
INVARIANT ToolAtMostOnce
