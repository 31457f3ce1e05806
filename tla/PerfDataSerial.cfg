\* One thread whose buffers fill up again and again, with no slack; the sampler is stopped in
\* the wrappers, as pthread_create and GOMP_parallel do; fopen may fail.
SPECIFICATION Spec
CONSTANTS
  m = m
  Threads = {m}
  Main = m
  NoPath = NoPath
  w1 = w1
  w2 = w2
  pm1 = pm1
  pm2 = pm2
  pw = pw
  Paths <- MCPaths
  PathsOf <- MCPathsOfAlone
  Space <- SpaceTiny
  Slack = 0
  MaxCalls <- CallsMany
  SamplerRunsInWrapper = FALSE
  OpenMayFail = TRUE
INVARIANTS TypeOK InBounds
 
