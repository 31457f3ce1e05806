\* One thread dumps while the other has reserved a slot.
SPECIFICATION Spec
CONSTANTS
  m = m
  Threads = {m, w1}
  Main = m
  NoPath = NoPath
  w1 = w1
  w2 = w2
  pm1 = pm1
  pm2 = pm2
  pw = pw
  Paths <- MCPaths
  PathsOf <- MCPathsOf
  Space <- SpaceTiny
  Slack = 1
  MaxCalls <- CallsUnequal
  SamplerRunsInWrapper = FALSE
  OpenMayFail = FALSE
INVARIANTS SlotsAreOwned
