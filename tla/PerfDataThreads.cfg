\* Two workers that share a call path, their handlers and wrappers interleaved;
\* the sampler runs inside the wrappers, as in pthread_join; no buffer fills up.
SPECIFICATION Spec
CONSTANTS
  m = m
  Threads = {m, w1, w2}
  Main = m
  NoPath = NoPath
  w1 = w1
  w2 = w2
  pm1 = pm1
  pm2 = pm2
  pw = pw
  Paths <- MCPathsOfOne
  PathsOf <- MCPathsOfWorkers
  Space <- SpaceLarge
  Slack = 1
  MaxCalls <- CallsFew
  SamplerRunsInWrapper = TRUE
  OpenMayFail = FALSE
INVARIANTS OneSlotPerKey SlotsAreOwned CallsArePrinted
PROPERTIES NoSampleLostOrDoubled
SYMMETRY Symmetric
