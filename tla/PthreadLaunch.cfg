\* A creator may free the argument block before the new thread has read it.
SPECIFICATION Spec
CONSTANTS
  m = m
  w1 = w1
  w2 = w2
  w3 = w3
  h1 = h1
  h2 = h2
  b1 = b1
  b2 = b2
  None = None
  Threads = {m, w1, w2, w3}
  Main = m
  Handles = {h1, h2}
  Blocks = {b1, b2}
  Creators = {m, w1, w2, w3}
  CreateMayFail = FALSE
INVARIANTS LaunchesOwnRoutine
SYMMETRY Symmetric
