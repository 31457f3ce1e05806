\* Calls come from libraries too, as those of std::mutex in a shared library do.
SPECIFICATION Spec
CONSTANTS
  m = m
  w1 = w1
  w2 = w2
  w3 = w3
  k1 = k1
  k2 = k2
  k3 = k3
  l1 = l1
  l2 = l2
  None = None
  Threads = {m, w1, w2, w3}
  Main = m
  Mutexes = {l1}
  Tids = {k1, k2, k3}
  TidOf <- MCTidOf
  Callers = {"direct", "library"}
INVARIANTS MutualExclusion
