SPECIFICATION WatchedSpec
CONSTANTS
  f1 = f1
  f2 = f2
  f3 = f3
  p = p
  q = q
  r = r
  None = None
  Files = {f1, f2}
  Procs = {p}
  ProcOf <- Bridge
  Bufs = {b}
  Dbufs = {d}
  MaxRefs = 1
  EngineFiles = {f1}
  MemoryFiles = {f2}
  Waits = FALSE
  Suspends = FALSE
INVARIANTS
  DmaOnCoherent
