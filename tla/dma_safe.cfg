SPECIFICATION WatchedSpec
CONSTANTS
  f1 = f1
  f2 = f2
  f3 = f3
  p = p
  q = q
  r = r
  None = None
  Files = {f1, f2, f3}
  Procs = {p, q, r}
  ProcOf <- OneFileEach
  Bufs = {b}
  Dbufs = {d}
  MaxRefs = 2
  EngineFiles = {f1, f2, f3}
  MemoryFiles = {f1, f2, f3}
  Waits = TRUE
  Suspends = TRUE
SYMMETRY Clients
INVARIANTS
  DmaOnCoherent
  DmaOnMapped
  EnginePowered
  DisciplinedReset
  DisciplinedMappings
PROPERTIES
  ImplementsEngine
