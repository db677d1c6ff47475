SPECIFICATION Spec
CONSTANTS
  a = a
  b = b
  h264 = h264
  vp9 = vp9
  None = None
  Ctx = {a, b}
  Bufs = {1}
  Engines = {h264, vp9}
  NodeOf <- BothNodes
  EngineOf <- OwnEngines
  PromptIrq = TRUE
INVARIANTS
  SpuriousContextAlive
