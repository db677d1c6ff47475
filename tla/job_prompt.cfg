SPECIFICATION FairSpec
CONSTANTS
  a = a
  b = b
  h264 = h264
  vp9 = vp9
  None = None
  Ctx = {a, b}
  Bufs = {1}
  Engines = {h264}
  NodeOf <- TwoDecoders
  EngineOf <- SameEngine
  PromptIrq = TRUE
INVARIANTS
  DoneIsDecoded
  NoOops
PROPERTIES
  SpuriousMeansWatchdog
  JobFinishes
  JobGetsTurn
  CallsReturn
