SPECIFICATION CodecsSpec
CONSTANTS
  VpBuf = {1, 2}
  VpFrame <- MCVpFrame
  VpMaxFrames = 3
  VpMaxRefs = 2
  H4Buf = {1, 2, 3}
  H4Sps <- MCH4Sps
  H4MaxFrames = 3
  H4MaxDpb = 2
  H5Buf = {1, 2}
  H5Ctb = {16, 32}
  H5Width = 64
  H5Height = 64
  H5MaxFrames = 3
  H5MaxDpb = 2
  H5MaxFreed = 1
  V8Buf = {1, 2, 3}
  V8Frame <- MCV8Frame
  V8MaxFrames = 3
  V8MaxRefs = 2
  EnBuf = {1, 2}
  EnControl <- MCEnControl
  EnChange <- MCEnChange
  EnNumLog = 1
  EnMaxFrames = 3
  EnMaxChanges = 2
  JpBuf = {1, 2}
  JpPlane = {1000, 1647}
  JpLength = {0, 12, 8176, 8184, 8192}
  JpQuality = {50, 90}
  JpMaxJobs = 3
  VpSizes = {1, 16, 17, 64, 65, 200, 1088, 1920, 2160, 3840, 4096}
  VpProbs = {1, 2, 64, 127, 128, 129, 254, 255}
  VpCounts = {0, 1, 3, 12, 24, 25, 1000}
  VpOne = 131072
  SyFile = {"f1", "f2"}
  SyThread = {"t1", "t2", "t3"}
  SyFileOf <- MCSyFileOf
  SyNone = "none"
INVARIANT EnCabacAllowed
CHECK_DEADLOCK FALSE
