SPECIFICATION RunnerSpec
CONSTANTS
  CounterCap = 1000000
  RxCapacity = 32
  SensorTimeout = 3
  TickModulus = 1073741824
  Frames <- MCFrames
  Calibrations <- MCCalibrations
  Physics <- MCPhysics
  MaxProfileTicks = 64
  TickCounts = {2, 3}
  ReportCapacity = 26
  Gaps = {1, 4, 5}
  LineKinds = {"sensor", "corrupt"}
  ShowTicks = FALSE
  Commands <- MCCommands
  ScriptFrames <- MCScriptFrames
  MaxWriteFailures = 1
INVARIANTS
  RunnerTypeOK
  ScenariosAreIsolated
  
  JsonIsComplete
  ScriptFailureIsExplained
CHECK_DEADLOCK FALSE
