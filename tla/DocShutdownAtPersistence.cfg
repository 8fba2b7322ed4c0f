SPECIFICATION Spec
CONSTANTS
  CounterCap = 10
  RxCapacity = 2
  SensorTimeout = 3
  TickModulus = 64
  Frames <- MCFrames
  Calibrations <- MCCalibrations
  Physics <- MCPhysics
  MaxProfileTicks = 6
  TickCounts = {0, 6, 7}
  ReportCapacity = 7
  Gaps = {1}
  ShowTicks = FALSE
  LineKinds = {"sensor"}
INVARIANT ShutdownAtPersistence
CHECK_DEADLOCK FALSE
