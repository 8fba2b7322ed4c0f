SPECIFICATION Spec
CONSTANTS
  CounterCap = 10
  RxCapacity = 2
  SensorTimeout = 3
  TickModulus = 64
  Frames <- MCFrames
  Calibrations <- MCCalibrations
  Physics <- MCPhysics
  MaxProfileTicks = 4
  TickCounts = {0, 1, 2, 3, 4, 5}
  ReportCapacity = 5
  Gaps = {1, 2, 4, 5, 7}
  ShowTicks = FALSE
  LineKinds = {"sensor", "corrupt"}
INVARIANT CorruptFrameIsSurvived
CHECK_DEADLOCK FALSE
