SPECIFICATION Spec
CONSTANTS
  RxCapacity = 2
  TxCapacity = 3
  SensorTimeout = 1
  TickModulus = 4
  Data = {"sample"}
  Kinds = {"sensor", "corrupt", "unsupported"}
  BusFrames = {"f", "g"}
  WatchdogMax = 3
  CounterModulus = 6
  WatchdogTimeouts = {0, 2, 3, 4}
  Temperatures <- MCTemperatures
  Tolerance = 50
  MaxClock = 5
  MaxChecks = 7
  ServiceSets <- MCServiceSets
INVARIANTS
  HalTypeOK
  WatchdogFiresInTime
  ReadingVotesOnce
PROPERTIES
  ImplementsLinkService
  BusDropsNewest
  SilenceIsTimedExactly
