SPECIFICATION FairFrontEndSpec
CONSTANTS
  CounterCap = 3
  RxCapacity = 2
  SensorTimeout = 3
  TickModulus = 8
  MaxUInt = 5
  NotFinite = NotFinite
  NotANumber = NotANumber
  NULL = NULL
  Arguments <- MCArguments
  LongArguments <- MCLongArguments
  LongPaths <- MCLongPaths
  LongMessagePaths <- MCLongMessagePaths
  MaxCliArgs = 6
  CI = TRUE
  ConfigFiles <- MCConfigFiles
  LineTexts <- MCLineTexts
  MaxScriptTicks = 2
  MaxLines = 4
INVARIANTS
  FrontEndTypeOK
  OptionsAreAsGiven
  RunsAsConfigured
  LoadIsAllOrNothing
  ScriptIsRunnable
  ParserAgreesWithGrammar
PROPERTIES
  CalibrationIsWriteOnce
  PhysicsIsWriteOnce
  FrontEndTerminates
CHECK_DEADLOCK FALSE
