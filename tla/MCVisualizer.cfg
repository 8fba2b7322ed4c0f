SPECIFICATION FairVisualizerSpec
CONSTANTS
  CounterCap = 1000000
  ShortTicks = 2
  ShortSpeed = 3
  DefaultSpeed = 5
  DenseTicks = 3
  Missing = Missing
  Malformed = Malformed
  Documents <- MCDocuments
  MAX_SCENARIOS = 2
  MAX_TICKS = 4
  MaxTickNumber = 100
  Themes <- MCThemes
  MaxArguments = 2
  Inputs <- MCInputs
  MinSpeed = 2
  MaxSpeed = 6
  Debounce = 1
  ScrubSpeed = 3
  ScrubGain = 2
  ScrubMax = 4
INVARIANTS
  VisualizerTypeOK
  LoadedAsWritten
  PlayheadInside
  SpeedFitsScenario
  DisplayAgrees
  MetersAgreeWithControl
PROPERTIES
  ModalIsModal
  PlaybackFinishes
CHECK_DEADLOCK FALSE
