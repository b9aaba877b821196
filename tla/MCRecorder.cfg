SPECIFICATION FairSpec
CONSTANTS
  Faults <- AllFaults
  ColdReadings = 2
  HotReadings = 2
  FixesWanted = 2
INVARIANTS
  TypeOK
  HeaterNeedsBoost
  HeaterOnlyToMeasure
  RailOnlyInWindow
  GasReadHeated
  FanFlagMatchesPin
  ClosedFileReported
PROPERTIES
  OnlyKnownStops
  DivergenceHeals
