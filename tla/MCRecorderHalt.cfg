SPECIFICATION Spec
CONSTANTS
  Faults <- AllFaults
  ColdReadings = 2
  HotReadings = 2
  FixesWanted = 2
PROPERTY HaltStops
