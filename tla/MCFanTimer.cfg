SPECIFICATION FairSpec
CONSTANTS
  StartAfter = 12
  StopAfter = 14
  MinIter = 1
  MaxIter = 4
  Wrap = 32
INVARIANTS
  TypeOK
  ElapsedIsTrue
  StartDue
PROPERTIES
  ImplementsCycle
  OnPhase
  FanAlternates
