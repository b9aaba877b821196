SPECIFICATION FairSpec
CONSTANTS
  Fresh = 5
  Pause = 5
  FixesWanted = 3
  Sentences <- BoundarySentences
  MaxAge = 6
INVARIANTS
  TypeOK
  OneCountPerSentence
PROPERTIES
  TimeKept
  ClockGetsSet
