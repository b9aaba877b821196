SPECIFICATION FairSpec
CONSTANT MaxFaults = 2
INVARIANTS
  TypeOK
  ReadingRight
PROPERTY RecordsContinue
