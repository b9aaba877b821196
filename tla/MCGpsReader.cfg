SPECIFICATION Spec
CONSTANTS
  MaxSentences = 4
  Lengths = {4, 5}
  TransferSize = 3
  LineCap = 6
  MaxFails = 1
INVARIANTS
  TypeOK
  TimeIsOwn
  LossBounded
PROPERTY ImplementsStream
