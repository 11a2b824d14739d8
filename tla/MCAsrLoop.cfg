SPECIFICATION FairSpec
CONSTANTS
  IngressCap = 2
  OutCap = 1
  FinalsCap = 1
  MaxPush = 4
  MaxReaders = 1
  MaxUtts = 1
INVARIANTS BuffersApart BuffersBounded FinalOfThisStream
PROPERTY ImplementsRecognizer
CHECK_DEADLOCK FALSE
