CONSTANTS
  MinSpeech = 2
  Hangover = 2
  FinalsCap = 1
  EgressCap = 2
  HistoryCap = 2
  MaxSpeech = 3
  MaxFrames = 1
SPECIFICATION FairSpec
INVARIANTS NoIllegalEvent MachineFollowsTurn NothingStaleInEgress HistoryInOrder
PROPERTIES BargeInEndsTheTurn RunReturns
