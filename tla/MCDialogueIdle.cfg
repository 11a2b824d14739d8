CONSTANTS
  MinSpeech = 2
  Hangover = 2
  FinalsCap = 1
  EgressCap = 2
  HistoryCap = 2
  MaxSpeech = 3
  MaxFrames = 2
SPECIFICATION Spec
INVARIANT IdleBargeInIsNoOp
