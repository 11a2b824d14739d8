\* Small instances of the parts that stand alone; the egress edge drops the oldest.
CONSTANTS
  Cap = 2
  DropOldest = TRUE
  MaxPush = 5
  TokenCap = 1
  AudioCap = 2
  MaxTokens = 3
  OutCap = 1
  MaxResults = 4
  FrameBytes = 2
  FrameTicks = 2
  Lead = 1
  ChunkSizes = {3, 4}
  MaxBytes = 8
  MaxTime = 5
  MaxGather = 2
  Base = 2
  SeqWidth = 2
  TsWidth = 2
  LenWidth = 2
  MaxPayload = 2
  Magic0 = 0
  Magic1 = 1
  Version = 1
  CodecFrames <- MCFrames
  BufCaps = {0, 2, 4}
  Bounds <- MCBounds
  Values = {0, 2, 3, 5}
  Quantiles <- MCQuantiles
  MaxObs = 4
  AudioChan = 2
  BargeChan = 1
  SpeechFrames = 2
  QuietGap = 2
  TurnTimeout = 2
  BargeEvery = 2
  MaxCalls = 2
  Interval = 2
  Delay = 1
  Jitter = 2
  BurstEvery = 5
  BurstHold = 3
  MaxSlots = 5
  MaxWall = 14
  Sockets = {1, 2}
  MaxReconnect = 2
  MaxConvs = 2
  MaxClaim = 3
  MaxFaults = 2
  MaxStarts = 2
  Convs = {1, 2}
  MaxCounts = 2
  MaxScrapes = 2
  Boards = {1, 2}
  HistCap = 2
  ChanCap = 2
  MaxRecords = 4
SPECIFICATION PartsSpec
INVARIANTS NoLostWakeup HeardIsReply CompleteOnSuccess OneFinalLast NoBurst ReadersAgree QuantileInBucket OwnAnswer StallsDoNotAddUp NeverStranded ReportIsTrue FeedInOrder
PROPERTIES TurnEnds ImplementsResponseChain StreamReturns ImplementsTtsStage
CHECK_DEADLOCK FALSE
