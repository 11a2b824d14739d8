\* Two turns of two frames, a wire queue of two, and a reconnect.
CONSTANTS
  Depth = 2
  MaxDepth = 3
  Conns = {c1, c2}
  None = None
  EgressCap = 2
  WireCap = 2
  MaxTurns = 2
  MaxFrames = 3
  MaxTokens = 1
  MaxFinals = 1
SPECIFICATION Spec
SYMMETRY Symmetry
INVARIANTS AudioInOrder SilentAfterBargeIn
PROPERTIES PlaybackNeverBack
CHECK_DEADLOCK FALSE
