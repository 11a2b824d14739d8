\* Takeovers of one session by three connections, with everybody reclaiming.
CONSTANTS
  Conns = {c1, c2, c3}
  Sessions = {s1}
  Stoppers = {c1, c2, c3}
  Reaper = reaper
  None = None
  MaxEpoch = 3
  MaxSeq = 1
SPECIFICATION Spec
SYMMETRY Symmetry
INVARIANTS SingleReader AckCoversTheOld MapAgrees
CHECK_DEADLOCK FALSE
