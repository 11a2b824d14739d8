\* A STOP read just before a takeover: the reader and attach wait for each other.
CONSTANTS
  Conns = {c1, c2}
  Sessions = {s1}
  Stoppers = {c1, c2}
  Reaper = reaper
  None = None
  MaxEpoch = 2
  MaxSeq = 1
SPECIFICATION FairSpec
PROPERTY TakeoverCompletes
CHECK_DEADLOCK FALSE
