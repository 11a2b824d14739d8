\* Reclaiming by the reaper and by a failing pipeline; the clients do not stop.
\* Two audio frames (0 is STOP), which a client may send in any order and again.
CONSTANTS
  Conns = {c1, c2}
  Sessions = {s1}
  Stoppers = {}
  Reaper = reaper
  None = None
  MaxEpoch = 2
  MaxSeq = 2
SPECIFICATION FairSpec
INVARIANT IngestedInOrder
PROPERTIES ReclaimReleases TakeoverCompletes
CHECK_DEADLOCK FALSE
