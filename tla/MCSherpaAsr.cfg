CONSTANTS
  OutCap = 1
  MaxResults = 4
SPECIFICATION SherpaFair
INVARIANT NoSendOnClosed
CHECK_DEADLOCK FALSE
