\* One start, and a second connection that is lost before its acknowledgement.
CONSTANTS
  Sockets = {1, 2}
  MaxReconnect = 2
  MaxConvs = 2
  MaxClaim = 3
  MaxFaults = 2
  MaxStarts = 1
SPECIFICATION ReconnectSpec
PROPERTY SurvivesOutage
CHECK_DEADLOCK FALSE
