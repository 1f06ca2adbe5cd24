CONSTANTS
  Tags = {0}
  SEQ_S = 4
  WND_S = 2
  SEND_TIMEOUT = 1
  RECV_TIMEOUT = 0
  Lossy = {"host"}
  Repeating = {}
  TimeoutVals <- NoTimeouts
  MaxSend <- Live
  MaxInFlight = 2
  MaxResets = 0
SPECIFICATION FairSpec
PROPERTIES
  SendFlushEnds
CHECK_DEADLOCK FALSE
