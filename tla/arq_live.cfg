CONSTANTS
  Tags = {0}
  SEQ_S = 4
  WND_S = 2
  SEND_TIMEOUT = 1
  RECV_TIMEOUT = 0
  Lossy = {"hicann"}
  Repeating = {}
  TimeoutVals <- OtherTimeouts
  MaxSend <- Live
  MaxInFlight = 2
  MaxResets = 0
SPECIFICATION FairSpec
INVARIANTS
  AckNotForgotten
PROPERTIES
  AllDelivered
  SendFlushEnds
CHECK_DEADLOCK FALSE
