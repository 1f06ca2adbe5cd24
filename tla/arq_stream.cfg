CONSTANTS
  Tags = {0}
  SEQ_S = 4
  WND_S = 2
  SEND_TIMEOUT = 1
  RECV_TIMEOUT = 0
  Lossy = {"host", "hicann"}
  Repeating = {"host", "hicann"}
  TimeoutVals <- NoTimeouts
  MaxSend <- Duplex
  MaxInFlight = 2
  MaxResets = 1
SPECIFICATION Spec
INVARIANTS
  WindowHoldsStream
  AckPosition
  SendWindow
  RetransmitArmed
  AckedIsReceived
PROPERTIES
  ImplementsStream
CHECK_DEADLOCK FALSE
