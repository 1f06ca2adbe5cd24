CONSTANTS
  Tags = {0, 1}
  SEQ_S = 2
  WND_S = 1
  SEND_TIMEOUT = 2
  RECV_TIMEOUT = 0
  Lossy = {}
  Repeating = {}
  TimeoutVals <- NoTimeouts
  MaxSend <- Answers
  MaxInFlight = 1
  MaxResets = 0
  max_issued_cmds = 1
  PromptChip = FALSE
  Usages <- Slow
SPECIFICATION LLFairSpec
INVARIANTS
  AnswersInOrder
PROPERTIES
  CallReturns
CHECK_DEADLOCK FALSE
