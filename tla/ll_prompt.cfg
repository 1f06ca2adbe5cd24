CONSTANTS
  Tags = {0, 1}
  SEQ_S = 4
  WND_S = 2
  SEND_TIMEOUT = 4
  RECV_TIMEOUT = 0
  Lossy = {}
  Repeating = {}
  TimeoutVals <- NoTimeouts
  MaxSend <- Answers
  MaxInFlight = 1
  MaxResets = 1
  max_issued_cmds = 2
  PromptChip = TRUE
  Usages <- Prompt
SPECIFICATION LLSpec
INVARIANTS
  ReadAnswered
  NeverRefused
  FlushTransmitsAll
CHECK_DEADLOCK FALSE
