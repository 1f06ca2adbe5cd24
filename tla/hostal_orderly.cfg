CONSTANTS
  Dest <- Ends
  max_bulk = 2
  TraceFrames = 1
  Controls = {"startPlaybackTrace", "startTraceRead"}
  Orderly = TRUE
  MaxSent = 4
SPECIFICATION FairSpec
INVARIANTS
  CommandsInOrder
  AnswersInOrder
  ConfigConfirmed
  FlagsAgree
  TraceComplete
  EndIsCurrent
PROPERTIES
  AnswerArrives
CHECK_DEADLOCK FALSE
