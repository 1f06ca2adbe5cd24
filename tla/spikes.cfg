CONSTANTS
  Period = 8
  MinDistance = 3
  Latency = 2
  MaxGroup = 3
  MaxWait = 2
  Ids = {a, b}
  Gaps = {0, 2, 5, 12}
  Offsets <- Ahead
  MaxCalls = 4
  Orderly = TRUE
SPECIFICATION Spec
SYMMETRY Symmetry
INVARIANTS
  PlayedAsPlanned
  Paced
  TraceExact
CHECK_DEADLOCK FALSE
