CONSTANTS
  Count = 3
  Available <- TwoOfThree
  Swapped <- SecondOne
  MaxTries = 2
  MaxPolls = 2
  Orderly = TRUE
SPECIFICATION Spec
INVARIANTS
  HighspeedReady
  OthersCutOff
  EndsInStep
  StatesMatchLinks
PROPERTIES
  InitReturns
CHECK_DEADLOCK FALSE
