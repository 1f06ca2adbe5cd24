CONSTANTS
  Count = 3
  Available <- TwoOfThree
  Swapped <- SecondOne
  MaxTries = 2
  MaxPolls = 2
  Orderly = TRUE
SPECIFICATION Spec
INVARIANTS
  SwappedInverted
CHECK_DEADLOCK FALSE
