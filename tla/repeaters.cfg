CONSTANTS
  Count = 3
  Locations <- Blocks
  Usages <- Families
  Data = {d, e}
  Strays <- Others
  MaxOwed = 2
  Orderly = TRUE
SPECIFICATION Spec
SYMMETRY Symmetry
INVARIANTS
  CopyIsCurrent
  TestOutputExclusive
  DriversExclusive
  StartedHasItsData
CHECK_DEADLOCK FALSE
