CONSTANTS
  Program <- Programs
  Shell <- Shells
  parent <- Parents
  MaxConns = 1
  Mortal = {"p1", "p3", "s1"}
  Unlocking = {"s1", "s2"}
SPECIFICATION Spec
INVARIANTS
  ExclusiveAccess
  UsersAreCovered
PROPERTIES
  ValidLockKept
CHECK_DEADLOCK FALSE
