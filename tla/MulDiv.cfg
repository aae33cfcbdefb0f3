SPECIFICATION Spec
CONSTANTS
  Width = 6
  Half = 3
INVARIANTS DivisionInvariant ResultRight
CHECK_DEADLOCK FALSE
