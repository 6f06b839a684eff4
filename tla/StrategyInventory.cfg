\* Two callers, two BUY plans of two legs and one, two exit plans.
SPECIFICATION Spec
CONSTANTS
  p1 = p1
  p2 = p2
  s1 = s1
  s2 = s2
  NoTrade = NoTrade
  NoOrder = NoOrder
  Callers = {p1, p2}
  NumBuys = 3
  Genesis <- MCGenesis
  Sells = {s1, s2}
  MaxClock = 5
SYMMETRY Symmetry
INVARIANTS
  TypeOK
  TwoOpenOnlyRaced
  ReplayBreaksOnlyAtOvertaken
PROPERTIES
  ImplementsOwnership
CHECK_DEADLOCK FALSE
