\* One process at a time: the order is filled before its lookup.
SPECIFICATION Spec
CONSTANTS
  p1 = p1
  Processes = {p1}
  NumLegs = 1
  MaxResets = 1
  MaxPosts = 2
INVARIANTS
  OneOrderPerLeg
