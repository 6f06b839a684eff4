\* Two concurrent invocations on a ladder of two legs.  A process that was
\* refused its last reset can still be killed, so the system never stops.
SPECIFICATION Spec
CONSTANTS
  p1 = p1
  p2 = p2
  Processes = {p1, p2}
  NumLegs = 2
  MaxResets = 1
  MaxPosts = 2
SYMMETRY ProcessSymmetry
INVARIANTS
  TypeOK
  SubmittedIsReal
  FirstRejectionIsHonest
PROPERTIES
  ImplementsSubmitAgain
