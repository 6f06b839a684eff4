\* The composed runtime: two DRY_RUN workers, two ladders, the first of which
\* can never be hydrated.  The system rests once all is completed, so a stop
\* is not an error.
SPECIFICATION Spec
CONSTANTS
  w1 = w1
  w2 = w2
  NoWorker = NoWorker
  Workers = {w1, w2}
  NumHandoffs = 2
  NumLegs = 2
  BatchLimit = 2
  ClaimLease = 1
  Lease = 1
  Mode = "DRY_RUN"
  BrokerStates = {"ACTIVE"}
  Unbuildable = {1}
SYMMETRY WorkerSymmetry
CHECK_DEADLOCK FALSE
PROPERTIES
  ImplementsSubmitOnce
