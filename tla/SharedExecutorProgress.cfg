\* One LIVE worker, restarted after every crash, and two handoffs.  A completed
\* batch leaves nothing more to do, so a stop is not an error.
SPECIFICATION ProgressSpec
CONSTANTS
  w1 = w1
  NoWorker = NoWorker
  Workers = {w1}
  NumHandoffs = 2
  NumLegs = 1
  BatchLimit = 2
  ClaimLease = 1
  Lease = 1
  Mode = "LIVE"
  BrokerStates = {"ACTIVE"}
  Unbuildable = {}
CHECK_DEADLOCK FALSE
PROPERTIES
  EventuallyResolved
