\* Two LIVE workers on the ladder of one handoff.
SPECIFICATION Spec
CONSTANTS
  w1 = w1
  w2 = w2
  NoWorker = NoWorker
  Workers = {w1, w2}
  NumHandoffs = 1
  NumLegs = 2
  BatchLimit = 1
  ClaimLease = 1
  Lease = 1
  Mode = "LIVE"
  BrokerStates = {"ACTIVE", "CANCELED"}
  Unbuildable = {}
SYMMETRY WorkerSymmetry
INVARIANTS
  TypeOK
  AtMostOnePost
  LadderOrder
  AckTruth
  CompletedIsResolved
  StopBounded
PROPERTIES
  TriggerNeverFires
  LateAckNeverWins
  ClaimDiscipline
