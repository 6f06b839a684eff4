\* Two callers, two competing requests, a wallet that moves between one and
\* two units.
SPECIFICATION Spec
CONSTANTS
  p1 = p1
  p2 = p2
  r1 = r1
  r2 = r2
  Processes = {p1, p2}
  Requests = {r1, r2}
  Wallets = {1, 2}
  Asked <- AskedAll
  NoProcess = NoProcess
  NoRequest = NoRequest
SYMMETRY ProcessSymmetry
INVARIANTS
  TypeOK
  AloneIsConsistent
PROPERTIES
  ImplementsReserveOnce
