\* The wallet never moves: whatever exceeds it was reserved twice.
SPECIFICATION Spec
CONSTANTS
  p1 = p1
  p2 = p2
  r1 = r1
  r2 = r2
  Processes = {p1, p2}
  Requests = {r1, r2}
  Wallets = {2}
  Asked <- AskedAll
  NoProcess = NoProcess
  NoRequest = NoRequest
INVARIANT ReservedWithinWallet
