\* One caller, one request: a plain retry of intake().
SPECIFICATION Spec
CONSTANTS
  p1 = p1
  r1 = r1
  r2 = r2
  Processes = {p1}
  Requests = {r1, r2}
  Wallets = {2}
  Asked <- AskedAll
  NoProcess = NoProcess
  NoRequest = NoRequest
INVARIANT RetryReturns
