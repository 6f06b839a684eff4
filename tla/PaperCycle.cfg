SPECIFICATION Spec
CONSTANTS
  w1 = w1
  w2 = w2
  a1 = a1
  a2 = a2
  NoAsset = NoAsset
  Processes = {w1, w2}
  Assets = {a1, a2}
  MaxPlans = 2
  Equity = 1
  MinEquity = 1
SYMMETRY Symmetry
INVARIANTS
  TypeOK
  BooksBalance
  HeldBackOnlyBy
  DuplicateOnlyRaced
  UnreservedOnlyRaced
PROPERTIES
  ImplementsCapitalOnce
