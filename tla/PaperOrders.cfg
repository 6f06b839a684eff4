\* PAPER orders: overlapping and dying calls on one plan of two legs; the
\* clock ticks once, after which an earlier quote is stale.
SPECIFICATION Spec
CONSTANTS
  c1 = c1
  c2 = c2
  NoQuote = NoQuote
  NoAck = NoAck
  Calls <- MCCalls
  Price <- MCPrice
  Quotes <- MCQuotes
  NumLegs = 2
  MaxAge = 0
  MaxTime = 1
  MaxCalls = 3
SYMMETRY Symmetry
INVARIANTS
  TypeOK
  AckTruth
  AckRecovered
  FillsAreEarned
  NoFillForgotten
PROPERTIES
  ImplementsSubmitOnce
CHECK_DEADLOCK FALSE
