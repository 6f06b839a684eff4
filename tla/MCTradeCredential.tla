------------------------- MODULE MCTradeCredential -------------------------
(* TLC instances of the TRADE_EXECUTION credential.                        *)
EXTENDS TradeCredential, TLC

\* Commands are interchangeable, and so are api keys.
Symmetry == Permutations(Operators) \cup Permutations(Keys)
=============================================================================
