------------------------ MODULE MCStrategyInventory ------------------------
(* TLC instances of the strategy-owned inventory.                          *)
EXTENDS StrategyInventory, TLC

\* The first plan has two legs, the second one.
MCGenesis == <<"t1", "t1", "t2">>

\* Callers and exit plans are interchangeable.
Symmetry == Permutations(Callers) \cup Permutations(Sells)
=============================================================================
