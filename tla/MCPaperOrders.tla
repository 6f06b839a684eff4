----------------------------- MODULE MCPaperOrders -----------------------------
(* Two overlapping calls, a ladder of two legs, quotes around its price. *)
EXTENDS PaperOrders, TLC

CONSTANTS c1, c2

MCCalls == {c1, c2}
MCPrice == <<2, 2>>

\* Below and above the price.
MCQuotes == {[bid |-> 1, ask |-> 1], [bid |-> 3, ask |-> 3]}

Symmetry == Permutations(MCCalls)
================================================================================
