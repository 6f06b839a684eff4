---------------------------- MODULE MCPaperCycle ----------------------------
(* TLC instances of the PAPER path.                                        *)
EXTENDS PaperCycle, TLC

\* Processes and assets are interchangeable.
Symmetry == Permutations(Processes) \cup Permutations(Assets)
=============================================================================
