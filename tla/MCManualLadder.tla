--------------------------- MODULE MCManualLadder ---------------------------
(* TLC instances of the manual ladder.                                     *)
EXTENDS ManualLadder, TLC

\* Invocations of the command are interchangeable.
ProcessSymmetry == Permutations(Processes)
=============================================================================
