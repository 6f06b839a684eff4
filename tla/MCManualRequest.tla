-------------------------- MODULE MCManualRequest --------------------------
(* TLC instances of the manual request pipeline.                           *)
EXTENDS ManualRequest, TLC

CONSTANTS r1, r2

\* One request asks for all that is available, the other for one unit.
AskedAll == r1 :> 0 @@ r2 :> 1

ProcessSymmetry == Permutations(Processes)
=============================================================================
