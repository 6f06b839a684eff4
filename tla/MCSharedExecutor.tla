-------------------------- MODULE MCSharedExecutor --------------------------
(* TLC instances of the shared executor.                                   *)
EXTENDS SharedExecutor, TLC

\* Workers are interchangeable processes.
WorkerSymmetry == Permutations(Workers)
=============================================================================
