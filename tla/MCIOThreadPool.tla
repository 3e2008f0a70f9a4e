--------------------------- MODULE MCIOThreadPool ---------------------------
(* Model-checking instances of IOThreadPool.                               *)
EXTENDS IOThreadPool, TLC

\* Tasks, workers and clients are interchangeable.
Symmetry == Permutations(Tasks) \cup Permutations(Workers) \cup Permutations(Clients)
=============================================================================
