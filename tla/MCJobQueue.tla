----------------------------- MODULE MCJobQueue -----------------------------
(* TLC instance of JobQueue. *)
EXTENDS JobQueue, TLC

Symmetry == Permutations(Job) \cup Permutations(Worker)
=============================================================================
