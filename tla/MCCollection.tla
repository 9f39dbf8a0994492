---------------------------- MODULE MCCollection ----------------------------
(* TLC instances of Collection. *)
EXTENDS CollectionInv, TLC

Symmetry == Permutations(Invoices) \cup Permutations(Workers)
=============================================================================
