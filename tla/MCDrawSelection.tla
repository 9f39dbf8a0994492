-------------------------- MODULE MCDrawSelection ---------------------------
(* TLC instances of DrawSelection. *)
EXTENDS DrawSelectionInv, TLC

Symmetry == Permutations(Workers)

\* "never" ends before the first block.
MCEndTime == [r \in Raffles |-> CASE r = "never" -> 1 [] r = "early" -> 5 [] r = "late" -> 7]

B(h, t) == [hash |-> h, time |-> t]

\* Three branches.  The second forks below the close block that the early raffle
\* has on the first, the third above it; there the time of a block runs backwards
\* past the end time, which moves the close block.
Branches ==
  {<<B("a0", 1), B("a1", 4), B("a2", 6), B("a3", 7), B("a4", 8), B("a5", 9), B("a6", 10)>>,
   <<B("a0", 1), B("a1", 4), B("b2", 4), B("b3", 7), B("b4", 6), B("b5", 9), B("b6", 10)>>,
   <<B("a0", 1), B("a1", 4), B("a2", 6), B("c3", 4), B("c4", 8), B("c5", 9), B("c6", 10)>>}

MCChains == {SubSeq(b, 1, n) : b \in Branches, n \in 2 .. 7}

\* The early raffle can be drawn from the first chain, both from the second one,
\* which replaces the first one's tip.
MCFork == {<<B("a0", 1), B("a1", 6), B("a2", 7), B("a3", 8)>>,
           <<B("a0", 1), B("a1", 6), B("a2", 7), B("c3", 8), B("c4", 9)>>}
=============================================================================
