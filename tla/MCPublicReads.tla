--------------------------- MODULE MCPublicReads ----------------------------
(* TLC instance of PublicReads. *)
EXTENDS PublicReads, TLC

\* The split of the protocol's tests.
MCSplits == {[winner |-> 9500, organizer |-> 400, platform |-> 100]}

\* Every digest is the digest of some block hash.
MCDigest(seed) == seed[5]

\* The first, the last and a middle one of the 16 numbers.
MCBlockHashes == {<<0, 0>>, <<1, 2>>, <<3, 3>>}

Symmetry == Permutations(Invoices) \cup Permutations(EntryIds)
=============================================================================
