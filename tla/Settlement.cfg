\* A pool with two positive shares, and one that goes to the platform alone; no
\* symmetry.
SPECIFICATION FairSpec
CONSTANTS
  Pools = {1, 20}
  Splits <- MCSplits
  Workers = {w1, w2}
  NoWorker = NoWorker
  NoJob = NoJob
  NoPayout = NoPayout
INVARIANTS WorkScheduled PaidOutDistributesPool ProofAfterSettlement
PROPERTIES SettledIsFinal ImplementsLifecycle ProofOrStranded
\* A raffle with a published proof has nothing left to do.
CHECK_DEADLOCK FALSE
