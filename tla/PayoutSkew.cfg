\* Two workers that settle at the same time.
SPECIFICATION Spec
CONSTANTS
  Pools = {101}
  Splits <- MCSplitTwo
  Workers = {w1, w2}
  NoWorker = NoWorker
  NoJob = NoJob
  NoPayout = NoPayout
INVARIANT LastSettlementPaysOut
\* A raffle with a published proof has nothing left to do.
CHECK_DEADLOCK FALSE
