\* One worker is enough.
SPECIFICATION FairSpec
CONSTANTS
  Pools = {101}
  Splits <- MCSplitTwo
  Workers = {w1}
  NoWorker = NoWorker
  NoJob = NoJob
  NoPayout = NoPayout
PROPERTY PayoutsComplete
\* A raffle with a published proof has nothing left to do.
CHECK_DEADLOCK FALSE
