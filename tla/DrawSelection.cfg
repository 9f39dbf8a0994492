\* A raffle to be drawn, with a fork at each of the heights that matter, and one
\* that ended before the first block.
SPECIFICATION Spec
CONSTANTS
  Raffles = {"early", "never"}
  end_time <- MCEndTime
  Chains <- MCChains
  MaxReorg = 2
  Delay = 1
  Workers = {w1, w2}
  NoWorker = NoWorker
  NoJob = NoJob
  NoBlock = NoBlock
  NoDraw = NoDraw
SYMMETRY Symmetry
INVARIANTS TypeOK WorkScheduled CloseBlockKept DrawnFromOneChain
PROPERTY DrawIsFinal
\* Once every raffle is drawn and the chain ends nothing is left to do.
CHECK_DEADLOCK FALSE
