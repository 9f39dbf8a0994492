\* Two raffles whose rows displace each other, a tip that is replaced; no symmetry.
SPECIFICATION FairSpec
CONSTANTS
  Raffles = {"early", "late"}
  end_time <- MCEndTime
  Chains <- MCFork
  MaxReorg = 1
  Delay = 1
  Workers = {w1, w2}
  NoWorker = NoWorker
  NoJob = NoJob
  NoBlock = NoBlock
  NoDraw = NoDraw
INVARIANT RandomnessBlockKept
PROPERTY DrawStored
\* Once every raffle is drawn and the chain ends nothing is left to do.
CHECK_DEADLOCK FALSE
