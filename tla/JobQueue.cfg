\* Lease and back-off in the proportion of run_jobs (60 s and 15 s); the clock
\* lets the lease of a second claim expire after that of the first has.
SPECIFICATION Spec
CONSTANTS
  Job = {j1, j2}
  Worker = {w1, w2}
  NoJob = NoJob
  NoWorker = NoWorker
  Lease = 4
  RetryAfter = 1
  MaxAttempts = {1, 2}
  MaxTime = 10
SYMMETRY Symmetry
INVARIANTS LeaseExclusive RetryBudget
PROPERTY ImplementsJobTable
\* The clock stops at its bound.
CHECK_DEADLOCK FALSE
