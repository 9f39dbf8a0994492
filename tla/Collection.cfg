\* Two invoices, two workers; prices and counts that reach the column limit.
SPECIFICATION Spec
CONSTANTS
  Raffles = {r1}
  Invoices = {i1, i2}
  Events = {"updated"}
  Prices = {1, 2}
  TicketCounts = {0, 1, 2}
  MaxI64 = 3
  Workers = {w1, w2}
  NoWorker = NoWorker
  NoJob = NoJob
  Null = Null
SYMMETRY Symmetry
INVARIANTS FrozenLedgerDrawable PoolPriced PoolMatchesLedger EntryXorRefund
  NoPaymentDropped FrozenNoPending WorkScheduled
PROPERTY ClosedLedgerImmutable
\* Every raffle closed and every invoice resolved: nothing is left to do.
CHECK_DEADLOCK FALSE
