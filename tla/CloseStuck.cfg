\* The smallest instance: one invoice, its resolved event, one worker.
SPECIFICATION FairSpec
CONSTANTS
  Raffles = {r1}
  Invoices = {i1}
  Events = {"resolved"}
  Prices = {1}
  TicketCounts = {1}
  MaxI64 = 10
  Workers = {w1}
  NoWorker = NoWorker
  NoJob = NoJob
  Null = Null
PROPERTY ClosingTerminates
CHECK_DEADLOCK FALSE
