\* One invoice with both kinds of events, two workers, no symmetry.
SPECIFICATION FairSpec
CONSTANTS
  Raffles = {r1}
  Invoices = {i1}
  Events = {"updated", "resolved"}
  Prices = {1}
  TicketCounts = {1}
  MaxI64 = 10
  Workers = {w1, w2}
  NoWorker = NoWorker
  NoJob = NoJob
  Null = Null
PROPERTIES ImplementsLifecycle SettledPaymentResolved ClosingTerminatesOrStrands
CHECK_DEADLOCK FALSE
