SPECIFICATION PublicSpec
CONSTANTS
  Digest <- MCDigest
  DigestLen = 2
  Radix = 4
  Raffle = r1
  Invoices = {i1, i2, i3}
  EntryIds = {e1, e2, e3}
  Price = 20
  TicketCounts = {1, 2}
  Times = {1999999, 2000000}
  Splits <- MCSplits
  Heights = {5}
  Delay = 1
  BlockHashes <- MCBlockHashes
  Null = Null
  Limit = 1
SYMMETRY Symmetry
INVARIANTS FrozenIsDrawable PaidOutIsProvable ProofNamesWinner OneWinner TicketsEquallyLikely OutcomeCommitted PoolInPages ResultSupported
PROPERTY PagesComplete
CHECK_DEADLOCK FALSE
