-------------------------- MODULE DrawProofProofs ---------------------------
(***************************************************************************)
(* Theorems about DrawProof and PublicReads, for ledgers of any length,    *)
(* any digest function, any splits and any pages.                          *)
(***************************************************************************)
EXTENDS DrawProofInv, VerifierLemmas

-----------------------------------------------------------------------------
(* What the verifier accepts. *)

\* The frozen root, the blocks and the split commit to the result: all documents
\* that have them and pass verify say the same, whoever made them.
THEOREM OutcomeIsCommitted ==
  ASSUME DigestHypothesis, NEW p, NEW q,
         IsLedger(p.entries), IsLedger(q.entries), SameCommitment(p, q),
         is_verified(ProofDocument(p)), is_verified(ProofDocument(q))
  PROVE  Outcome(p) = Outcome(q)
<1> DEFINE Sum(x) == summarize_ledger(x.entries)
           Input(x) == DrawOf(x, Sum(x))
           Ticket(x) == winning_ticket(draw_seed(Input(x)), Input(x).total_tickets)
<1>1. ASSUME NEW x, is_verified(ProofDocument(x))
      PROVE  /\ LedgerAccepted(x.entries)
             /\ Sum(x) = x.freeze
             /\ draw(x.entries, Input(x)) = x.draw
             /\ allocate(x.payout_split, Sum(x).total_pool_sats) = x.payouts
  <2>1. ProofDocument(x).payload = x
    BY DEF ProofDocument
  <2> QED
    BY <1>1, <2>1, VerifiedFacts DEF PayoutsReconcile
<1>2. /\ LedgerAccepted(p.entries) /\ LedgerAccepted(q.entries)
      /\ Sum(p) = p.freeze /\ Sum(q) = q.freeze
      /\ draw(p.entries, Input(p)) = p.draw /\ draw(q.entries, Input(q)) = q.draw
      /\ allocate(p.payout_split, Sum(p).total_pool_sats) = p.payouts
      /\ allocate(q.payout_split, Sum(q).total_pool_sats) = q.payouts
  BY <1>1
<1>3. Sum(p).entries_root = Sum(q).entries_root
  BY <1>2 DEF SameCommitment
<1>4. /\ Len(p.entries) = Len(q.entries)
      /\ \A k \in 1 .. Len(p.entries) : p.entries[k].data = q.entries[k].data
  BY <1>2, <1>3, RootCommits
<1>5. PoolSats(p.entries) = PoolSats(q.entries)
  BY <1>4, SameDataSamePool
<1>6. Len(p.entries) \in Nat /\ DOMAIN p.entries = 1 .. Len(p.entries)
      /\ DOMAIN q.entries = 1 .. Len(p.entries) /\ Len(p.entries) # 0
  BY <1>2, <1>4 DEF IsLedger, LedgerAccepted
<1>7. Sum(p) = Sum(q)
  <2> DEFINE n == Len(p.entries)
  <2>1. n + 1 # 1 /\ (n + 1) - 1 = n /\ n \in 1 .. n /\ 1 \in 1 .. n
    BY <1>6
  <2>2. ExpectedStart(p.entries, n + 1) = ExpectedStart(q.entries, n + 1)
    BY <1>4, <2>1 DEF ExpectedStart
  <2>3. /\ Sum(p).entry_chain_head = Sum(p).entries_root[3]
        /\ Sum(q).entry_chain_head = Sum(q).entries_root[3]
    BY DEF summarize_ledger, entries_root
  <2> QED
    BY <1>3, <1>4, <1>5, <2>2, <2>3 DEF summarize_ledger
<1>8. Input(p) = Input(q)
  BY <1>7 DEF SameCommitment, DrawOf
<1>9. p.payouts = q.payouts
  BY <1>2, <1>7 DEF SameCommitment
<1>10. ASSUME NEW x, IsLedger(x.entries), LedgerAccepted(x.entries)
       PROVE  /\ Winner(x.entries, Ticket(x)) \in 1 .. Len(x.entries)
              /\ Owners(x.entries, Ticket(x)) = {Winner(x.entries, Ticket(x))}
  <2>1. Input(x).total_tickets = Sum(x).total_tickets /\ Input(x).entries_root = Sum(x).entries_root
    BY DEF DrawOf, DrawInput
  <2> HIDE DEF Input, Sum
  <2> QED
    BY <1>10, <2>1, DrawSound DEF Sum
<1>11. Owners(p.entries, Ticket(p)) = Owners(q.entries, Ticket(q))
  BY <1>4, <1>6, <1>8 DEF Owners, contains
<1>12. Winner(p.entries, Ticket(p)) = Winner(q.entries, Ticket(q))
  BY <1>2, <1>10, <1>11
<1>13. /\ p.draw.seed = q.draw.seed
       /\ p.draw.winning_ticket = q.draw.winning_ticket
       /\ p.draw.winner_ticket_range = q.draw.winner_ticket_range
  <2>1. p.entries[Winner(p.entries, Ticket(p))].data = q.entries[Winner(q.entries, Ticket(q))].data
    BY <1>2, <1>4, <1>10, <1>12
  <2> QED
    BY <1>2, <1>8, <2>1 DEF draw
<1>14. [k \in DOMAIN p.entries |-> p.entries[k].data] = [k \in DOMAIN q.entries |-> q.entries[k].data]
  BY <1>4, <1>6
<1> QED
  BY <1>2, <1>7, <1>9, <1>13, <1>14 DEF Outcome

-----------------------------------------------------------------------------
(* The ledger read back from its rows. *)

LedgerRow == [data : Data, entry_id : EntryIds, previous_entry_hash : Chain, entry_hash : Chain]

\* Cutting a time to microseconds does not change its milliseconds.
LEMMA TimeRoundTrip ==
  ASSUME NEW nanos \in Nat
  PROVE  unix_ms(timestamptz(nanos) * NANOS_PER_MICRO) = unix_ms(nanos)
BY DEF unix_ms, timestamptz, NANOS_PER_MICRO, NANOS_PER_MILLI

\* A row read back is an entry of the ledger.
LEMMA RowType ==
  ASSUME NEW row \in EntryRow
  PROVE  ledger_entry_from_row(row) \in LedgerRow
<1>1. row.settled_at \in Nat
  BY DEF EntryRow
<1>2. unix_ms(row.settled_at * NANOS_PER_MICRO) \in Nat
  BY <1>1 DEF unix_ms, NANOS_PER_MICRO, NANOS_PER_MILLI
<1> QED
  BY <1>2 DEF EntryRow, LedgerRow, Data, ledger_entry_from_row

RowsLedger(rows) == [k \in DOMAIN rows |-> ledger_entry_from_row(rows[k])]

\* The ledger is a sequence as long as the table.
LEMMA RowsLedgerType ==
  ASSUME NEW rows \in Seq(EntryRow)
  PROVE  /\ RowsLedger(rows) \in Seq(LedgerRow)
         /\ Len(RowsLedger(rows)) = Len(rows)
         /\ DOMAIN RowsLedger(rows) = 1 .. Len(rows)
         /\ IsLedger(RowsLedger(rows))
         /\ \A k \in 1 .. Len(rows) : RowsLedger(rows)[k] = ledger_entry_from_row(rows[k])
         /\ \A k \in 1 .. Len(rows) : RowsLedger(rows)[k].data.raffle_id = Raffle
         /\ RowsLedger(rows) = << >> <=> rows = << >>
<1> DEFINE L == RowsLedger(rows)
<1>1. Len(rows) \in Nat /\ DOMAIN rows = 1 .. Len(rows)
      /\ \A k \in 1 .. Len(rows) : rows[k] \in EntryRow
  OBVIOUS
<1>2. /\ DOMAIN L = 1 .. Len(rows)
      /\ \A k \in 1 .. Len(rows) : L[k] = ledger_entry_from_row(rows[k])
      /\ L \in [1 .. Len(rows) -> LedgerRow]
  BY <1>1, RowType DEF RowsLedger
<1>3. L \in Seq(LedgerRow) /\ Len(L) = Len(rows)
  BY <1>1, <1>2
<1>4. \A k \in 1 .. Len(rows) : L[k].data.raffle_id = Raffle
  BY <1>2 DEF ledger_entry_from_row
<1>5. IsLedger(L)
  BY <1>1, <1>2, <1>3 DEF IsLedger, LedgerRow, Data
<1>6. L = << >> <=> rows = << >>
  BY <1>3
<1> QED
  BY <1>2, <1>3, <1>4, <1>5, <1>6

\* The same of the entries table.
LEMMA LedgerType ==
  ASSUME entries \in Seq(EntryRow)
  PROVE  /\ Ledger \in Seq(LedgerRow)
         /\ Len(Ledger) = Len(entries)
         /\ DOMAIN Ledger = 1 .. Len(entries)
         /\ IsLedger(Ledger)
         /\ \A k \in 1 .. Len(entries) : Ledger[k] = ledger_entry_from_row(entries[k])
         /\ \A k \in 1 .. Len(entries) : Ledger[k].data.raffle_id = Raffle
         /\ Ledger = << >> <=> entries = << >>
<1>1. Ledger = RowsLedger(entries)
  BY DEF Ledger, RowsLedger
<1> QED
  BY <1>1, RowsLedgerType

\* What summarize_ledger finds is what the raffles row holds.
LEMMA LedgerSummary ==
  ASSUME TypeOK, LedgerInv, entries # << >>
  PROVE  /\ LedgerAccepted(Ledger)
         /\ summarize_ledger(Ledger) =
              [entry_count |-> Len(entries), total_tickets |-> raffle.total_tickets,
               total_pool_sats |-> raffle.total_pool_sats,
               entry_chain_head |-> raffle.entry_chain_head,
               entries_root |-> entries_root(Raffle, Len(entries), raffle.entry_chain_head)]
<1>1. entries \in Seq(EntryRow)
  BY DEF TypeOK
<1>2. Len(Ledger) = Len(entries) /\ 1 \in 1 .. Len(entries)
  BY <1>1, LedgerType
<1>3. Ledger[1].data.raffle_id = Raffle
  BY <1>1, <1>2, LedgerType
<1> QED
  BY <1>2, <1>3 DEF LedgerInv, summarize_ledger

\* A ledger that is frozen with its root can be drawn with any blocks.
LEMMA Drawable ==
  ASSUME DigestHypothesis, TypeOK, LedgerInv, entries # << >>,
         raffle.entries_root = entries_root(Raffle, Len(entries), raffle.entry_chain_head),
         NEW bitcoin, NEW ticket, ticket = draw(Ledger, StoredInput(bitcoin)).winning_ticket
  PROVE  /\ DrawAccepts(Ledger, StoredInput(bitcoin))
         /\ ticket \in Nat
         /\ Winner(Ledger, ticket) \in 1 .. Len(entries)
         /\ Owners(Ledger, ticket) = {Winner(Ledger, ticket)}
         /\ draw(Ledger, StoredInput(bitcoin)).winner_entry_id = entries[Winner(Ledger, ticket)].id
<1> DEFINE input == StoredInput(bitcoin)
<1>1. LedgerAccepted(Ledger) /\ IsLedger(Ledger) /\ Len(Ledger) = Len(entries)
  BY LedgerSummary, LedgerType DEF TypeOK
<1>2. input.total_tickets = summarize_ledger(Ledger).total_tickets
      /\ input.entries_root = summarize_ledger(Ledger).entries_root
  BY LedgerSummary DEF StoredInput, DrawInput
<1>3. /\ ticket = winning_ticket(draw_seed(input), input.total_tickets)
      /\ draw(Ledger, input).winner_entry_id = Ledger[Winner(Ledger, ticket)].entry_id
  BY DEF draw
<1> HIDE DEF input
<1>4. /\ DrawAccepts(Ledger, input)
      /\ ticket \in Nat
      /\ Winner(Ledger, ticket) \in 1 .. Len(entries)
      /\ Owners(Ledger, ticket) = {Winner(Ledger, ticket)}
  BY <1>1, <1>2, <1>3, DrawSound
<1>5. Ledger[Winner(Ledger, ticket)].entry_id = entries[Winner(Ledger, ticket)].id
  BY <1>4, LedgerType DEF TypeOK, ledger_entry_from_row
<1> QED
  BY <1>3, <1>4, <1>5 DEF input

-----------------------------------------------------------------------------
(* The inductive invariant. *)

\* It holds before the first entry.
LEMMA InitInv == Init => Inv
<1> SUFFICES ASSUME Init PROVE Inv
  OBVIOUS
<1> USE DrawProofAssumption
<1>1. PICK s \in Splits : raffle = [status |-> "OPEN", total_tickets |-> 0,
         total_pool_sats |-> 0, split |-> s, entry_chain_head |-> ZERO_HASH,
         entries_root |-> Null, close_block_height |-> Null, randomness_block_height |-> Null,
         randomness_block_hash |-> Null]
  BY DEF Init
<1>2. entries = << >> /\ draws = Null /\ proof = Null
      /\ payouts = [p \in Recipients |-> [amount_sats |-> 0, status |-> "absent"]]
  BY DEF Init
<1>3. ZERO_HASH \in Chain
  BY DEF ZERO_HASH, Chain
<1>4. TypeOK
  <2>1. payouts \in [Recipients -> [amount_sats : Nat, status : PayoutStatus]]
    BY <1>2 DEF PayoutStatus
  <2>2. entries \in Seq(EntryRow)
    BY <1>2
  <2> QED
    BY <1>1, <1>2, <1>3, <2>1, <2>2 DEF TypeOK, Status
<1>5. Ledger = << >> /\ Len(entries) = 0
  BY <1>2, <1>4, LedgerType DEF TypeOK
<1>6. LedgerInv
  BY <1>1, <1>2, <1>5, PoolSatsEmpty DEF LedgerInv, ExpectedStart, PreviousHash
<1>7. FreezeInv /\ DrawInv /\ ProofInv
  BY <1>1, <1>2 DEF FreezeInv, DrawInv, ProofInv, Drawn
<1> QED
  BY <1>4, <1>6, <1>7 DEF Inv

\* The types of a raffles row.
RaffleRow ==
  [status : Status, total_tickets : Nat, total_pool_sats : Nat, split : Splits,
   entry_chain_head : Chain, entries_root : Roots \cup {Null},
   close_block_height : Nat \cup {Null}, randomness_block_height : Nat \cup {Null},
   randomness_block_hash : BlockHashes \cup {Null}]

\* A new entry continues the ledger.
LEMMA SettleStep ==
  ASSUME Inv, NEW i \in Invoices, NEW id \in EntryIds, NEW n \in TicketCounts,
         NEW nanos \in Times, settle_invoice_and_append_entry(i, id, n, nanos)
  PROVE  Inv'
<1> USE DrawProofAssumption
<1> DEFINE d == NextData(i, n, nanos)
           e == LedgerEntry(d, raffle.entry_chain_head)
           row == EntryRowOf(id, e, nanos)
           x == ledger_entry_from_row(row)
<1>1. /\ TypeOK /\ LedgerInv /\ raffle.status = "OPEN"
      /\ raffle \in RaffleRow /\ entries \in Seq(EntryRow)
      /\ draws = Null /\ proof = Null
  BY DEF Inv, TypeOK, RaffleRow, settle_invoice_and_append_entry, DrawInv, Drawn
<1>2. n \in Nat /\ n > 0 /\ nanos \in Nat /\ Price * n \in Nat
  <2>1. n \in Nat /\ n > 0 /\ nanos \in Nat /\ Price \in Nat
    OBVIOUS
  <2> QED
    BY <2>1
<1>3. unix_ms(nanos) \in Nat /\ timestamptz(nanos) \in Nat
  BY <1>2 DEF unix_ms, timestamptz, NANOS_PER_MICRO, NANOS_PER_MILLI
<1>4. raffle.total_tickets \in Nat /\ raffle.total_pool_sats \in Nat
      /\ raffle.entry_chain_head \in Seq(Data) /\ Len(entries) \in Nat
  BY <1>1 DEF RaffleRow, Chain
<1>5. d \in Data /\ d.start < d.end /\ d.start = raffle.total_tickets /\ d.raffle_id = Raffle
      /\ d.entry_index = Len(entries) /\ d.end \in Nat /\ d.amount_sats \in Nat
  BY <1>2, <1>3, <1>4 DEF NextData, Data
<1>6. /\ e.data = d /\ e.previous_entry_hash = raffle.entry_chain_head
      /\ e.entry_hash = entry_hash(d, raffle.entry_chain_head) /\ e.entry_hash \in Chain
  BY <1>4, <1>5 DEF LedgerEntry, entry_hash, Chain
<1> HIDE DEF e
<1>7. row \in EntryRow /\ row.id = id
  BY <1>3, <1>4, <1>5, <1>6 DEF EntryRowOf, EntryRow, Data, Chain
<1>8. x.data = d /\ x.previous_entry_hash = raffle.entry_chain_head
      /\ x.entry_hash = entry_hash(d, raffle.entry_chain_head)
  <2>1. unix_ms(timestamptz(nanos) * NANOS_PER_MICRO) = unix_ms(nanos)
    BY <1>2, TimeRoundTrip
  <2> QED
    BY <1>6, <2>1 DEF ledger_entry_from_row, EntryRowOf, NextData
<1>9. x \in LedgerRow
  BY <1>7, RowType
<1>10. /\ entries' = Append(entries, row)
       /\ raffle' = [raffle EXCEPT !.total_tickets = e.data.end,
                                   !.total_pool_sats = @ + e.data.amount_sats,
                                   !.entry_chain_head = e.entry_hash]
       /\ UNCHANGED <<draws, payouts, proof>>
       /\ \A k \in DOMAIN entries : entries[k].id # id
  BY DEF settle_invoice_and_append_entry, e
<1> HIDE DEF row, d
<1>11. entries' \in Seq(EntryRow) /\ Len(entries') = Len(entries) + 1
       /\ entries'[Len(entries) + 1] = row /\ \A k \in 1 .. Len(entries) : entries'[k] = entries[k]
  BY <1>1, <1>7, <1>10
<1>12. Ledger \in Seq(LedgerRow) /\ Len(Ledger) = Len(entries) /\ IsLedger(Ledger)
       /\ (Ledger = << >> <=> entries = << >>)
       /\ \A k \in 1 .. Len(entries) : Ledger[k] = ledger_entry_from_row(entries[k])
  BY <1>1, LedgerType
<1>13. Ledger' = Append(Ledger, x)
  <2>1. Ledger' = RowsLedger(entries')
    BY DEF Ledger, RowsLedger
  <2>2. /\ Ledger' \in Seq(LedgerRow) /\ Len(Ledger') = Len(entries) + 1
        /\ \A k \in 1 .. Len(entries') : Ledger'[k] = ledger_entry_from_row(entries'[k])
    BY <1>11, <2>1, RowsLedgerType
  <2>3. /\ Append(Ledger, x) \in Seq(LedgerRow) /\ Len(Append(Ledger, x)) = Len(entries) + 1
        /\ Append(Ledger, x)[Len(entries) + 1] = x
        /\ \A k \in 1 .. Len(entries) : Append(Ledger, x)[k] = Ledger[k]
    BY <1>9, <1>12
  <2> HIDE DEF x
  <2>4. \A k \in 1 .. Len(entries) + 1 : Ledger'[k] = Append(Ledger, x)[k]
    <3> SUFFICES ASSUME NEW k \in 1 .. Len(entries) + 1
                 PROVE  Ledger'[k] = Append(Ledger, x)[k]
      OBVIOUS
    <3>1. CASE k = Len(entries) + 1
      <4>1. Ledger'[k] = ledger_entry_from_row(row)
        BY <1>11, <2>2, <3>1
      <4> QED
        BY <2>3, <3>1, <4>1 DEF x
    <3>2. CASE k \in 1 .. Len(entries)
      BY <1>11, <1>12, <2>2, <2>3, <3>2
    <3>3. ASSUME NEW m \in Nat, NEW l \in 1 .. m + 1
          PROVE  l = m + 1 \/ l \in 1 .. m
      OBVIOUS
    <3>4. k = Len(entries) + 1 \/ k \in 1 .. Len(entries)
      BY <1>4, <3>3
    <3> QED
      BY <3>1, <3>2, <3>4, Zenon
  <2> QED
    BY <2>2, <2>3, <2>4
<1> HIDE DEF x
<1>14. /\ LedgerAccepted(Ledger')
       /\ ExpectedStart(Ledger', Len(entries) + 2) = d.end
       /\ PreviousHash(Ledger', Len(entries) + 2) = x.entry_hash
  <2>1. Ledger # << >> => LedgerAccepted(Ledger) /\ Ledger[1].data.raffle_id = Raffle
    <3> SUFFICES ASSUME Ledger # << >> PROVE LedgerAccepted(Ledger) /\ Ledger[1].data.raffle_id = Raffle
      OBVIOUS
    <3>1. 1 \in 1 .. Len(entries)
      BY <1>12
    <3> QED
      BY <1>1, <1>12, <3>1, LedgerType DEF LedgerInv
  <2>2. /\ x.data.raffle_id = Raffle /\ x.data.entry_index = Len(Ledger)
        /\ x.data.start < x.data.end
        /\ x.data.start = ExpectedStart(Ledger, Len(Ledger) + 1)
        /\ x.previous_entry_hash = PreviousHash(Ledger, Len(Ledger) + 1)
        /\ x.entry_hash = entry_hash(x.data, x.previous_entry_hash)
    BY <1>1, <1>5, <1>8, <1>12 DEF LedgerInv
  <2> QED
    BY <1>8, <1>9, <1>12, <1>13, <2>1, <2>2, AcceptedAppend
<1>15. PoolSats(Ledger') = raffle.total_pool_sats + d.amount_sats
  <2>1. x.data.amount_sats \in Nat /\ x.data.start \in Nat /\ x.data.end \in Nat
    BY <1>9 DEF LedgerRow, Data
  <2> QED
    BY <1>1, <1>8, <1>9, <1>12, <1>13, <2>1, PoolSatsAppend DEF LedgerInv
<1>16. /\ raffle' \in RaffleRow /\ raffle'.status = "OPEN"
       /\ raffle'.total_tickets = d.end
       /\ raffle'.total_pool_sats = raffle.total_pool_sats + d.amount_sats
       /\ raffle'.entry_chain_head = x.entry_hash
  <2>1. raffle.total_pool_sats + d.amount_sats \in Nat
    BY <1>4, <1>5
  <2>2. raffle' = [raffle EXCEPT !.total_tickets = d.end,
                                 !.total_pool_sats = raffle.total_pool_sats + d.amount_sats,
                                 !.entry_chain_head = x.entry_hash]
    BY <1>1, <1>6, <1>8, <1>10 DEF RaffleRow
  <2>3. d.end \in Nat /\ x.entry_hash \in Chain
    BY <1>5, <1>6, <1>8
  <2> QED
    BY <1>1, <2>1, <2>2, <2>3 DEF RaffleRow
<1>17. TypeOK'
  BY <1>1, <1>10, <1>11, <1>16 DEF TypeOK, RaffleRow
<1>18. LedgerInv'
  <2>1. Len(entries') + 1 = Len(entries) + 2
    BY <1>4, <1>11
  <2>2. ASSUME NEW k \in DOMAIN entries', NEW l \in DOMAIN entries', entries'[k].id = entries'[l].id
        PROVE  k = l
    <3>1. DOMAIN entries' = 1 .. Len(entries) + 1 /\ DOMAIN entries = 1 .. Len(entries)
      BY <1>1, <1>11
    <3> QED
      BY <1>1, <1>4, <1>7, <1>10, <1>11, <2>2, <3>1 DEF LedgerInv
  <2> QED
    BY <1>14, <1>15, <1>16, <2>1, <2>2 DEF LedgerInv
<1>19. FreezeInv' /\ DrawInv' /\ ProofInv'
  BY <1>1, <1>10, <1>16 DEF FreezeInv, DrawInv, ProofInv, Drawn
<1> QED
  BY <1>17, <1>18, <1>19 DEF Inv

\* What all other steps leave alone: the rows of the ledger and the totals.
SameLedger ==
  /\ UNCHANGED entries
  /\ raffle'.total_tickets = raffle.total_tickets
  /\ raffle'.total_pool_sats = raffle.total_pool_sats
  /\ raffle'.entry_chain_head = raffle.entry_chain_head
  /\ raffle'.split = raffle.split

\* Steps that leave the ledger alone keep it accepted.
LEMMA SameLedgerInv ==
  ASSUME LedgerInv, SameLedger
  PROVE  LedgerInv' /\ Ledger' = Ledger
<1>1. Ledger' = Ledger
  BY DEF SameLedger, Ledger
<1> QED
  BY <1>1 DEF SameLedger, LedgerInv

\* Closing changes the status alone.
LEMMA CloseStep ==
  ASSUME Inv, schedule_due_closes
  PROVE  Inv'
<1>1. /\ TypeOK /\ LedgerInv /\ raffle \in RaffleRow /\ raffle.status = "OPEN"
      /\ draws = Null /\ proof = Null
  BY DEF Inv, TypeOK, RaffleRow, schedule_due_closes, DrawInv, Drawn
<1>2. /\ raffle' = [raffle EXCEPT !.status = "CLOSING"]
      /\ UNCHANGED <<entries, draws, payouts, proof>>
  BY DEF schedule_due_closes, SetStatus
<1>3. raffle' \in RaffleRow /\ raffle'.status = "CLOSING" /\ SameLedger
  BY <1>1, <1>2 DEF RaffleRow, SameLedger, Status
<1>4. TypeOK'
  BY <1>1, <1>2, <1>3 DEF TypeOK, RaffleRow
<1>5. LedgerInv'
  BY <1>1, <1>3, SameLedgerInv
<1>6. FreezeInv' /\ DrawInv' /\ ProofInv'
  BY <1>1, <1>2, <1>3 DEF FreezeInv, DrawInv, ProofInv, Drawn
<1> QED
  BY <1>4, <1>5, <1>6 DEF Inv

\* Freezing stores the root; a raffle without tickets has no entries.
LEMMA FreezeStep ==
  ASSUME Inv, freeze_raffle
  PROVE  Inv'
<1> DEFINE s == IF raffle.total_tickets = 0 THEN "CANCELLED" ELSE "RANDOMNESS_PENDING"
           root == entries_root(Raffle, Len(entries), raffle.entry_chain_head)
<1>1. /\ TypeOK /\ LedgerInv /\ raffle \in RaffleRow /\ raffle.status = "CLOSING"
      /\ draws = Null /\ proof = Null /\ entries \in Seq(EntryRow)
  BY DEF Inv, TypeOK, RaffleRow, freeze_raffle, DrawInv, Drawn
<1>2. /\ raffle' = [raffle EXCEPT !.status = s, !.entries_root = root]
      /\ UNCHANGED <<entries, draws, payouts, proof>>
  BY DEF freeze_raffle
<1>3. root \in Roots /\ s \in Status
  BY <1>1 DEF entries_root, Roots, RaffleRow, Status
<1>4. raffle' \in RaffleRow /\ raffle'.status = s /\ raffle'.entries_root = root /\ SameLedger
  <2> HIDE DEF s, root
  <2> QED
    BY <1>1, <1>2, <1>3 DEF RaffleRow, SameLedger
<1>5. TypeOK'
  BY <1>1, <1>2, <1>4 DEF TypeOK, RaffleRow
<1>6. LedgerInv'
  BY <1>1, <1>4, SameLedgerInv
<1>7. s = "RANDOMNESS_PENDING" => entries # << >>
  <2> SUFFICES ASSUME entries = << >> PROVE raffle.total_tickets = 0
    OBVIOUS
  <2>1. Len(entries) = 0
    OBVIOUS
  <2> QED
    BY <1>1, <2>1 DEF LedgerInv, ExpectedStart
<1>8. FreezeInv'
  <2>1. entries' = entries /\ raffle'.entry_chain_head = raffle.entry_chain_head
    BY <1>4 DEF SameLedger
  <2> QED
    BY <1>4, <1>7, <2>1 DEF FreezeInv, Drawn
<1>9. DrawInv' /\ ProofInv'
  BY <1>1, <1>2, <1>4 DEF DrawInv, ProofInv, Drawn
<1> QED
  BY <1>5, <1>6, <1>8, <1>9 DEF Inv

\* The draw stores what draw returns for the blocks it stores.
LEMMA DrawStep ==
  ASSUME DigestHypothesis, Inv, NEW h \in Heights, NEW hash \in BlockHashes,
         create_draw_and_payouts(h, hash)
  PROVE  Inv'
<1> USE DrawProofAssumption
<1> DEFINE input == StoredInput(Bitcoin(h, hash))
           result == draw(Ledger, input)
           amounts == allocate(raffle.split, raffle.total_pool_sats)
           d == [winning_ticket |-> result.winning_ticket,
                 winner_entry_id |-> result.winner_entry_id]
<1>1. /\ TypeOK /\ LedgerInv /\ raffle \in RaffleRow /\ raffle.status = "RANDOMNESS_PENDING"
      /\ proof = Null /\ entries \in Seq(EntryRow) /\ entries # << >>
      /\ raffle.entries_root = entries_root(Raffle, Len(entries), raffle.entry_chain_head)
  BY DEF Inv, TypeOK, RaffleRow, create_draw_and_payouts, DrawInv, FreezeInv, Drawn
<1>2. /\ raffle' = [raffle EXCEPT !.status = "PAYOUT_PENDING", !.close_block_height = h,
                                  !.randomness_block_height = h + Delay,
                                  !.randomness_block_hash = hash]
      /\ draws' = d /\ payouts' = PayoutsOf(amounts) /\ UNCHANGED <<entries, proof>>
  BY DEF create_draw_and_payouts
<1>3. h \in Nat /\ h + Delay \in Nat
  OBVIOUS
<1>4. /\ raffle' \in RaffleRow /\ raffle'.status = "PAYOUT_PENDING" /\ SameLedger
      /\ raffle'.close_block_height = h /\ raffle'.randomness_block_height = h + Delay
      /\ raffle'.randomness_block_hash = hash /\ raffle'.entries_root = raffle.entries_root
  BY <1>1, <1>2, <1>3 DEF RaffleRow, SameLedger, Status
<1>5. LedgerInv' /\ Ledger' = Ledger
  BY <1>1, <1>4, SameLedgerInv
<1>6. StoredInput(StoredBitcoin)' = input
  BY <1>4 DEF StoredInput, StoredBitcoin, Bitcoin, DrawInput, SameLedger
<1>7. /\ result.winning_ticket \in Nat
      /\ Winner(Ledger, result.winning_ticket) \in 1 .. Len(entries)
      /\ result.winner_entry_id = entries[Winner(Ledger, result.winning_ticket)].id
  BY <1>1, Drawable
<1>8. d \in Draw
  <2>1. ASSUME NEW k \in 1 .. Len(entries) PROVE entries[k].id \in EntryIds
    <3>1. entries[k] \in EntryRow
      BY <1>1
    <3> QED
      BY <3>1 DEF EntryRow
  <2>2. result.winner_entry_id \in EntryIds
    BY <1>7, <2>1
  <2> QED
    BY <1>7, <2>2 DEF Draw
<1>9. /\ \A p \in Recipients : amounts[p] \in Nat
      /\ payouts' \in [Recipients -> [amount_sats : Nat, status : PayoutStatus]]
      /\ \A p \in Recipients : payouts'[p].amount_sats = amounts[p]
  <2>1. raffle.split \in PayoutSplits /\ raffle.total_pool_sats \in Nat
    BY <1>1 DEF RaffleRow
  <2>2. \A p \in Recipients : amounts[p] \in Nat
    BY <2>1, AllocateTotal DEF Recipients
  <2> HIDE DEF amounts
  <2> QED
    BY <1>2, <2>2 DEF PayoutsOf, PayoutStatus
<1> HIDE DEF amounts, result
<1>10. TypeOK'
  BY <1>1, <1>2, <1>4, <1>8, <1>9 DEF TypeOK, RaffleRow
<1>11. FreezeInv'
  BY <1>1, <1>4 DEF FreezeInv, SameLedger
<1>12. DrawInv'
  <2>1. draw(Ledger, StoredInput(StoredBitcoin))' = result
    BY <1>5, <1>6 DEF result
  <2>2. allocate(raffle.split, raffle.total_pool_sats)' = amounts
    BY <1>4 DEF SameLedger, amounts
  <2> QED
    BY <1>2, <1>3, <1>4, <1>9, <2>1, <2>2 DEF DrawInv, Drawn
<1>13. ProofInv'
  BY <1>1, <1>2, <1>4 DEF ProofInv
<1> QED
  BY <1>5, <1>10, <1>11, <1>12, <1>13 DEF Inv

\* After the draw only the status and the status of payouts change.
LEMMA PayoutStep ==
  ASSUME Inv, NEW p \in Recipients, settle_payout(p)
  PROVE  Inv'
<1>1. /\ TypeOK /\ LedgerInv /\ raffle \in RaffleRow /\ raffle.status = "PAYOUT_PENDING"
      /\ FreezeInv /\ DrawInv /\ ProofInv
      /\ payouts \in [Recipients -> [amount_sats : Nat, status : PayoutStatus]]
  BY DEF Inv, TypeOK, RaffleRow, settle_payout
<1>2. proof = Null
  BY <1>1 DEF ProofInv
<1>3. /\ payouts' = [payouts EXCEPT ![p].status = "settled"]
      /\ UNCHANGED <<entries, draws, proof>>
      /\ \/ OthersSettled(p) /\ raffle' = [raffle EXCEPT !.status = "PAID_OUT"]
         \/ raffle' = raffle
  BY DEF settle_payout, SetStatus
<1>4. /\ raffle' \in RaffleRow /\ raffle'.status \in Drawn /\ SameLedger
      /\ raffle'.close_block_height = raffle.close_block_height
      /\ raffle'.randomness_block_height = raffle.randomness_block_height
      /\ raffle'.randomness_block_hash = raffle.randomness_block_hash
      /\ raffle'.entries_root = raffle.entries_root
      /\ (raffle'.status = "PAID_OUT" => OthersSettled(p))
  BY <1>1, <1>3 DEF RaffleRow, SameLedger, Status, Drawn
<1>5. LedgerInv' /\ Ledger' = Ledger
  BY <1>1, <1>4, SameLedgerInv
<1>6. /\ payouts' \in [Recipients -> [amount_sats : Nat, status : PayoutStatus]]
      /\ \A q \in Recipients : payouts'[q].amount_sats = payouts[q].amount_sats
      /\ \A q \in Recipients \ {p} : payouts'[q] = payouts[q]
      /\ payouts'[p].status = "settled"
  BY <1>1, <1>3 DEF PayoutStatus
<1>7. TypeOK'
  BY <1>1, <1>3, <1>4, <1>6 DEF TypeOK, RaffleRow
<1>8. FreezeInv'
  BY <1>1, <1>4 DEF FreezeInv, SameLedger, Drawn
<1>9. DrawInv'
  <2>1. draw(Ledger, StoredInput(StoredBitcoin))' = draw(Ledger, StoredInput(StoredBitcoin))
    BY <1>4, <1>5 DEF StoredInput, StoredBitcoin, SameLedger
  <2>2. allocate(raffle.split, raffle.total_pool_sats)' = allocate(raffle.split, raffle.total_pool_sats)
    BY <1>4 DEF SameLedger
  <2>3. raffle.status \in Drawn
    BY <1>1 DEF Drawn
  <2> QED
    BY <1>1, <1>3, <1>4, <1>6, <2>1, <2>2, <2>3 DEF DrawInv
<1>10. ProofInv'
  <2>1. proof' = Null
    BY <1>2, <1>3
  <2>2. ASSUME OthersSettled(p), NEW q \in Recipients PROVE payouts'[q].status # "pending"
    BY <1>6, <2>2 DEF OthersSettled
  <2> QED
    BY <1>4, <2>1, <2>2 DEF ProofInv
<1> QED
  BY <1>5, <1>7, <1>8, <1>9, <1>10 DEF Inv

\* The proof is stored with what the rows say.
LEMMA ProofStep ==
  ASSUME Inv, generate_terminal_proof
  PROVE  Inv'
<1>1. /\ TypeOK /\ LedgerInv /\ FreezeInv /\ DrawInv /\ ProofInv /\ raffle.status = "PAID_OUT"
      /\ proof' = ProofDocument(Payload) /\ UNCHANGED <<raffle, entries, draws, payouts>>
  BY DEF Inv, generate_terminal_proof
<1>2. Ledger' = Ledger /\ LedgerInv'
  BY <1>1, SameLedgerInv DEF SameLedger
<1>3. Payload' = Payload /\ draw(Ledger, StoredInput(StoredBitcoin))' = draw(Ledger, StoredInput(StoredBitcoin))
  BY <1>1, <1>2 DEF Payload, Freeze, StoredInput, StoredBitcoin
<1>4. TypeOK'
  BY <1>1 DEF TypeOK
<1>5. FreezeInv' /\ DrawInv' /\ ProofInv'
  BY <1>1, <1>3 DEF FreezeInv, DrawInv, ProofInv, Drawn
<1> QED
  BY <1>2, <1>4, <1>5 DEF Inv

\* Every step keeps the invariant.
LEMMA NextInv == DigestHypothesis /\ Inv /\ [Next]_vars => Inv'
<1> SUFFICES ASSUME DigestHypothesis, Inv, [Next]_vars PROVE Inv'
  OBVIOUS
<1>1. ASSUME NEW i \in Invoices, NEW id \in EntryIds, NEW n \in TicketCounts, NEW nanos \in Times,
             settle_invoice_and_append_entry(i, id, n, nanos)
      PROVE  Inv'
  BY <1>1, SettleStep
<1>2. ASSUME NEW h \in Heights, NEW hash \in BlockHashes, create_draw_and_payouts(h, hash)
      PROVE  Inv'
  BY <1>2, DrawStep
<1>3. ASSUME NEW p \in Recipients, settle_payout(p)
      PROVE  Inv'
  BY <1>3, PayoutStep
<1>4. CASE schedule_due_closes \/ freeze_raffle \/ generate_terminal_proof
  BY <1>4, CloseStep, FreezeStep, ProofStep
<1>5. CASE UNCHANGED vars
  <2>1. UNCHANGED <<raffle, entries, draws, payouts, proof>>
    BY <1>5 DEF vars
  <2>2. Ledger' = Ledger /\ LedgerInv'
    BY <2>1, SameLedgerInv DEF SameLedger, Inv
  <2>3. Payload' = Payload /\ draw(Ledger, StoredInput(StoredBitcoin))' = draw(Ledger, StoredInput(StoredBitcoin))
    BY <2>1, <2>2 DEF Payload, Freeze, StoredInput, StoredBitcoin
  <2> QED
    BY <2>1, <2>2, <2>3 DEF Inv, TypeOK, FreezeInv, DrawInv, ProofInv
<1> QED
  BY <1>1, <1>2, <1>3, <1>4, <1>5 DEF Next

-----------------------------------------------------------------------------
(* The theorems about DrawProof. *)

\* The inductive invariant holds in every reachable state.
THEOREM Invariance == DigestHypothesis => (Spec => []Inv)
<1> SUFFICES ASSUME DigestHypothesis PROVE Spec => []Inv
  OBVIOUS
<1>1. Inv /\ [Next]_vars => Inv'
  BY NextInv
<1> QED
  BY <1>1, InitInv, PTL DEF Spec

\* Every table of DrawProof has the types of its columns.
THEOREM TypeCorrect == DigestHypothesis => (Spec => []TypeOK)
<1>1. Inv => TypeOK
  BY DEF Inv
<1> QED
  BY <1>1, Invariance, PTL

\* A frozen raffle can be drawn with whatever blocks are selected
\* (create_draw_and_payouts never fails on its own ledger).
THEOREM AlwaysDrawable == DigestHypothesis => (Spec => []FrozenIsDrawable)
<1> SUFFICES ASSUME DigestHypothesis PROVE Spec => []FrozenIsDrawable
  OBVIOUS
<1>1. Inv => FrozenIsDrawable
  BY Drawable DEF Inv, FreezeInv, FrozenIsDrawable, Drawn
<1> QED
  BY <1>1, Invariance, PTL

\* What generate_terminal_proof puts together passes the verifier.
LEMMA PayloadVerified ==
  ASSUME DigestHypothesis, Inv, raffle.status \in Drawn
  PROVE  ProofGenerated
<1> USE DrawProofAssumption
<1> DEFINE sum == summarize_ledger(Ledger)
           input == StoredInput(StoredBitcoin)
<1>1. /\ TypeOK /\ LedgerInv /\ entries # << >> /\ entries \in Seq(EntryRow)
      /\ raffle.entries_root = entries_root(Raffle, Len(entries), raffle.entry_chain_head)
      /\ raffle.close_block_height \in Nat
      /\ raffle.randomness_block_height = raffle.close_block_height + Delay
  BY DEF Inv, TypeOK, FreezeInv, DrawInv
<1>2. LedgerAccepted(Ledger) /\ sum = Freeze
  BY <1>1, LedgerSummary DEF Freeze
<1>3. DrawAccepts(Ledger, input)
  BY <1>1, Drawable
<1>4. Payload = PayloadOf(Raffle, Ledger, raffle.split, StoredBitcoin)
  BY <1>2 DEF Payload, PayloadOf, Freeze, StoredInput
<1>5. IsLedger(Ledger) /\ Ledger[1].data.raffle_id = Raffle
  <2>1. 1 \in 1 .. Len(entries)
    BY <1>1
  <2> QED
    BY <1>1, <2>1, LedgerType
<1>6. /\ StoredBitcoin.close_block_height \in Nat
      /\ StoredBitcoin.randomness_block_height \in Nat
      /\ StoredBitcoin.close_block_height < StoredBitcoin.randomness_block_height
  <2>1. /\ StoredBitcoin.close_block_height = raffle.close_block_height
        /\ StoredBitcoin.randomness_block_height = raffle.close_block_height + Delay
    BY <1>1 DEF StoredBitcoin
  <2> QED
    BY <1>1, <2>1
<1>7. raffle.split \in PayoutSplits
  BY <1>1 DEF TypeOK
<1> QED
  BY <1>2, <1>3, <1>4, <1>5, <1>6, <1>7, HonestIsVerified DEF ProofGenerated

\* The proof of a paid-out raffle can always be generated
\* (generate_terminal_proof never ends with ProofInvalid).
THEOREM AlwaysProvable == DigestHypothesis => (Spec => []PaidOutIsProvable)
<1> SUFFICES ASSUME DigestHypothesis PROVE Spec => []PaidOutIsProvable
  OBVIOUS
<1>1. Inv => PaidOutIsProvable
  BY PayloadVerified DEF PaidOutIsProvable, Drawn
<1> QED
  BY <1>1, Invariance, PTL

\* The proof names the stored winner and the amounts of the payouts.
THEOREM ProofTellsTheDraw == DigestHypothesis => (Spec => []ProofNamesWinner)
<1> SUFFICES ASSUME DigestHypothesis PROVE Spec => []ProofNamesWinner
  OBVIOUS
<1>1. Inv => ProofNamesWinner
  <2> SUFFICES ASSUME Inv, proof # Null
               PROVE  /\ proof.payload.draw.winning_ticket = draws.winning_ticket
                      /\ proof.payload.draw.winner_entry_id = draws.winner_entry_id
                      /\ \A p \in Recipients : proof.payload.payouts[p] = payouts[p].amount_sats
    BY DEF ProofNamesWinner
  <2>1. raffle.status \in Drawn /\ proof.payload = Payload
    BY DEF Inv, ProofInv, Drawn, ProofDocument
  <2>2. /\ Payload.draw = draw(Ledger, StoredInput(StoredBitcoin))
        /\ Payload.payouts = allocate(raffle.split, raffle.total_pool_sats)
    BY DEF Payload
  <2> QED
    BY <2>1, <2>2 DEF Inv, DrawInv
<1> QED
  BY <1>1, Invariance, PTL

\* Exactly one entry owns the winning ticket, and it is the stored winner.
THEOREM WinnerIsUnique == DigestHypothesis => (Spec => []OneWinner)
<1> SUFFICES ASSUME DigestHypothesis PROVE Spec => []OneWinner
  OBVIOUS
<1>1. Inv => OneWinner
  <2> SUFFICES ASSUME Inv, draws # Null, NEW k \in DOMAIN entries
               PROVE  contains(Ledger[k].data, draws.winning_ticket) <=> entries[k].id = draws.winner_entry_id
    BY DEF OneWinner
  <2> DEFINE t == draws.winning_ticket
             w == Winner(Ledger, t)
  <2>1. /\ TypeOK /\ LedgerInv /\ entries # << >> /\ entries \in Seq(EntryRow)
        /\ raffle.entries_root = entries_root(Raffle, Len(entries), raffle.entry_chain_head)
        /\ t = draw(Ledger, StoredInput(StoredBitcoin)).winning_ticket
        /\ draws.winner_entry_id = draw(Ledger, StoredInput(StoredBitcoin)).winner_entry_id
    BY DEF Inv, TypeOK, FreezeInv, DrawInv
  <2>2. /\ w \in 1 .. Len(entries)
        /\ Owners(Ledger, t) = {w}
        /\ draws.winner_entry_id = entries[w].id
    BY <2>1, Drawable
  <2>3. k \in 1 .. Len(entries) /\ DOMAIN entries = 1 .. Len(entries) /\ DOMAIN Ledger = 1 .. Len(entries)
    BY <2>1, LedgerType
  <2> HIDE DEF t, w
  <2>4. contains(Ledger[k].data, t) <=> k = w
    BY <2>2, <2>3 DEF Owners
  <2>5. entries[k].id = entries[w].id <=> k = w
    BY <2>1, <2>2, <2>3 DEF LedgerInv
  <2> QED
    BY <2>2, <2>4, <2>5 DEF t
<1> QED
  BY <1>1, Invariance, PTL

\* The loop of winning_ticket neither favours nor excludes a ticket that the
\* raffle has sold.
THEOREM DrawIsFair == DigestHypothesis => (Spec => []TicketsEquallyLikely)
<1> SUFFICES ASSUME DigestHypothesis PROVE Spec => []TicketsEquallyLikely
  OBVIOUS
<1>1. TypeOK => TicketsEquallyLikely
  <2> SUFFICES ASSUME TypeOK PROVE TicketsEquallyLikely
    OBVIOUS
  <2>1. raffle.total_tickets \in Nat
    BY DEF TypeOK
  <2> QED
    BY <2>1, EveryTicketEquallyLikely DEF TicketsEquallyLikely
<1> QED
  BY <1>1, TypeCorrect, PTL

\* The altered payloads of OutcomeCommitted have well-formed ledgers.
LEMMA OtherLedgers ==
  ASSUME NEW es \in Seq(LedgerRow), es # << >>, NEW fs \in OtherEntries(es)
  PROVE  IsLedger(fs)
<1> DEFINE n == Len(es)
<1>1. n \in Nat /\ n # 0 /\ DOMAIN es = 1 .. n /\ 1 \in 1 .. n
  OBVIOUS
<1>2. ASSUME NEW k \in 1 .. n
      PROVE  /\ es[k].data.amount_sats \in Nat /\ es[k].data.start \in Nat
             /\ es[k].data.end \in Nat /\ es[k] \in LedgerRow /\ es[k].data \in Data
  <2>1. es[k] \in LedgerRow
    OBVIOUS
  <2> QED
    BY <2>1 DEF LedgerRow, Data
<1>3. ASSUME NEW T, NEW gs, NEW m \in Nat, gs \in [1 .. m -> T],
             \A k \in 1 .. m : /\ gs[k].data.amount_sats \in Nat
                               /\ gs[k].data.start \in Nat /\ gs[k].data.end \in Nat
      PROVE  IsLedger(gs)
  <2>1. gs \in Seq(T) /\ Len(gs) = m /\ DOMAIN gs = 1 .. m
    BY <1>3
  <2> QED
    BY <1>3, <2>1 DEF IsLedger
<1>4. CASE fs = es
  BY <1>1, <1>2, <1>4 DEF IsLedger
<1>5. CASE fs = SubSeq(es, 1, n - 1)
  <2>1. n - 1 \in Nat /\ \A k \in 1 .. n - 1 : k \in 1 .. n
    BY <1>1
  <2>2. fs = [k \in 1 .. n - 1 |-> es[k]]
    BY <1>1, <1>5, <2>1
  <2>3. fs \in [1 .. n - 1 -> LedgerRow]
    BY <1>2, <2>1, <2>2
  <2> QED
    BY <1>2, <1>3, <2>1, <2>2, <2>3
<1>6. CASE fs = [k \in DOMAIN es |-> es[n + 1 - k]]
  <2>1. \A k \in 1 .. n : n + 1 - k \in 1 .. n /\ fs[k] = es[n + 1 - k]
    BY <1>1, <1>6
  <2>2. fs \in [1 .. n -> LedgerRow]
    BY <1>1, <1>2, <1>6, <2>1
  <2>3. \A k \in 1 .. n : /\ fs[k].data.amount_sats \in Nat
                          /\ fs[k].data.start \in Nat /\ fs[k].data.end \in Nat
    <3> TAKE k \in 1 .. n
    <3>1. n + 1 - k \in 1 .. n /\ fs[k] = es[n + 1 - k]
      BY <2>1
    <3> QED
      BY <1>2, <3>1
  <2> QED
    BY <1>1, <1>3, <2>2, <2>3
<1>7. CASE fs = [k \in DOMAIN es |->
                   IF k = 1 THEN [es[k] EXCEPT !.data = Retimed(es[k].data)] ELSE es[k]]
  <2>0. ASSUME NEW d \in Data PROVE Retimed(d) \in Data
    BY DEF Data, Retimed
  <2>1. ASSUME NEW k \in 1 .. n PROVE Retimed(es[k].data) \in Data
    BY <1>2, <2>0
  <2>2. ASSUME NEW k \in 1 .. n PROVE fs[k] \in LedgerRow
    BY <1>1, <1>2, <1>7, <2>1 DEF LedgerRow
  <2>3. fs \in [1 .. n -> LedgerRow]
    BY <1>1, <1>7, <2>2
  <2>4. ASSUME NEW x \in LedgerRow
        PROVE  x.data.amount_sats \in Nat /\ x.data.start \in Nat /\ x.data.end \in Nat
    BY DEF LedgerRow, Data
  <2> QED
    BY <1>1, <1>3, <2>2, <2>3, <2>4
<1>8. CASE fs = Rechained(es)
  <2>1. ASSUME NEW k \in 1 .. n
        PROVE  /\ fs[k].data = Raised(es[k].data)
               /\ Raised(es[k].data) \in Data
    <3>1. fs[k] = [es[k] EXCEPT !.data = Raised(es[k].data), !.previous_entry_hash = Chained(es)[k - 1],
                                !.entry_hash = Chained(es)[k]]
      BY <1>1, <1>8 DEF Rechained
    <3>2. Raised(es[k].data) \in Data
      <4>1. ASSUME NEW d \in Data PROVE Raised(d) \in Data
        BY DEF Data, Raised
      <4> QED
        BY <1>2, <4>1
    <3> QED
      BY <1>2, <3>1, <3>2 DEF LedgerRow
  <2>2. fs = [k \in 1 .. n |-> fs[k]]
    BY <1>1, <1>8 DEF Rechained
  <2> DEFINE T == {fs[k] : k \in 1 .. n}
  <2>3. fs \in [1 .. n -> T]
    BY <2>2, Zenon
  <2>4. ASSUME NEW d \in Data PROVE d.amount_sats \in Nat /\ d.start \in Nat /\ d.end \in Nat
    BY DEF Data
  <2> HIDE DEF T
  <2> QED
    BY <1>1, <1>3, <2>1, <2>3, <2>4
<1>9. CASE fs = [k \in DOMAIN es |-> [es[k] EXCEPT !.entry_id = es[1].entry_id]]
  <2>1. \A k \in 1 .. n : fs[k] = [es[k] EXCEPT !.entry_id = es[1].entry_id]
    BY <1>1, <1>9
  <2>2. \A k \in 1 .. n : fs[k].data = es[k].data /\ fs[k] \in LedgerRow
    BY <1>1, <1>2, <2>1 DEF LedgerRow
  <2>3. fs \in [1 .. n -> LedgerRow]
    BY <1>1, <1>9, <2>1, <2>2
  <2> QED
    BY <1>1, <1>2, <1>3, <2>2, <2>3
<1> QED
  BY <1>4, <1>5, <1>6, <1>7, <1>8, <1>9 DEF OtherEntries

\* Altered documents that keep the commitment either fail to verify or say what
\* the generated one says (verify, applied to the altered documents).
THEOREM ProofIsCommitted == DigestHypothesis => (Spec => []OutcomeCommitted)
<1> SUFFICES ASSUME DigestHypothesis PROVE Spec => []OutcomeCommitted
  OBVIOUS
<1>1. Inv => OutcomeCommitted
  <2> DEFINE q == proof.payload
  <2> SUFFICES ASSUME Inv, proof # Null, NEW es \in OtherEntries(q.entries),
                      NEW d, NEW f, NEW a,
                      SameCommitment(Altered(q, es, d, f, a), q),
                      is_verified(ProofDocument(Altered(q, es, d, f, a)))
               PROVE  Outcome(Altered(q, es, d, f, a)) = Outcome(q)
    BY DEF OutcomeCommitted
  <2>1. raffle.status \in Drawn /\ q = Payload
    BY DEF Inv, ProofInv, Drawn, ProofDocument
  <2>2. is_verified(ProofDocument(q))
    BY <2>1, PayloadVerified DEF ProofGenerated
  <2>3. entries # << >> /\ entries \in Seq(EntryRow)
    BY <2>1 DEF Inv, TypeOK, FreezeInv
  <2>4. q.entries = Ledger /\ Ledger \in Seq(LedgerRow) /\ Ledger # << >> /\ IsLedger(Ledger)
    BY <2>1, <2>3, LedgerType DEF Payload
  <2>5. Altered(q, es, d, f, a).entries = es
    BY <2>1 DEF Payload, Altered
  <2>6. IsLedger(es)
    BY <2>4, OtherLedgers
  <2> HIDE DEF q
  <2> QED
    BY <2>2, <2>4, <2>5, <2>6, OutcomeIsCommitted
<1> QED
  BY <1>1, Invariance, PTL

-----------------------------------------------------------------------------
(* The theorems about PublicReads. *)

\* The clients read and change nothing, so all theorems above hold with them.
LEMMA ReadersDoNotMatter == PublicSpec => Spec
<1>1. PublicInit => Init
  BY DEF PublicInit
<1>2. [PublicNext]_allvars => [Next]_vars
  BY DEF PublicNext, allvars, ClientNext, public_pool, public_entries, public_result
<1> QED
  BY <1>1, <1>2, PTL DEF PublicSpec, Spec

\* A drawn raffle has a draws row.
LEMMA DrawnHasDraw ==
  ASSUME DigestHypothesis, Inv, raffle.status \in Drawn
  PROVE  draws # Null
<1> DEFINE result == draw(Ledger, StoredInput(StoredBitcoin))
<1>1. /\ TypeOK /\ LedgerInv /\ entries # << >> /\ entries \in Seq(EntryRow)
      /\ raffle.entries_root = entries_root(Raffle, Len(entries), raffle.entry_chain_head)
      /\ draws = [winning_ticket |-> result.winning_ticket, winner_entry_id |-> result.winner_entry_id]
  BY DEF Inv, TypeOK, FreezeInv, DrawInv
<1>2. /\ result.winning_ticket \in Nat
      /\ Winner(Ledger, result.winning_ticket) \in 1 .. Len(entries)
      /\ result.winner_entry_id = entries[Winner(Ledger, result.winning_ticket)].id
  BY <1>1, Drawable
<1>3. ASSUME NEW k \in 1 .. Len(entries) PROVE entries[k].id \in EntryIds
  <2>1. entries[k] \in EntryRow
    BY <1>1
  <2> QED
    BY <2>1 DEF EntryRow
<1>4. draws \in Draw
  BY <1>1, <1>2, <1>3 DEF Draw
<1> QED
  BY <1>4, DrawProofAssumption

\* A stored draw and PAID_OUT are final.
LEMMA DrawnStays ==
  ASSUME Inv, [Next]_vars
  PROVE  /\ raffle.status \in Drawn => raffle'.status \in Drawn /\ draws' = draws
         /\ raffle.status = "PAID_OUT" => raffle'.status = "PAID_OUT"
<1>1. raffle \in RaffleRow
  BY DEF Inv, TypeOK, RaffleRow
<1>2. CASE UNCHANGED vars
  BY <1>2 DEF vars
<1>3. ASSUME NEW p \in Recipients, settle_payout(p)
      PROVE  raffle.status # "PAID_OUT" /\ raffle'.status \in Drawn /\ draws' = draws
  BY <1>1, <1>3 DEF settle_payout, SetStatus, RaffleRow, Drawn
<1>4. CASE generate_terminal_proof
  BY <1>4 DEF generate_terminal_proof
<1>5. CASE \/ \E i \in Invoices, id \in EntryIds, n \in TicketCounts, nanos \in Times :
                settle_invoice_and_append_entry(i, id, n, nanos)
           \/ schedule_due_closes \/ freeze_raffle
           \/ \E h \in Heights, hash \in BlockHashes : create_draw_and_payouts(h, hash)
  <2>1. raffle.status \notin Drawn
    BY <1>5 DEF settle_invoice_and_append_entry, schedule_due_closes, freeze_raffle,
                create_draw_and_payouts, Drawn
  <2> QED
    BY <2>1 DEF Drawn
<1> QED
  BY <1>2, <1>3, <1>4, <1>5 DEF Next

\* One more query keeps what the earlier ones have found true.
LEMMA QueryStep ==
  ASSUME DigestHypothesis, Inv, ResultInv, public_result
  PROVE  ResultInv'
<1> USE DrawProofAssumption
<1> DEFINE k == client.read
           q == Queries[k + 1]
           r == client.result
<1>1. UNCHANGED <<raffle, entries, draws, payouts, proof>> /\ k < Len(Queries)
      /\ client' = [client EXCEPT !.step = "result", !.read = k + 1, !.result[q] = Answer(q)]
  BY DEF public_result, vars
<1>2. k \in 0 .. 3
  <2>1. Len(Queries) = 4
    BY DEF Queries
  <2> QED
    BY <1>1, <2>1 DEF ResultInv
<1>3. /\ client'.read = k + 1
      /\ client' = [step |-> client'.step, cursor |-> client'.cursor, pool |-> client'.pool,
                    pages |-> client'.pages, read |-> client'.read, result |-> client'.result]
      /\ client'.result = [r EXCEPT ![q] = Answer(q)]
  BY <1>1 DEF ResultInv
<1>4. CASE k = 0
  <2>1. q = "status" /\ Answer(q) = raffle.status
    BY <1>4 DEF Queries, Answer
  <2>2. client'.result = [r EXCEPT !.status = raffle.status]
    BY <1>3, <2>1
  <2> QED
    BY <1>1, <1>3, <1>4, <2>2 DEF ResultInv
<1>5. CASE k = 1
  <2>1. q = "winning_ticket" /\ Answer(q) = IF draws = Null THEN Null ELSE draws.winning_ticket
    BY <1>5 DEF Queries, Answer
  <2>2. client'.result = [r EXCEPT !.winning_ticket = Answer(q)]
    BY <1>3, <2>1
  <2>3. raffle.status \in Drawn => draws # Null
    BY DrawnHasDraw
  <2> QED
    BY <1>1, <1>3, <1>5, <2>1, <2>2, <2>3 DEF ResultInv
<1>6. CASE k = 2
  <2>1. q = "payout_statuses" /\ Answer(q) = [p \in Recipients |-> payouts[p].status]
    BY <1>6 DEF Queries, Answer
  <2>2. client'.result = [r EXCEPT !.payout_statuses = Answer(q)]
    BY <1>3, <2>1
  <2>3. raffle.status = "PAID_OUT" => \A p \in Recipients : Answer(q)[p] # "pending"
    BY <2>1 DEF Inv, ProofInv
  <2> QED
    BY <1>1, <1>3, <1>6, <2>2, <2>3 DEF ResultInv
<1>7. CASE k = 3
  <2>1. q = "proof_available"
    BY <1>7 DEF Queries
  <2>2. client'.result = [r EXCEPT !.proof_available = Answer(q)]
    BY <1>3, <2>1
  <2> QED
    BY <1>1, <1>3, <1>7, <2>2 DEF ResultInv
<1> QED
  BY <1>2, <1>4, <1>5, <1>6, <1>7

\* A result is never ahead of its facts (public_result).
THEOREM ResultsAreSupported == DigestHypothesis => (PublicSpec => []ResultSupported)
<1> SUFFICES ASSUME DigestHypothesis PROVE PublicSpec => []ResultSupported
  OBVIOUS
<1>1. PublicInit => ResultInv
  BY DEF PublicInit, ClientInit, NoResult, ResultInv
<1>2. Inv /\ ResultInv /\ [PublicNext]_allvars => ResultInv'
  <2> SUFFICES ASSUME Inv, ResultInv, [PublicNext]_allvars PROVE ResultInv'
    OBVIOUS
  <2>1. CASE [Next]_vars /\ UNCHANGED client
    <3>1. /\ raffle.status \in Drawn => raffle'.status \in Drawn /\ draws' = draws
          /\ raffle.status = "PAID_OUT" => raffle'.status = "PAID_OUT"
      BY <2>1, DrawnStays
    <3> QED
      BY <2>1, <3>1 DEF ResultInv
  <2>2. CASE public_pool
    <3>1. UNCHANGED <<raffle, draws>> /\ client'.read = client.read /\ client'.result = client.result
          /\ client' = [step |-> client'.step, cursor |-> client'.cursor, pool |-> client'.pool,
                        pages |-> client'.pages, read |-> client'.read, result |-> client'.result]
      BY <2>2 DEF public_pool, vars, ResultInv
    <3> QED
      BY <3>1 DEF ResultInv
  <2>3. CASE public_entries
    <3>1. UNCHANGED <<raffle, draws>> /\ client'.read = client.read /\ client'.result = client.result
          /\ client' = [step |-> client'.step, cursor |-> client'.cursor, pool |-> client'.pool,
                        pages |-> client'.pages, read |-> client'.read, result |-> client'.result]
      BY <2>3 DEF public_entries, vars, ResultInv
    <3> QED
      BY <3>1 DEF ResultInv
  <2>4. CASE public_result
    BY <2>4, QueryStep
  <2>5. CASE UNCHANGED allvars
    BY <2>1, <2>5 DEF allvars
  <2> QED
    BY <2>1, <2>2, <2>3, <2>4, <2>5 DEF PublicNext, ClientNext
<1>3. ResultInv => ResultSupported
  <2>1. Len(Queries) = 4
    BY DEF Queries
  <2> QED
    BY <2>1 DEF ResultInv, ResultSupported
<1> QED
  BY <1>1, <1>2, <1>3, Invariance, ReadersDoNotMatter, PTL DEF PublicSpec
-----------------------------------------------------------------------------
(* Pages. *)

\* A row's entry_index says how many rows were inserted before it.
LEMMA RowIndex ==
  ASSUME TypeOK, LedgerInv, NEW k \in 1 .. Len(entries)
  PROVE  entries[k].entry_index = k - 1
<1>1. entries \in Seq(EntryRow) /\ entries # << >>
  BY DEF TypeOK
<1>2. DOMAIN Ledger = 1 .. Len(entries) /\ Ledger[k] = ledger_entry_from_row(entries[k])
  BY <1>1, LedgerType
<1>3. Ledger[k].data.entry_index = k - 1
  BY <1>1, <1>2 DEF LedgerInv, LedgerAccepted, EntryAccepted
<1> QED
  BY <1>2, <1>3 DEF ledger_entry_from_row

\* The query of public_entries finds the entries that follow the cursor.
LEMMA RowsFound ==
  ASSUME TypeOK, LedgerInv, NEW c \in 0 .. Len(entries)
  PROVE  {k \in DOMAIN entries : entries[k].entry_index >= c} = c + 1 .. Len(entries)
<1> DEFINE L == Len(entries)
<1>1. L \in Nat /\ DOMAIN entries = 1 .. L
  BY DEF TypeOK
<1>2. \A k \in 1 .. L : entries[k].entry_index = k - 1
  BY RowIndex
<1> HIDE DEF L
<1>3. ASSUME NEW k \in 1 .. L PROVE k - 1 >= c <=> k \in c + 1 .. L
  BY <1>1 DEF L
<1>4. \A k \in c + 1 .. L : k \in 1 .. L
  BY <1>1 DEF L
<1>5. \A k : k \in {l \in DOMAIN entries : entries[l].entry_index >= c} <=> k \in c + 1 .. L
  BY <1>1, <1>2, <1>3, <1>4
<1> QED
  BY <1>5 DEF L

\* ORDER BY returns them in the order in which they were inserted.
LEMMA RowsOrdered ==
  ASSUME TypeOK, LedgerInv, NEW c \in 0 .. Len(entries)
  PROVE  Ordered(c + 1 .. Len(entries)) = [i \in 1 .. Len(entries) - c |-> entries[c + i]]
<1> DEFINE L == Len(entries)
           found == c + 1 .. L
<1>1. L \in Nat /\ c \in Nat /\ c <= L
  BY DEF TypeOK
<1>2. \A k \in 1 .. L : entries[k].entry_index = k - 1
  BY RowIndex
<1> HIDE DEF L
<1>3. Cardinality(found) = L - c
  <2>1. Cardinality(found) = IF c + 1 > L THEN 0 ELSE L - (c + 1) + 1
    BY <1>1, FS_Interval
  <2> QED
    BY <1>1, <2>1
<1>4. ASSUME NEW k \in found PROVE Cardinality(Before(found, k)) = k - 1 - c
  <2>1. k \in Nat /\ k \in 1 .. L /\ c + 1 <= k
    BY <1>1
  <2>2. \A l \in found : l \in 1 .. L
    BY <1>1
  <2>3. ASSUME NEW l \in found PROVE l - 1 < k - 1 <=> l \in c + 1 .. k - 1
    BY <1>1, <2>1
  <2>4. \A l \in c + 1 .. k - 1 : l \in found
    BY <1>1, <2>1
  <2> HIDE DEF found
  <2>5. \A l : l \in Before(found, k) <=> l \in c + 1 .. k - 1
    BY <1>2, <2>1, <2>2, <2>3, <2>4 DEF Before
  <2>6. Before(found, k) = c + 1 .. k - 1
    BY <2>5
  <2>7. Cardinality(c + 1 .. k - 1) = IF c + 1 > k - 1 THEN 0 ELSE (k - 1) - (c + 1) + 1
    BY <1>1, <2>1, FS_Interval
  <2> QED
    BY <1>1, <2>1, <2>6, <2>7
<1>5. ASSUME NEW i \in 1 .. L - c
      PROVE  (CHOOSE k \in found : Cardinality(Before(found, k)) = i - 1) = c + i
  <2>1. c + i \in found /\ (c + i) - 1 - c = i - 1
    BY <1>1
  <2>2. ASSUME NEW k \in found, Cardinality(Before(found, k)) = i - 1 PROVE k = c + i
    BY <1>1, <1>4, <2>2
  <2>3. Cardinality(Before(found, c + i)) = i - 1
    BY <1>4, <2>1
  <2> HIDE DEF found
  <2> QED
    BY <2>1, <2>2, <2>3
<1> HIDE DEF found
<1> DEFINE Place(i) == CHOOSE k \in found : Cardinality(Before(found, k)) = i - 1
<1>6. Ordered(found) = [i \in 1 .. L - c |-> entries[c + i]]
  <2>1. Ordered(found) = [i \in 1 .. Cardinality(found) |-> entries[Place(i)]]
    BY Zenon DEF Ordered
  <2>2. \A i \in 1 .. L - c : Place(i) = c + i
    BY <1>5
  <2> HIDE DEF Place
  <2> QED
    BY <1>3, <2>1, <2>2, Zenon
<1> QED
  BY <1>6 DEF found, L

\* A page, with the one row more that is asked for.
LEMMA PageRows ==
  ASSUME TypeOK, LedgerInv, NEW c \in 0 .. Len(entries), NEW n \in Nat,
         NEW rows, rows = RowsFrom(c, n)
  PROVE  /\ rows \in Seq(EntryRow)
         /\ Len(rows) = IF Len(entries) - c < n THEN Len(entries) - c ELSE n
         /\ \A i \in 1 .. Len(rows) : rows[i] = entries[c + i]
<1> DEFINE L == Len(entries)
           all == [i \in 1 .. L - c |-> entries[c + i]]
           m == IF L - c < n THEN L - c ELSE n
<1>1. L \in Nat /\ c \in Nat /\ c <= L /\ \A k \in 1 .. L : entries[k] \in EntryRow
  BY DEF TypeOK
<1>2. rows = First(all, n)
  BY RowsFound, RowsOrdered DEF RowsFrom
<1> HIDE DEF L
<1>3. L - c \in Nat /\ \A i \in 1 .. L - c : c + i \in 1 .. L
  BY <1>1
<1>4. all \in [1 .. L - c -> EntryRow]
  BY <1>1, <1>3
<1>5. all \in Seq(EntryRow) /\ Len(all) = L - c /\ \A i \in 1 .. L - c : all[i] = entries[c + i]
  <2>1. \A i \in 1 .. L - c : all[i] = entries[c + i]
    OBVIOUS
  <2>2. ASSUME NEW N \in Nat, NEW f \in [1 .. N -> EntryRow]
        PROVE  f \in Seq(EntryRow) /\ Len(f) = N
    OBVIOUS
  <2> HIDE DEF all
  <2>3. all \in Seq(EntryRow) /\ Len(all) = L - c
    BY <1>3, <1>4, <2>2
  <2> QED
    BY <2>1, <2>3
<1> HIDE DEF all
<1>6. rows = SubSeq(all, 1, m) /\ m \in Nat /\ m <= L - c
  <2>1. Len(all) = L - c
    BY <1>5
  <2>2. First(all, n) = SubSeq(all, 1, IF Len(all) < n THEN Len(all) ELSE n)
    BY Zenon DEF First
  <2>3. rows = SubSeq(all, 1, m)
    BY <1>2, <2>1, <2>2, Zenon
  <2>4. m \in Nat /\ m <= L - c
    BY <1>3
  <2> QED
    BY <2>3, <2>4
<1> HIDE DEF m
<1>7. rows \in Seq(EntryRow) /\ Len(rows) = m /\ \A i \in 1 .. m : rows[i] = all[i]
  BY <1>3, <1>5, <1>6
<1>8. \A i \in 1 .. m : i \in 1 .. L - c
  BY <1>3, <1>6
<1> QED
  BY <1>5, <1>7, <1>8 DEF m, L

\* Concatenation, place by place.
LEMMA Concatenation ==
  ASSUME NEW S, NEW s \in Seq(S), NEW t \in Seq(S)
  PROVE  /\ s \o t \in Seq(S) /\ Len(s \o t) = Len(s) + Len(t)
         /\ \A k \in 1 .. Len(s) : (s \o t)[k] = s[k]
         /\ \A k \in 1 .. Len(t) : (s \o t)[Len(s) + k] = t[k]
OBVIOUS

\* A page after the entries up to the cursor gives the entries up to its end.
LEMMA PageAppended ==
  ASSUME TypeOK, NEW pages, NEW c, Prefix(pages, c), NEW rows \in Seq(EntryRow), NEW m \in Nat,
         m <= Len(rows), c + m <= Len(entries), \A i \in 1 .. Len(rows) : rows[i] = entries[c + i]
  PROVE  Prefix(pages \o SubSeq(rows, 1, m), c + m)
<1> DEFINE page == SubSeq(rows, 1, m)
<1>1. c \in Nat /\ Len(entries) \in Nat /\ pages \in Seq(EntryRow) /\ Len(pages) = c
      /\ \A k \in 1 .. c : pages[k] = entries[k]
  BY DEF Prefix, TypeOK
<1>2. page \in Seq(EntryRow) /\ Len(page) = m /\ \A i \in 1 .. m : page[i] = rows[i]
  OBVIOUS
<1>3. \A i \in 1 .. m : i \in 1 .. Len(rows)
  OBVIOUS
<1>4. \A i \in 1 .. m : page[i] = entries[c + i]
  BY <1>2, <1>3
<1> HIDE DEF page
<1>5. /\ pages \o page \in Seq(EntryRow) /\ Len(pages \o page) = c + m
      /\ \A k \in 1 .. c : (pages \o page)[k] = pages[k]
      /\ \A k \in 1 .. m : (pages \o page)[c + k] = page[k]
  <2>1. /\ pages \o page \in Seq(EntryRow) /\ Len(pages \o page) = Len(pages) + Len(page)
        /\ \A k \in 1 .. Len(pages) : (pages \o page)[k] = pages[k]
        /\ \A k \in 1 .. Len(page) : (pages \o page)[Len(pages) + k] = page[k]
    <3>1. pages \in Seq(EntryRow) /\ page \in Seq(EntryRow)
      BY <1>1, <1>2
    <3> QED
      BY <3>1, Concatenation
  <2> QED
    BY <1>1, <1>2, <2>1
<1>6. ASSUME NEW k \in 1 .. c + m PROVE (pages \o page)[k] = entries[k]
  <2>1. CASE k <= c
    <3>1. k \in 1 .. c /\ (pages \o page)[k] = pages[k]
      BY <1>1, <1>5, <2>1
    <3> QED
      BY <1>1, <3>1
  <2>2. CASE ~(k <= c)
    <3>1. k - c \in 1 .. m /\ c + (k - c) = k
      BY <1>1, <2>2
    <3> QED
      BY <1>4, <1>5, <3>1
  <2> QED
    BY <2>1, <2>2
<1>7. c + m \in 0 .. Len(entries)
  BY <1>1
<1> QED
  BY <1>5, <1>6, <1>7 DEF Prefix, page

\* No step changes or removes an entry.
LEMMA EntriesGrow ==
  ASSUME TypeOK, [Next]_vars
  PROVE  /\ Len(entries) \in Nat /\ Len(entries') \in Nat /\ Len(entries) <= Len(entries')
         /\ \A k \in 1 .. Len(entries) : entries'[k] = entries[k]
<1>1. entries \in Seq(EntryRow)
  BY DEF TypeOK
<1>2. CASE UNCHANGED entries
  BY <1>1, <1>2
<1>3. ASSUME NEW i \in Invoices, NEW id \in EntryIds, NEW n \in TicketCounts, NEW nanos \in Times,
             settle_invoice_and_append_entry(i, id, n, nanos)
      PROVE  \E row : entries' = Append(entries, row)
  BY <1>3 DEF settle_invoice_and_append_entry
<1>4. ASSUME NEW row, entries' = Append(entries, row)
      PROVE  /\ Len(entries) \in Nat /\ Len(entries') \in Nat /\ Len(entries) <= Len(entries')
             /\ \A k \in 1 .. Len(entries) : entries'[k] = entries[k]
  <2>1. entries \in Seq(EntryRow \cup {row}) /\ row \in EntryRow \cup {row}
    BY <1>1
  <2> QED
    BY <1>4, <2>1
<1>5. UNCHANGED entries \/ \E row : entries' = Append(entries, row)
  BY <1>3 DEF Next, vars, schedule_due_closes, freeze_raffle, create_draw_and_payouts,
              settle_payout, generate_terminal_proof
<1> QED
  BY <1>2, <1>4, <1>5

\* What the client has been told of the ledger stays true.
LEMMA ToldStaysTrue ==
  ASSUME TypeOK, [Next]_vars, PagesInv, UNCHANGED client
  PROVE  PagesInv'
<1>1. /\ Len(entries) \in Nat /\ Len(entries') \in Nat /\ Len(entries) <= Len(entries')
      /\ \A k \in 1 .. Len(entries) : entries'[k] = entries[k]
  BY EntriesGrow
<1>2. ASSUME NEW n \in 0 .. Len(entries)
      PROVE  n \in 0 .. Len(entries') /\ (n # 0 => entries'[n] = entries[n])
             /\ \A k \in 1 .. n : entries'[k] = entries[k]
  BY <1>1
<1>3. ASSUME NEW pages, NEW n, Prefix(pages, n) PROVE Prefix(pages, n)'
  BY <1>2, <1>3 DEF Prefix
<1>4. ASSUME NEW pool, NEW n, PoolAfter(pool, n) PROVE PoolAfter(pool, n)'
  BY <1>2, <1>4 DEF PoolAfter
<1> QED
  BY <1>3, <1>4 DEF PagesInv

\* The pool that public_pool returns is the one after the last entry.
LEMMA PoolStep ==
  ASSUME TypeOK, LedgerInv, PagesInv, public_pool
  PROVE  PagesInv'
<1> DEFINE n == Len(entries)
<1>1. /\ client.step = "idle" /\ UNCHANGED entries
      /\ client' = [client EXCEPT !.step = "pages",
                      !.pool = [total_pool_sats |-> raffle.total_pool_sats,
                                total_tickets |-> raffle.total_tickets,
                                entry_chain_head |-> raffle.entry_chain_head]]
  BY DEF public_pool, vars
<1>2. /\ client' = [step |-> client'.step, cursor |-> client'.cursor, pool |-> client'.pool,
                    pages |-> client'.pages, read |-> client'.read, result |-> client'.result]
      /\ client'.step = "pages" /\ client'.cursor = 0 /\ client'.pages = << >>
      /\ client'.pool.total_tickets = raffle.total_tickets
      /\ client'.pool.entry_chain_head = raffle.entry_chain_head
  BY <1>1 DEF PagesInv
<1>3. n \in Nat /\ entries \in Seq(EntryRow) /\ n + 1 - 1 = n /\ (n + 1 = 1 <=> n = 0)
      /\ (n # 0 => n \in 1 .. n)
  BY DEF TypeOK
<1>4. n # 0 => Ledger[n].data.end = entries[n].ticket_end
               /\ Ledger[n].entry_hash = entries[n].entry_hash
  BY <1>3, LedgerType DEF ledger_entry_from_row
<1>5. /\ raffle.total_tickets = (IF n = 0 THEN 0 ELSE entries[n].ticket_end)
      /\ raffle.entry_chain_head = (IF n = 0 THEN ZERO_HASH ELSE entries[n].entry_hash)
  BY <1>3, <1>4 DEF LedgerInv, ExpectedStart, PreviousHash
<1>6. PoolAfter(client.pool, n)'
  <2>1. n' = n /\ n \in 0 .. n /\ entries' = entries
    BY <1>1, <1>3
  <2> QED
    BY <1>2, <1>5, <2>1 DEF PoolAfter
<1>7. Prefix(client.pages, client.cursor)'
  <2>1. << >> \in Seq(EntryRow) /\ Len(<< >>) = 0 /\ 0 \in 0 .. n /\ 1 .. 0 = {}
    BY <1>3
  <2>2. n' = n /\ client'.cursor = 0 /\ client'.pages = << >>
    BY <1>1, <1>2
  <2> HIDE DEF n
  <2>3. Prefix(client.pages, client.cursor)' <=>
          /\ client'.cursor \in 0 .. n'
          /\ client'.pages \in Seq(EntryRow) /\ Len(client'.pages) = client'.cursor
          /\ \A k \in 1 .. client'.cursor : client'.pages[k] = entries'[k]
    BY DEF Prefix, n
  <2> QED
    BY <2>1, <2>2, <2>3
<1>8. n' \in Nat
  BY <1>1, <1>3
<1> QED
  BY <1>2, <1>6, <1>7, <1>8 DEF PagesInv

\* One page: either there is another one and the client has the entries up to
\* its new cursor, or the client has them all.
LEMMA PageRead ==
  ASSUME TypeOK, LedgerInv, PagesInv, public_entries
  PROVE  /\ client' = [step |-> client'.step, cursor |-> client'.cursor, pool |-> client'.pool,
                       pages |-> client'.pages, read |-> client'.read, result |-> client'.result]
         /\ UNCHANGED entries /\ client.step = "pages" /\ client'.pool = client.pool
         /\ \/ client'.step = "pages" /\ Prefix(client'.pages, client'.cursor)
            \/ client'.step = "complete" /\ Prefix(client'.pages, Len(entries))
<1> DEFINE c == client.cursor
           L == Len(entries)
           rows == RowsFrom(c, Limit + 1)
<1>1. /\ client.step = "pages" /\ UNCHANGED entries
      /\ client' = [client EXCEPT
           !.pages = @ \o SubSeq(rows, 1, IF has_more(rows) THEN Limit ELSE Len(rows)),
           !.cursor = IF has_more(rows) THEN @ + Limit ELSE @,
           !.step = IF has_more(rows) THEN "pages" ELSE "complete"]
  BY DEF public_entries, vars
<1> HIDE DEF rows
<1>2. /\ client' = [step |-> client'.step, cursor |-> client'.cursor, pool |-> client'.pool,
                    pages |-> client'.pages, read |-> client'.read, result |-> client'.result]
      /\ client'.pool = client.pool
      /\ client'.pages
           = client.pages \o SubSeq(rows, 1, IF has_more(rows) THEN Limit ELSE Len(rows))
      /\ client'.cursor = IF has_more(rows) THEN c + Limit ELSE c
      /\ client'.step = IF has_more(rows) THEN "pages" ELSE "complete"
  BY <1>1 DEF PagesInv
<1>3. Prefix(client.pages, c)
  BY <1>1 DEF PagesInv
<1>4. L \in Nat /\ c \in 0 .. L /\ Limit \in Nat \ {0} /\ Limit + 1 \in Nat
  BY <1>3, PublicReadsAssumption DEF Prefix, TypeOK
<1>5. /\ rows \in Seq(EntryRow)
      /\ Len(rows) = IF L - c < Limit + 1 THEN L - c ELSE Limit + 1
      /\ \A i \in 1 .. Len(rows) : rows[i] = entries[c + i]
  <2>1. rows = RowsFrom(c, Limit + 1)
    BY DEF rows
  <2>2. c \in 0 .. Len(entries) /\ Limit + 1 \in Nat
    BY <1>4
  <2> HIDE DEF c
  <2> QED
    BY <2>1, <2>2, PageRows
<1>6. CASE has_more(rows)
  <2>1. Limit \in Nat /\ Limit <= Len(rows) /\ c + Limit <= L
    BY <1>4, <1>5, <1>6 DEF has_more
  <2>2. Prefix(client.pages \o SubSeq(rows, 1, Limit), c + Limit)
    BY <1>3, <1>5, <2>1, PageAppended
  <2> QED
    BY <1>1, <1>2, <1>6, <2>2
<1>7. CASE ~has_more(rows)
  <2>1. Len(rows) \in Nat /\ Len(rows) <= Len(rows) /\ c + Len(rows) = L /\ c + Len(rows) <= L
    BY <1>4, <1>5, <1>7 DEF has_more
  <2>2. Prefix(client.pages \o SubSeq(rows, 1, Len(rows)), c + Len(rows))
    BY <1>3, <1>5, <2>1, PageAppended
  <2> QED
    BY <1>1, <1>2, <1>7, <2>1, <2>2
<1> QED
  BY <1>6, <1>7

LEMMA PageStep ==
  ASSUME TypeOK, LedgerInv, PagesInv, public_entries
  PROVE  PagesInv'
<1>1. /\ client' = [step |-> client'.step, cursor |-> client'.cursor, pool |-> client'.pool,
                    pages |-> client'.pages, read |-> client'.read, result |-> client'.result]
      /\ UNCHANGED entries /\ client.step = "pages" /\ client'.pool = client.pool
      /\ \/ client'.step = "pages" /\ Prefix(client'.pages, client'.cursor)
         \/ client'.step = "complete" /\ Prefix(client'.pages, Len(entries))
  BY PageRead
<1>2. PICK n \in Nat : PoolAfter(client.pool, n)
  BY <1>1 DEF PagesInv
<1>3. PoolAfter(client.pool, n)' /\ n \in 0 .. Len(entries)
  BY <1>1, <1>2 DEF PoolAfter
<1>4. CASE client'.step = "pages" /\ Prefix(client'.pages, client'.cursor)
  <2>1. Prefix(client.pages, client.cursor)'
    BY <1>1, <1>4 DEF Prefix
  <2> QED
    BY <1>1, <1>3, <1>4, <2>1 DEF PagesInv
<1>5. CASE client'.step = "complete" /\ Prefix(client'.pages, Len(entries))
  <2>1. Len(client'.pages) = Len(entries) /\ n <= Len(client'.pages)
    BY <1>3, <1>5 DEF Prefix
  <2>2. Prefix(client.pages, Len(client.pages))'
    BY <1>1, <1>5, <2>1 DEF Prefix
  <2> QED
    BY <1>1, <1>3, <1>5, <2>1, <2>2 DEF PagesInv
<1> QED
  BY <1>1, <1>4, <1>5

\* What a client that reads pages has is a prefix of the ledger, at every moment.
THEOREM PagesInvariance == DigestHypothesis => (PublicSpec => []PagesInv)
<1> SUFFICES ASSUME DigestHypothesis PROVE PublicSpec => []PagesInv
  OBVIOUS
<1>1. PublicInit => PagesInv
  BY DEF PublicInit, ClientInit, PagesInv
<1>2. Inv /\ PagesInv /\ [PublicNext]_allvars => PagesInv'
  <2> SUFFICES ASSUME Inv, PagesInv, [PublicNext]_allvars PROVE PagesInv'
    OBVIOUS
  <2>0. TypeOK /\ LedgerInv
    BY DEF Inv
  <2>1. CASE [Next]_vars /\ UNCHANGED client
    BY <2>0, <2>1, ToldStaysTrue
  <2>2. CASE public_pool
    BY <2>0, <2>2, PoolStep
  <2>3. CASE public_entries
    BY <2>0, <2>3, PageStep
  <2>4. CASE public_result
    <3>1. client.step \in {"idle", "result"} /\ UNCHANGED entries
          /\ client' = [step |-> client'.step, cursor |-> client'.cursor, pool |-> client'.pool,
                        pages |-> client'.pages, read |-> client'.read, result |-> client'.result]
          /\ client'.step = "result"
      BY <2>4 DEF public_result, PagesInv, vars
    <3> QED
      BY <3>1 DEF PagesInv
  <2>5. CASE UNCHANGED allvars
    BY <2>1, <2>5 DEF allvars
  <2> QED
    BY <2>1, <2>2, <2>3, <2>4, <2>5 DEF PublicNext, ClientNext
<1> QED
  BY <1>1, <1>2, Invariance, ReadersDoNotMatter, PTL DEF PublicSpec

\* The pool that a client was told of is found again in the pages it reads later
\* (public_pool, public_entries).
THEOREM PoolIsInPages == DigestHypothesis => (PublicSpec => []PoolInPages)
<1> SUFFICES ASSUME DigestHypothesis PROVE PublicSpec => []PoolInPages
  OBVIOUS
<1>1. TypeOK /\ PagesInv => PoolInPages
  <2> SUFFICES ASSUME TypeOK, PagesInv, client.step = "complete", client.pool.total_tickets # 0
               PROVE  \E k \in DOMAIN client.pages :
                        /\ client.pages[k].entry_hash = client.pool.entry_chain_head
                        /\ client.pages[k].ticket_end = client.pool.total_tickets
    BY DEF PoolInPages
  <2>1. PICK n \in Nat : n <= Len(client.pages) /\ PoolAfter(client.pool, n)
    BY DEF PagesInv
  <2>2. Prefix(client.pages, Len(client.pages))
    BY DEF PagesInv
  <2>3. n # 0
    BY <2>1 DEF PoolAfter
  <2>4. n \in 1 .. Len(client.pages) /\ DOMAIN client.pages = 1 .. Len(client.pages)
    BY <2>1, <2>2, <2>3 DEF Prefix
  <2>5. client.pages[n] = entries[n]
    BY <2>2, <2>4 DEF Prefix
  <2> QED
    BY <2>1, <2>3, <2>4, <2>5 DEF PoolAfter
<1> QED
  BY <1>1, PagesInvariance, TypeCorrect, ReadersDoNotMatter, PTL

\* A client that is told that there is no further page has the whole ledger of
\* that moment, without gap or repetition (next_cursor, has_more).
THEOREM PagesAreComplete == DigestHypothesis => (PublicSpec => PagesComplete)
<1> SUFFICES ASSUME DigestHypothesis PROVE PublicSpec => PagesComplete
  OBVIOUS
<1> DEFINE Told == client.step # "complete" /\ client'.step = "complete" => client'.pages = entries
<1>1. Inv /\ PagesInv /\ [PublicNext]_allvars => [Told]_allvars
  <2> SUFFICES ASSUME Inv, PagesInv, [PublicNext]_allvars,
                      client.step # "complete", client'.step = "complete"
               PROVE  client'.pages = entries
    OBVIOUS
  <2>0. TypeOK /\ LedgerInv
    BY DEF Inv
  <2>1. public_entries
    <3>1. CASE public_pool
      BY <3>1 DEF public_pool, PagesInv
    <3>2. CASE public_result
      BY <3>2 DEF public_result, PagesInv
    <3>3. CASE UNCHANGED client
      BY <3>3
    <3> QED
      BY <3>1, <3>2, <3>3 DEF PublicNext, ClientNext, allvars
  <2>2. Prefix(client'.pages, Len(entries))
    BY <2>0, <2>1, PageRead
  <2>3. entries \in Seq(EntryRow) /\ client'.pages \in Seq(EntryRow)
        /\ Len(client'.pages) = Len(entries)
        /\ \A k \in 1 .. Len(entries) : client'.pages[k] = entries[k]
    BY <2>0, <2>2 DEF Prefix, TypeOK
  <2> QED
    BY <2>3
<1> QED
  BY <1>1, PagesInvariance, Invariance, ReadersDoNotMatter, PTL DEF PublicSpec, PagesComplete
=============================================================================
