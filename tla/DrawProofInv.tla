---------------------------- MODULE DrawProofInv ----------------------------
(* The inductive invariants of DrawProof and PublicReads. *)
EXTENDS PublicReads

\* The ledger read back is the one that was written, and the raffles row sums it up.
LedgerInv ==
  /\ entries # << >> => LedgerAccepted(Ledger)
  /\ raffle.total_tickets = ExpectedStart(Ledger, Len(entries) + 1)
  /\ raffle.entry_chain_head = PreviousHash(Ledger, Len(entries) + 1)
  /\ raffle.total_pool_sats = PoolSats(Ledger)
  /\ \A k, l \in DOMAIN entries : entries[k].id = entries[l].id => k = l

\* A raffle with sold tickets is frozen with the root of its ledger.
FreezeInv ==
  raffle.status \in {"RANDOMNESS_PENDING"} \cup Drawn =>
    /\ entries # << >>
    /\ raffle.entries_root = entries_root(Raffle, Len(entries), raffle.entry_chain_head)

\* What is stored of a draw is what draw returns for the stored blocks.
DrawInv ==
  /\ raffle.status \notin Drawn => draws = Null /\ proof = Null
  /\ raffle.status \in Drawn =>
       /\ raffle.close_block_height \in Nat
       /\ raffle.randomness_block_height = raffle.close_block_height + Delay
       /\ draws = [winning_ticket |-> draw(Ledger, StoredInput(StoredBitcoin)).winning_ticket,
                   winner_entry_id |-> draw(Ledger, StoredInput(StoredBitcoin)).winner_entry_id]
       /\ \A p \in Recipients :
            payouts[p].amount_sats = allocate(raffle.split, raffle.total_pool_sats)[p]

ProofInv ==
  /\ raffle.status = "PAID_OUT" => \A p \in Recipients : payouts[p].status # "pending"
  /\ proof # Null => raffle.status = "PAID_OUT" /\ proof = ProofDocument(Payload)

Inv == TypeOK /\ LedgerInv /\ FreezeInv /\ DrawInv /\ ProofInv

\* What public_result has read so far holds for ever.
ResultInv ==
  /\ client = [step |-> client.step, cursor |-> client.cursor, pool |-> client.pool,
               pages |-> client.pages, read |-> client.read, result |-> client.result]
  /\ client.result = [status |-> client.result.status,
                      winning_ticket |-> client.result.winning_ticket,
                      payout_statuses |-> client.result.payout_statuses,
                      proof_available |-> client.result.proof_available]
  /\ client.read \in 0 .. 4
  /\ client.read >= 1 /\ client.result.status \in Drawn => raffle.status \in Drawn
  /\ client.read >= 1 /\ client.result.status = "PAID_OUT" => raffle.status = "PAID_OUT"
  /\ client.read >= 2 /\ client.result.status \in Drawn =>
       client.result.winning_ticket = draws.winning_ticket
  /\ client.read >= 3 /\ client.result.status = "PAID_OUT" =>
       \A p \in Recipients : client.result.payout_statuses[p] # "pending"

\* The first n entries.
Prefix(pages, n) ==
  /\ n \in 0 .. Len(entries)
  /\ pages \in Seq(EntryRow) /\ Len(pages) = n
  /\ \A k \in 1 .. n : pages[k] = entries[k]

\* The pool as it was after n entries.
PoolAfter(pool, n) ==
  /\ n \in 0 .. Len(entries)
  /\ pool.total_tickets = (IF n = 0 THEN 0 ELSE entries[n].ticket_end)
  /\ pool.entry_chain_head = (IF n = 0 THEN ZERO_HASH ELSE entries[n].entry_hash)

\* A client that is reading pages has the entries up to its cursor, and the last
\* page ends no earlier than the pool it was told of.
PagesInv ==
  /\ client = [step |-> client.step, cursor |-> client.cursor, pool |-> client.pool,
               pages |-> client.pages, read |-> client.read, result |-> client.result]
  /\ client.step = "idle" => client.cursor = 0 /\ client.pages = << >>
  /\ client.step = "pages" =>
       Prefix(client.pages, client.cursor) /\ \E n \in Nat : PoolAfter(client.pool, n)
  /\ client.step = "complete" =>
       /\ Prefix(client.pages, Len(client.pages))
       /\ \E n \in Nat : n <= Len(client.pages) /\ PoolAfter(client.pool, n)
=============================================================================
