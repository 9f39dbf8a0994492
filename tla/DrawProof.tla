----------------------------- MODULE DrawProof ------------------------------
(***************************************************************************)
(* What a raffle stores on its way from the first entry to the terminal    *)
(* proof, in full: the entry rows, the frozen root, the blocks, the draw   *)
(* and the proof document.  The proof is built from rows that were written *)
(* by five different transactions of different processes, days apart, and  *)
(* is checked by a verifier that has nothing but the document.             *)
(*                                                                         *)
(* The order in which the jobs get here, their retries and crashes are the *)
(* subject of Collection, DrawSelection and Settlement; each action here   *)
(* is the commit of the transaction it is named after, and a transaction   *)
(* that returns an error changes nothing.  One raffle, because no          *)
(* transaction reads the rows of another.                                  *)
(***************************************************************************)
EXTENDS Verifier, FiniteSets

CONSTANTS Raffle,
          Invoices, EntryIds,
          Price,         \* entry_price_sats
          TicketCounts,  \* ticket counts of invoices
          Times,         \* when a payment may be settled, in nanoseconds
          Splits,        \* payout_splits rows
          Heights,       \* heights of close blocks
          Delay,         \* randomness_delay_blocks
          BlockHashes,
          Null

VARIABLES raffle,        \* the raffles row
          entries,       \* the entries table, in insertion order
          draws,         \* the draws row
          payouts,       \* the payouts rows, by recipient_type
          proof          \* proof_json of the proofs row

vars == <<raffle, entries, draws, payouts, proof>>

Draw == [winning_ticket : Nat, winner_entry_id : EntryIds]

ASSUME DrawProofAssumption ==
  /\ Price \in Nat
  /\ TicketCounts \subseteq Nat \ {0}
  /\ Times \subseteq Nat
  /\ Splits \subseteq PayoutSplits
  /\ Heights \subseteq Nat
  /\ Delay \in Nat \ {0}
  /\ Null \notin Nat \cup EntryIds \cup BlockHashes \cup Draw

-----------------------------------------------------------------------------
(***************************************************************************)
(* Time.  now_utc() has nanoseconds, a TIMESTAMPTZ column microseconds     *)
(* (external: the driver drops the rest), and the hashed                   *)
(* settled_at_unix_ms is computed from the first when the entry is created *)
(* and from the second whenever it is read back.                           *)
(***************************************************************************)
NANOS_PER_MICRO == 1000
NANOS_PER_MILLI == 1000000

timestamptz(nanos) == nanos \div NANOS_PER_MICRO

unix_ms(nanos) == nanos \div NANOS_PER_MILLI

-----------------------------------------------------------------------------
Status == {"OPEN", "CLOSING", "RANDOMNESS_PENDING", "CANCELLED", "PAYOUT_PENDING", "PAID_OUT"}
Drawn == {"PAYOUT_PENDING", "PAID_OUT"}

Data == [raffle_id : {Raffle}, entry_index : Nat, invoice : Invoices, amount_sats : Nat,
         start : Nat, end : Nat, settled_at_unix_ms : Nat]
Chain == Seq(Data)
Roots == {Raffle} \X Nat \X Chain

EntryRow == [id : EntryIds, entry_index : Nat, invoice : Invoices, amount_sats : Nat,
             ticket_start : Nat, ticket_end : Nat, settled_at : Nat,
             previous_entry_hash : Chain, entry_hash : Chain]

Recipients == {"winner", "organizer", "platform"}
PayoutStatus == {"absent", "pending", "settled"}

TypeOK ==
  /\ raffle \in [status : Status, total_tickets : Nat, total_pool_sats : Nat, split : Splits,
                 entry_chain_head : Chain, entries_root : Roots \cup {Null},
                 close_block_height : Nat \cup {Null}, randomness_block_height : Nat \cup {Null},
                 randomness_block_hash : BlockHashes \cup {Null}]
  /\ entries \in Seq(EntryRow)
  /\ draws \in Draw \cup {Null}
  /\ payouts \in [Recipients -> [amount_sats : Nat, status : PayoutStatus]]

Init ==
  /\ raffle \in {[status |-> "OPEN", total_tickets |-> 0, total_pool_sats |-> 0, split |-> s,
                  entry_chain_head |-> ZERO_HASH, entries_root |-> Null,
                  close_block_height |-> Null, randomness_block_height |-> Null,
                  randomness_block_hash |-> Null] : s \in Splits}
  /\ entries = << >>
  /\ draws = Null
  /\ payouts = [p \in Recipients |-> [amount_sats |-> 0, status |-> "absent"]]
  /\ proof = Null

SetStatus(s) == raffle' = [raffle EXCEPT !.status = s]

-----------------------------------------------------------------------------
(* The ledger. *)

NextData(i, n, nanos) ==
  [raffle_id |-> Raffle, entry_index |-> Len(entries), invoice |-> i,
   amount_sats |-> Price * n, start |-> raffle.total_tickets,
   end |-> raffle.total_tickets + n, settled_at_unix_ms |-> unix_ms(nanos)]

EntryRowOf(id, e, nanos) ==
  [id |-> id, entry_index |-> e.data.entry_index, invoice |-> e.data.invoice,
   amount_sats |-> e.data.amount_sats, ticket_start |-> e.data.start,
   ticket_end |-> e.data.end, settled_at |-> timestamptz(nanos),
   previous_entry_hash |-> e.previous_entry_hash, entry_hash |-> e.entry_hash]

settle_invoice_and_append_entry(i, id, n, nanos) ==
  /\ raffle.status = "OPEN"
  /\ \A k \in DOMAIN entries : entries[k].invoice # i /\ entries[k].id # id
  /\ LET e == LedgerEntry(NextData(i, n, nanos), raffle.entry_chain_head)
     IN  /\ entries' = Append(entries, EntryRowOf(id, e, nanos))
         /\ raffle' = [raffle EXCEPT !.total_tickets = e.data.end,
                                     !.total_pool_sats = @ + e.data.amount_sats,
                                     !.entry_chain_head = e.entry_hash]
  /\ UNCHANGED <<draws, payouts, proof>>

schedule_due_closes ==
  /\ raffle.status = "OPEN"
  /\ SetStatus("CLOSING")
  /\ UNCHANGED <<entries, draws, payouts, proof>>

freeze_raffle ==
  /\ raffle.status = "CLOSING"
  /\ raffle' = [raffle EXCEPT
       !.status = IF raffle.total_tickets = 0 THEN "CANCELLED" ELSE "RANDOMNESS_PENDING",
       !.entries_root = entries_root(Raffle, Len(entries), raffle.entry_chain_head)]
  /\ UNCHANGED <<entries, draws, payouts, proof>>

-----------------------------------------------------------------------------
(* The draw and the proof, both from the rows as they are read back. *)

\* The settlement time comes from the column; entry_id is not hashed.
ledger_entry_from_row(row) ==
  [data |-> [raffle_id |-> Raffle, entry_index |-> row.entry_index, invoice |-> row.invoice,
             amount_sats |-> row.amount_sats, start |-> row.ticket_start,
             end |-> row.ticket_end,
             settled_at_unix_ms |-> unix_ms(row.settled_at * NANOS_PER_MICRO)],
   entry_id |-> row.id, previous_entry_hash |-> row.previous_entry_hash,
   entry_hash |-> row.entry_hash]

Ledger == [k \in DOMAIN entries |-> ledger_entry_from_row(entries[k])]

Bitcoin(close_height, hash) ==
  [close_block_height |-> close_height, randomness_block_height |-> close_height + Delay,
   randomness_block_hash |-> hash]

\* Mutant: the number of entries is taken for the number of tickets.
StoredInputEntries(bitcoin) ==
  DrawInput(Raffle, raffle.entries_root, bitcoin, Len(entries))

\* The draw's input as create_draw_and_payouts and generate_terminal_proof build it.
StoredInput(bitcoin) ==
  DrawInput(Raffle, raffle.entries_root, bitcoin, raffle.total_tickets)

\* Mutant: the platform's share is paid to the winner.
PayoutsWithoutPlatform(amounts) ==
  [p \in Recipients |->
     CASE p = "winner" -> [amount_sats |-> amounts.winner + amounts.platform, status |-> "pending"]
       [] p # "winner" -> [amount_sats |-> 0, status |-> "absent"]]

\* A row for every share that is not zero.
PayoutsOf(amounts) ==
  [p \in Recipients |-> [amount_sats |-> amounts[p],
                         status |-> IF amounts[p] > 0 THEN "pending" ELSE "absent"]]

create_draw_and_payouts(close_height, hash) ==
  LET input == StoredInput(Bitcoin(close_height, hash))
      result == draw(Ledger, input)
  IN  /\ raffle.status = "RANDOMNESS_PENDING"
      /\ DrawAccepts(Ledger, input)
      /\ draws' = [winning_ticket |-> result.winning_ticket,
                   winner_entry_id |-> result.winner_entry_id]
      /\ payouts' = PayoutsOf(allocate(raffle.split, raffle.total_pool_sats))
      /\ raffle' = [raffle EXCEPT !.status = "PAYOUT_PENDING",
                                  !.close_block_height = close_height,
                                  !.randomness_block_height = close_height + Delay,
                                  !.randomness_block_hash = hash]
      /\ UNCHANGED <<entries, proof>>

OthersSettled(p) == \A q \in Recipients \ {p} : payouts[q].status \in {"absent", "settled"}

\* A commit of settle_payout; how it gets there is in Settlement.  Its COUNT may
\* have missed the concurrent settlement of another payout.
settle_payout(p) ==
  /\ raffle.status = "PAYOUT_PENDING"
  /\ payouts[p].status = "pending"
  /\ payouts' = [payouts EXCEPT ![p].status = "settled"]
  /\ \/ OthersSettled(p) /\ SetStatus("PAID_OUT")
     \/ /\ ~OthersSettled(p) \/ \E q \in Recipients \ {p} : payouts[q].status = "settled"
        /\ UNCHANGED raffle
  /\ UNCHANGED <<entries, draws, proof>>

\* Mutant: the randomness block is recorded as the close block too.
StoredBitcoinSame ==
  [close_block_height |-> raffle.randomness_block_height,
   randomness_block_height |-> raffle.randomness_block_height,
   randomness_block_hash |-> raffle.randomness_block_hash]

StoredBitcoin ==
  [close_block_height |-> raffle.close_block_height,
   randomness_block_height |-> raffle.randomness_block_height,
   randomness_block_hash |-> raffle.randomness_block_hash]

Freeze == [entry_count |-> Len(entries), total_tickets |-> raffle.total_tickets,
           total_pool_sats |-> raffle.total_pool_sats,
           entry_chain_head |-> raffle.entry_chain_head, entries_root |-> raffle.entries_root]

Payload ==
  [protocol_version |-> PROTOCOL_VERSION, raffle_id |-> Raffle, payout_split |-> raffle.split,
   entries |-> Ledger, freeze |-> Freeze, bitcoin |-> StoredBitcoin,
   draw |-> draw(Ledger, StoredInput(StoredBitcoin)),
   payouts |-> allocate(raffle.split, raffle.total_pool_sats)]

\* The document is stored only if draw succeeds again and the verifier accepts it.
ProofGenerated ==
  /\ DrawAccepts(Ledger, StoredInput(StoredBitcoin))
  /\ is_verified(ProofDocument(Payload))

generate_terminal_proof ==
  /\ raffle.status = "PAID_OUT"
  /\ proof = Null
  /\ ProofGenerated
  /\ proof' = ProofDocument(Payload)
  /\ UNCHANGED <<raffle, entries, draws, payouts>>

-----------------------------------------------------------------------------
Next ==
  \/ \E i \in Invoices, id \in EntryIds, n \in TicketCounts, nanos \in Times :
       settle_invoice_and_append_entry(i, id, n, nanos)
  \/ schedule_due_closes
  \/ freeze_raffle
  \/ \E h \in Heights, hash \in BlockHashes : create_draw_and_payouts(h, hash)
  \/ \E p \in Recipients : settle_payout(p)
  \/ generate_terminal_proof

Spec == Init /\ [][Next]_vars

-----------------------------------------------------------------------------
(* What is checked. *)

\* A frozen raffle can be drawn with whatever blocks are selected: the ledger
\* read back from its columns passes every check of draw, and some entry owns
\* the winning ticket (create_draw_and_payouts; DrawSelection relies on it).
FrozenIsDrawable ==
  raffle.status = "RANDOMNESS_PENDING" =>
    \A h \in Heights, hash \in BlockHashes :
      DrawAccepts(Ledger, StoredInput(Bitcoin(h, hash)))

\* The proof of a paid-out raffle can be generated: draw succeeds a second time
\* and the document, put together from rows of five transactions, passes the
\* verifier, so generate_terminal_proof never ends with ProofInvalid.
PaidOutIsProvable == raffle.status = "PAID_OUT" => ProofGenerated

\* The proof, which computes draw and payouts again, names the winner and the
\* amounts that were stored with the draw and that the payouts were made from.
ProofNamesWinner ==
  proof # Null =>
    /\ proof.payload.draw.winning_ticket = draws.winning_ticket
    /\ proof.payload.draw.winner_entry_id = draws.winner_entry_id
    /\ \A p \in Recipients : proof.payload.payouts[p] = payouts[p].amount_sats

\* One entry owns the winning ticket, and it is the stored winner: find would
\* have returned the same one in any order.
OneWinner ==
  draws # Null =>
    \A k \in DOMAIN entries :
      contains(Ledger[k].data, draws.winning_ticket) <=> entries[k].id = draws.winner_entry_id

\* Every ticket wins for the same number of digests, give or take one: the loop
\* of winning_ticket neither favours nor excludes a ticket.
TicketsEquallyLikely ==
  LET total == raffle.total_tickets
      Hits(t) == {d \in Digests : Remainder(d, total)[DigestLen] = t}
      fair == Cardinality(Digests) \div total
  IN  total # 0 => \A t \in 0 .. total - 1 : Cardinality(Hits(t)) \in {fair, fair + 1}

(***************************************************************************)
(* Payloads with the same root, blocks and split as a given one: entries   *)
(* are missing, out of order, relabelled or changed, with or without their *)
(* hashes computed anew; the draw is recomputed or names another ticket;   *)
(* totals and payouts are others.                                          *)
(***************************************************************************)
Raised(data) == [data EXCEPT !.amount_sats = @ + 1]

Retimed(data) == [data EXCEPT !.settled_at_unix_ms = @ + 1]

Chained(es) ==
  LET chain[k \in 0 .. Len(es)] ==
        IF k = 0 THEN ZERO_HASH ELSE entry_hash(Raised(es[k].data), chain[k - 1])
  IN  chain

Rechained(es) ==
  [k \in DOMAIN es |->
     [es[k] EXCEPT !.data = Raised(es[k].data), !.previous_entry_hash = Chained(es)[k - 1],
                   !.entry_hash = Chained(es)[k]]]

OtherEntries(es) ==
  {es, SubSeq(es, 1, Len(es) - 1), [k \in DOMAIN es |-> es[Len(es) + 1 - k]], Rechained(es),
   [k \in DOMAIN es |-> IF k = 1 THEN [es[k] EXCEPT !.data = Retimed(es[k].data)] ELSE es[k]],
   [k \in DOMAIN es |-> [es[k] EXCEPT !.entry_id = es[1].entry_id]]}

OtherDraws(p, es) ==
  {p.draw, [p.draw EXCEPT !.winning_ticket = @ + 1]}
    \cup (IF LedgerAccepted(es) THEN {draw(es, DrawOf(p, summarize_ledger(es)))} ELSE {})

OtherPayouts(a) == {a, [winner |-> 0, organizer |-> 0, platform |-> 0]}

Altered(p, es, d, f, a) == [p EXCEPT !.entries = es, !.draw = d, !.freeze = f, !.payouts = a]

OtherFreezes(f, es) == {f, [f EXCEPT !.total_pool_sats = PoolSats(es)]}

\* What a document says, apart from the ids of its entries, which no hash covers.
Outcome(p) ==
  [entries |-> [k \in DOMAIN p.entries |-> p.entries[k].data], seed |-> p.draw.seed,
   winning_ticket |-> p.draw.winning_ticket, range |-> p.draw.winner_ticket_range,
   freeze |-> p.freeze, payouts |-> p.payouts]

SameCommitment(p, q) ==
  /\ p.raffle_id = q.raffle_id
  /\ p.freeze.entries_root = q.freeze.entries_root
  /\ p.bitcoin = q.bitcoin
  /\ p.payout_split = q.payout_split

\* The frozen root, the blocks and the split commit to the result: a document
\* that has them and that the verifier accepts says what the generated one says.
OutcomeCommitted ==
  proof # Null =>
    LET q == proof.payload
    IN  \A es \in OtherEntries(q.entries) :
          \A d \in OtherDraws(q, es), f \in OtherFreezes(q.freeze, es), a \in OtherPayouts(q.payouts) :
            LET p == Altered(q, es, d, f, a)
            IN  SameCommitment(p, q) /\ is_verified(ProofDocument(p)) => Outcome(p) = Outcome(q)
=============================================================================
