------------------------------ MODULE Protocol ------------------------------
(***************************************************************************)
(* The pure algorithms of crates/openpool-protocol: the hash-chained entry *)
(* ledger and the split of the pool.                                       *)
(*                                                                         *)
(* SHA-256 is modelled as an injective encoding of what is hashed: an      *)
(* entry hash is the sequence of the entry data hashed so far, the         *)
(* entries root the tuple of its three inputs.  Two hashes are equal       *)
(* exactly when the same values were hashed in the same order.             *)
(***************************************************************************)
EXTENDS Integers, Sequences

BASIS_POINTS_TOTAL == 10000

ZERO_HASH == << >>

(***************************************************************************)
(* What entry_hash covers of an entry.  `invoice' stands for               *)
(* payment_reference_hash (the hash of the invoice id) together with the   *)
(* participant that goes with it; entry_id is not hashed, and the          *)
(* settlement time adds nothing that a property tells apart.               *)
(***************************************************************************)
EntryData(R, I) ==
  [raffle_id : R, entry_index : Nat, invoice : I,
   amount_sats : Nat, start : Nat, end : Nat]

Hash(R, I) == Seq(EntryData(R, I))

entry_hash(data, previous) == Append(previous, data)

LedgerEntry(data, previous) ==
  [data |-> data, previous_entry_hash |-> previous,
   entry_hash |-> entry_hash(data, previous)]

entries_root(r, count, head) == <<r, count, head>>

(***************************************************************************)
(* summarize_ledger: the checks it makes of one entry, given what it       *)
(* carries over from the entry before, and the summary of a ledger that    *)
(* passes them all.  SatsOverflow is left out: the sum is at most the      *)
(* raffle's total_pool_sats, which fits a signed column (PoolPriced).      *)
(***************************************************************************)
ExpectedStart(es, k) == IF k = 1 THEN 0 ELSE es[k - 1].data.end

PreviousHash(es, k) == IF k = 1 THEN ZERO_HASH ELSE es[k - 1].entry_hash

EntryAccepted(es, k) ==
  /\ es[k].data.raffle_id = es[1].data.raffle_id
  /\ es[k].data.entry_index = k - 1
  /\ es[k].data.start < es[k].data.end
  /\ es[k].data.start = ExpectedStart(es, k)
  /\ es[k].previous_entry_hash = PreviousHash(es, k)
  /\ es[k].entry_hash = entry_hash(es[k].data, PreviousHash(es, k))

LedgerAccepted(es) == es # << >> /\ \A k \in DOMAIN es : EntryAccepted(es, k)

\* total_pool_sats after each entry: a recursive function, about which proofs can
\* reason by the least element for which a claim fails.
RunningPool(es) ==
  LET sum[k \in 0 .. Len(es)] == IF k = 0 THEN 0 ELSE sum[k - 1] + es[k].data.amount_sats
  IN  sum

PoolSats(es) == RunningPool(es)[Len(es)]

summarize_ledger(es) ==
  LET n == Len(es)
      head == PreviousHash(es, n + 1)
  IN  [entry_count |-> n, total_tickets |-> ExpectedStart(es, n + 1),
       total_pool_sats |-> PoolSats(es), entry_chain_head |-> head,
       entries_root |-> entries_root(es[1].data.raffle_id, n, head)]

(***************************************************************************)
(* PayoutSplit.  The products are computed in 128 bits, so they are exact; *)
(* the platform gets what the two floors leave, by unsigned subtraction.   *)
(***************************************************************************)
is_valid(split) == split.winner + split.organizer + split.platform = BASIS_POINTS_TOTAL

PayoutSplits ==
  {s \in [winner : 0 .. BASIS_POINTS_TOTAL, organizer : 0 .. BASIS_POINTS_TOTAL,
          platform : 0 .. BASIS_POINTS_TOTAL] : is_valid(s)}

Share(pool, bps) == (pool * bps) \div BASIS_POINTS_TOTAL

\* Mutant: the winner's share is not subtracted.
allocate_remainder(split, pool) ==
  [winner |-> Share(pool, split.winner), organizer |-> Share(pool, split.organizer),
   platform |-> pool - Share(pool, split.organizer)]

allocate(split, pool) ==
  LET winner == Share(pool, split.winner)
      organizer == Share(pool, split.organizer)
  IN  [winner |-> winner, organizer |-> organizer,
       platform |-> pool - winner - organizer]
=============================================================================
