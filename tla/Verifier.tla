------------------------------ MODULE Verifier ------------------------------
(***************************************************************************)
(* The draw, the proof document and its verification: the functions of     *)
(* crates/openpool-protocol and crates/openpool-verifier that the worker   *)
(* uses to decide a raffle, and that anybody can use to check the result.  *)
(*                                                                         *)
(* Hashes are injective, as in Protocol.  Only the seed of the draw is     *)
(* also read as a number: Digest gives its bytes, DigestLen of them, each  *)
(* below Radix (32 bytes below 256 in the code).                           *)
(***************************************************************************)
EXTENDS Protocol

CONSTANTS Digest(_), DigestLen, Radix

Digests == [1 .. DigestLen -> 0 .. Radix - 1]

ASSUME DigestAssumption ==
  /\ DigestLen \in Nat \ {0}
  /\ Radix \in Nat \ {0}

PROTOCOL_VERSION == "OPENPOOL-1"

-----------------------------------------------------------------------------
(* draw *)

DrawInput(r, root, bitcoin, total) ==
  [raffle_id |-> r, entries_root |-> root,
   close_block_height |-> bitcoin.close_block_height,
   randomness_block_height |-> bitcoin.randomness_block_height,
   randomness_block_hash |-> bitcoin.randomness_block_hash, total_tickets |-> total]

draw_seed(input) ==
  <<input.raffle_id, input.entries_root, input.close_block_height,
    input.randomness_block_height, input.randomness_block_hash>>

\* Mutant: the bytes are added up.
RemainderSum(digest, total) ==
  LET remainder[k \in 0 .. DigestLen] ==
        IF k = 0 THEN 0 ELSE (remainder[k - 1] + digest[k]) % total
  IN  remainder

\* The loop over the bytes, most significant first: what is left after k of them.
\* It is less than total, a u64, so the u128 product does not overflow.
Remainder(digest, total) ==
  LET remainder[k \in 0 .. DigestLen] ==
        IF k = 0 THEN 0 ELSE (remainder[k - 1] * Radix + digest[k]) % total
  IN  remainder

winning_ticket(seed, total) == Remainder(Digest(seed), total)[DigestLen]

\* Mutant: the last ticket of a range belongs to the next entry as well.
ContainsEnd(data, ticket) == data.start <= ticket /\ ticket <= data.end

contains(data, ticket) == data.start <= ticket /\ ticket < data.end

Owners(es, ticket) == {k \in DOMAIN es : contains(es[k].data, ticket)}

\* draw returns an error otherwise: the ledger's, TotalTicketsMismatch,
\* EntriesRootMismatch, ZeroTickets or WinningEntryNotFound.
DrawAccepts(es, input) ==
  /\ LedgerAccepted(es)
  /\ summarize_ledger(es).total_tickets = input.total_tickets
  /\ summarize_ledger(es).entries_root = input.entries_root
  /\ input.total_tickets # 0
  /\ Owners(es, winning_ticket(draw_seed(input), input.total_tickets)) # {}

\* find: the first entry that contains the ticket.
Winner(es, ticket) ==
  CHOOSE k \in Owners(es, ticket) : \A l \in Owners(es, ticket) : k <= l

draw(es, input) ==
  LET ticket == winning_ticket(draw_seed(input), input.total_tickets)
      winner == es[Winner(es, ticket)]
  IN  [seed |-> draw_seed(input), winning_ticket |-> ticket,
       winner_entry_id |-> winner.entry_id,
       winner_ticket_range |-> <<winner.data.start, winner.data.end>>]

-----------------------------------------------------------------------------
(* The proof document. *)

\* JCS writes every field of the payload, entry ids included.
canonical_proof_json(p) ==
  <<p.bitcoin, p.draw, p.entries, p.freeze, p.payout_split, p.payouts,
    p.protocol_version, p.raffle_id>>

proof_hash(p) == <<"sha256", canonical_proof_json(p)>>

ProofDocument(p) == [payload |-> p, proof_hash |-> proof_hash(p)]

-----------------------------------------------------------------------------
(* verify: the codes of the issues it finds. *)

Issue(code, found) == IF found THEN {code} ELSE {}

DrawOf(p, summary) ==
  DrawInput(p.raffle_id, summary.entries_root, p.bitcoin, summary.total_tickets)

checked_total(amounts) == amounts.winner + amounts.organizer + amounts.platform

\* Mutant: the payouts are compared with the split, not with the ledger's pool.
PayoutsReconcileAlone(p, summary) ==
  /\ is_valid(p.payout_split)
  /\ allocate(p.payout_split, checked_total(p.payouts)) = p.payouts

PayoutsReconcile(p, summary) ==
  /\ is_valid(p.payout_split)
  /\ allocate(p.payout_split, summary.total_pool_sats) = p.payouts
  /\ checked_total(p.payouts) = summary.total_pool_sats

\* What is checked only of a ledger that summarize_ledger accepts.
LedgerIssues(p, summary) ==
  Issue("RaffleIdMismatch", p.entries[1].data.raffle_id # p.raffle_id)
    \cup Issue("FreezeMismatch", summary # p.freeze)
    \cup Issue("RandomnessHeightMismatch",
               p.bitcoin.randomness_block_height <= p.bitcoin.close_block_height)
    \cup Issue("DrawInvalid", ~(/\ DrawAccepts(p.entries, DrawOf(p, summary))
                                /\ draw(p.entries, DrawOf(p, summary)) = p.draw))
    \cup Issue("PayoutMismatch", ~PayoutsReconcile(p, summary))

verify(document) ==
  LET p == document.payload
  IN  Issue("ProtocolVersionMismatch", p.protocol_version # PROTOCOL_VERSION)
        \cup (IF LedgerAccepted(p.entries)
              THEN LedgerIssues(p, summarize_ledger(p.entries)) ELSE {"LedgerInvalid"})
        \cup Issue("ProofHashMismatch", proof_hash(p) # document.proof_hash)

is_verified(document) == verify(document) = {}
=============================================================================
