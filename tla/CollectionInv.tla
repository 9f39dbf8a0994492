--------------------------- MODULE CollectionInv ----------------------------
(***************************************************************************)
(* The inductive invariant of Collection: what each process may rely on    *)
(* between two of its transactions, although every other process runs in   *)
(* between.                                                                *)
(***************************************************************************)
EXTENDS Collection

ReconcileJobs == {ReconcileJob(i, e) : i \in Invoices, e \in Events}
CloseJobs == {CloseJob(r) : r \in Raffles}

\* A worker is in the handler of the job it holds.
ControlInv ==
  \A w \in Workers :
    /\ held[w] \in WorkerJobs \cup {NoJob}
    /\ pc[w] = "idle" <=> held[w] = NoJob
    /\ pc[w] \in {"reference", "lookup", "settle", "late", "uncollectible"} =>
         held[w] \in ReconcileJobs
    /\ pc[w] \in {"count", "freeze"} => held[w] \in CloseJobs

\* How far an invoice can be, given the API handler that created it and the
\* provider's record of it.  Its amount stays the price times its tickets,
\* because a raffle that ever was open can no longer be edited.
InvoiceInv ==
  \A i \in Invoices :
    /\ invoices[i].status = "absent" <=> request[i] = "idle"
    /\ invoices[i].status # "absent" =>
         /\ invoices[i].raffle \in Raffles
         /\ raffles[invoices[i].raffle].status \notin BeforeOpen
         /\ invoices[i].ticket_count # 0
         /\ invoices[i].amount_sats =
              raffles[invoices[i].raffle].entry_price_sats * invoices[i].ticket_count
    /\ request[i] \in {"idle", "created"} => payment[i] = "none"
    /\ invoices[i].bolt11 => request[i] = "done"
    /\ payment[i] = "settled" => invoices[i].bolt11
    /\ invoices[i].status = "collection_failed" =>
         payment[i] = "expired" \/ (payment[i] = "none" /\ request[i] = "done")

\* What a worker has learnt in an earlier transaction of its handler still
\* holds when it acts on it: a terminal payment is final, a raffle never opens
\* again, and no invoice is created for it once it is closing.
HandlerInv ==
  \A w \in Workers :
    /\ pc[w] = "settle" => payment[HeldInvoice(w)] = "settled"
    /\ pc[w] = "late" => /\ payment[HeldInvoice(w)] = "settled"
                         /\ invoices[HeldInvoice(w)].status # "settled"
                         /\ raffles[invoices[HeldInvoice(w)].raffle].status \in AfterOpen
    /\ pc[w] = "uncollectible" => payment[HeldInvoice(w)] = "expired"
    /\ pc[w] = "freeze" => PendingOf(HeldRaffle(w)) = {}
    /\ held[w] \in CloseJobs => raffles[HeldRaffle(w)].status \in AfterOpen
    /\ held[w] \in CloseJobs /\ pc[w] = "ok" => raffles[HeldRaffle(w)].status # "CLOSING"

\* A raffle.close row exists only for a raffle past OPEN, a raffle.draw row only
\* for one that waits for its draw; and WorkScheduled.
JobInv ==
  /\ \A r \in Raffles :
       /\ jobs[CloseJob(r)].status # "absent" => raffles[r].status \in AfterOpen
       /\ jobs[DrawJob(r)].status # "absent" => raffles[r].status = "RANDOMNESS_PENDING"
  /\ WorkScheduled

\* The stored ledger of raffle r passes summarize_ledger, and the raffles row
\* holds what the next entry has to continue from.
ChainInv ==
  \A r \in Raffles :
    /\ \A k \in DOMAIN entries[r] : EntryAccepted(entries[r], k)
    /\ \A k \in DOMAIN entries[r] : entries[r][k].data.raffle_id = r
    /\ raffles[r].total_tickets = ExpectedStart(entries[r], Len(entries[r]) + 1)
    /\ raffles[r].entry_chain_head = PreviousHash(entries[r], Len(entries[r]) + 1)

\* PoolPriced, and a raffle that is not open yet has sold nothing.
PoolInv ==
  /\ PoolPriced
  /\ \A r \in Raffles : raffles[r].status \in BeforeOpen => raffles[r].total_tickets = 0

\* The root is set by freeze_raffle alone, from the final ledger.
RootInv ==
  \A r \in Raffles :
    /\ raffles[r].entries_root # Null =>
         raffles[r].status \in {"RANDOMNESS_PENDING", "CANCELLED"}
    /\ raffles[r].status = "RANDOMNESS_PENDING" =>
         raffles[r].entries_root = FrozenRoot(r) /\ raffles[r].total_tickets # 0

Inv ==
  /\ TypeOK
  /\ ControlInv
  /\ InvoiceInv
  /\ HandlerInv
  /\ JobInv
  /\ ChainInv
  /\ PoolInv
  /\ RootInv
  /\ EntryXorRefund
  /\ FrozenNoPending
=============================================================================
