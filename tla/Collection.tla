----------------------------- MODULE Collection -----------------------------
(***************************************************************************)
(* From draft to frozen ledger.  Organizers create and open raffles;       *)
(* participants request invoices from the API, which records a row, asks   *)
(* the payment provider for a collection and stores its bolt11; the        *)
(* provider reports by webhook; workers reconcile each payment into the    *)
(* raffle's entry ledger or into a refund, close the raffle when its end   *)
(* time has passed and freeze the ledger the draw will use.                *)
(*                                                                         *)
(* One action is one database transaction or one call to the provider:     *)
(* every transaction of persistence_sqlx.rs locks the invoice row, the     *)
(* raffle row or both FOR UPDATE before it decides, so it takes effect at  *)
(* its commit.  Between two actions of a handler every other process may   *)
(* run, and the process may die or its call may fail.                      *)
(*                                                                         *)
(* audit_events, outbox_events and webhook_events are not modelled: no     *)
(* code reads the first two, and a webhook_events row is inserted in the   *)
(* transaction that inserts the payment.reconcile job of the same event.   *)
(***************************************************************************)
EXTENDS Protocol

CONSTANTS Raffles, Invoices,
          Events,        \* the provider events of one payment
          Prices,        \* entry prices an organizer may set
          TicketCounts,  \* ticket counts a participant may ask for
          MaxI64,        \* the largest value of a BIGINT column
          Workers, NoWorker, NoJob, Null

VARIABLES raffles,       \* raffles table
          entries,       \* entries table, per raffle, in insertion order
          invoices,      \* invoices table
          refunds,       \* the invoices with a 'late_settlement' refunds row
          payment,       \* the provider's record of the collection (external)
          request,       \* the API handler create_invoice working on an invoice
          jobs, held,    \* the jobs table and the job each worker executes
          pc             \* where in reconcile_payment each worker is

ReconcileJob(i, e) == <<"payment.reconcile", <<i, e>>>>
CloseJob(r) == <<"raffle.close", r>>
DrawJob(r) == <<"raffle.draw", r>>

WorkerJobs == {ReconcileJob(i, e) : i \in Invoices, e \in Events}
                \cup {CloseJob(r) : r \in Raffles}

\* raffle.draw rows are inserted here and executed by the draw component.
CollectionJobs == WorkerJobs \cup {DrawJob(r) : r \in Raffles}

ASSUME CollectionAssumption ==
  /\ MaxI64 \in Nat
  /\ Prices \subseteq 1 .. MaxI64
  /\ TicketCounts \subseteq Nat
  /\ Events \subseteq {"updated", "resolved"}
  /\ NoJob \notin CollectionJobs
  /\ NoWorker \notin Workers
  /\ Null \notin Raffles \X Nat \X Hash(Raffles, Invoices)

INSTANCE JobTable WITH Job <- CollectionJobs, Worker <- Workers

rows == <<raffles, entries, invoices, refunds>>
vars == <<rows, payment, request, jobs, held, pc>>

-----------------------------------------------------------------------------
RaffleStatus == {"absent", "DRAFT", "SCHEDULED", "OPEN", "CLOSING",
                 "RANDOMNESS_PENDING", "CANCELLED"}
BeforeOpen == {"absent", "DRAFT", "SCHEDULED"}
AfterOpen == {"CLOSING", "RANDOMNESS_PENDING", "CANCELLED"}

InvoiceStatus == {"absent", "pending", "settled", "ineligible", "collection_failed"}

\* "expired" stands for PaymentState::Failed and PaymentState::Expired, which
\* every caller treats alike.
PaymentState == {"none", "pending", "settled", "expired"}
Terminal == {"settled", "expired"}

RequestStep == {"idle", "created", "quoted", "done"}
WorkerStep == {"idle", "reference", "lookup", "settle", "late", "uncollectible",
               "count", "freeze", "ok", "err"}
Running == WorkerStep \ {"idle", "err"}

Root == Raffles \X Nat \X Hash(Raffles, Invoices)

Row == [status : RaffleStatus, entry_price_sats : Nat, ended : BOOLEAN,
        total_tickets : Nat, total_pool_sats : Nat,
        entry_chain_head : Hash(Raffles, Invoices), entries_root : Root \cup {Null}]

InvoiceRow == [status : InvoiceStatus, raffle : Raffles \cup {Null},
               ticket_count : Nat, amount_sats : Nat, bolt11 : BOOLEAN]

Entry == [data : EntryData(Raffles, Invoices),
          previous_entry_hash : Hash(Raffles, Invoices),
          entry_hash : Hash(Raffles, Invoices)]

TypeOK ==
  /\ raffles \in [Raffles -> Row]
  /\ entries \in [Raffles -> Seq(Entry)]
  /\ invoices \in [Invoices -> InvoiceRow]
  /\ refunds \subseteq Invoices
  /\ payment \in [Invoices -> PaymentState]
  /\ request \in [Invoices -> RequestStep]
  /\ JobTypeOK
  /\ pc \in [Workers -> WorkerStep]

Init ==
  /\ raffles = [r \in Raffles |->
       [status |-> "absent", entry_price_sats |-> 0, ended |-> FALSE,
        total_tickets |-> 0, total_pool_sats |-> 0,
        entry_chain_head |-> ZERO_HASH, entries_root |-> Null]]
  /\ entries = [r \in Raffles |-> << >>]
  /\ invoices = [i \in Invoices |->
       [status |-> "absent", raffle |-> Null, ticket_count |-> 0,
        amount_sats |-> 0, bolt11 |-> FALSE]]
  /\ refunds = {}
  /\ payment = [i \in Invoices |-> "none"]
  /\ request = [i \in Invoices |-> "idle"]
  /\ JobInit
  /\ pc = [w \in Workers |-> "idle"]

-----------------------------------------------------------------------------
(* The organizer, and time. *)

SetRaffle(r, row) ==
  /\ raffles' = [raffles EXCEPT ![r] = row]
  /\ UNCHANGED <<entries, invoices, refunds, payment, request, jobs, held, pc>>

\* validated_raffle does not compare end_time with the clock.
create_draft_raffle(r, price, ended) ==
  /\ raffles[r].status = "absent"
  /\ SetRaffle(r, [raffles[r] EXCEPT !.status = "DRAFT", !.entry_price_sats = price,
                                     !.ended = ended])

\* Mutant: the terms can still be edited while entries are being sold.
update_raffle_while_open(r, price, ended) ==
  /\ raffles[r].status \in {"DRAFT", "SCHEDULED", "OPEN"}
  /\ SetRaffle(r, [raffles[r] EXCEPT !.entry_price_sats = price, !.ended = ended])

update_raffle(r, price, ended) ==
  /\ raffles[r].status \in {"DRAFT", "SCHEDULED"}
  /\ SetRaffle(r, [raffles[r] EXCEPT !.entry_price_sats = price, !.ended = ended])

\* Mutant: a raffle that is closing, or waits for its draw, can be cancelled.
MayTransitionLate(from, to) ==
  \/ from = "DRAFT" /\ to = "SCHEDULED"
  \/ from = "SCHEDULED" /\ to = "OPEN"
  \/ to = "CANCELLED" /\ from \notin {"absent", "CANCELLED"}

MayTransition(from, to) ==
  \/ from = "DRAFT" /\ to = "SCHEDULED"
  \/ from = "SCHEDULED" /\ to = "OPEN"
  \/ from \in {"DRAFT", "SCHEDULED", "OPEN"} /\ to = "CANCELLED"

transition_raffle(r, to) ==
  /\ MayTransition(raffles[r].status, to)
  /\ SetRaffle(r, [raffles[r] EXCEPT !.status = to])

EndTimePasses(r) ==
  /\ raffles[r].status # "absent" /\ ~raffles[r].ended
  /\ SetRaffle(r, [raffles[r] EXCEPT !.ended = TRUE])

-----------------------------------------------------------------------------
(***************************************************************************)
(* The API handler create_invoice.  It reads the clock (requested_at)      *)
(* before it takes the raffle's lock, so a request made in time may be     *)
(* recorded after the end time, as long as the raffle is still OPEN.  A    *)
(* refused request leaves no trace.                                        *)
(***************************************************************************)
\* Mutant: only the clock is checked, not the status.
AcceptsInvoiceByClock(r, late) == raffles[r].status \in {"OPEN", "CLOSING"} /\ ~late

AcceptsInvoice(r, late) == raffles[r].status = "OPEN" /\ ~late

create_collection_invoice(i, r, n, late) ==
  /\ request[i] = "idle"
  /\ late => raffles[r].ended
  /\ AcceptsInvoice(r, late)
  /\ n # 0 /\ n <= MaxI64
  /\ raffles[r].entry_price_sats * n <= MaxI64
  /\ invoices' = [invoices EXCEPT ![i] =
       [status |-> "pending", raffle |-> r, ticket_count |-> n,
        amount_sats |-> raffles[r].entry_price_sats * n, bolt11 |-> FALSE]]
  /\ request' = [request EXCEPT ![i] = "created"]
  /\ UNCHANGED <<raffles, entries, refunds, payment, jobs, held, pc>>

\* The provider opens a collection that the handler will accept.
create_collection(i) ==
  /\ request[i] = "created"
  /\ payment' = [payment EXCEPT ![i] = "pending"]
  /\ request' = [request EXCEPT ![i] = "quoted"]
  /\ UNCHANGED <<rows, jobs, held, pc>>

UnstoredInvoice(i) == invoices[i].status = "pending" /\ ~invoices[i].bolt11

\* The provider refused, or returned a collection the handler rejects.  The
\* participant never sees its bolt11, so nobody can pay it.
fail_collection_invoice(i) ==
  /\ request[i] = "created"
  /\ invoices' = IF UnstoredInvoice(i)
                 THEN [invoices EXCEPT ![i].status = "collection_failed"] ELSE invoices
  /\ request' = [request EXCEPT ![i] = "done"]
  /\ UNCHANGED <<raffles, entries, refunds, payment, jobs, held, pc>>

\* provider_payment_hash and bolt11 are written together.
store_collection_invoice(i) ==
  /\ request[i] = "quoted"
  /\ invoices' = IF UnstoredInvoice(i)
                 THEN [invoices EXCEPT ![i].bolt11 = TRUE] ELSE invoices
  /\ request' = [request EXCEPT ![i] = "done"]
  /\ UNCHANGED <<raffles, entries, refunds, payment, jobs, held, pc>>

\* The API process stops, or a database call of the handler fails.
ApiCrash(i) ==
  /\ request[i] \in {"created", "quoted"}
  /\ request' = [request EXCEPT ![i] = "done"]
  /\ UNCHANGED <<rows, payment, jobs, held, pc>>

-----------------------------------------------------------------------------
(***************************************************************************)
(* The provider (external).  A terminal state is final, and only an        *)
(* invoice whose bolt11 the API has returned can be paid.  "updated"       *)
(* events may come at any time, the "resolved" event once the payment is   *)
(* terminal; each may be delivered any number of times.                    *)
(***************************************************************************)
PaymentResolves(i, s) ==
  /\ payment[i] = "pending"
  /\ s = "settled" => invoices[i].bolt11
  /\ payment' = [payment EXCEPT ![i] = s]
  /\ UNCHANGED <<rows, request, jobs, held, pc>>

EventSent(i, e) ==
  /\ payment[i] # "none"
  /\ e = "resolved" => payment[i] \in Terminal

record_webhook_and_enqueue(i, e) ==
  /\ EventSent(i, e)
  /\ jobs' = Inserted({ReconcileJob(i, e)})
  /\ UNCHANGED <<rows, payment, request, held, pc>>

-----------------------------------------------------------------------------
(* The worker: the loop of run_jobs, and reconcile_payment. *)

DueRaffles == {r \in Raffles : raffles[r].status = "OPEN" /\ raffles[r].ended}

schedule_due_closes ==
  /\ \E w \in Workers : held[w] = NoJob
  /\ DueRaffles # {}
  /\ raffles' = [r \in Raffles |-> IF r \in DueRaffles
                                   THEN [raffles[r] EXCEPT !.status = "CLOSING"]
                                   ELSE raffles[r]]
  /\ jobs' = Inserted({CloseJob(r) : r \in DueRaffles})
  /\ UNCHANGED <<entries, invoices, refunds, payment, request, held, pc>>

FirstStep(j) == IF j[1] = "raffle.close" THEN "count" ELSE "reference"

claim_job(w, j) ==
  /\ claim(w, j)
  /\ pc' = [pc EXCEPT ![w] = FirstStep(j)]
  /\ UNCHANGED <<rows, payment, request>>

Goto(w, from, to) == pc[w] = from /\ pc' = [pc EXCEPT ![w] = to]

HeldInvoice(w) == held[w][2][1]
HeldRaffle(w) == held[w][2]

\* None when the invoice is no longer pending or has no provider_payment_hash:
\* the handler returns Ok.
ReferenceStep(i) ==
  IF invoices[i].status = "pending" /\ invoices[i].bolt11 THEN "lookup" ELSE "ok"

collection_payment_reference(w) ==
  /\ Goto(w, "reference", ReferenceStep(HeldInvoice(w)))
  /\ UNCHANGED <<rows, payment, request, jobs, held>>

\* Mutant: every state but Settled is taken for a failure.
LookupStepEager(s) == IF s = "settled" THEN "settle" ELSE "uncollectible"

\* Mutant: an expired payment is retried like a pending one.
LookupStepRetryExpired(s) == IF s = "settled" THEN "settle" ELSE "err"

LookupStep(s) ==
  CASE s = "settled" -> "settle"
    [] s = "expired" -> "uncollectible"
    [] s \notin Terminal -> "err"

get_payment(w) ==
  /\ Goto(w, "lookup", LookupStep(payment[HeldInvoice(w)]))
  /\ UNCHANGED <<rows, payment, request, jobs, held>>

\* Mutant: the first ticket is numbered after the last one, leaving a gap.
NextEntryGap(i) ==
  LET r == invoices[i].raffle
  IN  LedgerEntry([raffle_id |-> r, entry_index |-> Len(entries[r]), invoice |-> i,
                   amount_sats |-> invoices[i].amount_sats,
                   start |-> raffles[r].total_tickets + 1,
                   end |-> raffles[r].total_tickets + 1 + invoices[i].ticket_count],
                  raffles[r].entry_chain_head)

\* The entry that settle_invoice_and_append_entry creates for invoice i.
NextEntry(i) ==
  LET r == invoices[i].raffle
  IN  LedgerEntry([raffle_id |-> r, entry_index |-> Len(entries[r]), invoice |-> i,
                   amount_sats |-> invoices[i].amount_sats,
                   start |-> raffles[r].total_tickets,
                   end |-> raffles[r].total_tickets + invoices[i].ticket_count],
                  raffles[r].entry_chain_head)

Fits(i) ==
  LET r == invoices[i].raffle
  IN  /\ raffles[r].total_tickets + invoices[i].ticket_count <= MaxI64
      /\ raffles[r].total_pool_sats + invoices[i].amount_sats <= MaxI64

\* Mutant: a settled invoice is appended again when its job is retried.
MayAppendAgain(i) ==
  /\ invoices[i].status \in {"pending", "settled"}
  /\ raffles[invoices[i].raffle].status = "OPEN"

\* Mutant: the raffle's status is not read again under the lock.
MayAppendAnytime(i) == invoices[i].status = "pending"

MayAppend(i) ==
  invoices[i].status = "pending" /\ raffles[invoices[i].raffle].status = "OPEN"

\* Mutant: the pool is overwritten by the new amount instead of increased.
AppendEntryOverwritePool(i, e) ==
  LET r == invoices[i].raffle
  IN  /\ entries' = [entries EXCEPT ![r] = Append(@, e)]
      /\ invoices' = [invoices EXCEPT ![i].status = "settled"]
      /\ raffles' = [raffles EXCEPT ![r] =
           [raffles[r] EXCEPT !.total_tickets = e.data.end,
                              !.total_pool_sats = e.data.amount_sats,
                              !.entry_chain_head = e.entry_hash]]

AppendEntry(i, e) ==
  LET r == invoices[i].raffle
  IN  /\ entries' = [entries EXCEPT ![r] = Append(@, e)]
      /\ invoices' = [invoices EXCEPT ![i].status = "settled"]
      /\ raffles' = [raffles EXCEPT ![r] =
           [raffles[r] EXCEPT !.total_tickets = e.data.end,
                              !.total_pool_sats = raffles[r].total_pool_sats + e.data.amount_sats,
                              !.entry_chain_head = e.entry_hash]]

\* Mutant: RaffleNotOpen is an error like any other and is retried.
SettleStepNoRefund(i) == IF invoices[i].status = "settled" THEN "ok" ELSE "err"

\* The outcomes without an effect: the entry exists already, InvoiceNotEligible,
\* RaffleNotOpen (the handler goes on to the refund), IntegerOverflow.
SettleStep(i) ==
  IF invoices[i].status = "settled" THEN "ok"
  ELSE IF invoices[i].status = "pending" /\ raffles[invoices[i].raffle].status # "OPEN"
       THEN "late" ELSE "err"

settle_invoice_and_append_entry(w) ==
  /\ pc[w] = "settle"
  /\ LET i == HeldInvoice(w)
     IN  \/ /\ MayAppend(i) /\ Fits(i)
            /\ AppendEntry(i, NextEntry(i))
            /\ Goto(w, "settle", "ok")
         \/ /\ ~(MayAppend(i) /\ Fits(i))
            /\ Goto(w, "settle", SettleStep(i))
            /\ UNCHANGED <<entries, invoices, raffles>>
  /\ UNCHANGED <<refunds, payment, request, jobs, held>>

MarkPending(i, s) ==
  IF invoices[i].status = "pending" THEN [invoices EXCEPT ![i].status = s] ELSE invoices

mark_late_settlement_for_refund(w) ==
  /\ Goto(w, "late", "ok")
  /\ invoices' = MarkPending(HeldInvoice(w), "ineligible")
  /\ refunds' = refunds \cup {HeldInvoice(w)}
  /\ UNCHANGED <<raffles, entries, payment, request, jobs, held>>

mark_collection_uncollectible(w) ==
  /\ Goto(w, "uncollectible", "ok")
  /\ invoices' = MarkPending(HeldInvoice(w), "collection_failed")
  /\ UNCHANGED <<raffles, entries, refunds, payment, request, jobs, held>>

PendingOf(r) == {i \in Invoices : invoices[i].raffle = r /\ invoices[i].status = "pending"}

\* Mutant: a close that has to wait is reported as done.
CountStepGiveUp(r) == IF PendingOf(r) = {} THEN "freeze" ELSE "ok"

CountStep(r) == IF PendingOf(r) = {} THEN "freeze" ELSE "err"

pending_invoices(w) ==
  /\ Goto(w, "count", CountStep(HeldRaffle(w)))
  /\ UNCHANGED <<rows, payment, request, jobs, held>>

FrozenStatus(r) == IF raffles[r].total_tickets = 0 THEN "CANCELLED" ELSE "RANDOMNESS_PENDING"

DrawJobs(r) == IF raffles[r].total_tickets = 0 THEN {} ELSE {DrawJob(r)}

FrozenRoot(r) == entries_root(r, Len(entries[r]), raffles[r].entry_chain_head)

freeze_raffle(w) ==
  /\ pc[w] = "freeze"
  /\ LET r == HeldRaffle(w)
     IN  \/ /\ raffles[r].status = "CLOSING"
            /\ Goto(w, "freeze", "ok")
            /\ raffles' = [raffles EXCEPT ![r] =
                 [raffles[r] EXCEPT !.status = FrozenStatus(r),
                                    !.entries_root = FrozenRoot(r)]]
            /\ jobs' = Inserted(DrawJobs(r))
         \/ /\ raffles[r].status # "CLOSING"          \* InvalidStatus
            /\ Goto(w, "freeze", "err")
            /\ UNCHANGED <<raffles, jobs>>
  /\ UNCHANGED <<entries, invoices, refunds, payment, request, held>>

succeed_job(w) ==
  /\ Goto(w, "ok", "idle")
  /\ succeed(w)
  /\ UNCHANGED <<rows, payment, request>>

fail_or_retry_job(w) ==
  /\ Goto(w, "err", "idle")
  /\ fail_or_retry(w)
  /\ UNCHANGED <<rows, payment, request>>

\* A database or provider call of the handler fails; at "ok", the reply to a
\* commit that did take effect is lost.
HandlerError(w) ==
  /\ pc[w] \in Running
  /\ pc' = [pc EXCEPT ![w] = "err"]
  /\ UNCHANGED <<rows, payment, request, jobs, held>>

WorkerCrash(w) ==
  /\ Abandon(w)
  /\ pc' = [pc EXCEPT ![w] = "idle"]
  /\ UNCHANGED <<rows, payment, request>>

retry_operator_job(j) ==
  /\ retry_dead_job(j)
  /\ UNCHANGED <<rows, payment, request, pc>>

-----------------------------------------------------------------------------
OrganizerNext(r) ==
  \/ \E p \in Prices, ended \in BOOLEAN : create_draft_raffle(r, p, ended)
  \/ \E p \in Prices, ended \in BOOLEAN : update_raffle(r, p, ended)
  \/ \E s \in {"SCHEDULED", "OPEN", "CANCELLED"} : transition_raffle(r, s)
  \/ EndTimePasses(r)

ApiNext(i) ==
  \/ \E r \in Raffles, n \in TicketCounts, late \in BOOLEAN :
       create_collection_invoice(i, r, n, late)
  \/ create_collection(i)
  \/ fail_collection_invoice(i)
  \/ store_collection_invoice(i)
  \/ ApiCrash(i)

ProviderNext(i) ==
  \/ \E s \in Terminal : PaymentResolves(i, s)
  \/ \E e \in Events : record_webhook_and_enqueue(i, e)

WorkerNext(w) ==
  \/ \E j \in WorkerJobs : claim_job(w, j)
  \/ collection_payment_reference(w)
  \/ get_payment(w)
  \/ settle_invoice_and_append_entry(w)
  \/ mark_late_settlement_for_refund(w)
  \/ mark_collection_uncollectible(w)
  \/ pending_invoices(w)
  \/ freeze_raffle(w)
  \/ succeed_job(w)
  \/ fail_or_retry_job(w)
  \/ HandlerError(w)
  \/ WorkerCrash(w)

Next ==
  \/ \E r \in Raffles : OrganizerNext(r)
  \/ \E i \in Invoices : ApiNext(i)
  \/ \E i \in Invoices : ProviderNext(i)
  \/ \E w \in Workers : WorkerNext(w)
  \/ schedule_due_closes
  \/ \E j \in WorkerJobs : retry_operator_job(j)

Spec == Init /\ [][Next]_vars

(***************************************************************************)
(* Fairness.  A worker keeps executing the handler it is in; the API       *)
(* handler runs to an end; a collection ends as paid or expired, and the   *)
(* provider delivers the "resolved" event; an operator retries dead jobs.  *)
(* claim takes the eligible row with the oldest available_at and every     *)
(* retry moves available_at forward, so no eligible job is passed over for *)
(* ever: strong fairness for each job.  schedule_due_closes opens every    *)
(* turn of the loop.  Crashes and failing calls are finitely many.         *)
(***************************************************************************)
HandlerStep(w) ==
  \/ collection_payment_reference(w) \/ get_payment(w)
  \/ settle_invoice_and_append_entry(w) \/ mark_late_settlement_for_refund(w)
  \/ mark_collection_uncollectible(w) \/ pending_invoices(w) \/ freeze_raffle(w)
  \/ succeed_job(w) \/ fail_or_retry_job(w)

ApiStep(i) ==
  \/ create_collection(i) \/ fail_collection_invoice(i)
  \/ store_collection_invoice(i) \/ ApiCrash(i)

\* A step that nothing but a failing call or a crash explains.
Fault ==
  \E w \in Workers : (HandlerError(w) \/ WorkerCrash(w)) /\ ~HandlerStep(w)

Fairness ==
  /\ \A w \in Workers : WF_vars(HandlerStep(w))
  /\ \A i \in Invoices : /\ WF_vars(ApiStep(i))
                          /\ WF_vars(\E s \in Terminal : PaymentResolves(i, s))
                          /\ WF_vars(record_webhook_and_enqueue(i, "resolved"))
  /\ \A j \in WorkerJobs : /\ SF_vars(\E w \in Workers : claim_job(w, j))
                            /\ WF_vars(retry_operator_job(j))
  /\ SF_vars(schedule_due_closes)
  /\ <>[][~Fault]_vars

FairSpec == Spec /\ Fairness

-----------------------------------------------------------------------------
(* What is checked. *)

\* The ledger a raffle goes into the draw with passes every check of draw():
\* the entries chain, the tickets are contiguous from 0, and the frozen root
\* and total are those of the entries, whatever was appended while the close
\* was being scheduled (settle_invoice_and_append_entry, freeze_raffle).
FrozenLedgerDrawable ==
  \A r \in Raffles : raffles[r].status = "RANDOMNESS_PENDING" =>
    /\ LedgerAccepted(entries[r])
    /\ raffles[r].entries_root = summarize_ledger(entries[r]).entries_root
    /\ raffles[r].total_tickets = summarize_ledger(entries[r]).total_tickets

\* Every ticket of a raffle was sold at the price the raffle has now: the pool
\* is price times tickets, so neither an edit of the raffle nor a concurrent
\* settlement ever mixes prices, and it fits its BIGINT column.
PoolPriced ==
  \A r \in Raffles :
    /\ raffles[r].total_pool_sats = raffles[r].entry_price_sats * raffles[r].total_tickets
    /\ raffles[r].total_pool_sats <= MaxI64

\* The running totals of the raffles row are the sums over its entries, which
\* is what the verifier recomputes (verify: total_pool_sats).
PoolMatchesLedger ==
  \A r \in Raffles : raffles[r].total_pool_sats = PoolSats(entries[r])

\* A payment buys an entry or a refund, never both and never two entries,
\* whatever events, retries and workers handle it concurrently: an invoice is
\* settled exactly when one entry carries it, and ineligible exactly when it
\* has a refund.
EntryXorRefund ==
  \A i \in Invoices :
    /\ invoices[i].status = "settled" =>
         \E r \in Raffles : \E k \in DOMAIN entries[r] : entries[r][k].data.invoice = i
    /\ \A r \in Raffles : \A k \in DOMAIN entries[r] : entries[r][k].data.invoice = i =>
         /\ invoices[i].status = "settled" /\ invoices[i].raffle = r
         /\ \A l \in DOMAIN entries[r] : entries[r][l].data.invoice = i => l = k
    /\ invoices[i].status = "ineligible" <=> i \in refunds

\* Money that arrived is never written off: an invoice the provider has
\* settled is waiting for reconciliation, or an entry, or a refund.
NoPaymentDropped ==
  \A i \in Invoices : payment[i] = "settled" =>
    invoices[i].status = "pending" \/ invoices[i].status = "settled" \/ i \in refunds

\* No invoice of a frozen raffle is still waiting for reconciliation, although
\* pending_invoices counts outside the transaction that freezes.
FrozenNoPending ==
  \A r \in Raffles : raffles[r].entries_root # Null => PendingOf(r) = {}

\* A raffle is never left closing, or waiting for its draw, without a job row
\* that has not succeeded (schedule_due_closes: "a crash cannot leave an
\* eligible raffle closed without work being scheduled").
WorkScheduled ==
  \A r \in Raffles :
    /\ raffles[r].status = "CLOSING" =>
         jobs[CloseJob(r)].status \in {"queued", "running", "dead"}
    /\ raffles[r].status = "RANDOMNESS_PENDING" =>
         jobs[DrawJob(r)].status \in {"queued", "running", "dead"}

\* From the moment a raffle leaves OPEN nothing is added to its ledger, and
\* once the root is frozen it is never replaced.
ClosedLedgerImmutable ==
  [][\A r \in Raffles :
       /\ raffles[r].status \in AfterOpen =>
            /\ entries'[r] = entries[r]
            /\ raffles'[r].total_tickets = raffles[r].total_tickets
            /\ raffles'[r].total_pool_sats = raffles[r].total_pool_sats
       /\ raffles[r].entries_root # Null =>
            raffles'[r].entries_root = raffles[r].entries_root]_vars

\* A payment the provider settles becomes an entry or a refund, also when the
\* raffle closes or is cancelled first, and whatever crashed on the way.
SettledPaymentResolved ==
  \A i \in Invoices :
    payment[i] = "settled" ~> (invoices[i].status = "settled" \/ i \in refunds)

\* No job will look at the invoice again: its collection was never stored, or
\* its last event was reconciled before it was.
Stranded(i) ==
  /\ invoices[i].status = "pending"
  /\ \/ request[i] = "done" /\ ~invoices[i].bolt11
     \/ jobs[ReconcileJob(i, "resolved")].status = "succeeded"

\* A close that is not held up by a stranded invoice ends: every payment is
\* resolved, then the ledger is frozen or the empty raffle cancelled.
ClosingTerminatesOrStrands ==
  \A r \in Raffles : raffles[r].status = "CLOSING" ~>
    (raffles[r].status # "CLOSING"
       \/ \E i \in Invoices : invoices[i].raffle = r /\ Stranded(i))

\* The comments on mark_collection_uncollectible ("making close reconciliation
\* terminal and auditable") and schedule_due_closes: a closing raffle closes.
ClosingTerminates ==
  \A r \in Raffles : raffles[r].status = "CLOSING" ~> raffles[r].status # "CLOSING"

Lifecycle(r) == INSTANCE RaffleLifecycle
  WITH status <- raffles[r].status, pool <- raffles[r].total_pool_sats, paid <- 0

\* Every raffle implements the first half of RaffleLifecycle: it takes money only
\* while it is OPEN, and it is frozen for the draw exactly when it has taken
\* some, although freeze_raffle looks at the tickets and not at the pool.
ImplementsLifecycle ==
  /\ \A r \in Raffles : Lifecycle(r)!Init
  /\ [][\A r \in Raffles : Lifecycle(r)!Step]_vars
=============================================================================
