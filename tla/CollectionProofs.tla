-------------------------- MODULE CollectionProofs --------------------------
(***************************************************************************)
(* The safety of Collection for any number of raffles, invoices, events    *)
(* and workers and any column width.  The lemmas establish one conjunct of *)
(* CollectionInv!Inv each, from the frame lemmas that say which actions    *)
(* write which table.                                                      *)
(***************************************************************************)
EXTENDS CollectionInv, ProtocolLemmas

\* The empty database is well typed.
LEMMA InitTypeOK == Init => TypeOK
  BY CollectionAssumption
  DEF Init, TypeOK, JobInit, JobTypeOK, Row, InvoiceRow, RaffleStatus, InvoiceStatus,
      PaymentState, RequestStep, WorkerStep, JobRow, JobStatus, Hash, ZERO_HASH

\* A price is a positive number (the CHECK on entry_price_sats).
LEMMA PricesNat == \A p \in Prices : p \in Nat /\ p # 0
  BY CollectionAssumption

\* The values that Inserted, claim and Finish give the table are well typed.
LEMMA JobTypes ==
  ASSUME JobTypeOK
  PROVE  /\ \A J : Inserted(J) \in [CollectionJobs -> [status : JobStatus,
                                        lease_owner : Workers \cup {NoWorker}]]
         /\ \A w \in Workers, j \in WorkerJobs : claim(w, j) => JobTypeOK'
         /\ \A w \in Workers, s \in {"queued", "dead", "succeeded"} : Finish(w, s) => JobTypeOK'
         /\ \A w \in Workers : Abandon(w) => JobTypeOK'
         /\ \A j \in WorkerJobs : retry_dead_job(j) => JobTypeOK'
<1>1. \A J : Inserted(J) \in [CollectionJobs -> [status : JobStatus,
                                        lease_owner : Workers \cup {NoWorker}]]
  BY DEF Inserted, JobRow, JobTypeOK, JobStatus
<1>2. \A w \in Workers, j \in WorkerJobs : claim(w, j) => JobTypeOK'
  BY DEF claim, JobRow, JobTypeOK, JobStatus, CollectionJobs
<1>3. \A w \in Workers, s \in {"queued", "dead", "succeeded"} : Finish(w, s) => JobTypeOK'
  BY DEF Finish, OwnsLease, JobRow, JobTypeOK, JobStatus
<1>4. \A w \in Workers : Abandon(w) => JobTypeOK'
  BY DEF Abandon, JobTypeOK
<1>5. \A j \in WorkerJobs : retry_dead_job(j) => JobTypeOK'
  BY DEF retry_dead_job, JobRow, JobTypeOK, JobStatus, CollectionJobs
<1> QED
  BY <1>1, <1>2, <1>3, <1>4, <1>5

\* A worker holding a reconcile job knows its invoice, one holding a close
\* job its raffle.
LEMMA HeldTypes ==
  ASSUME ControlInv, NEW w \in Workers
  PROVE  /\ held[w] \in ReconcileJobs => HeldInvoice(w) \in Invoices
         /\ held[w] \in CloseJobs => HeldRaffle(w) \in Raffles /\ held[w] = CloseJob(HeldRaffle(w))
  BY DEF ControlInv, ReconcileJobs, CloseJobs, ReconcileJob, CloseJob, HeldInvoice, HeldRaffle

\* Every branch of reconcile_payment leads to a step of the handler.
LEMMA StepTypes ==
  /\ \A j : FirstStep(j) \in WorkerStep
  /\ \A i : ReferenceStep(i) \in WorkerStep
  /\ \A s : LookupStep(s) \in WorkerStep
  /\ \A i : SettleStep(i) \in WorkerStep
  /\ \A r : CountStep(r) \in WorkerStep
  BY DEF FirstStep, ReferenceStep, LookupStep, SettleStep, CountStep, WorkerStep, Terminal

\* The entry that settle_invoice_and_append_entry builds is well typed.
LEMMA NextEntryType ==
  ASSUME TypeOK, NEW i \in Invoices, invoices[i].raffle \in Raffles
  PROVE  NextEntry(i) \in Entry
<1> DEFINE r == invoices[i].raffle
           d == [raffle_id |-> r, entry_index |-> Len(entries[r]), invoice |-> i,
                 amount_sats |-> invoices[i].amount_sats,
                 start |-> raffles[r].total_tickets,
                 end |-> raffles[r].total_tickets + invoices[i].ticket_count]
<1>1. /\ Len(entries[r]) \in Nat /\ invoices[i].amount_sats \in Nat
      /\ raffles[r].total_tickets \in Nat /\ invoices[i].ticket_count \in Nat
      /\ raffles[r].entry_chain_head \in Hash(Raffles, Invoices)
  BY DEF TypeOK, Row, InvoiceRow
<1>2. d \in EntryData(Raffles, Invoices)
  BY <1>1 DEF EntryData
<1>3. Append(raffles[r].entry_chain_head, d) \in Hash(Raffles, Invoices)
  BY <1>1, <1>2 DEF Hash
<1> QED
  BY <1>1, <1>2, <1>3 DEF NextEntry, LedgerEntry, entry_hash, Entry

\* The organizer's operations write one raffles row.
LEMMA SetRaffleType ==
  ASSUME TypeOK, NEW r \in Raffles, NEW row \in Row, SetRaffle(r, row)
  PROVE  TypeOK'
  BY DEF TypeOK, SetRaffle, JobTypeOK

\* An action that leaves the rows, the provider and the requests alone only has
\* to keep the workers and the jobs table well typed.
LEMMA WorkerOnlyType ==
  ASSUME TypeOK, UNCHANGED <<rows, payment, request>>, JobTypeOK', pc' \in [Workers -> WorkerStep]
  PROVE  TypeOK'
  BY DEF TypeOK, rows

\* Every step keeps the types.
LEMMA TypeStep ==
  ASSUME TypeOK, ControlInv, InvoiceInv, HandlerInv, Next
  PROVE  TypeOK'
<1> USE PricesNat, StepTypes
<1>1. ASSUME NEW r \in Raffles, OrganizerNext(r) PROVE TypeOK'
  <2>1. raffles[r] \in Row
    BY DEF TypeOK
  <2>2. ASSUME NEW p \in Prices, NEW e \in BOOLEAN, create_draft_raffle(r, p, e) PROVE TypeOK'
    BY <2>1, <2>2, SetRaffleType DEF create_draft_raffle, Row, RaffleStatus
  <2>3. ASSUME NEW p \in Prices, NEW e \in BOOLEAN, update_raffle(r, p, e) PROVE TypeOK'
    BY <2>1, <2>3, SetRaffleType DEF update_raffle, Row, RaffleStatus
  <2>4. ASSUME NEW s \in {"SCHEDULED", "OPEN", "CANCELLED"}, transition_raffle(r, s) PROVE TypeOK'
    BY <2>1, <2>4, SetRaffleType DEF transition_raffle, Row, RaffleStatus
  <2>5. CASE EndTimePasses(r)
    BY <2>1, <2>5, SetRaffleType DEF EndTimePasses, Row, RaffleStatus
  <2> QED
    BY <1>1, <2>2, <2>3, <2>4, <2>5 DEF OrganizerNext
<1>2. ASSUME NEW i \in Invoices, ApiNext(i) PROVE TypeOK'
  <2> USE DEF TypeOK, JobTypeOK, InvoiceRow, InvoiceStatus, RequestStep
  <2>1. ASSUME NEW r \in Raffles, NEW n \in TicketCounts, NEW late \in BOOLEAN,
               create_collection_invoice(i, r, n, late)
        PROVE  TypeOK'
    <3>1. n \in Nat /\ raffles[r].entry_price_sats * n \in Nat
      BY CollectionAssumption DEF Row
    <3> QED
      BY <2>1, <3>1 DEF create_collection_invoice
  <2>2. CASE create_collection(i)
    BY <2>2 DEF create_collection, rows, PaymentState
  <2>3. CASE fail_collection_invoice(i)
    BY <2>3, ZenonT(60) DEF fail_collection_invoice
  <2>4. CASE store_collection_invoice(i)
    <3>1. invoices' = invoices \/ invoices' = [invoices EXCEPT ![i].bolt11 = TRUE]
      BY <2>4 DEF store_collection_invoice
    <3>2. invoices' \in [Invoices -> InvoiceRow]
      <4>1. ASSUME NEW row \in InvoiceRow PROVE [row EXCEPT !.bolt11 = TRUE] \in InvoiceRow
        OBVIOUS
      <4>2. [invoices[i] EXCEPT !.bolt11 = TRUE] \in InvoiceRow
        BY <4>1
      <4> HIDE DEF InvoiceRow
      <4> QED
        BY <3>1, <4>2
    <3>3. request' \in [Invoices -> RequestStep]
      BY <2>4 DEF store_collection_invoice
    <3>4. UNCHANGED <<raffles, entries, refunds, payment, jobs, held, pc>>
      BY <2>4 DEF store_collection_invoice
    <3> HIDE DEF InvoiceRow, RequestStep, InvoiceStatus
    <3> QED
      BY <3>2, <3>3, <3>4
  <2>5. CASE ApiCrash(i)
    BY <2>5 DEF ApiCrash, rows
  <2> QED
    BY <1>2, <2>1, <2>2, <2>3, <2>4, <2>5 DEF ApiNext
<1>3. ASSUME NEW i \in Invoices, ProviderNext(i) PROVE TypeOK'
  <2>1. ASSUME NEW s \in Terminal, PaymentResolves(i, s) PROVE TypeOK'
    BY <2>1 DEF PaymentResolves, rows, TypeOK, JobTypeOK, Terminal, PaymentState
  <2>2. ASSUME NEW e \in Events, record_webhook_and_enqueue(i, e) PROVE TypeOK'
    BY <2>2, JobTypes DEF record_webhook_and_enqueue, rows, TypeOK, JobTypeOK
  <2> QED
    BY <1>3, <2>1, <2>2 DEF ProviderNext
<1>4. ASSUME NEW w \in Workers, WorkerNext(w) PROVE TypeOK'
  <2> USE DEF Goto
  <2>1. ASSUME NEW j \in WorkerJobs, claim_job(w, j) PROVE TypeOK'
    BY <2>1, JobTypes, WorkerOnlyType DEF claim_job, TypeOK
  <2>2. CASE collection_payment_reference(w)
    BY <2>2, WorkerOnlyType DEF collection_payment_reference, TypeOK, JobTypeOK
  <2>3. CASE get_payment(w)
    BY <2>3, WorkerOnlyType DEF get_payment, TypeOK, JobTypeOK
  <2>4. CASE settle_invoice_and_append_entry(w)
    <3> DEFINE i == HeldInvoice(w)
    <3>1. i \in Invoices /\ invoices[i].raffle \in Raffles
      BY <2>4, HeldTypes
      DEF settle_invoice_and_append_entry, ControlInv, HandlerInv, InvoiceInv
    <3>2. pc' \in [Workers -> WorkerStep] /\ JobTypeOK'
      BY <2>4 DEF settle_invoice_and_append_entry, TypeOK, JobTypeOK, WorkerStep
    <3>3. CASE MayAppend(i) /\ Fits(i)
      <4> DEFINE e == NextEntry(i)
      <4>1. AppendEntry(i, e) /\ UNCHANGED <<refunds, payment, request>>
        BY <2>4, <3>3 DEF settle_invoice_and_append_entry
      <4>2. e \in Entry
        BY <3>1, NextEntryType
      <4> HIDE DEF i, e
      <4>3. e.data.end \in Nat /\ e.data.amount_sats \in Nat
            /\ e.entry_hash \in Hash(Raffles, Invoices)
        BY <4>2 DEF Entry, EntryData
      <4>4. raffles' \in [Raffles -> Row]
        <5> DEFINE r == invoices[i].raffle
                   row == [raffles[r] EXCEPT
                             !.total_tickets = e.data.end,
                             !.total_pool_sats = raffles[r].total_pool_sats + e.data.amount_sats,
                             !.entry_chain_head = e.entry_hash]
        <5>0. raffles[r] \in Row /\ raffles[r].total_pool_sats + e.data.amount_sats \in Nat
          BY <3>1, <4>3 DEF TypeOK, Row
        <5>1. row \in Row
          BY <4>3, <5>0 DEF Row
        <5>2. raffles' = [raffles EXCEPT ![invoices[i].raffle] = row]
          BY <4>1 DEF AppendEntry
        <5> QED
          BY <3>1, <5>1, <5>2 DEF TypeOK
      <4>5. entries' \in [Raffles -> Seq(Entry)]
        BY <3>1, <4>1, <4>2 DEF AppendEntry, TypeOK
      <4>6. invoices' \in [Invoices -> InvoiceRow]
        BY <3>1, <4>1 DEF AppendEntry, TypeOK, InvoiceRow, InvoiceStatus
      <4> QED
        BY <3>2, <4>1, <4>4, <4>5, <4>6 DEF TypeOK
    <3>4. CASE ~(MayAppend(i) /\ Fits(i))
      BY <2>4, <3>2, <3>4 DEF settle_invoice_and_append_entry, TypeOK
    <3> QED
      BY <3>3, <3>4
  <2>5. CASE mark_late_settlement_for_refund(w)
    BY <2>5, HeldTypes, ZenonT(60) DEF mark_late_settlement_for_refund, ControlInv, MarkPending, TypeOK, JobTypeOK,
       InvoiceRow, InvoiceStatus, WorkerStep
  <2>6. CASE mark_collection_uncollectible(w)
    BY <2>6, HeldTypes, ZenonT(60) DEF mark_collection_uncollectible, ControlInv, MarkPending, TypeOK, JobTypeOK,
       InvoiceRow, InvoiceStatus, WorkerStep
  <2>7. CASE pending_invoices(w)
    BY <2>7, WorkerOnlyType DEF pending_invoices, TypeOK, JobTypeOK
  <2>8. CASE freeze_raffle(w)
    <3> DEFINE r == HeldRaffle(w)
    <3>1. r \in Raffles
      BY <2>8, HeldTypes DEF freeze_raffle, ControlInv
    <3>2. FrozenRoot(r) \in Root
      BY <3>1 DEF FrozenRoot, entries_root, Root, TypeOK, Row
    <3>3. [raffles[r] EXCEPT !.status = FrozenStatus(r), !.entries_root = FrozenRoot(r)] \in Row
      BY <3>1, <3>2 DEF FrozenStatus, TypeOK, Row, RaffleStatus
    <3>4. raffles' \in [Raffles -> Row]
      BY <2>8, <3>1, <3>3 DEF freeze_raffle, TypeOK
    <3>5. JobTypeOK'
      <4>1. Inserted(DrawJobs(r)) \in [CollectionJobs -> [status : JobStatus,
                                         lease_owner : Workers \cup {NoWorker}]]
        BY JobTypes DEF TypeOK
      <4> QED
        BY <2>8, <4>1 DEF freeze_raffle, TypeOK, JobTypeOK
    <3>6. pc' \in [Workers -> WorkerStep]
      BY <2>8 DEF freeze_raffle, TypeOK, WorkerStep
    <3> QED
      BY <2>8, <3>4, <3>5, <3>6 DEF freeze_raffle, TypeOK
  <2>9. CASE succeed_job(w)
    BY <2>9, JobTypes, WorkerOnlyType DEF succeed_job, succeed, TypeOK, WorkerStep
  <2>10. CASE fail_or_retry_job(w)
    BY <2>10, JobTypes, WorkerOnlyType DEF fail_or_retry_job, fail_or_retry, TypeOK, WorkerStep
  <2>11. CASE HandlerError(w)
    BY <2>11, WorkerOnlyType DEF HandlerError, TypeOK, JobTypeOK, WorkerStep
  <2>12. CASE WorkerCrash(w)
    BY <2>12, JobTypes, WorkerOnlyType DEF WorkerCrash, TypeOK, WorkerStep
  <2> QED
    BY <1>4, <2>1, <2>2, <2>3, <2>4, <2>5, <2>6, <2>7, <2>8, <2>9, <2>10, <2>11, <2>12 DEF WorkerNext
<1>5. CASE schedule_due_closes
  <2>1. ASSUME NEW r \in Raffles PROVE [raffles[r] EXCEPT !.status = "CLOSING"] \in Row
    BY DEF TypeOK, Row, RaffleStatus
  <2>2. raffles' \in [Raffles -> Row]
    BY <1>5, <2>1 DEF schedule_due_closes, TypeOK
  <2> QED
    BY <1>5, <2>2, JobTypes DEF schedule_due_closes, TypeOK, JobTypeOK
<1>6. ASSUME NEW j \in WorkerJobs, retry_operator_job(j) PROVE TypeOK'
  BY <1>6, JobTypes, WorkerOnlyType DEF retry_operator_job, TypeOK
<1> QED
  BY <1>1, <1>2, <1>3, <1>4, <1>5, <1>6 DEF Next

-----------------------------------------------------------------------------
(* Workers stay in the handler of the job they hold. *)

\* The kinds of jobs are disjoint, and each is dispatched to its own handler.
LEMMA JobKinds ==
  /\ WorkerJobs = ReconcileJobs \cup CloseJobs
  /\ NoJob \notin WorkerJobs
  /\ \A j \in ReconcileJobs : FirstStep(j) = "reference" /\ j \notin CloseJobs
  /\ \A j \in CloseJobs : FirstStep(j) = "count" /\ j \notin ReconcileJobs
  /\ \A j \in WorkerJobs, r \in Raffles : j # DrawJob(r)
  /\ \A j \in WorkerJobs : j \in CollectionJobs
  /\ \A r \in Raffles : CloseJob(r) \in CloseJobs /\ CloseJob(r) \in CollectionJobs
                        /\ DrawJob(r) \in CollectionJobs
  /\ \A r, s \in Raffles : CloseJob(r) = CloseJob(s) => r = s
<1>1. WorkerJobs = ReconcileJobs \cup CloseJobs
  BY DEF WorkerJobs, ReconcileJobs, CloseJobs
<1>2. \A j \in WorkerJobs : j \in CollectionJobs
  BY DEF CollectionJobs
<1>3. NoJob \notin WorkerJobs
  BY <1>2, CollectionAssumption
<1>4. \A j \in ReconcileJobs : j[1] = "payment.reconcile"
  BY DEF ReconcileJobs, ReconcileJob
<1>5. \A j \in CloseJobs : j[1] = "raffle.close"
  BY DEF CloseJobs, CloseJob
<1>6. \A r \in Raffles : DrawJob(r)[1] = "raffle.draw"
  BY DEF DrawJob
<1>7. /\ \A j \in ReconcileJobs : FirstStep(j) = "reference" /\ j \notin CloseJobs
      /\ \A j \in CloseJobs : FirstStep(j) = "count" /\ j \notin ReconcileJobs
  BY <1>4, <1>5 DEF FirstStep
<1>8. \A j \in WorkerJobs, r \in Raffles : j # DrawJob(r)
  BY <1>1, <1>4, <1>5, <1>6
<1>9. \A r \in Raffles : CloseJob(r) \in CloseJobs /\ CloseJob(r) \in CollectionJobs
                          /\ DrawJob(r) \in CollectionJobs
  BY DEF CloseJobs, CollectionJobs, WorkerJobs
<1>10. \A r, s \in Raffles : CloseJob(r) = CloseJob(s) => r = s
  BY DEF CloseJob
<1> QED
  BY <1>1, <1>2, <1>3, <1>7, <1>8, <1>9, <1>10

\* A worker stays in the handler of the job it holds.
LEMMA ControlStep ==
  ASSUME TypeOK, ControlInv, Next
  PROVE  ControlInv'
<1> USE DEF ControlInv
<1>1. CASE UNCHANGED <<held, pc>>
  BY <1>1
<1>2. ASSUME NEW r \in Raffles, OrganizerNext(r) PROVE ControlInv'
  BY <1>1, <1>2 DEF OrganizerNext, create_draft_raffle, update_raffle, transition_raffle,
     EndTimePasses, SetRaffle
<1>3. ASSUME NEW i \in Invoices, ApiNext(i) \/ ProviderNext(i) PROVE ControlInv'
  BY <1>1, <1>3 DEF ApiNext, create_collection_invoice, create_collection, fail_collection_invoice,
     store_collection_invoice, ApiCrash, ProviderNext, PaymentResolves, record_webhook_and_enqueue
<1>4. ASSUME NEW w \in Workers, WorkerNext(w) PROVE ControlInv'
  <2>1. ASSUME NEW j \in WorkerJobs, claim_job(w, j) PROVE ControlInv'
    BY <2>1, JobKinds DEF claim_job, claim, TypeOK, JobTypeOK
  <2>2. ASSUME UNCHANGED held, NEW s \in WorkerStep, pc' = [pc EXCEPT ![w] = s],
               pc[w] # "idle", s # "idle",
               s \in {"lookup", "settle", "late", "uncollectible"} => held[w] \in ReconcileJobs,
               s = "freeze" => held[w] \in CloseJobs,
               s \notin {"reference", "count"}
        PROVE  ControlInv'
    BY <2>2 DEF TypeOK
  <2>3. CASE collection_payment_reference(w)
    BY <2>2, <2>3, StepTypes DEF collection_payment_reference, Goto, ReferenceStep
  <2>4. CASE get_payment(w)
    BY <2>2, <2>4, StepTypes DEF get_payment, Goto, LookupStep, Terminal
  <2>5. CASE settle_invoice_and_append_entry(w)
    BY <2>2, <2>5, StepTypes DEF settle_invoice_and_append_entry, Goto, SettleStep, WorkerStep
  <2>6. CASE mark_late_settlement_for_refund(w) \/ mark_collection_uncollectible(w)
    BY <2>2, <2>6 DEF mark_late_settlement_for_refund, mark_collection_uncollectible, Goto, WorkerStep
  <2>7. CASE pending_invoices(w)
    BY <2>2, <2>7, StepTypes DEF pending_invoices, Goto, CountStep
  <2>8. CASE freeze_raffle(w)
    BY <2>2, <2>8 DEF freeze_raffle, Goto, WorkerStep
  <2>9. CASE HandlerError(w)
    BY <2>2, <2>9 DEF HandlerError, Running, WorkerStep
  <2>10. CASE succeed_job(w) \/ fail_or_retry_job(w) \/ WorkerCrash(w)
    BY <2>10, JobKinds DEF succeed_job, succeed, fail_or_retry_job, fail_or_retry, WorkerCrash, Finish, Abandon,
       Goto, TypeOK, JobTypeOK
  <2> QED
    BY <1>4, <2>1, <2>3, <2>4, <2>5, <2>6, <2>7, <2>8, <2>9, <2>10 DEF WorkerNext
<1>5. CASE schedule_due_closes
  BY <1>1, <1>5 DEF schedule_due_closes
<1>6. ASSUME NEW j \in WorkerJobs, retry_operator_job(j) PROVE ControlInv'
  BY <1>1, <1>6 DEF retry_operator_job, retry_dead_job
<1> QED
  BY <1>2, <1>3, <1>4, <1>5, <1>6 DEF Next

-----------------------------------------------------------------------------
(* Which actions change what. *)

\* What writes the raffles table.
LEMMA RafflesFrame ==
  ASSUME Next
  PROVE  \/ UNCHANGED raffles
         \/ \E r \in Raffles : OrganizerNext(r)
         \/ \E w \in Workers : settle_invoice_and_append_entry(w) \/ freeze_raffle(w)
         \/ schedule_due_closes
  BY DEF Next, ApiNext, ProviderNext, WorkerNext, rows, create_collection_invoice, create_collection,
     fail_collection_invoice, store_collection_invoice, ApiCrash, PaymentResolves,
     record_webhook_and_enqueue, claim_job, collection_payment_reference, get_payment,
     mark_late_settlement_for_refund, mark_collection_uncollectible, pending_invoices,
     succeed_job, fail_or_retry_job, HandlerError, WorkerCrash, retry_operator_job

\* Only settle_invoice_and_append_entry writes the entries table.
LEMMA EntriesFrame ==
  ASSUME Next
  PROVE  \/ UNCHANGED entries
         \/ \E w \in Workers : settle_invoice_and_append_entry(w)
  BY ZenonT(60) DEF Next, OrganizerNext, create_draft_raffle, update_raffle, transition_raffle, EndTimePasses,
     SetRaffle, ApiNext, ProviderNext, WorkerNext, rows, create_collection_invoice, create_collection,
     fail_collection_invoice, store_collection_invoice, ApiCrash, PaymentResolves,
     record_webhook_and_enqueue, claim_job, collection_payment_reference, get_payment,
     mark_late_settlement_for_refund, mark_collection_uncollectible, pending_invoices,
     succeed_job, fail_or_retry_job, HandlerError, WorkerCrash, retry_operator_job,
     freeze_raffle, schedule_due_closes

\* What writes the invoices and the refunds, and what the provider does.
LEMMA InvoicesFrame ==
  ASSUME Next
  PROVE  \/ UNCHANGED <<invoices, request, payment, refunds>>
         \/ \E i \in Invoices : ApiNext(i)
         \/ \E i \in Invoices, s \in Terminal : PaymentResolves(i, s)
         \/ \E w \in Workers : \/ settle_invoice_and_append_entry(w)
                               \/ mark_late_settlement_for_refund(w)
                               \/ mark_collection_uncollectible(w)
  BY DEF Next, OrganizerNext, create_draft_raffle, update_raffle, transition_raffle, EndTimePasses,
     SetRaffle, ProviderNext, WorkerNext, rows,
     record_webhook_and_enqueue, claim_job, collection_payment_reference, get_payment,
     pending_invoices, succeed_job, fail_or_retry_job, HandlerError, WorkerCrash, retry_operator_job,
     freeze_raffle, schedule_due_closes

\* What the append and the freeze do to the rows, when they take effect.
LEMMA SettleEffect ==
  ASSUME TypeOK, ControlInv, InvoiceInv, HandlerInv, NEW w \in Workers,
         settle_invoice_and_append_entry(w)
  PROVE  /\ HeldInvoice(w) \in Invoices
         /\ invoices[HeldInvoice(w)].raffle \in Raffles
         /\ invoices[HeldInvoice(w)].status # "absent"
         /\ UNCHANGED <<refunds, payment, request, jobs, held>>
         /\ \/ UNCHANGED <<raffles, entries, invoices>>
            \/ /\ MayAppend(HeldInvoice(w)) /\ Fits(HeldInvoice(w))
               /\ AppendEntry(HeldInvoice(w), NextEntry(HeldInvoice(w)))
<1>1. HeldInvoice(w) \in Invoices /\ payment[HeldInvoice(w)] = "settled"
  BY HeldTypes DEF settle_invoice_and_append_entry, ControlInv, HandlerInv
<1>2. invoices[HeldInvoice(w)].status # "absent" /\ invoices[HeldInvoice(w)].raffle \in Raffles
  BY <1>1 DEF InvoiceInv
<1> QED
  BY <1>1, <1>2 DEF settle_invoice_and_append_entry

-----------------------------------------------------------------------------
(* What no step undoes. *)

\* What no step ever undoes in a raffles row: past OPEN, its price, its totals
\* and its root.
LEMMA RaffleStable ==
  ASSUME TypeOK, ControlInv, InvoiceInv, HandlerInv, Next, NEW r \in Raffles
  PROVE  /\ raffles[r].status \notin BeforeOpen =>
              /\ raffles'[r].status \notin BeforeOpen
              /\ raffles'[r].entry_price_sats = raffles[r].entry_price_sats
         /\ raffles[r].status \in AfterOpen =>
              /\ raffles'[r].status \in AfterOpen
              /\ raffles'[r].total_tickets = raffles[r].total_tickets
              /\ raffles'[r].total_pool_sats = raffles[r].total_pool_sats
              /\ raffles'[r].entry_chain_head = raffles[r].entry_chain_head
         /\ raffles[r].status \in {"RANDOMNESS_PENDING", "CANCELLED"} =>
              /\ raffles'[r].status = raffles[r].status
              /\ raffles'[r].entries_root = raffles[r].entries_root
<1> USE DEF BeforeOpen, AfterOpen
<1>0. raffles \in [Raffles -> Row]
  BY DEF TypeOK
<1>1. CASE UNCHANGED raffles
  BY <1>1
<1>2. CASE \E q \in Raffles : OrganizerNext(q)
  <2>0. PICK q \in Raffles : OrganizerNext(q)
    BY <1>2
  <2>1. CASE q # r
    BY <1>0, <2>0, <2>1 DEF OrganizerNext, create_draft_raffle, update_raffle, transition_raffle,
       EndTimePasses, SetRaffle
  <2>2. CASE q = r
    <3> USE <1>0, <2>2 DEF SetRaffle, Row
    <3>1. ASSUME NEW p \in Prices, NEW e \in BOOLEAN,
                 create_draft_raffle(r, p, e) \/ update_raffle(r, p, e)
          PROVE  raffles[r].status \in BeforeOpen
      BY <3>1 DEF create_draft_raffle, update_raffle
    <3>2. ASSUME NEW s \in {"SCHEDULED", "OPEN", "CANCELLED"}, transition_raffle(r, s)
          PROVE  /\ raffles[r].status \in {"DRAFT", "SCHEDULED", "OPEN"}
                 /\ raffles[r].status = "OPEN" => s = "CANCELLED"
                 /\ raffles'[r] = [raffles[r] EXCEPT !.status = s]
      BY <3>2 DEF transition_raffle, MayTransition
    <3>3. CASE EndTimePasses(r)
      BY <3>3 DEF EndTimePasses
    <3> QED
      BY <2>0, <3>1, <3>2, <3>3 DEF OrganizerNext
  <2> QED
    BY <2>1, <2>2
<1>3. CASE \E w \in Workers : settle_invoice_and_append_entry(w)
  <2>0. PICK w \in Workers : settle_invoice_and_append_entry(w)
    BY <1>3
  <2>1. CASE UNCHANGED raffles
    BY <2>1
  <2>2. CASE MayAppend(HeldInvoice(w)) /\ AppendEntry(HeldInvoice(w), NextEntry(HeldInvoice(w)))
    <3> DEFINE q == invoices[HeldInvoice(w)].raffle
    <3>1. CASE q # r
      BY <1>0, <2>2, <3>1 DEF AppendEntry
    <3>2. CASE q = r
      <4>1. raffles[r].status = "OPEN"
        BY <2>2, <3>2 DEF MayAppend
      <4>2. /\ raffles'[r].status = raffles[r].status
            /\ raffles'[r].entry_price_sats = raffles[r].entry_price_sats
        BY <1>0, <2>2, <3>2 DEF AppendEntry, Row
      <4> QED
        BY <4>1, <4>2
    <3> QED
      BY <3>1, <3>2
  <2> QED
    BY <2>0, <2>1, <2>2, SettleEffect
<1>4. CASE \E w \in Workers : freeze_raffle(w)
  <2>0. PICK w \in Workers : freeze_raffle(w)
    BY <1>4
  <2>1. HeldRaffle(w) \in Raffles
    BY <2>0, HeldTypes DEF freeze_raffle, ControlInv
  <2>2. CASE raffles' # raffles /\ HeldRaffle(w) = r
    <3>1. /\ raffles[r].status = "CLOSING"
          /\ raffles'[r] = [raffles[r] EXCEPT !.status = FrozenStatus(r), !.entries_root = FrozenRoot(r)]
      BY <1>0, <2>0, <2>2 DEF freeze_raffle
    <3> QED
      BY <1>0, <3>1 DEF FrozenStatus, Row
  <2>3. CASE raffles' = raffles \/ HeldRaffle(w) # r
    BY <1>0, <2>0, <2>3 DEF freeze_raffle
  <2> QED
    BY <2>2, <2>3
<1>5. CASE schedule_due_closes
  BY <1>0, <1>5 DEF schedule_due_closes, DueRaffles, Row
<1> QED
  BY <1>1, <1>2, <1>3, <1>4, <1>5, RafflesFrame

\* What no step ever undoes in an invoices row or a terminal payment.
LEMMA InvoiceStable ==
  ASSUME TypeOK, ControlInv, InvoiceInv, HandlerInv, Next, NEW i \in Invoices
  PROVE  /\ invoices[i].status # "absent" =>
              /\ invoices'[i].status # "absent"
              /\ invoices'[i].raffle = invoices[i].raffle
              /\ invoices'[i].ticket_count = invoices[i].ticket_count
              /\ invoices'[i].amount_sats = invoices[i].amount_sats
         /\ invoices[i].bolt11 => invoices'[i].bolt11
         /\ payment[i] \in Terminal => payment'[i] = payment[i]
<1>0. invoices \in [Invoices -> InvoiceRow] /\ payment \in [Invoices -> PaymentState]
  BY DEF TypeOK
<1>1. CASE UNCHANGED <<invoices, request, payment, refunds>>
  BY <1>1
<1>2. CASE \E k \in Invoices : ApiNext(k)
  <2>0. PICK k \in Invoices : ApiNext(k)
    BY <1>2
  <2>1. CASE k # i
    BY <1>0, <2>0, <2>1 DEF ApiNext, create_collection_invoice, create_collection,
       fail_collection_invoice, store_collection_invoice, ApiCrash, rows, InvoiceRow
  <2>2. CASE k = i
    BY <1>0, <2>0, <2>2 DEF ApiNext, create_collection_invoice, create_collection,
       fail_collection_invoice, store_collection_invoice, ApiCrash, rows, InvoiceRow, InvoiceInv,
       UnstoredInvoice, Terminal
  <2> QED
    BY <2>1, <2>2
<1>3. CASE \E k \in Invoices, s \in Terminal : PaymentResolves(k, s)
  BY <1>0, <1>3 DEF PaymentResolves, rows, Terminal
<1>4. CASE \E w \in Workers : settle_invoice_and_append_entry(w)
  <2>0. PICK w \in Workers : settle_invoice_and_append_entry(w)
    BY <1>4
  <2>1. HeldInvoice(w) \in Invoices /\ UNCHANGED payment
    BY <2>0, SettleEffect
  <2>2. CASE UNCHANGED invoices
    BY <2>1, <2>2
  <2>3. CASE AppendEntry(HeldInvoice(w), NextEntry(HeldInvoice(w)))
    <3>1. invoices' = [invoices EXCEPT ![HeldInvoice(w)].status = "settled"]
      BY <2>3 DEF AppendEntry
    <3> QED
      BY <1>0, <2>1, <3>1 DEF InvoiceRow
  <2> QED
    BY <2>0, <2>2, <2>3, SettleEffect
<1>5. CASE \E w \in Workers : mark_late_settlement_for_refund(w) \/ mark_collection_uncollectible(w)
  <2>0. PICK w \in Workers : mark_late_settlement_for_refund(w) \/ mark_collection_uncollectible(w)
    BY <1>5
  <2>1. HeldInvoice(w) \in Invoices
    BY <2>0, HeldTypes DEF mark_late_settlement_for_refund, mark_collection_uncollectible, Goto, ControlInv
  <2> QED
    BY <1>0, <2>0, <2>1 DEF mark_late_settlement_for_refund, mark_collection_uncollectible,
       MarkPending, InvoiceRow
<1> QED
  BY <1>1, <1>2, <1>3, <1>4, <1>5, InvoicesFrame

-----------------------------------------------------------------------------
(* Invoices. *)

\* Handlers that change an invoice's status hold a job of an existing invoice.
LEMMA MarkEffect ==
  ASSUME TypeOK, ControlInv, InvoiceInv, HandlerInv, NEW w \in Workers,
         mark_late_settlement_for_refund(w) \/ mark_collection_uncollectible(w)
  PROVE  /\ HeldInvoice(w) \in Invoices
         /\ UNCHANGED <<raffles, entries, payment, request, jobs, held>>
         /\ mark_late_settlement_for_refund(w) =>
              /\ payment[HeldInvoice(w)] = "settled"
              /\ invoices' = MarkPending(HeldInvoice(w), "ineligible")
              /\ refunds' = refunds \cup {HeldInvoice(w)}
         /\ mark_collection_uncollectible(w) =>
              /\ payment[HeldInvoice(w)] = "expired"
              /\ invoices' = MarkPending(HeldInvoice(w), "collection_failed")
              /\ refunds' = refunds
<1>1. held[w] \in ReconcileJobs
  BY DEF mark_late_settlement_for_refund, mark_collection_uncollectible, Goto, ControlInv
<1> QED
  BY <1>1, HeldTypes DEF mark_late_settlement_for_refund, mark_collection_uncollectible, Goto, HandlerInv

\* How far an invoice is still agrees with its request and its payment.
LEMMA InvoiceStep ==
  ASSUME TypeOK, ControlInv, InvoiceInv, HandlerInv, Next
  PROVE  InvoiceInv'
<1> SUFFICES ASSUME NEW i \in Invoices
             PROVE  /\ invoices'[i].status = "absent" <=> request'[i] = "idle"
                    /\ invoices'[i].status # "absent" =>
                         /\ invoices'[i].raffle \in Raffles
                         /\ raffles'[invoices'[i].raffle].status \notin BeforeOpen
                         /\ invoices'[i].ticket_count # 0
                         /\ invoices'[i].amount_sats =
                              raffles'[invoices'[i].raffle].entry_price_sats * invoices'[i].ticket_count
                    /\ request'[i] \in {"idle", "created"} => payment'[i] = "none"
                    /\ invoices'[i].bolt11 => request'[i] = "done"
                    /\ payment'[i] = "settled" => invoices'[i].bolt11
                    /\ invoices'[i].status = "collection_failed" =>
                         payment'[i] = "expired" \/ (payment'[i] = "none" /\ request'[i] = "done")
  BY DEF InvoiceInv
<1>0. /\ invoices \in [Invoices -> InvoiceRow] /\ payment \in [Invoices -> PaymentState]
      /\ request \in [Invoices -> RequestStep]
  BY DEF TypeOK
<1> DEFINE Local ==
             /\ invoices'[i].status = "absent" <=> request'[i] = "idle"
             /\ request'[i] \in {"idle", "created"} => payment'[i] = "none"
             /\ invoices'[i].bolt11 => request'[i] = "done"
             /\ payment'[i] = "settled" => invoices'[i].bolt11
             /\ invoices'[i].status = "collection_failed" =>
                  payment'[i] = "expired" \/ (payment'[i] = "none" /\ request'[i] = "done")
           Terms ==
             /\ invoices'[i].raffle \in Raffles
             /\ raffles'[invoices'[i].raffle].status \notin BeforeOpen
             /\ invoices'[i].ticket_count # 0
             /\ invoices'[i].amount_sats =
                  raffles'[invoices'[i].raffle].entry_price_sats * invoices'[i].ticket_count
<1>1. invoices[i].status # "absent" => Terms
  BY InvoiceStable, RaffleStable DEF InvoiceInv
<1>2. CASE UNCHANGED <<invoices, request, payment, refunds>>
  BY <1>1, <1>2 DEF InvoiceInv
<1>3. CASE \E k \in Invoices : ApiNext(k)
  <2>0. PICK k \in Invoices : ApiNext(k)
    BY <1>3
  <2>1. CASE k # i
    <3>1. invoices'[i] = invoices[i] /\ payment'[i] = payment[i] /\ request'[i] = request[i]
      BY <1>0, <2>0, <2>1 DEF ApiNext, create_collection_invoice, create_collection,
         fail_collection_invoice, store_collection_invoice, ApiCrash, rows
    <3> QED
      BY <1>1, <3>1 DEF InvoiceInv
  <2>2. CASE k = i
    <3>1. ASSUME NEW r \in Raffles, NEW n \in TicketCounts, NEW late \in BOOLEAN,
                 create_collection_invoice(i, r, n, late)
          PROVE  Local /\ Terms
      <4>1. /\ request[i] = "idle" /\ request'[i] = "created" /\ UNCHANGED <<raffles, payment>>
            /\ invoices'[i] = [status |-> "pending", raffle |-> r, ticket_count |-> n,
                  amount_sats |-> raffles[r].entry_price_sats * n, bolt11 |-> FALSE]
            /\ raffles[r].status = "OPEN" /\ n # 0
        BY <1>0, <3>1 DEF create_collection_invoice, AcceptsInvoice
      <4> QED
        BY <4>1 DEF InvoiceInv, BeforeOpen
    <3>2. CASE create_collection(i)
      BY <1>0, <1>1, <3>2 DEF create_collection, rows, InvoiceInv
    <3>3. CASE fail_collection_invoice(i)
      BY <1>0, <1>1, <3>3 DEF fail_collection_invoice, UnstoredInvoice, InvoiceRow, InvoiceInv
    <3>4. CASE store_collection_invoice(i)
      BY <1>0, <1>1, <3>4 DEF store_collection_invoice, UnstoredInvoice, InvoiceRow, InvoiceInv
    <3>5. CASE ApiCrash(i)
      BY <1>0, <1>1, <3>5 DEF ApiCrash, rows, InvoiceInv
    <3> QED
      BY <2>0, <2>2, <3>1, <3>2, <3>3, <3>4, <3>5 DEF ApiNext
  <2> QED
    BY <2>1, <2>2
<1>4. CASE \E k \in Invoices, s \in Terminal : PaymentResolves(k, s)
  <2>0. PICK k \in Invoices, s \in Terminal : PaymentResolves(k, s)
    BY <1>4
  <2> QED
    BY <1>0, <1>1, <2>0 DEF PaymentResolves, rows, InvoiceInv, Terminal
<1>5. CASE \E w \in Workers : settle_invoice_and_append_entry(w)
  <2>0. PICK w \in Workers : settle_invoice_and_append_entry(w)
    BY <1>5
  <2>1. /\ HeldInvoice(w) \in Invoices /\ UNCHANGED <<payment, request>>
        /\ invoices[HeldInvoice(w)].status # "absent"
        /\ \/ UNCHANGED invoices
           \/ invoices' = [invoices EXCEPT ![HeldInvoice(w)].status = "settled"]
    BY <2>0, SettleEffect DEF AppendEntry
  <2> QED
    BY <1>0, <1>1, <2>1, SMTT(30) DEF InvoiceInv, InvoiceRow
<1>6. CASE \E w \in Workers : mark_late_settlement_for_refund(w) \/ mark_collection_uncollectible(w)
  <2>0. PICK w \in Workers : mark_late_settlement_for_refund(w) \/ mark_collection_uncollectible(w)
    BY <1>6
  <2>1. /\ HeldInvoice(w) \in Invoices /\ UNCHANGED <<payment, request>>
        /\ \/ invoices' = MarkPending(HeldInvoice(w), "ineligible")
           \/ /\ invoices' = MarkPending(HeldInvoice(w), "collection_failed")
              /\ payment[HeldInvoice(w)] = "expired"
    BY <2>0, MarkEffect
  <2> QED
    BY <1>0, <1>1, <2>1 DEF InvoiceInv, MarkPending, InvoiceRow
<1> QED
  BY <1>2, <1>3, <1>4, <1>5, <1>6, InvoicesFrame

-----------------------------------------------------------------------------
(* What a worker has learnt stays true. *)

\* A step moves one worker at most.
LEMMA OtherWorkers ==
  ASSUME TypeOK, Next, NEW v \in Workers
  PROVE  (pc'[v] = pc[v] /\ held'[v] = held[v]) \/ WorkerNext(v)
<1>0. pc \in [Workers -> WorkerStep] /\ held \in [Workers -> CollectionJobs \cup {NoJob}]
  BY DEF TypeOK, JobTypeOK
<1>1. CASE \E w \in Workers : WorkerNext(w)
  <2>0. PICK w \in Workers : WorkerNext(w)
    BY <1>1
  <2>1. CASE w # v
    BY <1>0, <2>0, <2>1 DEF WorkerNext, claim_job, claim, collection_payment_reference, get_payment,
       settle_invoice_and_append_entry, mark_late_settlement_for_refund,
       mark_collection_uncollectible, pending_invoices, freeze_raffle, succeed_job, succeed,
       fail_or_retry_job, fail_or_retry, Finish, HandlerError, WorkerCrash, Abandon, Goto
  <2> QED
    BY <2>0, <2>1
<1>2. CASE ~ \E w \in Workers : WorkerNext(w)
  BY <1>2, ZenonT(60) DEF Next, OrganizerNext, create_draft_raffle, update_raffle, transition_raffle,
     EndTimePasses, SetRaffle, ApiNext, create_collection_invoice, create_collection,
     fail_collection_invoice, store_collection_invoice, ApiCrash, ProviderNext, PaymentResolves,
     record_webhook_and_enqueue, schedule_due_closes, retry_operator_job, retry_dead_job
<1> QED
  BY <1>1, <1>2

\* Once its raffle has left OPEN, an invoice that is not settled never is, and
\* one that is not pending never is again.
LEMMA ClosedInvoices ==
  ASSUME TypeOK, ControlInv, InvoiceInv, HandlerInv, Next, NEW i \in Invoices, NEW r \in Raffles,
         raffles[r].status \in AfterOpen
  PROVE  /\ invoices'[i].raffle = r /\ invoices'[i].status = "settled" =>
              invoices[i].raffle = r /\ invoices[i].status = "settled"
         /\ invoices'[i].raffle = r /\ invoices'[i].status = "pending" =>
              invoices[i].raffle = r /\ invoices[i].status = "pending"
<1>0. invoices \in [Invoices -> InvoiceRow]
  BY DEF TypeOK
<1>1. CASE UNCHANGED <<invoices, request, payment, refunds>>
  BY <1>1
<1>2. CASE \E k \in Invoices : ApiNext(k)
  <2>0. PICK k \in Invoices : ApiNext(k)
    BY <1>2
  <2>1. ASSUME NEW q \in Raffles, NEW n \in TicketCounts, NEW late \in BOOLEAN,
               create_collection_invoice(k, q, n, late)
        PROVE  invoices'[i] = invoices[i] \/ invoices'[i].raffle # r
    BY <1>0, <2>1 DEF create_collection_invoice, AcceptsInvoice, AfterOpen
  <2>2. CASE create_collection(k) \/ ApiCrash(k)
    BY <2>2 DEF create_collection, ApiCrash, rows
  <2>3. CASE fail_collection_invoice(k) \/ store_collection_invoice(k)
    BY <1>0, <2>3 DEF fail_collection_invoice, store_collection_invoice, InvoiceRow
  <2> QED
    BY <2>0, <2>1, <2>2, <2>3 DEF ApiNext
<1>3. CASE \E k \in Invoices, s \in Terminal : PaymentResolves(k, s)
  BY <1>3 DEF PaymentResolves, rows
<1>4. CASE \E w \in Workers : settle_invoice_and_append_entry(w)
  <2>0. PICK w \in Workers : settle_invoice_and_append_entry(w)
    BY <1>4
  <2>1. /\ HeldInvoice(w) \in Invoices
        /\ \/ UNCHANGED invoices
           \/ /\ invoices' = [invoices EXCEPT ![HeldInvoice(w)].status = "settled"]
              /\ raffles[invoices[HeldInvoice(w)].raffle].status = "OPEN"
    BY <2>0, SettleEffect DEF AppendEntry, MayAppend
  <2> QED
    BY <1>0, <2>1 DEF AfterOpen, InvoiceRow
<1>5. CASE \E w \in Workers : mark_late_settlement_for_refund(w) \/ mark_collection_uncollectible(w)
  <2>0. PICK w \in Workers : mark_late_settlement_for_refund(w) \/ mark_collection_uncollectible(w)
    BY <1>5
  <2>1. /\ HeldInvoice(w) \in Invoices
        /\ \E s \in {"ineligible", "collection_failed"} : invoices' = MarkPending(HeldInvoice(w), s)
    BY <2>0, MarkEffect
  <2> QED
    BY <1>0, <2>1 DEF MarkPending, InvoiceRow
<1> QED
  BY <1>1, <1>2, <1>3, <1>4, <1>5, InvoicesFrame

\* What a worker learnt in an earlier transaction survives the steps of all
\* others.
LEMMA HandlerInvStep ==
  ASSUME TypeOK, ControlInv, InvoiceInv, HandlerInv, JobInv, Next
  PROVE  HandlerInv'
<1> SUFFICES ASSUME NEW v \in Workers
             PROVE  /\ pc'[v] = "settle" => payment'[HeldInvoice(v)'] = "settled"
                    /\ pc'[v] = "late" =>
                         /\ payment'[HeldInvoice(v)'] = "settled"
                         /\ invoices'[HeldInvoice(v)'].status # "settled"
                         /\ raffles'[invoices'[HeldInvoice(v)'].raffle].status \in AfterOpen
                    /\ pc'[v] = "uncollectible" => payment'[HeldInvoice(v)'] = "expired"
                    /\ pc'[v] = "freeze" => PendingOf(HeldRaffle(v))' = {}
                    /\ held'[v] \in CloseJobs => raffles'[HeldRaffle(v)'].status \in AfterOpen
                    /\ held'[v] \in CloseJobs /\ pc'[v] = "ok" =>
                         raffles'[HeldRaffle(v)'].status # "CLOSING"
  BY DEF HandlerInv
<1>1. CASE pc'[v] = pc[v] /\ held'[v] = held[v]
  <2> DEFINE i == HeldInvoice(v)
             r == HeldRaffle(v)
  <2>1. HeldInvoice(v)' = i /\ HeldRaffle(v)' = r
    BY <1>1 DEF HeldInvoice, HeldRaffle
  <2>2. pc[v] \in {"settle", "late", "uncollectible"} => i \in Invoices /\ payment'[i] = payment[i]
    BY HeldTypes, InvoiceStable DEF ControlInv, HandlerInv, Terminal
  <2>3. CASE pc[v] = "late"
    <3>1. /\ i \in Invoices /\ payment[i] = "settled" /\ invoices[i].status \notin {"absent", "settled"}
          /\ invoices[i].raffle \in Raffles /\ raffles[invoices[i].raffle].status \in AfterOpen
      BY <2>2, <2>3 DEF HandlerInv, InvoiceInv
    <3>2. invoices'[i].raffle = invoices[i].raffle /\ invoices'[i].status # "settled"
      BY <3>1, InvoiceStable, ClosedInvoices
    <3> QED
      BY <1>1, <2>1, <2>2, <2>3, <3>1, <3>2, RaffleStable, JobKinds DEF ControlInv
  <2>4. CASE pc[v] # "late"
    <3>1. ASSUME pc[v] = "freeze" PROVE PendingOf(HeldRaffle(v))' = {}
      <4>1. r \in Raffles /\ raffles[r].status \in AfterOpen /\ PendingOf(r) = {}
        BY <3>1, HeldTypes DEF HandlerInv, ControlInv
      <4> HIDE DEF r
      <4>2. \A k \in Invoices : ~(invoices'[k].raffle = r /\ invoices'[k].status = "pending")
        BY <4>1, ClosedInvoices DEF PendingOf
      <4> QED
        BY <2>1, <4>2 DEF PendingOf
    <3>2. held[v] \in CloseJobs => raffles'[r].status \in AfterOpen
      BY HeldTypes, RaffleStable DEF HandlerInv
    <3>3. held[v] \in CloseJobs /\ pc[v] = "ok" => raffles'[r].status # "CLOSING"
      BY HeldTypes, RaffleStable DEF HandlerInv, AfterOpen
    <3> QED
      BY <1>1, <2>1, <2>2, <2>4, <3>1, <3>2, <3>3 DEF HandlerInv, PendingOf
  <2> QED
    BY <2>3, <2>4
<1>2. CASE WorkerNext(v)
  <2>0. pc \in [Workers -> WorkerStep] /\ held \in [Workers -> CollectionJobs \cup {NoJob}]
    BY DEF TypeOK, JobTypeOK
  <2>1. ASSUME NEW j \in WorkerJobs, claim_job(v, j)
        PROVE  /\ held'[v] = j /\ pc'[v] \in {"reference", "count"} /\ UNCHANGED raffles
               /\ j \in CloseJobs => raffles[HeldRaffle(v)'].status \in AfterOpen
    <3>1. /\ held'[v] = j /\ pc'[v] = FirstStep(j) /\ UNCHANGED raffles
          /\ jobs[j].status # "absent"
      BY <2>0, <2>1 DEF claim_job, claim, rows
    <3> QED
      BY <3>1, JobKinds DEF JobInv, CloseJobs, CloseJob, HeldRaffle
  <2>2. CASE collection_payment_reference(v)
    <3>1. held'[v] \in ReconcileJobs /\ pc'[v] \in {"lookup", "ok"}
      BY <2>0, <2>2 DEF collection_payment_reference, Goto, ReferenceStep, ControlInv
    <3> QED
      BY <3>1, JobKinds
  <2>3. CASE get_payment(v)
    <3>1. /\ held'[v] \in ReconcileJobs /\ HeldInvoice(v)' = HeldInvoice(v) /\ UNCHANGED payment
          /\ pc'[v] = LookupStep(payment[HeldInvoice(v)])
      BY <2>0, <2>3 DEF get_payment, Goto, ControlInv, HeldInvoice
    <3> QED
      BY <3>1, JobKinds DEF LookupStep, Terminal
  <2>4. CASE settle_invoice_and_append_entry(v)
    <3> DEFINE i == HeldInvoice(v)
    <3>1. /\ i \in Invoices /\ held'[v] = held[v] /\ HeldInvoice(v)' = i /\ held'[v] \in ReconcileJobs
          /\ payment'[i] = "settled" /\ pc'[v] \in {"ok", "err", "late"}
          /\ pc'[v] = "late" =>
               /\ UNCHANGED <<invoices, raffles>>
               /\ invoices[i].status = "pending"
               /\ raffles[invoices[i].raffle].status # "OPEN"
      BY <2>0, <2>4, HeldTypes
      DEF settle_invoice_and_append_entry, Goto, ControlInv, HandlerInv, HeldInvoice, SettleStep
    <3>2. invoices[i].status = "pending" /\ raffles[invoices[i].raffle].status # "OPEN" =>
            raffles[invoices[i].raffle].status \in AfterOpen
      BY <3>1 DEF InvoiceInv, TypeOK, Row, RaffleStatus, BeforeOpen, AfterOpen
    <3> QED
      BY <3>1, <3>2, JobKinds, SMTT(30)
  <2>5. CASE mark_late_settlement_for_refund(v) \/ mark_collection_uncollectible(v)
    <3>1. held'[v] \in ReconcileJobs /\ pc'[v] = "ok"
      BY <2>0, <2>5 DEF mark_late_settlement_for_refund, mark_collection_uncollectible, Goto, ControlInv
    <3> QED
      BY <3>1, JobKinds
  <2>6. CASE pending_invoices(v)
    <3>1. /\ held'[v] = held[v] /\ HeldRaffle(v)' = HeldRaffle(v) /\ UNCHANGED <<raffles, invoices>>
          /\ pc'[v] = CountStep(HeldRaffle(v))
      BY <2>0, <2>6 DEF pending_invoices, Goto, HeldRaffle, rows
    <3> QED
      BY <3>1 DEF CountStep, PendingOf, HandlerInv
  <2>7. CASE freeze_raffle(v)
    <3> DEFINE r == HeldRaffle(v)
    <3>1. /\ held'[v] = held[v] /\ HeldRaffle(v)' = r /\ pc'[v] \in {"ok", "err"}
      BY <2>0, <2>7 DEF freeze_raffle, Goto, HeldRaffle
    <3>2. r \in Raffles /\ raffles[r].status \in AfterOpen
      BY <2>7, HeldTypes DEF freeze_raffle, ControlInv, HandlerInv
    <3>3. pc'[v] = "ok" => raffles'[r].status = FrozenStatus(r)
      <4>1. pc'[v] = "ok" => raffles' = [raffles EXCEPT ![r] =
              [raffles[r] EXCEPT !.status = FrozenStatus(r), !.entries_root = FrozenRoot(r)]]
        BY <2>0, <2>7 DEF freeze_raffle, Goto
      <4> QED
        BY <3>2, <4>1 DEF TypeOK, Row
    <3>4. pc'[v] = "err" => UNCHANGED raffles
      BY <2>0, <2>7 DEF freeze_raffle, Goto
    <3> QED
      BY <3>1, <3>2, <3>3, <3>4 DEF FrozenStatus, AfterOpen
  <2>8. CASE HandlerError(v)
    <3>1. /\ held'[v] = held[v] /\ HeldRaffle(v)' = HeldRaffle(v) /\ UNCHANGED raffles /\ pc'[v] = "err"
      BY <2>0, <2>8 DEF HandlerError, HeldRaffle, rows
    <3> QED
      BY <3>1 DEF HandlerInv
  <2>9. CASE succeed_job(v) \/ fail_or_retry_job(v) \/ WorkerCrash(v)
    <3>1. held'[v] = NoJob /\ pc'[v] = "idle"
      BY <2>0, <2>9 DEF succeed_job, succeed, fail_or_retry_job, fail_or_retry, WorkerCrash, Finish,
         Abandon, Goto
    <3> QED
      BY <3>1, JobKinds
  <2> QED
    BY <1>2, <2>1, <2>2, <2>3, <2>4, <2>5, <2>6, <2>7, <2>8, <2>9 DEF WorkerNext
<1> QED
  BY <1>1, <1>2, OtherWorkers

-----------------------------------------------------------------------------
(* The jobs table follows the raffles. *)

\* INSERT ... ON CONFLICT DO NOTHING, row by row.
LEMMA InsertedRow ==
  ASSUME NEW J, NEW j \in CollectionJobs
  PROVE  /\ Inserted(J)[j].status =
              IF j \in J /\ jobs[j].status = "absent" THEN "queued" ELSE jobs[j].status
  BY DEF Inserted, JobRow

\* A raffle that is closing or waits for its draw keeps its job.
LEMMA JobInvStep ==
  ASSUME TypeOK, ControlInv, InvoiceInv, HandlerInv, JobInv, Next
  PROVE  JobInv'
<1> DEFINE Active == {"queued", "running", "dead"}
<1> SUFFICES ASSUME NEW r \in Raffles
             PROVE  /\ jobs'[CloseJob(r)].status # "absent" => raffles'[r].status \in AfterOpen
                    /\ jobs'[DrawJob(r)].status # "absent" => raffles'[r].status = "RANDOMNESS_PENDING"
                    /\ raffles'[r].status = "CLOSING" => jobs'[CloseJob(r)].status \in Active
                    /\ raffles'[r].status = "RANDOMNESS_PENDING" => jobs'[DrawJob(r)].status \in Active
  BY DEF JobInv, WorkScheduled
<1>0. /\ raffles \in [Raffles -> Row] /\ CloseJob(r) \in CollectionJobs /\ DrawJob(r) \in CollectionJobs
      /\ jobs \in [CollectionJobs -> [status : JobStatus, lease_owner : Workers \cup {NoWorker}]]
  BY JobKinds DEF TypeOK, JobTypeOK
<1>1. /\ jobs[CloseJob(r)].status # "absent" => raffles[r].status \in AfterOpen
      /\ jobs[DrawJob(r)].status # "absent" => raffles[r].status = "RANDOMNESS_PENDING"
      /\ raffles[r].status = "CLOSING" => jobs[CloseJob(r)].status \in Active
      /\ raffles[r].status = "RANDOMNESS_PENDING" => jobs[DrawJob(r)].status \in Active
  BY DEF JobInv, WorkScheduled
<1>2. ASSUME NEW q \in Raffles, OrganizerNext(q)
      PROVE  /\ UNCHANGED jobs
             /\ raffles'[r].status \in {"CLOSING", "RANDOMNESS_PENDING"} =>
                  raffles'[r].status = raffles[r].status
  <2>1. UNCHANGED jobs
    BY <1>2 DEF OrganizerNext, create_draft_raffle, update_raffle, transition_raffle, EndTimePasses, SetRaffle
  <2>2. CASE q # r
    BY <1>0, <1>2, <2>1, <2>2 DEF OrganizerNext, create_draft_raffle, update_raffle, transition_raffle,
       EndTimePasses, SetRaffle
  <2>3. CASE q = r
    <3> USE <1>0, <2>3 DEF SetRaffle, Row
    <3>1. ASSUME NEW p \in Prices, NEW e \in BOOLEAN, create_draft_raffle(r, p, e)
          PROVE  raffles'[r].status = "DRAFT"
      BY <3>1 DEF create_draft_raffle
    <3>2. ASSUME NEW p \in Prices, NEW e \in BOOLEAN, update_raffle(r, p, e)
          PROVE  raffles'[r].status = raffles[r].status
      BY <3>2 DEF update_raffle
    <3>3. ASSUME NEW s \in {"SCHEDULED", "OPEN", "CANCELLED"}, transition_raffle(r, s)
          PROVE  raffles'[r].status = s
      BY <3>3 DEF transition_raffle
    <3>4. CASE EndTimePasses(r)
      BY <2>1, <3>4 DEF EndTimePasses
    <3> QED
      BY <1>2, <2>1, <3>1, <3>2, <3>3, <3>4 DEF OrganizerNext
  <2> QED
    BY <2>2, <2>3, <2>1
<1>3. ASSUME NEW i \in Invoices, ApiNext(i) \/ \E s \in Terminal : PaymentResolves(i, s)
      PROVE  UNCHANGED <<jobs, raffles>>
  BY <1>3 DEF ApiNext, create_collection_invoice, create_collection, fail_collection_invoice,
     store_collection_invoice, ApiCrash, PaymentResolves, rows
<1>4. ASSUME NEW i \in Invoices, NEW e \in Events, record_webhook_and_enqueue(i, e)
      PROVE  /\ UNCHANGED raffles
             /\ jobs'[CloseJob(r)].status = jobs[CloseJob(r)].status
             /\ jobs'[DrawJob(r)].status = jobs[DrawJob(r)].status
  BY <1>0, <1>4, InsertedRow DEF record_webhook_and_enqueue, rows, ReconcileJob, CloseJob, DrawJob
<1>5. CASE schedule_due_closes
  <2>1. /\ raffles'[r].status = IF r \in DueRaffles THEN "CLOSING" ELSE raffles[r].status
        /\ jobs' = Inserted({CloseJob(q) : q \in DueRaffles})
    BY <1>0, <1>5 DEF schedule_due_closes, Row
  <2>2. CloseJob(r) \in {CloseJob(q) : q \in DueRaffles} <=> r \in DueRaffles
    BY JobKinds DEF DueRaffles
  <2>3. jobs'[CloseJob(r)].status =
          IF r \in DueRaffles /\ jobs[CloseJob(r)].status = "absent" THEN "queued"
          ELSE jobs[CloseJob(r)].status
    BY <1>0, <2>1, <2>2, InsertedRow
  <2>4. jobs'[DrawJob(r)].status = jobs[DrawJob(r)].status
    <3>1. DrawJob(r) \notin {CloseJob(q) : q \in DueRaffles}
      BY DEF CloseJob, DrawJob
    <3> QED
      BY <1>0, <2>1, <3>1, InsertedRow
  <2>5. r \in DueRaffles => raffles[r].status = "OPEN"
    BY DEF DueRaffles
  <2> QED
    BY <1>1, <2>1, <2>3, <2>4, <2>5 DEF AfterOpen
<1>6. ASSUME NEW w \in Workers, freeze_raffle(w)
      PROVE  /\ jobs'[CloseJob(r)].status # "absent" => raffles'[r].status \in AfterOpen
             /\ jobs'[DrawJob(r)].status # "absent" => raffles'[r].status = "RANDOMNESS_PENDING"
             /\ raffles'[r].status = "CLOSING" => jobs'[CloseJob(r)].status \in Active
             /\ raffles'[r].status = "RANDOMNESS_PENDING" => jobs'[DrawJob(r)].status \in Active
  <2> DEFINE q == HeldRaffle(w)
  <2>1. q \in Raffles
    BY <1>6, HeldTypes DEF freeze_raffle, ControlInv
  <2>2. CASE UNCHANGED <<raffles, jobs>>
    BY <1>1, <2>2
  <2>3. CASE /\ raffles[q].status = "CLOSING" /\ jobs' = Inserted(DrawJobs(q))
             /\ raffles' = [raffles EXCEPT ![q] =
                  [raffles[q] EXCEPT !.status = FrozenStatus(q), !.entries_root = FrozenRoot(q)]]
    <3>1. jobs'[CloseJob(r)].status = jobs[CloseJob(r)].status
      <4>1. CloseJob(r) \notin DrawJobs(q)
        BY DEF CloseJob, DrawJob, DrawJobs
      <4> QED
        BY <1>0, <2>3, <4>1, InsertedRow
    <3>2. CASE q # r
      <4>1. raffles'[r] = raffles[r]
        BY <1>0, <2>3, <3>2
      <4>2. jobs'[DrawJob(r)].status = jobs[DrawJob(r)].status
        <5>1. DrawJob(r) \notin DrawJobs(q)
          BY <3>2 DEF DrawJobs, DrawJob
        <5> QED
          BY <1>0, <2>3, <5>1, InsertedRow
      <4> QED
        BY <1>1, <3>1, <4>1, <4>2
    <3>3. CASE q = r
      <4>1. raffles'[r].status = FrozenStatus(r)
        BY <1>0, <2>3, <3>3 DEF Row
      <4>2. jobs[DrawJob(r)].status = "absent"
        BY <1>1, <2>3, <3>3
      <4>3. FrozenStatus(r) = "RANDOMNESS_PENDING" <=> DrawJob(r) \in DrawJobs(r)
        BY DEF FrozenStatus, DrawJobs
      <4>4. jobs'[DrawJob(r)].status = IF DrawJob(r) \in DrawJobs(r) THEN "queued" ELSE "absent"
        BY <1>0, <2>3, <3>3, <4>2, InsertedRow
      <4> QED
        BY <3>1, <4>1, <4>3, <4>4 DEF FrozenStatus, AfterOpen
    <3> QED
      BY <3>2, <3>3
  <2> QED
    BY <1>6, <2>2, <2>3 DEF freeze_raffle
<1>7. ASSUME NEW w \in Workers, settle_invoice_and_append_entry(w)
      PROVE  UNCHANGED jobs /\ raffles'[r].status = raffles[r].status
  <2>1. CASE UNCHANGED raffles
    BY <1>7, <2>1, SettleEffect
  <2>2. CASE AppendEntry(HeldInvoice(w), NextEntry(HeldInvoice(w)))
    <3> DEFINE q == invoices[HeldInvoice(w)].raffle
    <3>1. UNCHANGED jobs /\ q \in Raffles
      BY <1>7, SettleEffect
    <3>2. CASE q # r
      BY <1>0, <2>2, <3>1, <3>2 DEF AppendEntry
    <3>3. CASE q = r
      BY <1>0, <2>2, <3>1, <3>3 DEF AppendEntry, Row
    <3> QED
      BY <3>2, <3>3
  <2> QED
    BY <1>7, <2>1, <2>2, SettleEffect
<1>8. ASSUME NEW w \in Workers,
             \/ collection_payment_reference(w) \/ get_payment(w) \/ pending_invoices(w)
             \/ mark_late_settlement_for_refund(w) \/ mark_collection_uncollectible(w)
             \/ HandlerError(w) \/ WorkerCrash(w)
      PROVE  UNCHANGED <<jobs, raffles>>
  BY <1>8 DEF collection_payment_reference, get_payment, pending_invoices,
     mark_late_settlement_for_refund, mark_collection_uncollectible, HandlerError, WorkerCrash,
     Abandon, rows
<1>9. ASSUME NEW j \in WorkerJobs, jobs[j].status # "absent",
             NEW s \in JobStatus, NEW w \in Workers \cup {NoWorker},
             jobs' = [jobs EXCEPT ![j] = JobRow(s, w)], UNCHANGED raffles,
             s # "absent",
             s = "succeeded" => ~(j = CloseJob(r) /\ raffles[r].status = "CLOSING")
      PROVE  /\ jobs'[CloseJob(r)].status # "absent" => raffles'[r].status \in AfterOpen
             /\ jobs'[DrawJob(r)].status # "absent" => raffles'[r].status = "RANDOMNESS_PENDING"
             /\ raffles'[r].status = "CLOSING" => jobs'[CloseJob(r)].status \in Active
             /\ raffles'[r].status = "RANDOMNESS_PENDING" => jobs'[DrawJob(r)].status \in Active
  <2>1. jobs'[DrawJob(r)] = jobs[DrawJob(r)]
    BY <1>0, <1>9, JobKinds
  <2>2. jobs'[CloseJob(r)].status = IF j = CloseJob(r) THEN s ELSE jobs[CloseJob(r)].status
    BY <1>0, <1>9 DEF JobRow
  <2> QED
    BY <1>0, <1>1, <1>9, <2>1, <2>2 DEF JobStatus
<1>10. ASSUME NEW w \in Workers, NEW j \in WorkerJobs, claim_job(w, j)
       PROVE  /\ jobs' = [jobs EXCEPT ![j] = JobRow("running", w)] /\ UNCHANGED raffles
              /\ jobs[j].status # "absent"
  BY <1>10 DEF claim_job, claim, rows
<1>11. ASSUME NEW j \in WorkerJobs, retry_operator_job(j)
       PROVE  /\ jobs' = [jobs EXCEPT ![j] = JobRow("queued", NoWorker)] /\ UNCHANGED raffles
              /\ jobs[j].status # "absent"
  BY <1>11 DEF retry_operator_job, retry_dead_job, rows
<1>12. ASSUME NEW w \in Workers, succeed_job(w) \/ fail_or_retry_job(w)
       PROVE  /\ UNCHANGED raffles
              /\ \/ UNCHANGED jobs
                 \/ \E s \in {"succeeded", "queued", "dead"} :
                      /\ held[w] \in WorkerJobs /\ jobs[held[w]].status # "absent"
                      /\ jobs' = [jobs EXCEPT ![held[w]] = JobRow(s, NoWorker)]
                      /\ s = "succeeded" => ~(held[w] = CloseJob(r) /\ raffles[r].status = "CLOSING")
  <2>1. held[w] \in WorkerJobs \cup {NoJob} /\ UNCHANGED raffles
    BY <1>12 DEF succeed_job, fail_or_retry_job, ControlInv, rows
  <2>2. CASE succeed_job(w)
    <3>1. held[w] = CloseJob(r) => raffles[r].status # "CLOSING"
      BY <2>2, JobKinds DEF succeed_job, Goto, HandlerInv, HeldRaffle, CloseJob
    <3> QED
      BY <2>1, <2>2, <3>1 DEF succeed_job, succeed, Finish, OwnsLease, JobRow
  <2>3. CASE fail_or_retry_job(w)
    <3>1. PICK s \in {"queued", "dead"} : Finish(w, s)
      BY <2>3 DEF fail_or_retry_job, fail_or_retry
    <3>2. CASE OwnsLease(w)
      <4>1. held[w] \in WorkerJobs /\ jobs' = [jobs EXCEPT ![held[w]] = JobRow(s, NoWorker)]
        BY <2>1, <3>1, <3>2 DEF Finish
      <4>2. jobs[held[w]].status = "running"
        BY <3>2 DEF OwnsLease, JobRow
      <4> QED
        BY <2>1, <4>1, <4>2
    <3>3. CASE ~OwnsLease(w)
      BY <2>1, <3>1, <3>3 DEF Finish
    <3> QED
      BY <3>2, <3>3
  <2> QED
    BY <1>12, <2>2, <2>3
<1>13. CASE \E w \in Workers : WorkerNext(w)
  <2>0. PICK w \in Workers : WorkerNext(w)
    BY <1>13
  <2>1. CASE succeed_job(w) \/ fail_or_retry_job(w)
    BY <1>1, <1>9, <1>12, <2>1 DEF JobStatus
  <2>2. CASE \E j \in WorkerJobs : claim_job(w, j)
    BY <1>9, <1>10, <2>2 DEF JobStatus
  <2> QED
    BY <1>1, <1>6, <1>7, <1>8, <2>0, <2>1, <2>2 DEF WorkerNext
<1>14. CASE \E j \in WorkerJobs : retry_operator_job(j)
  BY <1>9, <1>11, <1>14 DEF JobStatus
<1>15. CASE \E q \in Raffles : OrganizerNext(q)
  BY <1>1, <1>2, <1>15, RaffleStable
<1>16. CASE \E i \in Invoices : ApiNext(i) \/ ProviderNext(i)
  BY <1>1, <1>3, <1>4, <1>16 DEF ProviderNext
<1> QED
  BY <1>5, <1>13, <1>14, <1>15, <1>16 DEF Next

-----------------------------------------------------------------------------
(* The ledger. *)

\* The totals and the chain head change with an appended entry only.
LEMMA TotalsFrame ==
  ASSUME TypeOK, ControlInv, Next, NEW r \in Raffles,
         ~ \E w \in Workers : settle_invoice_and_append_entry(w)
  PROVE  /\ raffles'[r].total_tickets = raffles[r].total_tickets
         /\ raffles'[r].total_pool_sats = raffles[r].total_pool_sats
         /\ raffles'[r].entry_chain_head = raffles[r].entry_chain_head
<1>0. raffles \in [Raffles -> Row]
  BY DEF TypeOK
<1>1. CASE \E q \in Raffles : OrganizerNext(q)
  <2>0. PICK q \in Raffles : OrganizerNext(q)
    BY <1>1
  <2>1. ASSUME NEW row, SetRaffle(q, row),
               row.total_tickets = raffles[q].total_tickets,
               row.total_pool_sats = raffles[q].total_pool_sats,
               row.entry_chain_head = raffles[q].entry_chain_head
        PROVE  /\ raffles'[r].total_tickets = raffles[r].total_tickets
               /\ raffles'[r].total_pool_sats = raffles[r].total_pool_sats
               /\ raffles'[r].entry_chain_head = raffles[r].entry_chain_head
    BY <1>0, <2>1 DEF SetRaffle
  <2>2. CASE \E p \in Prices, e \in BOOLEAN : create_draft_raffle(q, p, e)
    BY <1>0, <2>1, <2>2 DEF create_draft_raffle, Row
  <2>3. CASE \E p \in Prices, e \in BOOLEAN : update_raffle(q, p, e)
    BY <1>0, <2>1, <2>3 DEF update_raffle, Row
  <2>4. CASE \E s \in {"SCHEDULED", "OPEN", "CANCELLED"} : transition_raffle(q, s)
    BY <1>0, <2>1, <2>4 DEF transition_raffle, Row
  <2>5. CASE EndTimePasses(q)
    BY <1>0, <2>1, <2>5 DEF EndTimePasses, Row
  <2> QED
    BY <2>0, <2>2, <2>3, <2>4, <2>5 DEF OrganizerNext
<1>2. CASE \E w \in Workers : freeze_raffle(w)
  <2>0. PICK w \in Workers : freeze_raffle(w)
    BY <1>2
  <2>1. CASE raffles' = raffles
    BY <2>1
  <2>2. CASE raffles' = [raffles EXCEPT ![HeldRaffle(w)] =
               [raffles[HeldRaffle(w)] EXCEPT !.status = FrozenStatus(HeldRaffle(w)),
                                              !.entries_root = FrozenRoot(HeldRaffle(w))]]
    <3>1. CASE HeldRaffle(w) = r
      BY <1>0, <2>2, <3>1 DEF Row
    <3>2. CASE HeldRaffle(w) # r
      BY <1>0, <2>2, <3>2
    <3> QED
      BY <3>1, <3>2
  <2> QED
    BY <2>0, <2>1, <2>2 DEF freeze_raffle
<1>3. CASE schedule_due_closes
  BY <1>0, <1>3 DEF schedule_due_closes, Row
<1> QED
  BY <1>1, <1>2, <1>3, RafflesFrame

\* The append, spelt out.
LEMMA AppendEffect ==
  ASSUME TypeOK, ControlInv, InvoiceInv, HandlerInv, NEW i \in Invoices,
         MayAppend(i), Fits(i), AppendEntry(i, NextEntry(i)),
         NEW q, q = invoices[i].raffle, NEW e, e = NextEntry(i)
  PROVE  /\ q \in Raffles /\ raffles[q].status = "OPEN" /\ invoices[i].status = "pending"
         /\ e \in Entry
         /\ e.data.raffle_id = q /\ e.data.entry_index = Len(entries[q]) /\ e.data.invoice = i
         /\ e.data.amount_sats = invoices[i].amount_sats
         /\ e.data.start = raffles[q].total_tickets
         /\ e.data.end = raffles[q].total_tickets + invoices[i].ticket_count
         /\ e.previous_entry_hash = raffles[q].entry_chain_head
         /\ e.entry_hash = entry_hash(e.data, raffles[q].entry_chain_head)
         /\ entries' = [entries EXCEPT ![q] = Append(entries[q], e)]
         /\ invoices' = [invoices EXCEPT ![i].status = "settled"]
         /\ \A r \in Raffles : r # q => raffles'[r] = raffles[r]
         /\ raffles'[q].status = raffles[q].status
         /\ raffles'[q].entry_price_sats = raffles[q].entry_price_sats
         /\ raffles'[q].entries_root = raffles[q].entries_root
         /\ raffles'[q].total_tickets = e.data.end
         /\ raffles'[q].total_pool_sats = raffles[q].total_pool_sats + e.data.amount_sats
         /\ raffles'[q].entry_chain_head = e.entry_hash
<1>1. q \in Raffles /\ raffles[q].status = "OPEN" /\ invoices[i].status = "pending"
  BY DEF MayAppend, InvoiceInv
<1>2. e \in Entry
  BY <1>1, NextEntryType
<1>3. /\ e.data.raffle_id = q /\ e.data.entry_index = Len(entries[q]) /\ e.data.invoice = i
      /\ e.data.amount_sats = invoices[i].amount_sats
      /\ e.data.start = raffles[q].total_tickets
      /\ e.data.end = raffles[q].total_tickets + invoices[i].ticket_count
      /\ e.previous_entry_hash = raffles[q].entry_chain_head
      /\ e.entry_hash = entry_hash(e.data, raffles[q].entry_chain_head)
  BY DEF NextEntry, LedgerEntry
<1>4. /\ entries' = [entries EXCEPT ![q] = Append(entries[q], e)]
      /\ invoices' = [invoices EXCEPT ![i].status = "settled"]
      /\ raffles' = [raffles EXCEPT ![q] =
           [raffles[q] EXCEPT !.total_tickets = e.data.end,
                              !.total_pool_sats = raffles[q].total_pool_sats + e.data.amount_sats,
                              !.entry_chain_head = e.entry_hash]]
  BY DEF AppendEntry
<1>5. raffles \in [Raffles -> Row]
  BY DEF TypeOK
<1>6. \A r \in Raffles : r # q => raffles'[r] = raffles[r]
  BY <1>4, <1>5
<1>7. /\ raffles'[q].status = raffles[q].status
      /\ raffles'[q].entry_price_sats = raffles[q].entry_price_sats
      /\ raffles'[q].entries_root = raffles[q].entries_root
      /\ raffles'[q].total_tickets = e.data.end
      /\ raffles'[q].total_pool_sats = raffles[q].total_pool_sats + e.data.amount_sats
      /\ raffles'[q].entry_chain_head = e.entry_hash
  BY <1>1, <1>4, <1>5 DEF Row
<1> QED
  BY <1>1, <1>2, <1>3, <1>4, <1>6, <1>7

\* Appending to a ledger that passes summarize_ledger an entry that continues it.
LEMMA ChainAppend ==
  ASSUME NEW es \in Seq(Entry), NEW e \in Entry,
         \A k \in DOMAIN es : EntryAccepted(es, k),
         \A k \in DOMAIN es : es[k].data.raffle_id = e.data.raffle_id,
         e.data.entry_index = Len(es), e.data.start < e.data.end,
         e.data.start = ExpectedStart(es, Len(es) + 1),
         e.previous_entry_hash = PreviousHash(es, Len(es) + 1),
         e.entry_hash = entry_hash(e.data, PreviousHash(es, Len(es) + 1))
  PROVE  /\ \A k \in DOMAIN Append(es, e) : EntryAccepted(Append(es, e), k)
         /\ \A k \in DOMAIN Append(es, e) : Append(es, e)[k].data.raffle_id = e.data.raffle_id
         /\ ExpectedStart(Append(es, e), Len(Append(es, e)) + 1) = e.data.end
         /\ PreviousHash(Append(es, e), Len(Append(es, e)) + 1) = e.entry_hash
<1> DEFINE n == Len(es)
           fs == Append(es, e)
<1>1. n \in Nat /\ Len(fs) = n + 1 /\ DOMAIN es = 1 .. n /\ DOMAIN fs = 1 .. n + 1
      /\ fs[n + 1] = e /\ \A k \in 1 .. n : fs[k] = es[k]
  OBVIOUS
<1> HIDE DEF n, fs
<1>2. \A k \in 1 .. n + 1 : fs[k].data.raffle_id = e.data.raffle_id
  BY <1>1
<1>3. \A k \in 1 .. n + 1 : /\ ExpectedStart(fs, k) = ExpectedStart(es, k)
                            /\ PreviousHash(fs, k) = PreviousHash(es, k)
  BY <1>1 DEF ExpectedStart, PreviousHash
<1>4. \A k \in 1 .. n : EntryAccepted(fs, k)
  BY <1>1, <1>2, <1>3 DEF EntryAccepted
<1>5. EntryAccepted(fs, n + 1)
  BY <1>1, <1>2, <1>3 DEF EntryAccepted, n
<1>6. ExpectedStart(fs, Len(fs) + 1) = e.data.end /\ PreviousHash(fs, Len(fs) + 1) = e.entry_hash
  BY <1>1 DEF ExpectedStart, PreviousHash
<1> QED
  BY <1>1, <1>2, <1>4, <1>5, <1>6 DEF fs

\* The ledger stays a hash chain over contiguous tickets.
LEMMA ChainStep ==
  ASSUME TypeOK, ControlInv, InvoiceInv, HandlerInv, ChainInv, Next
  PROVE  ChainInv'
<1> SUFFICES ASSUME NEW r \in Raffles
             PROVE  /\ \A k \in DOMAIN entries'[r] : EntryAccepted(entries'[r], k)
                    /\ \A k \in DOMAIN entries'[r] : entries'[r][k].data.raffle_id = r
                    /\ raffles'[r].total_tickets = ExpectedStart(entries'[r], Len(entries'[r]) + 1)
                    /\ raffles'[r].entry_chain_head = PreviousHash(entries'[r], Len(entries'[r]) + 1)
  BY DEF ChainInv
<1>1. CASE ~ \E w \in Workers : settle_invoice_and_append_entry(w)
  <2>1. UNCHANGED entries
    BY <1>1, EntriesFrame
  <2> QED
    BY <1>1, <2>1, TotalsFrame DEF ChainInv
<1>2. CASE \E w \in Workers : settle_invoice_and_append_entry(w)
  <2>0. PICK w \in Workers : settle_invoice_and_append_entry(w)
    BY <1>2
  <2>1. CASE UNCHANGED <<raffles, entries, invoices>>
    BY <2>1 DEF ChainInv
  <2>2. CASE /\ MayAppend(HeldInvoice(w)) /\ Fits(HeldInvoice(w))
             /\ AppendEntry(HeldInvoice(w), NextEntry(HeldInvoice(w)))
    <3> DEFINE i == HeldInvoice(w)
               q == invoices[i].raffle
               e == NextEntry(i)
    <3>0. i \in Invoices
      BY <2>0, SettleEffect
    <3>1. /\ q \in Raffles /\ e \in Entry
          /\ e.data.raffle_id = q /\ e.data.entry_index = Len(entries[q])
          /\ e.data.start = raffles[q].total_tickets
          /\ e.data.end = raffles[q].total_tickets + invoices[i].ticket_count
          /\ e.previous_entry_hash = raffles[q].entry_chain_head
          /\ e.entry_hash = entry_hash(e.data, raffles[q].entry_chain_head)
          /\ entries' = [entries EXCEPT ![q] = Append(entries[q], e)]
          /\ \A p \in Raffles : p # q => raffles'[p] = raffles[p]
          /\ raffles'[q].total_tickets = e.data.end
          /\ raffles'[q].entry_chain_head = e.entry_hash
          /\ invoices[i].status = "pending"
      BY <2>2, <3>0, AppendEffect
    <3>2. invoices[i].ticket_count \in Nat \ {0} /\ raffles[q].total_tickets \in Nat
      BY <3>0, <3>1 DEF InvoiceInv, TypeOK, InvoiceRow, Row
    <3> HIDE DEF i, q, e
    <3>3. CASE r # q
      <4>1. entries'[r] = entries[r] /\ raffles'[r] = raffles[r]
        BY <3>1, <3>3 DEF TypeOK
      <4> QED
        BY <4>1 DEF ChainInv
    <3>4. CASE r = q
      <4>1. entries[q] \in Seq(Entry) /\ entries'[q] = Append(entries[q], e)
        BY <3>1 DEF TypeOK
      <4>2. /\ \A k \in DOMAIN entries[q] : EntryAccepted(entries[q], k)
            /\ \A k \in DOMAIN entries[q] : entries[q][k].data.raffle_id = e.data.raffle_id
            /\ e.data.start = ExpectedStart(entries[q], Len(entries[q]) + 1)
            /\ e.previous_entry_hash = PreviousHash(entries[q], Len(entries[q]) + 1)
            /\ e.entry_hash = entry_hash(e.data, PreviousHash(entries[q], Len(entries[q]) + 1))
        BY <3>1 DEF ChainInv
      <4>3. e.data.start < e.data.end
        BY <3>1, <3>2
      <4> QED
        BY <3>1, <3>4, <4>1, <4>2, <4>3, ChainAppend
    <3> QED
      BY <3>3, <3>4
  <2> QED
    BY <2>0, <2>1, <2>2, SettleEffect
<1> QED
  BY <1>1, <1>2

\* Multiplication distributes over addition.
LEMMA Distributes == \A a, b, c \in Nat : a * (b + c) = a * b + a * c /\ a * 0 = 0
  OBVIOUS

LEMMA PositiveProduct == \A a, b \in Nat \ {0} : a * b \in Nat /\ a * b > 0
  OBVIOUS

\* Every ticket is still priced at the raffle's own price.
LEMMA PoolStep ==
  ASSUME TypeOK, ControlInv, InvoiceInv, HandlerInv, PoolInv, TypeOK', Next
  PROVE  PoolInv'
<1> SUFFICES ASSUME NEW r \in Raffles
             PROVE  /\ raffles'[r].total_pool_sats =
                         raffles'[r].entry_price_sats * raffles'[r].total_tickets
                    /\ raffles'[r].total_pool_sats <= MaxI64
                    /\ raffles'[r].status \in BeforeOpen => raffles'[r].total_tickets = 0
  BY DEF PoolInv, PoolPriced
<1>0. /\ raffles[r].total_tickets \in Nat /\ raffles[r].total_pool_sats \in Nat
      /\ raffles[r].entry_price_sats \in Nat /\ raffles'[r].entry_price_sats \in Nat
  BY DEF TypeOK, Row
<1>1. /\ raffles[r].total_pool_sats = raffles[r].entry_price_sats * raffles[r].total_tickets
      /\ raffles[r].total_pool_sats <= MaxI64
      /\ raffles[r].status \in BeforeOpen => raffles[r].total_tickets = 0
  BY DEF PoolInv, PoolPriced
<1>2. CASE /\ raffles'[r].total_tickets = raffles[r].total_tickets
           /\ raffles'[r].total_pool_sats = raffles[r].total_pool_sats
  <2>1. CASE raffles[r].status \in BeforeOpen
    BY <1>0, <1>1, <1>2, <2>1, Distributes
  <2>2. CASE raffles[r].status \notin BeforeOpen
    BY <1>1, <1>2, <2>2, RaffleStable
  <2> QED
    BY <2>1, <2>2
<1>3. CASE \E w \in Workers : settle_invoice_and_append_entry(w)
  <2>0. PICK w \in Workers : settle_invoice_and_append_entry(w)
    BY <1>3
  <2>1. CASE UNCHANGED <<raffles, entries, invoices>>
    BY <1>2, <2>1
  <2>2. CASE /\ MayAppend(HeldInvoice(w)) /\ Fits(HeldInvoice(w))
             /\ AppendEntry(HeldInvoice(w), NextEntry(HeldInvoice(w)))
    <3> DEFINE i == HeldInvoice(w)
               q == invoices[i].raffle
               e == NextEntry(i)
    <3>0. i \in Invoices
      BY <2>0, SettleEffect
    <3>1. /\ q \in Raffles /\ raffles[q].status = "OPEN" /\ invoices[i].status = "pending"
          /\ \A p \in Raffles : p # q => raffles'[p] = raffles[p]
          /\ raffles'[q].status = raffles[q].status
          /\ raffles'[q].entry_price_sats = raffles[q].entry_price_sats
          /\ raffles'[q].total_tickets = raffles[q].total_tickets + invoices[i].ticket_count
          /\ raffles'[q].total_pool_sats = raffles[q].total_pool_sats + invoices[i].amount_sats
      BY <2>2, <3>0, AppendEffect
    <3>2. /\ invoices[i].ticket_count \in Nat
          /\ invoices[i].amount_sats = raffles[q].entry_price_sats * invoices[i].ticket_count
      BY <3>0, <3>1 DEF InvoiceInv, TypeOK, InvoiceRow
    <3>3. raffles[q].total_pool_sats + invoices[i].amount_sats <= MaxI64
      BY <2>2 DEF Fits
    <3> HIDE DEF i, q, e
    <3>4. CASE r # q
      BY <1>1, <3>1, <3>4
    <3>5. CASE r = q
      BY <1>0, <1>1, <3>1, <3>2, <3>3, <3>5, Distributes DEF BeforeOpen
    <3> QED
      BY <3>4, <3>5
  <2> QED
    BY <2>0, <2>1, <2>2, SettleEffect
<1> QED
  BY <1>2, <1>3, TotalsFrame

-----------------------------------------------------------------------------
(* The freeze. *)

\* Only freeze_raffle sets a root.
LEMMA FreezeOnly ==
  ASSUME TypeOK, ControlInv, InvoiceInv, HandlerInv, RootInv, Next, NEW r \in Raffles,
         raffles[r].status \notin {"RANDOMNESS_PENDING", "CANCELLED"},
         raffles'[r].entries_root # Null \/ raffles'[r].status = "RANDOMNESS_PENDING"
  PROVE  \E w \in Workers : /\ freeze_raffle(w) /\ HeldRaffle(w) = r
                            /\ raffles[r].status = "CLOSING"
                            /\ raffles'[r].status = FrozenStatus(r)
                            /\ raffles'[r].entries_root = FrozenRoot(r)
<1>0. raffles \in [Raffles -> Row] /\ raffles[r].entries_root = Null
  BY DEF TypeOK, RootInv
<1>1. CASE UNCHANGED raffles
  BY <1>0, <1>1
<1>2. CASE \E q \in Raffles : OrganizerNext(q)
  <2>0. PICK q \in Raffles : OrganizerNext(q)
    BY <1>2
  <2>1. ASSUME NEW row, SetRaffle(q, row), row.entries_root = raffles[q].entries_root,
               row.status = "RANDOMNESS_PENDING" => raffles[q].status = "RANDOMNESS_PENDING"
        PROVE  FALSE
    BY <1>0, <2>1 DEF SetRaffle
  <2>2. CASE \E p \in Prices, e \in BOOLEAN : create_draft_raffle(q, p, e)
    BY <1>0, <2>1, <2>2 DEF create_draft_raffle, Row
  <2>3. CASE \E p \in Prices, e \in BOOLEAN : update_raffle(q, p, e)
    BY <1>0, <2>1, <2>3 DEF update_raffle, Row
  <2>4. CASE \E s \in {"SCHEDULED", "OPEN", "CANCELLED"} : transition_raffle(q, s)
    BY <1>0, <2>1, <2>4 DEF transition_raffle, Row
  <2>5. CASE EndTimePasses(q)
    BY <1>0, <2>1, <2>5 DEF EndTimePasses, Row
  <2> QED
    BY <2>0, <2>2, <2>3, <2>4, <2>5 DEF OrganizerNext
<1>3. CASE \E w \in Workers : settle_invoice_and_append_entry(w)
  <2>0. PICK w \in Workers : settle_invoice_and_append_entry(w)
    BY <1>3
  <2>1. CASE UNCHANGED raffles
    BY <1>0, <2>1
  <2>2. CASE /\ MayAppend(HeldInvoice(w)) /\ Fits(HeldInvoice(w))
             /\ AppendEntry(HeldInvoice(w), NextEntry(HeldInvoice(w)))
    <3>1. HeldInvoice(w) \in Invoices
      BY <2>0, SettleEffect
    <3>2. raffles'[r].status = raffles[r].status /\ raffles'[r].entries_root = raffles[r].entries_root
      BY <2>2, <3>1, AppendEffect
    <3> QED
      BY <1>0, <3>2
  <2> QED
    BY <2>0, <2>1, <2>2, SettleEffect
<1>4. CASE \E w \in Workers : freeze_raffle(w)
  <2>0. PICK w \in Workers : freeze_raffle(w)
    BY <1>4
  <2>1. CASE raffles' = raffles \/ HeldRaffle(w) # r
    BY <1>0, <2>0, <2>1 DEF freeze_raffle
  <2>2. CASE raffles' # raffles /\ HeldRaffle(w) = r
    <3>1. /\ raffles[r].status = "CLOSING"
          /\ raffles'[r] = [raffles[r] EXCEPT !.status = FrozenStatus(r), !.entries_root = FrozenRoot(r)]
      BY <1>0, <2>0, <2>2 DEF freeze_raffle
    <3> QED
      BY <1>0, <2>0, <2>2, <3>1 DEF Row
  <2> QED
    BY <2>1, <2>2
<1>5. CASE schedule_due_closes
  BY <1>0, <1>5 DEF schedule_due_closes, Row
<1> QED
  BY <1>1, <1>2, <1>3, <1>4, <1>5, RafflesFrame

\* Nothing is appended to the ledger of a raffle that has left OPEN.
LEMMA ClosedEntries ==
  ASSUME TypeOK, ControlInv, InvoiceInv, HandlerInv, Next, NEW r \in Raffles,
         raffles[r].status \in AfterOpen
  PROVE  entries'[r] = entries[r]
<1>1. CASE UNCHANGED entries
  BY <1>1
<1>2. CASE \E w \in Workers : settle_invoice_and_append_entry(w)
  <2>0. PICK w \in Workers : settle_invoice_and_append_entry(w)
    BY <1>2
  <2>1. CASE /\ MayAppend(HeldInvoice(w)) /\ Fits(HeldInvoice(w))
             /\ AppendEntry(HeldInvoice(w), NextEntry(HeldInvoice(w)))
    <3>1. invoices[HeldInvoice(w)].raffle # r
      BY <2>1 DEF MayAppend, AfterOpen
    <3> QED
      BY <2>1, <3>1 DEF AppendEntry, TypeOK
  <2> QED
    BY <1>1, <2>0, <2>1, SettleEffect
<1> QED
  BY <1>1, <1>2, EntriesFrame

\* A frozen root stays that of the final ledger.
LEMMA RootStep ==
  ASSUME TypeOK, ControlInv, InvoiceInv, HandlerInv, RootInv, Next
  PROVE  RootInv'
<1> SUFFICES ASSUME NEW r \in Raffles
             PROVE  /\ raffles'[r].entries_root # Null =>
                         raffles'[r].status \in {"RANDOMNESS_PENDING", "CANCELLED"}
                    /\ raffles'[r].status = "RANDOMNESS_PENDING" =>
                         /\ raffles'[r].entries_root =
                              entries_root(r, Len(entries'[r]), raffles'[r].entry_chain_head)
                         /\ raffles'[r].total_tickets # 0
  BY DEF RootInv, FrozenRoot
<1>1. CASE raffles[r].status \in {"RANDOMNESS_PENDING", "CANCELLED"}
  BY <1>1, RaffleStable, ClosedEntries DEF RootInv, FrozenRoot, AfterOpen
<1>2. CASE /\ raffles[r].status \notin {"RANDOMNESS_PENDING", "CANCELLED"}
           /\ raffles'[r].entries_root # Null \/ raffles'[r].status = "RANDOMNESS_PENDING"
  <2>1. /\ raffles[r].status = "CLOSING" /\ raffles'[r].status = FrozenStatus(r)
        /\ raffles'[r].entries_root = FrozenRoot(r)
    BY <1>2, FreezeOnly
  <2>2. /\ entries'[r] = entries[r] /\ raffles'[r].entry_chain_head = raffles[r].entry_chain_head
        /\ raffles'[r].total_tickets = raffles[r].total_tickets
    BY <2>1, RaffleStable, ClosedEntries DEF AfterOpen
  <2> QED
    BY <2>1, <2>2 DEF FrozenRoot, FrozenStatus
<1> QED
  BY <1>1, <1>2

\* A frozen raffle gets no pending invoice.
LEMMA FrozenStep ==
  ASSUME TypeOK, ControlInv, InvoiceInv, HandlerInv, RootInv, FrozenNoPending, Next
  PROVE  FrozenNoPending'
<1> SUFFICES ASSUME NEW r \in Raffles, raffles'[r].entries_root # Null, NEW i \in Invoices,
                    invoices'[i].raffle = r, invoices'[i].status = "pending"
             PROVE  FALSE
  BY DEF FrozenNoPending, PendingOf
<1>1. CASE raffles[r].status \in {"RANDOMNESS_PENDING", "CANCELLED"}
  <2>1. raffles[r].entries_root # Null /\ raffles[r].status \in AfterOpen
    BY <1>1, RaffleStable DEF AfterOpen
  <2> QED
    BY <2>1, ClosedInvoices DEF FrozenNoPending, PendingOf
<1>2. CASE raffles[r].status \notin {"RANDOMNESS_PENDING", "CANCELLED"}
  <2>1. PICK w \in Workers : freeze_raffle(w) /\ HeldRaffle(w) = r
    BY <1>2, FreezeOnly
  <2>2. PendingOf(r) = {} /\ UNCHANGED invoices
    BY <2>1 DEF freeze_raffle, HandlerInv
  <2> QED
    BY <2>2 DEF PendingOf
<1> QED
  BY <1>1, <1>2

-----------------------------------------------------------------------------
(* Entries and refunds. *)

\* An invoice becomes settled by an append only, and never leaves that status.
LEMMA SettledFrame ==
  ASSUME TypeOK, ControlInv, InvoiceInv, HandlerInv, Next, NEW i \in Invoices,
         ~ \E w \in Workers : settle_invoice_and_append_entry(w)
  PROVE  invoices'[i].status = "settled" <=> invoices[i].status = "settled"
<1>0. invoices \in [Invoices -> InvoiceRow]
  BY DEF TypeOK
<1>1. CASE UNCHANGED <<invoices, request, payment, refunds>>
  BY <1>1
<1>2. CASE \E k \in Invoices : ApiNext(k)
  <2>0. PICK k \in Invoices : ApiNext(k)
    BY <1>2
  <2>1. CASE \E q \in Raffles, n \in TicketCounts, late \in BOOLEAN :
               create_collection_invoice(k, q, n, late)
    BY <1>0, <2>1 DEF create_collection_invoice, InvoiceInv
  <2>2. CASE create_collection(k) \/ ApiCrash(k)
    BY <2>2 DEF create_collection, ApiCrash, rows
  <2>3. CASE fail_collection_invoice(k) \/ store_collection_invoice(k)
    BY <1>0, <2>3 DEF fail_collection_invoice, store_collection_invoice, UnstoredInvoice, InvoiceRow
  <2> QED
    BY <2>0, <2>1, <2>2, <2>3 DEF ApiNext
<1>3. CASE \E k \in Invoices, s \in Terminal : PaymentResolves(k, s)
  BY <1>3 DEF PaymentResolves, rows
<1>4. CASE \E w \in Workers : mark_late_settlement_for_refund(w) \/ mark_collection_uncollectible(w)
  <2>0. PICK w \in Workers : mark_late_settlement_for_refund(w) \/ mark_collection_uncollectible(w)
    BY <1>4
  <2>1. /\ HeldInvoice(w) \in Invoices
        /\ \E s \in {"ineligible", "collection_failed"} : invoices' = MarkPending(HeldInvoice(w), s)
    BY <2>0, MarkEffect
  <2> QED
    BY <1>0, <2>1 DEF MarkPending, InvoiceRow
<1> QED
  BY <1>1, <1>2, <1>3, <1>4, InvoicesFrame

\* An invoice becomes ineligible together with its refund.
LEMMA RefundStep ==
  ASSUME TypeOK, ControlInv, InvoiceInv, HandlerInv, EntryXorRefund, Next, NEW i \in Invoices
  PROVE  invoices'[i].status = "ineligible" <=> i \in refunds'
<1>0. /\ invoices \in [Invoices -> InvoiceRow]
      /\ invoices[i].status = "ineligible" <=> i \in refunds
  BY DEF TypeOK, EntryXorRefund
<1>1. CASE UNCHANGED <<invoices, request, payment, refunds>>
  BY <1>0, <1>1
<1>2. CASE \E k \in Invoices : ApiNext(k)
  <2>0. PICK k \in Invoices : ApiNext(k)
    BY <1>2
  <2>1. CASE \E q \in Raffles, n \in TicketCounts, late \in BOOLEAN :
               create_collection_invoice(k, q, n, late)
    BY <1>0, <2>1 DEF create_collection_invoice, InvoiceInv
  <2>2. CASE create_collection(k) \/ ApiCrash(k)
    BY <1>0, <2>2 DEF create_collection, ApiCrash, rows
  <2>3. CASE fail_collection_invoice(k) \/ store_collection_invoice(k)
    BY <1>0, <2>3 DEF fail_collection_invoice, store_collection_invoice, UnstoredInvoice, InvoiceRow
  <2> QED
    BY <2>0, <2>1, <2>2, <2>3 DEF ApiNext
<1>3. CASE \E k \in Invoices, s \in Terminal : PaymentResolves(k, s)
  BY <1>0, <1>3 DEF PaymentResolves, rows
<1>4. CASE \E w \in Workers : settle_invoice_and_append_entry(w)
  <2>0. PICK w \in Workers : settle_invoice_and_append_entry(w)
    BY <1>4, Zenon
  <2>1. /\ HeldInvoice(w) \in Invoices /\ UNCHANGED refunds
        /\ \/ UNCHANGED invoices
           \/ /\ invoices' = [invoices EXCEPT ![HeldInvoice(w)].status = "settled"]
              /\ invoices[HeldInvoice(w)].status = "pending"
    BY <2>0, SettleEffect DEF AppendEntry, MayAppend
  <2> QED
    BY <1>0, <2>1 DEF InvoiceRow
<1>5. CASE \E w \in Workers : mark_late_settlement_for_refund(w)
  <2>0. PICK w \in Workers : mark_late_settlement_for_refund(w)
    BY <1>5
  <2> DEFINE k == HeldInvoice(w)
  <2>1. /\ k \in Invoices /\ payment[k] = "settled" /\ invoices' = MarkPending(k, "ineligible")
        /\ refunds' = refunds \cup {k}
    BY <2>0, MarkEffect
  <2>2. invoices[k].status # "settled"
    BY <2>0 DEF mark_late_settlement_for_refund, Goto, HandlerInv
  <2>3. invoices[k].status \in {"pending", "ineligible"}
    BY <2>1, <2>2 DEF InvoiceInv, TypeOK, InvoiceRow, InvoiceStatus
  <2> HIDE DEF k
  <2> QED
    BY <1>0, <2>1, <2>3 DEF MarkPending, InvoiceRow
<1>6. CASE \E w \in Workers : mark_collection_uncollectible(w)
  <2>0. PICK w \in Workers : mark_collection_uncollectible(w)
    BY <1>6
  <2>1. /\ HeldInvoice(w) \in Invoices /\ refunds' = refunds
        /\ invoices' = MarkPending(HeldInvoice(w), "collection_failed")
    BY <2>0, MarkEffect
  <2> QED
    BY <1>0, <2>1 DEF MarkPending, InvoiceRow
<1> QED
  BY <1>1, <1>2, <1>3, <1>4, <1>5, <1>6, InvoicesFrame

\* Entries, refunds and invoice statuses keep telling the same story.
LEMMA XorStep ==
  ASSUME TypeOK, ControlInv, InvoiceInv, HandlerInv, EntryXorRefund, Next
  PROVE  EntryXorRefund'
<1> SUFFICES ASSUME NEW i \in Invoices
             PROVE  /\ invoices'[i].status = "settled" =>
                         \E r \in Raffles : \E k \in DOMAIN entries'[r] : entries'[r][k].data.invoice = i
                    /\ \A r \in Raffles : \A k \in DOMAIN entries'[r] :
                         entries'[r][k].data.invoice = i =>
                           /\ invoices'[i].status = "settled" /\ invoices'[i].raffle = r
                           /\ \A l \in DOMAIN entries'[r] : entries'[r][l].data.invoice = i => l = k
  BY RefundStep DEF EntryXorRefund
<1>0. /\ invoices[i].status = "settled" =>
           \E r \in Raffles : \E k \in DOMAIN entries[r] : entries[r][k].data.invoice = i
      /\ \A r \in Raffles : \A k \in DOMAIN entries[r] : entries[r][k].data.invoice = i =>
           /\ invoices[i].status = "settled" /\ invoices[i].raffle = r
           /\ \A l \in DOMAIN entries[r] : entries[r][l].data.invoice = i => l = k
  BY DEF EntryXorRefund
<1>1. CASE ~ \E w \in Workers : settle_invoice_and_append_entry(w)
  <2>1. UNCHANGED entries
    BY <1>1, EntriesFrame
  <2>2. invoices'[i].status = "settled" <=> invoices[i].status = "settled"
    BY <1>1, SettledFrame
  <2>3. invoices[i].status = "settled" => invoices'[i].raffle = invoices[i].raffle
    BY InvoiceStable
  <2> QED
    BY <1>0, <2>1, <2>2, <2>3
<1>2. CASE \E w \in Workers : settle_invoice_and_append_entry(w)
  <2>0. PICK w \in Workers : settle_invoice_and_append_entry(w)
    BY <1>2
  <2>1. CASE UNCHANGED <<raffles, entries, invoices>>
    BY <1>0, <2>1
  <2>2. CASE /\ MayAppend(HeldInvoice(w)) /\ Fits(HeldInvoice(w))
             /\ AppendEntry(HeldInvoice(w), NextEntry(HeldInvoice(w)))
    <3> DEFINE j == HeldInvoice(w)
               q == invoices[j].raffle
               e == NextEntry(j)
    <3>0. j \in Invoices
      BY <2>0, SettleEffect
    <3>1. /\ q \in Raffles /\ e.data.invoice = j /\ invoices[j].status = "pending"
          /\ entries' = [entries EXCEPT ![q] = Append(entries[q], e)]
          /\ invoices' = [invoices EXCEPT ![j].status = "settled"]
          /\ e \in Entry
      BY <2>2, <3>0, AppendEffect
    <3>2. q = invoices[j].raffle
      OBVIOUS
    <3> HIDE DEF j, q, e
    <3>3. /\ entries \in [Raffles -> Seq(Entry)] /\ invoices \in [Invoices -> InvoiceRow]
      BY DEF TypeOK
    <3> DEFINE n == Len(entries[q])
    <3>4. /\ n \in Nat /\ DOMAIN entries[q] = 1 .. n /\ DOMAIN entries'[q] = 1 .. n + 1
          /\ entries'[q][n + 1] = e /\ \A k \in 1 .. n : entries'[q][k] = entries[q][k]
          /\ \A r \in Raffles : r # q => entries'[r] = entries[r]
      BY <3>1, <3>3
    <3> HIDE DEF n
    <3>5. CASE i = j
      <4>1. invoices'[i].status = "settled" /\ invoices'[i].raffle = q
        BY <3>0, <3>1, <3>2, <3>3, <3>5 DEF InvoiceRow
      <4>2. \A r \in Raffles : \A k \in DOMAIN entries[r] : entries[r][k].data.invoice # i
        BY <1>0, <3>1, <3>5
      <4>3. \A r \in Raffles : \A k \in DOMAIN entries'[r] :
              entries'[r][k].data.invoice = i => r = q /\ k = n + 1
        BY <3>1, <3>4, <4>2
      <4> QED
        BY <3>1, <3>4, <3>5, <4>1, <4>3
    <3>6. CASE i # j
      <4>1. invoices'[i] = invoices[i]
        BY <3>0, <3>1, <3>3, <3>6
      <4>2. \A r \in Raffles : \A k : k \in DOMAIN entries'[r] /\ entries'[r][k].data.invoice = i <=>
                                      k \in DOMAIN entries[r] /\ entries[r][k].data.invoice = i
        BY <3>1, <3>4, <3>6
      <4> QED
        BY <1>0, <4>1, <4>2
    <3> QED
      BY <3>5, <3>6
  <2> QED
    BY <2>0, <2>1, <2>2, SettleEffect
<1> QED
  BY <1>1, <1>2

-----------------------------------------------------------------------------
(* The theorems. *)

\* The empty database satisfies the inductive invariant.
LEMMA InitInv == Init => Inv
<1> SUFFICES ASSUME Init PROVE Inv
  OBVIOUS
<1>1. TypeOK
  BY InitTypeOK
<1>2. ControlInv /\ HandlerInv
  BY JobKinds DEF Init, JobInit, ControlInv, HandlerInv
<1>3. InvoiceInv
  BY DEF Init, InvoiceInv
<1>4. JobInv
  BY JobKinds DEF Init, JobInit, JobInv, WorkScheduled, JobRow
<1>5. ChainInv
  BY DEF Init, ChainInv, ExpectedStart, PreviousHash
<1>6. PoolInv
  BY CollectionAssumption DEF Init, PoolInv, PoolPriced
<1>7. RootInv /\ FrozenNoPending
  BY DEF Init, RootInv, FrozenNoPending
<1>8. EntryXorRefund
  BY DEF Init, EntryXorRefund
<1> QED
  BY <1>1, <1>2, <1>3, <1>4, <1>5, <1>6, <1>7, <1>8 DEF Inv

\* The invariant is inductive.
LEMMA NextInv == Inv /\ [Next]_vars => Inv'
<1> SUFFICES ASSUME Inv, [Next]_vars PROVE Inv'
  OBVIOUS
<1> USE DEF Inv
<1>1. CASE Next
  BY <1>1, TypeStep, ControlStep, InvoiceStep, HandlerInvStep, JobInvStep, ChainStep, PoolStep,
     RootStep, XorStep, FrozenStep
<1>2. CASE UNCHANGED vars
  BY <1>2 DEF vars, rows, TypeOK, JobTypeOK, ControlInv, InvoiceInv, HandlerInv, HeldInvoice, HeldRaffle,
     JobInv, WorkScheduled, ChainInv, PoolInv, PoolPriced, RootInv, FrozenRoot, EntryXorRefund,
     FrozenNoPending, PendingOf
<1> QED
  BY <1>1, <1>2

\* The invariant is inductive: it holds in every reachable state, for any
\* number of raffles, invoices, workers and events and any column width.
THEOREM Invariance == Spec => []Inv
  BY InitInv, NextInv, PTL DEF Spec

\* Type correctness.
THEOREM TypeCorrect == Spec => []TypeOK
<1>1. Inv => TypeOK
  BY DEF Inv
<1> QED
  BY <1>1, Invariance, PTL

\* The ledger a raffle is frozen with passes the checks that draw() makes of it.
THEOREM Drawable == Spec => []FrozenLedgerDrawable
<1>1. Inv => FrozenLedgerDrawable
  <2> SUFFICES ASSUME Inv, NEW r \in Raffles, raffles[r].status = "RANDOMNESS_PENDING"
               PROVE  /\ LedgerAccepted(entries[r])
                      /\ raffles[r].entries_root = summarize_ledger(entries[r]).entries_root
                      /\ raffles[r].total_tickets = summarize_ledger(entries[r]).total_tickets
    BY DEF FrozenLedgerDrawable
  <2> DEFINE es == entries[r]
  <2>1. /\ es \in Seq(Entry)
        /\ \A k \in DOMAIN es : EntryAccepted(es, k)
        /\ \A k \in DOMAIN es : es[k].data.raffle_id = r
        /\ raffles[r].total_tickets = ExpectedStart(es, Len(es) + 1)
        /\ raffles[r].entry_chain_head = PreviousHash(es, Len(es) + 1)
        /\ raffles[r].entries_root = entries_root(r, Len(es), raffles[r].entry_chain_head)
        /\ raffles[r].total_tickets # 0
    BY DEF Inv, TypeOK, ChainInv, RootInv, FrozenRoot
  <2> HIDE DEF es
  <2>2. es # << >> /\ 1 \in DOMAIN es
    BY <2>1 DEF ExpectedStart
  <2>3. /\ summarize_ledger(es).entries_root =
             entries_root(es[1].data.raffle_id, Len(es), PreviousHash(es, Len(es) + 1))
        /\ summarize_ledger(es).total_tickets = ExpectedStart(es, Len(es) + 1)
    BY DEF summarize_ledger
  <2> QED
    BY <2>1, <2>2, <2>3 DEF LedgerAccepted, es
<1> QED
  BY <1>1, Invariance, PTL

\* The pool is the price times the tickets sold, and fits its column.
THEOREM PoolCorrect == Spec => []PoolPriced
<1>1. Inv => PoolPriced
  BY DEF Inv, PoolInv
<1> QED
  BY <1>1, Invariance, PTL

\* The entries of a ledger have the types the lemmas about ledgers need.
LEMMA EntriesLedger ==
  ASSUME NEW es \in Seq(Entry)
  PROVE  IsLedger(es)
<1>1. Len(es) \in Nat /\ DOMAIN es = 1 .. Len(es) /\ \A k \in 1 .. Len(es) : es[k] \in Entry
  OBVIOUS
<1>2. ASSUME NEW e \in Entry
      PROVE  e.data.amount_sats \in Nat /\ e.data.start \in Nat /\ e.data.end \in Nat
  BY DEF Entry, EntryData
<1> QED
  BY <1>1, <1>2 DEF IsLedger

\* An appended entry adds its amount to both sides.
LEMMA SumStep ==
  ASSUME TypeOK, ControlInv, InvoiceInv, HandlerInv, PoolMatchesLedger, Next
  PROVE  PoolMatchesLedger'
<1> SUFFICES ASSUME NEW r \in Raffles
             PROVE  raffles'[r].total_pool_sats = PoolSats(entries'[r])
  BY DEF PoolMatchesLedger
<1>1. CASE ~ \E w \in Workers : settle_invoice_and_append_entry(w)
  <2>1. UNCHANGED entries
    BY <1>1, EntriesFrame
  <2> QED
    BY <1>1, <2>1, TotalsFrame DEF PoolMatchesLedger
<1>2. CASE \E w \in Workers : settle_invoice_and_append_entry(w)
  <2>0. PICK w \in Workers : settle_invoice_and_append_entry(w)
    BY <1>2
  <2>1. CASE UNCHANGED <<raffles, entries, invoices>>
    BY <2>1 DEF PoolMatchesLedger
  <2>2. CASE /\ MayAppend(HeldInvoice(w)) /\ Fits(HeldInvoice(w))
             /\ AppendEntry(HeldInvoice(w), NextEntry(HeldInvoice(w)))
    <3> DEFINE i == HeldInvoice(w)
               q == invoices[i].raffle
               e == NextEntry(i)
    <3>0. i \in Invoices
      BY <2>0, SettleEffect
    <3>1. /\ q \in Raffles /\ e \in Entry
          /\ entries' = [entries EXCEPT ![q] = Append(entries[q], e)]
          /\ \A p \in Raffles : p # q => raffles'[p] = raffles[p]
          /\ raffles'[q].total_pool_sats = raffles[q].total_pool_sats + e.data.amount_sats
      BY <2>2, <3>0, AppendEffect
    <3> HIDE DEF i, q, e
    <3>2. CASE r # q
      <4>1. entries'[r] = entries[r] /\ raffles'[r] = raffles[r]
        BY <3>1, <3>2 DEF TypeOK
      <4> QED
        BY <4>1 DEF PoolMatchesLedger
    <3>3. CASE r = q
      <4>1. entries[q] \in Seq(Entry) /\ entries'[q] = Append(entries[q], e)
        BY <3>1 DEF TypeOK
      <4>2. e.data.amount_sats \in Nat /\ e.data.start \in Nat /\ e.data.end \in Nat
        BY <3>1 DEF Entry, EntryData
      <4>3. PoolSats(entries'[q]) = PoolSats(entries[q]) + e.data.amount_sats
        BY <3>1, <4>1, <4>2, EntriesLedger, PoolSatsAppend
      <4> QED
        BY <3>1, <3>3, <4>3 DEF PoolMatchesLedger
    <3> QED
      BY <3>2, <3>3
  <2> QED
    BY <2>0, <2>1, <2>2, SettleEffect
<1> QED
  BY <1>1, <1>2

\* The running total of the raffles row is the sum over its entries
\* (settle_invoice_and_append_entry against summarize_ledger).
THEOREM PoolIsTheSum == Spec => []PoolMatchesLedger
<1>1. Init => PoolMatchesLedger
  BY PoolSatsEmpty DEF Init, PoolMatchesLedger
<1>2. Inv /\ PoolMatchesLedger /\ [Next]_vars => PoolMatchesLedger'
  <2> SUFFICES ASSUME Inv, PoolMatchesLedger, [Next]_vars PROVE PoolMatchesLedger'
    OBVIOUS
  <2>1. CASE Next
    BY <2>1, SumStep DEF Inv
  <2>2. CASE UNCHANGED vars
    BY <2>2 DEF vars, rows, PoolMatchesLedger
  <2> QED
    BY <2>1, <2>2
<1> QED
  BY <1>1, <1>2, Invariance, PTL DEF Spec

\* One entry or one refund for a payment, never both, never two entries.
THEOREM ExactlyOneOutcome == Spec => []EntryXorRefund
<1>1. Inv => EntryXorRefund
  BY DEF Inv
<1> QED
  BY <1>1, Invariance, PTL

\* A payment that arrived is never written off.
THEOREM PaymentKept == Spec => []NoPaymentDropped
<1>1. Inv => NoPaymentDropped
  <2> SUFFICES ASSUME Inv, NEW i \in Invoices, payment[i] = "settled",
                      invoices[i].status # "pending", invoices[i].status # "settled"
               PROVE  i \in refunds
    BY DEF NoPaymentDropped
  <2>1. invoices[i].status \in InvoiceStatus
    BY DEF Inv, TypeOK, InvoiceRow
  <2>2. invoices[i].status \notin {"absent", "collection_failed"}
    BY DEF Inv, InvoiceInv
  <2> QED
    BY <2>1, <2>2 DEF InvoiceStatus, Inv, EntryXorRefund
<1> QED
  BY <1>1, Invariance, PTL

\* The count before the freeze cannot go stale.
THEOREM FreezeIsFinal == Spec => []FrozenNoPending
<1>1. Inv => FrozenNoPending
  BY DEF Inv
<1> QED
  BY <1>1, Invariance, PTL

\* A closing raffle, and one that waits for its draw, has its job.
THEOREM WorkIsScheduled == Spec => []WorkScheduled
<1>1. Inv => WorkScheduled
  BY DEF Inv, JobInv
<1> QED
  BY <1>1, Invariance, PTL

\* The ledger and the totals of a closed raffle, and a frozen root, never change.
THEOREM LedgerIsFinal == Spec => ClosedLedgerImmutable
<1> DEFINE Kept == \A r \in Raffles :
       /\ raffles[r].status \in AfterOpen =>
            /\ entries'[r] = entries[r]
            /\ raffles'[r].total_tickets = raffles[r].total_tickets
            /\ raffles'[r].total_pool_sats = raffles[r].total_pool_sats
       /\ raffles[r].entries_root # Null =>
            raffles'[r].entries_root = raffles[r].entries_root
<1>1. Inv /\ Next => Kept
  BY RaffleStable, ClosedEntries DEF Inv, RootInv
<1>2. Inv /\ [Next]_vars => [Kept]_vars
  BY <1>1
<1> QED
  BY <1>2, Invariance, PTL DEF Spec, ClosedLedgerImmutable

-----------------------------------------------------------------------------
(* The refinement. *)

\* Same status and totals in the row of r, which may have been edited.
RowSame(r) ==
  /\ raffles'[r].status = raffles[r].status
  /\ raffles'[r].total_pool_sats = raffles[r].total_pool_sats
  /\ raffles'[r].entry_price_sats \in Prices \cup {raffles[r].entry_price_sats}

RowCreated(r) ==
  /\ raffles[r].status = "absent" /\ raffles'[r].status = "DRAFT"
  /\ raffles'[r].total_pool_sats = raffles[r].total_pool_sats
  /\ raffles'[r].entry_price_sats \in Prices

RowMoved(r, from, to) ==
  /\ raffles[r].status \in from /\ raffles'[r].status = to
  /\ raffles'[r].total_pool_sats = raffles[r].total_pool_sats
  /\ raffles'[r].entry_price_sats = raffles[r].entry_price_sats

RowSold(r) ==
  /\ raffles[r].status = "OPEN" /\ raffles'[r].status = "OPEN"
  /\ raffles'[r].entry_price_sats = raffles[r].entry_price_sats
  /\ \E n \in Nat \ {0} : raffles'[r].total_pool_sats =
                            raffles[r].total_pool_sats + raffles[r].entry_price_sats * n

RowStep(r) ==
  \/ RowSame(r)
  \/ RowCreated(r)
  \/ RowMoved(r, {"DRAFT"}, "SCHEDULED")
  \/ RowMoved(r, {"SCHEDULED"}, "OPEN")
  \/ RowMoved(r, {"DRAFT", "SCHEDULED", "OPEN"}, "CANCELLED")
  \/ RowMoved(r, {"OPEN"}, "CLOSING")
  \/ RowMoved(r, {"CLOSING"}, FrozenStatus(r))
  \/ RowSold(r)

\* What the organizer's actions do to the row of r.
LEMMA OrganizerRow ==
  ASSUME TypeOK, NEW q \in Raffles, OrganizerNext(q), NEW r \in Raffles
  PROVE  RowStep(r)
<1>0. raffles \in [Raffles -> Row]
  BY DEF TypeOK
<1>1. CASE q # r
  <2>1. raffles'[r] = raffles[r]
    BY <1>0, <1>1 DEF OrganizerNext, create_draft_raffle, update_raffle, transition_raffle,
       EndTimePasses, SetRaffle
  <2> QED
    BY <2>1 DEF RowStep, RowSame
<1>2. CASE q = r
  <2>1. ASSUME NEW p \in Prices, NEW e \in BOOLEAN, create_draft_raffle(r, p, e)
        PROVE  RowCreated(r)
    BY <1>0, <2>1 DEF create_draft_raffle, SetRaffle, Row, RowCreated
  <2>2. ASSUME NEW p \in Prices, NEW e \in BOOLEAN, update_raffle(r, p, e)
        PROVE  RowSame(r)
    BY <1>0, <2>2 DEF update_raffle, SetRaffle, Row, RowSame
  <2>3. ASSUME NEW s \in {"SCHEDULED", "OPEN", "CANCELLED"}, transition_raffle(r, s)
        PROVE  RowStep(r)
    <3>1. /\ raffles'[r].status = s
          /\ raffles'[r].total_pool_sats = raffles[r].total_pool_sats
          /\ raffles'[r].entry_price_sats = raffles[r].entry_price_sats
      BY <1>0, <2>3 DEF transition_raffle, SetRaffle, Row
    <3>2. MayTransition(raffles[r].status, s)
      BY <2>3 DEF transition_raffle
    <3> QED
      BY <3>1, <3>2 DEF MayTransition, RowStep, RowMoved
  <2>4. ASSUME EndTimePasses(r)
        PROVE  RowSame(r)
    BY <1>0, <2>4 DEF EndTimePasses, SetRaffle, Row, RowSame
  <2> QED
    BY <1>2, <2>1, <2>2, <2>3, <2>4 DEF OrganizerNext, RowStep
<1> QED
  BY <1>1, <1>2

\* What a settlement does to the row of r.
LEMMA SettleRow ==
  ASSUME TypeOK, ControlInv, InvoiceInv, HandlerInv, NEW w \in Workers,
         settle_invoice_and_append_entry(w), NEW r \in Raffles
  PROVE  RowStep(r)
<1>1. CASE UNCHANGED <<raffles, entries, invoices>>
  BY <1>1 DEF RowStep, RowSame
<1>2. CASE /\ MayAppend(HeldInvoice(w)) /\ Fits(HeldInvoice(w))
           /\ AppendEntry(HeldInvoice(w), NextEntry(HeldInvoice(w)))
  <2> DEFINE i == HeldInvoice(w)
             q == invoices[i].raffle
  <2>0. i \in Invoices
    BY SettleEffect
  <2>1. /\ q \in Raffles /\ raffles[q].status = "OPEN" /\ invoices[i].status = "pending"
        /\ \A p \in Raffles : p # q => raffles'[p] = raffles[p]
        /\ raffles'[q].status = raffles[q].status
        /\ raffles'[q].entry_price_sats = raffles[q].entry_price_sats
        /\ raffles'[q].total_pool_sats = raffles[q].total_pool_sats + invoices[i].amount_sats
    BY <1>2, <2>0, AppendEffect
  <2>2. /\ invoices[i].ticket_count \in Nat \ {0}
        /\ invoices[i].amount_sats = raffles[q].entry_price_sats * invoices[i].ticket_count
    BY <2>0, <2>1 DEF InvoiceInv, TypeOK, InvoiceRow
  <2> HIDE DEF i, q
  <2>3. CASE r # q
    BY <2>1, <2>3 DEF RowStep, RowSame
  <2>4. CASE r = q
    BY <2>1, <2>2, <2>4 DEF RowStep, RowSold
  <2> QED
    BY <2>3, <2>4
<1> QED
  BY <1>1, <1>2, SettleEffect

\* What the close and the freeze do to the row of r.
LEMMA CloseRow ==
  ASSUME TypeOK, NEW r \in Raffles,
         schedule_due_closes \/ \E w \in Workers : freeze_raffle(w)
  PROVE  RowStep(r)
<1>0. raffles \in [Raffles -> Row]
  BY DEF TypeOK
<1>1. CASE raffles'[r] = raffles[r]
  BY <1>1 DEF RowStep, RowSame
<1>2. ASSUME schedule_due_closes, raffles'[r] # raffles[r]
      PROVE  RowMoved(r, {"OPEN"}, "CLOSING")
  BY <1>0, <1>2 DEF schedule_due_closes, DueRaffles, Row, RowMoved
<1>3. ASSUME NEW w \in Workers, freeze_raffle(w), raffles'[r] # raffles[r]
      PROVE  RowMoved(r, {"CLOSING"}, FrozenStatus(r))
  <2>1. CASE HeldRaffle(w) # r
    BY <1>0, <1>3, <2>1 DEF freeze_raffle
  <2>2. CASE HeldRaffle(w) = r
    <3>1. /\ raffles[r].status = "CLOSING"
          /\ raffles'[r] = [raffles[r] EXCEPT !.status = FrozenStatus(r), !.entries_root = FrozenRoot(r)]
      BY <1>0, <1>3, <2>2 DEF freeze_raffle
    <3> QED
      BY <1>0, <3>1 DEF Row, RowMoved
  <2> QED
    BY <2>1, <2>2
<1> QED
  BY <1>1, <1>2, <1>3 DEF RowStep

LEMMA RowSteps ==
  ASSUME TypeOK, ControlInv, InvoiceInv, HandlerInv, Next, NEW r \in Raffles
  PROVE  RowStep(r)
<1>1. CASE UNCHANGED raffles
  BY <1>1 DEF RowStep, RowSame
<1> QED
  BY <1>1, RafflesFrame, OrganizerRow, SettleRow, CloseRow

\* A raffle that exists has a price, so every entry raises its pool.
PriceInv == \A r \in Raffles : raffles[r].status # "absent" => raffles[r].entry_price_sats # 0

LEMMA PriceStep ==
  ASSUME TypeOK, ControlInv, InvoiceInv, HandlerInv, PriceInv, Next
  PROVE  PriceInv'
<1> SUFFICES ASSUME NEW r \in Raffles, raffles'[r].status # "absent"
             PROVE  raffles'[r].entry_price_sats # 0
  BY DEF PriceInv
<1> QED
  BY RowSteps, PricesNat
  DEF RowStep, RowSame, RowCreated, RowMoved, RowSold, FrozenStatus, PriceInv

\* One step of the collection is one step of each raffle's lifecycle, or none.
LEMMA LifecycleStep ==
  ASSUME Inv, PriceInv, Next, NEW r \in Raffles
  PROVE  Lifecycle(r)!Step
<1>0. /\ raffles[r].entry_price_sats \in Nat /\ raffles[r].total_tickets \in Nat
      /\ raffles[r].total_pool_sats \in Nat
      /\ raffles[r].total_pool_sats = raffles[r].entry_price_sats * raffles[r].total_tickets
  BY DEF Inv, TypeOK, Row, PoolInv, PoolPriced
<1>1. RowStep(r)
  BY RowSteps DEF Inv
<1>2. CASE RowSame(r)
  BY <1>2 DEF RowSame, Lifecycle!Step, Lifecycle!vars
<1>3. CASE RowCreated(r)
  BY <1>3 DEF RowCreated, Lifecycle!Step, Lifecycle!Next, Lifecycle!Prepare, Lifecycle!Move
<1>4. CASE \/ RowMoved(r, {"DRAFT"}, "SCHEDULED") \/ RowMoved(r, {"SCHEDULED"}, "OPEN")
  BY <1>4 DEF RowMoved, Lifecycle!Step, Lifecycle!Next, Lifecycle!Prepare, Lifecycle!Move
<1>5. CASE RowMoved(r, {"DRAFT", "SCHEDULED", "OPEN"}, "CANCELLED")
  BY <1>5 DEF RowMoved, Lifecycle!Step, Lifecycle!Next, Lifecycle!Cancel, Lifecycle!Move
<1>6. CASE RowMoved(r, {"OPEN"}, "CLOSING")
  BY <1>6 DEF RowMoved, Lifecycle!Step, Lifecycle!Next, Lifecycle!Close, Lifecycle!Move
<1>7. CASE RowMoved(r, {"CLOSING"}, FrozenStatus(r))
  <2>1. raffles[r].entry_price_sats # 0
    BY <1>7 DEF PriceInv, RowMoved
  <2>2. raffles[r].total_tickets = 0 <=> raffles[r].total_pool_sats = 0
    BY <1>0, <2>1, Distributes, PositiveProduct
  <2> QED
    BY <1>7, <2>2
    DEF FrozenStatus, RowMoved, Lifecycle!Step, Lifecycle!Next, Lifecycle!Freeze, Lifecycle!Move
<1>8. CASE RowSold(r)
  <2>1. raffles[r].entry_price_sats # 0
    BY <1>8 DEF PriceInv, RowSold
  <2>2. raffles'[r].total_pool_sats > raffles[r].total_pool_sats
    <3>1. PICK n \in Nat \ {0} : raffles'[r].total_pool_sats =
                                   raffles[r].total_pool_sats + raffles[r].entry_price_sats * n
      BY <1>8 DEF RowSold
    <3>2. raffles[r].entry_price_sats * n \in Nat /\ raffles[r].entry_price_sats * n > 0
      BY <1>0, <2>1, PositiveProduct
    <3> QED
      BY <1>0, <3>1, <3>2
  <2> QED
    BY <1>8, <2>2 DEF RowSold, Lifecycle!Step, Lifecycle!Next, Lifecycle!Sell
<1> QED
  BY <1>1, <1>2, <1>3, <1>4, <1>5, <1>6, <1>7, <1>8 DEF RowStep

\* Every raffle implements the first half of the lifecycle, for any number of
\* raffles, invoices and workers, any prices and ticket counts.
THEOREM Refinement == Spec => ImplementsLifecycle
<1>1. Init => \A r \in Raffles : Lifecycle(r)!Init
  BY DEF Init, Lifecycle!Init
<1>2. Init => PriceInv
  BY DEF Init, PriceInv
<1>3. Inv /\ PriceInv /\ [Next]_vars => PriceInv'
  <2> SUFFICES ASSUME Inv, PriceInv, [Next]_vars PROVE PriceInv'
    OBVIOUS
  <2>1. CASE Next
    BY <2>1, PriceStep DEF Inv
  <2>2. CASE UNCHANGED vars
    BY <2>2 DEF vars, rows, PriceInv
  <2> QED
    BY <2>1, <2>2
<1> DEFINE Steps == \A r \in Raffles : Lifecycle(r)!Step
<1>4. Inv /\ PriceInv /\ [Next]_vars => [Steps]_vars
  BY LifecycleStep
<1> QED
  BY <1>1, <1>2, <1>3, <1>4, Invariance, PTL DEF Spec, ImplementsLifecycle
=============================================================================
