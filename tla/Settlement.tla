----------------------------- MODULE Settlement -----------------------------
(***************************************************************************)
(* From frozen ledger to published proof.  The raffle.draw job stores the  *)
(* draw and the payouts it entails, payout.execute pays them one by one    *)
(* through the provider, and proof.generate stores the terminal proof and  *)
(* publishes it to the immutable object store.  Every handler touches the  *)
(* rows of one raffle only, so one raffle is modelled.  How the draw       *)
(* selects its blocks is the subject of DrawSelection: a draw that has to  *)
(* wait for them is a HandlerError here.                                   *)
(*                                                                         *)
(* One action is one transaction or one call to the provider or the store, *)
(* except settle_payout: its COUNT reads what other transactions have      *)
(* committed, and its own effects become visible at its commit, so it is   *)
(* two actions.                                                            *)
(***************************************************************************)
EXTENDS Protocol, FiniteSets

CONSTANTS Pools,         \* total_pool_sats of a frozen raffle
          Splits,        \* payout_splits rows
          Workers, NoWorker, NoJob, NoPayout

VARIABLES raffle,        \* the raffles row
          payouts,       \* payouts table, by recipient_type
          paid,          \* what the provider transferred per idempotency key (external)
          proof,         \* the proofs row
          object,        \* the proof's object exists in the store (external)
          jobs, held,    \* the jobs table and the job each worker executes
          pc,            \* where in its handler each worker is
          claimed,       \* the payout each worker has claimed
          remaining      \* the COUNT(*) of each worker's open settle_payout

Recipients == {"winner", "organizer", "platform"}
SettlementJobs == {"raffle.draw", "payout.execute", "proof.generate"}

ASSUME SettlementAssumption ==
  /\ Pools \subseteq Nat \ {0}
  /\ Splits \subseteq PayoutSplits
  /\ NoJob \notin SettlementJobs
  /\ NoWorker \notin Workers
  /\ NoPayout \notin Recipients

INSTANCE JobTable WITH Job <- SettlementJobs, Worker <- Workers

local == <<held, pc, claimed, remaining>>
vars == <<raffle, payouts, paid, proof, object, jobs, local>>

-----------------------------------------------------------------------------
RaffleStatus == {"RANDOMNESS_PENDING", "PAYOUT_PENDING", "PAID_OUT"}
PayoutStatus == {"absent", "pending", "processing", "settled", "failed"}
ProofStatus == {"absent", "generated", "published"}

WorkerStep == {"idle", "draw", "claim", "pay", "settle", "commit", "fail",
               "generate", "publish", "record", "ok", "err"}
Running == WorkerStep \ {"idle", "err"}

\* `expired': lease_expires_at < now().
PayoutRow(s, amount, w) ==
  [status |-> s, amount_sats |-> amount, lease_owner |-> w, expired |-> FALSE]

TypeOK ==
  /\ raffle \in [status : RaffleStatus, total_pool_sats : Nat, split : PayoutSplits]
  /\ payouts \in [Recipients -> [status : PayoutStatus, amount_sats : Nat,
                                 lease_owner : Workers \cup {NoWorker}, expired : BOOLEAN]]
  /\ paid \in [Recipients -> Nat]
  /\ proof \in ProofStatus
  /\ object \in BOOLEAN
  /\ JobTypeOK
  /\ pc \in [Workers -> WorkerStep]
  /\ claimed \in [Workers -> Recipients \cup {NoPayout}]
  /\ remaining \in [Workers -> 0 .. 2]

Init ==
  /\ raffle \in [status : {"RANDOMNESS_PENDING"}, total_pool_sats : Pools, split : Splits]
  /\ payouts = [p \in Recipients |-> PayoutRow("absent", 0, NoWorker)]
  /\ paid = [p \in Recipients |-> 0]
  /\ proof = "absent"
  /\ object = FALSE
  /\ jobs = [j \in SettlementJobs |->
               JobRow(IF j = "raffle.draw" THEN "queued" ELSE "absent", NoWorker)]
  /\ held = [w \in Workers |-> NoJob]
  /\ pc = [w \in Workers |-> "idle"]
  /\ claimed = [w \in Workers |-> NoPayout]
  /\ remaining = [w \in Workers |-> 0]

RaffleRow(s) == [status |-> s, total_pool_sats |-> raffle.total_pool_sats,
                 split |-> raffle.split]

Goto(w, from, to) == pc[w] = from /\ pc' = [pc EXCEPT ![w] = to]

-----------------------------------------------------------------------------
(* raffle.draw *)

Allocated(p) == allocate(raffle.split, raffle.total_pool_sats)[p]

\* A row for every share that is not zero.
PayoutsOfDraw ==
  [p \in Recipients |->
     PayoutRow(IF Allocated(p) > 0 THEN "pending" ELSE "absent", Allocated(p), NoWorker)]

create_draw_and_payouts(w) ==
  /\ \/ /\ raffle.status = "RANDOMNESS_PENDING"
        /\ Goto(w, "draw", "ok")
        /\ payouts' = PayoutsOfDraw
        /\ raffle' = RaffleRow("PAYOUT_PENDING")
        /\ jobs' = Inserted({"payout.execute"})
     \/ /\ raffle.status # "RANDOMNESS_PENDING"          \* InvalidStatus
        /\ Goto(w, "draw", "err")
        /\ UNCHANGED <<payouts, raffle, jobs>>
  /\ UNCHANGED <<paid, proof, object, held, claimed, remaining>>

-----------------------------------------------------------------------------
(* payout.execute *)

\* The row locks of open settle_payout transactions; FOR UPDATE SKIP LOCKED.
Locked == {claimed[w] : w \in {v \in Workers : pc[v] = "commit"}}

Expired == {p \in Recipients : /\ payouts[p].status = "processing" /\ payouts[p].expired
                               /\ p \notin Locked}

Retryable == {p \in Recipients : payouts[p].status \in {"pending", "failed"}}

\* Expired leases come first.
Candidates == IF Expired # {} THEN Expired ELSE Retryable

claim_payout(w) ==
  /\ \/ /\ Candidates = {}
        /\ Goto(w, "claim", "ok")
        /\ UNCHANGED <<payouts, claimed>>
     \/ \E p \in Candidates :
          /\ Goto(w, "claim", "pay")
          /\ payouts' = [payouts EXCEPT ![p] =
                           PayoutRow("processing", payouts[p].amount_sats, w)]
          /\ claimed' = [claimed EXCEPT ![w] = p]
  /\ UNCHANGED <<raffle, paid, proof, object, jobs, held, remaining>>

\* The provider makes at most one transfer per idempotency key.
Transfer(w) == paid' = [paid EXCEPT ![claimed[w]] = payouts[claimed[w]].amount_sats]

\* Resolving the address to an invoice of the exact amount precedes the call.
pay_invoice(w) ==
  /\ Goto(w, "pay", "settle")
  /\ Transfer(w)
  /\ UNCHANGED <<raffle, payouts, proof, object, jobs, held, claimed, remaining>>

\* The resolver's amount is wrong, or the provider's answer is an error, whether
\* or not the transfer was made.
pay_invoice_error(w) ==
  /\ Goto(w, "pay", "fail")
  /\ Transfer(w) \/ UNCHANGED paid
  /\ UNCHANGED <<raffle, payouts, proof, object, jobs, held, claimed, remaining>>

OwnsPayout(w) ==
  payouts[claimed[w]].status = "processing" /\ payouts[claimed[w]].lease_owner = w

\* Mutant: whoever is left holding the payout may report its failure.
FailsPayoutAnyway(w) == TRUE

FailsPayout(w) == OwnsPayout(w)

\* The result of fail_payout is dropped; the job fails in any case.
fail_payout(w) ==
  /\ Goto(w, "fail", "err")
  /\ payouts' = IF FailsPayout(w)
                THEN [payouts EXCEPT ![claimed[w]] =
                        PayoutRow("failed", payouts[claimed[w]].amount_sats, NoWorker)]
                ELSE payouts
  /\ UNCHANGED <<raffle, paid, proof, object, jobs, held, claimed, remaining>>

\* Mutant: payouts that another worker is processing are not counted.
UnsettledIdle(p) ==
  {q \in Recipients \ {p} : payouts[q].status \in {"pending", "failed"}}

\* The rows that remain once p is settled.
Unsettled(p) ==
  {q \in Recipients \ {p} : payouts[q].status \notin {"absent", "settled"}}

\* settle_payout up to its COUNT.  fetch_one fails when the lease was lost.
settle_payout_count(w) ==
  /\ \/ /\ Goto(w, "settle", "commit")
        /\ OwnsPayout(w)
        /\ remaining' = [remaining EXCEPT ![w] = Cardinality(Unsettled(claimed[w]))]
     \/ /\ Goto(w, "settle", "err")
        /\ ~OwnsPayout(w)
        /\ UNCHANGED remaining
  /\ UNCHANGED <<raffle, payouts, paid, proof, object, jobs, held, claimed>>

settle_payout_commit(w) ==
  /\ Goto(w, "commit", "claim")
  /\ payouts' = [payouts EXCEPT ![claimed[w]] =
                   PayoutRow("settled", payouts[claimed[w]].amount_sats, NoWorker)]
  /\ \/ /\ remaining[w] = 0
        /\ raffle' = IF raffle.status = "PAYOUT_PENDING"
                     THEN RaffleRow("PAID_OUT") ELSE raffle
        /\ jobs' = Inserted({"proof.generate"})
     \/ /\ remaining[w] # 0
        /\ UNCHANGED <<raffle, jobs>>
  /\ claimed' = [claimed EXCEPT ![w] = NoPayout]
  /\ remaining' = [remaining EXCEPT ![w] = 0]
  /\ UNCHANGED <<paid, proof, object, held>>

LeaseExpires(p) ==
  /\ payouts[p].status = "processing" /\ ~payouts[p].expired
  /\ payouts' = [payouts EXCEPT ![p].expired = TRUE]
  /\ UNCHANGED <<raffle, paid, proof, object, jobs, local>>

-----------------------------------------------------------------------------
(* proof.generate *)

\* UNIQUE (raffle_id, protocol_version): a second INSERT INTO proofs fails.
MayGenerate == raffle.status = "PAID_OUT" /\ proof = "absent"

generate_terminal_proof(w) ==
  /\ \/ /\ MayGenerate
        /\ Goto(w, "generate", "publish")
        /\ proof' = "generated"
     \/ /\ ~MayGenerate
        /\ Goto(w, "generate", "err")
        /\ UNCHANGED proof
  /\ UNCHANGED <<raffle, payouts, paid, object, jobs, held, claimed, remaining>>

\* PUT with if-none-match: *, which the store refuses once the object exists.
publish_immutable(w) ==
  /\ Goto(w, "publish", IF object THEN "err" ELSE "record")
  /\ object' = TRUE
  /\ UNCHANGED <<raffle, payouts, paid, proof, jobs, held, claimed, remaining>>

\* The object is stored, its answer lost or without version id or ETag.
publish_immutable_error(w) ==
  /\ Goto(w, "publish", "err")
  /\ object' = TRUE
  /\ UNCHANGED <<raffle, payouts, paid, proof, jobs, held, claimed, remaining>>

\* Only the worker whose INSERT succeeded gets here, so storage_uri is still NULL
\* and the comparison with recorded values is never reached.
record_proof_publication(w) ==
  /\ Goto(w, "record", "ok")
  /\ proof' = "published"
  /\ UNCHANGED <<raffle, payouts, paid, object, jobs, held, claimed, remaining>>

-----------------------------------------------------------------------------
(* The loop of run_jobs. *)

\* Mutant: the dispatcher does not know proof.generate, and an unknown kind is Ok.
FirstStepUnknown(j) == CASE j = "raffle.draw" -> "draw"
                         [] j = "payout.execute" -> "claim"
                         [] j = "proof.generate" -> "ok"

FirstStep(j) == CASE j = "raffle.draw" -> "draw"
                  [] j = "payout.execute" -> "claim"
                  [] j = "proof.generate" -> "generate"

claim_job(w, j) ==
  /\ claim(w, j)
  /\ pc' = [pc EXCEPT ![w] = FirstStep(j)]
  /\ UNCHANGED <<raffle, payouts, paid, proof, object, claimed, remaining>>

Release(w) ==
  /\ claimed' = [claimed EXCEPT ![w] = NoPayout]
  /\ remaining' = [remaining EXCEPT ![w] = 0]
  /\ UNCHANGED <<raffle, payouts, paid, proof, object>>

succeed_job(w) == Goto(w, "ok", "idle") /\ succeed(w) /\ Release(w)

fail_or_retry_job(w) == Goto(w, "err", "idle") /\ fail_or_retry(w) /\ Release(w)

\* A call of the handler fails; an open transaction is rolled back.
HandlerError(w) ==
  /\ pc[w] \in Running
  /\ pc' = [pc EXCEPT ![w] = "err"]
  /\ UNCHANGED <<jobs, held>>
  /\ Release(w)

WorkerCrash(w) ==
  /\ Abandon(w)
  /\ pc' = [pc EXCEPT ![w] = "idle"]
  /\ Release(w)

retry_operator_job(j) ==
  /\ retry_dead_job(j)
  /\ UNCHANGED <<raffle, payouts, paid, proof, object, pc, claimed, remaining>>

-----------------------------------------------------------------------------
HandlerStep(w) ==
  \/ create_draw_and_payouts(w)
  \/ claim_payout(w)
  \/ pay_invoice(w)
  \/ fail_payout(w)
  \/ settle_payout_count(w)
  \/ settle_payout_commit(w)
  \/ generate_terminal_proof(w)
  \/ publish_immutable(w)
  \/ record_proof_publication(w)
  \/ succeed_job(w)
  \/ fail_or_retry_job(w)

FaultStep(w) ==
  \/ pay_invoice_error(w)
  \/ publish_immutable_error(w)
  \/ HandlerError(w)
  \/ WorkerCrash(w)

Next ==
  \/ \E w \in Workers : HandlerStep(w) \/ FaultStep(w)
  \/ \E w \in Workers, j \in SettlementJobs : claim_job(w, j)
  \/ \E p \in Recipients : LeaseExpires(p)
  \/ \E j \in SettlementJobs : retry_operator_job(j)

Spec == Init /\ [][Next]_vars

(***************************************************************************)
(* Fairness, as in Collection: a worker keeps executing its handler, no    *)
(* claimable job is passed over for ever, an operator retries dead jobs,   *)
(* leases run out, and only finitely many calls fail, processes die or are *)
(* still working when the 60 seconds of their lease are over.              *)
(***************************************************************************)
Overrun(w) ==
  \/ \E p \in Recipients : LeaseExpires(p) /\ payouts[p].lease_owner = w /\ claimed[w] = p
  \/ \E v \in Workers, j \in SettlementJobs : claim_job(v, j) /\ held[w] = j /\ OwnsLease(w)

Fault == \E w \in Workers : Overrun(w) \/ (FaultStep(w) /\ ~HandlerStep(w))

Fairness ==
  /\ \A w \in Workers : WF_vars(HandlerStep(w))
  /\ \A j \in SettlementJobs : /\ SF_vars(\E w \in Workers : claim_job(w, j))
                                /\ WF_vars(retry_operator_job(j))
  /\ \A p \in Recipients : WF_vars(LeaseExpires(p))
  /\ <>[][~Fault]_vars

FairSpec == Spec /\ Fairness

-----------------------------------------------------------------------------
(* What is checked. *)

\* A raffle that is PAID_OUT has given its whole pool away: what the provider
\* transferred, over all recipients, is the pool, also when several workers
\* settled its payouts concurrently and each decided from its own COUNT.
PaidOutDistributesPool ==
  raffle.status = "PAID_OUT" =>
    paid["winner"] + paid["organizer"] + paid["platform"] = raffle.total_pool_sats

\* A terminal proof states only what has happened: it exists only when every
\* payout it lists is settled, whoever generated it and when.
ProofAfterSettlement ==
  proof # "absent" =>
    \A p \in Recipients : payouts[p].status = (IF Allocated(p) > 0 THEN "settled" ELSE "absent")

Lifecycle == INSTANCE RaffleLifecycle
  WITH status <- raffle.status, pool <- raffle.total_pool_sats,
       paid <- paid["winner"] + paid["organizer"] + paid["platform"]

\* A frozen raffle implements the second half of RaffleLifecycle: it is drawn
\* once, pays in PAYOUT_PENDING only and never more than its pool, although two
\* workers may call the provider for one payout and a call whose answer was
\* lost is repeated.
ImplementsLifecycle == Lifecycle!FrozenSpec

\* A settled payout stays settled: a worker that lost its lease, and whose own
\* call to the provider fails later, cannot reopen it (fail_payout,
\* claim_payout).
SettledIsFinal ==
  [][\A p \in Recipients : payouts[p].status = "settled" => payouts'[p].status = "settled"]_vars

\* A raffle never waits for a step without the job row that takes it: the draw
\* and the terminal proof have one that has not succeeded, the payouts have one
\* (which may have succeeded too early, see Stranded), whichever worker
\* committed the step before, failed or crashed.
WorkScheduled ==
  LET Open(j) == jobs[j].status \in {"queued", "running", "dead"}
  IN  /\ raffle.status = "RANDOMNESS_PENDING" => Open("raffle.draw")
      /\ raffle.status = "PAYOUT_PENDING" => jobs["payout.execute"].status # "absent"
      /\ raffle.status = "PAID_OUT" /\ proof = "absent" => Open("proof.generate")

\* The payout.execute job is done although payouts are left, or although they
\* are all settled: no job will look at the raffle again.
Stranded == jobs["payout.execute"].status = "succeeded" /\ raffle.status = "PAYOUT_PENDING"

\* Every frozen raffle gets its terminal proof, unless it is stranded in
\* PAYOUT_PENDING, whatever failed or crashed on the way.
ProofOrStranded == <>(proof # "absent" \/ Stranded)

\* Failed payouts are retried and expired leases recovered (technical-staging
\* runbook), so a raffle in PAYOUT_PENDING is paid out.
PayoutsComplete == raffle.status = "PAYOUT_PENDING" ~> raffle.status = "PAID_OUT"

\* Once its last payout is settled the raffle is PAID_OUT, and its proof can be
\* generated (the persistence test settles all payouts, then generates it).
LastSettlementPaysOut ==
  raffle.status = "PAYOUT_PENDING" =>
    \E p \in Recipients : payouts[p].status \notin {"absent", "settled"}

\* A publication that failed is retried (record_proof_publication: "a retry may
\* repeat the exact values"), so a generated proof is published.
ProofPublished == proof = "generated" ~> proof = "published"
=============================================================================
