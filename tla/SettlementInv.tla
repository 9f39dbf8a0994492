--------------------------- MODULE SettlementInv ----------------------------
(***************************************************************************)
(* The inductive invariant of Settlement: what a worker still knows of the *)
(* payout it has claimed when other workers may have taken it over.        *)
(***************************************************************************)
EXTENDS Settlement

\* The payouts are those of the draw, in number and amount.
DrawInv ==
  IF raffle.status = "RANDOMNESS_PENDING"
  THEN \A p \in Recipients : payouts[p].status = "absent"
  ELSE \A p \in Recipients : /\ payouts[p].amount_sats = Allocated(p)
                             /\ payouts[p].status = "absent" <=> Allocated(p) = 0

\* The provider has transferred the amount of a payout or nothing: the amount if
\* the payout is settled, nothing if it does not exist.
PaidInv ==
  \A p \in Recipients :
    /\ paid[p] \in {0, payouts[p].amount_sats}
    /\ payouts[p].status = "settled" => paid[p] = payouts[p].amount_sats
    /\ payouts[p].status = "absent" => paid[p] = 0

\* A worker past its provider call has paid its payout, even if it has lost the
\* lease.  The row lock of an open settle_payout keeps the lease, and a COUNT
\* of zero stays true because settled payouts are final.
WorkerInv ==
  \A w \in Workers :
    /\ pc[w] \in {"pay", "settle", "commit", "fail"} =>
         claimed[w] \in Recipients /\ payouts[claimed[w]].status # "absent"
    /\ pc[w] \in {"settle", "commit"} => paid[claimed[w]] = payouts[claimed[w]].amount_sats
    /\ pc[w] = "commit" => /\ OwnsPayout(w)
                           /\ remaining[w] = 0 => Unsettled(claimed[w]) = {}

\* PAID_OUT and the proof come after the last settlement.
OutcomeInv ==
  /\ raffle.status = "PAID_OUT" =>
       \A p \in Recipients : payouts[p].status \in {"absent", "settled"}
  /\ proof # "absent" => raffle.status = "PAID_OUT"

\* A worker publishes only a proof that is stored.
ProofInv == \A w \in Workers : pc[w] \in {"publish", "record"} => proof # "absent"

\* A worker holds the job whose handler it executes, and ends with Ok only when
\* the draw, or the proof, that the job is for is stored.
HeldInv ==
  \A w \in Workers :
    /\ pc[w] = "draw" => held[w] = "raffle.draw"
    /\ pc[w] \in {"claim", "pay", "settle", "commit", "fail"} => held[w] = "payout.execute"
    /\ pc[w] \in {"generate", "publish", "record"} => held[w] = "proof.generate"
    /\ pc[w] = "ok" /\ held[w] = "raffle.draw" => raffle.status # "RANDOMNESS_PENDING"
    /\ pc[w] = "ok" /\ held[w] = "proof.generate" => proof # "absent"

ScheduleInv ==
  /\ HeldInv
  /\ jobs["proof.generate"].status = "succeeded" => proof # "absent"
  /\ WorkScheduled

Inv == TypeOK /\ DrawInv /\ PaidInv /\ WorkerInv /\ OutcomeInv /\ ProofInv
=============================================================================
