-------------------------- MODULE SettlementProofs --------------------------
(***************************************************************************)
(* The safety of Settlement for any number of workers, any pool and any    *)
(* valid split.                                                            *)
(***************************************************************************)
EXTENDS SettlementInv, ProtocolLemmas, FiniteSetTheorems, TLAPS

\* There are three recipients, so at most two payouts remain besides one.
LEMMA UnsettledFinite ==
  ASSUME NEW p \in Recipients
  PROVE  /\ IsFiniteSet(Unsettled(p))
         /\ Cardinality(Unsettled(p)) \in 0 .. 2
         /\ Cardinality(Unsettled(p)) = 0 => Unsettled(p) = {}
<1>1. /\ IsFiniteSet({"winner"}) /\ Cardinality({"winner"}) = 1
  BY FS_Singleton
<1>2. /\ IsFiniteSet({"winner"} \cup {"organizer"})
      /\ Cardinality({"winner"} \cup {"organizer"}) = 2
  BY <1>1, FS_AddElement
<1>3. /\ IsFiniteSet(({"winner"} \cup {"organizer"}) \cup {"platform"})
      /\ Cardinality(({"winner"} \cup {"organizer"}) \cup {"platform"}) = 3
  <2>1. "platform" \notin {"winner"} \cup {"organizer"}
    OBVIOUS
  <2> HIDE DEF Recipients
  <2> QED
    BY <1>2, <2>1, FS_AddElement, 2 + 1 = 3, Zenon
<1>4. Recipients = ({"winner"} \cup {"organizer"}) \cup {"platform"}
  BY DEF Recipients
<1>5. IsFiniteSet(Recipients \ {p}) /\ Cardinality(Recipients \ {p}) = 2
  BY <1>3, <1>4, FS_RemoveElement
<1>6. Unsettled(p) \subseteq Recipients \ {p}
  BY DEF Unsettled
<1>7. IsFiniteSet(Unsettled(p)) /\ Cardinality(Unsettled(p)) <= 2
  BY <1>5, <1>6, FS_Subset
<1>8. Cardinality(Unsettled(p)) \in Nat
  BY <1>7, FS_CardinalityType
<1> QED
  BY <1>7, <1>8, FS_EmptySet

\* A raffle that was just frozen satisfies the invariant.
LEMMA InitInv == Init => Inv
<1> SUFFICES ASSUME Init PROVE Inv
  OBVIOUS
<1> USE SettlementAssumption DEF Init
<1>1. TypeOK
  <2>1. raffle \in [status : RaffleStatus, total_pool_sats : Nat, split : PayoutSplits]
    BY DEF RaffleStatus
  <2>2. payouts \in [Recipients -> [status : PayoutStatus, amount_sats : Nat,
                       lease_owner : Workers \cup {NoWorker}, expired : BOOLEAN]]
    BY DEF PayoutRow, PayoutStatus
  <2>3. JobTypeOK
    <3>1. \A j \in SettlementJobs :
            (IF j = "raffle.draw" THEN "queued" ELSE "absent") \in JobStatus
      BY DEF JobStatus
    <3>2. \A s \in JobStatus : JobRow(s, NoWorker) \in
            [status : JobStatus, lease_owner : Workers \cup {NoWorker}]
      BY DEF JobRow
    <3> QED
      BY <3>1, <3>2 DEF JobTypeOK
  <2>4. /\ paid \in [Recipients -> Nat] /\ proof \in ProofStatus /\ object \in BOOLEAN
        /\ claimed \in [Workers -> Recipients \cup {NoPayout}]
    BY DEF ProofStatus
  <2>5. pc \in [Workers -> WorkerStep] /\ remaining \in [Workers -> 0 .. 2]
    BY DEF WorkerStep
  <2> QED
    BY <2>1, <2>2, <2>3, <2>4, <2>5, Zenon DEF TypeOK
<1>2. DrawInv /\ PaidInv
  BY DEF DrawInv, PaidInv, PayoutRow
<1>3. WorkerInv /\ OutcomeInv /\ ProofInv
  BY DEF WorkerInv, OutcomeInv, ProofInv
<1> QED
  BY <1>1, <1>2, <1>3 DEF Inv

\* The job table keeps its type whatever the handlers do with it.
LEMMA JobTypeStep ==
  ASSUME JobTypeOK,
         \/ UNCHANGED <<jobs, held>>
         \/ \E J \in SUBSET SettlementJobs : jobs' = Inserted(J) /\ held' = held
         \/ \E w \in Workers, j \in SettlementJobs : claim(w, j)
         \/ \E w \in Workers : succeed(w) \/ fail_or_retry(w) \/ Abandon(w)
         \/ \E j \in SettlementJobs : retry_dead_job(j)
  PROVE  JobTypeOK'
<1> USE SettlementAssumption DEF JobTypeOK, JobRow, JobStatus
<1>1. CASE UNCHANGED <<jobs, held>>
  BY <1>1
<1>2. CASE \E J \in SUBSET SettlementJobs : jobs' = Inserted(J) /\ held' = held
  BY <1>2 DEF Inserted
<1>3. CASE \E w \in Workers, j \in SettlementJobs : claim(w, j)
  BY <1>3 DEF claim
<1>4. ASSUME NEW w \in Workers, NEW s \in JobStatus, Finish(w, s) PROVE JobTypeOK'
  BY <1>4 DEF Finish, OwnsLease
<1>5. CASE \E w \in Workers : succeed(w) \/ fail_or_retry(w) \/ Abandon(w)
  <2>1. ASSUME NEW w \in Workers, succeed(w) \/ fail_or_retry(w) PROVE JobTypeOK'
    BY <2>1, <1>4 DEF succeed, fail_or_retry
  <2>2. ASSUME NEW w \in Workers, Abandon(w) PROVE JobTypeOK'
    BY <2>2 DEF Abandon
  <2> QED
    BY <1>5, <2>1, <2>2
<1>6. CASE \E j \in SettlementJobs : retry_dead_job(j)
  BY <1>6 DEF retry_dead_job
<1> QED
  BY <1>1, <1>2, <1>3, <1>5, <1>6

PayoutRows == [status : PayoutStatus, amount_sats : Nat,
               lease_owner : Workers \cup {NoWorker}, expired : BOOLEAN]

\* A payout keeps the type of its row when a handler rewrites it.
LEMMA PayoutRowType ==
  ASSUME NEW s \in PayoutStatus, NEW n \in Nat, NEW w \in Workers \cup {NoWorker}
  PROVE  PayoutRow(s, n, w) \in PayoutRows
BY DEF PayoutRow, PayoutRows

\* The amounts of the draw are natural numbers.
LEMMA AllocatedNat == TypeOK => \A p \in Recipients : Allocated(p) \in Nat
<1> SUFFICES ASSUME TypeOK PROVE \A p \in Recipients : Allocated(p) \in Nat
  OBVIOUS
<1>1. raffle.split \in PayoutSplits /\ raffle.total_pool_sats \in Nat
  BY DEF TypeOK
<1> QED
  BY <1>1, AllocateTotal DEF Allocated, Recipients

\* Every step keeps the types.
LEMMA TypeStep == Inv /\ Next => TypeOK'
<1> SUFFICES ASSUME Inv, Next PROVE TypeOK'
  OBVIOUS
<1> USE SettlementAssumption
<1>1. TypeOK /\ payouts \in [Recipients -> PayoutRows]
  BY DEF Inv, TypeOK, PayoutRows
<1>2. raffle' \in [status : RaffleStatus, total_pool_sats : Nat, split : PayoutSplits]
  <2>1. ASSUME NEW s \in RaffleStatus
        PROVE  RaffleRow(s) \in [status : RaffleStatus, total_pool_sats : Nat, split : PayoutSplits]
    BY <1>1 DEF RaffleRow, TypeOK
  <2>2. raffle' = raffle \/ raffle' = RaffleRow("PAYOUT_PENDING") \/ raffle' = RaffleRow("PAID_OUT")
    BY DEF Next, HandlerStep, FaultStep, create_draw_and_payouts, claim_payout, pay_invoice,
           fail_payout, settle_payout_count, settle_payout_commit, generate_terminal_proof,
           publish_immutable, record_proof_publication, succeed_job, fail_or_retry_job,
           pay_invoice_error, publish_immutable_error, HandlerError, WorkerCrash, Release,
           claim_job, LeaseExpires, retry_operator_job
  <2> QED
    BY <1>1, <2>1, <2>2 DEF TypeOK, RaffleStatus
<1>3. JobTypeOK'
  <2>1. \/ UNCHANGED <<jobs, held>>
        \/ \E J \in SUBSET SettlementJobs : jobs' = Inserted(J) /\ held' = held
        \/ \E w \in Workers, j \in SettlementJobs : claim(w, j)
        \/ \E w \in Workers : succeed(w) \/ fail_or_retry(w) \/ Abandon(w)
        \/ \E j \in SettlementJobs : retry_dead_job(j)
    BY DEF Next, HandlerStep, FaultStep, create_draw_and_payouts, claim_payout, pay_invoice,
           fail_payout, settle_payout_count, settle_payout_commit, generate_terminal_proof,
           publish_immutable, record_proof_publication, succeed_job, fail_or_retry_job,
           pay_invoice_error, publish_immutable_error, HandlerError, WorkerCrash, Release,
           claim_job, LeaseExpires, retry_operator_job, SettlementJobs, local
  <2> QED
    BY <1>1, <2>1, JobTypeStep DEF TypeOK
<1>4. payouts' \in [Recipients -> PayoutRows]
  <2>1. CASE payouts' = payouts
    BY <1>1, <2>1
  <2>2. ASSUME NEW w \in Workers, create_draw_and_payouts(w), payouts' # payouts
        PROVE  payouts' \in [Recipients -> PayoutRows]
    <3>1. \A p \in Recipients : Allocated(p) \in Nat
      BY <1>1, AllocatedNat
    <3>2. \A p \in Recipients :
            PayoutRow(IF Allocated(p) > 0 THEN "pending" ELSE "absent", Allocated(p), NoWorker)
              \in PayoutRows
      BY <3>1, PayoutRowType DEF PayoutStatus
    <3> QED
      BY <2>2, <3>2 DEF create_draw_and_payouts, PayoutsOfDraw
  <2>3. ASSUME NEW p \in Recipients, NEW s \in PayoutStatus, NEW w \in Workers \cup {NoWorker},
               payouts' = [payouts EXCEPT ![p] = PayoutRow(s, payouts[p].amount_sats, w)]
        PROVE  payouts' \in [Recipients -> PayoutRows]
    <3>1. payouts[p].amount_sats \in Nat
      BY <1>1 DEF PayoutRows
    <3> QED
      BY <1>1, <2>3, <3>1, PayoutRowType
  <2>4. ASSUME NEW w \in Workers, claim_payout(w) PROVE payouts' \in [Recipients -> PayoutRows]
    <3>1. Candidates \subseteq Recipients
      BY DEF Candidates, Expired, Retryable
    <3> QED
      BY <2>1, <2>3, <2>4, <3>1 DEF claim_payout, PayoutStatus
  <2>5. ASSUME NEW w \in Workers, fail_payout(w) PROVE payouts' \in [Recipients -> PayoutRows]
    <3>1. claimed[w] \in Recipients
      BY <2>5 DEF fail_payout, Goto, Inv, WorkerInv
    <3> QED
      BY <2>1, <2>3, <2>5, <3>1 DEF fail_payout, PayoutStatus
  <2>6. ASSUME NEW w \in Workers, settle_payout_commit(w)
        PROVE  payouts' \in [Recipients -> PayoutRows]
    <3>1. claimed[w] \in Recipients
      BY <2>6 DEF settle_payout_commit, Goto, Inv, WorkerInv
    <3> QED
      BY <2>3, <2>6, <3>1 DEF settle_payout_commit, PayoutStatus
  <2>7. ASSUME NEW p \in Recipients, LeaseExpires(p) PROVE payouts' \in [Recipients -> PayoutRows]
    BY <1>1, <2>7 DEF LeaseExpires, PayoutRows
  <2> QED
    BY <2>1, <2>2, <2>4, <2>5, <2>6, <2>7
    DEF Next, HandlerStep, FaultStep, pay_invoice, settle_payout_count, generate_terminal_proof,
        publish_immutable, record_proof_publication, succeed_job, fail_or_retry_job,
        pay_invoice_error, publish_immutable_error, HandlerError, WorkerCrash, Release,
        claim_job, retry_operator_job
<1>5. paid' \in [Recipients -> Nat]
  <2>1. ASSUME NEW w \in Workers, pc[w] = "pay", Transfer(w) PROVE paid' \in [Recipients -> Nat]
    <3>1. claimed[w] \in Recipients /\ payouts[claimed[w]].amount_sats \in Nat
      BY <1>1, <2>1 DEF Inv, WorkerInv, PayoutRows
    <3> QED
      BY <1>1, <2>1, <3>1 DEF Transfer, TypeOK
  <2> QED
    BY <1>1, <2>1
    DEF TypeOK, Next, HandlerStep, FaultStep, create_draw_and_payouts, claim_payout, pay_invoice,
        fail_payout, settle_payout_count, settle_payout_commit, generate_terminal_proof,
        publish_immutable, record_proof_publication, succeed_job, fail_or_retry_job,
        pay_invoice_error, publish_immutable_error, HandlerError, WorkerCrash, Release,
        claim_job, LeaseExpires, retry_operator_job, Goto
<1>6. proof' \in ProofStatus /\ object' \in BOOLEAN
  BY <1>1
  DEF TypeOK, ProofStatus, Next, HandlerStep, FaultStep, create_draw_and_payouts, claim_payout,
      pay_invoice, fail_payout, settle_payout_count, settle_payout_commit,
      generate_terminal_proof, publish_immutable, record_proof_publication, succeed_job,
      fail_or_retry_job, pay_invoice_error, publish_immutable_error, HandlerError, WorkerCrash,
      Release, claim_job, LeaseExpires, retry_operator_job
<1>7. pc' \in [Workers -> WorkerStep]
  <2>1. ASSUME NEW j \in SettlementJobs PROVE FirstStep(j) \in WorkerStep
    BY DEF SettlementJobs, FirstStep, WorkerStep
  <2> QED
    BY <1>1, <2>1
    DEF TypeOK, WorkerStep, Goto, Next, HandlerStep, FaultStep, create_draw_and_payouts,
      claim_payout, pay_invoice, fail_payout, settle_payout_count, settle_payout_commit,
      generate_terminal_proof, publish_immutable, record_proof_publication, succeed_job,
      fail_or_retry_job, pay_invoice_error, publish_immutable_error, HandlerError, WorkerCrash,
      Release, claim_job, LeaseExpires, retry_operator_job, local
<1>8. claimed' \in [Workers -> Recipients \cup {NoPayout}]
  BY <1>1
  DEF TypeOK, Candidates, Expired, Retryable, Next, HandlerStep, FaultStep,
      create_draw_and_payouts, claim_payout, pay_invoice, fail_payout, settle_payout_count,
      settle_payout_commit, generate_terminal_proof, publish_immutable,
      record_proof_publication, succeed_job, fail_or_retry_job, pay_invoice_error,
      publish_immutable_error, HandlerError, WorkerCrash, Release, claim_job, LeaseExpires,
      retry_operator_job, local
<1>9. remaining' \in [Workers -> 0 .. 2]
  <2>1. ASSUME NEW w \in Workers, settle_payout_count(w) PROVE remaining' \in [Workers -> 0 .. 2]
    <3>1. claimed[w] \in Recipients
      BY <2>1 DEF settle_payout_count, Goto, Inv, WorkerInv
    <3> QED
      BY <1>1, <2>1, <3>1, UnsettledFinite DEF settle_payout_count, TypeOK
  <2> QED
    BY <1>1, <2>1
    DEF TypeOK, Next, HandlerStep, FaultStep, create_draw_and_payouts, claim_payout, pay_invoice,
      fail_payout, settle_payout_commit, generate_terminal_proof, publish_immutable,
      record_proof_publication, succeed_job, fail_or_retry_job, pay_invoice_error,
      publish_immutable_error, HandlerError, WorkerCrash, Release, claim_job, LeaseExpires,
      retry_operator_job, local
<1> QED
  BY <1>2, <1>3, <1>4, <1>5, <1>6, <1>7, <1>8, <1>9 DEF TypeOK, PayoutRows

\* What changes the payouts, and how.  Every other action leaves the raffle, the
\* payouts and what was paid alone.
PayoutStep(w) ==
  create_draw_and_payouts(w) \/ claim_payout(w) \/ fail_payout(w) \/ settle_payout_commit(w)

QuietStep ==
  /\ UNCHANGED <<raffle, payouts, paid>>
  /\ \A w \in Workers :
       \/ pc'[w] = pc[w] /\ claimed'[w] = claimed[w] /\ remaining'[w] = remaining[w]
       \/ pc'[w] \notin {"pay", "settle", "commit", "fail"}
       \/ /\ pc[w] = "settle" /\ pc'[w] = "commit" /\ claimed'[w] = claimed[w]
          /\ OwnsPayout(w)
          /\ remaining'[w] = Cardinality(Unsettled(claimed[w]))

\* The actions that are neither a payout step, a provider call nor the passing
\* of a lease are quiet.
LEMMA QuietSteps ==
  ASSUME TypeOK, Next
  PROVE  \/ QuietStep
         \/ \E w \in Workers : PayoutStep(w) \/ pay_invoice(w) \/ pay_invoice_error(w)
         \/ \E p \in Recipients : LeaseExpires(p)
<1>0. pc \in [Workers -> WorkerStep] /\ claimed \in [Workers -> Recipients \cup {NoPayout}]
      /\ remaining \in [Workers -> 0 .. 2]
  BY DEF TypeOK
<1>1. ASSUME NEW w \in Workers, settle_payout_count(w) PROVE QuietStep
  BY <1>0, <1>1 DEF settle_payout_count, Goto, QuietStep
<1>2. ASSUME NEW w \in Workers,
             generate_terminal_proof(w) \/ publish_immutable(w) \/ record_proof_publication(w)
               \/ publish_immutable_error(w)
      PROVE  QuietStep
  BY <1>0, <1>2 DEF generate_terminal_proof, publish_immutable, record_proof_publication,
                    publish_immutable_error, Goto, QuietStep
<1>3. ASSUME NEW w \in Workers,
             succeed_job(w) \/ fail_or_retry_job(w) \/ HandlerError(w) \/ WorkerCrash(w)
      PROVE  QuietStep
  BY <1>0, <1>3 DEF succeed_job, fail_or_retry_job, HandlerError, WorkerCrash, Release, Goto,
                    QuietStep
<1>4. ASSUME NEW w \in Workers, NEW j \in SettlementJobs, claim_job(w, j) PROVE QuietStep
  BY <1>0, <1>4 DEF claim_job, FirstStep, SettlementJobs, QuietStep
<1>5. ASSUME NEW j \in SettlementJobs, retry_operator_job(j) PROVE QuietStep
  BY <1>5 DEF retry_operator_job, QuietStep
<1> QED
  BY <1>1, <1>2, <1>3, <1>4, <1>5 DEF Next, HandlerStep, FaultStep, PayoutStep

\* A quiet step keeps the invariant of payouts and workers.
LEMMA QuietInv ==
  ASSUME Inv, QuietStep
  PROVE  DrawInv' /\ PaidInv' /\ WorkerInv'
<1>1. raffle' = raffle /\ payouts' = payouts /\ paid' = paid
  BY DEF QuietStep
<1>2. DrawInv' /\ PaidInv'
  BY <1>1 DEF Inv, DrawInv, PaidInv, Allocated
<1>3. ASSUME NEW w \in Workers
      PROVE  /\ pc'[w] \in {"pay", "settle", "commit", "fail"} =>
                  claimed'[w] \in Recipients /\ payouts'[claimed'[w]].status # "absent"
             /\ pc'[w] \in {"settle", "commit"} =>
                  paid'[claimed'[w]] = payouts'[claimed'[w]].amount_sats
             /\ pc'[w] = "commit" => /\ OwnsPayout(w)'
                                     /\ remaining'[w] = 0 => Unsettled(claimed[w])' = {}
  <2>1. CASE pc'[w] = pc[w] /\ claimed'[w] = claimed[w] /\ remaining'[w] = remaining[w]
    BY <1>1, <2>1 DEF Inv, WorkerInv, OwnsPayout, Unsettled
  <2>2. CASE pc'[w] \notin {"pay", "settle", "commit", "fail"}
    BY <2>2
  <2>3. CASE /\ pc[w] = "settle" /\ pc'[w] = "commit" /\ claimed'[w] = claimed[w]
             /\ OwnsPayout(w)
             /\ remaining'[w] = Cardinality(Unsettled(claimed[w]))
    <3>1. claimed[w] \in Recipients
      BY <2>3 DEF Inv, WorkerInv
    <3>2. remaining'[w] = 0 => Unsettled(claimed[w]) = {}
      BY <2>3, <3>1, UnsettledFinite
    <3> QED
      BY <1>1, <2>3, <3>1, <3>2 DEF Inv, WorkerInv, OwnsPayout, Unsettled
  <2> QED
    BY <2>1, <2>2, <2>3 DEF QuietStep
<1> QED
  BY <1>2, <1>3 DEF WorkerInv

\* What WorkerInv says of one worker.
WorkerOK(w) ==
  /\ pc[w] \in {"pay", "settle", "commit", "fail"} =>
       claimed[w] \in Recipients /\ payouts[claimed[w]].status # "absent"
  /\ pc[w] \in {"settle", "commit"} => paid[claimed[w]] = payouts[claimed[w]].amount_sats
  /\ pc[w] = "commit" => /\ OwnsPayout(w)
                         /\ remaining[w] = 0 => Unsettled(claimed[w]) = {}

\* A call to the provider pays the amount of a payout that exists.
LEMMA PayInv ==
  ASSUME Inv, NEW w \in Workers, pay_invoice(w) \/ pay_invoice_error(w)
  PROVE  DrawInv' /\ PaidInv' /\ WorkerInv'
<1> DEFINE q == claimed[w]
<1>1. /\ raffle' = raffle /\ payouts' = payouts /\ claimed' = claimed /\ remaining' = remaining
      /\ pc[w] = "pay" /\ q \in Recipients /\ payouts[q].status # "absent"
  BY DEF pay_invoice, pay_invoice_error, Goto, Inv, WorkerInv
<1>2. paid' = [paid EXCEPT ![q] = payouts[q].amount_sats] \/ (paid' = paid /\ pay_invoice_error(w))
  BY DEF pay_invoice, pay_invoice_error, Transfer
<1>3. \A p \in Recipients : paid'[p] = paid[p] \/ (p = q /\ paid'[p] = payouts[p].amount_sats)
  BY <1>1, <1>2 DEF Inv, TypeOK
<1>4. DrawInv'
  BY <1>1 DEF Inv, DrawInv, Allocated
<1>5. PaidInv'
  BY <1>1, <1>3 DEF Inv, PaidInv
<1>6. ASSUME NEW v \in Workers PROVE WorkerOK(v)'
  <2>1. CASE v = w
    <3>1. \/ pc'[w] = "settle" /\ paid' = [paid EXCEPT ![q] = payouts[q].amount_sats]
          \/ pc'[w] = "fail"
      BY DEF pay_invoice, pay_invoice_error, Transfer, Goto, Inv, TypeOK
    <3> QED
      BY <1>1, <2>1, <3>1 DEF WorkerOK, Inv, TypeOK
  <2>2. CASE v # w
    <3>1. pc'[v] = pc[v]
      BY <2>2 DEF pay_invoice, pay_invoice_error, Goto, Inv, TypeOK
    <3>2. pc[v] \in {"settle", "commit"} => paid'[claimed[v]] = payouts[claimed[v]].amount_sats
      BY <1>3 DEF Inv, WorkerInv
    <3> QED
      BY <1>1, <3>1, <3>2 DEF Inv, WorkerInv, WorkerOK, OwnsPayout, Unsettled
  <2> QED
    BY <2>1, <2>2
<1> QED
  BY <1>4, <1>5, <1>6 DEF WorkerInv, WorkerOK

\* A lease that runs out changes nothing that was decided.
LEMMA ExpireInv ==
  ASSUME Inv, NEW p \in Recipients, LeaseExpires(p)
  PROVE  DrawInv' /\ PaidInv' /\ WorkerInv'
<1>1. /\ raffle' = raffle /\ paid' = paid /\ claimed' = claimed /\ pc' = pc
      /\ remaining' = remaining
  BY DEF LeaseExpires, local
<1>2. \A q \in Recipients : /\ payouts'[q].status = payouts[q].status
                            /\ payouts'[q].amount_sats = payouts[q].amount_sats
                            /\ payouts'[q].lease_owner = payouts[q].lease_owner
  BY DEF LeaseExpires, Inv, TypeOK
<1>3. DrawInv' /\ PaidInv'
  BY <1>1, <1>2 DEF Inv, DrawInv, PaidInv, Allocated
<1>4. ASSUME NEW v \in Workers PROVE WorkerOK(v)'
  <2>1. WorkerOK(v)
    BY DEF Inv, WorkerInv, WorkerOK
  <2>2. \A q \in Recipients : Unsettled(q)' = Unsettled(q)
    BY <1>2 DEF Unsettled
  <2> QED
    BY <1>1, <1>2, <2>1, <2>2 DEF WorkerOK, OwnsPayout
<1> QED
  BY <1>3, <1>4 DEF WorkerInv, WorkerOK

\* The draw creates the payouts it allocates; before it no worker has claimed one.
LEMMA DrawStepInv ==
  ASSUME Inv, NEW w \in Workers, create_draw_and_payouts(w)
  PROVE  DrawInv' /\ PaidInv' /\ WorkerInv'
<1>1. paid' = paid /\ claimed' = claimed /\ remaining' = remaining
  BY DEF create_draw_and_payouts
<1>2. \A v \in Workers : pc'[v] = pc[v] \/ pc'[v] \in {"ok", "err"}
  BY DEF create_draw_and_payouts, Goto, Inv, TypeOK
<1>3. CASE raffle.status = "RANDOMNESS_PENDING"
  <2>1. raffle' = RaffleRow("PAYOUT_PENDING") /\ payouts' = PayoutsOfDraw
    BY <1>3 DEF create_draw_and_payouts
  <2>2. \A p \in Recipients : Allocated(p)' = Allocated(p) /\ Allocated(p) \in Nat
    BY <2>1, AllocatedNat DEF Allocated, RaffleRow, Inv
  <2>3. \A p \in Recipients :
          /\ payouts'[p].status = (IF Allocated(p) > 0 THEN "pending" ELSE "absent")
          /\ payouts'[p].amount_sats = Allocated(p)
    BY <2>1 DEF PayoutsOfDraw, PayoutRow
  <2>4. DrawInv'
    BY <2>1, <2>2, <2>3 DEF DrawInv, RaffleRow
  <2>5. \A p \in Recipients : payouts[p].status = "absent" /\ paid[p] = 0
    BY <1>3 DEF Inv, DrawInv, PaidInv
  <2>6. PaidInv'
    BY <1>1, <2>3, <2>5 DEF PaidInv
  <2>7. \A v \in Workers : pc'[v] \notin {"pay", "settle", "commit", "fail"}
    BY <1>2, <2>5 DEF Inv, WorkerInv
  <2>8. WorkerInv'
    BY <2>7 DEF WorkerInv
  <2> QED
    BY <2>4, <2>6, <2>8
<1>4. CASE raffle.status # "RANDOMNESS_PENDING"
  <2>1. raffle' = raffle /\ payouts' = payouts
    BY <1>4 DEF create_draw_and_payouts
  <2>2. DrawInv' /\ PaidInv'
    BY <1>1, <2>1 DEF Inv, DrawInv, PaidInv, Allocated
  <2>3. WorkerInv'
    BY <1>1, <1>2, <2>1 DEF Inv, WorkerInv, OwnsPayout, Unsettled
  <2> QED
    BY <2>2, <2>3
<1> QED
  BY <1>3, <1>4

\* Rewriting the row of one payout that exists, to a status that is not settled
\* unless it has been paid, keeps what is known of it and of the others.
LEMMA RewriteInv ==
  ASSUME Inv, NEW q \in Recipients, payouts[q].status # "absent",
         NEW s \in {"processing", "failed", "settled"}, NEW u \in Workers \cup {NoWorker},
         payouts' = [payouts EXCEPT ![q] = PayoutRow(s, payouts[q].amount_sats, u)],
         payouts[q].status # "settled",
         s = "settled" => paid[q] = payouts[q].amount_sats,
         paid' = paid,
         raffle' = raffle \/ (raffle.status = "PAYOUT_PENDING" /\ raffle' = RaffleRow("PAID_OUT"))
  PROVE  /\ DrawInv' /\ PaidInv'
         /\ \A v \in Workers :
              /\ pc'[v] = pc[v] /\ claimed'[v] = claimed[v] /\ remaining'[v] = remaining[v]
              /\ pc[v] = "commit" => claimed[v] # q
              => WorkerOK(v)'
<1>1. /\ payouts'[q] = PayoutRow(s, payouts[q].amount_sats, u)
      /\ \A p \in Recipients \ {q} : payouts'[p] = payouts[p]
  BY DEF Inv, TypeOK
<1>2. \A p \in Recipients : /\ payouts'[p].amount_sats = payouts[p].amount_sats
                            /\ payouts'[p].status = "absent" <=> payouts[p].status = "absent"
                            /\ payouts[p].status = "settled" => payouts'[p].status = "settled"
                            /\ payouts'[p].status = "settled" =>
                                 payouts[p].status = "settled" \/ (p = q /\ s = "settled")
  BY <1>1 DEF PayoutRow
<1>3. \A p \in Recipients : Allocated(p)' = Allocated(p)
  BY DEF Allocated, RaffleRow
<1>4. raffle.status # "RANDOMNESS_PENDING" /\ raffle'.status # "RANDOMNESS_PENDING"
  BY DEF Inv, DrawInv, RaffleRow
<1>5. DrawInv'
  BY <1>2, <1>3, <1>4 DEF Inv, DrawInv
<1>6. PaidInv'
  BY <1>2 DEF Inv, PaidInv
<1>7. ASSUME NEW v \in Workers,
             pc'[v] = pc[v] /\ claimed'[v] = claimed[v] /\ remaining'[v] = remaining[v],
             pc[v] = "commit" => claimed[v] # q
      PROVE  WorkerOK(v)'
  <2>1. WorkerOK(v)
    BY DEF Inv, WorkerInv, WorkerOK
  <2>2. /\ pc'[v] \in {"pay", "settle", "commit", "fail"} =>
             claimed'[v] \in Recipients /\ payouts'[claimed'[v]].status # "absent"
        /\ pc'[v] \in {"settle", "commit"} =>
             paid'[claimed'[v]] = payouts'[claimed'[v]].amount_sats
    BY <1>2, <1>7, <2>1 DEF WorkerOK
  <2>3. CASE pc[v] = "commit"
    <3>1. claimed[v] \in Recipients \ {q} /\ OwnsPayout(v)
      BY <1>7, <2>1, <2>3 DEF WorkerOK
    <3>2. OwnsPayout(v)'
      BY <1>1, <1>7, <3>1 DEF OwnsPayout
    <3>3. Unsettled(claimed[v])' \subseteq Unsettled(claimed[v])
      BY <1>2, <1>7 DEF Unsettled
    <3> QED
      BY <1>7, <2>1, <2>2, <2>3, <3>2, <3>3 DEF WorkerOK
  <2>4. CASE pc[v] # "commit"
    BY <1>7, <2>2, <2>4 DEF WorkerOK
  <2> QED
    BY <2>3, <2>4
<1> QED
  BY <1>5, <1>6, <1>7

\* A claim takes over no payout whose settlement is about to commit.
LEMMA ClaimStepInv ==
  ASSUME Inv, NEW w \in Workers, claim_payout(w)
  PROVE  DrawInv' /\ PaidInv' /\ WorkerInv'
<1>1. /\ raffle' = raffle /\ paid' = paid /\ remaining' = remaining /\ pc[w] = "claim"
      /\ \A v \in Workers \ {w} : pc'[v] = pc[v] /\ claimed'[v] = claimed[v]
  BY DEF claim_payout, Goto, Inv, TypeOK
<1>2. CASE Candidates = {}
  <2>1. payouts' = payouts /\ claimed' = claimed /\ pc'[w] = "ok"
    BY <1>2 DEF claim_payout, Goto, Inv, TypeOK
  <2> QED
    BY <1>1, <2>1, QuietInv DEF QuietStep
<1>3. ASSUME NEW q \in Candidates, pc' = [pc EXCEPT ![w] = "pay"],
             payouts' = [payouts EXCEPT ![q] = PayoutRow("processing", payouts[q].amount_sats, w)],
             claimed' = [claimed EXCEPT ![w] = q]
      PROVE  DrawInv' /\ PaidInv' /\ WorkerInv'
  <2>1. /\ q \in Recipients /\ payouts[q].status \in {"pending", "failed", "processing"}
        /\ payouts[q].status = "processing" => q \notin Locked
    BY DEF Candidates, Expired, Retryable
  <2>2. \A v \in Workers : pc[v] = "commit" => claimed[v] # q
    BY <2>1 DEF Inv, WorkerInv, OwnsPayout, Locked
  <2>3. /\ DrawInv' /\ PaidInv'
        /\ \A v \in Workers \ {w} : WorkerOK(v)'
    BY <1>1, <1>3, <2>1, <2>2, RewriteInv
  <2>4. pc'[w] = "pay" /\ claimed'[w] = q /\ payouts'[q].status = "processing"
    BY <1>3, <2>1 DEF Inv, TypeOK, PayoutRow
  <2>5. WorkerOK(w)'
    BY <2>1, <2>4 DEF WorkerOK
  <2> QED
    BY <2>3, <2>5 DEF WorkerInv, WorkerOK
<1> QED
  BY <1>2, <1>3 DEF claim_payout, Goto

\* The failure of a payout is recorded only by the owner of its lease.
LEMMA FailStepInv ==
  ASSUME Inv, NEW w \in Workers, fail_payout(w)
  PROVE  DrawInv' /\ PaidInv' /\ WorkerInv'
<1> DEFINE q == claimed[w]
<1>1. /\ raffle' = raffle /\ paid' = paid /\ remaining' = remaining /\ claimed' = claimed
      /\ pc[w] = "fail" /\ pc'[w] = "err" /\ q \in Recipients
      /\ \A v \in Workers \ {w} : pc'[v] = pc[v]
  BY DEF fail_payout, Goto, Inv, TypeOK, WorkerInv
<1>2. CASE OwnsPayout(w)
  <2>1. payouts' = [payouts EXCEPT ![q] = PayoutRow("failed", payouts[q].amount_sats, NoWorker)]
    BY <1>2 DEF fail_payout, FailsPayout
  <2>2. payouts[q].status = "processing"
    BY <1>2 DEF OwnsPayout
  <2>3. \A v \in Workers : pc[v] = "commit" => claimed[v] # q
    BY <1>1, <1>2 DEF Inv, WorkerInv, OwnsPayout
  <2>4. /\ DrawInv' /\ PaidInv'
        /\ \A v \in Workers \ {w} : WorkerOK(v)'
    BY <1>1, <2>1, <2>2, <2>3, RewriteInv
  <2>5. WorkerOK(w)'
    BY <1>1 DEF WorkerOK
  <2> QED
    BY <2>4, <2>5 DEF WorkerInv, WorkerOK
<1>3. CASE ~OwnsPayout(w)
  <2>1. payouts' = payouts
    BY <1>3 DEF fail_payout, FailsPayout
  <2> QED
    BY <1>1, <2>1, QuietInv DEF QuietStep
<1> QED
  BY <1>2, <1>3

\* A settlement commits a payout that was paid, and pays the raffle out only
\* when the others are settled.
LEMMA CommitStepInv ==
  ASSUME Inv, NEW w \in Workers, settle_payout_commit(w)
  PROVE  DrawInv' /\ PaidInv' /\ WorkerInv' /\ OutcomeInv'
<1> DEFINE q == claimed[w]
<1>1. /\ paid' = paid /\ proof' = proof /\ pc[w] = "commit" /\ pc'[w] = "claim"
      /\ \A v \in Workers \ {w} :
           pc'[v] = pc[v] /\ claimed'[v] = claimed[v] /\ remaining'[v] = remaining[v]
  BY DEF settle_payout_commit, Goto, Inv, TypeOK
<1>2. /\ q \in Recipients /\ OwnsPayout(w) /\ paid[q] = payouts[q].amount_sats
      /\ remaining[w] = 0 => Unsettled(q) = {}
  BY <1>1 DEF Inv, WorkerInv
<1>3. payouts[q].status = "processing" /\ payouts[q].lease_owner = w
  BY <1>2 DEF OwnsPayout
<1>4. raffle.status # "PAID_OUT" /\ raffle.status # "RANDOMNESS_PENDING"
  BY <1>2, <1>3 DEF Inv, OutcomeInv, DrawInv
<1>5. payouts' = [payouts EXCEPT ![q] = PayoutRow("settled", payouts[q].amount_sats, NoWorker)]
  BY DEF settle_payout_commit
<1>6. raffle.status = "PAYOUT_PENDING"
  BY <1>4 DEF Inv, TypeOK, RaffleStatus
<1>7. \/ raffle' = raffle
      \/ remaining[w] = 0 /\ raffle' = RaffleRow("PAID_OUT")
  BY <1>6 DEF settle_payout_commit
<1>8. \A v \in Workers \ {w} : pc[v] = "commit" => claimed[v] # q
  BY <1>3 DEF Inv, WorkerInv, OwnsPayout
<1>9. /\ DrawInv' /\ PaidInv'
      /\ \A v \in Workers \ {w} : WorkerOK(v)'
  BY <1>1, <1>2, <1>3, <1>5, <1>6, <1>7, <1>8, RewriteInv
<1>10. WorkerOK(w)'
  BY <1>1 DEF WorkerOK
<1>11. OutcomeInv'
  <2>1. proof' = "absent"
    BY <1>1, <1>4 DEF Inv, OutcomeInv
  <2>2. CASE raffle' = raffle
    BY <1>4, <2>1, <2>2 DEF OutcomeInv
  <2>3. CASE remaining[w] = 0 /\ raffle' = RaffleRow("PAID_OUT")
    <3>1. \A p \in Recipients \ {q} : payouts[p].status \in {"absent", "settled"}
      BY <1>2, <2>3 DEF Unsettled
    <3>2. \A p \in Recipients : payouts'[p].status \in {"absent", "settled"}
      BY <1>5, <3>1 DEF PayoutRow, Inv, TypeOK
    <3> QED
      BY <2>1, <3>2 DEF OutcomeInv
  <2> QED
    BY <1>7, <2>2, <2>3
<1> QED
  BY <1>9, <1>10, <1>11 DEF WorkerInv, WorkerOK

\* PAID_OUT and the proof survive every other step.
LEMMA OutcomeStep ==
  ASSUME Inv, Next, \A w \in Workers : ~settle_payout_commit(w)
  PROVE  OutcomeInv'
<1>1. CASE raffle.status = "PAID_OUT"
  <2>1. \A p \in Recipients : payouts[p].status \in {"absent", "settled"}
    BY <1>1 DEF Inv, OutcomeInv
  <2>2. Candidates = {}
    BY <2>1 DEF Candidates, Expired, Retryable
  <2>3. \A w \in Workers : pc[w] = "fail" => ~OwnsPayout(w)
    BY <2>1 DEF Inv, WorkerInv, OwnsPayout
  <2>4. \A p \in Recipients : ~LeaseExpires(p)
    BY <2>1 DEF LeaseExpires
  <2>5. raffle' = raffle /\ payouts' = payouts
    BY <1>1, <2>2, <2>3, <2>4
    DEF Next, HandlerStep, FaultStep, create_draw_and_payouts, claim_payout, pay_invoice,
        fail_payout, FailsPayout, Goto, settle_payout_count, generate_terminal_proof,
        publish_immutable, record_proof_publication, succeed_job, fail_or_retry_job,
        pay_invoice_error, publish_immutable_error, HandlerError, WorkerCrash, Release,
        claim_job, retry_operator_job
  <2> QED
    BY <1>1, <2>1, <2>5 DEF OutcomeInv
<1>2. CASE raffle.status # "PAID_OUT"
  <2>1. raffle'.status # "PAID_OUT"
    BY <1>2
    DEF Next, HandlerStep, FaultStep, create_draw_and_payouts, claim_payout, pay_invoice,
        fail_payout, settle_payout_count, generate_terminal_proof, RaffleRow,
        publish_immutable, record_proof_publication, succeed_job, fail_or_retry_job,
        pay_invoice_error, publish_immutable_error, HandlerError, WorkerCrash, Release,
        claim_job, retry_operator_job, LeaseExpires
  <2>2. proof = "absent"
    BY <1>2 DEF Inv, OutcomeInv
  <2>3. \A w \in Workers : ~record_proof_publication(w)
    BY <2>2 DEF Inv, ProofInv, record_proof_publication, Goto
  <2>4. proof' = proof
    BY <1>2, <2>3
    DEF Next, HandlerStep, FaultStep, create_draw_and_payouts, claim_payout, pay_invoice,
        fail_payout, settle_payout_count, generate_terminal_proof, MayGenerate,
        publish_immutable, succeed_job, fail_or_retry_job,
        pay_invoice_error, publish_immutable_error, HandlerError, WorkerCrash, Release,
        claim_job, retry_operator_job, LeaseExpires
  <2> QED
    BY <2>1, <2>2, <2>4 DEF OutcomeInv
<1> QED
  BY <1>1, <1>2

\* Only generate_terminal_proof leads to the publication of a proof, and no step
\* removes one.
LEMMA ProofStep ==
  ASSUME Inv, Next
  PROVE  ProofInv'
<1>1. proof # "absent" => proof' # "absent"
  BY DEF Next, HandlerStep, FaultStep, create_draw_and_payouts, claim_payout, pay_invoice,
         fail_payout, settle_payout_count, settle_payout_commit, generate_terminal_proof,
         publish_immutable, record_proof_publication, succeed_job, fail_or_retry_job,
         pay_invoice_error, publish_immutable_error, HandlerError, WorkerCrash, Release,
         claim_job, retry_operator_job, LeaseExpires
<1>2. ASSUME NEW v \in Workers, pc'[v] \in {"publish", "record"}
      PROVE  pc[v] \in {"publish", "record"} \/ proof' = "generated"
  <2>1. \A j \in SettlementJobs : FirstStep(j) \notin {"publish", "record"}
    BY DEF FirstStep, SettlementJobs
  <2> QED
    BY <1>2, <2>1
    DEF Inv, TypeOK, Goto, Next, HandlerStep, FaultStep, create_draw_and_payouts, claim_payout,
        pay_invoice, fail_payout, settle_payout_count, settle_payout_commit,
        generate_terminal_proof, publish_immutable, record_proof_publication, succeed_job,
        fail_or_retry_job, pay_invoice_error, publish_immutable_error, HandlerError,
        WorkerCrash, Release, claim_job, retry_operator_job, LeaseExpires, local
<1> QED
  BY <1>1, <1>2 DEF Inv, ProofInv

\* The invariant is inductive.
LEMMA NextInv == Inv /\ [Next]_vars => Inv'
<1> SUFFICES ASSUME Inv, [Next]_vars PROVE Inv'
  OBVIOUS
<1>1. CASE UNCHANGED vars
  BY <1>1
  DEF vars, local, Inv, TypeOK, JobTypeOK, DrawInv, PaidInv, WorkerInv, OutcomeInv, ProofInv,
      Allocated, OwnsPayout, Unsettled
<1>2. CASE Next
  <2>1. TypeOK' /\ ProofInv'
    BY <1>2, TypeStep, ProofStep
  <2>2. DrawInv' /\ PaidInv' /\ WorkerInv'
    BY <1>2, QuietSteps, QuietInv, PayInv, ExpireInv, DrawStepInv, ClaimStepInv, FailStepInv,
       CommitStepInv
    DEF PayoutStep, Inv
  <2>3. OutcomeInv'
    BY <1>2, OutcomeStep, CommitStepInv
  <2> QED
    BY <2>1, <2>2, <2>3 DEF Inv
<1> QED
  BY <1>1, <1>2

-----------------------------------------------------------------------------
\* Every reachable state satisfies the inductive invariant.
THEOREM Invariance == Spec => []Inv
BY InitInv, NextInv, PTL DEF Spec

\* Every variable of the settlement stays in its type: in particular a COUNT of
\* the payouts that remain never exceeds two.
THEOREM TypeCorrect == Spec => []TypeOK
<1>1. Inv => TypeOK
  BY DEF Inv
<1> QED
  BY <1>1, Invariance, PTL

\* The transfers made so far.
Total == paid["winner"] + paid["organizer"] + paid["platform"]

LEMMA PaidOutFollows == Inv => PaidOutDistributesPool
<1> SUFFICES ASSUME Inv, raffle.status = "PAID_OUT"
             PROVE  paid["winner"] + paid["organizer"] + paid["platform"]
                      = raffle.total_pool_sats
  BY DEF PaidOutDistributesPool
<1>1. raffle.split \in PayoutSplits /\ raffle.total_pool_sats \in Nat
  BY DEF Inv, TypeOK
<1>2. \A p \in Recipients : paid[p] = Allocated(p)
  BY DEF Inv, DrawInv, PaidInv, OutcomeInv
<1>3. /\ paid["winner"] = allocate(raffle.split, raffle.total_pool_sats).winner
      /\ paid["organizer"] = allocate(raffle.split, raffle.total_pool_sats).organizer
      /\ paid["platform"] = allocate(raffle.split, raffle.total_pool_sats).platform
  BY <1>2 DEF Allocated, Recipients
<1> QED
  BY <1>1, <1>3, AllocateTotal

\* A raffle is PAID_OUT only when the provider transferred its whole pool, for
\* any number of workers that settle payouts concurrently, any pool and any
\* valid split.
THEOREM WholePoolPaid == Spec => []PaidOutDistributesPool
BY PaidOutFollows, Invariance, PTL

\* The transfers never exceed the pool.
LEMMA WithinPool == Inv => Total \in Nat /\ Total <= raffle.total_pool_sats
<1> SUFFICES ASSUME Inv PROVE Total \in Nat /\ Total <= raffle.total_pool_sats
  OBVIOUS
<1>1. raffle.split \in PayoutSplits /\ raffle.total_pool_sats \in Nat
  BY DEF Inv, TypeOK
<1>2. \A p \in Recipients : Allocated(p) \in Nat
  BY AllocatedNat DEF Inv
<1>3. \A p \in Recipients : /\ paid[p] \in {0, Allocated(p)}
                            /\ paid[p] \in {0, payouts[p].amount_sats}
  BY DEF Inv, DrawInv, PaidInv
<1>4. \A p \in Recipients : paid[p] \in Nat /\ paid[p] <= Allocated(p)
  BY <1>2, <1>3
<1>5. Allocated("winner") + Allocated("organizer") + Allocated("platform")
        = raffle.total_pool_sats
  BY <1>1, AllocateTotal DEF Allocated
<1>6. "winner" \in Recipients /\ "organizer" \in Recipients /\ "platform" \in Recipients
  BY DEF Recipients
<1> QED
  BY <1>1, <1>2, <1>4, <1>5, <1>6 DEF Total

\* Only the three transactions of the draw and the last settlement move the
\* status, and only a call to the provider transfers anything.
LEMMA LifecycleFrame ==
  ASSUME Next
  PROVE  \/ UNCHANGED <<raffle, paid>>
         \/ \E w \in Workers : \/ create_draw_and_payouts(w) \/ settle_payout_commit(w)
                               \/ pay_invoice(w) \/ pay_invoice_error(w)
BY DEF Next, HandlerStep, FaultStep, claim_payout, fail_payout, settle_payout_count,
       generate_terminal_proof, publish_immutable, publish_immutable_error,
       record_proof_publication, succeed_job, fail_or_retry_job, HandlerError, WorkerCrash,
       Release, claim_job, retry_operator_job, LeaseExpires

\* A frozen raffle implements the second half of the lifecycle, for any number
\* of workers, any pool and any valid split.
THEOREM Refinement == Spec => ImplementsLifecycle
<1>1. Init => Lifecycle!Frozen
  <2> SUFFICES ASSUME Init PROVE Lifecycle!Frozen
    OBVIOUS
  <2>1. raffle.status = "RANDOMNESS_PENDING" /\ raffle.total_pool_sats \in Nat \ {0}
    BY SettlementAssumption DEF Init
  <2>2. paid["winner"] = 0 /\ paid["organizer"] = 0 /\ paid["platform"] = 0
    BY DEF Init, Recipients
  <2> QED
    BY <2>1, <2>2 DEF Lifecycle!Frozen
<1>2. Inv' => PaidOutDistributesPool'
  BY PaidOutFollows, PTL
<1>3. Inv' => (Total \in Nat /\ Total <= raffle.total_pool_sats)'
  BY WithinPool, PTL
<1>4. ASSUME Inv, Inv', [Next]_vars
      PROVE  [Lifecycle!Next]_(Lifecycle!vars)
  <2>1. CASE UNCHANGED <<raffle, paid>>
    BY <2>1 DEF Lifecycle!vars
  <2>2. ASSUME NEW w \in Workers, create_draw_and_payouts(w)
        PROVE  [Lifecycle!Next]_(Lifecycle!vars)
    <3>1. UNCHANGED paid
      BY <2>2 DEF create_draw_and_payouts
    <3>2. CASE raffle' = raffle
      BY <3>1, <3>2 DEF Lifecycle!vars
    <3>3. CASE raffle' # raffle
      <4>1. raffle.status = "RANDOMNESS_PENDING" /\ raffle' = RaffleRow("PAYOUT_PENDING")
        BY <2>2, <3>3 DEF create_draw_and_payouts
      <4>2. raffle'.status = "PAYOUT_PENDING" /\ raffle'.total_pool_sats = raffle.total_pool_sats
        BY <4>1 DEF RaffleRow
      <4>3. Lifecycle!Draw
        BY <3>1, <4>1, <4>2 DEF Lifecycle!Draw, Lifecycle!Move
      <4> QED
        BY <4>3 DEF Lifecycle!Next
    <3> QED
      BY <3>2, <3>3
  <2>3. ASSUME NEW w \in Workers, settle_payout_commit(w)
        PROVE  [Lifecycle!Next]_(Lifecycle!vars)
    <3>1. UNCHANGED paid
      BY <2>3 DEF settle_payout_commit
    <3>2. CASE raffle' = raffle
      BY <3>1, <3>2 DEF Lifecycle!vars
    <3>3. CASE raffle' # raffle
      <4>1. raffle.status = "PAYOUT_PENDING" /\ raffle' = RaffleRow("PAID_OUT")
        BY <2>3, <3>3 DEF settle_payout_commit
      <4>2. PaidOutDistributesPool'
        BY <1>4, <1>2
      <4>3. paid["winner"] + paid["organizer"] + paid["platform"] = raffle.total_pool_sats
        BY <3>1, <4>1, <4>2 DEF PaidOutDistributesPool, RaffleRow
      <4>4. raffle'.status = "PAID_OUT" /\ raffle'.total_pool_sats = raffle.total_pool_sats
        BY <4>1 DEF RaffleRow
      <4>5. Lifecycle!Finish
        BY <3>1, <4>1, <4>3, <4>4 DEF Lifecycle!Finish, Lifecycle!Move
      <4> QED
        BY <4>5 DEF Lifecycle!Next
    <3> QED
      BY <3>2, <3>3
  <2>4. ASSUME NEW w \in Workers, pay_invoice(w) \/ pay_invoice_error(w)
        PROVE  [Lifecycle!Next]_(Lifecycle!vars)
    <3>1. raffle' = raffle /\ payouts' = payouts /\ (UNCHANGED paid \/ Transfer(w))
      BY <2>4 DEF pay_invoice, pay_invoice_error
    <3>2. CASE UNCHANGED paid
      BY <3>1, <3>2 DEF Lifecycle!vars
    <3>3. CASE Transfer(w) /\ paid' # paid
      <4> DEFINE p == claimed[w]
      <4>1. p \in Recipients /\ payouts[p].status # "absent"
        BY <1>4, <2>4 DEF pay_invoice, pay_invoice_error, Goto, Inv, WorkerInv
      <4>2. raffle.status # "RANDOMNESS_PENDING"
        BY <1>4, <4>1 DEF Inv, DrawInv
      <4>3. paid \in [Recipients -> Nat] /\ paid' = [paid EXCEPT ![p] = payouts[p].amount_sats]
        BY <1>4, <3>3 DEF Transfer, Inv, TypeOK
      <4>4. /\ paid[p] = 0 /\ paid'[p] > 0 /\ paid'[p] \in Nat
            /\ \A q \in Recipients \ {p} : paid'[q] = paid[q]
        <5>1. paid[p] \in {0, payouts[p].amount_sats} /\ payouts[p].amount_sats \in Nat
          BY <1>4, <4>1 DEF Inv, PaidInv, TypeOK
        <5>2. paid[p] # payouts[p].amount_sats
          BY <3>3, <4>1, <4>3
        <5> QED
          BY <4>1, <4>3, <5>1, <5>2
      <4>5. Total' > Total /\ Total' <= raffle.total_pool_sats
        <5>1. Total' <= raffle'.total_pool_sats
          BY <1>4, <1>3
        <5>2. \A q \in Recipients : paid[q] \in Nat /\ paid'[q] \in Nat /\ paid[q] <= paid'[q]
          BY <4>3, <4>4, <1>4 DEF Inv, TypeOK
        <5>3. Total' > Total
          BY <4>1, <4>4, <5>2 DEF Total, Recipients
        <5> QED
          BY <3>1, <5>1, <5>3
      <4>6. raffle.status \in {"PAYOUT_PENDING", "PAID_OUT"}
        BY <1>4, <4>2 DEF Inv, TypeOK, RaffleStatus
      <4>7. raffle.status # "PAID_OUT"
        <5>1. ASSUME raffle.status = "PAID_OUT" PROVE FALSE
          <6>1. Total = raffle.total_pool_sats
            BY <1>4, <5>1, PaidOutFollows DEF PaidOutDistributesPool, Total
          <6>2. Total \in Nat /\ Total' \in Nat /\ raffle.total_pool_sats \in Nat
            BY <1>4, <1>3, WithinPool DEF Inv, TypeOK
          <6> QED
            BY <4>5, <6>1, <6>2
        <5> QED
          BY <5>1
      <4> QED
        BY <3>1, <4>5, <4>6, <4>7 DEF Total, Lifecycle!Next, Lifecycle!Pay
    <3> QED
      BY <3>1, <3>2, <3>3
  <2>5. CASE UNCHANGED vars
    BY <2>5 DEF vars, Lifecycle!vars
  <2> QED
    BY <1>4, <2>1, <2>2, <2>3, <2>4, <2>5, LifecycleFrame
<1> QED
  BY <1>1, <1>4, Invariance, PTL DEF Spec, ImplementsLifecycle, Lifecycle!FrozenSpec

\* The terminal proof exists only when every payout of the draw is settled.
THEOREM ProofIsTrue == Spec => []ProofAfterSettlement
<1>1. Inv => ProofAfterSettlement
  <2> SUFFICES ASSUME Inv, proof # "absent", NEW p \in Recipients
               PROVE  payouts[p].status = (IF Allocated(p) > 0 THEN "settled" ELSE "absent")
    BY DEF ProofAfterSettlement
  <2>1. Allocated(p) \in Nat
    BY AllocatedNat DEF Inv
  <2>2. /\ payouts[p].status \in {"absent", "settled"}
        /\ payouts[p].status = "absent" <=> Allocated(p) = 0
    BY DEF Inv, DrawInv, OutcomeInv
  <2> QED
    BY <2>1, <2>2
<1> QED
  BY <1>1, Invariance, PTL

\* No step reopens a settled payout.
THEOREM SettledForGood == Spec => SettledIsFinal
<1>1. ASSUME Inv, Next, NEW p \in Recipients, payouts[p].status = "settled"
      PROVE  payouts'[p].status = "settled"
  <2>1. ASSUME NEW w \in Workers, create_draw_and_payouts(w) PROVE payouts' = payouts
    BY <1>1, <2>1 DEF create_draw_and_payouts, Inv, DrawInv
  <2>2. ASSUME NEW w \in Workers, claim_payout(w) PROVE payouts'[p] = payouts[p]
    BY <1>1, <2>2 DEF claim_payout, Candidates, Expired, Retryable, Inv, TypeOK
  <2>3. ASSUME NEW w \in Workers, fail_payout(w) PROVE payouts'[p] = payouts[p]
    BY <1>1, <2>3 DEF fail_payout, FailsPayout, OwnsPayout, Inv, TypeOK
  <2>4. ASSUME NEW w \in Workers, settle_payout_commit(w)
        PROVE  payouts'[p].status = "settled"
    BY <1>1, <2>4 DEF settle_payout_commit, PayoutRow, Inv, TypeOK
  <2>5. ASSUME NEW q \in Recipients, LeaseExpires(q)
        PROVE  payouts'[p].status = "settled"
    BY <1>1, <2>5 DEF LeaseExpires, Inv, TypeOK
  <2> QED
    BY <1>1, <2>1, <2>2, <2>3, <2>4, <2>5
    DEF Next, HandlerStep, FaultStep, pay_invoice, settle_payout_count, generate_terminal_proof,
        publish_immutable, record_proof_publication, succeed_job, fail_or_retry_job,
        pay_invoice_error, publish_immutable_error, HandlerError, WorkerCrash, Release,
        claim_job, retry_operator_job
<1>2. Inv /\ [Next]_vars =>
        [\A p \in Recipients : payouts[p].status = "settled" => payouts'[p].status = "settled"]_vars
  BY <1>1
<1> QED
  BY <1>2, Invariance, PTL DEF Spec, SettledIsFinal
-----------------------------------------------------------------------------
(* The jobs that take the raffle on. *)

\* A drawn raffle stays drawn and a stored proof stays stored.
LEMMA NothingUndone ==
  ASSUME Next
  PROVE  /\ raffle.status # "RANDOMNESS_PENDING" => raffle'.status # "RANDOMNESS_PENDING"
         /\ proof # "absent" => proof' # "absent"
BY DEF Next, HandlerStep, FaultStep, create_draw_and_payouts, claim_payout, pay_invoice,
       fail_payout, settle_payout_count, settle_payout_commit, generate_terminal_proof,
       publish_immutable, record_proof_publication, succeed_job, fail_or_retry_job,
       pay_invoice_error, publish_immutable_error, HandlerError, WorkerCrash, Release,
       claim_job, retry_operator_job, LeaseExpires, RaffleRow

\* What a step does to one worker: it goes on within its handler, ends, fails or
\* starts a job.
PayoutSteps == {"claim", "pay", "settle", "commit", "fail"}

WorkerMove(v) ==
  \/ pc'[v] \in {"idle", "err"}
  \/ /\ held'[v] = held[v]
     /\ \/ pc'[v] = pc[v]
        \/ pc[v] = "draw" /\ pc'[v] = "ok" /\ raffle'.status = "PAYOUT_PENDING"
        \/ pc[v] \in PayoutSteps /\ pc'[v] \in PayoutSteps \cup {"ok"}
        \/ pc[v] \in {"generate", "publish"} /\ pc'[v] \in {"publish", "record"}
        \/ pc[v] = "record" /\ pc'[v] = "ok" /\ proof' = "published"
  \/ held'[v] \in SettlementJobs /\ pc'[v] = FirstStep(held'[v])

LEMMA WorkerMoves ==
  ASSUME TypeOK, Next, NEW v \in Workers
  PROVE  WorkerMove(v)
<1>0. pc \in [Workers -> WorkerStep] /\ held \in [Workers -> SettlementJobs \cup {NoJob}]
  BY DEF TypeOK, JobTypeOK
<1>1. ASSUME NEW w \in Workers, create_draw_and_payouts(w) PROVE WorkerMove(v)
  BY <1>0, <1>1 DEF create_draw_and_payouts, Goto, RaffleRow, WorkerMove
<1>2. ASSUME NEW w \in Workers,
             claim_payout(w) \/ pay_invoice(w) \/ pay_invoice_error(w) \/ fail_payout(w)
               \/ settle_payout_count(w) \/ settle_payout_commit(w)
      PROVE  WorkerMove(v)
  BY <1>0, <1>2 DEF claim_payout, pay_invoice, pay_invoice_error, fail_payout,
                    settle_payout_count, settle_payout_commit, Goto, PayoutSteps, WorkerMove
<1>3. ASSUME NEW w \in Workers,
             generate_terminal_proof(w) \/ publish_immutable(w) \/ record_proof_publication(w)
               \/ publish_immutable_error(w)
      PROVE  WorkerMove(v)
  BY <1>0, <1>3 DEF generate_terminal_proof, publish_immutable, record_proof_publication,
                    publish_immutable_error, Goto, WorkerMove
<1>4. ASSUME NEW w \in Workers, succeed_job(w) \/ fail_or_retry_job(w) \/ WorkerCrash(w)
      PROVE  WorkerMove(v)
  BY <1>0, <1>4 DEF succeed_job, fail_or_retry_job, WorkerCrash, succeed, fail_or_retry, Finish,
                    Abandon, Goto, WorkerMove
<1>5. ASSUME NEW w \in Workers, HandlerError(w) PROVE WorkerMove(v)
  BY <1>0, <1>5 DEF HandlerError, WorkerMove
<1>6. ASSUME NEW w \in Workers, NEW j \in SettlementJobs, claim_job(w, j) PROVE WorkerMove(v)
  BY <1>0, <1>6 DEF claim_job, claim, WorkerMove
<1>7. CASE (\E p \in Recipients : LeaseExpires(p)) \/ \E j \in SettlementJobs : retry_operator_job(j)
  BY <1>7 DEF LeaseExpires, local, retry_operator_job, retry_dead_job, WorkerMove
<1> QED
  BY <1>1, <1>2, <1>3, <1>4, <1>5, <1>6, <1>7 DEF Next, HandlerStep, FaultStep

LEMMA HeldStep ==
  ASSUME TypeOK, HeldInv, Next
  PROVE  HeldInv'
<1> SUFFICES ASSUME NEW v \in Workers
             PROVE  /\ pc'[v] = "draw" => held'[v] = "raffle.draw"
                    /\ pc'[v] \in PayoutSteps => held'[v] = "payout.execute"
                    /\ pc'[v] \in {"generate", "publish", "record"} => held'[v] = "proof.generate"
                    /\ pc'[v] = "ok" /\ held'[v] = "raffle.draw" =>
                         raffle'.status # "RANDOMNESS_PENDING"
                    /\ pc'[v] = "ok" /\ held'[v] = "proof.generate" => proof' # "absent"
  BY DEF HeldInv, PayoutSteps
<1>1. /\ pc[v] = "draw" => held[v] = "raffle.draw"
      /\ pc[v] \in PayoutSteps => held[v] = "payout.execute"
      /\ pc[v] \in {"generate", "publish", "record"} => held[v] = "proof.generate"
      /\ pc[v] = "ok" /\ held[v] = "raffle.draw" => raffle.status # "RANDOMNESS_PENDING"
      /\ pc[v] = "ok" /\ held[v] = "proof.generate" => proof # "absent"
  BY DEF HeldInv, PayoutSteps
<1>2. WorkerMove(v)
  BY WorkerMoves
<1>3. CASE held'[v] \in SettlementJobs /\ pc'[v] = FirstStep(held'[v])
  BY <1>3 DEF FirstStep, SettlementJobs, PayoutSteps
<1>4. CASE held'[v] = held[v] /\ pc'[v] = pc[v]
  BY <1>1, <1>4, NothingUndone
<1> QED
  BY <1>1, <1>2, <1>3, <1>4 DEF WorkerMove, PayoutSteps

\* What a step does to the jobs table, and to the status that the jobs go with.
TableMove ==
  \/ UNCHANGED jobs /\ raffle'.status = raffle.status
  \/ jobs' = Inserted({"payout.execute"}) /\ raffle'.status = "PAYOUT_PENDING"
  \/ jobs' = Inserted({"proof.generate"}) /\ raffle'.status \in {raffle.status, "PAID_OUT"}
  \/ /\ raffle'.status = raffle.status
     /\ \E j \in SettlementJobs, s \in {"queued", "running", "dead"}, w \in Workers \cup {NoWorker} :
          /\ jobs' = [jobs EXCEPT ![j] = JobRow(s, w)]
          /\ jobs[j].status # "absent"
  \/ /\ raffle'.status = raffle.status
     /\ \E w \in Workers : /\ pc[w] = "ok" /\ held[w] \in SettlementJobs
                           /\ jobs[held[w]].status = "running"
                           /\ jobs' = [jobs EXCEPT ![held[w]] = JobRow("succeeded", NoWorker)]

LEMMA TableMoves ==
  ASSUME TypeOK, Next
  PROVE  TableMove
<1>0. /\ jobs \in [SettlementJobs -> [status : JobStatus, lease_owner : Workers \cup {NoWorker}]]
      /\ held \in [Workers -> SettlementJobs \cup {NoJob}]
  BY DEF TypeOK, JobTypeOK
<1>1. ASSUME NEW w \in Workers, create_draw_and_payouts(w) PROVE TableMove
  BY <1>1 DEF create_draw_and_payouts, RaffleRow, TableMove
<1>2. ASSUME NEW w \in Workers, settle_payout_commit(w) PROVE TableMove
  BY <1>2 DEF settle_payout_commit, RaffleRow, TableMove
<1>3. ASSUME NEW w \in Workers, NEW s \in {"queued", "dead"}, Finish(w, s), UNCHANGED raffle
      PROVE  TableMove
  <2>1. held[w] \in SettlementJobs
    BY <1>0, <1>3 DEF Finish
  <2>2. OwnsLease(w) => jobs[held[w]].status # "absent"
    BY DEF OwnsLease, JobRow
  <2> QED
    BY <1>3, <2>1, <2>2 DEF Finish, TableMove
<1>4. ASSUME NEW w \in Workers, succeed_job(w) PROVE TableMove
  <2>1. held[w] \in SettlementJobs /\ pc[w] = "ok" /\ UNCHANGED raffle
    BY <1>0, <1>4 DEF succeed_job, succeed, Finish, Goto, Release
  <2>2. OwnsLease(w) => jobs[held[w]].status = "running"
    BY DEF OwnsLease, JobRow
  <2> QED
    BY <1>4, <2>1, <2>2 DEF succeed_job, succeed, Finish, TableMove
<1>5. ASSUME NEW w \in Workers, fail_or_retry_job(w) PROVE TableMove
  BY <1>3, <1>5 DEF fail_or_retry_job, fail_or_retry, Release
<1>6. ASSUME NEW w \in Workers, NEW j \in SettlementJobs, claim_job(w, j) PROVE TableMove
  BY <1>0, <1>6 DEF claim_job, claim, TableMove
<1>7. ASSUME NEW j \in SettlementJobs, retry_operator_job(j) PROVE TableMove
  BY <1>0, <1>7 DEF retry_operator_job, retry_dead_job, TableMove
<1>8. ASSUME UNCHANGED <<jobs, raffle>> PROVE TableMove
  BY <1>8 DEF TableMove
<1>9. ASSUME NEW w \in Workers,
             claim_payout(w) \/ pay_invoice(w) \/ pay_invoice_error(w) \/ fail_payout(w)
               \/ settle_payout_count(w) \/ generate_terminal_proof(w) \/ publish_immutable(w)
               \/ record_proof_publication(w) \/ publish_immutable_error(w)
      PROVE  TableMove
  BY <1>8, <1>9 DEF claim_payout, pay_invoice, pay_invoice_error, fail_payout,
         settle_payout_count, generate_terminal_proof, publish_immutable,
         record_proof_publication, publish_immutable_error
<1>10. ASSUME NEW w \in Workers, HandlerError(w) \/ WorkerCrash(w) PROVE TableMove
  BY <1>8, <1>10 DEF HandlerError, WorkerCrash, Abandon, Release
<1>11. ASSUME NEW p \in Recipients, LeaseExpires(p) PROVE TableMove
  BY <1>8, <1>11 DEF LeaseExpires
<1> QED
  BY <1>1, <1>2, <1>4, <1>5, <1>6, <1>7, <1>9, <1>10, <1>11 DEF Next, HandlerStep, FaultStep

\* The jobs that are still to be done are not ended without their work.
LEMMA ScheduleStep ==
  ASSUME TypeOK, ScheduleInv, Next
  PROVE  ScheduleInv'
<1> DEFINE Open(j) == jobs[j].status \in {"queued", "running", "dead"}
<1>0. /\ jobs \in [SettlementJobs -> [status : JobStatus, lease_owner : Workers \cup {NoWorker}]]
      /\ {"raffle.draw", "payout.execute", "proof.generate"} = SettlementJobs
  BY DEF TypeOK, JobTypeOK, SettlementJobs
<1>1. HeldInv'
  BY HeldStep DEF ScheduleInv
<1>2. /\ raffle.status # "RANDOMNESS_PENDING" => raffle'.status # "RANDOMNESS_PENDING"
      /\ proof # "absent" => proof' # "absent"
  BY NothingUndone
<1>3. /\ jobs["proof.generate"].status = "succeeded" => proof # "absent"
      /\ raffle.status = "RANDOMNESS_PENDING" => Open("raffle.draw")
      /\ raffle.status = "PAYOUT_PENDING" => jobs["payout.execute"].status # "absent"
      /\ raffle.status = "PAID_OUT" /\ proof = "absent" => Open("proof.generate")
  BY DEF ScheduleInv, WorkScheduled
<1> DEFINE Goal == /\ jobs'["proof.generate"].status = "succeeded" => proof' # "absent"
                   /\ raffle'.status = "RANDOMNESS_PENDING" => Open("raffle.draw")'
                   /\ raffle'.status = "PAYOUT_PENDING" => jobs'["payout.execute"].status # "absent"
                   /\ raffle'.status = "PAID_OUT" /\ proof' = "absent" => Open("proof.generate")'
<1>4. ASSUME UNCHANGED jobs, raffle'.status = raffle.status PROVE Goal
  BY <1>2, <1>3, <1>4
<1>5. ASSUME NEW J, J \subseteq SettlementJobs, jobs' = Inserted(J)
      PROVE  \A j \in SettlementJobs :
               /\ jobs[j].status # "absent" => jobs'[j] = jobs[j]
               /\ jobs[j].status = "absent" => jobs'[j].status \in {"absent", "queued"}
               /\ j \in J => jobs'[j].status # "absent"
  BY <1>0, <1>5 DEF Inserted, JobRow
<1>6. ASSUME jobs' = Inserted({"payout.execute"}), raffle'.status = "PAYOUT_PENDING" PROVE Goal
  <2>1. {"payout.execute"} \subseteq SettlementJobs
    BY <1>0
  <2> QED
    BY <1>0, <1>2, <1>3, <1>5, <1>6, <2>1
<1>7. ASSUME jobs' = Inserted({"proof.generate"}), raffle'.status \in {raffle.status, "PAID_OUT"}
      PROVE  Goal
  <2>1. {"proof.generate"} \subseteq SettlementJobs
    BY <1>0
  <2>2. jobs["proof.generate"].status \in JobStatus
    BY <1>0
  <2> QED
    BY <1>0, <1>2, <1>3, <1>5, <1>7, <2>1, <2>2 DEF JobStatus
<1>8. ASSUME raffle'.status = raffle.status,
             NEW j \in SettlementJobs, NEW s \in {"queued", "running", "dead"}, NEW w,
             jobs' = [jobs EXCEPT ![j] = JobRow(s, w)]
      PROVE  Goal
  <2>1. \A k \in SettlementJobs : jobs'[k] = jobs[k] \/ jobs'[k].status = s
    BY <1>0, <1>8 DEF JobRow
  <2> QED
    BY <1>0, <1>2, <1>3, <1>8, <2>1
<1>9. ASSUME raffle'.status = raffle.status,
             NEW w \in Workers, pc[w] = "ok", held[w] \in SettlementJobs,
             jobs' = [jobs EXCEPT ![held[w]] = JobRow("succeeded", NoWorker)]
      PROVE  Goal
  <2>1. /\ jobs'[held[w]].status = "succeeded"
        /\ \A k \in SettlementJobs : k # held[w] => jobs'[k] = jobs[k]
    BY <1>0, <1>9 DEF JobRow
  <2>2. /\ held[w] = "raffle.draw" => raffle.status # "RANDOMNESS_PENDING"
        /\ held[w] = "proof.generate" => proof # "absent"
    BY <1>9 DEF ScheduleInv, HeldInv
  <2> QED
    BY <1>0, <1>2, <1>3, <1>9, <2>1, <2>2
<1>10. Goal
  <2> HIDE DEF Goal
  <2> QED
    BY <1>4, <1>6, <1>7, <1>8, <1>9, TableMoves DEF TableMove
<1> QED
  BY <1>1, <1>10 DEF ScheduleInv, WorkScheduled

\* A raffle never waits without the job that takes it on: the draw and the proof
\* have one that has not succeeded, the payouts have one (run_jobs, with every
\* handler's error, lost lease and crash).
THEOREM WorkIsScheduled == Spec => []WorkScheduled
<1>1. Init => ScheduleInv
  BY DEF Init, ScheduleInv, HeldInv, WorkScheduled, JobRow, SettlementJobs
<1>2. Inv /\ ScheduleInv /\ [Next]_vars => ScheduleInv'
  <2> SUFFICES ASSUME Inv, ScheduleInv, [Next]_vars PROVE ScheduleInv'
    OBVIOUS
  <2>1. CASE Next
    BY <2>1, ScheduleStep DEF Inv
  <2>2. CASE UNCHANGED vars
    BY <2>2 DEF vars, local, ScheduleInv, HeldInv, WorkScheduled
  <2> QED
    BY <2>1, <2>2
<1>3. ScheduleInv => WorkScheduled
  BY DEF ScheduleInv
<1> QED
  BY <1>1, <1>2, <1>3, Invariance, PTL DEF Spec
=============================================================================
