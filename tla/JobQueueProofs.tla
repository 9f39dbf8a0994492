--------------------------- MODULE JobQueueProofs ---------------------------
(***************************************************************************)
(* JobQueue implements JobTable, and its leases are exclusive, for any     *)
(* jobs, workers, lease, back-off and number of attempts.                  *)
(***************************************************************************)
EXTENDS JobQueue, TLAPS

\* A running row has an owner; every row has a positive max_attempts.
RowInv ==
  \A j \in Job :
    /\ queue[j].status = "running" => queue[j].lease_owner \in Worker
    /\ queue[j].status # "absent" => queue[j].max_attempts > 0

\* The claim a worker holds is that of the row while it owns the lease, and
\* has run out once it does not.
ClaimInv ==
  \A w \in Worker : claimed[w].job # NoJob =>
    IF OwnsLease(w)
    THEN /\ claimed[w].attempts = queue[claimed[w].job].attempts
         /\ claimed[w].max_attempts = queue[claimed[w].job].max_attempts
         /\ claimed[w].lease_expires_at = queue[claimed[w].job].lease_expires_at
    ELSE claimed[w].lease_expires_at < now

QueueInv == TypeOK /\ RowInv /\ ClaimInv /\ RetryBudget

\* The empty queue satisfies the invariant.
LEMMA InitQueueInv == Init => QueueInv
<1> SUFFICES ASSUME Init PROVE QueueInv
  OBVIOUS
<1> USE JobQueueAssumption DEF Init, Row
<1>1. TypeOK
  BY DEF TypeOK, QueueRow, ClaimedJob, NothingClaimed, Status
<1>2. RowInv /\ ClaimInv /\ RetryBudget
  BY DEF RowInv, ClaimInv, RetryBudget, NothingClaimed
<1> QED
  BY <1>1, <1>2 DEF QueueInv

\* What succeed and fail_or_retry have in common preserves the invariant, for
\* a disposition that keeps the retry budget.
LEMMA FinishInv ==
  ASSUME QueueInv, NEW w \in Worker,
         NEW s \in {"queued", "succeeded", "dead"}, NEW t \in Nat,
         Finish(w, s, t),
         s = "queued" => claimed[w].attempts < claimed[w].max_attempts,
         s = "dead" => claimed[w].attempts >= claimed[w].max_attempts
  PROVE  QueueInv'
<1> USE JobQueueAssumption DEF Row
<1> DEFINE j == claimed[w].job
<1>1. /\ j \in Job /\ now' = now
      /\ claimed' = [claimed EXCEPT ![w] = NothingClaimed]
  BY DEF QueueInv, TypeOK, Finish, ClaimedJob
<1>2. CASE OwnsLease(w)
  <2>1. queue' = [queue EXCEPT ![j] = 
                    Row(s, queue[j].attempts, queue[j].max_attempts, t, NoWorker, 0)]
    BY <1>2 DEF Finish
  <2> DEFINE row == Row(s, queue[j].attempts, queue[j].max_attempts, t, NoWorker, 0)
  <2>a. queue[j] \in QueueRow
    BY <1>1 DEF QueueInv, TypeOK
  <2>b. /\ row \in QueueRow /\ row.status = s
        /\ row.max_attempts = queue[j].max_attempts
    BY <2>a DEF QueueRow, Row, Status
  <2>2. TypeOK'
    <3>1. queue' \in [Job -> QueueRow]
      <4> HIDE DEF row
      <4> QED
        BY <2>1, <2>b DEF QueueInv, TypeOK, row
    <3> QED
      BY <1>1, <3>1 DEF QueueInv, TypeOK, ClaimedJob, NothingClaimed
  <2>3. RowInv'
    <3> SUFFICES ASSUME NEW k \in Job
                 PROVE  /\ queue'[k].status = "running" => queue'[k].lease_owner \in Worker
                        /\ queue'[k].status # "absent" => queue'[k].max_attempts > 0
      BY DEF RowInv
    <3>1. CASE k = j
      <4>1. queue'[j] = row
        BY <1>1, <2>1 DEF QueueInv, TypeOK
      <4>2. queue[j].status = "running"
        BY <1>2 DEF OwnsLease
      <4> HIDE DEF row
      <4> QED
        BY <1>1, <2>b, <3>1, <4>1, <4>2 DEF QueueInv, RowInv
    <3>2. CASE k # j
      <4>1. queue'[k] = queue[k]
        BY <2>1, <3>2 DEF QueueInv, TypeOK
      <4> QED
        BY <4>1 DEF QueueInv, RowInv
    <3> QED
      BY <3>1, <3>2
  <2>4. ClaimInv'
    <3> SUFFICES ASSUME NEW v \in Worker, claimed'[v].job # NoJob
                 PROVE  IF OwnsLease(v)'
                        THEN /\ claimed'[v].attempts = queue'[claimed'[v].job].attempts
                             /\ claimed'[v].max_attempts = queue'[claimed'[v].job].max_attempts
                             /\ claimed'[v].lease_expires_at = queue'[claimed'[v].job].lease_expires_at
                        ELSE claimed'[v].lease_expires_at < now'
      BY DEF ClaimInv
    <3>1. v # w /\ claimed'[v] = claimed[v] /\ claimed[v].job \in Job
      BY <1>1 DEF QueueInv, TypeOK, ClaimedJob, NothingClaimed
    <3>2. CASE claimed[v].job = j
      <4>1. ~OwnsLease(v)
        BY <1>2, <3>1, <3>2 DEF OwnsLease
      <4>2. ~OwnsLease(v)'
        BY <1>1, <2>1, <3>1, <3>2 DEF OwnsLease, QueueInv, TypeOK, QueueRow
      <4> QED
        BY <1>1, <3>1, <4>1, <4>2 DEF QueueInv, ClaimInv
    <3>3. CASE claimed[v].job # j
      <4>1. queue'[claimed[v].job] = queue[claimed[v].job]
        BY <1>1, <2>1, <3>1, <3>3 DEF QueueInv, TypeOK
      <4> QED
        BY <1>1, <3>1, <4>1 DEF QueueInv, ClaimInv, OwnsLease
    <3> QED
      BY <3>2, <3>3
  <2>5. RetryBudget'
    <3>1. /\ claimed[w].attempts = queue[j].attempts
          /\ claimed[w].max_attempts = queue[j].max_attempts
      BY <1>1, <1>2 DEF QueueInv, ClaimInv, Finish
    <3> QED
      BY <1>1, <2>1, <3>1 DEF QueueInv, TypeOK, QueueRow, RetryBudget
  <2> QED
    BY <2>2, <2>3, <2>4, <2>5 DEF QueueInv
<1>3. CASE ~OwnsLease(w)
  <2>1. queue' = queue
    BY <1>3 DEF Finish
  <2>2. TypeOK'
    BY <1>1, <2>1 DEF QueueInv, TypeOK, ClaimedJob, NothingClaimed
  <2>3. RowInv' /\ RetryBudget'
    BY <2>1 DEF QueueInv, RowInv, RetryBudget
  <2>4. ClaimInv'
    BY <1>1, <2>1 DEF QueueInv, TypeOK, ClaimInv, OwnsLease, NothingClaimed
  <2> QED
    BY <2>2, <2>3, <2>4 DEF QueueInv
<1> QED
  BY <1>2, <1>3

\* Every step of the queue preserves the invariant.
LEMMA NextQueueInv == QueueInv /\ [Next]_vars => QueueInv'
<1> SUFFICES ASSUME QueueInv, [Next]_vars PROVE QueueInv'
  OBVIOUS
<1> USE JobQueueAssumption DEF Row
<1>1. CASE Tick
  <2>1. TypeOK'
    BY <1>1 DEF QueueInv, TypeOK, Tick
  <2>2. RowInv' /\ RetryBudget'
    BY <1>1 DEF QueueInv, RowInv, RetryBudget, Tick
  <2>3. ClaimInv'
    BY <1>1 DEF QueueInv, TypeOK, ClaimInv, OwnsLease, Tick, ClaimedJob
  <2> QED
    BY <2>1, <2>2, <2>3 DEF QueueInv
<1>2. ASSUME NEW j \in Job, NEW m \in MaxAttempts, NEW t \in {now, now + RetryAfter},
             enqueue(j, m, t)
      PROVE  QueueInv'
  <2>1. t \in Nat /\ m \in Nat /\ m > 0
    BY DEF QueueInv, TypeOK
  <2>2. TypeOK'
    BY <1>2, <2>1 DEF QueueInv, TypeOK, enqueue, QueueRow, Status
  <2>3. RowInv' /\ RetryBudget'
    BY <1>2, <2>1 DEF QueueInv, TypeOK, QueueRow, RowInv, RetryBudget, enqueue
  <2>4. ClaimInv'
    BY <1>2 DEF QueueInv, TypeOK, ClaimInv, OwnsLease, ClaimedJob, QueueRow, enqueue
  <2> QED
    BY <2>2, <2>3, <2>4 DEF QueueInv
<1>3. ASSUME NEW w \in Worker, NEW j \in Job, claim(w, j)
      PROVE  QueueInv'
  <2> DEFINE n == queue[j].attempts + 1
  <2>1. /\ queue' = [queue EXCEPT ![j] =
              Row("running", n, queue[j].max_attempts, queue[j].available_at, w, now + Lease)]
        /\ claimed' = [claimed EXCEPT ![w] =
              [job |-> j, attempts |-> n, max_attempts |-> queue[j].max_attempts,
               lease_expires_at |-> now + Lease]]
        /\ now' = now /\ Claimable(j)
    BY <1>3 DEF claim
  <2>a. queue[j] \in QueueRow /\ now \in Nat
    BY DEF QueueInv, TypeOK
  <2>b. Row("running", n, queue[j].max_attempts, queue[j].available_at, w, now + Lease)
          \in QueueRow
    BY <2>a DEF QueueRow, Row, Status
  <2>c. [job |-> j, attempts |-> n, max_attempts |-> queue[j].max_attempts,
         lease_expires_at |-> now + Lease] \in ClaimedJob
    BY <2>a DEF QueueRow, ClaimedJob
  <2>2. TypeOK'
    BY <2>1, <2>b, <2>c DEF QueueInv, TypeOK
  <2>3. RowInv'
    BY <2>1 DEF QueueInv, TypeOK, QueueRow, RowInv, Claimable
  <2>4. RetryBudget'
    BY <2>1 DEF QueueInv, TypeOK, QueueRow, RetryBudget
  <2>5. ClaimInv'
    <3> SUFFICES ASSUME NEW v \in Worker, claimed'[v].job # NoJob
                 PROVE  IF OwnsLease(v)'
                        THEN /\ claimed'[v].attempts = queue'[claimed'[v].job].attempts
                             /\ claimed'[v].max_attempts = queue'[claimed'[v].job].max_attempts
                             /\ claimed'[v].lease_expires_at = queue'[claimed'[v].job].lease_expires_at
                        ELSE claimed'[v].lease_expires_at < now'
      BY DEF ClaimInv
    <3>1. CASE v = w
      BY <2>1, <3>1 DEF QueueInv, TypeOK, QueueRow, ClaimedJob, OwnsLease
    <3>2. CASE v # w
      <4>1. claimed'[v] = claimed[v] /\ claimed[v].job \in Job
        BY <2>1, <3>2 DEF QueueInv, TypeOK, ClaimedJob
      <4>2. CASE claimed[v].job = j
        <5>1. ~OwnsLease(v)'
          BY <2>1, <3>2, <4>1, <4>2 DEF OwnsLease, QueueInv, TypeOK, QueueRow
        <5>2. claimed[v].lease_expires_at < now
          BY <2>1, <4>1, <4>2 DEF QueueInv, ClaimInv, OwnsLease, Claimable
        <5> QED
          BY <2>1, <4>1, <5>1, <5>2
      <4>3. CASE claimed[v].job # j
        <5>1. queue'[claimed[v].job] = queue[claimed[v].job]
          BY <2>1, <4>1, <4>3 DEF QueueInv, TypeOK
        <5> QED
          BY <2>1, <4>1, <5>1 DEF QueueInv, ClaimInv, OwnsLease
      <4> QED
        BY <4>2, <4>3
    <3> QED
      BY <3>1, <3>2
  <2> QED
    BY <2>2, <2>3, <2>4, <2>5 DEF QueueInv
<1>4. ASSUME NEW w \in Worker, succeed(w) PROVE QueueInv'
  <2>1. claimed[w].job \in Job /\ queue[claimed[w].job].available_at \in Nat
    BY <1>4 DEF succeed, Finish, QueueInv, TypeOK, ClaimedJob, QueueRow
  <2> QED
    BY <1>4, <2>1, FinishInv DEF succeed
<1>5. ASSUME NEW w \in Worker, fail_or_retry(w) PROVE QueueInv'
  <2>1. now + RetryAfter \in Nat /\ claimed[w].attempts \in Nat /\ claimed[w].max_attempts \in Nat
    BY DEF QueueInv, TypeOK, ClaimedJob
  <2>2. /\ Disposition(w) \in {"queued", "succeeded", "dead"}
        /\ Disposition(w) = "queued" => claimed[w].attempts < claimed[w].max_attempts
        /\ Disposition(w) = "dead" => claimed[w].attempts >= claimed[w].max_attempts
    BY <2>1 DEF Disposition
  <2>3. Finish(w, Disposition(w), now + RetryAfter)
    BY <1>5 DEF fail_or_retry
  <2> HIDE DEF Disposition
  <2> QED
    BY <2>1, <2>2, <2>3, FinishInv
<1>6. ASSUME NEW w \in Worker, Abandon(w) PROVE QueueInv'
  <2>1. TypeOK'
    BY <1>6 DEF QueueInv, TypeOK, Abandon, ClaimedJob, NothingClaimed
  <2>2. RowInv' /\ RetryBudget'
    BY <1>6 DEF QueueInv, RowInv, RetryBudget, Abandon
  <2>3. ClaimInv'
    BY <1>6 DEF QueueInv, TypeOK, ClaimInv, OwnsLease, Abandon, NothingClaimed
  <2> QED
    BY <2>1, <2>2, <2>3 DEF QueueInv
<1>7. ASSUME NEW j \in Job, retry_dead_job(j) PROVE QueueInv'
  <2>a. queue[j] \in QueueRow /\ now \in Nat
    BY DEF QueueInv, TypeOK
  <2>b. Row("queued", 0, queue[j].max_attempts, now, NoWorker, 0) \in QueueRow
    BY <2>a DEF QueueRow, Row, Status
  <2>1. TypeOK'
    BY <1>7, <2>b DEF QueueInv, TypeOK, retry_dead_job
  <2>2. RowInv' /\ RetryBudget'
    BY <1>7 DEF QueueInv, TypeOK, QueueRow, RowInv, RetryBudget, retry_dead_job, MayRetry
  <2>3. ClaimInv'
    BY <1>7 DEF QueueInv, TypeOK, ClaimInv, OwnsLease, ClaimedJob, QueueRow, retry_dead_job, MayRetry
  <2> QED
    BY <2>1, <2>2, <2>3 DEF QueueInv
<1>8. CASE UNCHANGED vars
  BY <1>8 DEF vars, QueueInv, TypeOK, RowInv, ClaimInv, OwnsLease, RetryBudget
<1> QED
  BY <1>1, <1>2, <1>3, <1>4, <1>5, <1>6, <1>7, <1>8 DEF Next

\* The inductive invariant holds throughout: jobs.rs keeps the row and the
\* ClaimedJob of its lease owner in agreement.
THEOREM QueueInvariance == Spec => []QueueInv
<1>1. Init => QueueInv
  BY InitQueueInv
<1>2. QueueInv /\ [Next]_vars => QueueInv'
  BY NextQueueInv
<1> QED
  BY <1>1, <1>2, PTL DEF Spec

\* Type correctness of the jobs table and the claims.
THEOREM QueueTypeCorrect == Spec => []TypeOK
<1>1. QueueInv => TypeOK
  BY DEF QueueInv
<1> QED
  BY <1>1, QueueInvariance, PTL

\* Leases are exclusive while they last (claim takes over only what expired).
THEOREM LeasesExclude == Spec => []LeaseExclusive
<1>1. QueueInv => LeaseExclusive
  <2> SUFFICES ASSUME QueueInv, NEW v \in Worker, NEW w \in Worker,
                      claimed[v].job # NoJob, claimed[v].job = claimed[w].job,
                      now <= claimed[v].lease_expires_at, now <= claimed[w].lease_expires_at
               PROVE  v = w
    BY DEF LeaseExclusive
  <2>1. OwnsLease(v) /\ OwnsLease(w)
    BY DEF QueueInv, TypeOK, ClaimedJob, ClaimInv
  <2> QED
    BY <2>1 DEF OwnsLease
<1> QED
  BY <1>1, QueueInvariance, PTL

\* fail_or_retry spends exactly the attempts a job has.
THEOREM BudgetKept == Spec => []RetryBudget
<1>1. QueueInv => RetryBudget
  BY DEF QueueInv
<1> QED
  BY <1>1, QueueInvariance, PTL

\* Only the owner of a lease ends the job (succeed, fail_or_retry: LeaseLost).
THEOREM OnlyOwnerFinishes == Spec => OwnerFinishes
<1>1. QueueInv /\ [Next]_vars =>
        [\A j \in Job : queue[j].status = "running" /\ queue'[j].status # "running" =>
           /\ claimed[queue[j].lease_owner].job = j
           /\ claimed'[queue[j].lease_owner].job = NoJob]_vars
  <2> SUFFICES ASSUME QueueInv, Next, NEW j \in Job,
                      queue[j].status = "running", queue'[j].status # "running"
               PROVE  /\ claimed[queue[j].lease_owner].job = j
                      /\ claimed'[queue[j].lease_owner].job = NoJob
    OBVIOUS
  <2> USE JobQueueAssumption DEF Row
  <2>1. queue \in [Job -> QueueRow] /\ claimed \in [Worker -> ClaimedJob]
    BY DEF QueueInv, TypeOK
  <2>2. ASSUME NEW w \in Worker, NEW s, NEW t, Finish(w, s, t)
        PROVE  /\ claimed[queue[j].lease_owner].job = j
               /\ claimed'[queue[j].lease_owner].job = NoJob
    <3>1. OwnsLease(w) /\ claimed[w].job = j
      BY <2>1, <2>2 DEF Finish, ClaimedJob
    <3> QED
      BY <2>1, <2>2, <3>1 DEF Finish, OwnsLease, NothingClaimed
  <2>3. CASE \E w \in Worker : succeed(w) \/ fail_or_retry(w)
    <3> PICK w \in Worker : succeed(w) \/ fail_or_retry(w)
      BY <2>3
    <3>1. CASE succeed(w)
      BY <2>2, <3>1 DEF succeed
    <3>2. CASE fail_or_retry(w)
      BY <2>2, <3>2 DEF fail_or_retry
    <3> QED
      BY <3>1, <3>2
  <2>4. CASE Tick \/ \E w \in Worker : Abandon(w)
    BY <2>4 DEF Tick, Abandon
  <2>5. ASSUME NEW k \in Job, NEW m, NEW t, enqueue(k, m, t) PROVE FALSE
    BY <2>1, <2>5 DEF enqueue
  <2>6. ASSUME NEW w \in Worker, NEW k \in Job, claim(w, k) PROVE FALSE
    BY <2>1, <2>6 DEF claim, QueueRow
  <2>7. ASSUME NEW k \in Job, retry_dead_job(k) PROVE FALSE
    BY <2>1, <2>7 DEF retry_dead_job, MayRetry
  <2> QED
    BY <2>3, <2>4, <2>5, <2>6, <2>7 DEF Next
<1> QED
  BY <1>1, QueueInvariance, PTL DEF Spec, OwnerFinishes

\* Every step of the queue is a step of JobTable or leaves the table as it is.
LEMMA StepSimulation ==
  QueueInv /\ [Next]_vars => [Table!JobNext]_<<TableJobs, TableHeld>>
<1> SUFFICES ASSUME QueueInv, Next
             PROVE  [Table!JobNext]_<<TableJobs, TableHeld>>
  BY DEF vars, TableJobs, TableHeld
<1> USE JobQueueAssumption DEF Row
<1>1. queue \in [Job -> QueueRow] /\ claimed \in [Worker -> ClaimedJob]
  BY DEF QueueInv, TypeOK
<1>2. CASE Tick
  BY <1>2 DEF Tick, TableJobs, TableHeld
<1>3. ASSUME NEW j \in Job, NEW m, NEW t, enqueue(j, m, t) PROVE Table!enqueue(j)
  <2>1. TableHeld' = TableHeld
    BY <1>3 DEF enqueue, TableHeld
  <2>2. TableJobs[j].status = "absent"
    BY <1>3 DEF enqueue, TableJobs
  <2>3. TableJobs' = Table!Inserted({j})
    BY <1>1, <1>3 DEF enqueue, TableJobs, Table!Inserted, Table!JobRow
  <2> QED
    BY <2>1, <2>2, <2>3 DEF Table!enqueue
<1>4. ASSUME NEW w \in Worker, NEW j \in Job, claim(w, j) PROVE Table!claim(w, j)
  <2>1. TableHeld[w] = NoJob /\ TableHeld' = [TableHeld EXCEPT ![w] = j]
    BY <1>1, <1>4 DEF claim, TableHeld
  <2>2. TableJobs[j].status \in {"queued", "running"}
    BY <1>4 DEF claim, Claimable, TableJobs
  <2>3. TableJobs' = [TableJobs EXCEPT ![j] = Table!JobRow("running", w)]
    BY <1>1, <1>4 DEF claim, TableJobs, Table!JobRow, QueueRow
  <2> QED
    BY <2>1, <2>2, <2>3 DEF Table!claim
<1>5. ASSUME NEW w \in Worker, NEW s, NEW t, Finish(w, s, t) PROVE Table!Finish(w, s)
  <2>1. TableHeld[w] # NoJob /\ TableHeld' = [TableHeld EXCEPT ![w] = NoJob]
    BY <1>1, <1>5 DEF Finish, TableHeld, NothingClaimed
  <2>2. claimed[w].job \in Job /\ TableHeld[w] = claimed[w].job
    BY <1>1, <1>5 DEF Finish, ClaimedJob, TableHeld
  <2>3. OwnsLease(w) <=> Table!OwnsLease(w)
    BY <2>2 DEF OwnsLease, Table!OwnsLease, Table!JobRow, TableJobs
  <2>4. CASE OwnsLease(w)
    <3>1. TableJobs' = [TableJobs EXCEPT ![TableHeld[w]] = Table!JobRow(s, NoWorker)]
      BY <1>1, <1>5, <2>2, <2>4 DEF Finish, TableJobs, Table!JobRow, QueueRow
    <3> QED
      BY <2>1, <2>3, <2>4, <3>1 DEF Table!Finish
  <2>5. CASE ~OwnsLease(w)
    <3>1. TableJobs' = TableJobs
      BY <1>5, <2>5 DEF Finish, TableJobs
    <3> QED
      BY <2>1, <2>3, <2>5, <3>1 DEF Table!Finish
  <2> QED
    BY <2>4, <2>5
<1>6. ASSUME NEW w \in Worker, succeed(w) PROVE Table!succeed(w)
  BY <1>5, <1>6 DEF succeed, Table!succeed
<1>7. ASSUME NEW w \in Worker, fail_or_retry(w) PROVE Table!fail_or_retry(w)
  <2>1. Finish(w, Disposition(w), now + RetryAfter) /\ Disposition(w) \in {"queued", "dead"}
    BY <1>7 DEF fail_or_retry, Disposition
  <2> QED
    BY <1>5, <2>1 DEF Table!fail_or_retry
<1>8. ASSUME NEW w \in Worker, Abandon(w) PROVE Table!Abandon(w)
  BY <1>1, <1>8 DEF Abandon, Table!Abandon, TableHeld, TableJobs, NothingClaimed
<1>9. ASSUME NEW j \in Job, retry_dead_job(j) PROVE Table!retry_dead_job(j)
  <2>1. TableHeld' = TableHeld /\ TableJobs[j].status = "dead"
    BY <1>9 DEF retry_dead_job, MayRetry, TableHeld, TableJobs
  <2>2. TableJobs' = [TableJobs EXCEPT ![j] = Table!JobRow("queued", NoWorker)]
    BY <1>1, <1>9 DEF retry_dead_job, TableJobs, Table!JobRow, QueueRow
  <2> QED
    BY <2>1, <2>2 DEF Table!retry_dead_job
<1> QED
  BY <1>2, <1>3, <1>4, <1>6, <1>7, <1>8, <1>9 DEF Next, Table!JobNext

\* The timed queue implements the table the handlers are modelled with: what
\* Collection and Settlement show holds for the leases, back-off and attempts
\* of jobs.rs.
THEOREM Refinement == Spec => ImplementsJobTable
<1>1. Init => Table!JobInit
  BY DEF Init, Row, Table!JobInit, TableJobs, TableHeld, Table!JobRow, NothingClaimed
<1>2. QueueInv /\ [Next]_vars => [Table!JobNext]_<<TableJobs, TableHeld>>
  BY StepSimulation
<1> QED
  BY <1>1, <1>2, QueueInvariance, PTL DEF Spec, ImplementsJobTable, Table!JobSpec
=============================================================================
