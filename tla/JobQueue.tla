------------------------------ MODULE JobQueue ------------------------------
(***************************************************************************)
(* The jobs table with time: leases, back-off and attempts (jobs.rs), and  *)
(* the workers that claim, execute and finish its rows.  It implements     *)
(* JobTable, the view of it that the handlers rely on.                     *)
(***************************************************************************)
EXTENDS Integers

CONSTANTS Job, Worker, NoJob, NoWorker,
          Lease,         \* lease_seconds, 60 in run_jobs
          RetryAfter,    \* retry_after_seconds, 15 in run_jobs
          MaxAttempts,   \* the values of max_attempts (8 by default)
          MaxTime        \* bound on the clock, for TLC

VARIABLES now,           \* the database clock
          queue,         \* jobs table
          claimed        \* the ClaimedJob each worker executes

ASSUME JobQueueAssumption ==
  /\ Lease \in Nat /\ RetryAfter \in Nat /\ MaxTime \in Nat
  /\ MaxAttempts \subseteq Nat \ {0}
  /\ NoJob \notin Job
  /\ NoWorker \notin Worker

vars == <<now, queue, claimed>>

Status == {"absent", "queued", "running", "succeeded", "dead"}

QueueRow == [status : Status, attempts : Nat, max_attempts : Nat, available_at : Nat,
             lease_owner : Worker \cup {NoWorker}, lease_expires_at : Int]

Row(s, n, m, t, w, e) ==
  [status |-> s, attempts |-> n, max_attempts |-> m, available_at |-> t,
   lease_owner |-> w, lease_expires_at |-> e]

ClaimedJob == [job : Job \cup {NoJob}, attempts : Nat, max_attempts : Nat,
               lease_expires_at : Int]

NothingClaimed == [job |-> NoJob, attempts |-> 0, max_attempts |-> 0, lease_expires_at |-> 0]

TypeOK ==
  /\ now \in 0 .. MaxTime
  /\ queue \in [Job -> QueueRow]
  /\ claimed \in [Worker -> ClaimedJob]

Init ==
  /\ now = 0
  /\ queue = [j \in Job |-> Row("absent", 0, 0, 0, NoWorker, 0)]
  /\ claimed = [w \in Worker |-> NothingClaimed]

Tick ==
  /\ now < MaxTime
  /\ now' = now + 1
  /\ UNCHANGED <<queue, claimed>>

\* ON CONFLICT (kind, deduplication_key) DO NOTHING.
enqueue(j, max_attempts, available_at) ==
  /\ queue[j].status = "absent"
  /\ queue' = [queue EXCEPT ![j] =
                 Row("queued", 0, max_attempts, available_at, NoWorker, 0)]
  /\ UNCHANGED <<now, claimed>>

\* Mutant: a lease is taken over in the last second it is valid.
ClaimableEarly(j) ==
  \/ queue[j].status = "queued" /\ queue[j].available_at <= now
  \/ queue[j].status = "running" /\ queue[j].lease_expires_at <= now

Claimable(j) ==
  \/ queue[j].status = "queued" /\ queue[j].available_at <= now
  \/ queue[j].status = "running" /\ queue[j].lease_expires_at < now

\* ORDER BY available_at; created_at decides between equal ones.
claim(w, j) ==
  /\ claimed[w].job = NoJob
  /\ Claimable(j)
  /\ \A k \in Job : Claimable(k) => queue[j].available_at <= queue[k].available_at
  /\ queue' = [queue EXCEPT ![j] =
                 Row("running", queue[j].attempts + 1, queue[j].max_attempts,
                     queue[j].available_at, w, now + Lease)]
  /\ claimed' = [claimed EXCEPT ![w] =
       [job |-> j, attempts |-> queue[j].attempts + 1,
        max_attempts |-> queue[j].max_attempts, lease_expires_at |-> now + Lease]]
  /\ UNCHANGED now

\* WHERE id = $1 AND status = 'running' AND lease_owner = $2.
OwnsLease(w) ==
  queue[claimed[w].job].status = "running" /\ queue[claimed[w].job].lease_owner = w

\* No row matches without the lease (LeaseLost, which run_jobs drops).
Finish(w, status, available_at) ==
  /\ claimed[w].job # NoJob
  /\ queue' = IF OwnsLease(w)
              THEN [queue EXCEPT ![claimed[w].job] =
                      Row(status, queue[claimed[w].job].attempts,
                          queue[claimed[w].job].max_attempts, available_at, NoWorker, 0)]
              ELSE queue
  /\ claimed' = [claimed EXCEPT ![w] = NothingClaimed]
  /\ UNCHANGED now

succeed(w) == Finish(w, "succeeded", queue[claimed[w].job].available_at)

\* Mutant: the job gets one attempt more than max_attempts.
DispositionLate(w) == IF claimed[w].attempts > claimed[w].max_attempts THEN "dead" ELSE "queued"

\* Decided from the values the claim returned.
Disposition(w) == IF claimed[w].attempts >= claimed[w].max_attempts THEN "dead" ELSE "queued"

fail_or_retry(w) == Finish(w, Disposition(w), now + RetryAfter)

\* The worker dies, or the statement that finishes the job fails.
Abandon(w) ==
  /\ claimed[w].job # NoJob
  /\ claimed' = [claimed EXCEPT ![w] = NothingClaimed]
  /\ UNCHANGED <<now, queue>>

\* Mutant: the operator may requeue a job that is running.
MayRetryRunning(j) == queue[j].status \in {"dead", "running"}

MayRetry(j) == queue[j].status = "dead"

retry_dead_job(j) ==
  /\ MayRetry(j)
  /\ queue' = [queue EXCEPT ![j] =
                 Row("queued", 0, queue[j].max_attempts, now, NoWorker, 0)]
  /\ UNCHANGED <<now, claimed>>

Next ==
  \/ Tick
  \/ \E j \in Job, m \in MaxAttempts, t \in {now, now + RetryAfter} : enqueue(j, m, t)
  \/ \E w \in Worker, j \in Job : claim(w, j)
  \/ \E w \in Worker : succeed(w) \/ fail_or_retry(w) \/ Abandon(w)
  \/ \E j \in Job : retry_dead_job(j)

Spec == Init /\ [][Next]_vars

-----------------------------------------------------------------------------
\* A lease is exclusive while it lasts: no two workers execute the same job
\* both within the 60 seconds their claim gave them, whatever expired, was
\* retried or was requeued by an operator in between.
LeaseExclusive ==
  \A v, w \in Worker :
    /\ claimed[v].job # NoJob /\ claimed[v].job = claimed[w].job
    /\ now <= claimed[v].lease_expires_at /\ now <= claimed[w].lease_expires_at
    => v = w

\* A queued job always has an attempt left and a dead one has used them all,
\* although the disposition is decided from the attempts the worker was given
\* at its claim and crashed attempts are never counted down.
RetryBudget ==
  \A j \in Job :
    /\ queue[j].status = "queued" => queue[j].attempts < queue[j].max_attempts
    /\ queue[j].status = "dead" => queue[j].attempts >= queue[j].max_attempts

\* A worker whose lease was taken over cannot finish the job for its new owner.
OwnerFinishes ==
  [][\A j \in Job : queue[j].status = "running" /\ queue'[j].status # "running" =>
       /\ claimed[queue[j].lease_owner].job = j
       /\ claimed'[queue[j].lease_owner].job = NoJob]_vars

\* The table as the handlers see it: status and owner, without time.
TableJobs ==
  [j \in Job |-> [status |-> queue[j].status, lease_owner |-> queue[j].lease_owner]]

TableHeld == [w \in Worker |-> claimed[w].job]

Table == INSTANCE JobTable WITH jobs <- TableJobs, held <- TableHeld

\* Whatever the clock does, the queue behaves like JobTable: this is why the
\* handlers' models may leave time out.
ImplementsJobTable == Table!JobSpec
=============================================================================
