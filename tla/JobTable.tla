------------------------------ MODULE JobTable ------------------------------
(***************************************************************************)
(* The durable `jobs' table of jobs.rs and the worker processes that       *)
(* execute its rows, without time: what every handler may rely on whatever *)
(* the leases and the back-off do.  A row is identified by its             *)
(* (kind, deduplication_key) pair, the table's unique constraint.  A       *)
(* running row can be claimed again at any moment, because its lease may   *)
(* have expired at any moment.                                             *)
(* Module JobQueue refines this one with leases, back-off and attempts.    *)
(***************************************************************************)
CONSTANTS Job,        \* the (kind, deduplication_key) pairs
          Worker,     \* the worker processes
          NoJob,      \* what an idle worker holds
          NoWorker    \* lease_owner IS NULL

VARIABLES jobs,       \* the jobs table
          held        \* the ClaimedJob each worker is executing

JobStatus == {"absent", "queued", "running", "succeeded", "dead"}

JobRow(s, w) == [status |-> s, lease_owner |-> w]

JobTypeOK ==
  /\ jobs \in [Job -> [status : JobStatus, lease_owner : Worker \cup {NoWorker}]]
  /\ held \in [Worker -> Job \cup {NoJob}]

JobInit ==
  /\ jobs = [j \in Job |-> JobRow("absent", NoWorker)]
  /\ held = [w \in Worker |-> NoJob]

(***************************************************************************)
(* INSERT INTO jobs ... ON CONFLICT (kind, deduplication_key) DO NOTHING.  *)
(* The row default is status 'queued'.  The value of the table after the   *)
(* rows J are inserted, for use inside a larger transaction.               *)
(***************************************************************************)
Inserted(J) ==
  [j \in Job |-> IF j \in J /\ jobs[j].status = "absent"
                 THEN JobRow("queued", NoWorker) ELSE jobs[j]]

enqueue(j) ==
  /\ jobs[j].status = "absent"
  /\ jobs' = Inserted({j})
  /\ UNCHANGED held

\* A queued row, or a running one whose lease has run out.
claim(w, j) ==
  /\ held[w] = NoJob
  /\ jobs[j].status \in {"queued", "running"}
  /\ jobs' = [jobs EXCEPT ![j] = JobRow("running", w)]
  /\ held' = [held EXCEPT ![w] = j]

\* UPDATE jobs ... WHERE id = $1 AND status = 'running' AND lease_owner = $2.
\* No row matches once another worker has claimed the job: LeaseLost, which
\* run_jobs ignores.
OwnsLease(w) == jobs[held[w]] = JobRow("running", w)

Finish(w, s) ==
  /\ held[w] # NoJob
  /\ jobs' = IF OwnsLease(w) THEN [jobs EXCEPT ![held[w]] = JobRow(s, NoWorker)]
                             ELSE jobs
  /\ held' = [held EXCEPT ![w] = NoJob]

succeed(w) == Finish(w, "succeeded")

\* 'dead' when the attempts are used up, else 'queued'.
fail_or_retry(w) == \E s \in {"queued", "dead"} : Finish(w, s)

\* The worker process dies, or the statement that ends the job fails: run_jobs
\* drops the result of succeed and of fail_or_retry.
Abandon(w) ==
  /\ held[w] # NoJob
  /\ held' = [held EXCEPT ![w] = NoJob]
  /\ UNCHANGED jobs

retry_dead_job(j) ==
  /\ jobs[j].status = "dead"
  /\ jobs' = [jobs EXCEPT ![j] = JobRow("queued", NoWorker)]
  /\ UNCHANGED held

JobNext ==
  \/ \E j \in Job : enqueue(j) \/ retry_dead_job(j)
  \/ \E w \in Worker : succeed(w) \/ fail_or_retry(w) \/ Abandon(w)
  \/ \E w \in Worker, j \in Job : claim(w, j)

JobSpec == JobInit /\ [][JobNext]_<<jobs, held>>
=============================================================================
