# OpenPool in TLA+

OpenPool runs Bitcoin raffles. An organizer publishes a raffle, participants
buy tickets over Lightning, the ledger of entries is hash-chained and frozen,
two Bitcoin blocks decide the winner, the pool is split and paid out, and a
proof document lets anybody recompute the result. This directory holds the TLA+
models of that system, the TLC configurations that check them on small
instances, and TLAPS proofs of the most important invariants for every value of
the constants. Source paths are relative to the repository root (`src/`);
`PROJECT.json` maps each definition to the lines it models.

## 1. Inventory

OpenPool is two kinds of processes that share one PostgreSQL database: the API
(`crates/openpool-api`) and any number of workers (`crates/openpool-worker`).
They never talk to each other. Everything passes through tables, and the `jobs`
table is the only scheduler. Outside are a payment provider (Mavapay), the
Lightning address resolver, an Esplora block explorer and an S3 object store.

| Component | State | Operations | What makes it correct |
|---|---|---|---|
| Protocol (`openpool-protocol`) | none, pure functions | `entry_hash`, `summarize_ledger`, `entries_root`, `draw`, `PayoutSplit::allocate` | the ledger a raffle is frozen with is one the draw and the verifier accept; a split gives the whole pool away |
| Job queue (`jobs.rs`) | `jobs` rows: status, attempts, lease | `enqueue`, `claim`, `succeed`, `fail_or_retry`, `retry_dead_job` | leases exclude each other while they last; a stale worker finishes nothing; attempts are bounded and not lost |
| Raffle administration (API) | `raffles` row | `create_draft_raffle`, `update_raffle`, `transition_raffle` | terms are fixed before the first ticket is sold; the status follows the lifecycle |
| Collection (API, provider, worker) | `invoices`, `entries`, `refunds`, totals of `raffles` | `create_invoice`, the webhook, `payment.reconcile`, `schedule_due_closes`, `raffle.close` | each payment becomes one entry or one refund; nothing joins a closed ledger; a close ends |
| Draw (worker) | `draws`, `bitcoin_blocks` | `raffle.draw`: block scan, `record_canonical_block`, `create_draw_and_payouts` | the two blocks belong to one chain and are the ones the rule names |
| Settlement (worker) | `payouts`, `proofs`, the stored object | `payout.execute`, `proof.generate` | PAID_OUT and the proof only after the whole pool was transferred; everything is paid and published in the end |
| Proof document (worker) | the columns the ledger, the draw and the proof are read back from | `ledger_entry_from_row`, `draw`, `generate_terminal_proof` | what five transactions wrote can be drawn and proved, and the proof names the stored winner |
| Verifier (`openpool-verifier`) | none, a pure function | `verify` | accepts what the worker generates, and nothing else that has the same commitments |
| OIDC logins and sessions (API) | `oidc_login_attempts`, `oidc_sessions` | `oidc_login`, `oidc_callback`, `oidc_logout`; `validate_csrf`, `identity`, `require_operator` in every writing request | a login attempt gives one session, of the user who authenticated for it; an ended session acts no more |
| Public reads (API) | none; several queries or pages per answer | `public_pool`, `public_entries`, `public_result` | pages are complete; an answer does not contradict what it reports on |
| Outbox, audit | `outbox_events`, `audit_events` | written inside the transactions above | never read by the repository's processes |
| Web pages, OpenAPI contract, configuration, observability | none | | |

What is hard to get right here, and hard to test:

* **Interleaving.** Workers run the same handlers concurrently, and a job whose
  lease has expired runs twice. Each handler is several transactions, so what
  one of them read may be stale in the next.
* **Failure.** A process can die between any two transactions or calls. The job
  comes back, but some state is already committed.
* **External calls inside handlers.** The provider is asked between a read and
  the write that depends on its answer; its answer can be lost.
* **Delivery.** Webhooks are repeated, and several events announce one payment.
* **Time.** Job leases, payout leases and back-off interact (60 s, 60 s, 15 s);
  a raffle's end time passes while invoices are being created and settled.
* **The chain.** The explorer is asked block by block while blocks are mined and
  taken back.
* **Round trips.** Hashes are computed from values in memory and checked against
  values read back from columns of a coarser resolution.
* **Bounds.** Totals are signed 64-bit columns; attempts run out.

`PROJECT.json` lists these hazards at their lines, with the properties that
cover each.

## 2. Modules

| Module | Models | Uses |
|---|---|---|
| `Protocol` | the hash chain, `summarize_ledger`, `entries_root`, `PayoutSplit` | |
| `JobTable` | the `jobs` table without time: what a handler may rely on | |
| `JobQueue` | the `jobs` table with clock, leases, back-off, attempts | implements `JobTable` |
| `RaffleLifecycle` | what a raffle promises: status, pool, amount paid out | |
| `Collection` | draft to frozen ledger | `Protocol`, `JobTable`; implements `RaffleLifecycle` |
| `Settlement` | frozen ledger to published proof | `Protocol`, `JobTable`; implements `RaffleLifecycle` |
| `DrawSelection` | `raffle.draw`: which two Bitcoin blocks a frozen raffle is drawn with | `JobTable` |
| `Verifier` | `draw`, the proof document, `verify`: pure operators | `Protocol` |
| `DrawProof` | the rows of one raffle in full, from the first entry to the proof | `Verifier` |
| `PublicReads` | a client of the public API beside `DrawProof` | `DrawProof` |
| `Oidc` | logins, sessions and the requests made under them | |
| `CollectionInv`, `DrawSelectionInv`, `SettlementInv`, `DrawProofInv`, `OidcInv` | the inductive invariants | the module they name; `DrawProofInv` also covers `PublicReads` |
| `ProtocolLemmas` | facts about ledgers, chains, ticket ranges and splits | `Protocol` |
| `VerifierLemmas` | facts about the draw and the verifier | `Verifier`, `ProtocolLemmas` |
| `JobQueueProofs`, `CollectionProofs`, `DrawSelectionProofs`, `SettlementProofs`, `DrawProofProofs`, `OidcProofs` | the theorems | the module they name |
| `MCJobQueue`, `MCCollection`, `MCDrawSelection`, `MCSettlement`, `MCPublicReads`, `MCOidc` | symmetry sets and instances for TLC | |

Common conventions:

* One action is one committed transaction, or one call to an external service.
  Transactions that lock the row they decide on (`FOR UPDATE`) are atomic. The
  exception is `settle_payout`, whose `COUNT(*)` reads rows it has not locked:
  it is two actions, `settle_payout_count` and `settle_payout_commit`.
* `pc[w]` is where worker `w` is in its handler. Every transaction, call and
  early return has its own step. `ok` and `err` are the handler's result, which
  `succeed_job` and `fail_or_retry_job` then write to the jobs table.
* `HandlerError(w)` stands for any call of the handler failing, `WorkerCrash(w)`
  for the process dying; both can happen at each step. A row is left as the last
  commit left it.
* Hashes are injective: a hash is what was hashed. Nothing here depends on more.
* Definitions with a comment that begins `Mutant:` are deliberately wrong
  variants of the definition that follows. They are not used by any specification;
  `PROJECT.json` names the property that each one breaks.

### JobTable and JobQueue

A row is identified by (kind, deduplication key), the unique constraint that
`enqueue`'s `ON CONFLICT DO NOTHING` refers to. `JobQueue` keeps the database
clock, `attempts`, `available_at` and `lease_expires_at`, and for each worker
the `ClaimedJob` it got: `fail_or_retry` decides from those values, not from the
row. `claim` takes the claimable row with the least `available_at`. In `JobTable`
time is gone: a running row may be claimed at any moment. `JobQueue` implements
`JobTable` (`ImplementsJobTable`, checked and proved), which is why
`Collection`, `DrawSelection` and `Settlement` may use it and still cover every timing.

### RaffleLifecycle

Three variables for one raffle: its status, what it has taken and what was
transferred to its recipients. It takes money while it is OPEN only, is drawn
only if it took any, pays out no more than that, and is PAID_OUT exactly when
everything was paid. `Collection` implements `Spec`, each raffle on its own;
`Settlement` implements `FrozenSpec`, which starts where the former ends. Both
define `ImplementsLifecycle`.

The graph of `Cancel` is that of `transition_raffle`.
`RaffleStatus::can_transition_to` draws another one: it allows cancellation from
OPEN and CLOSING only, whereas `transition_raffle` also cancels DRAFT and
SCHEDULED raffles. It has no caller, so nothing depends on the difference.

### Collection

State: the `raffles`, `entries`, `invoices` and `refunds` tables, the provider's
record of each payment, the API handler working on each invoice, and the
workers. Time is one Boolean per raffle, `ended`. `create_invoice` reads the
clock before it takes the raffle's lock, hence the parameter `late` that may be
FALSE after the end. Actions follow the code's names; `schedule_due_closes`
moves all due raffles and inserts their jobs in one transaction. Amounts are
price times tickets with the checks against `i64::MAX` as `MaxI64`.

The provider is external and modelled from the code's use of it: a terminal
payment state is final, only an invoice whose `bolt11` was stored can be paid,
`updated` events come at any time, `resolved` once the payment is terminal, and
each any number of times.

### DrawSelection

Several frozen raffles and the explorer's chain. State: `chain`, the stored
`draws` (with the block columns of `raffles`), the canonical rows of
`bitcoin_blocks` as a set of pairs of height and block, the workers and the local
variables of their handlers. Each call of the explorer and each transaction is an
action, so the chain may change between any two: `tip_height`, one
`scan_block_at` per block of the backward scan, `close_block_at`,
`randomness_block_at`, `record_close`, `record_randomness`, `match_close`,
`match_randomness`, `create_draw_and_payouts`. `block_at` is two requests, of the
hash at a height and of the block with that hash; the first one decides.

The chain is external. The explorer moves to a longer chain (`Adopt`), which may
give up as many as `MaxReorg` of its blocks. The set `Chains` of possible chains
and `MaxReorg` are constants; timestamps may run backwards along a chain, as
Bitcoin's may.

`record_canonical_block` is one action: with two of them in progress, the row
locks and the unique index on the canonical height leave an outcome of some order
of the two, or make one fail.

The payouts that `create_draw_and_payouts` also inserts are in `Settlement`, the
ledger that it draws from in `Collection`, and the computation of the winner from
the block hash in `DrawProof`.

`create_draw_and_payouts` does not look at the canonical rows again that
`canonical_block_matches` has checked in an earlier query. If the draw of another
raffle records a new hash at the same height in between, the first worker stores
its draw with the old hash all the same. The comment at
`crates/openpool-worker/src/main.rs:179` can be read as excluding this; the model
keeps it, and the properties say how deep a reorganisation has to be.

### Settlement

One raffle, because every handler touches the rows of one raffle only. State:
the raffle row, the payouts by recipient, what the provider transferred per
idempotency key, the `proofs` row, the stored object, and the workers. The
payout lease is a Boolean `expired` that `LeaseExpires` sets at any time.
`claim_payout` prefers expired leases and skips rows locked by an open
`settle_payout`, as `FOR UPDATE SKIP LOCKED` does. The provider makes at most one
transfer per idempotency key, which the code relies on. The object store
refuses a second PUT of the object (`if-none-match: *`).

### Verifier, DrawProof and PublicReads

`Verifier` defines `draw` and `verify` as the crates do: the seed, the remainder
loop of `winning_ticket` over the digest's bytes, the first entry whose range
contains the ticket, and the issues `verify` reports. A digest is a parameter:
`Digest(seed)` is any sequence of `DigestLen` bytes below `Radix` (32 and 256 in
the code), so the properties do not depend on SHA-256. A proof's canonical JSON
is the tuple of its fields.

`DrawProof` follows one raffle through the commits that write what the proof is
made of: `settle_invoice_and_append_entry`, `schedule_due_closes`,
`freeze_raffle`, `create_draw_and_payouts`, `settle_payout`,
`generate_terminal_proof`. The other modules say in which order and how often
jobs get there; here the rows are complete. Two conversions matter and are
modelled by what they do: the entry's time is hashed in milliseconds of the
nanoseconds that `now_utc()` returned, stored in microseconds, and hashed again
from there; and the draw and the payouts of the proof are not read but computed a
second time. A step that would return an error is disabled, and
`FrozenIsDrawable` and `PaidOutIsProvable` say that it never is.

`OutcomeCommitted` compares the generated document with every one in a family of
documents that have the same root, blocks and split: entries dropped, reordered,
changed with or without new hashes, other draws, totals and payouts. Those that
the verifier accepts say the same. What they may differ in is the entry ids: no
hash of the ledger covers them, only the hash of the document itself.

`PublicReads` adds a client. `public_entries` selects the rows from the cursor
on, puts them in the order of their index, takes one row more than the page
holds and reports `next_cursor` if it is there; `public_result` is four queries with
commits between them.

### Oidc

State: `oidc_login_attempts` by state, `oidc_sessions` by id (deleted rows keep
their history), the provider's codes and role memberships, and for each
concurrent request where it is and what it has read. The callback is three steps,
`consume_oidc_login_attempt`, `exchange_code`, `create_oidc_session`; a writing
request is `validate_csrf`, then `identity` or `require_operator`, then the
write. Each reads the session anew. Between any two of them sessions expire or
are logged out, roles change at the provider, and the process may die
(`EndRequest`). A callback may bring any state together with any code that was
issued. Random values are unique by assumption and stand for their row. The
development identity, which replaces sessions by a header, is off, as it is in
production.

## 3. Runs

Passing runs:

| Run | Instance | What it shows |
|---|---|---|
| `job_queue` | 2 jobs, 2 workers, lease 4, back-off 1, clock up to 10, `max_attempts` 1 or 2 | `LeaseExclusive`, `RetryBudget`, and that the queue implements `JobTable` |
| `collection` | 1 raffle, 2 invoices with `updated` events, 2 workers, prices 1 and 2, ticket counts 0 to 2, `MaxI64` 3 | the frozen ledger is drawable, the pool is priced and adds up, each payment is one entry or one refund, no payment is written off, no pending invoice in a frozen raffle, work is always scheduled, closed ledgers do not change |
| `collection_live` | 1 invoice, both events, 2 workers | `ImplementsLifecycle`: the first half of `RaffleLifecycle`. `SettledPaymentResolved`: settled payments become entries or refunds. `ClosingTerminatesOrStrands`: only a stranded invoice holds up a close |
| `draw_selection` | 2 workers, three branches of up to 7 blocks, `MaxReorg` 2, `Delay` 1; a raffle to be drawn and one that ended before the first block | `CloseBlockKept`, `DrawnFromOneChain`, `DrawIsFinal`; `TypeOK`, which includes that the scan stops at the first block; `WorkScheduled`: no failed selection ends the job |
| `draw_live` | 2 raffles that share a height, 2 workers, a tip that is replaced (`MaxReorg` 1) | `RandomnessBlockKept`: one confirmation is enough for reorganisations of one block. `DrawStored`: every raffle is drawn, although recording one raffle's blocks displaces those of the other |
| `settlement` | pools 1 and 20, 2 workers | `WorkScheduled`: the job of the step that a raffle waits for exists; `PaidOutDistributesPool`, `ProofAfterSettlement`, `SettledIsFinal`; `ImplementsLifecycle`: the second half of `RaffleLifecycle`; `ProofOrStranded`: a terminal proof, or a raffle stranded in PAYOUT_PENDING |
| `draw_proof` | 3 invoices of 1 or 2 tickets at a price of 20, settled just before or at a millisecond, digests of two digits to the base 4, pages of one entry, one client | `FrozenIsDrawable`, `PaidOutIsProvable`: no draw and no proof fails on what was stored. `OneWinner`, `ProofNamesWinner`: proof, draw and payouts agree. `TicketsEquallyLikely`: no ticket is favoured. `OutcomeCommitted`: the commitments leave one outcome. `PagesComplete`, `PoolInPages`, `ResultSupported`: what a client is told is consistent |
| `oidc` | 2 login attempts, 2 sessions, 2 users, 2 requests | `OneSessionPerLogin`, `SessionOfItsUser`, `EndedSessionIsDead`, `RolesWereGranted` |

Runs that TLC must find violated, each about something the repository says of
itself and the code does not do. The finding in `PROJECT.json` quotes the line.

| Run | Property | The behaviour |
|---|---|---|
| `close_stuck` | `ClosingTerminates` | The API stops between `create_collection_invoice` and `store_collection_invoice`. The invoice is pending and has no payment hash, so no reconciliation ever ends it, and `raffle.close` fails for ever. |
| `payout_stuck` | `PayoutsComplete` | A payout is left `processing` by a crash or a resolver error. The job is retried before the payout's lease is over, finds no candidate and succeeds; nothing enqueues it again. |
| `payout_skew` | `LastSettlementPaysOut` | Two settlements count before either commits. Both see one payout remaining: all are settled, the raffle stays PAYOUT_PENDING. |
| `proof_stuck` | `ProofPublished` | The publication fails after the `proofs` row is committed. The retried job fails at the unique INSERT and never publishes. |

**Bounds.** Two workers are what it takes for a stale worker and its successor;
all conflicts in the code are between two holders of one job or one row. Two
invoices make a second entry continue the first one's chain, and reconcile
concurrently with it. `MaxI64 = 3` with prices and counts up to 2 makes both the
product and the running totals overflow in some behaviours and not in others. In
`job_queue` lease and back-off keep the order of the code's values (60 s over
15 s), and a clock of 10 lets the lease of a second claim expire after the first
has. A pool of 20 gives the winner 19, rounds the organizer's share
to nothing and leaves the platform 1, two payouts for two workers; a pool of 1
goes to the platform alone. In the draw runs `MaxReorg` 2 is `Delay + 1`, the
most that `CloseBlockKept` tolerates (with 3 it fails). One branch forks below the
close block, one above it with a timestamp that runs backwards past the end time.
`draw_live` has one fork, at the tip, because liveness of two raffles on all
branches takes TLC too long. In `draw_proof` three entries put one between two others, so that ranges meet on
both sides; a time of 1999999 ns is the last before a millisecond, where rounding
instead of truncation would show; the 16 digests are not a multiple of 3, 5 or 6
tickets, so the remainder is uneven; the block hashes are the first, the last and
a middle digest; pages of one entry make every entry a page boundary, and a client
can be overtaken between any two. In `oidc` two attempts and two users are what
it takes for a code to be brought to the wrong attempt, and two requests for two
callbacks, or a logout and a write, to race.

`collection` uses symmetry over invoices and workers, `draw_selection` over
workers, `job_queue` over jobs and workers, `draw_proof` over invoices and entry
ids, `oidc` over attempts, sessions, users and requests; none of their
properties tells these apart, and runs with liveness properties use no symmetry.

**Deadlock.** The configurations say `CHECK_DEADLOCK FALSE` because the system
may really stop: a raffle whose ledger is frozen, that is drawn or whose proof is published has
no work left within the module, and the bounded clock of `job_queue` ends. `oidc`
is checked for deadlock: a request can always arrive or end.

**Fairness.** `FairSpec` of the three modules assumes, and `run_jobs` justifies:

* a worker that is in a handler goes on executing it (WF on `HandlerStep`), and
  the API handler runs to an end (WF on `ApiStep`);
* no claimable job is passed over for ever (SF on claiming each job): `claim`
  orders by `available_at`, and every retry moves that time forward, so the
  others get their turn. `schedule_due_closes` opens each turn of the loop (SF);
* an operator retries dead jobs (WF), which `POST /v1/operator/jobs/{id}/retry`
  is for. Without an operator a job that failed eight times stays dead;
* the provider ends each collection as paid or expired and delivers the
  `resolved` event; blocks are mined (WF on `Adopt`, in `DrawSelection`);
* calls fail, processes die and leases are overrun finitely often
  (`<>[][~Fault]_vars`), a `Fault` being a step that nothing else explains.

Nothing in the fairness makes an invoice be paid or a raffle be opened, and
nothing bounds how many faults there are.

## 4. Proofs

All theorems are checked by TLAPS with no omitted steps. They hold for any number
of raffles, invoices, workers, jobs, logins and requests and for all values of the
other constants. The only assumptions are those named in the modules:
`CollectionAssumption` (prices are positive and fit the column, the special
values are distinct from the others), `JobQueueAssumption` (times are natural
numbers, at least one attempt), `DrawAssumption` (chains are not empty, times are
natural numbers, the delay is positive), `SettlementAssumption` (a positive pool, splits
that add up to 10000 basis points, as the tables' CHECK constraints say),
`DigestAssumption` and `DrawProofAssumption` (a digest has at least one byte,
tickets and the delay are positive), `PublicReadsAssumption` (a page holds an
entry) and `OidcAssumption` (None is not a value). The theorems of
`DrawProofProofs`, and those of `VerifierLemmas` about a whole document, have one
hypothesis, `DigestHypothesis`: the digest of every seed is in `Digests`. It
cannot be an assumption that TLC evaluates, since it ranges over all seeds.

Every invariant and every action property of the passing runs is also a theorem.

**ProtocolLemmas.** The sums and chains of a ledger are recursive functions, and
what they compute has to be shown by induction over its length. The library's
induction theorems cannot be instantiated here, so the lemmas use a least
counterexample instead: `Least` says that a set of naturals that is not empty has
a least element, and each proof takes the set of lengths at which its claim
fails. In this way `RunningPoolExists` shows that the recursive sum is a function
at all, `PoolSatsAppend` that a new entry adds its amount, `RangesOrdered` with
`OwnerUnique` and `OwnerExists` that the ranges of an accepted ledger tile the
tickets, and `ChainCommits` with `RootCommits` that equal heads have equal
ledgers behind them. `AllocateExact` states the rounding of a split: winner and
organizer get the floor of their exact share, the platform its own share and
less than two satoshis.

**VerifierLemmas.** What the draw and the verifier do, apart from any raffle.

* `EveryTicketEquallyLikely`: a ticket wins for `n \div total` or one more of the
  `n` digests. The loop of `winning_ticket` never computes the number that a
  digest is, so the proof constructs it: `IsNumbering(F, M, k, total)` says that
  `F` numbers the strings of `k` bytes from 0 to `M - 1` without gap or repetition
  and that after `k` bytes the loop holds the remainder of that number.
  `NumberingStarts` and `NumberingContinues` carry it from no byte to `DigestLen`
  of them, and what is left is to count the numbers below `M` with a given
  remainder.
* `VerifiedIsSound`: in a document without issues one entry owns the winning
  ticket and is the one the draw names, all entries are of the raffle, the payouts
  are natural numbers that add up to the pool, and the randomness block is above
  the close block. The only premises are the types of the fields.
* `HonestIsVerified`: the document that follows from an accepted ledger, a valid
  split and two blocks in order has no issues.

**JobQueueProofs.** `QueueTypeCorrect`, `LeasesExclude`, `BudgetKept`,
`OnlyOwnerFinishes`, and `Refinement`, which shows that every step of the timed
queue is a step or a stutter of `JobTable`. The inductive invariant relates a
worker's `ClaimedJob` to the row while it owns the lease (same attempts, same
expiry) and says that whoever lost the lease is past its own expiry.

**CollectionProofs.** The invariant `Inv` (module `CollectionInv`) is needed
because none of the properties is inductive:

* `ControlInv`, `HandlerInv`: what a worker learnt in an earlier transaction
  still holds when it acts on it. `FrozenNoPending` rests on "at step `freeze`
  the raffle has no pending invoice", which holds because the raffle is past OPEN
  and no invoice is created for it any more; `NoPaymentDropped` rests on "at
  step `uncollectible` the payment has expired", because terminal states are
  final.
* `InvoiceInv`: how far an invoice can be, given its API handler and the
  provider. Its amount is price times tickets because a raffle that was ever
  open is no longer edited; `PoolInv` carries this to the totals.
* `ChainInv`: each stored entry passes `summarize_ledger`, and the raffles row
  holds what the next one continues from. With `RootInv` (the root is that of
  the final ledger) it gives `FrozenLedgerDrawable`.
* `JobInv`: close and draw rows exist only for raffles in the right status.

From it follow `TypeCorrect`, `Drawable`, `PoolCorrect`, `ExactlyOneOutcome`,
`PaymentKept`, `FreezeIsFinal`, `WorkIsScheduled`, the action property
`LedgerIsFinal`, and by `PoolSatsAppend` also `PoolIsTheSum`: the raffle's total
is the sum over its entries. `Refinement` maps each raffle to a
`RaffleLifecycle`. Two things are needed beyond the invariant: every action
changes a raffle's row in one of a few ways (`RowStep`), and prices are positive
whenever tickets are sold (`PriceInv`), so that `Sell` adds to the pool and a
frozen raffle with tickets has one that is not zero.

**DrawSelectionProofs.** What a worker has read of the chain may be outdated at
once, so the argument is about depth. With `MaxReorg` m, every block at
least m below the tip stays: the chains before and after `Adopt` agree there. These
inductive invariants (module `DrawSelectionInv`) build on each other:

* `BaseInv`, without an assumption on reorganisations: the tip a worker read is
  not above the chain's, heights are below it, a stored draw has the delay and
  the confirmation between its heights and the tip. It gives `TypeCorrect` and
  the action property `DrawnOnce`. With `ScheduleInv` (a handler ends with Ok only
  when the draw is stored) it gives `WorkIsScheduled`; that an `ok` stays true
  needs `DrawnOnce` in turn.
* `CloseInv`, if `MaxReorg <= Delay + 1`: what the scan found out about a height
  deep enough to be drawn from still holds, hence the selected close block is on
  the chain, at or after the end time, above a block before it. The confirmation check
  comes after the scan and discards all that was not deep enough. It gives
  `CloseIsFinal` and `OneChainDrawn`.
* `RandomnessInv`, if `MaxReorg <= 1`: the randomness block is deep enough too
  (`RandomnessIsFinal`).

With the API's delay of 6 the close block tolerates reorganisations of 7 blocks,
the randomness block only of one: after a deeper one a stored draw keeps a block
that is no longer on the chain, which the code accepts.

**SettlementProofs.** `Inv` (module `SettlementInv`): the payouts are those of
the draw (`DrawInv`), the provider transferred the amount of every settled one
(`PaidInv`), a worker past its call has paid even when it lost the lease, and a
count of zero taken by an open `settle_payout` stays true because settled
payouts are final (`WorkerInv`), PAID_OUT and the proof come after the last
settlement (`OutcomeInv`, `ProofInv`). From it follow `TypeCorrect`,
`WholePoolPaid`, `ProofIsTrue`, the action property `SettledForGood` and
`Refinement`: with the amount paid out mapped to the sum of the provider's
transfers, every step is one of `RaffleLifecycle`, and `Finish` finds the pool
spent. `WorkIsScheduled` needs `ScheduleInv` besides: a worker is in the handler of
the job it holds and ends a draw or a proof with Ok only when it is stored
(`HeldInv`), and a proof job that has succeeded left a proof. For payouts nothing of
the kind holds: a payout job may succeed with payouts left, which is why
`WorkScheduled` asks only that its row exists, and what `payout_stuck` shows.

**DrawProofProofs.** `OutcomeIsCommitted` is about the verifier alone: of two
documents with the same root, blocks and split that it accepts, all entries'
data, the seed, the winning ticket, its range, the totals and the payouts are the
same. `Inv` (module `DrawProofInv`) then says of the stored rows that the ledger
read back is accepted and summed up by the raffles row (`LedgerInv`, which rests
on `TimeRoundTrip`: dropping the nanoseconds below a microsecond does not change
the millisecond), that the root is its root (`FreezeInv`), and that draw, payouts
and proof are what the functions return for the stored blocks (`DrawInv`,
`ProofInv`). From it follow `AlwaysDrawable`, `AlwaysProvable`,
`ProofTellsTheDraw`, `WinnerIsUnique` and `ProofIsCommitted`;
`RemainderBelowTotal` is why some entry owns the winning ticket, `HonestIsVerified`
why the generated document is accepted. `DrawIsFair` applies
`EveryTicketEquallyLikely` to the raffle's total. For `ResultsAreSupported`,
`ResultInv` says that what a query of `public_result` has returned stays true while
the following ones are made.

For the pages, `RowsFound` and `RowsOrdered` show that the query returns the
entries from the cursor on in ledger order, because the stored index of an entry
is its place (`LedgerInv`); `Concatenation` puts a page behind the earlier ones.
`PagesInv` says that a reading client has exactly the entries below its cursor,
and that the pool it was told of is the one after some number of entries, which
appends do not change; once it is told that there is no further page, it has at
least that many. `PagesAreComplete` and `PoolIsInPages` follow for pages of any size.

**OidcProofs.** `Inv` (module `OidcInv`): a consumed attempt is in the hands of
one callback or behind one session, never both (`LoginInv`); callback and session
stand for a user who authenticated for their attempt (`UserInv`); a request that
arrived late is stopped at the first check, because an ended session stays ended
(`LateInv`); roles of callbacks, sessions and requests were had by their user at
some time (`RoleInv`). From it follow `LoginOnce`, `RightUser`, `EndIsFinal` and
`OnlyGrantedRoles`.

**Only model-checked.** Liveness (`SettledPaymentResolved`,
`ClosingTerminatesOrStrands`, `DrawStored`, `ProofOrStranded`), because the prover
does not do fairness.

## 5. Not modelled

* How long `raffle.draw` waits. It waits by failing, and eight attempts 15 s apart
  are over before seven blocks are mined; `DrawStored` relies on the operator's
  retry.
* The development identity, which the code refuses in production.
* Reads that return one row of one query: they cannot be inconsistent.
* Outbox and audit rows: written in the modelled transactions, read by nobody.
* Address resolution, encryption, web pages, the OpenAPI contract, configuration
  and observability: no state of their own. Their failures are handler errors.
* JSON and hexadecimal forms of the proof, the WASM wrapper and the texts of the
  verifier's issues.
* `create_refund_eligibility` has no caller outside the tests, and no code pays
  refunds.
* Entries of a cancelled raffle: the repository does not say what becomes of
  them.

## 6. Plan

1. The wait of `raffle.draw` in time: attempts and back-off against the time
   between blocks.
2. `SettleLocks`: the statements of `settle_invoice_and_append_entry` with row
   locks, shown to implement the atomic action of `Collection`.
3. The order of `claim`: how often an eligible job can be passed over.
