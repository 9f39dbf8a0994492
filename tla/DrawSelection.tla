--------------------------- MODULE DrawSelection ----------------------------
(***************************************************************************)
(* How the raffle.draw job selects its two Bitcoin blocks.  The worker     *)
(* scans the explorer's chain backwards from the tip for the close block,  *)
(* the first one after the raffle's end time, adds the delay to find the   *)
(* randomness block, records both in bitcoin_blocks, checks that they are  *)
(* still canonical there and stores the draw.                              *)
(*                                                                         *)
(* One action is one call to the explorer or one transaction; the chain    *)
(* may grow or be reorganised between any two.  block_at is two requests,  *)
(* of the hash at a height and of the block with that hash; the first one  *)
(* decides.  The payouts and the payout.execute job that                   *)
(* create_draw_and_payouts also inserts are modelled in Settlement, the    *)
(* ledger that it draws from in Collection.                                *)
(***************************************************************************)
EXTENDS Integers, Sequences

CONSTANTS Raffles,
          end_time,      \* raffles.end_time, which no longer changes
          Chains,        \* the chains the explorer may follow (external)
          MaxReorg,      \* how many blocks a reorganisation takes back (external)
          Delay,         \* randomness_delay_blocks, 6 in the API
          Workers, NoWorker, NoJob, NoBlock, NoDraw

VARIABLES chain,         \* the explorer's chain (external)
          draws,         \* draws table, with the block columns of raffles
          canonical,     \* the rows of bitcoin_blocks with is_canonical
          jobs, held,    \* the jobs table and the job each worker executes
          pc,            \* where in its handler each worker is
          tip, height,   \* the worker's local variables
          close, randomness

\* A block is [hash, time]; heights count from 0, the first element of a chain.
Tip(c) == Len(c) - 1
BlockAt(c, h) == c[h + 1]
Block == UNION {{c[k] : k \in DOMAIN c} : c \in Chains}

Draw == [close_height : Nat, close : Block, randomness_height : Nat, randomness : Block]

\* c and d agree up to height h.
Agree(c, d, h) == \A k \in 0 .. h : BlockAt(c, k) = BlockAt(d, k)

ASSUME DrawAssumption ==
  /\ end_time \in [Raffles -> Nat]
  /\ \A c \in Chains : c \in Seq(Block) /\ c # << >>
  /\ \A b \in Block : b.time \in Nat
  /\ MaxReorg \in Nat
  /\ Delay \in Nat \ {0}
  /\ NoJob \notin Raffles
  /\ NoWorker \notin Workers
  /\ NoBlock \notin Block
  /\ NoDraw \notin Draw

INSTANCE JobTable WITH Job <- Raffles, Worker <- Workers

local == <<tip, height, close, randomness>>
vars == <<chain, draws, canonical, jobs, held, pc, local>>

WorkerStep == {"idle", "context", "tip", "scan", "close", "randomness", "record_close",
               "record_randomness", "match_close", "match_randomness", "create", "ok", "err"}
Running == WorkerStep \ {"idle", "err"}

TypeOK ==
  /\ chain \in Chains
  /\ draws \in [Raffles -> Draw \cup {NoDraw}]
  /\ canonical \subseteq Nat \X Block
  /\ JobTypeOK
  /\ pc \in [Workers -> WorkerStep]
  /\ tip \in [Workers -> Nat] /\ height \in [Workers -> Nat]
  /\ close \in [Workers -> Block \cup {NoBlock}]
  /\ randomness \in [Workers -> Block \cup {NoBlock}]

\* Every raffle is frozen: RANDOMNESS_PENDING until it has a draw.
Init ==
  /\ chain \in Chains
  /\ draws = [r \in Raffles |-> NoDraw]
  /\ canonical = {}
  /\ jobs = [r \in Raffles |-> JobRow("queued", NoWorker)]
  /\ held = [w \in Workers |-> NoJob]
  /\ pc = [w \in Workers |-> "idle"]
  /\ tip = [w \in Workers |-> 0] /\ height = [w \in Workers |-> 0]
  /\ close = [w \in Workers |-> NoBlock]
  /\ randomness = [w \in Workers |-> NoBlock]

-----------------------------------------------------------------------------
(* The explorer: it follows the longest chain it knows. *)

Adopt(c) ==
  /\ Tip(c) > Tip(chain)
  /\ Agree(chain, c, Tip(chain) - MaxReorg)
  /\ chain' = c
  /\ UNCHANGED <<draws, canonical, jobs, held, pc, local>>

-----------------------------------------------------------------------------
(* raffle.draw *)

Goto(w, from, to) == pc[w] = from /\ pc' = [pc EXCEPT ![w] = to]

frozen_draw_context(w) ==
  /\ Goto(w, "context", IF draws[held[w]] = NoDraw THEN "tip" ELSE "err")
  /\ UNCHANGED <<chain, draws, canonical, jobs, held, local>>

tip_height(w) ==
  /\ Goto(w, "tip", "scan")
  /\ tip' = [tip EXCEPT ![w] = Tip(chain)]
  /\ height' = [height EXCEPT ![w] = Tip(chain)]
  /\ UNCHANGED <<chain, draws, canonical, jobs, held, close, randomness>>

\* Mutant: the scan does not stop at the first block.
ScanStepNoFloor(w, b) ==
  IF b.time >= end_time[held[w]] THEN "scan"
                                 ELSE (IF height[w] = tip[w] THEN "err" ELSE "close")

\* Mutant: a close block that is not mined yet is no error.
ScanStepNotMined(w, b) ==
  IF b.time >= end_time[held[w]] THEN (IF height[w] = 0 THEN "err" ELSE "scan")
                                 ELSE (IF height[w] = tip[w] THEN "ok" ELSE "close")

\* "no block exists before raffle cutoff" and "no canonical close block has been
\* mined" are errors; the job is retried.
ScanStep(w, b) ==
  IF b.time >= end_time[held[w]] THEN (IF height[w] = 0 THEN "err" ELSE "scan")
                                 ELSE (IF height[w] = tip[w] THEN "err" ELSE "close")

scan_block_at(w) ==
  LET b == BlockAt(chain, height[w])
  IN  /\ Goto(w, "scan", ScanStep(w, b))
      /\ height' = [height EXCEPT ![w] =
                      IF ScanStep(w, b) = "scan" THEN height[w] - 1 ELSE height[w]]
      /\ UNCHANGED <<chain, draws, canonical, jobs, held, tip, close, randomness>>

RandomnessHeight(w) == height[w] + Delay

\* Mutant: the randomness block may be the tip.
ConfirmedAtTip(w) == tip[w] >= height[w] + 1 + Delay

\* "randomness block lacks one confirmation", for the close block at height + 1.
Confirmed(w) == tip[w] >= height[w] + 1 + Delay + 1

\* Mutant: the last block before the end time is the close block.
CloseHeightBefore(w) == height[w]

CloseHeight(w) == height[w] + 1

close_block_at(w) ==
  /\ Goto(w, "close", IF Confirmed(w) THEN "randomness" ELSE "err")
  /\ close' = [close EXCEPT ![w] = BlockAt(chain, CloseHeight(w))]
  /\ height' = [height EXCEPT ![w] = CloseHeight(w)]
  /\ UNCHANGED <<chain, draws, canonical, jobs, held, tip, randomness>>

randomness_block_at(w) ==
  /\ Goto(w, "randomness", "record_close")
  /\ randomness' = [randomness EXCEPT ![w] = BlockAt(chain, RandomnessHeight(w))]
  /\ UNCHANGED <<chain, draws, canonical, jobs, held, tip, height, close>>

\* Mutant: the rows to displace are updated after the new one is inserted.
record_canonical_block_late(h, b) ==
  canonical' = IF <<h, b>> \in canonical THEN canonical ELSE {row \in canonical : row[1] < h}

\* A block that is not yet the canonical one at its height displaces it and all
\* canonical rows above.
record_canonical_block(h, b) ==
  canonical' = (IF <<h, b>> \in canonical THEN canonical
                ELSE {row \in canonical : row[1] < h}) \cup {<<h, b>>}

record_close(w) ==
  /\ Goto(w, "record_close", "record_randomness")
  /\ record_canonical_block(height[w], close[w])
  /\ UNCHANGED <<chain, draws, jobs, held, local>>

record_randomness(w) ==
  /\ Goto(w, "record_randomness", "match_close")
  /\ record_canonical_block(RandomnessHeight(w), randomness[w])
  /\ UNCHANGED <<chain, draws, jobs, held, local>>

canonical_block_matches(h, b) == <<h, b>> \in canonical

\* "selected Bitcoin blocks were displaced by a reorg"
match_close(w) ==
  /\ Goto(w, "match_close",
          IF canonical_block_matches(height[w], close[w]) THEN "match_randomness" ELSE "err")
  /\ UNCHANGED <<chain, draws, canonical, jobs, held, local>>

match_randomness(w) ==
  /\ Goto(w, "match_randomness",
          IF canonical_block_matches(RandomnessHeight(w), randomness[w]) THEN "create" ELSE "err")
  /\ UNCHANGED <<chain, draws, canonical, jobs, held, local>>

DrawOf(w) == [close_height |-> height[w], close |-> close[w],
              randomness_height |-> RandomnessHeight(w), randomness |-> randomness[w]]

\* Mutant: the status is not read again under the lock.
MayDrawAgain(w) == TRUE

MayDraw(w) == draws[held[w]] = NoDraw

create_draw_and_payouts(w) ==
  /\ \/ /\ Goto(w, "create", "ok")
        /\ MayDraw(w)
        /\ draws' = [draws EXCEPT ![held[w]] = DrawOf(w)]
     \/ /\ Goto(w, "create", "err")                      \* InvalidStatus
        /\ ~MayDraw(w)
        /\ UNCHANGED draws
  /\ UNCHANGED <<chain, canonical, jobs, held, local>>

-----------------------------------------------------------------------------
(* The loop of run_jobs. *)

claim_job(w, r) ==
  /\ claim(w, r)
  /\ pc' = [pc EXCEPT ![w] = "context"]
  /\ UNCHANGED <<chain, draws, canonical, local>>

\* The handler's local variables go out of scope.
Return(w) ==
  /\ tip' = [tip EXCEPT ![w] = 0] /\ height' = [height EXCEPT ![w] = 0]
  /\ close' = [close EXCEPT ![w] = NoBlock]
  /\ randomness' = [randomness EXCEPT ![w] = NoBlock]
  /\ UNCHANGED <<chain, draws, canonical>>

succeed_job(w) == Goto(w, "ok", "idle") /\ succeed(w) /\ Return(w)

fail_or_retry_job(w) == Goto(w, "err", "idle") /\ fail_or_retry(w) /\ Return(w)

HandlerError(w) ==
  /\ pc[w] \in Running
  /\ pc' = [pc EXCEPT ![w] = "err"]
  /\ UNCHANGED <<chain, draws, canonical, jobs, held, local>>

WorkerCrash(w) ==
  /\ Abandon(w)
  /\ pc' = [pc EXCEPT ![w] = "idle"]
  /\ Return(w)

retry_operator_job(r) ==
  /\ retry_dead_job(r)
  /\ UNCHANGED <<chain, draws, canonical, pc, local>>

HandlerStep(w) ==
  \/ frozen_draw_context(w) \/ tip_height(w) \/ scan_block_at(w) \/ close_block_at(w)
  \/ randomness_block_at(w) \/ record_close(w) \/ record_randomness(w)
  \/ match_close(w) \/ match_randomness(w) \/ create_draw_and_payouts(w)
  \/ succeed_job(w) \/ fail_or_retry_job(w)

FaultStep(w) == HandlerError(w) \/ WorkerCrash(w)

Next ==
  \/ \E c \in Chains : Adopt(c)
  \/ \E w \in Workers : HandlerStep(w) \/ FaultStep(w)
  \/ \E w \in Workers, r \in Raffles : claim_job(w, r)
  \/ \E r \in Raffles : retry_operator_job(r)

Spec == Init /\ [][Next]_vars

(***************************************************************************)
(* Fairness, as in Collection and Settlement; and blocks are mined.        *)
(***************************************************************************)
Fault == \E w \in Workers : FaultStep(w) /\ ~HandlerStep(w)

Fairness ==
  /\ WF_vars(\E c \in Chains : Adopt(c))
  /\ \A w \in Workers : WF_vars(HandlerStep(w))
  /\ \A r \in Raffles : /\ SF_vars(\E w \in Workers : claim_job(w, r))
                         /\ WF_vars(retry_operator_job(r))
  /\ <>[][~Fault]_vars

FairSpec == Spec /\ Fairness

-----------------------------------------------------------------------------
(* What is checked. *)

Drawn == {r \in Raffles : draws[r] # NoDraw}

\* The close block of a stored draw is on the explorer's chain, now and for
\* ever after, and is the one that the raffle's end time singles out: it is not
\* before the end time and the block below it is.  The scan reads the blocks one
\* by one while the chain changes; the delay keeps it right, provided that
\* reorganisations take back at most Delay + 1 blocks.
CloseBlockKept ==
  \A r \in Drawn : LET d == draws[r] IN
    /\ BlockAt(chain, d.close_height) = d.close
    /\ d.close.time >= end_time[r]
    /\ d.close_height > 0 /\ BlockAt(chain, d.close_height - 1).time < end_time[r]

\* The two blocks of a stored draw belong to one chain, although the worker
\* fetched them by height in two calls and compares no previous_hash.
DrawnFromOneChain ==
  \A r \in Drawn : LET d == draws[r] IN
    \E c \in Chains : /\ d.randomness_height <= Tip(c)
                      /\ BlockAt(c, d.close_height) = d.close
                      /\ BlockAt(c, d.randomness_height) = d.randomness

\* One confirmation is enough when reorganisations take back one block only:
\* the randomness block of a stored draw stays on the explorer's chain.
RandomnessBlockKept ==
  \A r \in Drawn : LET d == draws[r] IN
    BlockAt(chain, d.randomness_height) = d.randomness

\* A raffle is drawn once, also by two workers that selected different blocks.
DrawIsFinal ==
  [][\A r \in Drawn : draws'[r] = draws[r]]_vars

\* A raffle that waits for its draw has a raffle.draw job that has not
\* succeeded: blocks that are not mined yet, displaced or reorganised away under
\* the scan never end the job.
WorkScheduled ==
  \A r \in Raffles : r \notin Drawn => jobs[r].status \in {"queued", "running", "dead"}

\* Every frozen raffle is drawn once its blocks are mined.
DrawStored == \A r \in Raffles : <>(r \in Drawn)
=============================================================================
