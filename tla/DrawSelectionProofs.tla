------------------------ MODULE DrawSelectionProofs -------------------------
(***************************************************************************)
(* The blocks of a stored draw, for any set of chains, any delay and any   *)
(* number of raffles and workers, as far as the depth of reorganisations   *)
(* allows it.                                                              *)
(***************************************************************************)
EXTENDS DrawSelectionInv, TLAPS

\* A chain has a block of Block at every height up to its tip.
LEMMA ChainFacts ==
  ASSUME NEW c \in Chains
  PROVE  Tip(c) \in Nat /\ \A h \in 0 .. Tip(c) : BlockAt(c, h) \in Block
<1>1. c \in Seq(Block) /\ c # << >>
  BY DrawAssumption
<1>2. Len(c) \in Nat /\ Len(c) # 0 /\ \A k \in 1 .. Len(c) : c[k] \in Block
  BY <1>1
<1> QED
  BY <1>2 DEF Tip, BlockAt

\* What the job table's operations do to the types of its variables.
LEMMA JobTypes ==
  ASSUME JobTypeOK
  PROVE  /\ \A w \in Workers, r \in Raffles : claim(w, r) => JobTypeOK'
         /\ \A w \in Workers : succeed(w) \/ fail_or_retry(w) \/ Abandon(w) => JobTypeOK'
         /\ \A r \in Raffles : retry_dead_job(r) => JobTypeOK'
<1>1. \A s \in JobStatus, w \in Workers \cup {NoWorker} : JobRow(s, w) \in
        [status : JobStatus, lease_owner : Workers \cup {NoWorker}]
  BY DEF JobRow
<1>2. ASSUME NEW w \in Workers, NEW s \in JobStatus, Finish(w, s) PROVE JobTypeOK'
  BY <1>1, <1>2 DEF JobTypeOK, Finish
<1>3. "queued" \in JobStatus /\ "running" \in JobStatus /\ "succeeded" \in JobStatus
      /\ "dead" \in JobStatus
  BY DEF JobStatus
<1>4. \A w \in Workers : succeed(w) \/ fail_or_retry(w) \/ Abandon(w) => JobTypeOK'
  BY <1>2, <1>3 DEF succeed, fail_or_retry, Abandon, JobTypeOK
<1>5. \A w \in Workers, r \in Raffles : claim(w, r) => JobTypeOK'
  BY <1>1, <1>3 DEF claim, JobTypeOK
<1>6. \A r \in Raffles : retry_dead_job(r) => JobTypeOK'
  BY <1>1, <1>3 DEF retry_dead_job, JobTypeOK
<1> QED
  BY <1>4, <1>5, <1>6

-----------------------------------------------------------------------------
(* BaseInv: types and heights, whatever the reorganisations do. *)

\* Nothing has been read when the raffles are frozen.
LEMMA InitBase == Init => BaseInv
<1> SUFFICES ASSUME Init PROVE BaseInv
  OBVIOUS
<1> USE DrawAssumption DEF Init
<1>1. JobTypeOK
  BY DEF JobTypeOK, JobRow, JobStatus
<1>2. TypeOK
  BY <1>1 DEF TypeOK, WorkerStep
<1>3. ControlInv /\ HeightInv /\ DrawnInv
  BY DEF ControlInv, HeightInv, DrawnInv, Drawn, Scanning, Selected, Complete
<1> QED
  BY <1>2, <1>3 DEF BaseInv

\* A step of the handler of w other than claiming and finishing the job.
Inner(w) ==
  \/ frozen_draw_context(w) \/ tip_height(w) \/ scan_block_at(w) \/ close_block_at(w)
  \/ randomness_block_at(w) \/ record_close(w) \/ record_randomness(w)
  \/ match_close(w) \/ match_randomness(w) \/ create_draw_and_payouts(w) \/ HandlerError(w)

\* A step that ends the handler of w.
Ends(w) == succeed_job(w) \/ fail_or_retry_job(w) \/ WorkerCrash(w)

\* The steps of Next, by what they do to the worker.
LEMMA NextCases ==
  ASSUME Next
  PROVE  \/ \E c \in Chains : Adopt(c)
         \/ \E w \in Workers : Inner(w)
         \/ \E w \in Workers : Ends(w)
         \/ \E w \in Workers, r \in Raffles : claim_job(w, r)
         \/ \E r \in Raffles : retry_operator_job(r)
  BY DEF Next, HandlerStep, FaultStep, Inner, Ends

\* The worker holds a raffle while it executes its handler.
LEMMA HeldRaffle ==
  ASSUME TypeOK, ControlInv, NEW w \in Workers, pc[w] # "idle"
  PROVE  held[w] \in Raffles
  BY DEF TypeOK, JobTypeOK, ControlInv

\* Heights and types of a worker that executes its handler.
LEMMA InnerBase ==
  ASSUME BaseInv, NEW w \in Workers, Inner(w)
  PROVE  BaseInv'
<1> USE DEF BaseInv
<1> DEFINE T == Tip(chain)
<1>1. chain \in Chains /\ T \in Nat /\ \A h \in 0 .. T : BlockAt(chain, h) \in Block
  BY ChainFacts DEF TypeOK
<1>2. Delay \in Nat
  BY DrawAssumption
<1>3. CASE tip_height(w)
  <2>1. TypeOK'
    BY <1>1, <1>3 DEF tip_height, Goto, TypeOK, JobTypeOK, WorkerStep
  <2>2. ControlInv' /\ HeightInv' /\ DrawnInv'
    BY <1>1, <1>3 DEF tip_height, Goto, TypeOK, JobTypeOK, WorkerStep, ControlInv, HeightInv,
       DrawnInv, Drawn, Scanning, Selected, Complete
  <2> QED
    BY <2>1, <2>2
<1>4. CASE scan_block_at(w)
  <2> DEFINE s == ScanStep(w, BlockAt(chain, height[w]))
  <2>1. /\ s \in {"err", "scan", "close"}
        /\ s = "scan" => height[w] # 0
        /\ s = "close" => height[w] # tip[w]
    BY DEF ScanStep
  <2>2. /\ pc[w] = "scan" /\ pc' = [pc EXCEPT ![w] = s]
        /\ height' = [height EXCEPT ![w] = IF s = "scan" THEN height[w] - 1 ELSE height[w]]
        /\ UNCHANGED <<chain, draws, canonical, jobs, held, tip, close, randomness>>
    BY <1>4 DEF scan_block_at, Goto
  <2> HIDE DEF s
  <2>3. height[w] <= tip[w] /\ tip[w] \in Nat /\ height[w] \in Nat
    BY <2>2 DEF HeightInv, TypeOK
  <2>4. TypeOK'
    <3>1. height' \in [Workers -> Nat]
      BY <2>1, <2>2, <2>3 DEF TypeOK
    <3>2. pc' \in [Workers -> WorkerStep]
      BY <2>1, <2>2 DEF TypeOK, WorkerStep
    <3> QED
      BY <2>2, <3>1, <3>2 DEF TypeOK, JobTypeOK
  <2>5. ControlInv'
    BY <2>1, <2>2 DEF TypeOK, ControlInv, Selected, Complete
  <2>6. HeightInv'
    BY <2>1, <2>2, <2>3 DEF TypeOK, HeightInv, Scanning, Selected
  <2>7. DrawnInv'
    BY <2>2 DEF DrawnInv, Drawn
  <2> QED
    BY <2>4, <2>5, <2>6, <2>7
<1>5. CASE close_block_at(w)
  <2> DEFINE s == IF Confirmed(w) THEN "randomness" ELSE "err"
             b == BlockAt(chain, height[w] + 1)
  <2>1. /\ pc[w] = "close" /\ pc' = [pc EXCEPT ![w] = s]
        /\ close' = [close EXCEPT ![w] = b]
        /\ height' = [height EXCEPT ![w] = height[w] + 1]
        /\ UNCHANGED <<chain, draws, canonical, jobs, held, tip, randomness>>
    BY <1>5 DEF close_block_at, Goto, CloseHeight
  <2>2. height[w] < tip[w] /\ tip[w] <= T /\ tip[w] \in Nat /\ height[w] \in Nat
    BY <2>1 DEF HeightInv, TypeOK, Scanning
  <2>3. b \in Block
    BY <1>1, <2>2
  <2>4. /\ s \in {"err", "randomness"}
        /\ s = "randomness" => height[w] + 1 + Delay + 1 <= tip[w]
    BY <1>2, <2>2 DEF Confirmed
  <2> HIDE DEF s, b
  <2>5. TypeOK'
    BY <2>1, <2>2, <2>3, <2>4 DEF TypeOK, JobTypeOK, WorkerStep
  <2>6. ControlInv'
    BY <2>1, <2>3, <2>4 DEF TypeOK, ControlInv, Selected, Complete
  <2>7. HeightInv'
    BY <1>1, <1>2, <2>1, <2>2, <2>4 DEF TypeOK, HeightInv, Scanning, Selected
  <2>8. DrawnInv'
    BY <2>1 DEF DrawnInv, Drawn
  <2> QED
    BY <2>5, <2>6, <2>7, <2>8
<1>6. CASE randomness_block_at(w)
  <2> DEFINE b == BlockAt(chain, height[w] + Delay)
  <2>1. /\ pc[w] = "randomness" /\ pc' = [pc EXCEPT ![w] = "record_close"]
        /\ randomness' = [randomness EXCEPT ![w] = b]
        /\ UNCHANGED <<chain, draws, canonical, jobs, held, tip, height, close>>
    BY <1>6 DEF randomness_block_at, Goto, RandomnessHeight
  <2>2. b \in Block
    BY <1>1, <1>2, <2>1 DEF HeightInv, TypeOK, Selected
  <2> HIDE DEF b
  <2>3. TypeOK'
    BY <2>1, <2>2 DEF TypeOK, JobTypeOK, WorkerStep
  <2>4. ControlInv'
    BY <2>1, <2>2 DEF TypeOK, ControlInv, Selected, Complete
  <2>5. HeightInv'
    BY <2>1 DEF TypeOK, HeightInv, Scanning, Selected
  <2>6. DrawnInv'
    BY <2>1 DEF DrawnInv, Drawn
  <2> QED
    BY <2>3, <2>4, <2>5, <2>6
<1>7. CASE record_close(w) \/ record_randomness(w)
  <2>1. /\ pc[w] \in Complete /\ UNCHANGED <<chain, draws, jobs, held, local>>
        /\ \/ pc' = [pc EXCEPT ![w] = "record_randomness"]
           \/ pc' = [pc EXCEPT ![w] = "match_close"]
    BY <1>7 DEF record_close, record_randomness, Goto, Complete, Selected
  <2>2. height[w] \in Nat /\ height[w] + Delay \in Nat /\ close[w] \in Block /\ randomness[w] \in Block
    BY <1>2, <2>1 DEF TypeOK, ControlInv, Complete
  <2>3. ASSUME NEW h \in Nat, NEW b \in Block, record_canonical_block(h, b)
        PROVE  canonical' \subseteq Nat \X Block
    BY <2>3 DEF record_canonical_block, TypeOK
  <2>4. canonical' \subseteq Nat \X Block
    BY <1>7, <2>2, <2>3 DEF record_close, record_randomness, RandomnessHeight
  <2>5. TypeOK'
    BY <2>1, <2>4 DEF TypeOK, JobTypeOK, WorkerStep, local
  <2>6. ControlInv' /\ HeightInv' /\ DrawnInv'
    BY <2>1 DEF TypeOK, ControlInv, HeightInv, DrawnInv, Drawn, Scanning, Selected, Complete, local
  <2> QED
    BY <2>5, <2>6
<1>8. CASE create_draw_and_payouts(w)
  <2>1. /\ pc[w] = "create" /\ UNCHANGED <<chain, canonical, jobs, held, local>>
        /\ pc' = [pc EXCEPT ![w] = "ok"] \/ pc' = [pc EXCEPT ![w] = "err"]
        /\ draws' = draws \/ draws' = [draws EXCEPT ![held[w]] = DrawOf(w)]
    BY <1>8 DEF create_draw_and_payouts, Goto
  <2>2. /\ height[w] \in Nat /\ height[w] > 0 /\ height[w] + Delay + 1 <= T
        /\ close[w] \in Block /\ randomness[w] \in Block
    BY <1>1, <1>2, <2>1 DEF TypeOK, ControlInv, HeightInv, Complete, Selected
  <2>3. held[w] \in Raffles
    BY <2>1, HeldRaffle
  <2>4. /\ DrawOf(w) \in Draw
        /\ DrawOf(w).close_height = height[w]
        /\ DrawOf(w).randomness_height = height[w] + Delay
    BY <1>2, <2>2 DEF DrawOf, Draw, RandomnessHeight
  <2>5. TypeOK'
    BY <2>1, <2>3, <2>4 DEF TypeOK, JobTypeOK, WorkerStep, local
  <2>6. ControlInv' /\ HeightInv'
    BY <2>1 DEF TypeOK, ControlInv, HeightInv, Scanning, Selected, Complete, local
  <2>7. DrawnInv'
    BY <2>1, <2>2, <2>3, <2>4 DEF TypeOK, DrawnInv, Drawn
  <2> QED
    BY <2>5, <2>6, <2>7
<1>9. CASE frozen_draw_context(w) \/ match_close(w) \/ match_randomness(w) \/ HandlerError(w)
  <2>1. UNCHANGED <<chain, draws, canonical, jobs, held, local>>
    BY <1>9 DEF frozen_draw_context, match_close, match_randomness, HandlerError
  <2>2. \/ pc[w] # "idle" /\ pc' = [pc EXCEPT ![w] = "err"]
        \/ pc[w] = "context" /\ pc' = [pc EXCEPT ![w] = "tip"]
        \/ pc[w] = "match_close" /\ pc' = [pc EXCEPT ![w] = "match_randomness"]
        \/ pc[w] = "match_randomness" /\ pc' = [pc EXCEPT ![w] = "create"]
    BY <1>9 DEF frozen_draw_context, match_close, match_randomness, HandlerError, Goto, Running
  <2>3. TypeOK'
    BY <2>1, <2>2 DEF TypeOK, JobTypeOK, WorkerStep, local
  <2>4. ControlInv' /\ HeightInv' /\ DrawnInv'
    BY <2>1, <2>2 DEF TypeOK, ControlInv, HeightInv, DrawnInv, Drawn, Scanning, Selected, Complete,
       local
  <2> QED
    BY <2>3, <2>4
<1> QED
  BY <1>3, <1>4, <1>5, <1>6, <1>7, <1>8, <1>9 DEF Inner

\* The types and heights are kept by every step.
LEMMA StepBase ==
  ASSUME BaseInv, [Next]_vars
  PROVE  BaseInv'
<1> USE DEF BaseInv
<1>1. CASE UNCHANGED vars
  BY <1>1 DEF vars, local, TypeOK, JobTypeOK, ControlInv, HeightInv, DrawnInv, Drawn
<1>2. ASSUME NEW c \in Chains, Adopt(c) PROVE BaseInv'
  <2>1. Tip(c) \in Nat /\ Tip(chain) \in Nat /\ Tip(chain) < Tip(c) /\ chain' = c
    BY <1>2, ChainFacts DEF Adopt, TypeOK
  <2>2. UNCHANGED <<draws, canonical, jobs, held, pc, local>>
    BY <1>2 DEF Adopt
  <2>3. TypeOK' /\ ControlInv'
    BY <2>1, <2>2 DEF TypeOK, JobTypeOK, ControlInv, local
  <2>4. HeightInv'
    <3> SUFFICES ASSUME NEW w \in Workers, pc[w] \in Scanning \cup Selected
                 PROVE  tip[w] <= Tip(c)
      BY <2>1, <2>2 DEF HeightInv, local
    <3>1. tip[w] \in Nat /\ tip[w] <= Tip(chain)
      BY DEF HeightInv, TypeOK
    <3> QED
      BY <2>1, <3>1
  <2>5. DrawnInv'
    <3> SUFFICES ASSUME NEW r \in Drawn PROVE draws[r].randomness_height + 1 <= Tip(c)
      BY <2>1, <2>2 DEF DrawnInv, Drawn
    <3>1. draws[r].randomness_height \in Nat /\ draws[r].randomness_height + 1 <= Tip(chain)
      BY DEF DrawnInv, Drawn, TypeOK, Draw
    <3> QED
      BY <2>1, <3>1
  <2> QED
    BY <2>3, <2>4, <2>5
<1>3. ASSUME NEW w \in Workers, Inner(w) PROVE BaseInv'
  BY <1>3, InnerBase
<1>4. ASSUME NEW w \in Workers, Ends(w) PROVE BaseInv'
  <2>1. /\ Return(w) /\ pc' = [pc EXCEPT ![w] = "idle"]
        /\ held' = [held EXCEPT ![w] = NoJob]
        /\ succeed(w) \/ fail_or_retry(w) \/ Abandon(w)
    BY <1>4 DEF Ends, succeed_job, fail_or_retry_job, WorkerCrash, Goto, succeed, fail_or_retry,
       Finish, Abandon
  <2>2. JobTypeOK'
    BY <2>1, JobTypes DEF TypeOK
  <2>3. TypeOK'
    BY <2>1, <2>2 DEF Return, TypeOK, WorkerStep
  <2>4. ControlInv' /\ HeightInv' /\ DrawnInv'
    BY <2>1 DEF Return, TypeOK, JobTypeOK, ControlInv, HeightInv, DrawnInv, Drawn, Scanning,
       Selected, Complete
  <2> QED
    BY <2>3, <2>4
<1>5. ASSUME NEW w \in Workers, NEW r \in Raffles, claim_job(w, r) PROVE BaseInv'
  <2>1. /\ pc' = [pc EXCEPT ![w] = "context"] /\ held' = [held EXCEPT ![w] = r]
        /\ UNCHANGED <<chain, draws, canonical, local>>
    BY <1>5 DEF claim_job, claim
  <2>2. JobTypeOK'
    BY <1>5, JobTypes DEF TypeOK, claim_job
  <2>3. TypeOK'
    BY <2>1, <2>2 DEF TypeOK, WorkerStep, local
  <2>4. r # NoJob
    BY DrawAssumption
  <2>5. ControlInv' /\ HeightInv' /\ DrawnInv'
    BY <2>1, <2>4 DEF TypeOK, JobTypeOK, ControlInv, HeightInv, DrawnInv, Drawn, Scanning,
       Selected, Complete, local
  <2> QED
    BY <2>3, <2>5
<1>6. ASSUME NEW r \in Raffles, retry_operator_job(r) PROVE BaseInv'
  <2>1. UNCHANGED <<held, chain, draws, canonical, pc, local>>
    BY <1>6 DEF retry_operator_job, retry_dead_job
  <2>2. JobTypeOK'
    BY <1>6, JobTypes DEF TypeOK, retry_operator_job
  <2>3. TypeOK' /\ ControlInv' /\ HeightInv' /\ DrawnInv'
    BY <2>1, <2>2 DEF TypeOK, ControlInv, HeightInv, DrawnInv, Drawn, local
  <2> QED
    BY <2>3
<1> QED
  BY <1>1, <1>2, <1>3, <1>4, <1>5, <1>6, NextCases

\* Types and heights hold in every reachable state.
THEOREM BaseInvariance == Spec => []BaseInv
<1>1. BaseInv /\ [Next]_vars => BaseInv'
  BY StepBase
<1> QED
  BY <1>1, InitBase, PTL DEF Spec

\* Type correctness: the scan never asks for a block beyond the chain.
THEOREM TypeCorrect == Spec => []TypeOK
<1>1. BaseInv => TypeOK
  BY DEF BaseInv
<1> QED
  BY <1>1, BaseInvariance, PTL

-----------------------------------------------------------------------------
(* What reorganisations leave alone. *)

\* A reorganisation keeps every block that is at least MaxReorg below the tip.
LEMMA AdoptKeeps ==
  ASSUME TypeOK, NEW c \in Chains, Adopt(c), NEW h \in Nat, h <= Tip(chain) - MaxReorg
  PROVE  BlockAt(chain', h) = BlockAt(chain, h)
  BY ChainFacts, DrawAssumption DEF Adopt, Agree, TypeOK

\* So a height that was settled when w read the tip keeps its block.
LEMMA SettledKept ==
  ASSUME BaseInv, NEW c \in Chains, Adopt(c), NEW w \in Workers,
         pc[w] \in Scanning \cup Selected, NEW h \in Nat, Settled(w, h)
  PROVE  BlockAt(chain', h) = BlockAt(chain, h)
<1>1. tip[w] \in Nat /\ tip[w] <= Tip(chain) /\ Tip(chain) \in Nat /\ MaxReorg \in Nat
  BY ChainFacts, DrawAssumption DEF BaseInv, TypeOK, HeightInv
<1>2. h <= Tip(chain) - MaxReorg
  BY <1>1 DEF Settled
<1> QED
  BY <1>2, AdoptKeeps DEF BaseInv

-----------------------------------------------------------------------------
(* CloseInv: reorganisations that take back at most Delay + 1 blocks. *)

\* Nothing has been read or drawn when the raffles are frozen.
LEMMA InitClose == Init => CloseInv
  BY DEF Init, CloseInv, ScanInv, SelectedInv, CloseBlockKept, DrawnFromOneChain, Drawn, Scanning,
     Selected, Complete

\* A step that leaves chain and draws alone and after which w is at a step that
\* CloseInv says nothing of.
LEMMA FrameClose ==
  ASSUME BaseInv, CloseInv, NEW w \in Workers, UNCHANGED <<chain, draws>>,
         NEW s, pc' = [pc EXCEPT ![w] = s], s \notin Scanning \cup Selected,
         \A v \in Workers \ {w} : /\ held'[v] = held[v] /\ tip'[v] = tip[v]
                                  /\ height'[v] = height[v] /\ close'[v] = close[v]
                                  /\ randomness'[v] = randomness[v]
  PROVE  CloseInv'
<1>1. \A v \in Workers : pc'[v] \in Scanning \cup Selected => v # w /\ pc'[v] = pc[v]
  BY DEF BaseInv, TypeOK
<1>2. ScanInv'
  BY <1>1 DEF CloseInv, ScanInv, Settled, Scanning
<1>3. SelectedInv'
  BY <1>1 DEF CloseInv, SelectedInv, Cutoff, OneChain, Selected, Complete
<1>4. CloseBlockKept' /\ DrawnFromOneChain'
  BY DEF CloseInv, CloseBlockKept, DrawnFromOneChain, Drawn
<1> QED
  BY <1>2, <1>3, <1>4 DEF CloseInv

\* A reorganisation changes nothing that a worker or a draw relies on.
LEMMA AdoptClose ==
  ASSUME MaxReorg <= Delay + 1, BaseInv, CloseInv, NEW c \in Chains, Adopt(c)
  PROVE  CloseInv'
<1>1. /\ UNCHANGED <<draws, canonical, jobs, held, pc, tip, height, close, randomness>>
      /\ Delay \in Nat /\ MaxReorg \in Nat /\ Tip(chain) \in Nat
  BY ChainFacts, DrawAssumption DEF Adopt, local, BaseInv, TypeOK
<1>2. ScanInv'
  <2> SUFFICES ASSUME NEW w \in Workers, pc[w] \in Scanning
               PROVE  /\ \A h \in height[w] + 1 .. tip[w] :
                           Settled(w, h) => BlockAt(chain', h).time >= end_time[held[w]]
                      /\ pc[w] = "close" /\ Settled(w, height[w]) =>
                           BlockAt(chain', height[w]).time < end_time[held[w]]
    BY <1>1 DEF ScanInv, Settled, Scanning
  <2>1. height[w] \in Nat /\ tip[w] \in Nat
    BY DEF BaseInv, TypeOK
  <2>2. \A h \in Nat : Settled(w, h) => BlockAt(chain', h) = BlockAt(chain, h)
    BY SettledKept
  <2> QED
    BY <2>1, <2>2 DEF CloseInv, ScanInv
<1>3. SelectedInv'
  <2> SUFFICES ASSUME NEW w \in Workers, pc[w] \in Selected
               PROVE  /\ BlockAt(chain', height[w]) = BlockAt(chain, height[w])
                      /\ BlockAt(chain', height[w] - 1) = BlockAt(chain, height[w] - 1)
    BY <1>1 DEF CloseInv, SelectedInv, Cutoff, OneChain, Complete
  <2>1. /\ height[w] \in Nat /\ tip[w] \in Nat
        /\ height[w] > 0 /\ height[w] + Delay + 1 <= tip[w]
    BY DEF BaseInv, TypeOK, HeightInv
  <2>2. Settled(w, height[w]) /\ Settled(w, height[w] - 1) /\ height[w] - 1 \in Nat
    BY <1>1, <2>1 DEF Settled
  <2> QED
    BY <2>1, <2>2, SettledKept
<1>4. CloseBlockKept'
  <2> SUFFICES ASSUME NEW r \in Drawn
               PROVE  LET h == draws[r].close_height
                      IN  /\ BlockAt(chain', h) = BlockAt(chain, h)
                          /\ BlockAt(chain', h - 1) = BlockAt(chain, h - 1)
    BY <1>1 DEF CloseInv, CloseBlockKept, Drawn
  <2> DEFINE h == draws[r].close_height
  <2>1. h \in Nat /\ h > 0 /\ h + Delay + 1 <= Tip(chain)
    BY <1>1 DEF BaseInv, TypeOK, DrawnInv, Drawn, Draw
  <2> HIDE DEF h
  <2>2. h <= Tip(chain) - MaxReorg /\ h - 1 <= Tip(chain) - MaxReorg /\ h - 1 \in Nat
    BY <1>1, <2>1
  <2>3. BlockAt(chain', h) = BlockAt(chain, h) /\ BlockAt(chain', h - 1) = BlockAt(chain, h - 1)
    BY <2>1, <2>2, AdoptKeeps DEF BaseInv
  <2> QED
    BY <2>3 DEF h
<1>5. DrawnFromOneChain'
  BY <1>1 DEF CloseInv, DrawnFromOneChain, Drawn
<1> QED
  BY <1>2, <1>3, <1>4, <1>5 DEF CloseInv

\* The handler reads blocks of settled heights only where it relies on them.
LEMMA InnerClose ==
  ASSUME MaxReorg <= Delay + 1, BaseInv, CloseInv, NEW w \in Workers, Inner(w)
  PROVE  CloseInv'
<1>1. /\ Delay \in Nat /\ MaxReorg \in Nat /\ Tip(chain) \in Nat /\ chain \in Chains
      /\ \A h \in 0 .. Tip(chain) : BlockAt(chain, h) \in Block /\ BlockAt(chain, h).time \in Nat
      /\ tip[w] \in Nat /\ height[w] \in Nat
  BY ChainFacts, DrawAssumption DEF BaseInv, TypeOK
<1>2. pc[w] # "idle" => held[w] \in Raffles /\ end_time[held[w]] \in Nat
  BY HeldRaffle, DrawAssumption DEF BaseInv
<1>3. CASE tip_height(w)
  <2>1. /\ pc[w] = "tip" /\ pc' = [pc EXCEPT ![w] = "scan"]
        /\ tip' = [tip EXCEPT ![w] = Tip(chain)] /\ height' = [height EXCEPT ![w] = Tip(chain)]
        /\ UNCHANGED <<chain, draws, canonical, jobs, held, close, randomness>>
    BY <1>3 DEF tip_height, Goto
  <2>2. ScanInv'
    BY <1>1, <2>1 DEF BaseInv, TypeOK, CloseInv, ScanInv, Settled, Scanning
  <2>3. SelectedInv'
    BY <2>1 DEF BaseInv, TypeOK, CloseInv, SelectedInv, Cutoff, OneChain, Selected, Complete
  <2>4. CloseBlockKept' /\ DrawnFromOneChain'
    BY <2>1 DEF CloseInv, CloseBlockKept, DrawnFromOneChain, Drawn
  <2> QED
    BY <2>2, <2>3, <2>4 DEF CloseInv
<1>4. CASE scan_block_at(w)
  <2> DEFINE b == BlockAt(chain, height[w])
             s == ScanStep(w, b)
  <2>1. /\ pc[w] = "scan" /\ pc' = [pc EXCEPT ![w] = s]
        /\ height' = [height EXCEPT ![w] = IF s = "scan" THEN height[w] - 1 ELSE height[w]]
        /\ UNCHANGED <<chain, draws, canonical, jobs, held, tip, close, randomness>>
    BY <1>4 DEF scan_block_at, Goto
  <2>2. held[w] \in Raffles /\ end_time[held[w]] \in Nat /\ b.time \in Nat
    BY <1>1, <1>2, <2>1 DEF BaseInv, HeightInv, Scanning
  <2>3. /\ s = "scan" => b.time >= end_time[held[w]]
        /\ s = "close" => b.time < end_time[held[w]]
        /\ s \in {"scan", "close", "err"}
    BY <2>2 DEF ScanStep
  <2>4. \A h \in height[w] + 1 .. tip[w] :
          Settled(w, h) => BlockAt(chain, h).time >= end_time[held[w]]
    BY <2>1 DEF CloseInv, ScanInv, Scanning
  <2> HIDE DEF s
  <2>5. ScanInv'
    <3>1. ASSUME NEW v \in Workers, v # w
          PROVE  /\ pc'[v] = pc[v] /\ height'[v] = height[v] /\ tip'[v] = tip[v]
                 /\ held'[v] = held[v]
      BY <2>1, <3>1 DEF BaseInv, TypeOK
    <3>2. ASSUME s \in Scanning
          PROVE  \A h \in height'[w] + 1 .. tip[w] :
                   Settled(w, h) => BlockAt(chain, h).time >= end_time[held[w]]
      <4>1. CASE s = "scan"
        <5>1. height'[w] = height[w] - 1
          BY <2>1, <4>1 DEF BaseInv, TypeOK
        <5>2. ASSUME NEW h \in height'[w] + 1 .. tip[w], Settled(w, h)
              PROVE  BlockAt(chain, h).time >= end_time[held[w]]
          <6>1. h = height[w] \/ h \in height[w] + 1 .. tip[w]
            BY <1>1, <5>1
          <6> QED
            BY <2>3, <2>4, <4>1, <5>2, <6>1
        <5> QED
          BY <5>2
      <4>2. CASE s = "close"
        BY <2>1, <2>4, <4>2 DEF BaseInv, TypeOK
      <4> QED
        BY <3>2, <4>1, <4>2 DEF Scanning
    <3>3. s = "close" => height'[w] = height[w] /\ BlockAt(chain, height[w]).time < end_time[held[w]]
      BY <2>1, <2>3 DEF BaseInv, TypeOK
    <3>4. pc'[w] = s
      BY <2>1 DEF BaseInv, TypeOK
    <3> SUFFICES ASSUME NEW v \in Workers
                 PROVE  /\ pc'[v] \in Scanning =>
                             \A h \in height'[v] + 1 .. tip[v] :
                               Settled(v, h) => BlockAt(chain, h).time >= end_time[held[v]]
                        /\ pc'[v] = "close" /\ Settled(v, height'[v]) =>
                             BlockAt(chain, height'[v]).time < end_time[held[v]]
      BY <2>1 DEF ScanInv, Settled
    <3>5. CASE v = w
      BY <3>2, <3>3, <3>4, <3>5 DEF Scanning
    <3>6. CASE v # w
      BY <3>1, <3>6 DEF CloseInv, ScanInv
    <3> QED
      BY <3>5, <3>6
  <2>6. SelectedInv'
    BY <2>1, <2>3 DEF BaseInv, TypeOK, CloseInv, SelectedInv, Cutoff, OneChain, Selected, Complete
  <2>7. CloseBlockKept' /\ DrawnFromOneChain'
    BY <2>1 DEF CloseInv, CloseBlockKept, DrawnFromOneChain, Drawn
  <2> QED
    BY <2>5, <2>6, <2>7 DEF CloseInv
<1>5. CASE close_block_at(w)
  <2> DEFINE s == IF Confirmed(w) THEN "randomness" ELSE "err"
             n == height[w] + 1
             b == BlockAt(chain, n)
  <2>1. /\ pc[w] = "close" /\ pc' = [pc EXCEPT ![w] = s]
        /\ close' = [close EXCEPT ![w] = b] /\ height' = [height EXCEPT ![w] = n]
        /\ UNCHANGED <<chain, draws, canonical, jobs, held, tip, randomness>>
    BY <1>5 DEF close_block_at, Goto, CloseHeight
  <2>2. height[w] < tip[w]
    BY <2>1 DEF BaseInv, HeightInv
  <2>3. Confirmed(w) => Cutoff(n, end_time[held[w]])
    <3> SUFFICES ASSUME Confirmed(w) PROVE Cutoff(n, end_time[held[w]])
      OBVIOUS
    <3>1. n + Delay + 1 <= tip[w]
      BY <1>1 DEF Confirmed
    <3>2. Settled(w, n) /\ Settled(w, height[w]) /\ n \in height[w] + 1 .. tip[w]
      BY <1>1, <2>2, <3>1 DEF Settled
    <3>3. n - 1 = height[w]
      BY <1>1
    <3> QED
      BY <2>1, <3>2, <3>3 DEF CloseInv, ScanInv, Cutoff, Scanning
  <2>4. s \in {"randomness", "err"} /\ (s = "randomness" => Confirmed(w))
    OBVIOUS
  <2> HIDE DEF s, n
  <2>5. ScanInv'
    BY <2>1, <2>4 DEF BaseInv, TypeOK, CloseInv, ScanInv, Settled, Scanning
  <2>6. SelectedInv'
    BY <2>1, <2>3, <2>4 DEF BaseInv, TypeOK, CloseInv, SelectedInv, Cutoff, OneChain, Selected,
       Complete
  <2>7. CloseBlockKept' /\ DrawnFromOneChain'
    BY <2>1 DEF CloseInv, CloseBlockKept, DrawnFromOneChain, Drawn
  <2> QED
    BY <2>5, <2>6, <2>7 DEF CloseInv
<1>6. CASE randomness_block_at(w)
  <2> DEFINE b == BlockAt(chain, height[w] + Delay)
  <2>1. /\ pc[w] = "randomness" /\ pc' = [pc EXCEPT ![w] = "record_close"]
        /\ randomness' = [randomness EXCEPT ![w] = b]
        /\ UNCHANGED <<chain, draws, canonical, jobs, held, tip, height, close>>
    BY <1>6 DEF randomness_block_at, Goto, RandomnessHeight
  <2>2. OneChain(height[w], close[w], height[w] + Delay, b)
    BY <1>1, <2>1 DEF CloseInv, SelectedInv, OneChain, Selected, BaseInv, HeightInv
  <2> HIDE DEF b
  <2>3. ScanInv'
    BY <2>1 DEF BaseInv, TypeOK, CloseInv, ScanInv, Settled, Scanning
  <2>4. SelectedInv'
    BY <2>1, <2>2 DEF BaseInv, TypeOK, CloseInv, SelectedInv, Cutoff, OneChain, Selected, Complete
  <2>5. CloseBlockKept' /\ DrawnFromOneChain'
    BY <2>1 DEF CloseInv, CloseBlockKept, DrawnFromOneChain, Drawn
  <2> QED
    BY <2>3, <2>4, <2>5 DEF CloseInv
<1>7. CASE record_close(w) \/ record_randomness(w) \/ match_close(w) \/ match_randomness(w)
           \/ frozen_draw_context(w) \/ HandlerError(w)
  <2>1. UNCHANGED <<chain, draws, held, tip, height, close, randomness>>
    BY <1>7 DEF record_close, record_randomness, match_close, match_randomness,
       frozen_draw_context, HandlerError, local
  <2>2. PICK s : /\ pc' = [pc EXCEPT ![w] = s]
                 /\ s \in Complete => pc[w] \in Complete
                 /\ s \in Complete \cup {"err", "tip"}
    BY <1>7 DEF record_close, record_randomness, match_close, match_randomness,
       frozen_draw_context, HandlerError, Goto, Complete, Selected
  <2>3. CASE s \in Complete
    <3>1. \A v \in Workers : /\ pc'[v] \in Scanning => pc'[v] = pc[v]
                             /\ pc'[v] \in Selected => pc[v] \in Selected
                             /\ pc'[v] \in Complete => pc[v] \in Complete
      BY <2>2, <2>3 DEF BaseInv, TypeOK, Scanning, Selected, Complete
    <3>2. ScanInv'
      BY <2>1, <3>1 DEF CloseInv, ScanInv, Settled, Scanning
    <3>3. SelectedInv'
      BY <2>1, <3>1 DEF CloseInv, SelectedInv, Cutoff, OneChain
    <3>4. CloseBlockKept' /\ DrawnFromOneChain'
      BY <2>1 DEF CloseInv, CloseBlockKept, DrawnFromOneChain, Drawn
    <3> QED
      BY <3>2, <3>3, <3>4 DEF CloseInv
  <2>4. CASE s \in {"err", "tip"}
    BY <2>1, <2>2, <2>4, FrameClose DEF Scanning, Selected
  <2> QED
    BY <2>2, <2>3, <2>4
<1>8. CASE create_draw_and_payouts(w)
  <2>1. /\ pc[w] = "create" /\ UNCHANGED <<chain, canonical, jobs, held, local>>
        /\ pc' = [pc EXCEPT ![w] = "ok"] \/ pc' = [pc EXCEPT ![w] = "err"]
        /\ draws' = draws \/ draws' = [draws EXCEPT ![held[w]] = DrawOf(w)]
    BY <1>8 DEF create_draw_and_payouts, Goto
  <2>2. ScanInv'
    BY <2>1 DEF BaseInv, TypeOK, CloseInv, ScanInv, Settled, Scanning, local
  <2>3. SelectedInv'
    BY <2>1 DEF BaseInv, TypeOK, CloseInv, SelectedInv, Cutoff, OneChain, Selected, Complete, local
  <2>4. held[w] \in Raffles /\ height[w] > 0
    BY <1>2, <2>1 DEF BaseInv, HeightInv, Selected
  <2>5. /\ BlockAt(chain, height[w]) = close[w] /\ Cutoff(height[w], end_time[held[w]])
        /\ OneChain(height[w], close[w], height[w] + Delay, randomness[w])
    BY <2>1 DEF CloseInv, SelectedInv, Selected, Complete
  <2>6. /\ DrawOf(w).close_height = height[w] /\ DrawOf(w).close = close[w]
        /\ DrawOf(w).randomness_height = height[w] + Delay
        /\ DrawOf(w).randomness = randomness[w]
    BY DEF DrawOf, RandomnessHeight
  <2>7. CloseBlockKept'
    BY <2>1, <2>4, <2>5, <2>6 DEF BaseInv, TypeOK, CloseInv, CloseBlockKept, Drawn, Cutoff
  <2>8. DrawnFromOneChain'
    BY <2>1, <2>4, <2>5, <2>6 DEF BaseInv, TypeOK, CloseInv, DrawnFromOneChain, Drawn, OneChain
  <2> QED
    BY <2>2, <2>3, <2>7, <2>8 DEF CloseInv
<1> QED
  BY <1>3, <1>4, <1>5, <1>6, <1>7, <1>8 DEF Inner

\* Every step keeps CloseInv.
LEMMA StepClose ==
  ASSUME MaxReorg <= Delay + 1, BaseInv, CloseInv, [Next]_vars
  PROVE  CloseInv'
<1>1. CASE UNCHANGED vars
  BY <1>1 DEF vars, local, CloseInv, ScanInv, Settled, SelectedInv, Cutoff, OneChain, CloseBlockKept,
     DrawnFromOneChain, Drawn
<1>2. ASSUME NEW w \in Workers, Ends(w) PROVE CloseInv'
  <2>1. /\ Return(w) /\ pc' = [pc EXCEPT ![w] = "idle"] /\ held' = [held EXCEPT ![w] = NoJob]
    BY <1>2 DEF Ends, succeed_job, fail_or_retry_job, WorkerCrash, Goto, succeed, fail_or_retry,
       Finish, Abandon
  <2>2. "idle" \notin Scanning \cup Selected
    BY DEF Scanning, Selected
  <2> QED
    BY <2>1, <2>2, FrameClose DEF Return, BaseInv, TypeOK, JobTypeOK
<1>3. ASSUME NEW w \in Workers, NEW r \in Raffles, claim_job(w, r) PROVE CloseInv'
  <2>1. /\ pc' = [pc EXCEPT ![w] = "context"] /\ held' = [held EXCEPT ![w] = r]
        /\ UNCHANGED <<chain, draws, canonical, local>>
    BY <1>3 DEF claim_job, claim
  <2>2. "context" \notin Scanning \cup Selected
    BY DEF Scanning, Selected
  <2> QED
    BY <2>1, <2>2, FrameClose DEF local, BaseInv, TypeOK, JobTypeOK
<1>4. ASSUME NEW r \in Raffles, retry_operator_job(r) PROVE CloseInv'
  BY <1>4 DEF retry_operator_job, retry_dead_job, local, CloseInv, ScanInv, Settled, SelectedInv,
     Cutoff, OneChain, CloseBlockKept, DrawnFromOneChain, Drawn
<1> QED
  BY <1>1, <1>2, <1>3, <1>4, AdoptClose, InnerClose, NextCases

\* What the scan has established and what is drawn survives every
\* reorganisation of at most Delay + 1 blocks.
THEOREM CloseInvariance ==
  ASSUME MaxReorg <= Delay + 1
  PROVE  Spec => [](BaseInv /\ CloseInv)
<1>1. BaseInv /\ CloseInv /\ [Next]_vars => (BaseInv /\ CloseInv)'
  BY StepBase, StepClose
<1>2. Init => BaseInv /\ CloseInv
  BY InitBase, InitClose
<1> QED
  BY <1>1, <1>2, PTL DEF Spec

\* The close block of a draw is the one the end time singles out, and stays on
\* the chain.
THEOREM CloseIsFinal ==
  ASSUME MaxReorg <= Delay + 1
  PROVE  Spec => []CloseBlockKept
<1>1. CloseInv => CloseBlockKept
  BY DEF CloseInv
<1> QED
  BY <1>1, CloseInvariance, PTL

\* The two blocks of a draw belong to one chain.
THEOREM OneChainDrawn ==
  ASSUME MaxReorg <= Delay + 1
  PROVE  Spec => []DrawnFromOneChain
<1>1. CloseInv => DrawnFromOneChain
  BY DEF CloseInv
<1> QED
  BY <1>1, CloseInvariance, PTL

-----------------------------------------------------------------------------
(* RandomnessInv: reorganisations that take back at most one block. *)

\* Every step keeps RandomnessInv: the selected randomness block has a
\* confirmation, so only a reorganisation of two blocks could displace it.
LEMMA StepRandomness ==
  ASSUME MaxReorg <= 1, BaseInv, RandomnessInv, [Next]_vars
  PROVE  RandomnessInv'
<1> DEFINE Kept == \A w \in Workers : pc[w] \in Complete =>
                     BlockAt(chain, height[w] + Delay) = randomness[w]
<1>1. CASE UNCHANGED vars
  BY <1>1 DEF vars, local, RandomnessInv, RandomnessBlockKept, Drawn
<1>2. ASSUME NEW c \in Chains, Adopt(c) PROVE RandomnessInv'
  <2>1. /\ UNCHANGED <<draws, pc, tip, height, randomness>>
        /\ Delay \in Nat /\ MaxReorg \in Nat /\ Tip(chain) \in Nat
    BY <1>2, ChainFacts, DrawAssumption DEF Adopt, local, BaseInv, TypeOK
  <2>2. Kept'
    <3> SUFFICES ASSUME NEW w \in Workers, pc[w] \in Complete
                 PROVE  BlockAt(chain', height[w] + Delay) = BlockAt(chain, height[w] + Delay)
      BY <2>1 DEF RandomnessInv
    <3>1. height[w] \in Nat /\ tip[w] \in Nat /\ height[w] + Delay + 1 <= tip[w]
      BY DEF BaseInv, TypeOK, HeightInv, Complete
    <3>2. Settled(w, height[w] + Delay) /\ height[w] + Delay \in Nat
      BY <2>1, <3>1 DEF Settled
    <3> QED
      BY <1>2, <3>2, SettledKept DEF Complete
  <2>3. RandomnessBlockKept'
    <3> SUFFICES ASSUME NEW r \in Drawn
                 PROVE  BlockAt(chain', draws[r].randomness_height)
                          = BlockAt(chain, draws[r].randomness_height)
      BY <2>1 DEF RandomnessInv, RandomnessBlockKept, Drawn
    <3>1. /\ draws[r].randomness_height \in Nat
          /\ draws[r].randomness_height + 1 <= Tip(chain)
      BY DEF BaseInv, TypeOK, DrawnInv, Drawn, Draw
    <3>2. draws[r].randomness_height <= Tip(chain) - MaxReorg
      BY <2>1, <3>1
    <3> QED
      BY <1>2, <3>1, <3>2, AdoptKeeps DEF BaseInv
  <2> QED
    BY <2>2, <2>3 DEF RandomnessInv
<1>3. ASSUME NEW w \in Workers, randomness_block_at(w) PROVE RandomnessInv'
  BY <1>3 DEF randomness_block_at, Goto, RandomnessHeight, BaseInv, TypeOK, RandomnessInv,
     RandomnessBlockKept, Drawn
<1>4. ASSUME NEW w \in Workers, create_draw_and_payouts(w) PROVE RandomnessInv'
  <2>1. /\ pc[w] = "create" /\ UNCHANGED <<chain, canonical, jobs, held, local>>
        /\ pc' = [pc EXCEPT ![w] = "ok"] \/ pc' = [pc EXCEPT ![w] = "err"]
        /\ draws' = draws \/ draws' = [draws EXCEPT ![held[w]] = DrawOf(w)]
    BY <1>4 DEF create_draw_and_payouts, Goto
  <2>2. Kept'
    BY <2>1 DEF local, BaseInv, TypeOK, RandomnessInv, Complete, Selected
  <2>3. /\ DrawOf(w).randomness_height = height[w] + Delay
        /\ DrawOf(w).randomness = randomness[w]
    BY DEF DrawOf, RandomnessHeight
  <2>4. BlockAt(chain, height[w] + Delay) = randomness[w]
    BY <2>1 DEF RandomnessInv, Complete, Selected
  <2>5. RandomnessBlockKept'
    BY <2>1, <2>3, <2>4 DEF BaseInv, TypeOK, RandomnessInv, RandomnessBlockKept, Drawn
  <2> QED
    BY <2>2, <2>5 DEF RandomnessInv
<1>5. ASSUME NEW w \in Workers, Inner(w) \/ Ends(w) \/ (\E r \in Raffles : claim_job(w, r)),
             ~randomness_block_at(w), ~create_draw_and_payouts(w)
      PROVE  RandomnessInv'
  <2>1. /\ UNCHANGED <<chain, draws>>
        /\ \A v \in Workers : pc'[v] \in Complete =>
             /\ pc[v] \in Complete
             /\ height'[v] = height[v] /\ randomness'[v] = randomness[v]
    <3>1. CASE Inner(w)
      <4>1. CASE tip_height(w) \/ scan_block_at(w) \/ close_block_at(w)
        BY <4>1 DEF tip_height, scan_block_at, close_block_at, ScanStep, Goto, BaseInv, TypeOK,
           Complete, Selected
      <4>2. CASE \/ record_close(w) \/ record_randomness(w) \/ match_close(w)
                 \/ match_randomness(w) \/ frozen_draw_context(w) \/ HandlerError(w)
        BY <4>2 DEF record_close, record_randomness, match_close, match_randomness,
           frozen_draw_context, HandlerError, local, Goto, BaseInv, TypeOK, Complete, Selected
      <4> QED
        BY <1>5, <3>1, <4>1, <4>2 DEF Inner
    <3>2. CASE Ends(w)
      BY <3>2 DEF Ends, succeed_job, fail_or_retry_job, WorkerCrash, Return, Goto, BaseInv, TypeOK,
         Complete, Selected
    <3>3. CASE \E r \in Raffles : claim_job(w, r)
      BY <3>3 DEF claim_job, local, BaseInv, TypeOK, Complete, Selected
    <3> QED
      BY <1>5, <3>1, <3>2, <3>3
  <2> QED
    BY <2>1 DEF RandomnessInv, RandomnessBlockKept, Drawn
<1>6. ASSUME NEW r \in Raffles, retry_operator_job(r) PROVE RandomnessInv'
  BY <1>6 DEF retry_operator_job, local, RandomnessInv, RandomnessBlockKept, Drawn
<1> QED
  BY <1>1, <1>2, <1>3, <1>4, <1>5, <1>6, NextCases

\* With one confirmation the randomness block of a draw stays on the chain.
THEOREM RandomnessIsFinal ==
  ASSUME MaxReorg <= 1
  PROVE  Spec => []RandomnessBlockKept
<1>1. Init => BaseInv /\ RandomnessInv
  BY InitBase DEF Init, RandomnessInv, RandomnessBlockKept, Drawn, Complete, Selected
<1>2. BaseInv /\ RandomnessInv /\ [Next]_vars => (BaseInv /\ RandomnessInv)'
  BY StepBase, StepRandomness
<1>3. RandomnessInv => RandomnessBlockKept
  BY DEF RandomnessInv
<1> QED
  BY <1>1, <1>2, <1>3, PTL DEF Spec

\* No step replaces a stored draw.
LEMMA DrawKept ==
  ASSUME BaseInv, [Next]_vars, NEW r \in Drawn
  PROVE  draws'[r] = draws[r] /\ r \in Drawn'
<1>1. ASSUME NEW w \in Workers, create_draw_and_payouts(w) PROVE draws'[r] = draws[r]
  BY <1>1 DEF create_draw_and_payouts, MayDraw, Drawn, BaseInv, TypeOK
<1>2. draws'[r] = draws[r]
  BY <1>1 DEF Next, vars, Adopt, HandlerStep, FaultStep, frozen_draw_context, tip_height,
     scan_block_at, close_block_at, randomness_block_at, record_close, record_randomness,
     match_close, match_randomness, succeed_job, fail_or_retry_job, HandlerError, WorkerCrash,
     Return, claim_job, retry_operator_job
<1> QED
  BY <1>2 DEF Drawn

\* A raffle is drawn once, whoever selected which blocks (create_draw_and_payouts).
THEOREM DrawnOnce == Spec => DrawIsFinal
<1>1. BaseInv /\ [Next]_vars => [\A r \in Drawn : draws'[r] = draws[r]]_vars
  BY DrawKept
<1> QED
  BY <1>1, BaseInvariance, PTL DEF Spec, DrawIsFinal

-----------------------------------------------------------------------------
(* The job that draws. *)

\* A handler comes to Ok only by storing the draw.
LEMMA OkStored ==
  ASSUME BaseInv, Next, \A w \in Workers : pc[w] = "ok" => held[w] \in Drawn,
         NEW v \in Workers, pc'[v] = "ok"
  PROVE  held'[v] \in Drawn'
<1>0. pc \in [Workers -> WorkerStep] /\ held \in [Workers -> Raffles \cup {NoJob}]
  BY DEF BaseInv, TypeOK, JobTypeOK
<1>1. CASE pc[v] = "ok" /\ held'[v] = held[v]
  BY <1>1, DrawKept
<1>2. CASE create_draw_and_payouts(v)
  <2>1. held[v] \in Raffles /\ held' = held
    BY <1>2, HeldRaffle DEF BaseInv, create_draw_and_payouts, Goto
  <2>2. pc[v] = "create" /\ draws' = [draws EXCEPT ![held[v]] = DrawOf(v)]
    BY <1>0, <1>2 DEF create_draw_and_payouts, Goto
  <2>3. DrawOf(v) \in Draw
    <3>1. close[v] \in Block /\ randomness[v] \in Block
      BY <2>2 DEF BaseInv, ControlInv, Selected, Complete
    <3>2. height[v] \in Nat /\ height[v] + Delay \in Nat
      BY DrawAssumption DEF BaseInv, TypeOK
    <3> QED
      BY <3>1, <3>2 DEF DrawOf, Draw, RandomnessHeight
  <2>4. draws'[held[v]] # NoDraw
    <3>1. draws'[held[v]] = DrawOf(v)
      BY <2>1, <2>2 DEF BaseInv, TypeOK
    <3> QED
      BY <2>3, <3>1, DrawAssumption
  <2> QED
    BY <2>1, <2>4 DEF Drawn
<1>3. ASSUME NEW w \in Workers, Inner(w), ~(w = v /\ create_draw_and_payouts(w))
      PROVE  pc[v] = "ok" /\ held'[v] = held[v]
  <2>1. \A b : ScanStep(w, b) # "ok"
    BY DEF ScanStep
  <2> QED
    BY <1>0, <1>3, <2>1 DEF Inner, frozen_draw_context, tip_height, scan_block_at, close_block_at,
       randomness_block_at, record_close, record_randomness, match_close, match_randomness,
       create_draw_and_payouts, HandlerError, Goto
<1>4. ASSUME NEW w \in Workers, Ends(w) PROVE pc[v] = "ok" /\ held'[v] = held[v]
  BY <1>0, <1>4 DEF Ends, succeed_job, fail_or_retry_job, WorkerCrash, Goto, succeed,
     fail_or_retry, Finish, Abandon
<1>5. ASSUME NEW w \in Workers, NEW r \in Raffles, claim_job(w, r)
      PROVE  pc[v] = "ok" /\ held'[v] = held[v]
  BY <1>0, <1>5 DEF claim_job, claim
<1>6. CASE (\E c \in Chains : Adopt(c)) \/ \E r \in Raffles : retry_operator_job(r)
  BY <1>1, <1>6 DEF Adopt, retry_operator_job, retry_dead_job
<1> QED
  BY <1>1, <1>2, <1>3, <1>4, <1>5, <1>6, NextCases

\* What a step does to a row of the jobs table.
LEMMA RowMoves ==
  ASSUME BaseInv, Next, NEW r \in Raffles
  PROVE  \/ jobs'[r] = jobs[r]
         \/ jobs'[r].status \in {"queued", "running", "dead"}
         \/ \E w \in Workers : pc[w] = "ok" /\ held[w] = r
<1>0. /\ jobs \in [Raffles -> [status : JobStatus, lease_owner : Workers \cup {NoWorker}]]
      /\ held \in [Workers -> Raffles \cup {NoJob}]
  BY DEF BaseInv, TypeOK, JobTypeOK
<1>1. ASSUME NEW w \in Workers, NEW s, Finish(w, s)
      PROVE  jobs'[r] = jobs[r] \/ (held[w] = r /\ jobs'[r].status = s)
  <2>1. held[w] \in Raffles
    BY <1>0, <1>1 DEF Finish
  <2> QED
    BY <1>0, <1>1, <2>1 DEF Finish, JobRow
<1>2. ASSUME NEW w \in Workers, Ends(w)
      PROVE  \/ jobs'[r] = jobs[r]
             \/ jobs'[r].status \in {"queued", "running", "dead"}
             \/ pc[w] = "ok" /\ held[w] = r
  BY <1>1, <1>2 DEF Ends, succeed_job, fail_or_retry_job, WorkerCrash, Goto, succeed,
     fail_or_retry, Abandon
<1>3. ASSUME NEW w \in Workers, NEW k \in Raffles, claim_job(w, k)
      PROVE  jobs'[r] = jobs[r] \/ jobs'[r].status = "running"
  BY <1>0, <1>3 DEF claim_job, claim, JobRow
<1>4. ASSUME NEW k \in Raffles, retry_operator_job(k)
      PROVE  jobs'[r] = jobs[r] \/ jobs'[r].status = "queued"
  BY <1>0, <1>4 DEF retry_operator_job, retry_dead_job, JobRow
<1>5. ASSUME NEW w \in Workers, Inner(w) PROVE jobs' = jobs
  BY <1>5 DEF Inner, frozen_draw_context, tip_height, scan_block_at, close_block_at,
     randomness_block_at, record_close, record_randomness, match_close, match_randomness,
     create_draw_and_payouts, HandlerError
<1>6. ASSUME NEW c \in Chains, Adopt(c) PROVE jobs' = jobs
  BY <1>6 DEF Adopt
<1> QED
  BY <1>2, <1>3, <1>4, <1>5, <1>6, NextCases

\* A raffle that waits for its draw has a raffle.draw job that has not succeeded
\* (run_jobs, with every error of the selection, lost lease and crash).
THEOREM WorkIsScheduled == Spec => []WorkScheduled
<1>1. Init => ScheduleInv
  BY DEF Init, ScheduleInv, WorkScheduled, JobRow
<1>2. BaseInv /\ ScheduleInv /\ [Next]_vars => ScheduleInv'
  <2> SUFFICES ASSUME BaseInv, ScheduleInv, [Next]_vars PROVE ScheduleInv'
    OBVIOUS
  <2>1. CASE UNCHANGED vars
    BY <2>1 DEF vars, ScheduleInv, WorkScheduled, Drawn
  <2>2. CASE Next
    <3>1. \A w \in Workers : pc[w] = "ok" => held[w] \in Drawn
      BY DEF ScheduleInv
    <3>2. \A v \in Workers : pc'[v] = "ok" => held'[v] \in Drawn'
      BY <2>2, <3>1, OkStored
    <3>3. ASSUME NEW r \in Raffles, r \notin Drawn'
          PROVE  jobs'[r].status \in {"queued", "running", "dead"}
      <4>1. r \notin Drawn
        BY <3>3, DrawKept
      <4>2. jobs[r].status \in {"queued", "running", "dead"}
        BY <4>1 DEF ScheduleInv, WorkScheduled
      <4> QED
        BY <2>2, <3>1, <4>1, <4>2, RowMoves
    <3> QED
      BY <3>2, <3>3 DEF ScheduleInv, WorkScheduled
  <2> QED
    BY <2>1, <2>2
<1>3. ScheduleInv => WorkScheduled
  BY DEF ScheduleInv
<1> QED
  BY <1>1, <1>2, <1>3, BaseInvariance, PTL DEF Spec
=============================================================================
