-------------------------- MODULE DrawSelectionInv --------------------------
(***************************************************************************)
(* The inductive invariants of DrawSelection: what a worker that has read  *)
(* the tip still knows of the chain when it has changed under the scan.    *)
(***************************************************************************)
EXTENDS DrawSelection

Scanning == {"scan", "close"}
Selected == {"randomness", "record_close", "record_randomness", "match_close",
             "match_randomness", "create"}
Complete == Selected \ {"randomness"}

ControlInv ==
  \A w \in Workers :
    /\ pc[w] = "idle" <=> held[w] = NoJob
    /\ pc[w] \in Selected => close[w] \in Block
    /\ pc[w] \in Complete => randomness[w] \in Block

\* The scan stays within the chain, and the selected heights leave room for the
\* confirmation.
HeightInv ==
  \A w \in Workers :
    /\ pc[w] \in Scanning \cup Selected => tip[w] <= Tip(chain)
    /\ pc[w] = "scan" => height[w] <= tip[w]
    /\ pc[w] = "close" => height[w] < tip[w]
    /\ pc[w] \in Selected => height[w] > 0 /\ height[w] + Delay + 1 <= tip[w]

\* A stored draw keeps the selected heights.
DrawnInv ==
  \A r \in Drawn : /\ draws[r].close_height > 0
                   /\ draws[r].randomness_height = draws[r].close_height + Delay
                   /\ draws[r].randomness_height + 1 <= Tip(chain)

BaseInv == TypeOK /\ ControlInv /\ HeightInv /\ DrawnInv

\* A handler ends with Ok only when the draw is stored.
ScheduleInv ==
  /\ \A w \in Workers : pc[w] = "ok" => held[w] \in Drawn
  /\ WorkScheduled

\* The height is out of reach of every reorganisation since w read the tip.
Settled(w, h) == h <= tip[w] - MaxReorg

\* h is the height that the end time t singles out on the explorer's chain.
Cutoff(h, t) == BlockAt(chain, h).time >= t /\ BlockAt(chain, h - 1).time < t

\* What the scan has seen of the settled heights.
ScanInv ==
  \A w \in Workers :
    /\ pc[w] \in Scanning =>
         \A h \in height[w] + 1 .. tip[w] :
           Settled(w, h) => BlockAt(chain, h).time >= end_time[held[w]]
    /\ pc[w] = "close" /\ Settled(w, height[w]) =>
         BlockAt(chain, height[w]).time < end_time[held[w]]

OneChain(h, b, k, e) ==
  \E c \in Chains : k <= Tip(c) /\ BlockAt(c, h) = b /\ BlockAt(c, k) = e

SelectedInv ==
  \A w \in Workers :
    /\ pc[w] \in Selected => /\ BlockAt(chain, height[w]) = close[w]
                             /\ Cutoff(height[w], end_time[held[w]])
    /\ pc[w] \in Complete =>
         OneChain(height[w], close[w], height[w] + Delay, randomness[w])

\* When reorganisations take back at most Delay + 1 blocks.
CloseInv == ScanInv /\ SelectedInv /\ CloseBlockKept /\ DrawnFromOneChain

\* When they take back at most one block.
RandomnessInv ==
  /\ \A w \in Workers : pc[w] \in Complete =>
       BlockAt(chain, height[w] + Delay) = randomness[w]
  /\ RandomnessBlockKept
=============================================================================
