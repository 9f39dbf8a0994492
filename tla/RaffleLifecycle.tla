-------------------------- MODULE RaffleLifecycle ---------------------------
(***************************************************************************)
(* What a raffle promises to those who pay into it, and nothing of how:    *)
(* it takes money while it is OPEN only, is drawn only if it has taken     *)
(* any, gives out no more than it took, and is PAID_OUT when all of it has *)
(* been given out.  Collection implements the first half, up to the        *)
(* frozen ledger, and Settlement the second, from there: the two meet in   *)
(* the states of Frozen.                                                   *)
(***************************************************************************)
EXTENDS Integers

VARIABLES status,        \* of the raffle
          pool,          \* what it has taken, in satoshi
          paid           \* what was transferred to its recipients

vars == <<status, pool, paid>>

Init == status = "absent" /\ pool = 0 /\ paid = 0

Frozen == status = "RANDOMNESS_PENDING" /\ pool > 0 /\ paid = 0

-----------------------------------------------------------------------------
Move(from, to) == status \in from /\ status' = to /\ UNCHANGED <<pool, paid>>

Prepare ==
  \/ Move({"absent"}, "DRAFT")
  \/ Move({"DRAFT"}, "SCHEDULED")
  \/ Move({"SCHEDULED"}, "OPEN")

Cancel == Move({"DRAFT", "SCHEDULED", "OPEN"}, "CANCELLED")

Sell == status = "OPEN" /\ pool' > pool /\ UNCHANGED <<status, paid>>

Close == Move({"OPEN"}, "CLOSING")

Freeze == Move({"CLOSING"}, IF pool = 0 THEN "CANCELLED" ELSE "RANDOMNESS_PENDING")

Draw == Move({"RANDOMNESS_PENDING"}, "PAYOUT_PENDING")

Pay == status = "PAYOUT_PENDING" /\ paid' > paid /\ paid' <= pool /\ UNCHANGED <<status, pool>>

Finish == paid = pool /\ Move({"PAYOUT_PENDING"}, "PAID_OUT")

Next == Prepare \/ Cancel \/ Sell \/ Close \/ Freeze \/ Draw \/ Pay \/ Finish

\* One raffle of several may stand still while another one moves.
Step == Next \/ UNCHANGED vars

Spec == Init /\ [][Next]_vars

FrozenSpec == Frozen /\ [][Next]_vars
=============================================================================
