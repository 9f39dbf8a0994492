---------------------------- MODULE MCSettlement ----------------------------
(* TLC instances of Settlement. *)
EXTENDS SettlementInv

\* The split of the protocol's tests.
MCSplits == {[winner |-> 9500, organizer |-> 400, platform |-> 100]}

\* Two payouts of any larger pool.
MCSplitTwo == {[winner |-> 9900, organizer |-> 0, platform |-> 100]}
=============================================================================
