---------------------------- MODULE MCSettlement ----------------------------
(* Instances of Settlement: clients and ids are alike. *)
EXTENDS Settlement, TLC

Symmetry == Permutations(Clients) \cup Permutations(RestingIds)

\* Bound: while shares are in flight or delivery sells are under way, every
\* intraday fill is counted, and none comes after the net was read.
NoDelivery ==
  owed = Nothing /\ resting = [o \in RestingIds |-> 0] /\ wants = [c \in Clients |-> 0]
AllCounted == sliced = NoSlices /\ missed = 0 /\ extra = 0 /\ late = 0

MCNext == SettleNext /\ (NoDelivery' \/ AllCounted')

MCSpec == SettleInit /\ [][MCNext]_settleVars
=============================================================================
