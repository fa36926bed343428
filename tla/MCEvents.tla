------------------------------- MODULE MCEvents -------------------------------
(* Instances of Events: events and threads are alike. *)
EXTENDS Events, TLC

MCBoot == SetToSeq(Subscribers \ Joiners)
MCLeaverFirst ==
  SetToSeq(Leavers \ Joiners) \o SetToSeq(Subscribers \ (Leavers \cup Joiners))

Symmetry == Permutations(Events) \cup Permutations(Threads)
=============================================================================
