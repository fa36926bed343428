------------------------------- MODULE MCFeed -------------------------------
(* Instances of Feed. *)
EXTENDS Feed

\* Three honest members that differ by a few ticks; the fourth may be wrong.
MCMembers == {"m1", "m2", "m3", "bad"}
MCLast == [m1 |-> 20, m2 |-> 21, m3 |-> 23, bad |-> 22]
MCBadLasts == {22, 10, 40}
MCRealTime == {"upstox", "m1", "m2"}
MCRich == {"upstox", "m2", "m3"}
MCChain == <<"upstox", "composite">>
=============================================================================
