------------------------------ MODULE MCSession ------------------------------
(* Instances of Session, with a holiday that only the API publishes. *)
EXTENDS Session

CONSTANT
  ChangeSlots   \* bound: the slots of a day in which the calendar changes

MCPublished == {{1}}

\* What the theorem about next_open takes for granted.
ASSUME OpenSoon == NoLongClosure

\* Bound: the work that may raise, with its day, and only where it has an order
\* to work on: otherwise a raise changes nothing but what it excuses.
MayRaise == {<<"expiry", 1>>, <<"amo", 1>>}
InVain == Pending(IF pc = "expiry" THEN {"DAY"} ELSE {"AMO"}) = {}

\* Bound: requests are checked only while an id is left for their order.
MCNext ==
  /\ Next
  /\ ChangeCalendar => SlotOf(now) \in ChangeSlots
  /\ raised' \subseteq MayRaise
  /\ InVain => raised' = raised
  /\ checked' # Nobody => DOMAIN orders # OrderIds

MCSpec == Init /\ [][MCNext]_vars
=============================================================================
