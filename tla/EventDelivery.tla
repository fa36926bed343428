---------------------------- MODULE EventDelivery ----------------------------
(****************************************************************************)
(* What the callback bus does for its subscribers (observability.py 16,     *)
(* _context.py 103-110): the event log grows with the transactions that     *)
(* commit, and each subscriber is called with logged events only, once for  *)
(* each.  The one exception are the events of a rights issue, which drains  *)
(* inside its transaction (rights.py 98, 125).                              *)
(****************************************************************************)
EXTENDS Integers

CONSTANTS Events, Subscribers

VARIABLES
  log,          \* the committed rows of table events
  early,        \* rows of an open rights issue, which may be shown already
  delivered     \* how often each subscriber was called with each event

vars == <<log, early, delivered>>

Init ==
  /\ log = {} /\ early = {}
  /\ delivered = [s \in Subscribers |-> [e \in Events |-> 0]]

\* A rights issue opens its transaction and emits e.
Announce(e) ==
  /\ early = {} /\ e \notin log
  /\ early' = {e}
  /\ UNCHANGED <<log, delivered>>

\* A transaction commits with the events S; an open rights issue is the only
\* transaction there is.
Commit(S) ==
  /\ S \cap log = {} /\ early \in {{}, S}
  /\ log' = log \cup S /\ early' = {}
  /\ UNCHANGED delivered

\* The bus calls a subscriber with one event.
Deliver(s, e) ==
  /\ e \in log \cup early /\ delivered[s][e] = 0
  /\ delivered' = [delivered EXCEPT ![s][e] = 1]
  /\ UNCHANGED <<log, early>>

Next ==
  \/ \E S \in SUBSET Events : Commit(S)
  \/ \E e \in Events : Announce(e) \/ \E s \in Subscribers : Deliver(s, e)

Spec == Init /\ [][Next]_vars
=============================================================================
