------------------------------- MODULE Events -------------------------------
(****************************************************************************)
(* The event bus of one broker: emit() inside transactions, the list        *)
(* pending_events that all threads of the broker share, and                 *)
(* drain_pending_events, which publishes to subscribers.                    *)
(*                                                                          *)
(* Python switches threads between any two of these steps, so they are      *)
(* steps here: the read of the attribute pending_events, the append to the  *)
(* list it held, the test for emptiness, the read before the swap, the swap *)
(* and each call of a subscriber.  Lists are objects: the attribute names   *)
(* the current one, and a thread may still append to, or send from, one     *)
(* that has been replaced.  A subscriber may itself use the broker, so a    *)
(* thread has a stack of frames.                                            *)
(*                                                                          *)
(* Abstractions.                                                            *)
(*  - A transaction is the events it emits, at least one; what it raises is *)
(*    raised before the first emit, so it then commits.                     *)
(*  - Subscribers have no filters: one that wants only some events ignores  *)
(*    the others.  An exception of a subscriber is swallowed.               *)
(*  - replay_from_broker is left out: it publishes rows of the log again.   *)
(*  - Inside a transaction a subscriber's own BEGIN fails and is swallowed. *)
(****************************************************************************)
EXTENDS Integers, Sequences, SequencesExt

CONSTANTS
  Threads,      \* threads that use one broker
  Events,       \* bound: the events of a behaviour, each emitted once
  Operations,   \* "usual" drains after its commit, "rights" before it
  MaxDepth,     \* bound: how deep subscribers call the broker again
  Subscribers,  \* callbacks
  Boot,         \* those registered when the broker starts, in order
  Joiners,      \* those that are registered at any time
  Leavers,      \* those that are unregistered at any time
  NoThread

VARIABLES
  lock,         \* the thread inside BEGIN IMMEDIATE .. COMMIT
  uncommitted,  \* event rows of the open transaction
  log,          \* committed event rows
  lists,        \* the list objects, in order of creation
  pending,      \* the list that pending_events names
  stack,        \* per thread: its calls into the broker, innermost last
  subscribers,  \* EventBus.subscribers
  delivered,    \* how often each subscriber was called with each event
  passed        \* history: subscribers that moved up in the list while it was
                \* their turn, with the event that was being published

busVars == <<subscribers, delivered, passed>>
eventVars == <<lock, uncommitted, log, lists, pending, stack, busVars>>

ASSUME EventsAssumption ==
  /\ Operations \subseteq {"usual", "rights"}
  /\ MaxDepth \in Nat
  /\ NoThread \notin Threads
  /\ Boot \in Seq(Subscribers) /\ IsInjective(Boot)
  /\ Joiners \cup Leavers \subseteq Subscribers

Frame == [op: Operations,
          pc: {"append", "open", "test", "take", "swap", "send", "publish", "commit"},
          event: Events,        \* the event being emitted
          list: Nat,            \* the list object in hand
          next: Nat,            \* the iterator of the list of events
          sub: Nat]             \* and that of the list of subscribers

Top(t) == Last(stack[t])
At(t, point) == stack[t] # <<>> /\ Top(t).pc = point
Rights(t) == Top(t).op = "rights"

\* The calls of t after its innermost frame moved on, or returned.
Moved(t, frame) == [stack EXCEPT ![t] = Append(Front(@), frame)]
Returned(t) == [stack EXCEPT ![t] = Front(@)]

Fresh(e) == e \notin uncommitted \cup log

EventsInit ==
  /\ lock = NoThread /\ uncommitted = {} /\ log = {}
  /\ lists = << <<>> >> /\ pending = 1
  /\ stack = [t \in Threads |-> <<>>]
  /\ subscribers = Boot
  /\ delivered = [s \in Subscribers |-> [e \in Events |-> 0]]
  /\ passed = {}

\* BEGIN IMMEDIATE and the first emit: its row is inserted and the attribute
\* is read.  A thread calls from outside, or from a subscriber it is in.
Begin(t, op, e) ==
  /\ lock = NoThread /\ Fresh(e)
  /\ \/ stack[t] = <<>>
     \/ At(t, "publish") /\ Top(t).sub > 1 /\ Len(stack[t]) < MaxDepth
  /\ lock' = t
  /\ uncommitted' = {e}
  /\ stack' = [stack EXCEPT ![t] = Append(@,
       [op |-> op, pc |-> "append", event |-> e, list |-> pending, next |-> 1,
        sub |-> 1])]
  /\ UNCHANGED <<log, lists, pending, busVars>>

\* A further emit of the same transaction; a rights issue emits once.
EmitMore(t, e) ==
  /\ At(t, "open") /\ ~Rights(t) /\ Fresh(e)
  /\ uncommitted' = uncommitted \cup {e}
  /\ stack' = Moved(t, [Top(t) EXCEPT !.pc = "append", !.event = e,
                                      !.list = pending])
  /\ UNCHANGED <<lock, log, lists, pending, busVars>>

\* The append, to the list that was read.
AppendEvent(t) ==
  /\ At(t, "append")
  /\ lists' = [lists EXCEPT ![Top(t).list] = Append(@, Top(t).event)]
  /\ stack' = Moved(t, [Top(t) EXCEPT !.pc = "open"])
  /\ UNCHANGED <<lock, uncommitted, log, pending, busVars>>

\* rights.apply, when it subscribes no shares, drains while its transaction
\* is open (rights.py 98, 125); everybody else commits first.
DrainInside(t) ==
  /\ At(t, "open") /\ Rights(t)
  /\ stack' = Moved(t, [Top(t) EXCEPT !.pc = "test"])
  /\ UNCHANGED <<lock, uncommitted, log, lists, pending, busVars>>

\* The return from drain_pending_events: to the open transaction of a rights
\* issue, or out of the broker.
Drained(t) ==
  stack' = IF Rights(t) THEN Moved(t, [Top(t) EXCEPT !.pc = "commit"])
           ELSE Returned(t)

\* Mutant of Commit: the events are not drained after the transaction.
CommitWithoutDrain(t) ==
  /\ \/ At(t, "open") /\ ~Rights(t)
     \/ At(t, "commit")
  /\ stack' = Returned(t)
  /\ lock' = NoThread /\ uncommitted' = {} /\ log' = log \cup uncommitted
  /\ UNCHANGED <<lists, pending, busVars>>

\* COMMIT, and then the drain that a rights issue has behind it.
Commit(t) ==
  /\ \/ /\ At(t, "open") /\ ~Rights(t)
        /\ stack' = Moved(t, [Top(t) EXCEPT !.pc = "test"])
     \/ At(t, "commit") /\ stack' = Returned(t)
  /\ lock' = NoThread /\ uncommitted' = {} /\ log' = log \cup uncommitted
  /\ UNCHANGED <<lists, pending, busVars>>

\* if not self.pending_events: return
TestPending(t) ==
  /\ At(t, "test")
  /\ \/ lists[pending] = <<>> /\ Drained(t)
     \/ lists[pending] # <<>> /\ stack' = Moved(t, [Top(t) EXCEPT !.pc = "take"])
  /\ UNCHANGED <<lock, uncommitted, log, lists, pending, busVars>>

\* events_to_send = self.pending_events
Take(t) ==
  /\ At(t, "take")
  /\ stack' = Moved(t, [Top(t) EXCEPT !.pc = "swap", !.list = pending,
                                      !.next = 1])
  /\ UNCHANGED <<lock, uncommitted, log, lists, pending, busVars>>

\* Mutant of Swap: the list is not replaced.
SwapNothing(t) ==
  /\ At(t, "swap")
  /\ stack' = Moved(t, [Top(t) EXCEPT !.pc = "send"])
  /\ UNCHANGED <<lock, uncommitted, log, lists, pending, busVars>>

\* self.pending_events = []
Swap(t) ==
  /\ At(t, "swap")
  /\ lists' = Append(lists, <<>>)
  /\ pending' = Len(lists) + 1
  /\ stack' = Moved(t, [Top(t) EXCEPT !.pc = "send"])
  /\ UNCHANGED <<lock, uncommitted, log, busVars>>

\* The next event of the list, as it is now, is published, or the loop ends.
Send(t) ==
  /\ At(t, "send")
  /\ \/ /\ Top(t).next <= Len(lists[Top(t).list])
        /\ stack' = Moved(t, [Top(t) EXCEPT !.pc = "publish", !.sub = 1])
     \/ /\ Top(t).next > Len(lists[Top(t).list])
        /\ Drained(t)
  /\ UNCHANGED <<lock, uncommitted, log, lists, pending, busVars>>

\* publish calls the next subscriber of the list, as it is now, or the loop
\* ends.
Publish(t) ==
  /\ At(t, "publish")
  /\ LET e == lists[Top(t).list][Top(t).next] IN
     \/ /\ Top(t).sub <= Len(subscribers)
        /\ delivered' = [delivered EXCEPT ![subscribers[Top(t).sub]][e] = @ + 1]
        /\ stack' = Moved(t, [Top(t) EXCEPT !.sub = @ + 1])
     \/ /\ Top(t).sub > Len(subscribers)
        /\ stack' = Moved(t, [Top(t) EXCEPT !.pc = "send", !.next = @ + 1])
        /\ UNCHANGED delivered
  /\ UNCHANGED <<lock, uncommitted, log, lists, pending, subscribers, passed>>

\* subscribe, from a callback or elsewhere; not by one that had events before.
Subscribe(s) ==
  /\ s \in Joiners /\ ~Contains(subscribers, s)
  /\ \A e \in Events : delivered[s][e] = 0
  /\ subscribers' = Append(subscribers, s)
  /\ UNCHANGED <<lock, uncommitted, log, lists, pending, stack, delivered, passed>>

\* It is the turn of s in a loop of publish with e that has passed place i.
TurnBehind(i, s, e) ==
  \E t \in Threads : \E k \in DOMAIN stack[t] :
    LET f == stack[t][k]
    IN  /\ f.pc = "publish" /\ lists[f.list][f.next] = e
        /\ i < f.sub /\ f.sub \in DOMAIN subscribers /\ subscribers[f.sub] = s

\* unsubscribe: the later subscribers move up, also under the loops of publish,
\* which go on with the place that comes next.
Unsubscribe(s) ==
  /\ s \in Leavers
  /\ \E i \in DOMAIN subscribers :
       /\ subscribers[i] = s /\ subscribers' = RemoveAt(subscribers, i)
       /\ passed' = passed \cup
            {p \in Subscribers \X Events : TurnBehind(i, p[1], p[2])}
  /\ UNCHANGED <<lock, uncommitted, log, lists, pending, stack, delivered>>

\* What a thread that is inside the broker does without being asked.
Proceed(t) ==
  \/ AppendEvent(t) \/ Commit(t) \/ DrainInside(t)
  \/ TestPending(t) \/ Take(t) \/ Swap(t) \/ Send(t) \/ Publish(t)

EventsNext ==
  \/ \E t \in Threads :
       \/ \E op \in Operations, e \in Events : Begin(t, op, e)
       \/ \E e \in Events : EmitMore(t, e)
       \/ Proceed(t)
  \/ \E s \in Subscribers : Subscribe(s) \/ Unsubscribe(s)

EventsSpec == EventsInit /\ [][EventsNext]_eventVars

\* A thread inside the broker goes on; nobody has to call it.
FairEventsSpec == EventsSpec /\ \A t \in Threads : WF_eventVars(Proceed(t))

-----------------------------------------------------------------------------
(* Properties *)

EventsTypeOK ==
  /\ lock \in Threads \cup {NoThread}
  /\ uncommitted \subseteq Events /\ log \subseteq Events
  /\ lists \in Seq(Seq(Events)) /\ pending \in 1..Len(lists)
  /\ stack \in [Threads -> Seq(Frame)]
  /\ subscribers \in Seq(Subscribers)
  /\ delivered \in [Subscribers -> [Events -> Nat]]
  /\ passed \subseteq Subscribers \X Events

\* The bus of one thread is an EventDelivery: committed events only, but for
\* those of an open rights issue, and each at most once to each subscriber,
\* also when subscribers call the broker from their callback, come and go.
D == INSTANCE EventDelivery WITH
       early <- IF lock # NoThread /\ Rights(lock) THEN uncommitted ELSE {}
ImplementsDelivery == D!Spec

\* Whoever emits also drains: when no thread is inside the broker, no event
\* is left waiting for the next call.
QuietMeansDrained ==
  (\A t \in Threads : stack[t] = <<>>) => lists[pending] = <<>>

\* Every committed event reaches every subscriber that is registered all the
\* time, although others come and go while events are being sent, unless one
\* in front of it went while the loop was about to call it with this event.
EventuallyDelivered ==
  \A s \in Subscribers \ (Joiners \cup Leavers), e \in Events :
    e \in log ~> delivered[s][e] > 0 \/ <<s, e>> \in passed

\* "Fan out to every matching subscriber." (observability.py 132)
FansOutToAll ==
  \A s \in Subscribers \ (Joiners \cup Leavers), e \in Events :
    e \in log ~> delivered[s][e] > 0

\* "Subscribers fire AFTER the SQL transaction commits (so they never see
\* uncommitted state)" (CHANGELOG.md 259-260).
DeliveredIsCommitted ==
  \A s \in Subscribers, e \in Events : delivered[s][e] > 0 => e \in log
=============================================================================
