------------------------------- MODULE Session -------------------------------
(****************************************************************************)
(* The trading day, on the calendar of module Calendar: submit_order's      *)
(* phase rules, and the once-a-day work of LimitOrderWatcher.tick (auction, *)
(* AMOs, expiry of DAY orders) with the flags that remember, per watcher    *)
(* object, what was done today.                                             *)
(*                                                                          *)
(* tick() reads the clock several times and does its work in several        *)
(* transactions; each is a step, so the day, the session or the process may *)
(* end between any two of them, and orders arrive in between.               *)
(*                                                                          *)
(* Abstractions.                                                            *)
(*  - That an order trades in part is a status; how much, at which price    *)
(*    and against what is for the modules Orders and Auction.               *)
(*  - enforce_market_hours is on.  Market orders that are not AMO fill as   *)
(*    they are submitted and leave nothing for the watcher.  A limit with   *)
(*    tif AMO is worked on as a GTC one is.                                 *)
(*  - One broker process at a time; its calendar lives as long as it does.  *)
(*  - The three works of the day may raise, and fills of single orders may  *)
(*    be refused; everything else that the watcher does succeeds.           *)
(****************************************************************************)
EXTENDS Calendar

CONSTANTS
  OrderIds,     \* ids that may be drawn; bounds the orders of a behaviour
  Punctual,     \* whether some tick begins and ends in every slot
  Reloads,      \* whether somebody calls NSECalendar.reload
  Nobody

VARIABLES
  orders,       \* table orders: the resting ones and what became of them
  checked,      \* the request that has passed submit_order's phase rules
  running,      \* whether there is a watcher
  pc,           \* where its tick is
  began,        \* when its tick began
  today,        \* tick's local variables, and the limits it pulled
  phase,
  todo,
  done,         \* _auction_done_today, _amo_fired_today, _day_expired_today
  rolled,       \* _last_settle_date
  ticked,       \* whether a tick began and ended in this slot
  auctioned,    \* history: the last day with an auction
  sessions,     \* history: the instants at whose end the market was open
  turned,       \* history: the days on which a change of the calendar made
                \* the day a trading day
  raised        \* history: which work of which day has raised

watcher == <<running, pc, began, today, phase, todo, done, rolled>>
history == <<sessions, turned, raised>>
vars == <<calendarVars, orders, checked, watcher, ticked, auctioned, history>>

None == -1                      \* no day, no instant

Tifs == {"DAY", "GTT", "GTC", "AMO"}
Statuses == {"pending", "partially_filled", "filled", "expired"}

\* made: created_at; tried: the last day its firing was tried (history).
Order == [tif: Tifs, status: Statuses, made: Instants, tried: Days \cup {None}]
Work == {"auction", "amo", "expiry"}

ASSUME SessionAssumption ==
  Punctual \in BOOLEAN /\ Reloads \in BOOLEAN

Pending(tifs) ==
  {o \in DOMAIN orders : orders[o].status = "pending" /\ orders[o].tif \in tifs}

\* The orders that tick() pulls.
Working(tifs) ==
  Pending(tifs) \cup {o \in DOMAIN orders : /\ orders[o].status = "partially_filled"
                                           /\ orders[o].tif \in tifs}

\* Some orders of S trade, each whole or in part.
Trade(S) ==
  \E T \in SUBSET S : \E status \in [T -> {"filled", "partially_filled"}] :
    orders' = [o \in DOMAIN orders |->
                 IF o \in T THEN [orders[o] EXCEPT !.status = status[o]]
                 ELSE orders[o]]

\* A work of the day raises: the exception is swallowed, the flag set all the
\* same.
Raises(work) ==
  /\ raised' = raised \cup {<<work, DayOf(now)>>}
  /\ UNCHANGED orders

Init ==
  /\ CalendarInit
  /\ checked = Nobody
  /\ orders = [o \in {} |-> Nobody]
  /\ running = FALSE /\ pc = "idle" /\ began = None
  /\ today = None /\ phase = "closed" /\ todo = {} /\ done = {} /\ rolled = None
  /\ ticked = FALSE /\ auctioned = None /\ sessions = {} /\ turned = {}
  /\ raised = {}

-----------------------------------------------------------------------------
(* Clients and the clock *)

\* The phase rule of submit_order: no AMO while the market is open.
Check(tif) ==
  /\ checked = Nobody
  /\ ~(tif = "AMO" /\ Open(now))
  /\ checked' = tif
  /\ UNCHANGED <<calendarVars, history, orders, watcher, ticked, auctioned>>

\* The checked order is queued.  An AMO is a market order, the others limits.
Queue(o) ==
  /\ checked # Nobody /\ o \notin DOMAIN orders
  /\ orders' = [x \in DOMAIN orders \cup {o} |->
                  IF x = o THEN [tif |-> checked, status |-> "pending",
                                 made |-> now, tried |-> None]
                  ELSE orders[x]]
  /\ checked' = Nobody
  /\ UNCHANGED <<calendarVars, history, watcher, ticked, auctioned>>

Advance ==
  /\ now + 1 \in Instants
  /\ Punctual => ticked
  /\ Later
  /\ ticked' = FALSE
  /\ sessions' = IF Open(now) THEN sessions \cup {now} ELSE sessions
  /\ UNCHANGED <<turned, raised, orders, checked, watcher, auctioned>>

\* The broker's calendar changes: a new process builds another, and somebody
\* may call reload.
ChangeCalendar ==
  /\ \/ ~running /\ Build
     \/ Reloads /\ Reload
  /\ turned' = turned \cup ({DayOf(now)} \cap (holidays \ holidays'))
  /\ UNCHANGED <<now, sessions, raised, orders, checked, watcher, ticked, auctioned>>

-----------------------------------------------------------------------------
(* The watcher *)

\* A new watcher object, which knows nothing of the day.
Start ==
  /\ ~running
  /\ running' = TRUE
  /\ UNCHANGED <<calendarVars, history, orders, checked, pc, began, today, phase, todo, done,
                 rolled, ticked, auctioned>>

\* The local variables of a tick go with it.
Forget ==
  pc' = "idle" /\ began' = None /\ today' = None /\ phase' = "closed" /\ todo' = {}

\* The process ends, maybe in the middle of a tick.
Stop ==
  /\ running
  /\ running' = FALSE /\ done' = {} /\ rolled' = None
  /\ Forget
  /\ UNCHANGED <<calendarVars, history, orders, checked, ticked, auctioned>>

\* Mutant of Roll: the flags are never reset.
RollKeepsFlags ==
  /\ running /\ pc = "idle"
  /\ pc' = "phase" /\ began' = now
  /\ today' = DayOf(now) /\ rolled' = today'
  /\ UNCHANGED <<calendarVars, history, orders, checked, running, phase, todo, done, ticked,
                 auctioned>>

\* The tick begins: a new day resets the flags.
Roll ==
  /\ running /\ pc = "idle"
  /\ pc' = "phase" /\ began' = now
  /\ today' = DayOf(now) /\ rolled' = today'
  /\ done' = IF rolled = today' THEN done ELSE {}
  /\ UNCHANGED <<calendarVars, history, orders, checked, running, phase, todo, ticked, auctioned>>

\* Mutant of ReadPhase: the AMOs are fired first.
ReadPhaseAmoFirst ==
  /\ pc = "phase"
  /\ phase' = PhaseAt(now)
  /\ pc' = "amo"
  /\ UNCHANGED <<calendarVars, history, orders, checked, running, began, today, todo, done,
                 rolled, ticked, auctioned>>

\* The clock is read again for the phase.
ReadPhase ==
  /\ pc = "phase"
  /\ phase' = PhaseAt(now)
  /\ pc' = "auction"
  /\ UNCHANGED <<calendarVars, history, orders, checked, running, began, today, todo, done,
                 rolled, ticked, auctioned>>

\* A piece of daily work is due in some phases, once.
Due(work, phases) == pc = work /\ phase \in phases /\ work \notin done
NotDue(work, phases) == pc = work /\ ~(phase \in phases /\ work \notin done)

\* The auction fills what it matches of the orders that have not traded, or
\* only part of it: an exception ends it.
Auction ==
  /\ Due("auction", {"regular"})
  /\ Trade(Pending({"DAY", "GTT"}))
  /\ done' = done \cup {"auction"}
  /\ auctioned' = DayOf(now)
  /\ pc' = "amo"
  /\ UNCHANGED <<calendarVars, history, checked, running, began, today, phase, todo, rolled,
                 ticked>>

\* Every pending AMO is tried, and fills whole; one that fails stays pending.
FireAmos ==
  /\ Due("amo", {"regular"})
  /\ \/ /\ \E status \in [Pending({"AMO"}) -> {"pending", "filled"}] :
             orders' = [o \in DOMAIN orders |->
               IF o \in Pending({"AMO"})
               THEN [orders[o] EXCEPT !.status = status[o], !.tried = DayOf(now)]
               ELSE orders[o]]
        /\ UNCHANGED raised
     \/ Raises("amo")
  /\ done' = done \cup {"amo"}
  /\ pc' = "expiry"
  /\ UNCHANGED <<calendarVars, sessions, turned, checked, running, began, today, phase,
                 todo, rolled, ticked, auctioned>>

\* DAY orders that have not traded expire, all or none, when the day the tick
\* began in is a trading day.  One that is partially filled stays.
Expire ==
  /\ Due("expiry", {"post_close", "closed"})
  /\ \/ /\ IsTradingDay(today)
        /\ \/ /\ orders' = [o \in DOMAIN orders |->
                     IF o \in Pending({"DAY"})
                     THEN [orders[o] EXCEPT !.status = "expired"]
                     ELSE orders[o]]
              /\ UNCHANGED raised
           \/ Raises("expiry")
     \/ ~IsTradingDay(today) /\ UNCHANGED <<orders, raised>>
  /\ done' = done \cup {"expiry"}
  /\ pc' = "gate"
  /\ UNCHANGED <<calendarVars, sessions, turned, checked, running, began, today, phase,
                 todo, rolled, ticked, auctioned>>

\* Work that is not due is passed over.
PassOver ==
  /\ \/ NotDue("auction", {"regular"}) /\ pc' = "amo"
     \/ NotDue("amo", {"regular"}) /\ pc' = "expiry"
     \/ NotDue("expiry", {"post_close", "closed"}) /\ pc' = "gate"
  /\ UNCHANGED <<calendarVars, history, orders, checked, running, began, today, phase, todo,
                 done, rolled, ticked, auctioned>>

\* The tick ends.
Finish ==
  /\ Forget
  /\ ticked' = (ticked \/ began = now)

\* The clock is read once more: limits are only worked on in the session.
Gate ==
  /\ pc = "gate"
  /\ \/ /\ Open(now)
        /\ todo' = Working({"DAY", "GTT", "GTC"})
        /\ pc' = "limits"
        /\ UNCHANGED <<began, today, phase, ticked>>
     \/ ~Open(now) /\ Finish
  /\ UNCHANGED <<calendarVars, history, orders, checked, running, done, rolled, auctioned>>

\* The limits that the market crosses trade, by a slice or to their end.
FillLimits ==
  /\ pc = "limits"
  /\ Trade(todo \cap Working(Tifs))
  /\ Finish
  /\ UNCHANGED <<calendarVars, history, checked, running, done, rolled, auctioned>>

Tick ==
  \/ Roll \/ ReadPhase \/ Auction \/ FireAmos \/ Expire \/ PassOver
  \/ Gate \/ FillLimits

Next ==
  \/ \E tif \in Tifs : Check(tif)
  \/ \E o \in OrderIds : Queue(o)
  \/ Advance \/ ChangeCalendar \/ Start \/ Stop \/ Tick

Spec == Init /\ [][Next]_vars

-----------------------------------------------------------------------------
(* Properties *)

TypeOK ==
  /\ now \in Instants
  /\ DOMAIN orders \subseteq OrderIds /\ orders \in [DOMAIN orders -> Order]
  /\ checked \in Tifs \cup {Nobody}
  /\ running \in BOOLEAN /\ ticked \in BOOLEAN
  /\ pc \in {"idle", "phase", "gate", "limits"} \cup Work
  /\ pc # "idle" => running /\ began \in Instants
  /\ today \in Days \cup {None}
  /\ phase \in {"closed", "pre_open", "regular", "post_close"}
  /\ todo \subseteq DOMAIN orders /\ done \subseteq Work
  /\ rolled \in Days \cup {None} /\ auctioned \in Days \cup {None}
  /\ holidays \subseteq Days /\ sessions \subseteq Instants /\ turned \subseteq Days
  /\ raised \subseteq Work \X Days

\* Sessions that an order made at t has been through by now.
SessionsSince(t) == {s \in sessions : s >= t}

\* No DAY order that has not traded is carried into a later session: while
\* the market is open, none is pending that was there in an earlier session,
\* whatever restarts, ticks that straddle a boundary of the day and new
\* calendars have done to the flags, unless the expiry has raised today or a
\* change of the calendar has made this day a trading day after its midnight.
DayOrdersDie ==
  Open(now) /\ DayOf(now) \notin turned /\ <<"expiry", DayOf(now)>> \notin raised =>
    \A o \in Pending({"DAY"}) : SessionsSince(orders[o].made) = {}

\* Every AMO that rests before a session is tried in that session, although
\* the watcher tries only once a day, unless the firing has raised that day.
AmosAreTried ==
  \A o \in Pending({"AMO"}) : \A s \in SessionsSince(orders[o].made + 1) :
    DayOf(s) \notin turned /\ <<"amo", DayOf(s)>> \notin raised =>
      orders[o].tried >= DayOf(s)

\* next_open, which refusals and the command line quote, is the next open of
\* the session at any time of any day: nothing opens before it, and the
\* market is open then, on every calendar that loading can produce.
NextOpenIsNext ==
  LET later == {s \in Instants : s > now /\ Open(s)}
  IN  later # {} =>
        NextOpen(now) \in later /\ \A s \in later : NextOpen(now) <= s

\* "The API's dates are added on top, and the JSON remains the offline floor"
\* (market_hours.py 97-100): a date that this machine has fetched and stored
\* is a holiday for every process, as long as the file is there.
FetchedStaysKnown == file # NoFile => file.rows \subseteq holidays

\* AMOs go to the market after the day's auction, also when the watcher was
\* restarted in between.
AuctionComesFirst ==
  [][ \A o \in DOMAIN orders :
        orders[o].tif = "AMO" /\ orders'[o].status # orders[o].status =>
          auctioned = DayOf(now) ]_vars

\* "Only expire if we're past 15:30 today" (limit_orders.py 210).
ExpiresAfterClose ==
  [][ \A o \in DOMAIN orders :
        orders[o].status = "pending" /\ orders'[o].status = "expired" =>
          \E s \in Instants : s < now /\ DayOf(s) = DayOf(now) /\ Open(s) ]_vars

\* "pending until the session ends, then expired" (domain/models.py 104): no
\* DAY order that has begun to trade is worked on in a later session.
DayEndsWithSession ==
  Open(now) => \A o \in Working({"DAY"}) \ Pending({"DAY"}) :
    SessionsSince(orders[o].made) = {}

\* The same of one that has not traded, also when the expiry has raised.
UntradedDayEnds ==
  Open(now) /\ DayOf(now) \notin turned =>
    \A o \in Pending({"DAY"}) : SessionsSince(orders[o].made) = {}

\* "Run it at the first REGULAR-phase tick of the day" (limit_orders.py
\* 164-165): a limit trades in a session after that day's auction only.
TradingFollowsAuction ==
  [][ \A o \in DOMAIN orders :
        orders[o].tif # "AMO" /\ orders[o].status = "pending"
          /\ orders'[o].status \in {"partially_filled", "filled"} =>
            auctioned' = DayOf(now) ]_vars
=============================================================================
