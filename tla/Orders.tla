-------------------------------- MODULE Orders --------------------------------
(****************************************************************************)
(* The order lifecycle of one account in one symbol: table "orders", the    *)
(* trades written for each order, and the threads that move them.  Clients  *)
(* submit, cancel, expire and reset; watchers (workers/limit_orders.py)     *)
(* read snapshots of the rows and later try to fill them; the account is    *)
(* module Account.                                                          *)
(*                                                                          *)
(* persistence.transaction() is BEGIN IMMEDIATE .. COMMIT, so one           *)
(* transaction is one step.  What is not atomic in the code is not atomic   *)
(* here: a watcher's snapshot is taken in one step and used in later ones,  *)
(* and fill_pending_market reads the row before the transaction that        *)
(* claims it.  A transaction that raises rolls back: the step drops the     *)
(* attempt and changes no row.                                              *)
(*                                                                          *)
(* Abstractions.                                                            *)
(*  - A trade row is counted in traded[o], the sum of the quantities of the *)
(*    trades of order o.                                                    *)
(*  - Prices are chosen at each quote; the slice of a partial fill is any   *)
(*    quantity PartialFillConfig.fill_qty can return, 1..remaining.         *)
(*  - Submission checks that only refuse orders (symbol master, ticks and   *)
(*    bands, risk, session, T+1) are a client that does not submit;         *)
(*    settlement rows and events never feed back into a fill.               *)
(*  - The reads at the start of a tick (pending and partially filled rows,  *)
(*    the entries of exits, the quote) are one step.                        *)
(*  - Order ids are uuids: an id is used once, a deleted row never returns. *)
(****************************************************************************)
EXTENDS Integers, FiniteSets, Functions

CONSTANTS
  Quantities, Prices, Fee, Capitals, Ratios,    \* as in Account
  OrderIds,     \* ids that may be drawn; bounds the orders of a behaviour
  Watchers,     \* watcher threads ticking on the same database
  Requests,     \* the orders that clients may submit
  NoOrder,      \* NULL of parent_order_id
  NoPrice,      \* NULL of a price column
  FeedFails     \* whether a quote may be missing when a stop is filled

VARIABLES
  cash, realized, ledger, shares, basis,        \* as in Account
  orders,       \* table orders, by id
  traded,       \* SUM(trades.qty) by order id
  firing,       \* ids a client thread is about to claim in fill_pending_market
  stage,        \* per watcher: the loop of tick() it is in
  quote,        \* per watcher: the price its tick works with
  todo,         \* per watcher: the snapshots its loop has still to work on
  claim         \* per watcher: the snapshot held by fill_pending_market

account == <<cash, realized, ledger, shares, basis>>
table == <<orders, traded>>
threads == <<stage, quote, todo, claim>>
vars == <<account, table, firing, threads>>

A == INSTANCE Account

Sides == {"buy", "sell"}
Live == {"pending", "partially_filled"}
Terminal == {"filled", "cancelled", "expired"}
\* "unused" is an id not drawn yet, "deleted" one whose row a reset removed.
Statuses == Live \cup Terminal \cup {"unused", "deleted"}
OrderTypes == {"market", "limit", "stop_market", "stop_limit"}
PriceOrNull == Prices \cup {NoPrice}
Kinds == OrderTypes \cup {"bracket"}
Tifs == {"DAY", "GTC", "AMO"}

Row == [status: Statuses, otype: OrderTypes, side: Sides, qty: Quantities,
        filled: {0} \cup Quantities, limit: PriceOrNull, stop: PriceOrNull,
        tif: Tifs, parent: OrderIds \cup {NoOrder}]

Request == [kind: Kinds, side: Sides, qty: Quantities, limit: PriceOrNull,
            stop: PriceOrNull, target: PriceOrNull, tif: Tifs]

\* What a watcher remembers of a row (the Order objects of tick()).
Snapshot == [id: OrderIds, otype: OrderTypes, qty: Quantities,
             filled: {0} \cup Quantities]
NoSnapshot == [id |-> NoOrder]

\* The constants of Account, a set of quantities that has every part of an
\* order, and what submit_order's basic guards ask of a request.
ASSUME OrdersAssumption ==
  /\ Quantities \subseteq Nat \ {0} /\ Quantities # {}
  /\ \A q \in Quantities : 1..q \subseteq Quantities
  /\ Prices \subseteq Nat \ {0}
  /\ Fee \in [Sides -> [Quantities -> [Prices -> Nat]]]
  /\ Capitals \subseteq Nat
  /\ Ratios \subseteq (Nat \ {0}) \X (Nat \ {0})
  /\ NoOrder \notin OrderIds
  /\ NoPrice \notin Prices
  /\ FeedFails \in BOOLEAN
  /\ Requests \subseteq Request
  /\ \A r \in Requests :
       /\ r.kind \in {"limit", "stop_limit"} => r.limit # NoPrice
       /\ r.kind \in {"stop_market", "stop_limit", "bracket"} => r.stop # NoPrice
       /\ r.kind = "bracket" => r.target # NoPrice

Opposite(side) == IF side = "buy" THEN "sell" ELSE "buy"
Unused(o) == orders[o].status = "unused"
IsLive(o) == orders[o].status \in Live
Children(o) == {c \in OrderIds : orders[c].parent = o}
Siblings(o) == {s \in OrderIds \ {o} : /\ orders[o].parent # NoOrder
                                       /\ orders[s].parent = orders[o].parent}

\* apply_buy / apply_sell for the order's side, and whether it would raise.
Apply(side, q, p) ==
  \/ side = "buy" /\ A!Buy(q, p)
  \/ side = "sell" /\ A!Sell(q, p)

CanApply(side, q, p) ==
  \/ side = "buy" /\ A!CanBuy(q, p)
  \/ side = "sell" /\ A!CanSell(q, p)

Blank(status) ==
  [status |-> status, otype |-> "market", side |-> "buy",
   qty |-> CHOOSE q \in Quantities : TRUE, filled |-> 0, limit |-> NoPrice,
   stop |-> NoPrice, tif |-> "DAY", parent |-> NoOrder]

\* state.record for a client's order.
NewRow(r, otype) ==
  [status |-> "pending", otype |-> otype, side |-> r.side, qty |-> r.qty,
   filled |-> 0, limit |-> r.limit, stop |-> r.stop, tif |-> r.tif,
   parent |-> NoOrder]

Init ==
  /\ A!Init
  /\ orders = [o \in OrderIds |-> Blank("unused")]
  /\ traded = [o \in OrderIds |-> 0]
  /\ firing = {}
  /\ stage = [w \in Watchers |-> "limits"]
  /\ quote = [w \in Watchers |-> NoPrice]
  /\ todo = [w \in Watchers |-> {}]
  /\ claim = [w \in Watchers |-> NoSnapshot]

-----------------------------------------------------------------------------
(* Clients *)

\* market.execute: the row is born FILLED.
ExecuteMarket(o, r, p) ==
  /\ r.kind = "market" /\ r.tif # "AMO"
  /\ Unused(o)
  /\ Apply(r.side, r.qty, p)
  /\ orders' = [orders EXCEPT ![o] = [NewRow(r, "market") EXCEPT
                                        !.status = "filled", !.filled = r.qty]]
  /\ traded' = [traded EXCEPT ![o] = r.qty]
  /\ UNCHANGED <<firing, threads>>

\* limit.queue, stop.queue and amo.queue: the row rests as PENDING.
Queue(o, r) ==
  /\ \/ r.kind \in {"limit", "stop_market", "stop_limit"}
     \/ r.kind = "market" /\ r.tif = "AMO"
  /\ Unused(o)
  /\ orders' = [orders EXCEPT ![o] = NewRow(r, r.kind)]
  /\ UNCHANGED <<account, traded, firing, threads>>

\* bracket.queue: parent, stop-loss child and target child in one
\* transaction; a market parent is then filled by the same client thread.
QueueBracket(o, sl, tgt, r) ==
  /\ r.kind = "bracket"
  /\ Unused(o) /\ Unused(sl) /\ Unused(tgt)
  /\ o # sl /\ o # tgt /\ sl # tgt
  /\ LET ptype == IF r.limit = NoPrice THEN "market" ELSE "limit"
         child == [NewRow(r, "limit") EXCEPT !.side = Opposite(r.side),
                                             !.parent = o]
     IN
     /\ orders' = [orders EXCEPT
          ![o] = NewRow(r, ptype),
          ![sl] = [child EXCEPT !.otype = "stop_market", !.limit = NoPrice],
          ![tgt] = [child EXCEPT !.limit = r.target, !.stop = NoPrice]]
     /\ firing' = IF ptype = "market" THEN firing \cup {o} ELSE firing
  /\ UNCHANGED <<account, traded, threads>>

\* amo.fire_pending, for one of the orders it selects.
FireAmo(o) ==
  /\ orders[o].status = "pending"
  /\ orders[o].otype = "market" /\ orders[o].tif = "AMO"
  /\ firing' = firing \cup {o}
  /\ UNCHANGED <<account, table, threads>>

\* Mutant of Cancel: the children of a cancelled entry stay on the book.
CancelLeavesChildren(o) ==
  /\ IsLive(o)
  /\ orders' = [orders EXCEPT ![o].status = "cancelled"]
  /\ UNCHANGED <<account, traded, firing, threads>>

\* state.cancel: a live order and, with it, its live children.
Cancel(o) ==
  /\ IsLive(o)
  /\ orders' = [x \in OrderIds |->
       IF x = o \/ (x \in Children(o) /\ IsLive(x))
       THEN [orders[x] EXCEPT !.status = "cancelled"]
       ELSE orders[x]]
  /\ UNCHANGED <<account, traded, firing, threads>>

\* state.expire_day_orders: every PENDING DAY order; a partially filled one
\* stays.
ExpireDay ==
  /\ \E o \in OrderIds : orders[o].status = "pending" /\ orders[o].tif = "DAY"
  /\ orders' = [x \in OrderIds |->
       IF orders[x].status = "pending" /\ orders[x].tif = "DAY"
       THEN [orders[x] EXCEPT !.status = "expired"]
       ELSE orders[x]]
  /\ UNCHANGED <<account, traded, firing, threads>>

\* Mutants of Reset: the trades stay; the ledger is not restarted.
ResetKeepsTrades ==
  /\ \E c \in Capitals \cup {cash} : A!Reset(c)
  /\ orders' = [o \in OrderIds |->
       IF Unused(o) THEN orders[o] ELSE Blank("deleted")]
  /\ UNCHANGED <<traded, firing, threads>>

ResetKeepsLedger ==
  /\ cash' \in Capitals /\ realized' = 0 /\ shares' = 0 /\ basis' = 0
  /\ orders' = [o \in OrderIds |->
       IF Unused(o) THEN orders[o] ELSE Blank("deleted")]
  /\ traded' = [o \in OrderIds |-> 0]
  /\ UNCHANGED <<ledger, firing, threads>>

\* broker.reset: deletes orders and, with them, trades and positions.
Reset ==
  /\ \E c \in Capitals \cup {cash} : A!Reset(c)
  /\ orders' = [o \in OrderIds |->
       IF Unused(o) THEN orders[o] ELSE Blank("deleted")]
  /\ traded' = [o \in OrderIds |-> 0]
  /\ UNCHANGED <<firing, threads>>

-----------------------------------------------------------------------------
(* Fills *)

\* The table after the UPDATE that claims order o for a fill.
Claimed(o, status, filled) ==
  [orders EXCEPT ![o] = [@ EXCEPT !.status = status, !.filled = filled]]

\* Mutant of CancelSiblings: a partially filled sibling is spared.
CancelPendingSiblings(rows, o) ==
  [x \in OrderIds |->
    IF x \in Siblings(o) /\ rows[x].status = "pending"
    THEN [rows[x] EXCEPT !.status = "cancelled"]
    ELSE rows[x]]

\* cancel_bracket_siblings (One-Cancels-Other), on the rows of the step.
CancelSiblings(rows, o) ==
  [x \in OrderIds |->
    IF x \in Siblings(o) /\ rows[x].status \in Live
    THEN [rows[x] EXCEPT !.status = "cancelled"]
    ELSE rows[x]]

\* Mutants of ShrinkSibling: nothing is shrunk; the progress so far is taken
\* off the already shrunk quantity.
ShrinkNothing(rows, o, done) == rows

ShrinkTwice(rows, o, done) ==
  [x \in OrderIds |->
    IF x \in Siblings(o) /\ rows[x].status \in Live /\ 0 < rows[x].qty - done
    THEN [rows[x] EXCEPT !.qty = @ - done]
    ELSE rows[x]]

\* rebalance_bracket_sibling_qty: the sibling covers what the parent bought
\* and this child has not closed yet; it only ever shrinks.
ShrinkSibling(rows, o, done) ==
  [x \in OrderIds |->
    IF x \in Siblings(o) /\ rows[x].status \in Live
       /\ 0 < rows[rows[o].parent].filled - done
       /\ rows[rows[o].parent].filled - done < rows[x].qty
    THEN [rows[x] EXCEPT !.qty = rows[rows[o].parent].filled - done]
    ELSE rows[x]]

\* The transaction of fill_pending_market: the claim asks for PENDING, the
\* quantity is the one read before.
FillPendingMarket(o, q, p) ==
  /\ orders[o].status = "pending"
  /\ Apply(orders[o].side, q, p)
  /\ orders' = CancelSiblings(Claimed(o, "filled", q), o)
  /\ traded' = [traded EXCEPT ![o] = @ + q]

\* What limit.fill commits once its claim is won: filled_qty becomes done, the
\* slice q is booked, the bracket's other exit is shrunk or cancelled.
BookSlice(o, q, p, done, terminal) ==
  LET status == IF terminal THEN "filled" ELSE "partially_filled"
      shrunk == ShrinkSibling(Claimed(o, status, done), o, done)
  IN
  /\ Apply(orders[o].side, q, p)
  /\ orders' = IF terminal THEN CancelSiblings(shrunk, o) ELSE shrunk
  /\ traded' = [traded EXCEPT ![o] = @ + q]

\* Mutants of FillLimit: filled_qty is overwritten by the slice; a slice is
\* compared with the whole quantity instead of the remaining one; the claim
\* asks for no status.
FillLimitOverwrites(s, q, p) ==
  IsLive(s.id) /\ BookSlice(s.id, q, p, q, q = s.qty - s.filled)

FillLimitNeverLast(s, q, p) ==
  IsLive(s.id) /\ BookSlice(s.id, q, p, s.filled + q, q = s.qty)

FillLimitWithoutClaim(s, q, p) ==
  /\ orders[s.id].status # "deleted"
  /\ BookSlice(s.id, q, p, s.filled + q, q = s.qty - s.filled)

\* The transaction of limit.fill for snapshot s and slice q: the claim asks
\* for a live status only; the new filled_qty comes from the snapshot.
FillLimit(s, q, p) ==
  IsLive(s.id) /\ BookSlice(s.id, q, p, s.filled + q, q = s.qty - s.filled)

\* A client thread inside fill_pending_market (bracket.queue, fire_pending).
\* Its row is a market order, whose quantity never changes after it is read.
ClientFires(o, p) ==
  /\ o \in firing
  /\ FillPendingMarket(o, orders[o].qty, p)
  /\ firing' = firing \ {o}
  /\ UNCHANGED threads

\* The same call failing: no quote, a stale quote, no funds, no shares, or a
\* lost claim.  Both callers swallow the exception.
ClientGivesUp(o) ==
  /\ o \in firing
  /\ firing' = firing \ {o}
  /\ UNCHANGED <<account, table, threads>>

-----------------------------------------------------------------------------
(* The watcher's tick *)

SnapshotOf(o) == [id |-> o, otype |-> orders[o].otype, qty |-> orders[o].qty,
                  filled |-> orders[o].filled]

\* Mutant of Gated: a partially filled entry releases its exits.
GatedWhilePending(o) ==
  /\ orders[o].parent # NoOrder
  /\ orders[orders[o].parent].status = "pending"

\* A child stays quiet until its parent is FILLED.
Gated(o) ==
  /\ orders[o].parent # NoOrder
  /\ orders[orders[o].parent].status # "filled"

\* Mutant of Workable: partially filled orders are forgotten.
WorkablePending(types) ==
  {o \in OrderIds : /\ orders[o].status = "pending"
                    /\ ~Gated(o) /\ orders[o].otype \in types}

Workable(types) ==
  {o \in OrderIds : IsLive(o) /\ ~Gated(o) /\ orders[o].otype \in types}

LimitCrossed(o, p) ==
  \/ orders[o].side = "buy" /\ p <= orders[o].limit
  \/ orders[o].side = "sell" /\ p >= orders[o].limit

StopCrossed(o, p) ==
  \/ orders[o].side = "buy" /\ p >= orders[o].stop
  \/ orders[o].side = "sell" /\ p <= orders[o].stop

StopTypes == {"stop_market", "stop_limit"}
StopsAt(p) == {SnapshotOf(o) : o \in {x \in Workable(StopTypes) : StopCrossed(x, p)}}
LimitsAt(p) == {SnapshotOf(o) : o \in {x \in Workable({"limit"}) : LimitCrossed(x, p)}}

Idle(w) == todo[w] = {} /\ claim[w] = NoSnapshot

\* Start of a tick: read the workable rows, fetch the quote, keep the rows
\* the quote triggers.  Stops come first.
Pull(w, p) ==
  /\ Idle(w) /\ stage[w] = "limits"
  /\ quote' = [quote EXCEPT ![w] = p]
  /\ \/ /\ Workable(StopTypes) # {}
        /\ stage' = [stage EXCEPT ![w] = "stops"]
        /\ todo' = [todo EXCEPT ![w] = StopsAt(p)]
     \/ /\ Workable(StopTypes) = {} /\ Workable({"limit"}) # {}
        /\ todo' = [todo EXCEPT ![w] = LimitsAt(p)]
        /\ UNCHANGED stage
  /\ UNCHANGED <<account, table, firing, claim>>

\* stop.trigger of a STOP_MARKET that is still PENDING, and the read at the
\* start of fill_pending_market; triggered_at is not read by anyone.
TriggerStopMarket(w, s) ==
  /\ stage[w] = "stops" /\ claim[w] = NoSnapshot
  /\ s \in todo[w] /\ s.otype = "stop_market"
  /\ orders[s.id].status = "pending"
  /\ todo' = [todo EXCEPT ![w] = @ \ {s}]
  /\ claim' = [claim EXCEPT ![w] = SnapshotOf(s.id)]
  /\ UNCHANGED <<account, table, firing, stage, quote>>

\* stop.trigger of a STOP_LIMIT: it becomes a resting LIMIT.
TriggerStopLimit(w, s) ==
  /\ stage[w] = "stops" /\ claim[w] = NoSnapshot
  /\ s \in todo[w] /\ s.otype = "stop_limit"
  /\ orders[s.id].status = "pending"
  /\ todo' = [todo EXCEPT ![w] = @ \ {s}]
  /\ orders' = [orders EXCEPT ![s.id].otype = "limit"]
  /\ UNCHANGED <<account, traded, firing, stage, quote, claim>>

\* The trigger lost its race: the row is no longer PENDING.
SkipStop(w, s) ==
  /\ stage[w] = "stops" /\ claim[w] = NoSnapshot
  /\ s \in todo[w] /\ orders[s.id].status # "pending"
  /\ todo' = [todo EXCEPT ![w] = @ \ {s}]
  /\ UNCHANGED <<account, table, firing, stage, quote, claim>>

\* The claim of the triggered stop, at a quote of its own.
FillStop(w, p) ==
  /\ claim[w] # NoSnapshot
  /\ FillPendingMarket(claim[w].id, claim[w].qty, p)
  /\ claim' = [claim EXCEPT ![w] = NoSnapshot]
  /\ UNCHANGED <<firing, stage, quote, todo>>

\* The fill of the triggered stop fails and is logged: the claim is lost,
\* cash or shares do not suffice at the quote, or there is no quote.
StopNotFilled(w, p) ==
  /\ claim[w] # NoSnapshot
  /\ \/ orders[claim[w].id].status # "pending"
     \/ ~CanApply(orders[claim[w].id].side, claim[w].qty, p)
     \/ FeedFails
  /\ claim' = [claim EXCEPT ![w] = NoSnapshot]
  /\ UNCHANGED <<account, table, firing, stage, quote, todo>>

\* Mutant of Repull: the fresh rows are not compared with the quote.
RepullAllLimits(w) ==
  /\ stage[w] = "stops" /\ Idle(w)
  /\ stage' = [stage EXCEPT ![w] = "limits"]
  /\ todo' = [todo EXCEPT ![w] = {SnapshotOf(o) : o \in Workable({"limit"})}]
  /\ UNCHANGED <<account, table, firing, quote, claim>>

\* After the stops the limits are read again: a stop may have produced a
\* limit or cancelled one.
Repull(w) ==
  /\ stage[w] = "stops" /\ Idle(w)
  /\ stage' = [stage EXCEPT ![w] = "limits"]
  /\ todo' = [todo EXCEPT ![w] = LimitsAt(quote[w])]
  /\ UNCHANGED <<account, table, firing, quote, claim>>

\* limit.fill of a slice of the snapshot's remaining quantity.
FillSlice(w, s, q) ==
  /\ stage[w] = "limits" /\ s \in todo[w]
  /\ q <= s.qty - s.filled
  /\ FillLimit(s, q, quote[w])
  /\ todo' = [todo EXCEPT ![w] = @ \ {s}]
  /\ UNCHANGED <<firing, stage, quote, claim>>

\* limit.fill raises (OrderNoLongerPending, no funds, no shares): skipped.
SkipLimit(w, s, q) ==
  /\ stage[w] = "limits" /\ s \in todo[w]
  /\ q <= s.qty - s.filled
  /\ ~IsLive(s.id) \/ ~CanApply(orders[s.id].side, q, quote[w])
  /\ todo' = [todo EXCEPT ![w] = @ \ {s}]
  /\ UNCHANGED <<account, table, firing, stage, quote, claim>>

-----------------------------------------------------------------------------
ClientStep ==
  \/ \E o \in OrderIds, r \in Requests :
       \/ Queue(o, r)
       \/ \E p \in Prices : ExecuteMarket(o, r, p)
       \/ \E sl, tgt \in OrderIds : QueueBracket(o, sl, tgt, r)
  \/ \E o \in OrderIds :
       \/ FireAmo(o) \/ Cancel(o) \/ ClientGivesUp(o)
       \/ \E p \in Prices : ClientFires(o, p)
  \/ ExpireDay
  \/ Reset

WatcherStep(w) ==
  \/ \E p \in Prices : Pull(w, p) \/ FillStop(w, p) \/ StopNotFilled(w, p)
  \/ \E s \in todo[w] :
       \/ TriggerStopMarket(w, s) \/ TriggerStopLimit(w, s) \/ SkipStop(w, s)
       \/ \E q \in Quantities : FillSlice(w, s, q) \/ SkipLimit(w, s, q)
  \/ Repull(w)

Next == ClientStep \/ \E w \in Watchers : WatcherStep(w)

Spec == Init /\ [][Next]_vars

\* A watcher's thread keeps ticking; clients owe nothing.  The tick's order
\* of work is its own: no fairness between snapshots is needed.  A stop that
\* triggers on tick after tick is not refused its quote for ever.
FairSpec ==
  /\ Spec
  /\ \A w \in Watchers : WF_vars(WatcherStep(w))
                         /\ SF_vars(\E p \in Prices : FillStop(w, p))

-----------------------------------------------------------------------------
(* Properties *)

TypeOK ==
  /\ A!TypeOK
  /\ orders \in [OrderIds -> Row]
  /\ traded \in [OrderIds -> Nat]
  /\ firing \subseteq OrderIds
  /\ stage \in [Watchers -> {"stops", "limits"}]
  /\ quote \in [Watchers -> PriceOrNull]
  /\ todo \in [Watchers -> SUBSET Snapshot]
  /\ claim \in [Watchers -> Snapshot \cup {NoSnapshot}]

TradedBy(S) == SumFunctionOnSet(traded, S)
OnSide(side) == {o \in OrderIds : orders[o].side = side}

\* The row agrees with its trades: what an order says was filled is what was
\* bought or sold for it.  limit.fill writes a filled_qty computed from a
\* snapshot, the trades are written from the slice (limit.py 105-137, 165).
FillsMatchTrades == \A o \in OrderIds : orders[o].filled = traded[o]

\* The position is the net of all trades: no fill reaches the position
\* without its trade, or the trade without the position (market.py 54-97,
\* limit.py 125-178).
SharesMatchTrades ==
  shares = TradedBy(OnSide("buy")) - TradedBy(OnSide("sell"))

\* Status and quantity agree: FILLED means all of the (possibly shrunk)
\* quantity and nothing more, a live order still has something to fill,
\* whatever slices, sibling rebalancing and stale snapshots did to it.
StatusMatchesFill ==
  \A o \in OrderIds :
    LET r == orders[o] IN
    /\ r.status = "filled" => r.filled = r.qty
    /\ r.status = "partially_filled" => r.filled \in 1..(r.qty - 1)
    /\ r.status = "pending" => r.filled = 0

\* One-Cancels-Other: once an exit of a bracket is FILLED no other exit of
\* it is filled or can still be (state.cancel_bracket_siblings).
OneExit ==
  \A o \in OrderIds : \A s \in Siblings(o) :
    orders[o].status = "filled" =>
      orders[s].status # "filled" /\ ~IsLive(s)

\* The exits of a bracket never trade more than its entry did, even when the
\* account holds other shares that would cover the excess.
ExitsCovered ==
  \A o \in OrderIds : TradedBy(Children(o)) <= traded[o] \/ Children(o) = {}

\* "Total exposure across siblings = remaining parent position" (state.py
\* 597-598): a live stop-loss of a filled entry is for exactly the shares
\* that the target has not sold yet.
StopCoversRest ==
  \A o \in OrderIds :
    /\ orders[o].otype = "stop_market" /\ IsLive(o)
    /\ orders[o].parent # NoOrder
    /\ orders[orders[o].parent].status = "filled"
    => orders[o].qty = traded[orders[o].parent] - TradedBy(Siblings(o))

\* An entry that is cancelled or expires takes its live exits with it, so no
\* exit rests on the book for a position that was never opened.
NoOrphans ==
  \A o \in OrderIds : orders[o].parent # NoOrder =>
    /\ orders[orders[o].parent].status \in {"cancelled", "expired"} => ~IsLive(o)
    /\ orders[o].status # "deleted" => orders[orders[o].parent].status # "deleted"

\* Exits wait for their entry: nothing is traded for a child before its
\* parent is FILLED (limit_orders.py 256-270 and 334-340).
ExitsWait ==
  \A o \in OrderIds :
    orders[o].parent # NoOrder /\ traded[o] > 0 =>
      orders[orders[o].parent].status = "filled"

\* A terminal order is final: no late fill, trigger, cancel or expiry that
\* read it while it was live changes the row or adds a trade.  Only a reset
\* removes it (CHANGELOG 410-415).
TerminalFrozen ==
  [][ \A o \in OrderIds : orders[o].status \in Terminal =>
        \/ orders'[o] = orders[o] /\ traded'[o] = traded[o]
        \/ orders'[o].status = "deleted" ]_vars

\* A limit order never trades beyond its limit, also when the quote moved
\* between the tick that selected it and the fill, or when it began as a
\* STOP_LIMIT: the principal booked is at most (at least) quantity * limit.
LimitRespected ==
  [][ \A o \in OrderIds :
        orders[o].otype = "limit" /\ traded'[o] > traded[o] =>
          LET q == traded'[o] - traded[o] IN
          IF orders[o].side = "buy"
          THEN ledger["buy_principal"] - ledger'["buy_principal"]
                 <= q * orders[o].limit
          ELSE ledger'["sell_principal"] - ledger["sell_principal"]
                 >= q * orders[o].limit ]_vars

\* Orders implement the account: whatever threads do to rows, cash, ledger,
\* position and realized P&L move only by one whole purchase, sale or reset.
ImplementsAccount == A!Spec

\* ARCHITECTURE.md 116-119: a fill whose order "moved out of PENDING between
\* snapshot and fill" is rolled back.  A snapshot with nothing filled was
\* PENDING when it was taken.
StaleFillRollsBack ==
  [][ \A w \in Watchers : \A s \in todo[w] :
        /\ stage[w] = "limits" /\ s \notin todo'[w]
        /\ s.filled = 0 /\ orders[s.id].status # "pending"
        => traded'[s.id] = traded[s.id] ]_vars

\* domain/models.py 104-105: a DAY order is "pending until the session ends,
\* then expired".
DayOrdersExpire ==
  [][ ExpireDay => \A o \in OrderIds :
        orders[o].tif = "DAY" => orders'[o].status \notin Live ]_vars

\* amo.py 35-36: "regular markets never persist as PENDING, only AMOs do".
OnlyAmosRest ==
  \A o \in OrderIds :
    orders[o].status = "pending" /\ orders[o].otype = "market" =>
      orders[o].tif = "AMO" \/ o \in firing

\* When every price triggers every stop and crosses every limit and the cash
\* suffices, a resting order to buy without a parent is eventually done:
\* slices make progress (partial_fills.py 62-67), partially filled orders are
\* picked up again, and no other order starves it.
LimitsComplete ==
  \A o \in OrderIds :
    LET r == orders[o]
        resting == /\ IsLive(o) /\ r.otype \in {"limit", "stop_limit"}
                   /\ r.side = "buy" /\ r.parent = NoOrder
    IN resting ~> ~IsLive(o)

\* When every price makes one exit of a bracket due, a filled entry does not
\* keep both its exits on the book for ever: partial fills of the target and
\* the stop-loss they shrink do not starve each other.
ExitsComplete ==
  \A o \in OrderIds :
    LET open == /\ orders[o].status = "filled" /\ Children(o) # {}
                /\ \A c \in Children(o) : IsLive(c)
    IN open ~> ~open
=============================================================================
