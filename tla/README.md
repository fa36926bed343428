# Verification of papertrade_india

TLA+ models of the paper-trading broker under `src/src/papertrade_india/`,
checked with TLC on small instances and, where it matters most, proved with
TLAPS for every value of the constants. Paths below are relative to that
directory unless they start with `docs/` or `tests/`.

`PROJECT.json` lists the components, the runs, the mutants (a plausible bug for
every property, which the property's run must catch), the source lines behind
every definition, the findings, the hazards and the theorems.

## 1. The system

One Python process, or several, trade on paper against live quotes. All
durable state is in one SQLite file; `persistence.transaction()` is
`BEGIN IMMEDIATE .. COMMIT` on a connection per thread, so a transaction is
atomic and excludes other writers, while everything between two transactions
of one call may interleave with other threads and processes.

| component | state | operations | interacts with | what is hard | what makes it correct |
|---|---|---|---|---|---|
| money state: `orders/state.py`, `infrastructure/ledger.py` | `account` (cash, realized P&L), `cash_movements`, `positions` | apply_buy, apply_sell, reset | called inside the transactions of fills and corporate actions | three tables move together; rounding of partial sells | ledger sums to cash; value is conserved; no shares without cost |
| corporate actions: `corporate_actions/` | the same rows | dividend, split, bonus, rights | money state, event log | rescaling qty and avg_cost; rights drains events inside its transaction | value conserved |
| order lifecycle: `orders/` | `orders`, `trades` | execute, queue, fill, trigger, cancel, expire, bracket.queue, fire_pending | money state; called by clients and by the watcher | fills from stale rows, OCO, sibling quantities, half-failed brackets | terminal rows frozen; fills match trades; one exit per bracket; exits never oversell |
| submission: `orders/submit.py` | none of its own | submit_order | all of the above, idempotency, settlement, calendar, rules | the checks are made outside the fill's transaction | a retry does not trade twice; caps hold |
| pricing of fills: `orders/market.py`, `orders/book_helpers.py`, `execution/` | none | execute, apply_slippage, walk_book, fill_qty, calculate | price feed, money state | two lookups for one price; synthetic depth; rounding | best execution; no money pump; the figures add up |
| watcher: `workers/limit_orders.py` | daily flags | tick: roll the day, auction, AMO, expiry, square-off, stops, limits | reads orders, calls fill/trigger | snapshots, re-reads, swallowed exceptions | nothing filled through its limit; resting orders complete |
| idempotency: `infrastructure/idempotency.py` | `idempotency_keys` | lookup, store, cleanup | submit_order | key stored after the order; two clocks | one key, one order |
| settlement: `execution/settlement.py` | `pending_settlements` | enqueue, settle_due, deliverable_qty | fills, submission, square-off | the check is at submission only | delivered shares only are sold |
| events: `_context.py`, `infrastructure/events.py`, `infrastructure/observability.py` | `event_log`, `pending_events`, subscribers | emit, drain, publish, subscribe, unsubscribe, replay | every transaction | a list shared by threads without a lock; subscribers that come and go | callbacks after commit, exactly once |
| price feed: `price_feed.py`, `providers/` | breaker state, two caches | get_quote, get_market_quote, prime, reset | watcher, submission, reads | fallbacks, caches written by several threads, probe accounting, merging | a quote says the truth about itself; a healthy provider is used again |
| session: `infrastructure/market_hours.py`, `holidays.py`, `clock.py` | the calendar's dates, the cached dates of the exchange | current_phase, next_open, reload | watcher, submission | holidays, midnight, replay clocks, stale cache files | phases partition the day; orders die with their session |
| symbol master: `infrastructure/symbols.py` | `symbols` | upsert, load_csv, delist, relist, validate | submission | edits under orders in flight | orders are checked with the row in force |
| migrations: `infrastructure/migrations.py`, `cli.py` | `schema_version`, the schema | run_migrations, `migrate` | every start | concurrent openers, crashes in between, files of release 0.1.x, rebuilt tables | each migration applied once, in order; no row is lost |
| pre-open auction: `orders/preopen.py` | none | compute_equilibrium, run | watcher, limit fills | tie-breaking | executable volume is maximal |
| rules: `domain/rules/` | none | round_to_tick, validate, RiskEngine.check | submission | rounding, caps | caps hold for every order accepted |
| user interfaces, vendors, listings, watchlist, shims | - | - | - | I/O, queries | not modelled |

## 2. Modules

| module | models | extends / uses |
|---|---|---|
| `Account` | one account's cash, ledger and one position: the promise of the money side | |
| `Orders` | the order table, its trades, client threads and watcher threads | `A == INSTANCE Account` |
| `Market` | the arithmetic of a fill: slippage, order book, ticks, lots, bands, fees, slices | |
| `Execution` | submission checks, pricing and commit of orders in one symbol, the symbol master, the account summary | `Account`, `Market` |
| `Idempotency` | submissions under a key, the key table, its pruning, resets and crashes | |
| `EventDelivery` | what the callback bus promises | |
| `Events` | threads, their transactions, the shared pending list, subscribers that come and go | `D == INSTANCE EventDelivery` |
| `Breaker` | the circuit breaker around a provider and the threads that call through it | |
| `Feed` | the chain of sources, the composite, both caches, the lookups of threads and the fills they price | `Breaker` |
| `Calendar` | trading days, phases, next_open, where the holidays come from | |
| `Session` | phase rules of a submission, the once-a-day work of the watcher's tick | `Calendar` |
| `Settlement` | T+1 rows, the deliverable quantity, the square-off, for one symbol | |
| `Auction` | the pre-open auction of one symbol: its price, allotment and fills | |
| `Migrations` | the processes that open one file and bring it to the version of their package | |
| `MCOrders`, `MCExecution`, `MCIdempotency`, `MCEvents`, `MCFeed`, `MCSession`, `MCSettlement`, `MCAuction`, `MCMigrations` | instances for TLC | |
| `AccountProofs` | theorems about the money side | `Account` |
| `OrdersProofs` | theorems about the lifecycle, brackets, fills, the position, limits | `Orders`, `Sums`; `AP == INSTANCE AccountProofs` |
| `ExecutionProofs` | theorems about priced orders and the books they walk | `Execution`, `AccountProofs`, `Sums` |
| `FeedProofs` | theorems about the breaker and the feed | `Feed`, `Sums` |
| `WatcherProofs` | theorems about the day: settlement, session, auction | `Settlement`, `Session`, `Auction`, `Sums` |
| `ClientProofs` | theorems about what clients are told, by key and by callback | `Idempotency`, `Events` |
| `MigrationsProofs` | theorems about the schema | `Migrations` |
| `Sums` | lemmas about sums over finite sets and about loops | |

**Account.** State: `cash`, `realized`, `ledger` (one running sum per movement
reason), `shares` and `basis` (= qty * avg_cost). Actions: `Buy`, `Sell`
(`apply_buy`, `apply_sell`), `Dividend`, `Split`, `Bonus`, `Rights`, `Reset`.
Keeping the basis instead of the average makes every operation exact except
the cost of a partial sell, which is the named division `CostOf`. Money and
shares are whole numbers; a corporate action that would leave a fraction of a
share is left out. Fees are a table `Fee[side][qty][price]`, arbitrary in the
proofs.

**Orders.** State: `orders` (the rows), `traded` (the sum of the trades of an
order), `firing` (client threads between the read and the claim of
`fill_pending_market`), and for each watcher `stage`, `quote`, `todo` (the
`Order` objects its loops hold) and `claim` (the stop it is about to fill).
One transaction is one action. Client actions: `ExecuteMarket`, `Queue`
(limit, stop, AMO), `QueueBracket`, `FireAmo`, `ClientFires`, `ClientGivesUp`,
`Cancel`, `ExpireDay`, `Reset`. Watcher actions, in the order of `tick()`:
`Pull`, `TriggerStopMarket`, `TriggerStopLimit`, `SkipStop`, `FillStop`,
`StopNotFilled`, `Repull`, `FillSlice`, `SkipLimit`. A watcher may see any
price at each tick, a stop is filled at a quote of its own, a slice is any
part of the remaining quantity. `slice_qty <= 0` (limit.py 102) is not
reachable from the watcher, since a limit row's quantity is never reduced to
what it has filled, and has no action.

Account operations happen inside order operations, so `Orders` uses
`Account`'s actions themselves; `ImplementsAccount` then says that threads,
rollbacks and rows never move money in any other way.

**Market** has no state. Prices are fractions `<<n, d>>` (a percentage, an
average over book levels), so that slippage and the walk are exact and
`Principal` and `HalfUp` round once, as the code's paise do. `Synthesize` and
`BookFromLevels` build the ladders of `execution/book.py`, `Walk` is
`walk_book`, `FeeTotal` is `FeeEngine.calculate`, `ConfigOn` picks the schedule
of the trade date, `FillQty` is the slice of one tick.

**Execution.** A market order takes three steps, as its thread does: `Submit`
(master, lot, tick, band and caps, with the price the feed gives at that
moment), `Price` (`_get_fill_quote`, slippage, `maybe_apply_book_impact`, fees)
and `Commit` or `Refused` (the transaction). Limits rest and are filled in
slices by `FillLimit`. `EditMaster`, `Corporate` and `ResetAll` come in between.
Every lookup may answer any quote, so the two lookups of one fill may disagree.
The history field `raced` of an order says that the account has changed since
it was checked. `Summary` is what `reads/account.py` reports.

**Idempotency.** A submission makes four separate accesses to the database:
`Submit` (lookup of the key), `Replay` (read of the order it names),
`Dispatch` or `Refuse` (the order's transaction), `Store` or `StoreRaises` (the
key's transaction). Other clients, `Reset`, `Cleanup` (`cleanup_expired`) and
`Crash` come in between. `now` is the broker's clock and `Skew` what the wall
clock, which cleanup uses, is ahead of it. What happens to an order afterwards
belongs to `Orders`.

**Events.** `Begin`, `EmitMore`, `AppendEvent` are `emit()`: the row, the read
of the attribute `pending_events` and the append are separate, because Python
may switch threads between them. `TestPending`, `Take`, `Swap`, `Send` are
`drain_pending_events`, `Publish` is one call of a subscriber by
`EventBus.publish`, which walks the list of subscribers while `Subscribe` and
`Unsubscribe` change it. Lists of events are objects, so a thread may hold one
that has been replaced. A subscriber may call the broker, so a thread has a
stack of frames. Who unregisters moves the later subscribers up under the loops
of `publish`, which then pass one over; the history `passed` remembers whose
turn it was, and with which event. `DrainInside` is the rights issue that subscribes no shares,
which drains inside its transaction. `EventDelivery` has three actions:
`Commit` and `Deliver`, and `Announce` for a rights issue, whose event may be
delivered while its transaction is open (`early` is mapped to the rows of that
transaction).

**Breaker.** The lock makes `_allow_call`, `_record_success`,
`_record_failure` and `reset` atomic: `Call`, `Succeed`, `Fail`, `Reset`. The
provider itself is called without the lock, so a thread is in `calling` between
the two and returns at any time, also long after the breaker opened.
`AnswerNothing` is a call that returns None (unknown symbol), which is recorded
as neither. Note that one failure on an empty window already opens the breaker,
since 1/1 exceeds every failure rate below one; `Cause` keeps this.

**Feed.** A thread is idle, asks the source whose turn it is (`Ask`), holds an
answer that is not cached yet (`Hold`, and `Half` when the long cache has it),
or has a price for a fill (`Priced`). `GetQuote` looks in the short cache,
`GetMarketQuote` does not; `Enter`, `Refuse`, `GuardedAnswers` and
`GuardedFails` go through the breaker, `Answer` and `Miss` ask the others,
`UpdateLong` and `PutShort` write the caches, `LastResort` is the stale answer
or the exception. `Went` is what follows: a fill looks a second time for bid
and ask, a watcher's tick has its price, a read is over. A quote is what the
guards tell apart: the kind of its feed, its flag `is_real_time`, whether it
has bid and ask, whether it is stale, and whether its price left the range of
the honest members of the composite (`wild`).

**Calendar** and **Session.** An instant is one of six slots of a day (night,
pre-open, the gap before the open, regular session, post-close, evening), at
which `current_phase` answers the same. `Build` is a new calendar: the bundled
dates and those of a fresh cache file, of the API, or of a stale file; `Reload`
is `NSECalendar.reload`. `tick()` reads the clock for `today` (`Roll`), for the
phase (`ReadPhase`) and for the session (`Gate`), and does its work in between
(`Auction`, `FireAmos`, `Expire`, `FillLimits`; `PassOver` when a flag or the
phase says no). A limit trades whole or in part (`Trade`), and one that is
partially filled is worked on (`Working`) but not expired. The auction may stop
anywhere; the firing of AMOs and the expiry may raise (`Raises`), after which
the flag is set all the same and `raised` remembers it. `Advance` and
`ChangeCalendar` may come between any two of these, and `Stop` and `Start` replace the watcher object with its flags. `Check`
and `Queue` are the phase rule of `submit_order` and the order's transaction.
The history variables only serve the properties. Which orders trade is left
open; quantities and prices are the business of `Orders` and `Execution`. The
square-off, the tick's remaining daily work, is in `Settlement`.

**Settlement.** `due` is the pending quantity of the buy rows by settlement
date. `CheckSell` is `_t_plus_1_sellable_check`, `Sell` the market sale after
it, `Rest`, `FillResting` and `CancelResting` the life of a limit or stop.
`EnterBracket` is the fill of a bracket's entry, whose exits rest from then on
without any check. Intraday trades make no rows and are not checked. What the
code keeps and what is so are two things here:

- `due` is what the rows say, `owed` what was bought for delivery, by date. A
  split (`SplitTwoForOne`, `SplitOneForTwo`) rescales the position and `owed`
  and leaves the rows; `scaled` is how much of `owed` it has added. `behind`
  remembers how many undelivered shares were sold without a check, or behind
  one that another sale or a consolidation had overtaken (`stale`).
- `counted` is the sum that `square_off_intraday` computes, `intraday` what was
  bought and sold. They differ by `missed` and `extra`: slices of an order that
  was then cancelled, by a client (`CancelSliced`) or as the sibling of a filled
  exit (`Recorded`), since its status is no longer one that the query asks for;
  fills of orders of an earlier day; and what a split does to the position only.

`ReadNet` and `SquareOff` are the two halves of `square_off_intraday`. The time
of day is not modelled, so the square-off may come at any time of a day.

**Auction.** `Equilibrium` (with the round `Better`) and `Allot` (with
`Remaining`, what a side's loop has left after n orders) are the loops of
`compute_equilibrium`, each a function of the number of its rounds. `Match`,
`ExecuteFill`, `Raise` are `run`, which fills the allotted orders one
transaction after the other while clients cancel (`Cancel`). `plan` is what is
left of the list of fills, by row; `Turn` is its order, buys before sells.

**Migrations.** The database file is `tables` (which tables of v1 there are),
`altered` (what v2 to v4 changed or added), `stamped` (`schema_version`),
`order` and `trades` (the richest order row, and whether its trades are there).
Brokers and the command `migrate` go through `run_migrations`: `Open`,
`Detect`, `Backfill` (one CREATE TABLE each), `StampLegacy`, `Check`,
`Migrate` (one migration and its stamp, one transaction) or `MigrationFails`.
`StampNested` is the command's stamp, which opens a transaction because the
command connects with Python's defaults. `Restart` ends a process anywhere and
starts it again with any package, older or newer; `Place` trades on the open
file. The effects of SQLite's DROP TABLE and of the two kinds of connection are
part of the model and were confirmed by running the migrations.

## 3. Runs

| run | asks | expectation |
|---|---|---|
| `bracket` | does a bracket stay consistent with its trades and the position while clients cancel, expire, reset and buy other shares of the symbol, and the watcher fills in slices; are entries and exits eventually done when every price is good enough? | pass |
| `shared` | what do two brokers on one file still guarantee, over every order type: shares match trades, one exit, no orphans, terminal rows frozen, limits respected, money moved by account operations only? | pass |
| `two_watchers_stale` | is a fill from a stale snapshot rolled back (docs/ARCHITECTURE.md 116-119)? | violation |
| `execution` | do the books balance and the reported figures add up whatever fills cost, is a walk of the book the best execution, is no quote a money pump, and what keeps the caps on a position? | pass |
| `idempotency` | do keys lead to their own orders, and are all clients given the same one? | pass |
| `events` | is the bus an `EventDelivery`, and whom of the subscribers that stay does an event miss, when subscribers call the broker from their callbacks and others come and go? | pass |
| `feed` | does a quote say the truth about itself through merging, caches and fallbacks, do guards hold although prices are looked up twice, does the breaker inside the feed open for cause and get tried again? | pass |
| `session` | does no untraded DAY order outlive its session, is every AMO tried in the next one, and after its auction, and is next_open the next open, whatever ticks straddle, restarts forget, calendars change, and which day's work raises? | pass |
| `settlement` | which sales may touch undelivered shares, does it matter when rows are rolled, what does the square-off leave open or sell too much? | pass |
| `auction` | does the price follow the documented rules for every book, is the allotment fair, and is what trades what was matched? | pass |
| `migrations` | do stamps tell the truth, is a broker that fails to open only late, do orders keep their columns, whatever races and crashes? | pass |
| `migrations_history` | does an upgrade keep the trades (migrations.py 114)? | violation |

Bounds, and why they are enough.

- `bracket`: four ids give one bracket and one other order of the same symbol,
  which is what `ExitsCovered` needs (other shares hide an oversell from
  apply_sell); quantity 3 lets the target fill in two slices before the stop
  runs. An id is used once, so behaviours end; nothing in the code bounds them
  otherwise. Ids are numbers here and `InOrder`, an action constraint, takes
  them in their order: they are drawn at random and nothing compares them, so
  this only leaves out renamings, like a symmetry set, which a run with
  liveness cannot have. The capital pays for everything the ids can buy;
  `shared` has the small one.
- `shared`: three ids are a bracket, or three orders of any types. Two
  watchers on quantity 2 are enough for a slice and a stale second slice.
- `execution`: one client with the book and one with slippage are what one
  race needs. The quotes are one with little volume, one without a usable bid
  and one with real depth on both sides that is too thin for the order, so that
  the ladder, the default spread and the tail behind real levels all price
  fills; a row with tick and lot 2 makes sides snap; brokerage reaches its cap
  and a second schedule is in force. `Bounds` in `MCExecution` limits the
  holding and the turnover of the next state; the theorems have no such bound.
- `idempotency`: one key, two hashes, two clients, three order ids (a race of
  two and a later resubmission), four instants with a TTL of one, so that a key
  expires and is taken again.
- `events`: three events and a stack of three frames (a callback within a
  callback), one thread, four subscribers: two that stay, one that leaves from
  the place in front of them, and one that is registered and unregistered at any
  time, also by a callback. So places in front of and behind a permanent
  subscriber become empty while a loop of `publish` is before, at and past them.
- `feed`: two threads are enough for one to write a cache between two lookups
  of the other, or to probe while the other returns late. The chain has a
  guarded real-time source and a composite of four members, of which one may be
  wrong in either direction and any may be silent; three must answer. Time to
  live of one tick, one call of `prime`.
- `session`: three days of which the exchange declares the second a holiday, so
  that calendars disagree about the middle day and an order meets trading days
  next to each other and apart. The calendar changes at night or in a session
  (`ChangeSlots`). One order, of any tif and at any time: no property relates
  two orders, and the watcher treats each by itself; a request is checked only
  while an id is left for it, since it would leave nothing. `MayRaise` lets the
  expiry and the firing of AMOs raise on the middle day, which the exchange's
  calendar has as a holiday and the bundled one does not, with days before and
  after on which they do not, and only when they have an order to work on: a
  raise without one changes nothing but what it excuses. `Punctual` assumes that
  some tick begins and ends in every slot, which is what a watcher polling
  every five seconds does; without it (a machine that is off from before the
  close until the next morning) `DayOrdersDie` and `AmosAreTried` cannot hold
  of any implementation.
- `settlement`: Friday to Monday, so that rows wait over a weekend; two shares
  of quantity one, two clients, so that a check can be overtaken, one resting
  order and one that is partially filled. While shares are in flight or
  delivery sells under way, only those histories are taken further in which
  every intraday fill has been counted and none came after the net was read
  (`NoDelivery`, `AllCounted` in `MCSettlement`): that an intraday sell takes
  undelivered shares does not depend on whether the square-off counts it. The
  theorems have no such bound. No square-off goes on at midnight.
- `auction`: every book of up to four orders over three prices and quantities
  1..2, with a reference price and without one. Four orders are two on each
  side, or three against one, which produces every tie of the rules and orders
  that are allotted partly. Limits are the only candidates for the price; the
  property asks for the largest volume over all prices, and for the smallest
  imbalance only among the limits, since a price between two limits may
  have a smaller one.
- `migrations`: two brokers and a command; packages of versions 1, 2 and 4; a
  new file, a complete file of release 0.1.x, and fragments of one with and
  without what the detector looks for. Files only grow and nothing is counted,
  so the state space is finite without a bound.
- Ids, keys, clients and threads are interchangeable and are symmetry sets in
  runs without liveness.

Fairness. `Orders!FairSpec` asks weak fairness of each watcher's steps as a
whole: the worker thread sleeps and ticks for ever (`run()`), and catches what
a fill raises. Nothing is asked of clients, of the order in which a tick works,
of slices or of prices; in the `bracket` run each price makes every order due,
because no code promises a price. A quote may be missing when a stop is filled;
`FairSpec` asks that a stop that triggers tick after tick gets one at last
(strong fairness of `FillStop`). `MCOrdersLive.cfg` checks the same two
properties with stop-limits and a feed that answers.
`Events!FairEventsSpec` says that a thread inside the broker goes on; nobody has to
call it. `Feed!FairFeedSpec` says that time passes, that a lookup that has begun
goes on (every source has a timeout), and that some read or poll always comes
again (the watcher polls for ever); nothing is asked of what sources answer.

Deadlock is checked except in the runs of `Events`, where all events may have
been used, and of `Auction`, where the auction ends.

## 4. Findings

`two_watchers_stale`: `limit.fill` claims rows that are PENDING or
PARTIALLY_FILLED and writes the `filled_qty` of its snapshot. Two watchers (two
brokers on one file) that read the same PENDING row fill it twice: the second
overwrites the first's `filled_qty`, and the trades exceed it.

`migrations_history`: migration 2 rebuilds the table `orders` with DROP TABLE on
a connection with `foreign_keys = ON`. SQLite then deletes the rows first, and
`trades` and `idempotency_keys` refer to them with ON DELETE CASCADE:
`defer_foreign_keys`, which the migration sets, defers checks and not actions.
A broker that opens a file of version 1 keeps its orders and loses all their
trades and keys. The command `migrate`, whose connection does not enforce
foreign keys, keeps them.

Further disagreements, each with a configuration that reproduces it. Those that
hold several claims are run with `tlc -continue -config <cfg> <module>`, which
reports every one that fails.

| configuration, property | the code | the text |
|---|---|---|
| `MCIdempotencyClaims`, `NoDoubleBuy` | the key is stored after the order's transaction (orders/submit.py 200): after a crash in between, the retry buys again | re-submitting returns the original order (QUICKSTART.md 132-133) |
| `MCIdempotencyClaims`, `AnswerIsTheRequest` | the hash leaves out stop, target and product (infrastructure/idempotency.py 59) | mismatched parameters are rejected (idempotency.py 4-5) |
| `MCIdempotencyClaims`, `KeysLiveTheirTTL` | under a replay clock, cleanup compares with the wall clock (idempotency.py 127) | keys live 24 hours (docs/COOKBOOK.md 111) |
| `MCFeedClaims`, `FillsAreRealTime` | the guard of `enforce_real_time` sees the first quote; bid and ask of a second lookup price the fill, whatever feed they come from (orders/book_helpers.py 57), and the watcher's tick guards freshness only (limit_orders.py 350) | enforce_real_time rejects fills on delayed feeds (price_feed.py 69-72) |
| `MCFeedClaims`, `PrimedIsNotRealTime` | `prime` stores its price with the default `is_real_time=True` (price_feed.py 199) | useful with end-of-day data (price_feed.py 198): a fill takes it for real-time |
| `MCFeedClaims`, `ProbeInFlight` | a probe that is answered with None records nothing and the breaker stays HALF_OPEN, refusing every call until `reset()` (providers/health.py 213) | on success the breaker closes, on failure it re-opens (providers/health.py 11-12) |
| `MCFeedClaims`, `OutlierOutvoted` | with two answers required, the median of two is their mean, and one wrong member moves it | one outlier can't drag a fill price (composite.py 9-11) |
| `MCExecutionClaims`, `FallsBackToSlippage` | with the book enabled, a fill without bid and ask is made at the last price; the slipped one is overwritten (orders/market.py 45-48, orders/book_helpers.py 60-63) | it falls back to the slippage-only path (book_helpers.py 53-55) |
| `MCExecutionClaims`, `CapHolds` | the caps are checked before the transaction (orders/submit.py 284-314): two buys in flight break them together | the order is rejected if the resulting position exceeds the cap (domain/rules/risk.py 59-60) |
| `MCExecutionClaims`, `RestStaysReserved` | once a limit is partly filled, its rest is no longer reserved (reads/account.py 40-48) | buying power is cash minus pending buy-limit notional (domain/models.py 190) |
| `MCSessionClaims`, `ExpiresAfterClose` | DAY orders expire at the first tick after midnight of a trading day, before its session, and then not after its close (limit_orders.py 208) | "Only expire if we're past 15:30 today" (limit_orders.py 210) |
| `MCSessionClaims`, `TradingFollowsAuction` | a tick that reads the phase before the open and the session after it fills limits before the auction (limit_orders.py 170, 241) | the auction runs at the first regular tick of the day (limit_orders.py 164-165) |
| `MCSessionClaims`, `DayEndsWithSession` | `expire_day_orders` passes over PARTIALLY_FILLED orders (orders/state.py 476), and the watcher pulls them in the next session (limit_orders.py 248) | a DAY order is pending until the session ends, then expired (domain/models.py 104-105) |
| `MCSessionClaims`, `UntradedDayEnds` | an expiry that raises is swallowed and the flag of the day set, so that it is not tried again (limit_orders.py 217-221) | the same |
| `MCSessionHolidays`, `FetchedStaysKnown` | `reload` clears the dates and reads the bundled files only (market_hours.py 126-129) | the API's dates are added on top (market_hours.py 97-100) |
| `MCOrdersClaims`, `OnlyAmosRest` | a bracket's market entry whose immediate fill fails rests as PENDING (orders/bracket.py 99) | only AMOs rest as market orders (orders/amo.py 35-36) |
| `MCOrdersClaims`, `DayOrdersExpire` | `expire_day_orders` passes over PARTIALLY_FILLED orders (orders/state.py 476) | DAY orders expire at the end of the session (domain/models.py 104-105) |
| `MCEventsTwoThreads`, `DeliveredIsCommitted` | `drain_pending_events` takes what another thread has emitted and not committed (_context.py 138) | subscribers fire after the commit (CHANGELOG.md 259-260) |
| `MCEventsRights`, `DeliveredIsCommitted` | a rights issue that subscribes nothing drains inside its transaction (corporate_actions/rights.py 98, 125) | subscribers fire after the commit (CHANGELOG.md 259-260) |
| `MCEventsOneShot`, `FansOutToAll` | a subscriber that unregisters itself in its callback moves the list under `publish`, which skips the next one (observability.py 131-144) | fan out to every matching subscriber (observability.py 132); 90-94 ask for a lock outside, which a callback's own thread passes |
| `MCSettlementClaims`, `RestingSellsDelivered` | resting sells were checked at submission and are not checked again when they fill (orders/submit.py 171); the exits of a bracket are never checked (orders/bracket.py 67-86) | a fresh delivery buy isn't sellable the same day (settlement.py 70-71) |
| `MCSettlementClaims`, `MarketSellsDelivered` | a split doubles the position and not the pending rows (corporate_actions/splits.py 83), so the shares that it adds to an unsettled buy pass the check | the same |
| `MCSettlementClaims`, `SquareOffClosesAll` | the net leaves out slices of an order that was then cancelled, fills of orders of an earlier day, and splits (orders/state.py 512-513) | close all open intraday positions (orders/state.py 500) |
| `MCAuctionOneSided`, `CrossingOrdersFill` | a fill that raises ends the auction, maybe after one side only (orders/preopen.py 267) | orders that cross at the equilibrium price fill there (preopen.py 9-10) |
| `MCMigrationsRace`, `OpenersNeverFail` | of two brokers that open a new file together, the second runs migration 2 on a migrated file and fails: duplicate column (migrations.py 361, 135) | one file is safe to share across brokers (docs/ARCHITECTURE.md 206) |
| `MCMigrationsCommand`, `OpenersNeverFail` | on a file of release 0.1.x the stamp opens a transaction in the command's connection, and BEGIN IMMEDIATE fails in it (cli.py 451, migrations.py 349, 369) | the command upgrades such a file (docs/COOKBOOK.md 349-359) |

Met while reading, without a configuration: `slippage.py` 100-102 says that the
watcher passes the limit price to limits without slippage, while limit_orders.py
363 passes the price of the feed, so that they fill at it; a risk check whose
price lookup fails multiplies with zero and passes (orders/submit.py 281);
market orders are never compared with the price band, since only prices of the
request are; and a bid or ask that is off the tick is rounded to the nearest
one, up or down (book.py 157-227), so that a synthetic ask may lie below the
provider's.

## 5. Proofs

All theorems hold for arbitrary constants under named assumptions, which TLC
evaluates on every run whose module extends theirs:

- `AccountAssumption`;
- `OrdersAssumption`: positive quantities closed under taking parts, positive
  prices, natural fees and balances, requests that submit_order's basic guards
  let through;
- `BreakerAssumption`: positive thresholds and window, a rate of at most one;
- `FeedAssumption`: the composite is not the guarded source nor its own member,
  positive times to live;
- `ExecutionAssumption`: positive quantities and last prices, slippage of at
  most 100 %, schedules without negative rates, natural ticks, a ladder of
  positive decay, and real depth without empty levels (providers leave them
  out: upstox.py 268-272);
- `MigrationsAssumption`: packages are versions 1..4, a file without versions
  holds tables of v1, brokers and commands differ;
- `IdempotencyAssumption`: natural clocks, `None` is no request and no row;
- `CalendarAssumption`, `SessionAssumption`: dates are days of the run;
- `SettlementAssumption`: positive quantities;
- `AuctionAssumption`: positive limits and sizes;
- `EventsAssumption`: the subscribers of the start are distinct (a callback that
  is registered twice is two subscribers).

Hypotheses of single theorems say what they need beyond these: at most one
watcher; one thread on the bus; one clock (`Skew = 0`); `Punctual`; `NoLongClosure`; three answers for
the median; real depth that is `BestFirst`, or `Uncrossed`; finitely many order
ids. Each one is met by a run (`MCSession` evaluates `NoLongClosure`,
`MCExecution` `BestFirst` and `Uncrossed`), and what happens without it is said
below.

**Money.** `AccountProofs`: `TypeOK`, `CashIsLedger`, `EquityConserved`,
`BasisIffShares`. `TypeOK` and the rounding lemma (the cost of a part is
strictly less than the basis while shares are left) carry the induction.
`BuyForKeeps` and `SellForKeeps` say it of one fill at any principal and fee,
for `ExecutionProofs` to use.

**Priced orders.** `ExecutionProofs`: `CashIsLedger`, `BasisIffShares`,
`PnlAddsUp`, `CapHoldsUnlessRaced`, `NoFreeRoundTrip`, `WalkIsBest`. `ExecInv` says what each
kind of order carries: what was priced outside the transaction has a natural
principal, positive for a purchase, and a natural fee, and what rests has
something left. The lemmas under it are about the arithmetic: `SliceFits` (a
slice is between one share and the rest), `SlippedIsPrice`, `PrincipalType`,
`FeesAreNat`. The caps need `CapInv`: a buy that nothing overtook still fits at
the price it was checked with, because whoever changes the account marks all
the others (`RacedIsTold`) and only its own commit fills an order
(`FilledByCommit`). `NoFreeRoundTrip` rests on `PricedAsQuoted`: until its
commit an order carries the price of the quote and the tick it was priced with,
whatever the master and the feed did meanwhile. What is left is about one quote:

- The book. `BookFacts` says what every book has, synthetic, real or real with a
  tail: positive prices on both sides; the better levels first, if real depth is
  `BestFirst`; and, if real depth is `Uncrossed`, a price that no bid is above
  and no ask below. For a synthetic book that is the snapped bid when the quote
  is usable (`SnapKeepsOrder`: rounding to the tick keeps bid below ask, also
  when one of them rounds to nothing) and otherwise the last price, because the
  half spread is at least half a tick (`SpreadHasLast`); ladders and tails only
  lead away from it (`LadderFacts`, `ExtendFacts`).
- `BookPriceIsPrice`: the average of a walk is at least one unit, whatever the
  sizes (`CostBounds`). With the caps of slices and the fees, that is all that
  the money theorems need of a book.
- `BooksFair`: who sells gets at most that middle price for a share and who buys
  pays at least it, and an empty side is priced at the last price, which is then
  the middle. Real depth that is crossed does pay for a round trip, and so may
  real depth in which no bid is positive: its side is then empty and falls back
  to the last price, wherever the asks are.
- `WalkBeats`: no way to take the shares from sorted levels is better than the
  walk. Let the last level that the walk reaches have price p. Level by level,
  what another way takes more of is no better than p, what it takes less of no
  worse (`BetterFirst`), and both take the same number of shares; the sum over
  the levels (`SumLinear`, `SumLeq`) is the claim. `LeftLoop` and `TakeFacts`
  say what the loop of `walk_book` leaves and takes.

**Lifecycle.** `OrdersProofs`, in the order of its sections:

- `TypeInv` adds to `TypeOK` that a watcher with limits in hand has a quote and
  that what it holds has something left to fill; `TypeOK` alone is not
  inductive, because a slice's quantity is the difference of two numbers of a
  snapshot. `OrdersImplementAccount` is the refinement step by step, with
  Account's variables mapped to themselves, and `OrdersCashIsLedger` is
  Account's theorem carried over by it. `OrdersTerminalFrozen` needs no more
  than `TypeInv`: every claim asks for a live status, every sibling update does
  too.
- `NoOrphans`, `OneExit`, `ExitsWait`. The inductive `BracketInv` adds the
  shape of families (an exit's parent has no parent, siblings share their tif,
  one stop and one target), that live exits of an unfilled entry have traded
  nothing, that whatever a watcher holds was released by its entry (a released
  exit stays released: FILLED is final), and that a client fires entries only.
- `SharesMatchTrades`, with any number of watchers. `SharesAreNet` says that
  the position is the sum over all ids of what each has bought or sold; one
  fill changes one term of the sum (`Sums`).
- `LimitRespected`, with any number of watchers. `LimitInv` adds that a live
  limit row has a limit, that what a watcher holds is of the kind its row is,
  and that a limit in hand was crossed by the quote in hand (`Crossed`); the
  fill is made at that quote.
- With at most one watcher: `FillsMatchTrades`, by `Current` (a held snapshot
  has the row's filled quantity as long as the row is live), which a second
  watcher destroys, as `two_watchers_stale` shows; then `StatusMatchesFill`,
  `ExitsCovered` and `StopCoversRest`. Their `WholeInv` says of the rows what
  one has for all of its life: what was filled of each and what is left
  (`Fits`), which row is whose exit (`Pairs`, `PartsAreLimits`), that the two
  exits of a filled entry together are never for more than it (`ExitsFit`); and
  of the snapshots of live rows that their quantity is the row's. The sum over the
  exits in `ExitsCovered` is one of two terms, because an entry has one stop
  and one target.

**Prices.** `FeedProofs`:

- of the breaker: `TypeOK`, `CauseStands`, `FailedProbeReopens`. The heart is
  how the window's failure count moves: appending counts the new result,
  dropping the oldest loses at most one (`TailFailures`, by an injection that
  shifts positions), so a further failure never lowers the rate below its
  threshold. `CauseStands` is then inductive with `TypeOK`.
- of the feed: `BreakerRespected` (every step of the feed is a step of its
  breaker or none, so that what is proved of the breaker holds inside the
  feed), `NoLaundering`, `FreshFills`, `FeedTypeOK`. `FeedInv` says what a
  thread may hold depending on what its lookup is for: an answer on its way to
  the caches is fresh and says the truth about its feed, and the anchor of a
  fill has passed the guards of that thread already. `WentProper` is the crux:
  the second lookup may be stale, but a stale answer has no bid and ask and
  then does not price the fill.
- `OutlierOutvoted`, with three answers required. The median of a set in which
  one member is wrong lies between two of the others, by counting who is below
  and who is above it; nothing wild then enters a cache (`Tame`). With two
  answers it is false, which is one of the disagreements of section 4.

**The day.** `WatcherProofs`:

- Settlement: `ChecksKeepUndelivered`, `SquareOffCloses`, type. `SettleInv`
  says that the rows of later dates cover what is owed but for what splits have
  added to it, whenever they are rolled (`RowsCover`), that a check that was not
  overtaken still holds against that (`ChecksHold`), that what was traded
  intraday and what is counted differ by no more than `missed` and `extra` say
  (`NetFits`), and that the net a square-off has read is still what was bought
  before, up to that and to what clients traded since (`TargetFits`). The first
  two say why `ChecksKeepUndelivered` survives a checked sale, the last two why
  `SquareOffCloses` survives the square-off, neither of which it says itself.
- Session: `NextOpenIsNext` (from `NoLongClosure`, the walk's "~3 weeks of
  guard", market_hours.py 194), and for a punctual watcher `DayOrdersDie`,
  `AmosAreTried`, `AuctionComesFirst`, each with what it excuses: days on which
  the work has raised, or that became trading days. `SessionInv` ties the once-a-day flags,
  the phase a tick has read and the stage it is in to what has been done with
  the orders of that day: what a flag claims happened (`FlagsTell`), what the
  stages of the tick have finished (`StagesDone`), that the night is clean
  of DAY orders that have not traded (`NightCleans`), that every session that is past was tried in
  (`SessionsPast`). A restart may forget the flags, which only ever makes the
  work happen again; a calendar may change at night or in a session.
- Auction: `EquilibriumFollowsRules`, `MatchIsFair`, `TradesFollowMatch`, for
  every book. `compute_equilibrium` keeps the best price so far (`BestBeats`:
  after n rounds it beats each of the n candidates, and between two limits
  nothing trades more than at one of them, `LimitsTradeMost`); the allotment's
  loop leaves to an order what the earlier ones have not taken (`RemainsIs`,
  `GivenIsGone`), which gives both sides the volume (`AllotIsFair`).
  `AuctionInv` then follows the fills through `run` while clients cancel: what
  was matched of an uncancelled row has traded or is still in the plan.

**Keys.** `ClientProofs`: `KeyNamesItsOrder` by `NameInv` (what a client
holds between two of its accesses fits the key it has read). `AnswersAgree` by
`AnswerInv`: an answer given in the near past is backed by its key (`Backed`),
and two orders given for one key and still there lie further apart than the
time both clocks protect it (`Apart`). This is proved
for any difference of the two clocks, as `NearAnswersAgree`: clients agree for
TTL less `Skew`. With one clock it is `AnswersAgree`, and a key only goes early
when its order does (`KeysLiveTheirTTL`); the configuration `MCIdempotencyClaims`
shows that this fails when the clocks differ.

**Callbacks.** `ClientProofs`: `ImplementsDelivery`, for one thread, and
`QuietMeansDrained`, for any number.

- `EventsImplementDelivery` is the refinement step by step: the first emit of a
  rights issue announces its event, a commit commits its events, a call of a
  subscriber delivers, and everything else is no step. A delivery needs that the
  subscriber has not been called with the event. `BusInv` says why: an event is
  in one place of one list (`EventsPlaced`), what waits was not sent (`SentOnce`),
  and each call knows that what follows in its list was not sent, and that the
  subscribers that follow were not called with the event at hand (`Knows`). A
  callback that calls the broker drains a new list while the loop that called it
  waits with its own, so the lists of one stack differ (`OwnLists`). Who
  unregisters moves the later subscribers up, which may pass one over
  (`MCEventsOneShot`) but calls none twice. That a delivered event is committed,
  or is that of an open rights issue, comes from `LockFits`: a thread that is
  publishing is outside its transaction unless it is a rights issue.
- All this needs one thread: with two, `DeliveredIsCommitted` fails and an event
  is appended to a list that another thread sends from.
- `EventsQuietMeansDrained` does not: whoever leaves the last event in the
  current list is still on its way to test, take and swap it (`SomebodyDrains`),
  however the steps of others fall between.

**Schema.** `MigrationsProofs`: `TypeOK`, `SchemaIsStamped`, `FailureMeansDone`,
`OrdersSurvive`. Whoever is inside `run_migrations` acts on what it read
before; the inductive `IInv` adds what each place still knows (`Knows`: the
tables the backfill has passed, the versions below the migration at hand),
which stands because files only grow, that stamps are a prefix of the
versions, and that the columns of v2, in the table or in use, mean its stamp.

**Sums.** Induction over data is not available to the provers used here, so the
lemmas about sums over finite sets are proved without it: what fails for some
subset fails for a smallest one (`LeastNat` on its cardinality), and taking
one element from that gives a contradiction. In the same way `LoopEnds` shows
that a function defined by rounds exists, by the largest number of rounds for
which there is one, so that the equations of a recursive function may be used;
`Rounds` reaches every round from the one before.

Checked by TLC only: liveness, because `tlapm` has no reasoning about fairness
(`EventuallyDelivered` and the other properties with `~>`), and the
disagreements of section 4.

## 6. Not modelled, and the plan

Not modelled for good: vendors' HTTP clients, CLI and app, listings and the
watchlist, deprecated shims, log wording, presets.

Not modelled yet, with the reason:

- `EventBus.replay_from_broker`, which publishes old rows again and so gives up
  exactly-once on purpose;
- the queue positions of `execution/book.py`: `observe_trade` has no caller in
  the package, so that no queue ever moves;
- `simulation.py` (latency sleeps, rejections by dice): a client that submits
  later or not at all;
- `reads/basis_breakdown` and price history;
- the ten closed minutes from 15:30 to 15:40 have no slot of their own; the work
  that is due in them is the work that is due after the close.

Next, in this order:

1. An abstract order lifecycle with atomic fills, refined by `Orders` with one
   watcher; `Execution` composed with `Orders`, so that the lifecycle has the
   prices of `Market`.
2. The ticks of `Orders`, `Session` and `Settlement` composed into one.
