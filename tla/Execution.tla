------------------------------- MODULE Execution -------------------------------
(****************************************************************************)
(* What one fill costs and what it does to the books: clients check, price  *)
(* and commit market orders and rest limit orders in one symbol, while the  *)
(* feed moves and the symbol master is edited.  The account is module       *)
(* Account, the arithmetic module Market.                                   *)
(*                                                                          *)
(* A market order takes three steps, as its thread does: the checks of      *)
(* submit_order, which read the master, the feed and the position; the      *)
(* price, from one or two lookups; and the transaction.  Nothing that was   *)
(* read is read again.                                                      *)
(*                                                                          *)
(* Abstractions.                                                            *)
(*  - Every lookup of the feed may answer any quote, or fail: two lookups   *)
(*    of one order need not agree.                                          *)
(*  - The checks of one submission are one step: of what they read only the *)
(*    position is read again later, by the transaction.                     *)
(*  - The trade date of a fill is any day: it only selects the fees.        *)
(*  - The kill switch, the whitelist and the simulated rejections are a     *)
(*    client that does not submit.                                          *)
(****************************************************************************)
EXTENDS Account, Market

CONSTANTS
  Clients,          \* threads that submit, one order each at a time
  BookClients,      \* those whose broker has OrderBookConfig.enabled
  SlipLimits,       \* those whose broker has apply_to_limits
  Requests,         \* per client, the [side, qty, limit] it may send; the limit
                    \* of a market order is NoValue
  Lasts,            \* last prices the feed may answer
  Quotes,           \* market quotes it may answer
  Rows,             \* [tick, lot, band] that rows of "symbols" may have
  Defaults,         \* MicrostructureConfig: the same fields
  Strict,           \* SymbolMaster.strict
  MaxOrder, MaxPosition, MaxEquityPct,  \* RiskConfig, NoValue for no cap
  Days              \* trade dates an order may be filled on

\* The fields of a fee configuration are not negative.
FeeConfigs == [flat : Nat, pct : Nat, max : Nat, exchange : Nat, gst : Nat,
               sebi : Nat, sttBuy : Nat, sttSell : Nat, stamp : Nat, dp : Nat]
Or(value, default) == IF value = NoValue THEN default ELSE value

\* The tick that a row of the master, or none, gives.
Ticks == {Defaults.tick} \cup {Or(row.tick, Defaults.tick) : row \in Rows}

\* One level of real depth: empty ones never leave the provider.
Level == [price : Int, size : Nat \ {0}]

ASSUME ExecutionAssumption ==
  /\ Scale \in Nat \ {0} /\ SlippageBps \in Int /\ SlippageBps <= Scale
  /\ NoValue \notin Clients \cup Int /\ BookClients \subseteq Clients
  /\ Lasts \subseteq Nat \ {0}
  /\ {Levels, DepthPct, SpreadBps, DefaultAdv} \subseteq Nat
  /\ Decay \in (Nat \ {0}) \X (Nat \ {0})
  /\ Ticks \subseteq Nat
  /\ \A m \in Quotes :
       /\ {m.bid, m.ask, m.volume} \subseteq Int \cup {NoValue}
       /\ {m.bids, m.asks} \subseteq Seq(Level)
  /\ \A day \in Days : ConfigOn(day) \in FeeConfigs
  /\ {MaxPerTick, MaxPctPerTick, MinFill} \subseteq Nat \ {0}
  /\ \A c \in Clients : \A r \in Requests[c] :
       /\ r.side \in {"buy", "sell"} /\ r.qty \in Nat \ {0}
       /\ r.limit \in {NoValue} \cup (Nat \ {0})

VARIABLES
  listing,          \* the row of table "symbols" for the symbol
  order             \* what each client's order is doing

execVars == <<vars, listing, order>>

None == [at |-> "none"]
NoRow == [state |-> "absent"]

ExecInit ==
  /\ Init
  /\ listing = NoRow
  /\ order = [c \in Clients |-> None]

-----------------------------------------------------------------------------
(* infrastructure/symbols.py *)

\* upsert, and each row of load_csv: clears the delisted flag.
Upsert(row) == listing' = [state |-> "listed", row |-> row]

Delist ==
  /\ listing.state = "listed"
  /\ listing' = [listing EXCEPT !.state = "delisted"]

Relist ==
  /\ listing.state = "delisted"
  /\ listing' = [listing EXCEPT !.state = "listed"]

\* validate passes.
Tradeable ==
  /\ listing.state # "delisted"
  /\ listing.state = "absent" => ~Strict

\* symbol_microstructure: the row's rules, the defaults for its NULLs.
Rules ==
  IF listing.state = "absent" THEN Defaults
  ELSE [tick |-> Or(listing.row.tick, Defaults.tick),
        lot |-> IF listing.row.lot > 0 THEN listing.row.lot ELSE Defaults.lot,
        band |-> Or(listing.row.band, Defaults.band)]

-----------------------------------------------------------------------------
(* orders/submit.py, domain/rules/risk.py *)

PrevCloses == {m.prevClose : m \in Quotes} \cup {NoValue}

\* _microstructure_check passes: only the prices of the request are compared
\* with tick and band, so a market order is only asked for its lot.
FitsRules(r) ==
  /\ InLots(r.qty, Rules.lot)
  /\ r.limit # NoValue =>
       /\ OnTick(r.limit, Rules.tick)
       /\ \E prevClose \in PrevCloses : InBand(r.limit, prevClose, Rules.band)

\* A holding of held shares at the price is within the caps of the position;
\* equity is cash and cost.
HoldingFits(held, price) ==
  /\ MaxPosition # NoValue => held * price <= MaxPosition
  /\ MaxEquityPct # NoValue /\ cash + basis > 0 =>
       held * price * Scale <= MaxEquityPct * (cash + basis)

\* Mutant of PositionFits: the shares already held are forgotten.
OrderFits(q, price) == HoldingFits(q, price)

\* _check_post_fill_position passes.
PositionFits(q, price) == HoldingFits(shares + q, price)

\* RiskEngine.check passes.
WithinCaps(side, q, price) ==
  /\ MaxOrder # NoValue => q * price <= MaxOrder
  /\ side = "buy" => PositionFits(q, price)

\* What the risk check multiplies with: the limit, or the last price, or 0
\* when the feed fails (_safe_last_price_for_risk).
RiskPrices(r) == IF r.limit = NoValue THEN Lasts \cup {0} ELSE {r.limit}

\* The checks of submit_order; a limit order then rests, in the book's row.
\* raced is history: the account changed since this order was checked.
Submit(c, r, risk) ==
  /\ order[c] = None
  /\ Tradeable /\ FitsRules(r)
  /\ WithinCaps(r.side, r.qty, risk)
  /\ order' = [order EXCEPT ![c] =
       IF r.limit = NoValue
       THEN [at |-> "checked", side |-> r.side, qty |-> r.qty,
             risk |-> IF r.side = "buy" THEN risk ELSE 0, raced |-> FALSE]
       ELSE [at |-> "resting", side |-> r.side, qty |-> r.qty,
             limit |-> r.limit, filled |-> 0]]

-----------------------------------------------------------------------------
(* orders/market.py, orders/limit.py *)

\* The price of a market order of client c.
PriceFor(c, side, q, last, m, tick) ==
  IF c \in BookClients THEN BookPrice(side, q, last, m, tick)
                       ELSE Slipped(side, last)

\* execute, before the transaction: the fill quote, the book, the fees.
Price(c, last, m, day) ==
  LET o == order[c]
      price == PriceFor(c, o.side, o.qty, last, m, Rules.tick)
  IN
  /\ o.at = "checked"
  /\ c \notin BookClients => m = Down
  /\ order' = [order EXCEPT ![c] =
       [at |-> "priced", side |-> o.side, qty |-> o.qty, risk |-> o.risk,
        raced |-> o.raced, last |-> last, quote |-> m, tick |-> Rules.tick,
        principal |-> Principal(o.qty, price),
        fee |-> FeeTotal(ConfigOn(day), o.side, Principal(o.qty, price))]]

\* _get_fill_quote raises: no source answers, or it is stale.
NoFillQuote(c) ==
  /\ order[c].at = "checked"
  /\ order' = [order EXCEPT ![c] = None]

\* The other buys in flight learn nothing of a change of the account.
Raced(c) ==
  [d \in Clients |->
    IF d # c /\ order[d].at \in {"checked", "priced"} /\ order[d].side = "buy"
    THEN [order[d] EXCEPT !.raced = TRUE] ELSE order[d]]

Apply(side, q, principal, fee) ==
  \/ side = "buy" /\ BuyFor(q, principal, fee)
  \/ side = "sell" /\ SellFor(q, principal, fee)

CanApply(side, q, principal, fee) ==
  \/ side = "buy" /\ CanBuyFor(q, principal, fee)
  \/ side = "sell" /\ CanSellFor(q, principal, fee)

\* The transaction of execute.
Commit(c) ==
  LET o == order[c] IN
  /\ o.at = "priced"
  /\ Apply(o.side, o.qty, o.principal, o.fee)
  /\ order' = [Raced(c) EXCEPT ![c] = None]

\* It raises: no funds, or no shares.
Refused(c) ==
  LET o == order[c] IN
  /\ o.at = "priced"
  /\ ~CanApply(o.side, o.qty, o.principal, o.fee)
  /\ order' = [order EXCEPT ![c] = None]

Crossed(o, last) == IF o.side = "buy" THEN last <= o.limit ELSE last >= o.limit

\* limit.fill of one slice, at the last price of the watcher's tick.
FillLimit(c, last, day) ==
  LET o == order[c]
      q == FillQty(o.qty - o.filled)
      price == IF c \in SlipLimits THEN LimitPrice(o.side, last, o.limit)
                                   ELSE <<last, 1>>
      fee == FeeTotal(ConfigOn(day), o.side, Principal(q, price))
  IN
  /\ o.at = "resting" /\ Crossed(o, last)
  /\ Apply(o.side, q, Principal(q, price), fee)
  /\ order' = [Raced(c) EXCEPT ![c] =
       IF o.filled + q = o.qty THEN None ELSE [o EXCEPT !.filled = @ + q]]

\* cancel, or the expiry of a DAY order that nothing was filled of.
Cancel(c) ==
  /\ order[c].at = "resting"
  /\ order' = [order EXCEPT ![c] = None]

-----------------------------------------------------------------------------
(* Corporate actions and reset change the account under the orders. *)

Corporate ==
  /\ \/ \E d \in Prices : Dividend(d)
     \/ \E r \in Ratios : Split(r) \/ Bonus(r)
     \/ \E r \in Ratios, p \in Prices : Rights(r, p)
  /\ order' = Raced(NoValue)

\* broker.reset: rows of resting orders go, threads in flight do not know.
ResetAll ==
  /\ \E c \in Capitals \cup {cash} : Reset(c)
  /\ order' = [c \in Clients |->
       IF order[c].at = "resting" THEN None ELSE Raced(NoValue)[c]]

\* Steps that change rows of "symbols" only.
EditMaster ==
  /\ (\E row \in Rows : Upsert(row)) \/ Delist \/ Relist
  /\ UNCHANGED <<vars, order>>

\* Steps of one order before its transaction.
Prepare(c) ==
  /\ \/ \E r \in Requests[c] :
          \E risk \in RiskPrices(r) : Submit(c, r, risk)
     \/ \E last \in Lasts, m \in Quotes \cup {Down}, day \in Days :
          Price(c, last, m, day)
     \/ NoFillQuote(c) \/ Refused(c) \/ Cancel(c)
  /\ UNCHANGED <<vars, listing>>

\* Transactions that fill.
Fill(c) ==
  /\ Commit(c) \/ \E last \in Lasts, day \in Days : FillLimit(c, last, day)
  /\ UNCHANGED listing

ExecNext ==
  \/ \E c \in Clients : Prepare(c) \/ Fill(c)
  \/ (Corporate \/ ResetAll) /\ UNCHANGED listing
  \/ EditMaster

ExecSpec == ExecInit /\ [][ExecNext]_execVars

-----------------------------------------------------------------------------
(* reads/positions.py, reads/account.py: what a reader is told of the books *)

\* mark_price; NoValue when the feed raises.
MarkPrice(toBid, m, last) ==
  IF toBid /\ m # Down /\ m.bid # NoValue /\ m.bid > 0 THEN <<m.bid, 1>>
  ELSE IF toBid /\ m # Down /\ m.bid # NoValue /\ m.ask # NoValue
       THEN <<m.bid + m.ask, 2>>
  ELSE IF last = NoValue THEN NoValue ELSE <<last, 1>>

\* list_all: without a price the holding is worth its cost.
MarketValue(mark) == IF mark = NoValue THEN basis ELSE Principal(shares, mark)

\* The notional that summary reserves: limit orders to buy that are PENDING.
PendingBuys ==
  MapThenSumSet(LAMBDA c : order[c].qty * order[c].limit,
    {c \in Clients : /\ order[c].at = "resting" /\ order[c].side = "buy"
                     /\ order[c].filled = 0})

\* summary, at one mark of the holding.
Summary(mark) ==
  [equity |-> cash + MarketValue(mark),
   unrealized |-> MarketValue(mark) - basis,
   realized |-> realized,
   buyingPower |-> Most(0, cash - PendingBuys)]

Marks ==
  {MarkPrice(toBid, m, last) : toBid \in BOOLEAN, m \in Quotes \cup {Down},
                               last \in Lasts \cup {NoValue}}

-----------------------------------------------------------------------------
(* Properties *)

\* The numbers a user is shown add up, at any mark: equity is what was put
\* in, dividends, and realized and unrealized gains.  Fees of buys sit in the
\* cost, fees of sales in the realized gain, slices, book averages and
\* corporate actions move value only between these (state.py 246-251 and
\* 334-336, reads/account.py 50-65).
PnlAddsUp ==
  \A mark \in Marks :
    LET s == Summary(mark) IN
    s.equity = ledger["initial_capital"] + ledger["dividend"]
                 + s.realized + s.unrealized

\* The ways to take q shares from the levels.
Splits(levels, q) ==
  {f \in [DOMAIN levels -> 0..q] :
     /\ \A i \in DOMAIN levels : f[i] <= levels[i].size
     /\ SumFunction(f) = q}

\* The walk is the best execution the book allows: whenever the book holds
\* the whole order, the money that changes hands is that of the best of all
\* ways to split it over the levels, real or synthetic (book.py 229-283).
WalkIsBest ==
  \A c \in BookClients :
    LET o == order[c] IN
    o.at = "priced" /\ o.quote # Down /\ o.quote.bid # NoValue /\ o.quote.ask # NoValue =>
      LET levels == SideOf(o.side, BookOf(o.last, o.quote, o.tick))
          costs == {Cost(levels, f) : f \in Splits(levels, o.qty)}
      IN costs # {} =>
           /\ o.principal \in costs
           /\ \A x \in costs : IF o.side = "buy" THEN o.principal <= x
                                                 ELSE o.principal >= x

\* No quote is a money pump: undoing a market order at the quote and the
\* tick it was priced with never pays, whether the price came from the
\* slippage model, a snapped or a default spread, or a ladder with a tail,
\* even before fees (slippage.py 105-110, book.py 157-227).
NoFreeRoundTrip ==
  \A c \in Clients :
    LET o == order[c] IN
    /\ o.at = "priced" /\ o.side = "buy" =>
         Principal(o.qty, PriceFor(c, "sell", o.qty, o.last, o.quote, o.tick))
           <= o.principal
    /\ o.at = "priced" /\ o.side = "sell" =>
         Principal(o.qty, PriceFor(c, "buy", o.qty, o.last, o.quote, o.tick))
           >= o.principal

\* What the theorems about books ask of real depth.  It comes best first
\* (providers/base.py 106-109) ...
BestFirst ==
  \A m \in Quotes :
    /\ \A i, j \in DOMAIN m.bids : i <= j => m.bids[i].price >= m.bids[j].price
    /\ \A i, j \in DOMAIN m.asks : i <= j => m.asks[i].price <= m.asks[j].price

\* ... and no bid of it is above an ask, some bid being a price at all.
Uncrossed ==
  \A m \in Quotes : m.bids # <<>> /\ m.asks # <<>> =>
    /\ \A i \in DOMAIN m.bids, j \in DOMAIN m.asks :
         m.bids[i].price <= m.asks[j].price
    /\ \E i \in DOMAIN m.bids : m.bids[i].price > 0

\* A market buy that no other change of the account overtook keeps the
\* position within its caps: between the check outside any transaction and
\* the commit, only a race can break them (submit.py 284-314, risk.py 141-165).
CapHoldsUnlessRaced ==
  [][ \A c \in Clients :
        LET o == order[c] IN
        /\ o.at = "priced" /\ o.side = "buy" /\ ~o.raced
        /\ order'[c] = None /\ shares' > shares
        => HoldingFits(shares', o.risk) ]_execVars

\* domain/rules/risk.py 59-60: "Reject the order if the resulting position's
\* market value would exceed this absolute INR cap."
CapHolds ==
  [][ \A c \in Clients :
        LET o == order[c] IN
        /\ o.at = "priced" /\ o.side = "buy"
        /\ order'[c] = None /\ shares' > shares
        => HoldingFits(shares', o.risk) ]_execVars

\* book_helpers.py 53-55: without bid and ask a fill "falls back to the
\* slippage-only path so legacy semantics remain stable".
FallsBackToSlippage ==
  \A c \in BookClients :
    LET o == order[c] IN
    /\ o.at = "priced"
    /\ o.quote = Down \/ o.quote.bid = NoValue \/ o.quote.ask = NoValue
    => o.principal = Principal(o.qty, Slipped(o.side, o.last))

\* domain/models.py 190: buying power is "cash minus pending buy-limit
\* notional": what rests of a limit order to buy stays reserved.
RestStaysReserved ==
  \A c \in Clients :
    LET o == order[c] IN
    o.at = "resting" /\ o.side = "buy" =>
      Summary(NoValue).buyingPower
        <= Most(0, cash - (o.qty - o.filled) * o.limit)
=============================================================================
