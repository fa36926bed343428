-------------------------------- MODULE Market --------------------------------
(****************************************************************************)
(* The arithmetic that turns a quote into a fill: slippage, the synthetic   *)
(* order book, ticks, lots and bands, the fee schedule and the slices of a  *)
(* partial fill.  Every operator is a pure function of the code.            *)
(*                                                                          *)
(* Abstractions.                                                            *)
(*  - Quotes, ticks and balances are whole numbers of one money unit.  A    *)
(*    fill price is a fraction <<n, d>>: an average over book levels and a  *)
(*    percentage are exact, and Principal rounds once.                      *)
(*  - Percentages are whole numbers of 1 / Scale.                           *)
(*  - Every last price is at least a tick and the default spread is below   *)
(*    200 %, so that a side snapped to the grid never vanishes.             *)
(****************************************************************************)
EXTENDS Integers, Sequences, SequencesExt

CONSTANTS
  NoValue,      \* None in a quote or in a column
  Down,         \* get_market_quote raises, or answers None
  Scale,        \* one, as a fraction: 10000 when rates are basis points
  SlippageBps,  \* SlippageConfig.bps_for the symbol
  Levels, Decay, DepthPct, SpreadBps, DefaultAdv,   \* OrderBookConfig
  FeeDefault, FeeFrom,                              \* FeeSchedule
  Slicing, MaxPerTick, MaxPctPerTick, MinFill       \* PartialFillConfig

Least(a, b) == IF a <= b THEN a ELSE b
Most(a, b) == IF a >= b THEN a ELSE b

\* ROUND_HALF_UP, and Python's round(), which rounds halves to even.
HalfUp(n, d) == (2 * n + d) \div (2 * d)
HalfEven(n, d) ==
  LET q == n \div d
      r == 2 * (n % d)
  IN  IF r < d \/ (r = d /\ q % 2 = 0) THEN q ELSE q + 1

-----------------------------------------------------------------------------
(* domain/rules/tick_lot_band.py *)

\* round_to_tick of the price n / d.
RoundToTick(n, d, tick) ==
  IF tick <= 0 \/ n <= 0 THEN 0 ELSE HalfUp(n, d * tick) * tick

\* validate_tick passes.
OnTick(p, tick) == tick > 0 => RoundToTick(p, 1, tick) = p

\* validate_lot passes.
InLots(q, lot) == lot > 1 => q % lot = 0

\* validate_band passes.
InBand(p, prevClose, band) ==
  prevClose # NoValue /\ prevClose > 0 /\ band > 0 =>
    /\ p * Scale <= prevClose * (Scale + band)
    /\ p * Scale >= prevClose * (Scale - band)

-----------------------------------------------------------------------------
(* execution/slippage.py *)

\* Mutant of Slipped: the signs of the two sides are swapped.
SlippedBack(side, last) ==
  LET bps == Most(0, SlippageBps)
  IN  <<last * (IF side = "buy" THEN Scale - bps ELSE Scale + bps), Scale>>

\* apply_slippage of a market order: buys pay it, sells receive less.
Slipped(side, last) ==
  LET bps == Most(0, SlippageBps)
  IN  <<last * (IF side = "buy" THEN Scale + bps ELSE Scale - bps), Scale>>

\* apply_slippage of a limit order with apply_to_limits: bounded by the limit.
LimitPrice(side, last, limit) ==
  LET s == Slipped(side, last)
      beyond == IF side = "buy" THEN s[1] > limit * s[2] ELSE s[1] < limit * s[2]
  IN  IF beyond THEN <<limit, 1>> ELSE s

-----------------------------------------------------------------------------
(* execution/book.py *)

\* round_to_tick(x) or x, for a side of the book at n / d.
Snap(n, d, tick) ==
  LET r == RoundToTick(n, d, tick) IN IF r > 0 THEN r ELSE n \div d

\* The powers of a whole number, as far as levels go.
Powers(a) ==
  LET power[n \in 0..Levels] == IF n = 0 THEN 1 ELSE a * power[n - 1]
  IN  power

\* The size i levels below one of size top: it decays geometrically.
SizeAt(top, i) ==
  Most(1, HalfEven(top * Powers(Decay[1])[i], Powers(Decay[2])[i]))

\* The levels with a positive price.
Positive(levels) ==
  LET kept[n \in 0..Len(levels)] ==
        IF n = 0 THEN <<>>
        ELSE IF levels[n].price > 0 THEN Append(kept[n - 1], levels[n])
                                    ELSE kept[n - 1]
  IN  kept[Len(levels)]

\* n levels that go away from price in steps, sizes decaying from top; a bid
\* that would not be positive is left out.
Ladder(price, step, top, from, n) ==
  Positive([i \in 1..n |-> [price |-> price + (i - 1 + from) * step,
                            size |-> SizeAt(top, i - 1 + from)]])

\* synthesize: a book around the provider's bid and ask, or around the last
\* price when they are missing, crossed or not positive.
Synthesize(last, m, tick) ==
  LET adv == IF m.volume # NoValue /\ m.volume > 0 THEN m.volume ELSE DefaultAdv
      unusable == m.bid = NoValue \/ m.ask = NoValue \/ m.bid >= m.ask \/ m.bid <= 0
      \* The half spread is max(last * SpreadBps / Scale, tick) / 2.
      half == Most(last * SpreadBps, tick * Scale)
      bid == IF unusable THEN Snap(2 * Scale * last - half, 2 * Scale, tick)
                         ELSE Snap(m.bid, 1, tick)
      ask == IF unusable THEN Snap(2 * Scale * last + half, 2 * Scale, tick)
                         ELSE Snap(m.ask, 1, tick)
      top == Most(1, HalfEven(adv * DepthPct, Scale))
  IN  [bids |-> Ladder(bid, -tick, top, 0, Levels),
       asks |-> Ladder(ask, tick, top, 0, Levels)]

\* book_from_levels, one side: the provider's levels and a tail behind them.
Extend(real, step) ==
  LET out == Positive(real)
      deepest == out[Len(out)]
  IN  IF out = <<>> THEN <<>>
      ELSE out \o Ladder(deepest.price, step, Most(1, deepest.size), 1,
                         Levels - Len(out))

BookFromLevels(m, tick) ==
  [bids |-> Extend(m.bids, -tick), asks |-> Extend(m.asks, tick)]

\* The book that a market quote gives, with real depth or without.
BookOf(last, m, tick) ==
  IF m.bids # <<>> /\ m.asks # <<>> THEN BookFromLevels(m, tick)
                                    ELSE Synthesize(last, m, tick)

\* The levels a market order consumes.
SideOf(side, book) == IF side = "buy" THEN book.asks ELSE book.bids

\* Mutant of Taken: every level is taken as if it were large enough.
TakenRegardless(left, level) == left

\* What an order with left shares to go takes from a level.
Taken(left, level) == Least(left, level.size)

\* What is left of an order of q shares after the first n levels.
Left(levels, q) ==
  LET left[n \in 0..Len(levels)] ==
        IF n = 0 THEN q ELSE left[n - 1] - Taken(left[n - 1], levels[n])
  IN  left

\* walk_book: what is taken of each level, the money spent and the shares found.
Take(levels, q) ==
  LET left == Left(levels, q)
  IN  [i \in DOMAIN levels |-> Taken(left[i - 1], levels[i])]
Cost(levels, take) ==
  SumFunction([i \in DOMAIN levels |-> levels[i].price * take[i]])
Walk(levels, q) ==
  [spent |-> Cost(levels, Take(levels, q)), filled |-> SumFunction(Take(levels, q))]

-----------------------------------------------------------------------------
(* orders/book_helpers.py, orders/market.py *)

\* maybe_apply_book_impact: the average of the walk, also when the book held
\* less than q; the last price, without slippage, when there is no book.
BookPrice(side, q, last, m, tick) ==
  IF m = Down THEN <<last, 1>>
  ELSE IF m.bid = NoValue \/ m.ask = NoValue THEN <<last, 1>>
  ELSE LET w == Walk(SideOf(side, BookOf(last, m, tick)), q)
       IN  IF w.filled = 0 THEN <<last, 1>> ELSE <<w.spent, w.filled>>

\* qty * price.
Principal(q, price) == (q * price[1]) \div price[2]

-----------------------------------------------------------------------------
(* execution/fees.py *)

\* The brokerage of a turnover, times Scale.
Brokerage(cfg, turnover) ==
  Most(0, IF cfg.pct > 0 /\ cfg.max > 0
          THEN Least(turnover * cfg.pct, cfg.max * Scale)
          ELSE IF cfg.pct > 0 THEN turnover * cfg.pct ELSE cfg.flat * Scale)

\* calculate(...).total: STT on both sides, GST on brokerage and exchange
\* charge, stamp duty on buys, the DP charge on sells; rounded half up.
FeeTotal(cfg, side, turnover) ==
  IF turnover <= 0 THEN 0
  ELSE LET buying == side = "buy"
           taxed == Brokerage(cfg, turnover) + turnover * cfg.exchange
           direct == turnover * (cfg.sebi + IF buying THEN cfg.sttBuy + cfg.stamp
                                                      ELSE cfg.sttSell)
           dp == IF buying THEN 0 ELSE cfg.dp
       IN  HalfUp((taxed + direct + dp * Scale) * Scale + taxed * cfg.gst,
                  Scale * Scale)

\* FeeSchedule.config_on: the last schedule that is in effect on the day.
ConfigOn(day) ==
  LET past == {d \in DOMAIN FeeFrom : d <= day}
  IN  IF past = {} THEN FeeDefault
      ELSE FeeFrom[CHOOSE d \in past : \A e \in past : e <= d]

-----------------------------------------------------------------------------
(* orders/partial_fills.py *)

\* PartialFillConfig.fill_qty: how much of the remaining shares one tick fills.
FillQty(rest) ==
  IF ~Slicing \/ rest <= MinFill THEN rest
  ELSE LET cap == Least(Least(rest, MaxPerTick), (rest * MaxPctPerTick) \div Scale)
       IN  IF cap < MinFill THEN Least(MinFill, rest) ELSE cap
=============================================================================
