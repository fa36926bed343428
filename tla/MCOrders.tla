------------------------------- MODULE MCOrders -------------------------------
(* Instances of Orders: which orders clients may send in each run. *)
EXTENDS Orders, TLC

MCFee == [side \in Sides |-> [q \in Quantities |-> [p \in Prices |->
            IF side = "buy" THEN 1 ELSE 0]]]

Order(kind, side, qty, limit, stop, target, tif) ==
  [kind |-> kind, side |-> side, qty |-> qty, limit |-> limit, stop |-> stop,
   target |-> target, tif |-> tif]

MarketBuy(q) == Order("market", "buy", q, NoPrice, NoPrice, NoPrice, "DAY")
LimitSell(q, p) == Order("limit", "sell", q, p, NoPrice, NoPrice, "DAY")
Bracket(side, q, limit, stop, target) ==
  Order("bracket", side, q, limit, stop, target, "DAY")

\* One bracket next to other holdings of the same symbol.  Either price
\* crosses the limits of the entries and makes one exit due.
BracketRequests ==
  {Bracket("buy", 3, 2, 1, 2), Bracket("buy", 2, NoPrice, 1, 2),
   Bracket("sell", 2, 1, 2, 1), MarketBuy(2)}

\* Ids are drawn at random, so their order is free where they are numbers: an
\* order takes the next one, a bracket the next three, the stop-loss first.
InOrder ==
  \A m, n \in OrderIds :
    n < m /\ orders'[m].status # "unused" =>
      /\ orders'[n].status # "unused"
      /\ orders'[m].parent # NoOrder =>
           /\ orders'[m].parent < m
           /\ orders'[n].parent = orders'[m].parent =>
                orders'[n].otype = "stop_market"

\* A bracket alone: at either price one of its exits is due.
OneBracket == {Bracket("buy", 2, 2, 1, 2)}

\* A bracket whose limits either price crosses, and a stop that becomes one.
LiveRequests ==
  OneBracket \cup {Order("stop_limit", "buy", 2, 2, 1, NoPrice, "GTC")}

\* Every type of order, for two watchers to work on; the plain ones alone.
PlainRequests ==
  {MarketBuy(2), LimitSell(2, 2),
   Order("stop_market", "sell", 1, NoPrice, 1, NoPrice, "DAY"),
   Order("stop_limit", "buy", 2, 1, 2, NoPrice, "GTC"),
   Order("market", "buy", 1, NoPrice, NoPrice, NoPrice, "AMO")}
SharedRequests == PlainRequests \cup OneBracket

Symmetry == Permutations(OrderIds) \cup Permutations(Watchers)
=============================================================================
