----------------------------- MODULE MCExecution -----------------------------
(* Execution on a small instance: one client whose broker walks a book, one *)
(* whose broker slips, and the quotes in which the two models differ.       *)
EXTENDS Execution

CONSTANTS
  MaxShares,    \* bound: the largest holding explored
  MaxBought,    \* bound: the largest sum of principals bought
  MaxSold,      \* bound: the largest sum of principals sold
  MaxPaid       \* bound: the largest sum of dividends, and of rights

MCFee == [side \in {"buy", "sell"} |-> [q \in Quantities |-> [p \in Prices |-> 0]]]
MCRatios == {<<1, 2>>}

MarketOrder(side, q) == [side |-> side, qty |-> q, limit |-> NoValue]
LimitOrder(side, q, p) == [side |-> side, qty |-> q, limit |-> p]
MCRequests ==
  [c \in Clients |->
    IF c \in BookClients THEN {MarketOrder("buy", 2), MarketOrder("sell", 2)}
    ELSE {LimitOrder("buy", 2, 5), MarketOrder("sell", 1)}]

Quote(bid, ask, volume, bids, asks) ==
  [bid |-> bid, ask |-> ask, volume |-> volume, prevClose |-> 4,
   bids |-> bids, asks |-> asks]
At(p, n) == [price |-> p, size |-> n]

\* Top of book with little volume; no bid; real depth on both sides.
MCQuotes ==
  {Quote(3, 5, 10, <<>>, <<>>), Quote(0, 4, NoValue, <<>>, <<>>),
   Quote(4, 5, 10, <<At(4, 1), At(2, 1)>>, <<At(5, 1)>>)}

MCDecay == <<1, 2>>
Row(tick, lot, band) == [tick |-> tick, lot |-> lot, band |-> band]
MCDefaults == Row(1, 1, 50)
MCRows == {Row(2, 2, NoValue)}

\* Brokerage capped at one unit, GST on it, and a flat schedule from day 2.
MCFeeDefault == [flat |-> 0, pct |-> 10, max |-> 1, exchange |-> 5, gst |-> 20,
                 sebi |-> 1, sttBuy |-> 5, sttSell |-> 5, stamp |-> 2, dp |-> 1]
MCFeeFrom == 2 :> [MCFeeDefault EXCEPT !.pct = 0, !.flat = 2]

\* The real depth among these quotes is that of an exchange.
ASSUME RealDepth == BestFirst /\ Uncrossed

\* A reset keeps the cash of the account only when that is a capital.
Bounds ==
  /\ shares <= MaxShares
  /\ shares = 0 /\ realized = 0 => cash \in Capitals
  /\ ledger["sell_principal"] <= MaxSold
  /\ -ledger["buy_principal"] <= MaxBought
  /\ -ledger["adjustment"] <= MaxPaid
  /\ ledger["dividend"] <= MaxPaid

MCNext == ExecNext /\ Bounds'

MCSpec == ExecInit /\ [][MCNext]_execVars
=============================================================================
