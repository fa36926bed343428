------------------------------ MODULE Auction ------------------------------
(****************************************************************************)
(* The pre-open call auction of one symbol: the equilibrium price that      *)
(* compute_equilibrium finds, the fills it allots first come first served,  *)
(* and run, which executes them one transaction after the other while       *)
(* clients cancel, and stops at the first that raises.                      *)
(*                                                                          *)
(* Abstractions.                                                            *)
(*  - The book holds what run selects: PENDING limits without a parent,     *)
(*    DAY or GTT, by created_at.  Orders that come during the run are not   *)
(*    in it.                                                                *)
(*  - Prices are whole numbers; twice a price is an exact midpoint.         *)
(*  - limit.fill is module Orders'; here it trades or raises.               *)
(* A loop is a function of the number of its rounds.                        *)
(****************************************************************************)
EXTENDS Integers, Sequences, FiniteSetsExt, Functions

CONSTANTS
  Prices,       \* limit prices
  Sizes,        \* quantities of orders
  References,   \* twice the price the feed may answer; none if it fails
  MaxOrders     \* bound: orders in the book

VARIABLES
  book,         \* the limit orders, in the order of their submission
  stage,        \* "collect", "run", and at last "done" or "raised"
  rows,         \* the book as run has read it
  reference,    \* twice the reference price
  price,        \* equilibrium_price, or NoPrice
  plan          \* of each row, the fill that is still to be executed

auctionVars == <<book, stage, rows, reference, price, plan>>

NoPrice == 0
Sides == {"buy", "sell"}
LimitOrder == [side: Sides, limit: Prices, qty: Sizes, traded: Nat,
               status: {"pending", "partially_filled", "filled", "cancelled"}]

ASSUME AuctionAssumption ==
  /\ Prices \subseteq Nat \ {NoPrice} /\ Sizes \subseteq Nat \ {0}
  /\ References \subseteq Nat /\ MaxOrders \in Nat

-----------------------------------------------------------------------------
(* compute_equilibrium *)

Abs(n) == IF n < 0 THEN -n ELSE n
Lesser(m, n) == IF m < n THEN m ELSE n

\* Whether an order takes part at price p.
Willing(o, p) == IF o.side = "buy" THEN o.limit >= p ELSE o.limit <= p
Of(side, bk) == {i \in DOMAIN bk : bk[i].side = side}
LimitsOf(side, bk) == {bk[i].limit : i \in Of(side, bk)}
Depth(side, bk, p) ==
  SumFunctionOnSet([i \in DOMAIN bk |-> bk[i].qty],
                   {i \in Of(side, bk) : Willing(bk[i], p)})
Volume(bk, p) == Lesser(Depth("buy", bk, p), Depth("sell", bk, p))
Imbalance(bk, p) == Abs(Depth("buy", bk, p) - Depth("sell", bk, p))

\* The best buy is below the best sell, or a side is empty.
NoOverlap(bk) ==
  \A i \in Of("buy", bk), j \in Of("sell", bk) : bk[i].limit < bk[j].limit

\* Twice the reference price; without a quote the midpoint of the best limits.
TwiceReference(bk, ref) ==
  IF ref # NoPrice THEN ref
  ELSE Max(LimitsOf("buy", bk)) + Min(LimitsOf("sell", bk))

\* Mutant of Beats: the imbalance is not compared.
BeatsByVolume(bk, ref, p, q) ==
  \/ Volume(bk, p) > Volume(bk, q)
  \/ Volume(bk, p) = Volume(bk, q) /\ Abs(2 * p - ref) < Abs(2 * q - ref)

\* score > best, compared as tuples; an equal score needs an equal price.
Beats(bk, ref, p, q) ==
  \/ Volume(bk, p) > Volume(bk, q)
  \/ /\ Volume(bk, p) = Volume(bk, q)
     /\ \/ Imbalance(bk, p) < Imbalance(bk, q)
        \/ /\ Imbalance(bk, p) = Imbalance(bk, q)
           /\ \/ Abs(2 * p - ref) < Abs(2 * q - ref)
              \/ Abs(2 * p - ref) = Abs(2 * q - ref) /\ p > q

Candidates(bk) == LimitsOf("buy", bk) \cup LimitsOf("sell", bk)

\* One round of the loop over the candidates: what is best once p is seen.
Better(bk, ref, p, best) ==
  IF p \in Candidates(bk) /\ Volume(bk, p) > 0
       /\ (best = NoPrice \/ Beats(bk, ref, p, best))
  THEN p ELSE best

\* The loop, lowest first.
Equilibrium(bk, ref) ==
  LET best[p \in 0..Max(Candidates(bk))] ==
        IF p = 0 THEN NoPrice ELSE Better(bk, ref, p, best[p - 1])
  IN  IF NoOverlap(bk) THEN NoPrice ELSE best[Max(Candidates(bk))]

\* What the order at i takes of what is left, if it takes part.
Take(side, bk, p, i, left) ==
  IF bk[i].side = side /\ Willing(bk[i], p) THEN Lesser(bk[i].qty, left) ELSE 0

\* The loop that hands the volume to a side: what remains after the first n.
Remaining(side, bk, p) ==
  LET left[n \in 0..Len(bk)] ==
        IF n = 0 THEN Volume(bk, p)
        ELSE left[n - 1] - Take(side, bk, p, n, left[n - 1])
  IN  left

\* Mutant of Allot: what is left over is not counted down.
AllotWhole(bk, p) ==
  [i \in DOMAIN bk |-> Take(bk[i].side, bk, p, i, Volume(bk, p))]

\* The fills of both sides, by row.
Allot(bk, p) ==
  [i \in DOMAIN bk |->
     Take(bk[i].side, bk, p, i, Remaining(bk[i].side, bk, p)[i - 1])]

-----------------------------------------------------------------------------
(* run *)

AuctionInit ==
  /\ book = <<>> /\ stage = "collect" /\ rows = <<>>
  /\ reference = NoPrice /\ price = NoPrice /\ plan = <<>>

Submit(o) ==
  /\ stage = "collect" /\ Len(book) < MaxOrders
  /\ book' = Append(book, o)
  /\ UNCHANGED <<stage, rows, reference, price, plan>>

\* There is no fill left in the plan.
Executed(fills) == \A i \in DOMAIN fills : fills[i] = 0

\* The book is read and matched.
Match(ref) ==
  /\ stage = "collect"
  /\ rows' = book
  /\ reference' = IF NoOverlap(book) THEN NoPrice ELSE TwiceReference(book, ref)
  /\ price' = Equilibrium(book, reference')
  /\ plan' = IF price' = NoPrice THEN [i \in DOMAIN book |-> 0]
             ELSE Allot(book, price')
  /\ stage' = IF Executed(plan') THEN "done" ELSE "run"
  /\ UNCHANGED book

Live(o) == o.status \in {"pending", "partially_filled"}

\* The fill of row i is next: all buys come before the sells.
Turn(i) ==
  /\ stage = "run" /\ i \in DOMAIN plan /\ plan[i] > 0
  /\ \A j \in DOMAIN plan : plan[j] > 0 =>
       \/ book[i].side = "buy" /\ book[j].side = "sell"
       \/ book[i].side = book[j].side /\ i <= j

\* The fill of row i is behind run.
Behind(i) ==
  /\ plan' = [plan EXCEPT ![i] = 0]
  /\ stage' = IF Executed(plan') THEN "done" ELSE "run"
  /\ UNCHANGED <<rows, reference, price>>

\* Mutant of ExecuteFill: the claim's row count is not looked at.
ExecuteUnclaimed(i) ==
  /\ Turn(i)
  /\ LET o == book[i] IN
     book' = [book EXCEPT ![i] =
       [o EXCEPT !.traded = @ + plan[i],
                 !.status = IF ~Live(o) THEN @
                            ELSE IF o.traded + plan[i] = o.qty THEN "filled"
                            ELSE "partially_filled"]]
  /\ Behind(i)

\* The next order is read again and filled; one that has gone is skipped
\* (OrderNoLongerPending).
ExecuteFill(i) ==
  /\ Turn(i)
  /\ LET o == book[i]
         slice == Lesser(plan[i], o.qty - o.traded) IN
     book' = [book EXCEPT ![i] =
       IF ~Live(o) THEN o
       ELSE [o EXCEPT !.traded = @ + slice,
                      !.status = IF o.traded + slice = o.qty THEN "filled"
                                 ELSE "partially_filled"]]
  /\ Behind(i)

\* A fill raises (no cash, no shares): run ends, the rest is never tried.
Raise(i) ==
  /\ Turn(i) /\ Live(book[i])
  /\ stage' = "raised" /\ plan' = [j \in DOMAIN plan |-> 0]
  /\ UNCHANGED <<book, rows, reference, price>>

\* A client cancels an order whose turn is still to come.
Cancel(i) ==
  /\ stage = "run" /\ plan[i] > 0 /\ Live(book[i])
  /\ book' = [book EXCEPT ![i].status = "cancelled"]
  /\ UNCHANGED <<stage, rows, reference, price, plan>>

AuctionNext ==
  \/ \E side \in Sides, p \in Prices, q \in Sizes :
       Submit([side |-> side, limit |-> p, qty |-> q, traded |-> 0,
               status |-> "pending"])
  \/ \E ref \in References \cup {NoPrice} : Match(ref)
  \/ \E i \in DOMAIN book : ExecuteFill(i) \/ Raise(i) \/ Cancel(i)

AuctionSpec == AuctionInit /\ [][AuctionNext]_auctionVars

-----------------------------------------------------------------------------
(* Properties *)

AuctionTypeOK ==
  /\ book \in Seq(LimitOrder) /\ rows \in Seq(LimitOrder)
  /\ stage \in {"collect", "run", "done", "raised"}
  /\ reference \in Nat /\ price \in Prices \cup {NoPrice}
  /\ plan \in [DOMAIN rows -> Nat]

Ended == stage \in {"done", "raised"}
Traded(side) ==
  SumFunctionOnSet([i \in DOMAIN book |-> book[i].traded], Of(side, book))

\* The rules of the module comment (preopen.py 16-29), over every price and
\* not just the limits in the book where volume is concerned: nothing trades
\* only if nothing can, no price would trade more, and ties go to the smaller
\* imbalance, the nearer and then the higher limit.
EquilibriumFollowsRules ==
  stage # "collect" =>
    LET best == Volume(rows, price)
        Near(p) == Abs(2 * p - reference)
        Rivals == {p \in Candidates(rows) : p # price /\ Volume(rows, p) = best}
    IN IF price = NoPrice THEN \A p \in Prices : Volume(rows, p) = 0
       ELSE /\ best > 0 /\ \A p \in Prices : Volume(rows, p) <= best
            /\ \A p \in Rivals :
                 /\ Imbalance(rows, price) <= Imbalance(rows, p)
                 /\ Imbalance(rows, price) = Imbalance(rows, p) =>
                      /\ Near(price) <= Near(p)
                      /\ Near(price) = Near(p) => price > p

\* The fills of a match: both sides get the volume, no order more than it
\* has or beyond its limit, and nobody anything while an earlier order of its
\* side that takes part is not done.
MatchIsFair ==
  stage = "run" /\ book = rows =>
    /\ \A side \in Sides :
         SumFunctionOnSet(plan, Of(side, rows)) = Volume(rows, price)
    /\ \A i \in DOMAIN rows :
         /\ plan[i] <= rows[i].qty
         /\ plan[i] > 0 => Willing(rows[i], price)
         /\ plan[i] > 0 =>
              \A j \in 1..(i - 1) :
                rows[j].side = rows[i].side /\ Willing(rows[j], price) =>
                  plan[j] = rows[j].qty

\* What trades is what was matched: an order that was cancelled before its
\* turn trades nothing, and when nobody cancels and nothing raises, as many
\* shares are bought as sold.
TradesFollowMatch ==
  /\ \A i \in DOMAIN book :
       /\ book[i].traded <= book[i].qty
       /\ book[i].status = "filled" <=> book[i].traded = book[i].qty
       /\ book[i].status \in {"pending", "cancelled"} => book[i].traded = 0
  /\ stage = "done" /\ price # NoPrice
       /\ (\A i \in DOMAIN book : book[i].status # "cancelled") =>
         /\ Traded("buy") = Volume(rows, price)
         /\ Traded("sell") = Volume(rows, price)

\* "Orders that cross at the equilibrium price fill there" (preopen.py 10):
\* when the run is over, what crosses and was not cancelled has been bought
\* as much as sold.
CrossingOrdersFill ==
  Ended /\ (\A i \in DOMAIN book : book[i].status # "cancelled") =>
    Traded("buy") = Traded("sell")
=============================================================================
