----------------------------- MODULE Settlement -----------------------------
(****************************************************************************)
(* T+1 settlement and the square-off of intraday trades, for one symbol:    *)
(* the rows of pending_settlements, the check of submit_order that only     *)
(* delivered shares are sold, and the watcher's square-off.                 *)
(*                                                                          *)
(* The check and the sale are two accesses to the database; an order that   *)
(* rests is checked when it is submitted and sold when it fills, and the    *)
(* exits of a bracket are checked never.                                    *)
(*                                                                          *)
(* What the code keeps (due, counted) is told apart from what is so (owed,  *)
(* intraday): a split rescales the shares and not the rows, and the square- *)
(* off counts the orders of today that are filled or partially filled,      *)
(* which is not all that was traded.                                        *)
(*                                                                          *)
(* Abstractions.                                                            *)
(*  - The rows of buys are kept as the quantity that is pending for a day.  *)
(*    Rows of sells have no reader and are left out.                        *)
(*  - Money is module Account's: every buy here is affordable.              *)
(*  - Splits are 2 for 1 and 1 for 2, and leave whole shares.               *)
(*  - One watcher, so that filled_qty is what has traded (module Orders).   *)
(****************************************************************************)
EXTENDS Integers, Functions

CONSTANTS
  Clients,
  Quantities,   \* order sizes
  RestingIds,     \* sells that may rest at a time
  SlicedIds,      \* intraday orders that may be partially filled at a time
  FirstWeekday, \* the weekday of day 0; Monday is 0
  LastDate,      \* bound: the last day explored
  MaxShares     \* bound: the largest position, and the most that is bought for
                \* a day, or traded intraday or left uncounted in a day

VARIABLES
  day,
  shares,       \* positions.qty
  due,          \* quantity of the pending buy rows, by settle_on
  resting,      \* quantity of the resting delivery sells, by id
  wants,        \* per client: the delivery sell that passed the check, or 0
  stale,        \* history: clients whose check others have overtaken
  counted,      \* net of today's intraday orders, as square_off_intraday sums it
  sliced,       \* filled_qty of those that are partially filled; sells below 0
  target,       \* what square_off_intraday is about to sell, or 0
  squared,      \* _squared_off_today
  owed,         \* history: shares bought for delivery, by settle_on
  scaled,       \* history: how many of them a split added, by settle_on
  behind,       \* history: undelivered shares that were sold behind the check
  intraday,     \* history: shares bought intraday today and not sold again
  missed,       \* history: how many of them were bought, but are not counted
  extra,        \* history: how many were sold, but are not counted
  late,         \* history: intraday buys since the square-off read the net
  sold,         \* history: intraday sells of others since then
  failed        \* history: the square-off's sell was refused

position == <<shares, due, owed, scaled>>
checks == <<wants, stale>>
net == <<intraday, counted, sliced, missed, extra>>
squareOff == <<target, squared, late, sold, failed>>
intradayVars == <<net, squareOff>>
settleVars == <<day, position, resting, checks, intradayVars, behind>>

SettleDays == 0..(LastDate + 3)

ASSUME SettlementAssumption ==
  /\ Quantities \subseteq Nat \ {0}
  /\ FirstWeekday \in 0..6 /\ LastDate \in Nat /\ MaxShares \in Nat

Weekend(d) == (FirstWeekday + d) % 7 >= 5

\* _next_business_day: the day after, weekends skipped.
NextBusinessDay(d) ==
  CHOOSE n \in (d + 1)..(d + 3) :
    ~Weekend(n) /\ \A m \in (d + 1)..(n - 1) : Weekend(m)

\* Quantity of the rows that settle after today.
InFlight(rows) == SumFunctionOnSet(rows, {d \in SettleDays : d > day})

Positive(n) == IF n > 0 THEN n ELSE 0

\* deliverable_qty
Deliverable(rows) == Positive(shares - InFlight(rows))

Nothing == [d \in SettleDays |-> 0]
NoSlices == [o \in SlicedIds |-> 0]

SettleInit ==
  /\ day = 0 /\ shares = 0 /\ due = Nothing /\ owed = Nothing /\ scaled = Nothing
  /\ resting = [o \in RestingIds |-> 0]
  /\ wants = [c \in Clients |-> 0] /\ stale = {} /\ behind = 0
  /\ intraday = 0 /\ counted = 0 /\ sliced = NoSlices /\ missed = 0 /\ extra = 0
  /\ target = 0 /\ squared = FALSE /\ late = 0 /\ sold = 0 /\ failed = FALSE

\* History: undelivered shares that are missing, and not for a split, were
\* sold behind the check.
Excuse(bought, added) ==
  LET short == InFlight(bought) - InFlight(added) - shares'
  IN  behind' = IF short > behind THEN short ELSE behind

\* History: a sale of one party overtakes the checks of the others.
Pass == stale' = {c \in Clients : wants[c] > 0}
Overtake(c) == stale' = (stale \cup {d \in Clients : wants[d] > 0}) \ {c}

-----------------------------------------------------------------------------
(* Delivery *)

\* apply_buy and enqueue_buy, in one transaction.
Bought(q) ==
  LET on == NextBusinessDay(day)
  IN  /\ {shares + q, due[on] + q, owed[on] + q} \subseteq 0..MaxShares
      /\ shares' = shares + q
      /\ due' = [due EXCEPT ![on] = @ + q]
      /\ owed' = [owed EXCEPT ![on] = @ + q]
      /\ UNCHANGED <<day, scaled, checks, intradayVars, behind>>

Buy(q) == Bought(q) /\ UNCHANGED resting

\* The entry of a bracket fills.  From now on the watcher works its exits, of
\* which one may sell; nobody has compared them with what is delivered.
EnterBracket(q, o) ==
  /\ resting[o] = 0
  /\ Bought(q)
  /\ resting' = [resting EXCEPT ![o] = q]

\* Mutant of CheckSell: only the position is looked at.
CheckSellHeld(c, q) ==
  /\ wants[c] = 0
  /\ q <= shares
  /\ wants' = [wants EXCEPT ![c] = q]
  /\ UNCHANGED <<day, position, resting, stale, intradayVars, behind>>

\* The T+1 check of a delivery sell.
CheckSell(c, q) ==
  /\ wants[c] = 0
  /\ q <= Deliverable(due)
  /\ wants' = [wants EXCEPT ![c] = q]
  /\ UNCHANGED <<day, position, resting, stale, intradayVars, behind>>

\* A market order fills at once, or is refused (no quote, too few shares).
Sell(c) ==
  /\ wants[c] > 0
  /\ \/ /\ wants[c] <= shares
        /\ shares' = shares - wants[c]
        /\ IF c \in stale THEN Excuse(owed, scaled) ELSE UNCHANGED behind
        /\ Overtake(c)
     \/ /\ stale' = stale \ {c}
        /\ UNCHANGED <<shares, behind>>
  /\ wants' = [wants EXCEPT ![c] = 0]
  /\ UNCHANGED <<day, due, owed, scaled, resting, intradayVars>>

\* A limit or stop order rests.
Rest(c, o) ==
  /\ wants[c] > 0 /\ resting[o] = 0
  /\ resting' = [resting EXCEPT ![o] = wants[c]]
  /\ wants' = [wants EXCEPT ![c] = 0]
  /\ stale' = stale \ {c}
  /\ UNCHANGED <<day, position, intradayVars, behind>>

\* It fills, whole or in part, with no further check than apply_sell's.
FillResting(o, q) ==
  /\ q <= resting[o] /\ q <= shares
  /\ shares' = shares - q
  /\ resting' = [resting EXCEPT ![o] = @ - q]
  /\ Excuse(owed, scaled) /\ Pass
  /\ UNCHANGED <<day, due, owed, scaled, wants, intradayVars>>

CancelResting(o) ==
  /\ resting[o] > 0
  /\ resting' = [resting EXCEPT ![o] = 0]
  /\ UNCHANGED <<day, position, checks, intradayVars, behind>>

-----------------------------------------------------------------------------
(* Intraday *)

\* History: n shares bought (sold, below 0) are not counted, or no longer.
Uncounted(n) ==
  /\ missed' = missed + Positive(n) /\ missed' <= MaxShares
  /\ extra' = extra + Positive(-n) /\ extra' <= MaxShares

\* The row of an intraday fill of n shares (a sell below 0).
Recorded(n) ==
  \* An order of today that is now filled, or is partially filled
  \/ /\ counted' = counted + n
     /\ \/ UNCHANGED sliced
        \/ \E o \in SlicedIds :
             /\ sliced[o] # 0 => (sliced[o] > 0 <=> n > 0)
             /\ \E left \in {0, sliced[o] + n} \cap (-MaxShares..MaxShares) :
                  sliced' = [sliced EXCEPT ![o] = left]
     /\ UNCHANGED <<missed, extra>>
  \* An exit that is now filled cancels its sibling, with what that had sold.
  \/ /\ n < 0
     /\ \E o \in SlicedIds :
          /\ sliced[o] < 0
          /\ counted' = counted + n - sliced[o]
          /\ sliced' = [sliced EXCEPT ![o] = 0]
          /\ Uncounted(sliced[o])
  \* An order that was created on an earlier day
  \/ /\ day > 0
     /\ Uncounted(n)
     /\ UNCHANGED <<counted, sliced>>

\* An intraday buy fills: no row of pending_settlements.
BuyIntraday(q) ==
  /\ shares + q <= MaxShares /\ intraday + q <= MaxShares /\ late + q <= MaxShares
  /\ shares' = shares + q
  /\ intraday' = intraday + q
  /\ Recorded(q)
  /\ late' = IF squared \/ target > 0 THEN late + q ELSE late
  /\ UNCHANGED <<day, due, owed, scaled, resting, checks, target, squared, sold,
                 failed, behind>>

\* An intraday sell, which is exempt from the check.
SellIntraday(q) ==
  /\ q <= shares /\ intraday - q >= -MaxShares /\ sold + q <= MaxShares
  /\ shares' = shares - q
  /\ intraday' = intraday - q
  /\ Recorded(-q)
  /\ sold' = sold + q
  /\ Excuse(owed, scaled) /\ Pass
  /\ UNCHANGED <<day, due, owed, scaled, resting, wants, target, squared, late, failed>>

\* A partially filled intraday order is cancelled: its status is now one that
\* square_off_intraday does not look for.
CancelSliced(o) ==
  /\ sliced[o] # 0
  /\ counted' = counted - sliced[o]
  /\ sliced' = [sliced EXCEPT ![o] = 0]
  /\ Uncounted(sliced[o])
  /\ UNCHANGED <<day, position, resting, checks, intraday, squareOff, behind>>

-----------------------------------------------------------------------------
(* Splits and resets *)

\* A split rescales the position, and with it what was bought, but no row and
\* no order.
SplitTwoForOne ==
  /\ shares > 0 /\ 2 * shares <= MaxShares
  /\ \A d \in SettleDays : 2 * owed[d] <= MaxShares
  /\ 2 * intraday \in -MaxShares..MaxShares
  /\ shares' = 2 * shares
  /\ owed' = [d \in SettleDays |-> 2 * owed[d]]
  /\ scaled' = [d \in SettleDays |-> scaled[d] + owed[d]]
  /\ intraday' = 2 * intraday
  /\ Uncounted(intraday)
  /\ UNCHANGED <<stale, behind>>

SplitOneForTwo ==
  /\ shares > 0 /\ shares % 2 = 0 /\ intraday % 2 = 0
  /\ \A d \in SettleDays : owed[d] % 2 = 0
  /\ shares' = shares \div 2
  /\ owed' = [d \in SettleDays |-> owed[d] \div 2]
  /\ scaled' = [d \in SettleDays |->
                  IF scaled[d] > owed[d] \div 2 THEN owed[d] \div 2 ELSE scaled[d]]
  /\ intraday' = intraday \div 2
  /\ Uncounted(intraday' - intraday)
  /\ Excuse(owed', scaled') /\ Pass

Split ==
  /\ SplitTwoForOne \/ SplitOneForTwo
  /\ UNCHANGED <<day, due, resting, wants, counted, sliced, squareOff>>

\* broker.reset deletes orders and positions; the rows stay.
Reset ==
  /\ shares' = 0 /\ owed' = Nothing /\ scaled' = Nothing /\ behind' = 0
  /\ resting' = [o \in RestingIds |-> 0]
  /\ Pass
  /\ intraday' = 0 /\ counted' = 0 /\ sliced' = NoSlices
  /\ missed' = 0 /\ extra' = 0 /\ late' = 0
  /\ sold' = target
  /\ UNCHANGED <<day, due, wants, target, squared, failed>>

-----------------------------------------------------------------------------
(* The watcher and the clock *)

\* settle_due
SettleDue ==
  /\ due' = [d \in SettleDays |-> IF d <= day THEN 0 ELSE due[d]]
  /\ UNCHANGED <<day, shares, owed, scaled, resting, checks, intradayVars, behind>>

\* Square-off time, which may be any time here: the net is read.  Without any,
\* the day's work is done.
ReadNet ==
  /\ ~squared /\ target = 0
  /\ \/ counted > 0 /\ target' = counted /\ squared' = squared
     \/ counted <= 0 /\ target' = 0 /\ squared' = TRUE
  /\ late' = 0 /\ sold' = Positive(-intraday)
  /\ UNCHANGED <<day, position, resting, checks, net, failed, behind>>

\* Mutant of SquareOff: the net is sold a second time.
SquareOffTwice ==
  /\ target > 0 /\ target <= shares
  /\ shares' = shares - target
  /\ intraday' = intraday - target /\ counted' = counted - target
  /\ Excuse(owed, scaled) /\ Pass
  /\ target' = IF squared THEN 0 ELSE target
  /\ squared' = TRUE
  /\ UNCHANGED <<day, due, owed, scaled, resting, wants, sliced, missed, extra, late,
                 sold, failed>>

\* The net is sold, by an order that counts too; a refusal is swallowed, and
\* the flag is set all the same.
SquareOff ==
  /\ target > 0
  /\ \/ /\ target <= shares
        /\ shares' = shares - target
        /\ intraday' = intraday - target /\ counted' = counted - target
        /\ Excuse(owed, scaled) /\ Pass
        /\ UNCHANGED failed
     \/ /\ failed' = TRUE
        /\ UNCHANGED <<shares, intraday, counted, stale, behind>>
  /\ target' = 0 /\ squared' = TRUE
  /\ UNCHANGED <<day, due, owed, scaled, resting, wants, sliced, missed, extra, late, sold>>

\* A new watcher has forgotten that it squared off.
Restart ==
  /\ squared' = FALSE /\ target' = 0
  /\ UNCHANGED <<day, position, resting, checks, net, late, sold, failed, behind>>

\* A new day: orders of yesterday are no longer counted, the flag is reset.
\* No square-off goes on at midnight.
NextDay ==
  /\ day < LastDate /\ target = 0
  /\ day' = day + 1
  /\ intraday' = 0 /\ counted' = 0 /\ sliced' = NoSlices
  /\ missed' = 0 /\ extra' = 0 /\ late' = 0 /\ sold' = 0
  /\ squared' = FALSE /\ failed' = FALSE
  /\ owed' = [owed EXCEPT ![day'] = 0] /\ scaled' = [scaled EXCEPT ![day'] = 0]
  /\ behind' = IF behind > InFlight(owed)' THEN InFlight(owed)' ELSE behind
  /\ UNCHANGED <<shares, due, resting, checks, target>>

SettleNext ==
  \/ \E q \in Quantities :
       \/ Buy(q) \/ BuyIntraday(q) \/ SellIntraday(q)
       \/ \E o \in RestingIds : EnterBracket(q, o) \/ FillResting(o, q)
       \/ \E c \in Clients : CheckSell(c, q)
  \/ \E c \in Clients : Sell(c) \/ \E o \in RestingIds : Rest(c, o)
  \/ \E o \in RestingIds : CancelResting(o)
  \/ \E o \in SlicedIds : CancelSliced(o)
  \/ Split \/ Reset \/ SettleDue \/ ReadNet \/ SquareOff \/ Restart \/ NextDay

SettleSpec == SettleInit /\ [][SettleNext]_settleVars

-----------------------------------------------------------------------------
(* Properties *)

SettleTypeOK ==
  /\ day \in 0..LastDate /\ shares \in Nat /\ behind \in Nat
  /\ {due, owed, scaled} \subseteq [SettleDays -> Nat]
  /\ resting \in [RestingIds -> Nat]
  /\ wants \in [Clients -> Quantities \cup {0}] /\ stale \subseteq Clients
  /\ sliced \in [SlicedIds -> Int]
  /\ {intraday, counted} \subseteq Int
  /\ {missed, extra, target, late, sold} \subseteq Nat
  /\ {squared, failed} \subseteq BOOLEAN

\* The check of submit_order keeps undelivered shares: of those bought that
\* have not settled, no more are gone than were sold without a check (by an
\* order that rested, the exit of a bracket, an intraday sell or the square-
\* off) or behind one that a sale or a consolidation overtook, and than a
\* split has added to them, which their rows do not know.
ChecksKeepUndelivered ==
  InFlight(owed) <= shares + behind + InFlight(scaled)

\* After the square-off no share is open intraday but those bought since it
\* read the net and those it does not count (partial fills of an order that
\* was cancelled, orders of an earlier day, shares from a split), unless the
\* sale was refused.  And it never sells more than was bought, also when it
\* runs again after a restart: a net below zero is what others have sold
\* meanwhile, or sales that it does not count.
SquareOffCloses ==
  /\ squared => intraday <= late + missed \/ failed
  /\ intraday + sold + extra >= 0

\* "a fresh delivery buy isn't sellable the same day" (settlement.py 70-71):
\* a delivery sell that rested sells delivered shares.
RestingSellsDelivered ==
  [][ \A o \in RestingIds, q \in Quantities :
        FillResting(o, q) => q <= Deliverable(owed) ]_settleVars

\* The same of a market sell that nobody has overtaken.
MarketSellsDelivered ==
  [][ \A c \in Clients \ stale :
        Sell(c) /\ shares' < shares => wants[c] <= Deliverable(owed) ]_settleVars

\* "Close all open INTRADAY positions at market." (orders/state.py 500)
SquareOffClosesAll ==
  squared /\ ~failed => intraday <= late
=============================================================================
