----------------------------- MODULE WatcherProofs -----------------------------
(****************************************************************************)
(* Proofs about what the watcher does once a day: Settlement, with its roll *)
(* of the rows and the square-off, Session, with the order of the day's     *)
(* stages and the expiry of DAY orders, and Auction, with one auction in    *)
(* detail.  The three models have no step in common.                        *)
(****************************************************************************)
EXTENDS Session, Settlement, Auction, Sums, SequenceTheorems

-----------------------------------------------------------------------------
(****************************************************************************)
(* Settlement for any number of clients, resting and sliced orders, any     *)
(* quantities, any calendar of weekends and any number of days: undelivered *)
(* shares only go behind the check, and the square-off closes what it       *)
(* counts of the intraday trades.                                           *)
(*                                                                          *)
(* The rows that are pending and what splits have added cover what is owed  *)
(* (RowsCover), and a client whose check nobody overtook wants no more than *)
(* is delivered by the rows (ChecksHold): a sale then leaves what is in     *)
(* flight.  The net that the square-off reads is that of the trades but for *)
(* those that are not counted (NetFits), and clients move on meanwhile      *)
(* (TargetFits).                                                            *)
(****************************************************************************)

\* What is owed is in the rows or from splits, and nothing is owed for the
\* past.
RowsCover ==
  \A d \in SettleDays :
    /\ scaled[d] <= owed[d]
    /\ d > day => owed[d] <= due[d] + scaled[d]
    /\ d <= day => owed[d] = 0

\* A check that was not overtaken still holds.
ChecksHold ==
  \A c \in Clients : wants[c] > 0 /\ c \notin stale =>
    wants[c] <= shares + InFlight(scaled) - InFlight(owed)

\* What the code counts is what was traded but for what it misses.
NetFits == intraday - counted <= missed /\ counted - intraday <= extra

\* What the square-off is about to sell is what is open, but for what it
\* misses and what others have traded since it was read.
TargetFits ==
  target > 0 =>
    /\ ~squared
    /\ intraday - target <= late + missed
    /\ target - intraday <= sold + extra

SettleInv ==
  /\ SettleTypeOK /\ RowsCover /\ ChecksHold /\ NetFits /\ TargetFits
  /\ ChecksKeepUndelivered /\ SquareOffCloses

-----------------------------------------------------------------------------
(* The calendar and the sums *)

\* Among three days there is one that is no weekend.
LEMMA NextBusinessDayIsNear ==
  ASSUME NEW d \in Nat
  PROVE  NextBusinessDay(d) \in (d + 1)..(d + 3)
<1> DEFINE Fits(n) == ~Weekend(n) /\ \A m \in (d + 1)..(n - 1) : Weekend(m)
<1>1. CASE ~Weekend(d + 1)
  BY <1>1 DEF NextBusinessDay
<1>2. CASE Weekend(d + 1) /\ ~Weekend(d + 2)
  <2>1. Fits(d + 2)
    BY <1>2
  <2> QED
    BY <2>1 DEF NextBusinessDay
<1>3. CASE Weekend(d + 1) /\ Weekend(d + 2)
  <2>1. ~Weekend(d + 3)
    BY <1>3, SettlementAssumption DEF Weekend, SettlementAssumption
  <2>2. Fits(d + 3)
    BY <1>3, <2>1
  <2> QED
    BY <2>2 DEF NextBusinessDay
<1> QED
  BY <1>1, <1>2, <1>3

\* A buy's row is for a day to come, for which there is a row.
LEMMA BuySettlesLater ==
  ASSUME SettleTypeOK
  PROVE  NextBusinessDay(day) \in SettleDays /\ NextBusinessDay(day) > day
<1>1. day \in Nat /\ day <= LastDate /\ LastDate \in Nat
  BY SettlementAssumption DEF SettleTypeOK, SettlementAssumption
<1>2. NextBusinessDay(day) \in (day + 1)..(day + 3)
  BY <1>1, NextBusinessDayIsNear
<1> QED
  BY <1>1, <1>2 DEF SettleDays

LaterDays == {d \in SettleDays : d > day}

\* Only finitely many days are to come.
LEMMA LaterDaysFinite == IsFiniteSet(LaterDays) /\ IsFiniteSet(LaterDays')
<1>1. IsFiniteSet(SettleDays)
  BY FS_Interval, SettlementAssumption DEF SettleDays, SettlementAssumption
<1>2. LaterDays \subseteq SettleDays /\ LaterDays' \subseteq SettleDays
  BY DEF LaterDays
<1> QED
  BY <1>1, <1>2, FS_Subset

Rows == [SettleDays -> Nat]

\* What is in flight is a quantity.
LEMMA FlightIsNat ==
  ASSUME NEW per \in Rows
  PROVE  InFlight(per) \in Nat
<1>1. \A d \in LaterDays : per[d] \in Nat
  BY DEF Rows, LaterDays
<1> QED
  BY <1>1, LaterDaysFinite, SumNat DEF InFlight, LaterDays

\* Of the sum of two tables, the sum of both is in flight.
LEMMA FlightAdds ==
  ASSUME NEW a \in Rows, NEW b \in Rows, NEW c,
         \A d \in SettleDays : c[d] = a[d] + b[d]
  PROVE  InFlight(c) = InFlight(a) + InFlight(b)
<1>1. \A d \in LaterDays : a[d] \in Int /\ b[d] \in Int /\ c[d] = 1 * a[d] + b[d]
  BY DEF Rows, LaterDays
<1>2. SumFunctionOnSet(c, LaterDays)
        = 1 * SumFunctionOnSet(a, LaterDays) + SumFunctionOnSet(b, LaterDays)
  BY <1>1, LaterDaysFinite, SumLinear
<1>3. InFlight(c) = 1 * InFlight(a) + InFlight(b)
  BY <1>2 DEF InFlight, LaterDays
<1> QED
  BY <1>3, FlightIsNat

\* A table with smaller entries has less in flight.
LEMMA FlightGrows ==
  ASSUME NEW a \in Rows, NEW b \in Rows, \A d \in LaterDays : a[d] <= b[d]
  PROVE  InFlight(a) <= InFlight(b)
<1>1. \A d \in LaterDays : a[d] \in Int /\ b[d] \in Int /\ a[d] <= b[d]
  BY DEF Rows, LaterDays
<1> QED
  BY <1>1, LaterDaysFinite, SumLeq DEF InFlight, LaterDays

\* What is owed and not from splits is in the rows.
LEMMA OwedIsCovered ==
  ASSUME SettleTypeOK, RowsCover
  PROVE  InFlight(owed) <= InFlight(due) + InFlight(scaled)
<1> DEFINE both == [d \in SettleDays |-> due[d] + scaled[d]]
<1>1. due \in Rows /\ scaled \in Rows /\ owed \in Rows
  BY DEF SettleTypeOK, Rows
<1>2. both \in Rows
  BY <1>1 DEF Rows
<1>3. InFlight(both) = InFlight(due) + InFlight(scaled)
  BY <1>1, FlightAdds
<1>4. \A d \in LaterDays : owed[d] <= both[d]
  BY DEF RowsCover, LaterDays
<1> HIDE DEF both
<1> QED
  BY <1>1, <1>2, <1>3, <1>4, FlightGrows

\* A buy adds to what is in flight.
LEMMA BuyIsInFlight ==
  ASSUME SettleTypeOK, NEW q \in Nat, day' = day,
         owed' = [owed EXCEPT ![NextBusinessDay(day)] = @ + q]
  PROVE  InFlight(owed)' = InFlight(owed) + q
<1> DEFINE on == NextBusinessDay(day)
           new == owed'
<1>1. on \in LaterDays
  BY BuySettlesLater DEF LaterDays
<1>2. /\ \A d \in LaterDays : owed[d] \in Int /\ new[d] \in Int
      /\ \A d \in LaterDays \ {on} : new[d] = owed[d]
      /\ new[on] = owed[on] + q
  BY <1>1 DEF SettleTypeOK, LaterDays
<1>3. InFlight(owed)' = SumFunctionOnSet(new, LaterDays)
  BY DEF InFlight, LaterDays
<1> HIDE DEF on, new
<1>4. SumFunctionOnSet(new, LaterDays)
        = SumFunctionOnSet(owed, LaterDays) + new[on] - owed[on]
  BY <1>1, <1>2, LaterDaysFinite, SumMoves
<1>5. SumFunctionOnSet(owed, LaterDays) \in Int /\ owed[on] \in Int
  BY <1>1, <1>2, LaterDaysFinite, SumInt
<1> QED
  BY <1>2, <1>3, <1>4, <1>5 DEF InFlight, LaterDays

\* A day's delivery takes its rows from what is in flight.
LEMMA DeliveryEndsFlight ==
  ASSUME SettleTypeOK, day < LastDate, day' = day + 1,
         NEW per \in Rows, NEW new, new = [per EXCEPT ![day + 1] = 0]
  PROVE  /\ day + 1 \in SettleDays
         /\ SumFunctionOnSet(new, LaterDays') = InFlight(per) - per[day + 1]
         /\ SumFunctionOnSet(new, LaterDays') \in Nat
<1> DEFINE next == day + 1
           rest == LaterDays'
<1>1. /\ next \in LaterDays /\ LaterDays \ {next} = rest /\ next \in SettleDays
      /\ rest \subseteq SettleDays /\ IsFiniteSet(rest)
  <2>1. day \in Int /\ LastDate \in Int /\ 0 <= day
    BY SettlementAssumption DEF SettleTypeOK, SettlementAssumption
  <2>2. next \in LaterDays /\ LaterDays \ {next} = rest /\ rest \subseteq SettleDays
    BY <2>1 DEF LaterDays, SettleDays
  <2> QED
    BY <2>2, LaterDaysFinite DEF LaterDays
<1>2. /\ \A d \in LaterDays : per[d] \in Int
      /\ \A d \in rest : per[d] = new[d] /\ new[d] \in Nat
      /\ per[next] \in Nat
  <2>1. per \in [SettleDays -> Nat] /\ LaterDays \subseteq SettleDays
    BY DEF LaterDays, Rows
  <2>2. next \notin rest /\ new = [per EXCEPT ![next] = 0]
    BY <1>1
  <2> HIDE DEF next, rest
  <2> QED
    BY <1>1, <2>1, <2>2
<1>3. InFlight(per) = SumFunctionOnSet(per, LaterDays)
  BY DEF InFlight, LaterDays
<1> HIDE DEF next, rest
<1>4. SumFunctionOnSet(per, LaterDays)
        = per[next] + SumFunctionOnSet(per, LaterDays \ {next})
  BY <1>1, <1>2, LaterDaysFinite, SumTakes
<1>5. SumFunctionOnSet(per, rest) = SumFunctionOnSet(new, rest)
  <2>1. IsFiniteSet(rest) /\ \A d \in rest : per[d] = new[d]
    BY <1>1, <1>2
  <2> QED
    BY <2>1, SumSame, Zenon
<1>6. SumFunctionOnSet(new, rest) \in Nat
  BY <1>1, <1>2, SumNat
<1>7. SumFunctionOnSet(new, rest) = InFlight(per) - per[next]
  BY <1>1, <1>2, <1>3, <1>4, <1>5, <1>6
<1> QED
  BY <1>1, <1>6, <1>7 DEF next, rest

-----------------------------------------------------------------------------
(* The invariant *)

\* The flags are truth values.
Flags == squared \in BOOLEAN /\ failed \in BOOLEAN

\* The intraday figures are whole numbers.
Counts ==
  /\ sliced \in [SlicedIds -> Int] /\ intraday \in Int /\ counted \in Int
  /\ missed \in Nat /\ extra \in Nat /\ target \in Nat /\ late \in Nat /\ sold \in Nat

\* The rest of the typing.
Figures ==
  /\ day \in 0..LastDate /\ shares \in Nat /\ behind \in Nat
  /\ due \in Rows /\ owed \in Rows /\ scaled \in Rows
  /\ resting \in [RestingIds -> Nat]
  /\ wants \in [Clients -> Quantities \cup {0}] /\ stale \subseteq Clients

\* The type invariant by its parts.
LEMMA TypeParts ==
  (SettleTypeOK <=> Flags /\ Counts /\ Figures)
    /\ (SettleTypeOK' <=> Flags' /\ Counts' /\ Figures')
<1>1. SettleTypeOK <=> Flags /\ Counts /\ Figures
  BY Zenon DEF SettleTypeOK, Flags, Counts, Figures, Rows
<1>2. SettleTypeOK' <=> Flags' /\ Counts' /\ Figures'
  BY Zenon DEF SettleTypeOK, Flags, Counts, Figures, Rows
<1> QED
  BY <1>1, <1>2

\* The figures are numbers.
LEMMA Numbers ==
  ASSUME SettleTypeOK
  PROVE  /\ day \in Nat /\ SettleDays \subseteq Nat
         /\ Counts /\ Figures
         /\ \A c \in Clients : wants[c] \in Nat
         /\ \A q \in Quantities : q \in Nat /\ q > 0
         /\ InFlight(owed) \in Nat /\ InFlight(scaled) \in Nat /\ InFlight(due) \in Nat
<1>1. Counts /\ Figures
  BY TypeParts
<1>2. InFlight(owed) \in Nat /\ InFlight(scaled) \in Nat /\ InFlight(due) \in Nat
  BY <1>1, FlightIsNat DEF Figures
<1>3. \A q \in Quantities : q \in Nat /\ q > 0
  BY SettlementAssumption DEF SettlementAssumption
<1>4. \A c \in Clients : wants[c] \in Nat
  BY <1>1, <1>3 DEF Figures
<1>5. day \in Nat /\ SettleDays \subseteq Nat
  BY <1>1, SettlementAssumption DEF Figures, SettleDays, SettlementAssumption
<1> QED
  BY <1>1, <1>2, <1>3, <1>4, <1>5

\* Without buys, splits and deliveries, what is in flight stays so.
LEMMA FlightStays ==
  ASSUME UNCHANGED <<day, owed, scaled>>
  PROVE  InFlight(owed)' = InFlight(owed) /\ InFlight(scaled)' = InFlight(scaled)
  BY DEF InFlight

\* An excuse covers what is missing.
LEMMA ExcuseCovers ==
  ASSUME SettleTypeOK, NEW O, NEW S, InFlight(O) \in Nat, InFlight(S) \in Nat,
         shares' \in Nat, Excuse(O, S)
  PROVE  behind' \in Nat /\ InFlight(O) <= shares' + behind' + InFlight(S)
<1>1. behind \in Nat
  BY Numbers DEF Figures
<1> QED
  BY <1>1 DEF Excuse

\* Shares go without a check: what is missing is excused, and all checks are
\* stale.
LEMMA Unchecked ==
  ASSUME SettleInv, UNCHANGED <<day, owed, scaled>>, shares' \in Nat,
         Excuse(owed, scaled), stale' = {c \in Clients : wants'[c] > 0}
  PROVE  behind' \in Nat /\ ChecksHold' /\ ChecksKeepUndelivered'
<1>1. ChecksHold'
  BY DEF ChecksHold
<1>2. InFlight(owed) \in Nat /\ InFlight(scaled) \in Nat
  BY Numbers DEF SettleInv
<1>3. behind' \in Nat /\ InFlight(owed) <= shares' + behind' + InFlight(scaled)
  BY <1>2, ExcuseCovers DEF SettleInv
<1> QED
  BY <1>1, <1>3, FlightStays DEF ChecksKeepUndelivered

\* Nobody sells: checks and cover stand as they did.
LEMMA Covered ==
  ASSUME SettleInv, UNCHANGED <<day, owed, scaled, behind>>,
         shares' \in Nat, shares' >= shares,
         \A c \in Clients : wants'[c] > 0 /\ c \notin stale' =>
           wants'[c] = wants[c] /\ c \notin stale
  PROVE  behind' \in Nat /\ ChecksHold' /\ ChecksKeepUndelivered'
<1>1. /\ shares \in Nat /\ behind \in Nat /\ \A c \in Clients : wants[c] \in Nat
      /\ InFlight(owed) \in Nat /\ InFlight(scaled) \in Nat
  BY Numbers DEF SettleInv, Figures
<1>2. InFlight(owed)' = InFlight(owed) /\ InFlight(scaled)' = InFlight(scaled)
  BY FlightStays
<1>3. ChecksKeepUndelivered'
  BY <1>1, <1>2 DEF SettleInv, ChecksKeepUndelivered
<1>4. ASSUME NEW c \in Clients, wants'[c] > 0, c \notin stale'
      PROVE  wants'[c] <= shares' + InFlight(scaled)' - InFlight(owed)'
  BY <1>1, <1>2, <1>4 DEF SettleInv, ChecksHold
<1> QED
  BY <1>1, <1>3, <1>4 DEF ChecksHold

\* The rows are left alone.
LEMMA RowsStay ==
  ASSUME SettleInv, UNCHANGED <<day, due, owed, scaled>>
  PROVE  RowsCover'
  BY DEF SettleInv, RowsCover

\* The invariants of the square-off, and the figures they are about.
SquareOffInv == NetFits /\ TargetFits /\ SquareOffCloses

\* Nothing that the square-off looks at changes.
LEMMA SquareOffStays ==
  ASSUME SettleInv, UNCHANGED intradayVars
  PROVE  Flags' /\ Counts' /\ SquareOffInv'
<1>1. Flags /\ Counts /\ SquareOffInv
  BY TypeParts DEF SettleInv, SquareOffInv
<1>2. /\ UNCHANGED <<intraday, counted, sliced, missed, extra>>
      /\ UNCHANGED <<target, squared, late, sold, failed>>
  BY DEF intradayVars, net, squareOff
<1>3. Flags'
  BY <1>1, <1>2, Zenon DEF Flags
<1> QED
  BY <1>1, <1>2, <1>3 DEF Counts, SquareOffInv, NetFits, TargetFits, SquareOffCloses

\* What is not counted is noted on its side.
LEMMA UncountedFits ==
  ASSUME NEW n \in Int, Uncounted(n), missed \in Nat, extra \in Nat
  PROVE  /\ missed' \in Nat /\ missed' >= missed /\ missed' >= missed + n
         /\ extra' \in Nat /\ extra' >= extra /\ extra' >= extra - n
  BY DEF Uncounted, Positive

\* A trade is counted, or noted as missed.
LEMMA RecordedFits ==
  ASSUME SettleInv, NEW n \in Int, Recorded(n), intraday' = intraday + n
  PROVE  /\ NetFits' /\ intraday' \in Int /\ counted' \in Int
         /\ sliced' \in [SlicedIds -> Int]
         /\ missed' \in Nat /\ missed' >= missed /\ extra' \in Nat /\ extra' >= extra
<1>1. /\ intraday \in Int /\ counted \in Int /\ sliced \in [SlicedIds -> Int]
      /\ missed \in Nat /\ extra \in Nat
      /\ intraday - counted <= missed /\ counted - intraday <= extra
  BY Numbers DEF SettleInv, Counts, NetFits
<1>2. CASE counted' = counted + n /\ UNCHANGED <<missed, extra>>
           /\ (UNCHANGED sliced \/ \E o \in SlicedIds :
                 \E left \in {0, sliced[o] + n} \cap (-MaxShares..MaxShares) :
                   sliced' = [sliced EXCEPT ![o] = left])
  <2>1. sliced' \in [SlicedIds -> Int]
    <3>1. CASE UNCHANGED sliced
      BY <1>1, <3>1
    <3>2. ASSUME NEW o \in SlicedIds, NEW left \in {0, sliced[o] + n},
                 sliced' = [sliced EXCEPT ![o] = left]
          PROVE  sliced' \in [SlicedIds -> Int]
      <4>1. left \in Int
        BY <1>1
      <4> QED
        BY <1>1, <3>2, <4>1
    <3> QED
      BY <1>2, <3>1, <3>2
  <2> QED
    BY <1>1, <1>2, <2>1 DEF NetFits
<1>3. ASSUME NEW o \in SlicedIds, sliced[o] < 0,
             counted' = counted + n - sliced[o],
             sliced' = [sliced EXCEPT ![o] = 0], Uncounted(sliced[o])
      PROVE  /\ NetFits' /\ counted' \in Int /\ sliced' \in [SlicedIds -> Int]
             /\ missed' \in Nat /\ missed' >= missed /\ extra' \in Nat /\ extra' >= extra
  <2> DEFINE s == sliced[o]
  <2>1. s \in Int /\ Uncounted(s) /\ counted' = counted + n - s
    BY <1>1, <1>3
  <2>2. sliced' \in [SlicedIds -> Int]
    BY <1>1, <1>3
  <2> HIDE DEF s
  <2>3. /\ missed' \in Nat /\ missed' >= missed /\ missed' >= missed + s
        /\ extra' \in Nat /\ extra' >= extra /\ extra' >= extra - s
    BY <1>1, <2>1, UncountedFits
  <2> QED
    BY <1>1, <2>1, <2>2, <2>3 DEF NetFits
<1>4. CASE Uncounted(n) /\ UNCHANGED <<counted, sliced>>
  <2>1. /\ missed' \in Nat /\ missed' >= missed /\ missed' >= missed + n
        /\ extra' \in Nat /\ extra' >= extra /\ extra' >= extra - n
    BY <1>1, <1>4, UncountedFits
  <2> QED
    BY <1>1, <1>4, <2>1 DEF NetFits
<1>5. intraday' \in Int
  BY <1>1
<1>6. \/ counted' = counted + n /\ UNCHANGED <<missed, extra>>
           /\ (UNCHANGED sliced \/ \E o \in SlicedIds :
                 \E left \in {0, sliced[o] + n} \cap (-MaxShares..MaxShares) :
                   sliced' = [sliced EXCEPT ![o] = left])
      \/ \E o \in SlicedIds :
           /\ sliced[o] < 0 /\ counted' = counted + n - sliced[o]
           /\ sliced' = [sliced EXCEPT ![o] = 0] /\ Uncounted(sliced[o])
      \/ Uncounted(n) /\ UNCHANGED <<counted, sliced>>
  BY Zenon DEF Recorded
<1> QED
  BY <1>2, <1>3, <1>4, <1>5, <1>6

\* What the square-off has read and what it closed stand when n shares are
\* traded and noted.
LEMMA TargetStays ==
  ASSUME SettleInv, UNCHANGED <<target, squared, failed>>, Counts',
         NEW n \in Int, intraday' = intraday + n,
         late' >= late, missed' >= missed, sold' >= sold, extra' >= extra,
         target > 0 \/ squared => late' >= late + n \/ missed' >= missed + n,
         sold' >= sold - n \/ extra' >= extra - n
  PROVE  TargetFits' /\ SquareOffCloses'
<1> DEFINE i == intraday'
           l == late'
           m == missed'
           s == sold'
           e == extra'
<1>1. /\ i \in Int /\ l \in Nat /\ m \in Nat /\ s \in Nat /\ e \in Nat
      /\ i = intraday + n /\ l >= late /\ m >= missed /\ s >= sold /\ e >= extra
      /\ s >= sold - n \/ e >= extra - n
  BY Zenon DEF Counts
<1>2. target > 0 \/ squared => l >= late + n \/ m >= missed + n
  BY Zenon
<1>3. Counts /\ TargetFits /\ SquareOffCloses
  BY Numbers DEF SettleInv
<1>4. target > 0 => ~squared /\ intraday - target <= late + missed
                              /\ target - intraday <= sold + extra
  BY <1>3, Zenon DEF TargetFits
<1>5. squared => intraday <= late + missed \/ failed
  BY <1>3, Zenon DEF SquareOffCloses
<1>6. intraday + sold + extra >= 0
  BY <1>3, Zenon DEF SquareOffCloses
<1>7. /\ intraday \in Int /\ target \in Nat /\ late \in Nat /\ missed \in Nat
      /\ sold \in Nat /\ extra \in Nat
  BY <1>3, Zenon DEF Counts
<1> HIDE DEF i, l, m, s, e
<1>8. ASSUME target > 0
      PROVE  i - target <= l + m /\ target - i <= s + e
  <2>1. l >= late + n \/ m >= missed + n
    BY <1>2, <1>8
  <2>2. intraday - target <= late + missed /\ target - intraday <= sold + extra
    BY <1>4, <1>8
  <2> QED
    BY <1>1, <1>7, <2>1, <2>2
<1>9. ASSUME squared, ~failed
      PROVE  i <= l + m
  <2>1. l >= late + n \/ m >= missed + n
    BY <1>2, <1>9
  <2>2. intraday <= late + missed
    BY <1>5, <1>9
  <2> QED
    BY <1>1, <1>7, <2>1, <2>2
<1>10. i + s + e >= 0
  BY <1>1, <1>6, <1>7
<1>11. TargetFits'
  BY <1>4, <1>8, Zenon DEF TargetFits, i, l, m, s, e
<1>12. SquareOffCloses'
  BY <1>9, <1>10, Zenon DEF SquareOffCloses, i, l, m, s, e
<1> QED
  BY <1>11, <1>12

\* A new account owes nothing and has nothing to square off.
LEMMA SettleInvInit == SettleInit => SettleInv
<1> SUFFICES ASSUME SettleInit PROVE SettleInv
  OBVIOUS
<1>1. Flags
  BY Zenon DEF SettleInit, Flags
<1>2. Counts
  BY DEF SettleInit, Counts, NoSlices
<1>3. due \in Rows /\ owed \in Rows /\ scaled \in Rows
  BY DEF SettleInit, Nothing, Rows
<1>4. Figures
  BY <1>3, SettlementAssumption DEF SettleInit, Figures, SettlementAssumption
<1>5. SettleTypeOK
  BY <1>1, <1>2, <1>4, TypeParts
<1>6. RowsCover
  BY DEF SettleInit, RowsCover, Nothing
<1>7. ChecksHold /\ NetFits /\ TargetFits /\ SquareOffCloses
  BY DEF SettleInit, ChecksHold, NetFits, TargetFits, SquareOffCloses
<1>8. InFlight(owed) = 0 /\ InFlight(scaled) = 0
  <2>1. \A d \in LaterDays : owed[d] = 0 /\ scaled[d] = 0
    BY DEF SettleInit, Nothing, LaterDays
  <2> QED
    BY <2>1, LaterDaysFinite, SumOfZeros DEF InFlight, LaterDays
<1>9. ChecksKeepUndelivered
  BY <1>8 DEF SettleInit, ChecksKeepUndelivered
<1> QED
  BY <1>5, <1>6, <1>7, <1>9 DEF SettleInv

\* The invariant after a step, by its parts.
LEMMA SettleInvParts ==
  SettleInv' <=> /\ Flags' /\ Counts' /\ Figures' /\ RowsCover' /\ ChecksHold'
                 /\ ChecksKeepUndelivered' /\ SquareOffInv'
  BY TypeParts DEF SettleInv, SquareOffInv

\* A buy for delivery adds a row, shares, and what is in flight.
LEMMA BoughtKeeps ==
  ASSUME SettleInv, NEW q \in Quantities, Bought(q), resting' \in [RestingIds -> Nat]
  PROVE  SettleInv'
<1> DEFINE on == NextBusinessDay(day)
<1>1. on \in SettleDays /\ on > day
  BY BuySettlesLater DEF SettleInv
<1>2. /\ UNCHANGED <<day, scaled, wants, stale, intradayVars, behind>>
      /\ shares' = shares + q
      /\ due' = [due EXCEPT ![on] = @ + q] /\ owed' = [owed EXCEPT ![on] = @ + q]
  BY DEF Bought, checks
<1>3. /\ Figures /\ day \in Nat /\ SettleDays \subseteq Nat /\ q \in Nat
      /\ \A c \in Clients : wants[c] \in Nat
      /\ InFlight(owed) \in Nat /\ InFlight(scaled) \in Nat
  BY Numbers DEF SettleInv
<1>4. InFlight(owed)' = InFlight(owed) + q
  BY <1>2, <1>3, BuyIsInFlight DEF SettleInv
<1>5. InFlight(scaled)' = InFlight(scaled)
  BY <1>2 DEF InFlight
<1> HIDE DEF on
<1>6. Figures'
  BY <1>1, <1>2, <1>3 DEF Figures, Rows
<1>7. RowsCover'
  BY <1>1, <1>2, <1>3 DEF SettleInv, RowsCover, Figures, Rows
<1>8. ChecksHold'
  BY <1>2, <1>3, <1>4, <1>5 DEF SettleInv, ChecksHold, Figures
<1>9. ChecksKeepUndelivered'
  BY <1>2, <1>3, <1>4, <1>5 DEF SettleInv, ChecksKeepUndelivered, Figures
<1> QED
  BY <1>2, <1>6, <1>7, <1>8, <1>9, SquareOffStays, SettleInvParts

\* The entry of a bracket is a buy.
LEMMA BuyKeeps ==
  ASSUME SettleInv, NEW q \in Quantities,
         Buy(q) \/ \E o \in RestingIds : EnterBracket(q, o)
  PROVE  SettleInv'
<1>1. resting \in [RestingIds -> Nat] /\ q \in Nat
  BY Numbers DEF SettleInv, Figures
<1>2. Bought(q) /\ resting' \in [RestingIds -> Nat]
  BY <1>1 DEF Buy, EnterBracket
<1> QED
  BY <1>2, BoughtKeeps

\* The check leaves its client what is delivered.
LEMMA CheckSellKeeps ==
  ASSUME SettleInv, NEW c \in Clients, NEW q \in Quantities, CheckSell(c, q)
  PROVE  SettleInv'
<1>1. /\ UNCHANGED <<day, shares, due, owed, scaled, resting, stale, intradayVars, behind>>
      /\ wants' = [wants EXCEPT ![c] = q] /\ q <= Deliverable(due)
  BY DEF CheckSell, position
<1>2. /\ Figures /\ q \in Nat /\ q > 0 /\ \A d \in Clients : wants[d] \in Nat
      /\ InFlight(owed) \in Nat /\ InFlight(scaled) \in Nat /\ InFlight(due) \in Nat
  BY Numbers DEF SettleInv
<1>3. q <= shares + InFlight(scaled) - InFlight(owed)
  <2>1. InFlight(owed) <= InFlight(due) + InFlight(scaled)
    BY OwedIsCovered DEF SettleInv
  <2>2. q <= shares - InFlight(due)
    BY <1>1, <1>2 DEF Deliverable, Positive, Figures
  <2> QED
    BY <1>2, <2>1, <2>2 DEF Figures
<1>4. InFlight(owed)' = InFlight(owed) /\ InFlight(scaled)' = InFlight(scaled)
  BY <1>1, FlightStays
<1>5. Figures'
  BY <1>1, <1>2 DEF Figures
<1>6. ChecksHold'
  <2>1. ASSUME NEW d \in Clients, wants'[d] > 0, d \notin stale
        PROVE  wants'[d] <= shares + InFlight(scaled) - InFlight(owed)
    <3>1. wants'[d] = IF d = c THEN q ELSE wants[d]
      BY <1>1, <1>2 DEF Figures
    <3> QED
      BY <1>3, <2>1, <3>1 DEF SettleInv, ChecksHold
  <2> QED
    BY <1>1, <1>4, <2>1 DEF ChecksHold
<1>7. ChecksKeepUndelivered'
  BY <1>1, <1>4 DEF SettleInv, ChecksKeepUndelivered
<1> QED
  BY <1>1, <1>5, <1>6, <1>7, RowsStay, SquareOffStays, SettleInvParts

\* A sale behind a check that holds leaves what is in flight.
LEMMA SellKeeps ==
  ASSUME SettleInv, NEW c \in Clients, Sell(c)
  PROVE  SettleInv'
<1>1. /\ UNCHANGED <<day, due, owed, scaled, resting, intradayVars>>
      /\ wants' = [wants EXCEPT ![c] = 0] /\ wants[c] > 0
  BY DEF Sell
<1>2. /\ Figures /\ \A d \in Clients : wants[d] \in Nat
      /\ InFlight(owed) \in Nat /\ InFlight(scaled) \in Nat
  BY Numbers DEF SettleInv
<1>3. InFlight(owed)' = InFlight(owed) /\ InFlight(scaled)' = InFlight(scaled)
  BY <1>1, FlightStays
<1>4. wants' \in [Clients -> Quantities \cup {0}]
  BY <1>1, <1>2 DEF Figures
<1>5. ASSUME wants[c] <= shares, shares' = shares - wants[c], Overtake(c),
             IF c \in stale THEN Excuse(owed, scaled) ELSE UNCHANGED behind
      PROVE  /\ shares' \in Nat /\ stale' \subseteq Clients /\ behind' \in Nat
             /\ ChecksHold' /\ ChecksKeepUndelivered'
  <2>1. shares' \in Nat /\ shares \in Nat /\ behind \in Nat
    BY <1>2, <1>5 DEF Figures
  <2>2. stale' \subseteq Clients /\ ChecksHold'
    BY <1>1, <1>2, <1>5 DEF ChecksHold, Overtake, Figures
  <2>3. CASE c \in stale
    <3>1. behind' \in Nat /\ InFlight(owed) <= shares' + behind' + InFlight(scaled)
      BY <1>2, <1>5, <2>1, <2>3, ExcuseCovers DEF SettleInv
    <3> QED
      BY <1>3, <2>1, <2>2, <3>1 DEF ChecksKeepUndelivered
  <2>4. CASE c \notin stale
    <3>1. wants[c] <= shares + InFlight(scaled) - InFlight(owed)
      BY <1>1, <2>4 DEF SettleInv, ChecksHold
    <3>2. InFlight(owed) <= shares' + behind + InFlight(scaled) /\ behind' = behind
      BY <1>2, <1>5, <2>1, <2>4, <3>1
    <3> QED
      BY <1>3, <2>1, <2>2, <3>2 DEF ChecksKeepUndelivered
  <2> QED
    BY <2>3, <2>4
<1>6. ASSUME stale' = stale \ {c}, UNCHANGED <<shares, behind>>
      PROVE  /\ shares' \in Nat /\ stale' \subseteq Clients /\ behind' \in Nat
             /\ ChecksHold' /\ ChecksKeepUndelivered'
  <2>1. \A d \in Clients : wants'[d] > 0 /\ d \notin stale' =>
          wants'[d] = wants[d] /\ d \notin stale
    BY <1>1, <1>2, <1>6 DEF Figures
  <2>2. shares' \in Nat /\ shares' >= shares /\ stale' \subseteq Clients
    BY <1>2, <1>6 DEF Figures
  <2> QED
    BY <1>1, <1>6, <2>1, <2>2, Covered
<1>7. /\ shares' \in Nat /\ stale' \subseteq Clients /\ behind' \in Nat
      /\ ChecksHold' /\ ChecksKeepUndelivered'
  BY <1>5, <1>6 DEF Sell
<1>8. Figures'
  BY <1>1, <1>2, <1>4, <1>7 DEF Figures
<1> QED
  BY <1>1, <1>7, <1>8, RowsStay, SquareOffStays, SettleInvParts

\* An order that rests, or is cancelled, has sold nothing.
LEMMA RestKeeps ==
  ASSUME SettleInv, NEW o \in RestingIds,
         (\E c \in Clients : Rest(c, o)) \/ CancelResting(o)
  PROVE  SettleInv'
<1>1. Figures /\ \A d \in Clients : wants[d] \in Nat
  BY Numbers DEF SettleInv
<1>2. /\ UNCHANGED <<day, shares, due, owed, scaled, intradayVars, behind>>
      /\ shares' \in Nat /\ shares' >= shares
  BY <1>1 DEF Rest, CancelResting, position, Figures
<1>3. ASSUME NEW c \in Clients, Rest(c, o)
      PROVE  /\ Figures'
             /\ \A d \in Clients : wants'[d] > 0 /\ d \notin stale' =>
                  wants'[d] = wants[d] /\ d \notin stale
  BY <1>1, <1>2, <1>3 DEF Rest, Figures
<1>4. ASSUME CancelResting(o)
      PROVE  /\ Figures'
             /\ \A d \in Clients : wants'[d] > 0 /\ d \notin stale' =>
                  wants'[d] = wants[d] /\ d \notin stale
  BY <1>1, <1>2, <1>4 DEF CancelResting, Figures, checks
<1>5. ChecksHold' /\ ChecksKeepUndelivered' /\ Figures'
  BY <1>2, <1>3, <1>4, Covered
<1> QED
  BY <1>2, <1>5, RowsStay, SquareOffStays, SettleInvParts

\* A resting order that fills is not checked again.
LEMMA FillRestingKeeps ==
  ASSUME SettleInv, NEW o \in RestingIds, NEW q \in Quantities, FillResting(o, q)
  PROVE  SettleInv'
<1>1. Figures /\ q \in Nat
  BY Numbers DEF SettleInv
<1>2. /\ UNCHANGED <<day, due, owed, scaled, wants, intradayVars>>
      /\ Excuse(owed, scaled) /\ stale' = {c \in Clients : wants'[c] > 0}
      /\ shares' \in Nat /\ resting' \in [RestingIds -> Nat] /\ stale' \subseteq Clients
  BY <1>1 DEF FillResting, Pass, Figures
<1>3. behind' \in Nat /\ ChecksHold' /\ ChecksKeepUndelivered'
  BY <1>2, Unchecked
<1>4. Figures'
  BY <1>1, <1>2, <1>3 DEF Figures
<1> QED
  BY <1>2, <1>3, <1>4, RowsStay, SquareOffStays, SettleInvParts

\* An intraday buy adds shares.
LEMMA BuyIntradayKeeps ==
  ASSUME SettleInv, NEW q \in Quantities, BuyIntraday(q)
  PROVE  SettleInv'
<1>1. /\ UNCHANGED <<day, due, owed, scaled, resting, wants, stale, target, squared, sold,
                     failed, behind>>
      /\ shares' = shares + q /\ intraday' = intraday + q /\ Recorded(q)
      /\ late' = IF squared \/ target > 0 THEN late + q ELSE late
  BY DEF BuyIntraday, checks
<1>2. Figures /\ Counts /\ q \in Nat
  BY Numbers DEF SettleInv
<1>3. /\ NetFits' /\ intraday' \in Int /\ counted' \in Int
      /\ sliced' \in [SlicedIds -> Int]
      /\ missed' \in Nat /\ missed' >= missed /\ extra' \in Nat /\ extra' >= extra
  BY <1>1, <1>2, RecordedFits
<1>4. Flags'
  BY <1>1, TypeParts, Zenon DEF SettleInv, Flags
<1>5. Counts' /\ Figures'
  BY <1>1, <1>2, <1>3 DEF Counts, Figures
<1>6. ChecksHold' /\ ChecksKeepUndelivered'
  BY <1>1, <1>2, Covered DEF Figures
<1>7. TargetFits' /\ SquareOffCloses'
  <2>1. late' \in {late, late + q} /\ (target > 0 \/ squared => late' = late + q)
    BY <1>1, Zenon
  <2>2. /\ q \in Int /\ late' >= late /\ sold' >= sold /\ sold' >= sold - q
        /\ late' = late + q => late' >= late + q
    BY <1>1, <1>2, <2>1 DEF Counts
  <2>3. target > 0 \/ squared => late' >= late + q
    BY <2>1, <2>2, Zenon
  <2> QED
    BY <1>1, <1>3, <1>5, <2>2, <2>3, TargetStays
<1> QED
  BY <1>1, <1>3, <1>4, <1>5, <1>6, <1>7, RowsStay, SettleInvParts DEF SquareOffInv

\* An intraday sell is not checked.
LEMMA SellIntradayKeeps ==
  ASSUME SettleInv, NEW q \in Quantities, SellIntraday(q)
  PROVE  SettleInv'
<1>1. /\ UNCHANGED <<day, due, owed, scaled, resting, wants, target, squared, late,
                     failed>>
      /\ q <= shares /\ shares' = shares - q
      /\ intraday' = intraday - q /\ Recorded(-q) /\ sold' = sold + q
      /\ Excuse(owed, scaled) /\ stale' = {c \in Clients : wants'[c] > 0}
  BY DEF SellIntraday, Pass
<1>2. Figures /\ Counts /\ q \in Nat
  BY Numbers DEF SettleInv
<1>3. /\ NetFits' /\ intraday' \in Int /\ counted' \in Int
      /\ sliced' \in [SlicedIds -> Int]
      /\ missed' \in Nat /\ missed' >= missed /\ extra' \in Nat /\ extra' >= extra
  <2>1. -q \in Int /\ intraday' = intraday + (-q)
    BY <1>1, <1>2 DEF Counts
  <2> QED
    BY <1>1, <2>1, RecordedFits
<1>4. Flags'
  BY <1>1, TypeParts, Zenon DEF SettleInv, Flags
<1>5. shares' \in Nat
  BY <1>1, <1>2 DEF Figures
<1>6. behind' \in Nat /\ ChecksHold' /\ ChecksKeepUndelivered'
  BY <1>1, <1>5, Unchecked
<1>7. Counts' /\ Figures'
  BY <1>1, <1>2, <1>3, <1>5, <1>6 DEF Counts, Figures
<1>8. TargetFits' /\ SquareOffCloses'
  <2> DEFINE n == -q
  <2>1. n \in Int /\ intraday' = intraday + n
    BY <1>1, <1>2 DEF Counts
  <2>2. /\ late' >= late /\ late' >= late + n /\ missed' >= missed
        /\ sold' >= sold /\ sold' >= sold - n /\ extra' >= extra
    BY <1>1, <1>2, <1>3 DEF Counts
  <2> HIDE DEF n
  <2> QED
    BY <1>1, <1>7, <2>1, <2>2, TargetStays
<1> QED
  BY <1>1, <1>3, <1>4, <1>6, <1>7, <1>8, RowsStay, SettleInvParts DEF SquareOffInv

\* The slices of an order that is cancelled are not counted any longer.
LEMMA CancelSlicedKeeps ==
  ASSUME SettleInv, NEW o \in SlicedIds, CancelSliced(o)
  PROVE  SettleInv'
<1> DEFINE s == sliced[o]
<1>1. /\ UNCHANGED <<day, shares, due, owed, scaled, resting, wants, stale, behind>>
      /\ UNCHANGED <<intraday, target, squared, late, sold, failed>>
      /\ counted' = counted - s /\ Uncounted(s)
      /\ sliced' = [sliced EXCEPT ![o] = 0]
  BY DEF CancelSliced, position, checks, squareOff
<1>2. Figures /\ Counts /\ s \in Int
  BY Numbers DEF SettleInv, Counts
<1>3. sliced' \in [SlicedIds -> Int]
  BY <1>1, <1>2 DEF Counts
<1> HIDE DEF s
<1>4. /\ missed' \in Nat /\ missed' >= missed /\ missed' >= missed + s
      /\ extra' \in Nat /\ extra' >= extra /\ extra' >= extra - s
  BY <1>1, <1>2, UncountedFits DEF Counts
<1>5. Flags'
  BY <1>1, TypeParts, Zenon DEF SettleInv, Flags
<1>6. Counts' /\ Figures'
  BY <1>1, <1>2, <1>3, <1>4 DEF Counts, Figures
<1>7. ChecksHold' /\ ChecksKeepUndelivered'
  BY <1>1, <1>2, Covered DEF Figures
<1>8. NetFits' /\ TargetFits' /\ SquareOffCloses'
  <2>1. NetFits'
    BY <1>1, <1>2, <1>4 DEF SettleInv, NetFits, Counts
  <2>2. 0 \in Int /\ intraday' = intraday + 0
    BY <1>1, <1>2 DEF Counts
  <2>3. /\ late' >= late /\ late' >= late + 0 /\ missed' >= missed
        /\ sold' >= sold /\ sold' >= sold - 0 /\ extra' >= extra
    BY <1>1, <1>2, <1>4 DEF Counts
  <2> QED
    BY <1>1, <1>6, <2>1, <2>2, <2>3, TargetStays
<1> QED
  BY <1>1, <1>5, <1>6, <1>7, <1>8, RowsStay, SettleInvParts DEF SquareOffInv

\* A split moves what is open intraday by n shares, which no order knows.
LEMMA SplitNotes ==
  ASSUME SettleInv, NEW n \in Int, intraday' = intraday + n, Uncounted(n),
         UNCHANGED <<counted, sliced, squareOff>>
  PROVE  Flags' /\ Counts' /\ SquareOffInv'
<1>1. /\ UNCHANGED <<counted, sliced, target, squared, late, sold, failed>>
      /\ Counts /\ Flags
  BY Numbers, TypeParts DEF SettleInv, squareOff
<1>2. /\ missed' \in Nat /\ missed' >= missed /\ missed' >= missed + n
      /\ extra' \in Nat /\ extra' >= extra /\ extra' >= extra - n
  BY <1>1, UncountedFits DEF Counts
<1>3. Flags'
  BY <1>1, Zenon DEF Flags
<1>4. Counts'
  BY <1>1, <1>2 DEF Counts
<1>5. late' >= late /\ sold' >= sold
  BY <1>1 DEF Counts
<1>6. TargetFits' /\ SquareOffCloses'
  BY <1>1, <1>2, <1>4, <1>5, TargetStays
<1>7. NetFits'
  BY <1>1, <1>2 DEF SettleInv, NetFits, Counts
<1> QED
  BY <1>3, <1>4, <1>6, <1>7 DEF SquareOffInv

\* Twice as many shares are there and owed, of which the rows know half.
LEMMA SplitTwoForOneKeeps ==
  ASSUME SettleInv, SplitTwoForOne,
         UNCHANGED <<day, due, resting, wants, counted, sliced, squareOff>>
  PROVE  SettleInv'
<1>1. /\ shares' = 2 * shares /\ UNCHANGED <<stale, behind>>
      /\ owed' = [d \in SettleDays |-> 2 * owed[d]]
      /\ scaled' = [d \in SettleDays |-> scaled[d] + owed[d]]
      /\ intraday' = 2 * intraday /\ Uncounted(intraday)
  BY DEF SplitTwoForOne
<1>2. /\ Figures /\ Counts /\ \A c \in Clients : wants[c] \in Nat
      /\ InFlight(owed) \in Nat /\ InFlight(scaled) \in Nat
  BY Numbers DEF SettleInv
<1>3. owed' \in Rows /\ scaled' \in Rows
  BY <1>1, <1>2 DEF Figures, Rows
<1>4. InFlight(owed)' = 2 * InFlight(owed)
  <2>1. \A d \in SettleDays : owed'[d] = owed[d] + owed[d]
    BY <1>1, <1>2 DEF Figures, Rows
  <2>2. InFlight(owed') = InFlight(owed) + InFlight(owed)
    BY <1>2, <2>1, FlightAdds DEF Figures
  <2>3. InFlight(owed)' = InFlight(owed')
    BY DEF InFlight
  <2> QED
    BY <1>2, <2>2, <2>3
<1>5. InFlight(scaled)' = InFlight(scaled) + InFlight(owed)
  <2>1. \A d \in SettleDays : scaled'[d] = scaled[d] + owed[d]
    BY <1>1
  <2>2. InFlight(scaled') = InFlight(scaled) + InFlight(owed)
    BY <1>2, <2>1, FlightAdds DEF Figures
  <2>3. InFlight(scaled)' = InFlight(scaled')
    BY DEF InFlight
  <2> QED
    BY <2>2, <2>3
<1>6. Figures'
  BY <1>1, <1>2, <1>3 DEF Figures
<1>7. RowsCover'
  <2>1. ASSUME NEW d \in SettleDays
        PROVE  /\ scaled'[d] <= owed'[d]
               /\ d > day => owed'[d] <= due[d] + scaled'[d]
               /\ d <= day => owed'[d] = 0
    <3>1. owed[d] \in Nat /\ scaled[d] \in Nat /\ due[d] \in Nat
      BY <1>2 DEF Figures, Rows
    <3>2. owed'[d] = owed[d] + owed[d] /\ scaled'[d] = scaled[d] + owed[d]
      BY <1>1, <3>1
    <3>3. /\ scaled[d] <= owed[d] /\ (d > day => owed[d] <= due[d] + scaled[d])
          /\ d <= day => owed[d] = 0
      BY DEF SettleInv, RowsCover
    <3> QED
      BY <3>1, <3>2, <3>3
  <2> QED
    BY <2>1 DEF RowsCover
<1>8. ChecksHold'
  <2>1. ASSUME NEW c \in Clients, wants[c] > 0, c \notin stale
        PROVE  wants[c] <= 2 * shares + (InFlight(scaled) + InFlight(owed))
                             - 2 * InFlight(owed)
    <3>1. wants[c] <= shares + InFlight(scaled) - InFlight(owed)
      BY <2>1 DEF SettleInv, ChecksHold
    <3> QED
      BY <1>2, <3>1 DEF Figures
  <2> QED
    BY <1>1, <1>4, <1>5, <2>1 DEF ChecksHold
<1>9. ChecksKeepUndelivered'
  <2>1. InFlight(owed) <= shares + behind + InFlight(scaled)
    BY DEF SettleInv, ChecksKeepUndelivered
  <2>2. 2 * InFlight(owed) <= 2 * shares + behind + (InFlight(scaled) + InFlight(owed))
    BY <1>2, <2>1 DEF Figures
  <2> QED
    BY <1>1, <1>4, <1>5, <2>2 DEF ChecksKeepUndelivered
<1>10. intraday \in Int /\ intraday' = intraday + intraday
  BY <1>1, <1>2 DEF Counts
<1>11. Flags' /\ Counts' /\ SquareOffInv'
  BY <1>1, <1>10, SplitNotes
<1> QED
  BY <1>6, <1>7, <1>8, <1>9, <1>11, SettleInvParts

\* Half the shares are there and owed, and every check is stale.
LEMMA SplitOneForTwoKeeps ==
  ASSUME SettleInv, SplitOneForTwo,
         UNCHANGED <<day, due, resting, wants, counted, sliced, squareOff>>
  PROVE  SettleInv'
<1>1. /\ shares' = shares \div 2
      /\ owed' = [d \in SettleDays |-> owed[d] \div 2]
      /\ scaled' = [d \in SettleDays |->
           IF scaled[d] > owed[d] \div 2 THEN owed[d] \div 2 ELSE scaled[d]]
      /\ intraday' = intraday \div 2 /\ Uncounted(intraday' - intraday)
      /\ Excuse(owed', scaled') /\ stale' = {c \in Clients : wants[c] > 0}
  BY DEF SplitOneForTwo, Pass
<1>2. Figures /\ Counts
  BY Numbers DEF SettleInv
<1>3. \A n \in Nat : n \div 2 \in Nat /\ n \div 2 <= n
  OBVIOUS
<1>4. /\ shares' \in Nat /\ owed' \in Rows /\ scaled' \in Rows
      /\ stale' \subseteq Clients
  BY <1>1, <1>2, <1>3 DEF Figures, Rows
<1>5. /\ behind' \in Nat
      /\ InFlight(owed') <= shares' + behind' + InFlight(scaled')
  BY <1>1, <1>4, FlightIsNat, ExcuseCovers DEF SettleInv
<1>6. Figures'
  BY <1>2, <1>4, <1>5 DEF Figures
<1>7. RowsCover'
  <2>1. ASSUME NEW d \in SettleDays
        PROVE  /\ scaled'[d] <= owed'[d]
               /\ d > day => owed'[d] <= due[d] + scaled'[d]
               /\ d <= day => owed'[d] = 0
    <3>1. owed[d] \in Nat /\ scaled[d] \in Nat /\ due[d] \in Nat
      BY <1>2 DEF Figures, Rows
    <3>2. owed'[d] \in Nat /\ owed'[d] <= owed[d]
      BY <1>1, <1>3, <3>1
    <3>3. scaled'[d] = IF scaled[d] > owed'[d] THEN owed'[d] ELSE scaled[d]
      BY <1>1
    <3>4. /\ d > day => owed[d] <= due[d] + scaled[d]
          /\ d <= day => owed[d] = 0
      BY DEF SettleInv, RowsCover
    <3> DEFINE o == owed'[d]
               s == scaled'[d]
    <3>5. /\ o \in Nat /\ o <= owed[d]
          /\ s = IF scaled[d] > o THEN o ELSE scaled[d]
      BY <3>2, <3>3
    <3> HIDE DEF o, s
    <3>6. /\ s <= o /\ (d > day => o <= due[d] + s) /\ (d <= day => o = 0)
      BY <3>1, <3>4, <3>5
    <3> QED
      BY <3>6 DEF o, s
  <2> QED
    BY <2>1 DEF RowsCover
<1>8. ChecksHold'
  BY <1>1 DEF ChecksHold
<1>9. ChecksKeepUndelivered'
  BY <1>5 DEF ChecksKeepUndelivered, InFlight
<1>10. Flags' /\ Counts' /\ SquareOffInv'
  <2> DEFINE n == intraday' - intraday
  <2>1. n \in Int /\ intraday' = intraday + n
    BY <1>1, <1>2 DEF Counts
  <2>2. Uncounted(n)
    BY <1>1
  <2> HIDE DEF n
  <2> QED
    BY <2>1, <2>2, SplitNotes
<1> QED
  BY <1>6, <1>7, <1>8, <1>9, <1>10, SettleInvParts

\* A new account owes nothing; what the square-off has read has gone with the
\* old one.
LEMMA ResetKeeps ==
  ASSUME SettleInv, Reset
  PROVE  SettleInv'
<1>1. /\ shares' = 0 /\ owed' = Nothing /\ scaled' = Nothing /\ behind' = 0
      /\ resting' = [o \in RestingIds |-> 0]
      /\ stale' = {c \in Clients : wants[c] > 0}
      /\ intraday' = 0 /\ counted' = 0 /\ sliced' = NoSlices
      /\ missed' = 0 /\ extra' = 0 /\ late' = 0 /\ sold' = target
      /\ UNCHANGED <<day, due, wants, target, squared, failed>>
  BY DEF Reset, Pass
<1>2. Figures /\ Counts /\ day \in Nat /\ SettleDays \subseteq Nat
  BY Numbers DEF SettleInv
<1>3. Flags'
  BY <1>1, TypeParts, Zenon DEF SettleInv, Flags
<1>4. Counts'
  BY <1>1, <1>2 DEF Counts, NoSlices
<1>5. owed' \in Rows /\ scaled' \in Rows
  BY <1>1 DEF Nothing, Rows
<1>6. Figures'
  BY <1>1, <1>2, <1>5 DEF Figures
<1>7. RowsCover'
  BY <1>1, <1>2 DEF RowsCover, Nothing, Figures, Rows
<1>8. ChecksHold'
  BY <1>1 DEF ChecksHold
<1>9. InFlight(owed)' = 0 /\ InFlight(scaled)' = 0
  <2> DEFINE none == Nothing
  <2>1. \A d \in LaterDays' : none[d] = 0
    BY DEF Nothing, LaterDays
  <2> HIDE DEF none
  <2>2. SumFunctionOnSet(none, LaterDays') = 0
    BY <2>1, LaterDaysFinite, SumOfZeros
  <2>3. InFlight(owed)' = SumFunctionOnSet(none, LaterDays')
        /\ InFlight(scaled)' = SumFunctionOnSet(none, LaterDays')
    BY <1>1, Zenon DEF InFlight, LaterDays, none
  <2> QED
    BY <2>2, <2>3
<1>10. ChecksKeepUndelivered'
  BY <1>1, <1>9 DEF ChecksKeepUndelivered
<1>11. NetFits'
  BY <1>1 DEF NetFits
<1>12. TargetFits' /\ SquareOffCloses'
  <2>1. target' = target /\ (target' > 0 => ~squared')
    BY <1>1, Zenon DEF SettleInv, TargetFits
  <2>2. 0 - target <= 0 + 0 /\ target - 0 <= target + 0 /\ 0 <= 0 + 0
        /\ 0 + target + 0 >= 0
    BY <1>2 DEF Counts
  <2>3. TargetFits'
    BY <1>1, <2>1, <2>2, Zenon DEF TargetFits
  <2>4. SquareOffCloses'
    BY <1>1, <2>2, Zenon DEF SquareOffCloses
  <2> QED
    BY <2>3, <2>4
<1> QED
  BY <1>3, <1>4, <1>6, <1>7, <1>8, <1>10, <1>11, <1>12, SettleInvParts DEF SquareOffInv

\* Rows of days that have come go; nothing of them is in flight.
LEMMA SettleDueKeeps ==
  ASSUME SettleInv, SettleDue
  PROVE  SettleInv'
<1>1. /\ UNCHANGED <<day, shares, owed, scaled, resting, wants, stale, intradayVars, behind>>
      /\ due' = [d \in SettleDays |-> IF d <= day THEN 0 ELSE due[d]]
  BY DEF SettleDue, checks
<1>2. Figures /\ day \in Nat /\ SettleDays \subseteq Nat
  BY Numbers DEF SettleInv
<1>3. Figures'
  BY <1>1, <1>2 DEF Figures, Rows
<1>4. RowsCover'
  BY <1>1, <1>2 DEF SettleInv, RowsCover, Figures, Rows
<1>5. ChecksHold' /\ ChecksKeepUndelivered'
  BY <1>1, <1>2, Covered DEF Figures
<1> QED
  BY <1>1, <1>3, <1>4, <1>5, SquareOffStays, SettleInvParts

\* The net that is read is what is open but for what is missed.
LEMMA ReadNetKeeps ==
  ASSUME SettleInv, ReadNet
  PROVE  SettleInv'
<1>1. /\ UNCHANGED <<day, shares, due, owed, scaled, resting, wants, stale, behind>>
      /\ UNCHANGED <<intraday, counted, sliced, missed, extra, failed>>
      /\ late' = 0 /\ sold' = Positive(-intraday)
      /\ ~squared /\ target = 0
      /\ \/ counted > 0 /\ target' = counted /\ squared' = squared
         \/ counted <= 0 /\ target' = 0 /\ squared' = TRUE
  BY DEF ReadNet, position, checks, net
<1>2. Figures /\ Counts /\ NetFits
  BY Numbers DEF SettleInv
<1>3. Flags'
  BY <1>1, TypeParts, Zenon DEF SettleInv, Flags
<1>4. /\ Positive(-intraday) \in Nat /\ intraday + Positive(-intraday) >= 0
      /\ counted > 0 => counted \in Nat
  BY <1>2 DEF Positive, Counts
<1>5. target' \in Nat
  BY <1>1, <1>4
<1>6. Counts'
  BY <1>1, <1>2, <1>4, <1>5 DEF Counts
<1>7. Figures'
  BY <1>1, <1>2 DEF Figures
<1>8. ChecksHold' /\ ChecksKeepUndelivered'
  BY <1>1, <1>2, Covered DEF Figures
<1>9. NetFits'
  BY <1>1, <1>2 DEF NetFits
<1> DEFINE p == Positive(-intraday)
<1>10. /\ intraday - counted <= 0 + missed /\ counted - intraday <= p + extra
       /\ counted <= 0 => intraday <= 0 + missed
       /\ intraday + p + extra >= 0
  <2>1. p \in Nat /\ intraday + p >= 0
    BY <1>4
  <2> HIDE DEF p
  <2> QED
    BY <1>2, <2>1 DEF NetFits, Counts
<1>11. TargetFits'
  <2>1. target' > 0 => target' = counted /\ ~squared'
    BY <1>1
  <2> QED
    BY <1>1, <1>10, <2>1, Zenon DEF TargetFits
<1>12. SquareOffCloses'
  <2>1. squared' => counted <= 0
    BY <1>1
  <2> QED
    BY <1>1, <1>10, <2>1, Zenon DEF SquareOffCloses
<1> QED
  BY <1>1, <1>3, <1>6, <1>7, <1>8, <1>9, <1>11, <1>12, RowsStay, SettleInvParts
     DEF SquareOffInv

\* The square-off is not checked against what is delivered.
LEMMA SquareOffKeeps ==
  ASSUME SettleInv, SquareOff
  PROVE  SettleInv'
<1>1. /\ UNCHANGED <<day, due, owed, scaled, resting, wants, sliced, missed, extra, late, sold>>
      /\ target > 0 /\ target' = 0 /\ squared' = TRUE
  BY DEF SquareOff
<1>2. Figures /\ Counts /\ NetFits
  BY Numbers DEF SettleInv
<1>3. /\ ~squared /\ intraday - target <= late + missed
      /\ target - intraday <= sold + extra
  BY <1>1 DEF SettleInv, TargetFits
<1>4. ASSUME target <= shares, shares' = shares - target,
             intraday' = intraday - target, counted' = counted - target,
             Excuse(owed, scaled), Pass, failed' = failed
      PROVE  SettleInv'
  <2>1. shares' \in Nat /\ intraday' \in Int /\ counted' \in Int
    BY <1>2, <1>4 DEF Figures, Counts
  <2>2. stale' = {c \in Clients : wants'[c] > 0} /\ stale' \subseteq Clients
    BY <1>1, <1>4 DEF Pass
  <2>3. behind' \in Nat /\ ChecksHold' /\ ChecksKeepUndelivered'
    BY <1>1, <1>4, <2>1, <2>2, Unchecked
  <2>4. Figures' /\ Counts'
    BY <1>1, <1>2, <2>1, <2>2, <2>3 DEF Figures, Counts
  <2>5. Flags'
    BY <1>1, <1>4, TypeParts, Zenon DEF SettleInv, Flags
  <2>6. NetFits'
    BY <1>1, <1>2, <1>4 DEF NetFits, Counts
  <2>7. intraday - target <= late + missed /\ (intraday - target) + sold + extra >= 0
    BY <1>2, <1>3 DEF Counts
  <2>8. SquareOffCloses'
    BY <1>1, <1>4, <2>7, Zenon DEF SquareOffCloses
  <2>9. TargetFits'
    BY <1>1 DEF TargetFits
  <2> QED
    BY <1>1, <2>3, <2>4, <2>5, <2>6, <2>8, <2>9, RowsStay, SettleInvParts
       DEF SquareOffInv
<1>5. ASSUME failed' = TRUE, UNCHANGED <<shares, intraday, counted, stale, behind>>
      PROVE  SettleInv'
  <2>1. shares' \in Nat /\ shares' >= shares
    BY <1>2, <1>5 DEF Figures
  <2>2. ChecksHold' /\ ChecksKeepUndelivered'
    BY <1>1, <1>5, <2>1, Covered
  <2>3. Figures' /\ Counts'
    BY <1>1, <1>2, <1>5 DEF Figures, Counts
  <2>4. Flags'
    BY <1>1, <1>5, Zenon DEF Flags
  <2>5. NetFits'
    BY <1>1, <1>2, <1>5 DEF NetFits
  <2>6. intraday + sold + extra >= 0
    BY DEF SettleInv, SquareOffCloses
  <2>7. SquareOffCloses'
    BY <1>1, <1>5, <2>6, Zenon DEF SquareOffCloses
  <2>8. TargetFits'
    BY <1>1 DEF TargetFits
  <2> QED
    BY <1>1, <2>2, <2>3, <2>4, <2>5, <2>7, <2>8, RowsStay, SettleInvParts
       DEF SquareOffInv
<1> QED
  BY <1>4, <1>5 DEF SquareOff

\* A new watcher has nothing to square off yet.
LEMMA RestartKeeps ==
  ASSUME SettleInv, Restart
  PROVE  SettleInv'
<1>1. /\ UNCHANGED <<day, shares, due, owed, scaled, resting, wants, stale, behind>>
      /\ UNCHANGED <<intraday, counted, sliced, missed, extra, late, sold, failed>>
      /\ squared' = FALSE /\ target' = 0
  BY DEF Restart, position, checks, net
<1>2. Figures /\ Counts /\ NetFits
  BY Numbers DEF SettleInv
<1>3. Flags'
  BY <1>1, TypeParts, Zenon DEF SettleInv, Flags
<1>4. Figures' /\ Counts'
  BY <1>1, <1>2 DEF Figures, Counts
<1>5. ChecksHold' /\ ChecksKeepUndelivered'
  BY <1>1, <1>2, Covered DEF Figures
<1>6. NetFits' /\ TargetFits'
  BY <1>1, <1>2 DEF NetFits, TargetFits
<1>7. intraday + sold + extra >= 0
  BY DEF SettleInv, SquareOffCloses
<1>8. SquareOffCloses'
  BY <1>1, <1>7, Zenon DEF SquareOffCloses
<1> QED
  BY <1>1, <1>3, <1>4, <1>5, <1>6, <1>8, RowsStay, SettleInvParts DEF SquareOffInv

\* A day's rows are delivered, and with them no less than splits have added
\* to them.
LEMMA NextDayKeeps ==
  ASSUME SettleInv, NextDay
  PROVE  SettleInv'
<1>1. /\ day < LastDate /\ day' = day + 1
      /\ owed' = [owed EXCEPT ![day + 1] = 0] /\ scaled' = [scaled EXCEPT ![day + 1] = 0]
      /\ UNCHANGED <<shares, due, resting, wants, stale, target>> /\ target = 0
      /\ intraday' = 0 /\ counted' = 0 /\ sliced' = NoSlices
      /\ missed' = 0 /\ extra' = 0 /\ late' = 0 /\ sold' = 0
      /\ squared' = FALSE /\ failed' = FALSE
      /\ behind' = IF behind > InFlight(owed)' THEN InFlight(owed)' ELSE behind
  BY DEF NextDay, checks
<1>2. /\ Figures /\ Counts /\ day \in Nat /\ SettleDays \subseteq Nat
      /\ \A c \in Clients : wants[c] \in Nat
      /\ InFlight(owed) \in Nat /\ InFlight(scaled) \in Nat
  BY Numbers DEF SettleInv
<1> DEFINE F(f) == SumFunctionOnSet(f, LaterDays')
           a == owed[day + 1]
           b == scaled[day + 1]
           O == InFlight(owed)'
           S == InFlight(scaled)'
<1>3. O = F(owed') /\ S = F(scaled')
  BY DEF InFlight, LaterDays
<1>4. /\ day + 1 \in SettleDays
      /\ O \in Nat /\ O = InFlight(owed) - a /\ S \in Nat /\ S = InFlight(scaled) - b
  <2>1. day + 1 \in SettleDays /\ F(owed') \in Nat /\ F(owed') = InFlight(owed) - a
    BY <1>1, <1>2, DeliveryEndsFlight DEF SettleInv, Figures
  <2>2. F(scaled') \in Nat /\ F(scaled') = InFlight(scaled) - b
    BY <1>1, <1>2, DeliveryEndsFlight DEF SettleInv, Figures
  <2> HIDE DEF F
  <2> QED
    BY <1>3, <2>1, <2>2
<1>5. a \in Nat /\ b \in Nat /\ b <= a
  BY <1>2, <1>4 DEF SettleInv, RowsCover, Figures, Rows
<1> HIDE DEF F, a, b, O, S
<1>6. behind' = IF behind > O THEN O ELSE behind
  BY <1>1 DEF O
<1>7. behind' \in Nat
  BY <1>2, <1>4, <1>6 DEF Figures
<1>8. Figures'
  <2>1. day' \in 0..LastDate
    BY <1>1, <1>2, SettlementAssumption DEF SettlementAssumption
  <2>2. owed' \in Rows /\ scaled' \in Rows
    BY <1>1, <1>2 DEF Figures, Rows
  <2> QED
    BY <1>1, <1>2, <1>7, <2>1, <2>2 DEF Figures
<1>9. Flags' /\ Counts'
  <2>1. Flags'
    BY <1>1, Zenon DEF Flags
  <2>2. Counts'
    BY <1>1 DEF Counts, NoSlices
  <2> QED
    BY <2>1, <2>2
<1>10. RowsCover'
  <2>1. \A d \in SettleDays :
          /\ owed'[d] = IF d = day + 1 THEN 0 ELSE owed[d]
          /\ scaled'[d] = IF d = day + 1 THEN 0 ELSE scaled[d]
    BY <1>1, <1>2 DEF Figures, Rows
  <2>2. ASSUME NEW d \in SettleDays
        PROVE  /\ scaled'[d] <= owed'[d]
               /\ d > day + 1 => owed'[d] <= due[d] + scaled'[d]
               /\ d <= day + 1 => owed'[d] = 0
    BY <1>2, <2>1 DEF SettleInv, RowsCover, Figures, Rows
  <2> QED
    BY <1>1, <2>2 DEF RowsCover
<1>11. ChecksHold'
  <2>1. ASSUME NEW c \in Clients, wants[c] > 0, c \notin stale
        PROVE  wants[c] <= shares + S - O
    <3>1. wants[c] <= shares + InFlight(scaled) - InFlight(owed)
      BY <2>1 DEF SettleInv, ChecksHold
    <3> QED
      BY <1>2, <1>4, <1>5, <3>1 DEF Figures
  <2> QED
    BY <1>1, <2>1 DEF ChecksHold, O, S
<1>12. ChecksKeepUndelivered'
  <2>1. InFlight(owed) <= shares + behind + InFlight(scaled)
    BY DEF SettleInv, ChecksKeepUndelivered
  <2> DEFINE k == behind'
  <2>2. k = IF behind > O THEN O ELSE behind
    BY <1>6
  <2> HIDE DEF k
  <2>3. O <= shares + k + S
    BY <1>2, <1>4, <1>5, <2>1, <2>2 DEF Figures
  <2> QED
    BY <1>1, <2>3 DEF ChecksKeepUndelivered, O, S, k
<1>13. SquareOffInv'
  BY <1>1 DEF SquareOffInv, NetFits, TargetFits, SquareOffCloses
<1> QED
  BY <1>8, <1>9, <1>10, <1>11, <1>12, <1>13, SettleInvParts

\* Every step keeps it.
LEMMA SettleInvStep == SettleInv /\ [SettleNext]_settleVars => SettleInv'
<1> SUFFICES ASSUME SettleInv, [SettleNext]_settleVars PROVE SettleInv'
  OBVIOUS
<1>1. CASE UNCHANGED settleVars
  <2>1. /\ UNCHANGED intradayVars
        /\ UNCHANGED <<day, due, owed, scaled, resting, behind, shares, wants, stale>>
    BY <1>1 DEF settleVars, position, checks
  <2>2. Figures
    BY Numbers DEF SettleInv
  <2>3. Figures' /\ shares' >= shares
    BY <2>1, <2>2 DEF Figures
  <2>4. ChecksHold' /\ ChecksKeepUndelivered'
    BY <2>1, <2>3, Covered DEF Figures
  <2> QED
    BY <2>1, <2>3, <2>4, SquareOffStays, RowsStay, SettleInvParts
<1>2. ASSUME NEW q \in Quantities,
             \/ Buy(q) \/ BuyIntraday(q) \/ SellIntraday(q)
             \/ \E o \in RestingIds : EnterBracket(q, o) \/ FillResting(o, q)
             \/ \E c \in Clients : CheckSell(c, q)
      PROVE  SettleInv'
  BY <1>2, BuyKeeps, BuyIntradayKeeps, SellIntradayKeeps, FillRestingKeeps, CheckSellKeeps
<1>3. ASSUME NEW c \in Clients, Sell(c) \/ \E o \in RestingIds : Rest(c, o)
      PROVE  SettleInv'
  BY <1>3, SellKeeps, RestKeeps
<1>4. ASSUME \/ \E o \in RestingIds : CancelResting(o)
             \/ \E o \in SlicedIds : CancelSliced(o)
      PROVE  SettleInv'
  BY <1>4, RestKeeps, CancelSlicedKeeps
<1>5. ASSUME Split PROVE SettleInv'
  BY <1>5, SplitTwoForOneKeeps, SplitOneForTwoKeeps DEF Split
<1>6. ASSUME Reset \/ SettleDue \/ ReadNet \/ SquareOff \/ Restart \/ NextDay
      PROVE  SettleInv'
  BY <1>6, ResetKeeps, SettleDueKeeps, ReadNetKeeps, SquareOffKeeps, RestartKeeps,
     NextDayKeeps
<1> QED
  BY <1>1, <1>2, <1>3, <1>4, <1>5, <1>6 DEF SettleNext

\* Rows, clients and the square-off stay well typed.
THEOREM SettlementTypeOK == SettleSpec => []SettleTypeOK
<1>1. SettleInv => SettleTypeOK
  BY DEF SettleInv
<1> QED
  BY <1>1, SettleInvInit, SettleInvStep, PTL DEF SettleSpec

\* Undelivered shares are only sold without a check, behind one that was
\* overtaken, or because a split has added them, which the rows do not know
\* (settlement.py 273-300, submit.py 363-385, splits.py 83): for any number of
\* clients, resting orders and brackets.
THEOREM SettlementChecksKeepUndelivered == SettleSpec => []ChecksKeepUndelivered
<1>1. SettleInv => ChecksKeepUndelivered
  BY DEF SettleInv
<1> QED
  BY <1>1, SettleInvInit, SettleInvStep, PTL DEF SettleSpec

\* The square-off leaves of what is open intraday only what the sum over the
\* orders does not show and what was bought meanwhile, and sells too much by no
\* more than is not shown and was sold meanwhile, also when it runs again after
\* a restart (state.py 499-533, limit_orders.py 223-239).
THEOREM SettlementSquareOffCloses == SettleSpec => []SquareOffCloses
<1>1. SettleInv => SquareOffCloses
  BY DEF SettleInv
<1> QED
  BY <1>1, SettleInvInit, SettleInvStep, PTL DEF SettleSpec

-----------------------------------------------------------------------------
(****************************************************************************)
(* Session, for any calendar, any number of orders and days: DAY orders     *)
(* that have not traded die before a later session, AMOs are tried in each  *)
(* and after its auction, and next_open is the next open.                   *)
(*                                                                          *)
(* All of it but the last rests on a watcher that is punctual: a tick then  *)
(* goes on for one slot more than the one it began in, at most (TickTime),  *)
(* so that the day and the phase it read still say something when it acts   *)
(* on them (PhaseRead).  What a flag says of the day that it was set on is  *)
(* FlagsTell, what a tick has done or found done on its way is StagesDone.  *)
(* DAY orders of earlier days that have not traded go in the night of a     *)
(* trading day, whatever the watcher missed the day before (NightCleans).   *)
(* A work of the day that raises sets its flag all the same, and leaves a   *)
(* trace in the history raised, which those two invariants look at.         *)
(****************************************************************************)

\* Holidays are the bundled ones and those of at most one answer of the exchange,
\* and what the file holds is such an answer.
SourcesOnly ==
  /\ \E answer \in Published \cup {{}} : holidays = Bundled \cup answer
  /\ file = NoFile \/ file \in [rows : Published, age : Nat]

\* A tick's day is that of the slot it began in, this one or the one before; in
\* the latter case no tick has begun and ended in this one yet.
TickTime ==
  pc # "idle" =>
    /\ today = DayOf(began) /\ rolled = today
    /\ began \in {now, now - 1}
    /\ began # now => ~ticked

\* A phase that is not "closed" was that of a slot of the tick.
PhaseRead ==
  phase # "closed" =>
    /\ pc \notin {"idle", "phase"}
    /\ \E t \in {began, now} : SlotOf(t) = phase

\* The flags belong to the day that the watcher rolled to.
FlagsTell ==
  /\ rolled <= DayOf(now)
  /\ "auction" \in done => auctioned = rolled
  /\ "amo" \in done => 6 * rolled + OpenSlot <= now

\* What a tick has passed is done, or was not due in its phase; and a tick that
\* began in the session knows that the market is open.
StagesDone ==
  /\ pc = "amo" /\ phase = "regular" => "auction" \in done
  /\ pc \in {"expiry", "gate", "limits"} /\ phase = "regular" => "amo" \in done
  /\ pc \in {"gate", "limits"} /\ phase \in {"post_close", "closed"} =>
       "expiry" \in done
  /\ pc \notin {"idle", "phase"} /\ began = now /\ Open(now)
       /\ DayOf(now) \notin turned => phase = "regular"

\* The limits in hand are no AMOs.
HandsLimits == \A o \in todo : orders[o].tif # "AMO"

\* Once the night of a trading day has had a tick, or the day its expiry, no
\* DAY order of an earlier day is pending, unless that expiry raised.
NightCleans ==
  /\ now % 6 > 0 \/ ticked \/ ("expiry" \in done /\ rolled = DayOf(now))
  /\ IsTradingDay(DayOf(now)) /\ DayOf(now) \notin turned
  /\ <<"expiry", DayOf(now)>> \notin raised
  => \A o \in Pending({"DAY"}) : orders[o].made >= 6 * DayOf(now)

\* Once a session has had a tick, or its day the firing of AMOs, all that rested
\* before have been tried, unless that firing raised.
SessionTries ==
  /\ ticked \/ ("amo" \in done /\ rolled = DayOf(now))
  /\ Open(now) /\ DayOf(now) \notin turned
  /\ <<"amo", DayOf(now)>> \notin raised
  => \A o \in Pending({"AMO"}) :
       orders[o].made < now => orders[o].tried >= DayOf(now)

\* A session that is over was a regular slot.
SessionsPast == \A s \in sessions : s < now /\ s % 6 = OpenSlot

SessionInv ==
  /\ TypeOK /\ SourcesOnly /\ TickTime /\ PhaseRead /\ FlagsTell /\ StagesDone
  /\ HandsLimits /\ NightCleans /\ SessionTries /\ SessionsPast /\ AmosAreTried

-----------------------------------------------------------------------------
(* The clock *)

\* An instant is a slot of its day.
LEMMA Clock ==
  ASSUME NEW t \in Int
  PROVE  /\ DayOf(t) \in Int /\ t % 6 \in 0..5
         /\ t = 6 * DayOf(t) + (t % 6)
  BY DEF DayOf

\* Later instants are in later days, and the next one is the next slot.
LEMMA ClockGoesOn ==
  ASSUME NEW t \in Int
  PROVE  \/ t % 6 < 5 /\ DayOf(t + 1) = DayOf(t) /\ (t + 1) % 6 = (t % 6) + 1
         \/ t % 6 = 5 /\ DayOf(t + 1) = DayOf(t) + 1 /\ (t + 1) % 6 = 0
  BY DEF DayOf

\* Days of instants that are explored are explored.
LEMMA DayInDays ==
  ASSUME NEW t \in Instants
  PROVE  DayOf(t) \in Days /\ t \in Int /\ t >= 0 /\ DayOf(t) \in Int /\ DayOf(t) >= 0
<1>1. LastDay \in Nat
  BY CalendarAssumption DEF CalendarAssumption
<1> QED
  BY <1>1, Clock DEF Instants, Days

\* The slots by their numbers.
LEMMA SlotNumbers ==
  ASSUME NEW t \in Int
  PROVE  /\ SlotOf(t) = "pre_open" <=> t % 6 = 1
         /\ SlotOf(t) = "regular" <=> t % 6 = 3
         /\ SlotOf(t) = "post_close" <=> t % 6 = 4
<1>1. t % 6 \in 0..5
  BY Clock
<1>2. /\ Slots[1] = "night" /\ Slots[2] = "pre_open" /\ Slots[3] = "gap"
      /\ Slots[4] = "regular" /\ Slots[5] = "post_close" /\ Slots[6] = "evening"
  BY DEF Slots
<1>3. t % 6 \in {0, 1, 2, 3, 4, 5}
  BY <1>1
<1>4. ASSUME NEW k \in {0, 1, 2, 3, 4, 5}
      PROVE  /\ Slots[k + 1] = "pre_open" <=> k = 1
             /\ Slots[k + 1] = "regular" <=> k = 3
             /\ Slots[k + 1] = "post_close" <=> k = 4
  BY <1>2
<1> QED
  BY <1>3, <1>4 DEF SlotOf

\* What the phases say of the time.
LEMMA PhaseNumbers ==
  ASSUME NEW t \in Int
  PROVE  /\ Open(t) <=> IsTradingDay(DayOf(t)) /\ t % 6 = OpenSlot
         /\ PhaseAt(t) \in {"closed", "pre_open", "regular", "post_close"}
         /\ PhaseAt(t) # "closed" => SlotOf(t) = PhaseAt(t)
  BY SlotNumbers DEF Open, PhaseAt, OpenSlot

-----------------------------------------------------------------------------
(* Types *)

\* Resting orders only go, and only the firing of AMOs leaves a trace.
Fade ==
  /\ DOMAIN orders' = DOMAIN orders
  /\ \A o \in DOMAIN orders :
       /\ orders'[o].tif = orders[o].tif /\ orders'[o].made = orders[o].made
       /\ orders'[o].status = "pending" => orders[o].status = "pending"
       /\ orders'[o].tried \in {orders[o].tried, DayOf(now)}

\* Some orders trade.
LEMMA TradeFades ==
  ASSUME TypeOK, NEW S, Trade(S)
  PROVE  /\ Fade /\ orders' \in [DOMAIN orders' -> Order]
         /\ \A o \in DOMAIN orders : o \notin S => orders'[o] = orders[o]
<1>1. \A o \in DOMAIN orders : orders[o] \in Order
  BY DEF TypeOK
<1> PICK T \in SUBSET S : \E status \in [T -> {"filled", "partially_filled"}] :
        orders' = [o \in DOMAIN orders |->
                     IF o \in T THEN [orders[o] EXCEPT !.status = status[o]]
                     ELSE orders[o]]
  BY DEF Trade
<1>2. PICK status \in [T -> {"filled", "partially_filled"}] :
        orders' = [o \in DOMAIN orders |->
                     IF o \in T THEN [orders[o] EXCEPT !.status = status[o]]
                     ELSE orders[o]]
  OBVIOUS
<1>3. DOMAIN orders' = DOMAIN orders /\ orders' = [o \in DOMAIN orders' |-> orders'[o]]
  BY <1>2
<1>4. ASSUME NEW o \in DOMAIN orders
      PROVE  /\ orders'[o] \in Order /\ orders'[o].tried = orders[o].tried
             /\ orders'[o].tif = orders[o].tif /\ orders'[o].made = orders[o].made
             /\ orders'[o].status = "pending" => orders[o].status = "pending"
             /\ o \notin S => orders'[o] = orders[o]
  <2>1. CASE o \in T
    <3>1. orders'[o] = [orders[o] EXCEPT !.status = status[o]]
      BY <1>2, <2>1
    <3>2. status[o] \in {"filled", "partially_filled"}
      BY <2>1
    <3> QED
      BY <1>1, <2>1, <3>1, <3>2 DEF Order, Statuses
  <2>2. CASE o \notin T
    BY <1>1, <1>2, <2>2
  <2> QED
    BY <2>1, <2>2
<1>5. Fade
  BY <1>3, <1>4 DEF Fade
<1> QED
  BY <1>3, <1>4, <1>5

\* What the steps of the watcher do to the orders.
LEMMA TickFades ==
  ASSUME TypeOK, Tick
  PROVE  Fade /\ orders' \in [DOMAIN orders' -> Order]
<1>1. \A o \in DOMAIN orders : orders[o] \in Order
  BY DEF TypeOK
<1>2. CASE UNCHANGED orders
  BY <1>2 DEF Fade, TypeOK
<1>3. CASE Auction \/ FillLimits
  BY <1>3, TradeFades DEF Auction, FillLimits
<1>4. CASE FireAmos /\ ~UNCHANGED orders
  <2>1. PICK status \in [Pending({"AMO"}) -> {"pending", "filled"}] :
          orders' = [o \in DOMAIN orders |->
            IF o \in Pending({"AMO"})
            THEN [orders[o] EXCEPT !.status = status[o], !.tried = DayOf(now)]
            ELSE orders[o]]
    BY <1>4 DEF FireAmos, Raises
  <2>2. ASSUME NEW o \in DOMAIN orders
        PROVE  /\ orders'[o] \in Order
               /\ orders'[o].tif = orders[o].tif /\ orders'[o].made = orders[o].made
               /\ orders'[o].status = "pending" => orders[o].status = "pending"
               /\ orders'[o].tried \in {orders[o].tried, DayOf(now)}
    <3>1. CASE o \in Pending({"AMO"})
      <4>1. orders'[o] = [orders[o] EXCEPT !.status = status[o], !.tried = DayOf(now)]
        BY <2>1, <3>1
      <4>2. status[o] \in {"pending", "filled"} /\ orders[o].status = "pending"
        BY <3>1 DEF Pending
      <4>3. DayOf(now) \in Days
        BY DayInDays DEF TypeOK
      <4> QED
        BY <1>1, <4>1, <4>2, <4>3 DEF Order, Statuses
    <3>2. CASE o \notin Pending({"AMO"})
      BY <1>1, <2>1, <3>2
    <3> QED
      BY <3>1, <3>2
  <2>3. DOMAIN orders' = DOMAIN orders /\ orders' = [o \in DOMAIN orders' |-> orders'[o]]
    BY <2>1
  <2> QED
    BY <2>2, <2>3 DEF Fade
<1>5. CASE Expire /\ ~UNCHANGED orders
  <2>1. orders' = [o \in DOMAIN orders |->
                     IF o \in Pending({"DAY"})
                     THEN [orders[o] EXCEPT !.status = "expired"] ELSE orders[o]]
    BY <1>5 DEF Expire, Raises
  <2>2. /\ DOMAIN orders' = DOMAIN orders /\ orders' = [o \in DOMAIN orders' |-> orders'[o]]
        /\ \A o \in DOMAIN orders :
             orders'[o] \in {orders[o], [orders[o] EXCEPT !.status = "expired"]}
    BY <2>1
  <2>3. \A o \in DOMAIN orders : orders'[o] \in Order
    BY <1>1, <2>2 DEF Order, Statuses
  <2>4. Fade
    BY <1>1, <2>2 DEF Fade, Order
  <2> QED
    BY <2>2, <2>3, <2>4
<1> QED
  BY <1>2, <1>3, <1>4, <1>5 DEF Tick, Roll, ReadPhase, PassOver, Gate
\* The steps, one by one.
LEMMA SessionSteps ==
  ASSUME [Next]_vars
  PROVE  \/ \E tif \in Tifs : Check(tif)
         \/ \E o \in OrderIds : Queue(o)
         \/ Advance \/ ChangeCalendar \/ Start \/ Stop
         \/ Roll \/ ReadPhase \/ Auction \/ FireAmos \/ Expire \/ PassOver
         \/ Gate \/ FillLimits
         \/ UNCHANGED vars
  BY DEF Next, Tick

\* Where holidays come from.
LEMMA SourcesStep ==
  ASSUME SourcesOnly, [Next]_vars
  PROVE  SourcesOnly'
<1>1. CASE UNCHANGED <<holidays, file>>
  BY <1>1 DEF SourcesOnly
<1>2. CASE Advance
  <2>1. holidays' = holidays
    BY <1>2 DEF Advance, Later
  <2>2. file' = IF file = NoFile \/ file.age > CacheTTL THEN file
                ELSE [file EXCEPT !.age = @ + 1]
    BY <1>2 DEF Advance, Later
  <2>3. ASSUME file \in [rows : Published, age : Nat]
        PROVE  [file EXCEPT !.age = @ + 1] \in [rows : Published, age : Nat]
    BY <2>3
  <2>4. file' = NoFile \/ file' \in [rows : Published, age : Nat]
    BY <2>2, <2>3 DEF SourcesOnly
  <2> QED
    BY <2>1, <2>4 DEF SourcesOnly
<1>3. CASE ChangeCalendar
  <2>1. file = NoFile \/ file.rows \in Published
    BY DEF SourcesOnly
  <2>2. CASE Reload
    <3> DEFINE answer == {}
    <3>1. answer \in Published \cup {{}} /\ holidays' = Bundled \cup answer
      BY <2>2 DEF Reload
    <3> HIDE DEF answer
    <3> QED
      BY <2>2, <3>1 DEF SourcesOnly, Reload
  <2>3. CASE Build
    <3>1. CASE Cached /\ holidays' = Bundled \cup file.rows /\ UNCHANGED file
      BY <2>1, <3>1 DEF SourcesOnly, Cached
    <3>2. CASE \E answer \in Published :
                 /\ holidays' = Bundled \cup answer
                 /\ file' \in {[rows |-> answer, age |-> 0], file}
      <4>1. PICK answer \in Published :
                 /\ holidays' = Bundled \cup answer
                 /\ file' \in {[rows |-> answer, age |-> 0], file}
        BY <3>2
      <4>2. [rows |-> answer, age |-> 0] \in [rows : Published, age : Nat]
        OBVIOUS
      <4> QED
        BY <4>1, <4>2 DEF SourcesOnly
    <3>3. CASE holidays' = Bundled \cup Remembered /\ UNCHANGED file
      BY <2>1, <3>3 DEF SourcesOnly, Remembered
    <3> QED
      BY <2>3, <3>1, <3>2, <3>3 DEF Build
  <2> QED
    BY <1>3, <2>2, <2>3 DEF ChangeCalendar
<1> QED
  BY <1>1, <1>2, <1>3, SessionSteps
     DEF Check, Queue, Start, Stop, Roll, ReadPhase, Auction, FireAmos, Expire,
         PassOver, Gate, FillLimits, vars, calendarVars

\* A request becomes an order.
LEMMA QueueTypes ==
  ASSUME TypeOK, NEW o \in OrderIds, Queue(o)
  PROVE  /\ DOMAIN orders' = DOMAIN orders \cup {o} /\ o \notin DOMAIN orders
         /\ orders' \in [DOMAIN orders' -> Order] /\ DOMAIN orders' \subseteq OrderIds
         /\ \A x \in DOMAIN orders : orders'[x] = orders[x]
         /\ orders'[o] = [tif |-> checked, status |-> "pending", made |-> now,
                          tried |-> None]
         /\ orders'[o].made = now
<1>1. /\ \A x \in DOMAIN orders : orders[x] \in Order
      /\ DOMAIN orders \subseteq OrderIds
  BY DEF TypeOK
<1>2. [tif |-> checked, status |-> "pending", made |-> now, tried |-> None] \in Order
  BY DEF TypeOK, Queue, Order, Statuses
<1> QED
  BY <1>1, <1>2 DEF Queue

\* Every step keeps the types.
LEMMA SessionTypeStep ==
  ASSUME TypeOK, SourcesOnly, [Next]_vars
  PROVE  TypeOK'
<1>1. DayOf(now) \in Days
  BY DayInDays DEF TypeOK
<1>2. now \in Int
  BY DayInDays DEF TypeOK
<1>3. /\ DOMAIN orders' \subseteq OrderIds /\ orders' \in [DOMAIN orders' -> Order]
      /\ DOMAIN orders \subseteq DOMAIN orders'
  <2>1. CASE UNCHANGED orders
    BY <2>1 DEF TypeOK
  <2>2. CASE \E o \in OrderIds : Queue(o)
    BY <2>2, QueueTypes
  <2>3. CASE Tick
    BY <2>3, TickFades DEF Fade, TypeOK
  <2> QED
    BY <2>1, <2>2, <2>3 DEF Next, Check, Advance, ChangeCalendar, Start, Stop, vars
<1>4. holidays' \subseteq Days
  <2>1. /\ Bundled \subseteq Days
        /\ \A answer \in Published \cup {{}} : answer \subseteq Days
    BY CalendarAssumption DEF CalendarAssumption
  <2> QED
    BY <2>1, SourcesStep DEF SourcesOnly
<1>5. CASE \E tif \in Tifs : Check(tif)
  BY <1>3, <1>5 DEF TypeOK, Check, calendarVars, watcher, history
<1>6. CASE \E o \in OrderIds : Queue(o)
  BY <1>3, <1>6 DEF TypeOK, Queue, calendarVars, watcher, history
<1>7. CASE Advance
  BY <1>2, <1>3, <1>7 DEF TypeOK, Advance, Later, calendarVars, watcher, history
<1>8. CASE ChangeCalendar
  BY <1>1, <1>3, <1>4, <1>8 DEF TypeOK, ChangeCalendar, watcher
<1>9. CASE Start \/ Stop
  BY <1>3, <1>9 DEF TypeOK, Start, Stop, Forget, calendarVars, watcher, history
<1>10. CASE Roll
  BY <1>1, <1>3, <1>10 DEF TypeOK, Roll, calendarVars, history
<1>11. CASE ReadPhase
  <2>1. PhaseAt(now) \in {"closed", "pre_open", "regular", "post_close"}
    BY <1>2, PhaseNumbers
  <2> QED
    BY <1>3, <1>11, <2>1 DEF TypeOK, ReadPhase, Work, calendarVars, history
<1>12. CASE Auction \/ FireAmos \/ Expire \/ PassOver
  <2>1. raised' \subseteq Work \X Days
    <3>1. UNCHANGED raised \/ \E work \in Work : Raises(work)
      BY <1>12 DEF Auction, FireAmos, Expire, PassOver, Work, history
    <3> QED
      BY <1>1, <3>1 DEF TypeOK, Raises
  <2>2. CASE Auction \/ PassOver
    BY <1>1, <1>3, <2>1, <2>2
       DEF TypeOK, Auction, PassOver, Due, NotDue, Work, calendarVars, history
  <2>3. CASE FireAmos \/ Expire
    BY <1>1, <1>3, <2>1, <2>3 DEF TypeOK, FireAmos, Expire, Due, Work, calendarVars
  <2> QED
    BY <1>12, <2>2, <2>3
<1>13. CASE Gate \/ FillLimits
  BY <1>3, <1>13 DEF TypeOK, Gate, FillLimits, Finish, Forget, Working, Pending, Work,
                     calendarVars, history
<1>14. CASE UNCHANGED vars
  BY <1>3, <1>14 DEF TypeOK, vars, calendarVars, watcher, history
<1> QED
  BY <1>5, <1>6, <1>7, <1>8, <1>9, <1>10, <1>11, <1>12, <1>13, <1>14, SessionSteps

\* The initial state has its types.
LEMMA SessionTypesInit ==
  ASSUME Init
  PROVE  TypeOK /\ SourcesOnly
<1>1. LastDay \in Nat /\ Bundled \subseteq Days /\ Published \subseteq SUBSET Days
  BY CalendarAssumption DEF CalendarAssumption
<1>2. PICK answer \in Published \cup {{}} : holidays = Bundled \cup answer
  BY DEF Init, CalendarInit
<1>3. holidays \subseteq Days
  BY <1>1, <1>2
<1>4. 0 \in Instants
  BY <1>1 DEF Instants
<1> QED
  BY <1>2, <1>3, <1>4 DEF Init, CalendarInit, TypeOK, SourcesOnly, Statuses, Tifs

\* Every variable of the day has its type, always: the orders, the flags and
\* the locals of the tick, and the holidays that loading leaves behind.
THEOREM SessionTypeOK == Spec => []TypeOK
<1>1. Init => TypeOK /\ SourcesOnly
  BY SessionTypesInit
<1>2. TypeOK /\ SourcesOnly /\ [Next]_vars => (TypeOK /\ SourcesOnly)'
  BY SessionTypeStep, SourcesStep
<1> QED
  BY <1>1, <1>2, PTL DEF Spec

\* next_open is right whatever the source of the holidays: the walk of twenty
\* days finds the next trading day, because no calendar is closed for so long.
THEOREM SessionNextOpenIsNext ==
  ASSUME NoLongClosure
  PROVE  Spec => []NextOpenIsNext
<1>1. Spec => [](TypeOK /\ SourcesOnly)
  <2>1. Init => TypeOK /\ SourcesOnly
    BY SessionTypesInit
  <2>2. TypeOK /\ SourcesOnly /\ [Next]_vars => (TypeOK /\ SourcesOnly)'
    BY SessionTypeStep, SourcesStep
  <2> QED
    BY <2>1, <2>2, PTL DEF Spec
<1>2. ASSUME TypeOK, SourcesOnly
      PROVE  NextOpenIsNext
  <2> DEFINE first == FirstCandidate(now)
             later == {s \in Instants : s > now /\ Open(s)}
             walked == first..(first + Steps - 1)
             found == {d \in walked : IsTradingDay(d)}
             best == CHOOSE d \in found : \A e \in found : d <= e
  <2>1. SUFFICES ASSUME later # {}
                 PROVE  NextOpen(now) \in later /\ \A s \in later : NextOpen(now) <= s
    BY DEF NextOpenIsNext
  <2>2. /\ now \in Int /\ DayOf(now) \in Days /\ DayOf(now) \in Nat /\ LastDay \in Nat
        /\ now % 6 \in 0..5 /\ now = 6 * DayOf(now) + (now % 6)
    BY <1>2, DayInDays, Clock, CalendarAssumption DEF TypeOK, CalendarAssumption
  <2>3. /\ first \in Nat
        /\ \/ first = DayOf(now) + 1 /\ now % 6 >= 3
           \/ first = DayOf(now) /\ now % 6 < 3
    BY <2>2 DEF FirstCandidate, OpenSlot, Days
  <2>4. ASSUME NEW s \in later
        PROVE  /\ s \in Int /\ s = 6 * DayOf(s) + 3 /\ DayOf(s) >= first
               /\ DayOf(s) \in Days /\ IsTradingDay(DayOf(s))
    <3>1. s \in Instants /\ s > now /\ Open(s)
      OBVIOUS
    <3>2. s \in Int /\ DayOf(s) \in Days /\ DayOf(s) \in Int
      BY <3>1, DayInDays
    <3>3. IsTradingDay(DayOf(s)) /\ s % 6 = 3
      BY <3>1, <3>2, PhaseNumbers DEF OpenSlot
    <3>4. s = 6 * DayOf(s) + 3
      BY <3>2, <3>3, Clock
    <3> HIDE DEF first, later
    <3> QED
      BY <2>2, <2>3, <3>1, <3>2, <3>3, <3>4 DEF Days
  <2>5. PICK s \in later : TRUE
    BY <2>1
  <2>6. found # {}
    <3>1. SUFFICES ASSUME found = {} PROVE FALSE
      OBVIOUS
    <3>2. DayOf(s) \notin walked
      BY <2>4, <2>5, <3>1
    <3>3. DayOf(s) \in Int /\ DayOf(s) <= LastDay /\ DayOf(s) >= first
      BY <2>2, <2>4, <2>5 DEF Days
    <3>4. first + Steps <= LastDay + 1
      <4> HIDE DEF first
      <4> QED
        BY <2>2, <2>3, <3>2, <3>3 DEF Steps
    <3>5. PICK answer \in Published \cup {{}} : holidays = Bundled \cup answer
      BY <1>2 DEF SourcesOnly
    <3>6. first \in 0..(LastDay + 1 - Steps)
      <4> HIDE DEF first
      <4> QED
        BY <2>2, <2>3, <3>4 DEF Steps
    <3>7. PICK e \in walked : e \in Weekdays \ (Bundled \cup answer)
      BY <3>5, <3>6 DEF NoLongClosure
    <3> QED
      BY <3>1, <3>5, <3>7 DEF IsTradingDay
  <2>7. found \in SUBSET Nat
    <3> HIDE DEF first
    <3> QED
      BY <2>3 DEF Steps
  <2>8. best \in found /\ \A e \in found : best <= e
    <3>1. \E d \in found : \A e \in found : d <= e
      BY <2>6, <2>7, LeastNat
    <3> QED
      BY <3>1
  <2>9. NextOpen(now) = 6 * best + OpenSlot
    BY <2>6 DEF NextOpen
  <2> HIDE DEF best
  <2>10. best \in Nat /\ best >= first /\ IsTradingDay(best)
    <3>1. best \in walked /\ IsTradingDay(best)
      BY <2>8
    <3> HIDE DEF first
    <3> QED
      BY <2>3, <3>1
  <2>11. ASSUME NEW t \in later
         PROVE  6 * best + 3 <= t /\ best <= LastDay
    <3>1. /\ t \in Int /\ t = 6 * DayOf(t) + 3 /\ DayOf(t) >= first
          /\ DayOf(t) \in Days /\ IsTradingDay(DayOf(t))
      BY <2>4
    <3>2. best <= DayOf(t)
      <4>1. CASE DayOf(t) \in walked
        BY <2>8, <3>1, <4>1
      <4>2. CASE DayOf(t) \notin walked
        <5>1. best <= first + Steps - 1
          <6>1. best \in walked
            BY <2>8
          <6> HIDE DEF first
          <6> QED
            BY <2>3, <2>10, <6>1 DEF Steps
        <5>2. DayOf(t) > first + Steps - 1
          <6> HIDE DEF first
          <6> QED
            BY <2>3, <3>1, <4>2 DEF Steps, Days
        <5> HIDE DEF first
        <5> QED
          BY <2>3, <2>10, <3>1, <5>1, <5>2 DEF Steps, Days
      <4> QED
        BY <4>1, <4>2
    <3> HIDE DEF first
    <3> QED
      BY <2>2, <2>10, <3>1, <3>2 DEF Days
  <2>12. 6 * best + 3 \in later
    <3> DEFINE n == 6 * best + 3
    <3>1. best <= LastDay
      BY <2>5, <2>11
    <3>2. n \in Instants /\ n \in Int
      BY <2>2, <2>10, <3>1 DEF Instants
    <3>3. DayOf(n) = best /\ n % 6 = 3
      <4>1. n = 6 * DayOf(n) + (n % 6) /\ n % 6 \in 0..5 /\ DayOf(n) \in Int
        BY <3>2, Clock
      <4> QED
        BY <2>10, <4>1
    <3>4. Open(n)
      BY <2>10, <3>2, <3>3, PhaseNumbers DEF OpenSlot
    <3>5. n > now
      <4> HIDE DEF first
      <4> QED
        BY <2>2, <2>3, <2>10
    <3> QED
      BY <3>2, <3>4, <3>5
  <2> QED
    BY <2>9, <2>11, <2>12 DEF OpenSlot
<1> QED
  BY <1>1, <1>2, PTL
-----------------------------------------------------------------------------
(* What every step leaves alone *)

\* Only the clock's step and a change of the calendar move the day.
LEMMA DayStands ==
  ASSUME [Next]_vars
  PROVE  Advance \/ ChangeCalendar \/ UNCHANGED <<now, holidays, turned, sessions>>
BY SessionSteps
   DEF Check, Queue, Start, Stop, Roll, ReadPhase, Auction, FireAmos, Expire,
       PassOver, Gate, FillLimits, vars, calendarVars, history

\* What has raised is remembered.
LEMMA RaisedStays ==
  ASSUME [Next]_vars
  PROVE  raised \subseteq raised'
BY SessionSteps
   DEF Check, Queue, Advance, ChangeCalendar, Start, Stop, Roll, ReadPhase, Auction,
       FireAmos, Expire, Raises, PassOver, Gate, FillLimits, vars, history

\* With the same holidays, it is the same day in the same phase.
LEMMA DaySame ==
  ASSUME UNCHANGED <<now, holidays>>
  PROVE  /\ Open(now)' <=> Open(now)
         /\ IsTradingDay(DayOf(now))' <=> IsTradingDay(DayOf(now))
         /\ DayOf(now)' = DayOf(now)
  BY DEF Open, PhaseAt, IsTradingDay, DayOf, SlotOf

\* A new calendar opens no day that it has not turned.
LEMMA ChangeTells ==
  ASSUME TypeOK, ChangeCalendar
  PROVE  /\ now' = now /\ DayOf(now)' = DayOf(now) /\ turned \subseteq turned'
         /\ IsTradingDay(DayOf(now))' /\ DayOf(now) \notin turned' =>
              IsTradingDay(DayOf(now))
         /\ Open(now)' /\ DayOf(now) \notin turned' => Open(now)
<1>1. /\ now' = now /\ turned' = turned \cup ({DayOf(now)} \cap (holidays \ holidays'))
      /\ now \in Int
  BY DayInDays DEF ChangeCalendar, TypeOK
<1>2. IsTradingDay(DayOf(now))' /\ DayOf(now) \notin turned' => IsTradingDay(DayOf(now))
  BY <1>1 DEF IsTradingDay, DayOf
<1>3. Open(now)' => IsTradingDay(DayOf(now))' /\ SlotOf(now) = "regular"
  BY <1>1 DEF Open, PhaseAt, IsTradingDay, DayOf, SlotOf
<1>4. IsTradingDay(DayOf(now)) /\ SlotOf(now) = "regular" => Open(now)
  BY DEF Open, PhaseAt
<1> QED
  BY <1>1, <1>2, <1>3, <1>4 DEF DayOf

\* A tick whose phase is regular acts on the day that it began in, after the open.
LEMMA RegularTick ==
  ASSUME TypeOK, TickTime, PhaseRead, phase = "regular"
  PROVE  /\ pc # "idle" /\ today = DayOf(now) /\ rolled = DayOf(now)
         /\ 6 * rolled + OpenSlot <= now
<1>1. /\ pc # "idle" /\ today = DayOf(began) /\ rolled = today /\ began \in {now, now - 1}
      /\ began \in Instants /\ now \in Instants
  BY DEF PhaseRead, TickTime, TypeOK
<1>2. now \in Int /\ began \in Int
  BY <1>1, DayInDays
<1>3. PICK t \in {began, now} : t % 6 = 3
  BY <1>2, SlotNumbers DEF PhaseRead
<1>4. /\ DayOf(now) \in Int /\ now % 6 \in 0..5 /\ now = 6 * DayOf(now) + (now % 6)
      /\ DayOf(began) \in Int /\ began % 6 \in 0..5
      /\ began = 6 * DayOf(began) + (began % 6)
  BY <1>2, Clock
<1>5. CASE t = now
  BY <1>1, <1>3, <1>4, <1>5 DEF OpenSlot
<1>6. CASE t = began
  BY <1>1, <1>3, <1>4, <1>6 DEF OpenSlot
<1> QED
  BY <1>3, <1>5, <1>6

\* The orders of a step: one is added, or some go.
LEMMA OrdersStep ==
  ASSUME TypeOK, [Next]_vars
  PROVE  Fade \/ \E o \in OrderIds : Queue(o)
<1>1. CASE UNCHANGED orders
  BY <1>1 DEF Fade, TypeOK
<1> QED
  BY <1>1, TickFades DEF Next, Check, Advance, ChangeCalendar, Start, Stop, vars

-----------------------------------------------------------------------------
(* The tick and its flags *)

\* A tick stays in the time it began in.
LEMMA TickTimeStep ==
  ASSUME Punctual, TypeOK, TickTime, [Next]_vars
  PROVE  TickTime'
<1>1. CASE Advance
  <2>1. now \in Int /\ now' = now + 1 /\ ticked /\ ~ticked'
        /\ UNCHANGED <<pc, began, today, rolled>>
    BY <1>1, DayInDays DEF Advance, Later, TypeOK, watcher
  <2> QED
    BY <2>1 DEF TickTime
<1>2. CASE Roll
  BY <1>2 DEF TickTime, Roll, calendarVars
<1>3. CASE Gate \/ FillLimits
  BY <1>3 DEF TickTime, Gate, FillLimits, Finish, Forget, calendarVars
<1>4. CASE ReadPhase \/ Auction \/ FireAmos \/ Expire \/ PassOver
  BY <1>4 DEF TickTime, ReadPhase, Auction, FireAmos, Expire, PassOver, Due, NotDue,
              calendarVars
<1>5. CASE Stop
  BY <1>5 DEF TickTime, Stop, Forget
<1>6. CASE UNCHANGED <<now, pc, began, today, rolled, ticked>>
  BY <1>6 DEF TickTime
<1> QED
  BY <1>1, <1>2, <1>3, <1>4, <1>5, <1>6, SessionSteps
     DEF Check, Queue, ChangeCalendar, Start, vars, calendarVars, watcher

\* The phase a tick has read is that of its time.
LEMMA PhaseReadStep ==
  ASSUME Punctual, TypeOK, TickTime, PhaseRead, [Next]_vars
  PROVE  PhaseRead'
<1>1. now \in Int
  BY DayInDays DEF TypeOK
<1>2. CASE Advance
  <2>1. now' = now + 1 /\ ticked /\ UNCHANGED <<pc, began, phase>>
    BY <1>2 DEF Advance, Later, watcher
  <2>2. pc # "idle" => began = now
    BY <2>1 DEF TickTime
  <2> QED
    BY <2>1, <2>2 DEF PhaseRead
<1>3. CASE ReadPhase
  <2>1. PhaseAt(now) # "closed" => SlotOf(now) = PhaseAt(now)
    BY <1>1, PhaseNumbers
  <2> QED
    BY <1>3, <2>1 DEF PhaseRead, ReadPhase, calendarVars
<1>4. CASE Roll
  BY <1>4 DEF PhaseRead, Roll
<1>5. CASE Gate \/ FillLimits \/ Stop
  BY <1>5 DEF PhaseRead, Gate, FillLimits, Stop, Finish, Forget, calendarVars
<1>6. CASE Auction \/ FireAmos \/ Expire \/ PassOver
  BY <1>6 DEF PhaseRead, Auction, FireAmos, Expire, PassOver, Due, NotDue, calendarVars
<1>7. CASE UNCHANGED <<now, pc, began, phase>>
  BY <1>7 DEF PhaseRead
<1> QED
  BY <1>2, <1>3, <1>4, <1>5, <1>6, <1>7, SessionSteps
     DEF Check, Queue, ChangeCalendar, Start, vars, calendarVars, watcher
\* The flags belong to the day that the watcher rolled to.
LEMMA FlagsTellStep ==
  ASSUME TypeOK, TickTime, PhaseRead, FlagsTell, [Next]_vars
  PROVE  FlagsTell'
<1>1. now \in Int /\ DayOf(now) \in Days /\ DayOf(now) \in Int /\ rolled \in Int
  BY DayInDays DEF TypeOK, Days, None
<1>2. CASE Advance
  <2>1. now' = now + 1 /\ UNCHANGED <<rolled, done, auctioned>>
    BY <1>2 DEF Advance, Later, watcher
  <2>2. DayOf(now)' \in {DayOf(now), DayOf(now) + 1}
    BY <1>1, <2>1, ClockGoesOn DEF DayOf
  <2> QED
    BY <1>1, <2>1, <2>2 DEF FlagsTell, OpenSlot
<1>3. CASE Roll
  <2>1. /\ rolled' = DayOf(now) /\ now' = now /\ auctioned' = auctioned
        /\ done' = IF rolled = rolled' THEN done ELSE {}
    BY <1>3 DEF Roll, calendarVars
  <2>2. DayOf(now)' = DayOf(now)
    BY <2>1 DEF DayOf
  <2> QED
    BY <1>1, <2>1, <2>2 DEF FlagsTell
<1>4. CASE Auction
  <2>1. rolled = DayOf(now)
    BY <1>4, RegularTick DEF Auction, Due
  <2> QED
    BY <1>1, <1>4, <2>1, DaySame DEF FlagsTell, Auction, calendarVars
<1>5. CASE FireAmos
  <2>1. 6 * rolled + OpenSlot <= now
    BY <1>5, RegularTick DEF FireAmos, Due
  <2> QED
    BY <1>1, <1>5, <2>1, DaySame DEF FlagsTell, FireAmos, calendarVars
<1>6. CASE Expire
  BY <1>6, DaySame DEF FlagsTell, Expire, calendarVars
<1>7. CASE Stop
  BY <1>1, <1>7, DaySame DEF FlagsTell, Stop, calendarVars, None, Days
<1>8. CASE UNCHANGED <<now, rolled, done, auctioned>>
  BY <1>8 DEF FlagsTell, DayOf
<1> QED
  BY <1>2, <1>3, <1>4, <1>5, <1>6, <1>7, <1>8, SessionSteps
     DEF Check, Queue, ChangeCalendar, Start, ReadPhase, PassOver, Gate, FillLimits,
         vars, calendarVars, watcher

\* What a tick has passed is done, or was not due in its phase.
LEMMA StagesDoneStep ==
  ASSUME TypeOK, TickTime, StagesDone, [Next]_vars
  PROVE  StagesDone'
<1>1. now \in Int
  BY DayInDays DEF TypeOK
<1>2. CASE Advance
  <2>1. now' = now + 1 /\ UNCHANGED <<pc, began, phase, done>>
    BY <1>2 DEF Advance, Later, watcher
  <2>2. pc # "idle" => began # now'
    BY <1>1, <2>1 DEF TickTime
  <2> QED
    BY <2>1, <2>2 DEF StagesDone
<1>3. CASE ChangeCalendar
  <2>1. UNCHANGED <<now, pc, began, phase, done>>
    BY <1>3 DEF ChangeCalendar, watcher
  <2>2. Open(now)' /\ DayOf(now) \notin turned' => Open(now) /\ DayOf(now) \notin turned
    BY <1>3, ChangeTells
  <2>3. DayOf(now)' = DayOf(now)
    BY <1>3, ChangeTells
  <2> QED
    BY <2>1, <2>2, <2>3 DEF StagesDone
<1>4. ASSUME UNCHANGED <<now, holidays, turned>>
      PROVE  /\ Open(now)' <=> Open(now)
             /\ DayOf(now)' = DayOf(now) /\ turned' = turned
  BY <1>4, DaySame
<1>5. CASE ReadPhase
  <2>1. Open(now) => phase' = "regular"
    BY <1>5 DEF ReadPhase, Open
  <2> QED
    BY <1>4, <1>5, <2>1 DEF StagesDone, ReadPhase, calendarVars, history
<1>6. CASE Auction \/ FireAmos \/ Expire
  BY <1>4, <1>6 DEF StagesDone, Auction, FireAmos, Expire, Due, calendarVars, history
<1>7. CASE PassOver
  BY <1>4, <1>7 DEF StagesDone, PassOver, NotDue, calendarVars, history, TypeOK
<1>8. CASE Gate \/ FillLimits \/ Stop \/ Roll
  BY <1>4, <1>8 DEF StagesDone, Gate, FillLimits, Stop, Roll, Finish, Forget,
                    calendarVars, history
<1>9. CASE UNCHANGED <<now, holidays, turned, pc, began, phase, done>>
  BY <1>4, <1>9 DEF StagesDone
<1> QED
  BY <1>2, <1>3, <1>5, <1>6, <1>7, <1>8, <1>9, SessionSteps
     DEF Check, Queue, Start, vars, calendarVars, watcher, history

\* No AMO is among the rows of the limit pass.
LEMMA HandsLimitsStep ==
  ASSUME TypeOK, HandsLimits, [Next]_vars
  PROVE  HandsLimits'
<1>1. \A o \in DOMAIN orders : orders'[o].tif = orders[o].tif
  BY OrdersStep, QueueTypes DEF Fade
<1>2. CASE Gate
  <2>1. \A o \in todo' : o \in DOMAIN orders /\ orders[o].tif # "AMO"
    BY <1>2 DEF Gate, Working, Pending, Finish, Forget
  <2> QED
    BY <1>1, <2>1 DEF HandsLimits
<1>3. CASE todo' = {} \/ todo' = todo
  BY <1>1, <1>3 DEF HandsLimits, TypeOK
<1> QED
  BY <1>2, <1>3, SessionSteps
     DEF Check, Queue, Advance, ChangeCalendar, Start, Stop, Roll, ReadPhase, Auction,
         FireAmos, Expire, PassOver, FillLimits, Finish, Forget, vars, watcher

\* The sessions that are counted stay past ones.
LEMMA SessionsPastStep ==
  ASSUME TypeOK, SessionsPast, [Next]_vars
  PROVE  SessionsPast'
<1>1. now \in Int /\ \A s \in sessions : s \in Int
  BY DayInDays DEF TypeOK
<1>2. CASE Advance
  <2>1. /\ now' = now + 1
        /\ sessions' = IF Open(now) THEN sessions \cup {now} ELSE sessions
    BY <1>2 DEF Advance, Later
  <2>2. Open(now) => now % 6 = OpenSlot
    BY <1>1, PhaseNumbers
  <2>3. ASSUME NEW s \in sessions'
        PROVE  s < now' /\ s % 6 = OpenSlot
    BY <1>1, <2>1, <2>2 DEF SessionsPast
  <2> QED
    BY <2>3 DEF SessionsPast
<1>3. CASE now' = now /\ sessions' = sessions
  BY <1>3 DEF SessionsPast
<1> QED
  BY <1>2, <1>3, DayStands DEF ChangeCalendar
-----------------------------------------------------------------------------
(* The work of the day is done *)

\* A tick that ends in the slot it began in has done what is due there: in the
\* night the expiry, in the session the AMOs.
LEMMA TickEnds ==
  ASSUME TypeOK, TickTime, PhaseRead, StagesDone, Gate \/ FillLimits, pc' = "idle",
         began = now
  PROVE  /\ rolled = DayOf(now)
         /\ now % 6 = 0 => "expiry" \in done
         /\ Open(now) /\ DayOf(now) \notin turned => "amo" \in done
<1>1. pc \in {"gate", "limits"}
  BY DEF Gate, FillLimits
<1>2. now \in Int
  BY DayInDays DEF TypeOK
<1>3. rolled = DayOf(now)
  BY <1>1 DEF TickTime
<1>4. ASSUME now % 6 = 0
      PROVE  phase = "closed"
  <2>1. phase # "closed" => SlotOf(now) = phase
    BY DEF PhaseRead
  <2>2. phase \in {"closed", "pre_open", "regular", "post_close"}
    BY DEF TypeOK
  <2> QED
    BY <1>2, <1>4, <2>1, <2>2, SlotNumbers
<1> QED
  BY <1>1, <1>3, <1>4 DEF StagesDone

\* The tick of a night ends with its flag.
LEMMA NightCleansStep ==
  ASSUME Punctual, TypeOK, TickTime, PhaseRead, FlagsTell, StagesDone, NightCleans,
         [Next]_vars
  PROVE  NightCleans'
<1> DEFINE Cleaned == now % 6 > 0 \/ ticked \/ ("expiry" \in done /\ rolled = DayOf(now))
<1>1. /\ now \in Int /\ DayOf(now) \in Int /\ now % 6 \in 0..5 /\ rolled \in Int
      /\ now = 6 * DayOf(now) + (now % 6)
  BY DayInDays, Clock DEF TypeOK, Days, None
<1>2. \A o \in DOMAIN orders : orders[o].made \in Int
  BY DayInDays DEF TypeOK, Order
<1>3. SUFFICES ASSUME Cleaned', IsTradingDay(DayOf(now))', (DayOf(now) \notin turned)',
                      (<<"expiry", DayOf(now)>> \notin raised)',
                      NEW o \in Pending({"DAY"})'
               PROVE  orders'[o].made >= 6 * DayOf(now)'
  BY DEF NightCleans
<1>4. CASE \E x \in OrderIds : Queue(x) /\ o \notin DOMAIN orders
  <2>1. PICK x \in OrderIds : Queue(x) /\ o \notin DOMAIN orders
    BY <1>4
  <2>2. orders'[o].made = now /\ DayOf(now)' = DayOf(now)
    BY <2>1, QueueTypes, DaySame DEF Queue, Pending, calendarVars
  <2> QED
    BY <1>1, <2>2
<1>5. CASE o \in DOMAIN orders
  <2>1. o \in Pending({"DAY"}) /\ orders'[o].made = orders[o].made
    BY <1>5, OrdersStep, QueueTypes DEF Fade, Pending
  <2>2. SUFFICES DayOf(now)' = DayOf(now) /\ IsTradingDay(DayOf(now))
                   /\ DayOf(now) \notin turned /\ Cleaned
    BY <1>3, <2>1, RaisedStays DEF NightCleans
  <2>3. CASE Advance
    <3>1. /\ now' = now + 1 /\ ticked /\ ~ticked'
          /\ UNCHANGED <<done, rolled, turned, holidays>>
      BY <2>3 DEF Advance, Later, watcher
    <3>2. DayOf(now)' = DayOf(now)
      <4>1. SUFFICES ASSUME DayOf(now)' = DayOf(now) + 1, (now % 6)' = 0 PROVE FALSE
        BY <1>1, <3>1, ClockGoesOn DEF DayOf
      <4>2. rolled = DayOf(now) + 1
        BY <1>3, <3>1, <4>1
      <4> QED
        BY <1>1, <4>2 DEF FlagsTell
    <3>3. IsTradingDay(DayOf(now))
      BY <1>3, <3>1, <3>2 DEF IsTradingDay
    <3> QED
      BY <1>3, <3>1, <3>2, <3>3
  <2>4. CASE ChangeCalendar
    <3>1. UNCHANGED <<now, done, rolled, ticked>>
      BY <2>4 DEF ChangeCalendar, watcher
    <3> QED
      BY <1>3, <2>4, <3>1, ChangeTells
  <2>5. ASSUME UNCHANGED <<now, holidays, turned>>, Cleaned
        PROVE  DayOf(now)' = DayOf(now) /\ IsTradingDay(DayOf(now))
                 /\ DayOf(now) \notin turned /\ Cleaned
    BY <1>3, <2>5, DaySame
  <2>6. CASE Expire
    <3>1. rolled # DayOf(now)
      <4>1. SUFFICES ASSUME rolled = DayOf(now) PROVE FALSE
        OBVIOUS
      <4>2. today = DayOf(now)
        BY <2>6, <4>1 DEF Expire, Due, TickTime
      <4>3. IsTradingDay(today)
        BY <1>3, <2>6, <4>2, DaySame DEF Expire, calendarVars
      <4>4. ~Raises("expiry")
        BY <1>3, <2>6, DaySame DEF Raises, Expire, calendarVars
      <4>5. orders'[o].status = "expired"
        BY <1>5, <2>1, <2>6, <4>3, <4>4 DEF Expire, TypeOK, Order
      <4> QED
        BY <1>3, <4>5 DEF Pending
    <3>2. Cleaned
      BY <1>3, <2>6, <3>1, DaySame DEF Expire, calendarVars
    <3> QED
      BY <2>5, <2>6, <3>2 DEF Expire, calendarVars, history
  <2>7. CASE Gate \/ FillLimits
    <3>1. UNCHANGED <<now, holidays, turned, done, rolled>>
      BY <2>7 DEF Gate, FillLimits, calendarVars, history
    <3>2. Cleaned
      <4>1. CASE ticked' = ticked
        BY <1>3, <3>1, <4>1
      <4>2. CASE pc' = "idle" /\ began = now
        BY <1>1, <2>7, <4>2, TickEnds
      <4>3. ticked' = ticked \/ (pc' = "idle" /\ began = now)
        BY <2>7 DEF Gate, FillLimits, Finish, Forget, TypeOK
      <4> QED
        BY <4>1, <4>2, <4>3
    <3> QED
      BY <2>5, <3>1, <3>2
  <2>8. CASE Roll
    <3>1. UNCHANGED <<now, holidays, turned, ticked>> /\ rolled' = DayOf(now)
          /\ done' = IF rolled = rolled' THEN done ELSE {}
      BY <2>8 DEF Roll, calendarVars, history
    <3>2. Cleaned
      BY <1>3, <3>1, DaySame
    <3> QED
      BY <2>5, <3>1, <3>2
  <2>9. CASE Stop
    <3>1. UNCHANGED <<now, holidays, turned, ticked>> /\ done' = {}
      BY <2>9 DEF Stop, calendarVars, history
    <3>2. Cleaned
      BY <1>3, <3>1, DaySame
    <3> QED
      BY <2>5, <3>1, <3>2
  <2>10. CASE Auction \/ FireAmos
    <3>1. /\ UNCHANGED <<now, holidays, turned, ticked, rolled>>
          /\ "expiry" \in done' => "expiry" \in done
      BY <2>10 DEF Auction, FireAmos, calendarVars, history
    <3>2. Cleaned
      BY <1>3, <3>1, DaySame
    <3> QED
      BY <2>5, <3>1, <3>2
  <2>11. CASE UNCHANGED <<now, holidays, turned, ticked, rolled, done>>
    <3>1. Cleaned
      BY <1>3, <2>11, DaySame
    <3> QED
      BY <2>5, <2>11, <3>1
  <2> QED
    BY <2>3, <2>4, <2>6, <2>7, <2>8, <2>9, <2>10, <2>11, SessionSteps
       DEF Check, Queue, Start, ReadPhase, PassOver, vars, calendarVars, watcher, history
<1> QED
  BY <1>4, <1>5, OrdersStep DEF Fade, Pending
\* A session's tick ends with its AMOs tried.
LEMMA SessionTriesStep ==
  ASSUME Punctual, TypeOK, TickTime, PhaseRead, FlagsTell, StagesDone, SessionTries,
         [Next]_vars
  PROVE  SessionTries'
<1> DEFINE Tried == ticked \/ ("amo" \in done /\ rolled = DayOf(now))
<1>1. /\ now \in Int /\ DayOf(now) \in Int /\ rolled \in Int
      /\ \A o \in DOMAIN orders : orders[o].made \in Int /\ orders[o].tried \in Int
  BY DayInDays DEF TypeOK, Days, None, Order
<1>2. SUFFICES ASSUME Tried', Open(now)', (DayOf(now) \notin turned)',
                      (<<"amo", DayOf(now)>> \notin raised)',
                      NEW o \in Pending({"AMO"})', orders'[o].made < now'
               PROVE  orders'[o].tried >= DayOf(now)'
  BY DEF SessionTries
<1>3. CASE Advance
  <2>1. now' = now + 1 /\ ~ticked' /\ UNCHANGED <<done, rolled>>
    BY <1>3 DEF Advance, Later, watcher
  <2>2. "amo" \in done /\ rolled = DayOf(now + 1)
    BY <1>2, <2>1 DEF DayOf
  <2>3. now + 1 = 6 * DayOf(now + 1) + OpenSlot
    <3>1. (now + 1) % 6 = OpenSlot
      BY <1>1, <1>2, <2>1 DEF Open, PhaseAt, OpenSlot, SlotOf, Slots
    <3> QED
      BY <1>1, <3>1, Clock
  <2> QED
    BY <1>1, <2>2, <2>3 DEF FlagsTell, OpenSlot
<1>4. CASE ~Advance
  <2>1. now' = now /\ DayOf(now)' = DayOf(now)
    BY <1>4, DayStands, ChangeTells DEF ChangeCalendar, DayOf
  <2>2. /\ o \in Pending({"AMO"}) /\ orders'[o].made = orders[o].made
        /\ orders'[o].tried \in {orders[o].tried, DayOf(now)} /\ o \in DOMAIN orders
    <3>1. CASE Fade
      BY <1>2, <3>1 DEF Fade, Pending
    <3>2. CASE \E x \in OrderIds : Queue(x)
      <4>1. PICK x \in OrderIds : Queue(x)
        BY <3>2
      <4>2. orders'[x].made = now
        BY <4>1, QueueTypes
      <4>3. o # x
        BY <1>1, <1>2, <2>1, <4>2
      <4>4. o \in DOMAIN orders /\ orders'[o] = orders[o]
        BY <1>2, <4>1, <4>3, QueueTypes DEF Pending
      <4> QED
        BY <1>2, <4>4 DEF Pending
    <3> QED
      BY <3>1, <3>2, OrdersStep
  <2>3. SUFFICES ASSUME orders'[o].tried # DayOf(now)
                 PROVE  Open(now) /\ DayOf(now) \notin turned /\ Tried
    BY <1>1, <1>2, <2>1, <2>2, RaisedStays DEF SessionTries
  <2>4. CASE ChangeCalendar
    <3>1. UNCHANGED <<now, done, rolled, ticked>>
      BY <2>4 DEF ChangeCalendar, watcher
    <3> QED
      BY <1>2, <2>4, <3>1, ChangeTells
  <2>5. ASSUME UNCHANGED <<now, holidays, turned>>
        PROVE  Open(now) /\ DayOf(now) \notin turned
    BY <1>2, <2>5, DaySame
  <2>6. CASE FireAmos
    <3>1. ~Raises("amo")
      BY <1>2, <2>1 DEF Raises
    <3>2. PICK status \in [Pending({"AMO"}) -> {"pending", "filled"}] :
            orders' = [x \in DOMAIN orders |->
              IF x \in Pending({"AMO"})
              THEN [orders[x] EXCEPT !.status = status[x], !.tried = DayOf(now)]
              ELSE orders[x]]
      BY <2>6, <3>1 DEF FireAmos
    <3>3. orders'[o] = [orders[o] EXCEPT !.status = status[o], !.tried = DayOf(now)]
      BY <2>2, <3>2
    <3>4. orders[o] \in Order
      BY <2>2 DEF TypeOK
    <3> QED
      BY <2>3, <3>3, <3>4 DEF Order
  <2>7. CASE Gate \/ FillLimits
    <3>1. UNCHANGED <<now, holidays, turned, done, rolled>>
      BY <2>7 DEF Gate, FillLimits, calendarVars, history
    <3>2. CASE ticked' = ticked
      BY <1>2, <2>1, <2>5, <3>1, <3>2
    <3>3. CASE pc' = "idle" /\ began = now
      BY <2>5, <2>7, <3>1, <3>3, TickEnds
    <3>4. ticked' = ticked \/ (pc' = "idle" /\ began = now)
      BY <2>7 DEF Gate, FillLimits, Finish, Forget, TypeOK
    <3> QED
      BY <3>2, <3>3, <3>4
  <2>8. CASE Roll
    <3>1. UNCHANGED <<now, holidays, turned, ticked>> /\ rolled' = DayOf(now)
          /\ done' = IF rolled = rolled' THEN done ELSE {}
      BY <2>8 DEF Roll, calendarVars, history
    <3> QED
      BY <1>2, <2>1, <2>5, <3>1
  <2>9. CASE Stop
    <3>1. UNCHANGED <<now, holidays, turned, ticked>> /\ done' = {}
      BY <2>9 DEF Stop, calendarVars, history
    <3> QED
      BY <1>2, <2>5, <3>1
  <2>10. CASE Auction \/ Expire
    <3>1. /\ UNCHANGED <<now, holidays, turned, ticked, rolled>>
          /\ "amo" \in done' => "amo" \in done
      BY <2>10 DEF Auction, Expire, calendarVars, history
    <3> QED
      BY <1>2, <2>1, <2>5, <3>1
  <2>11. CASE UNCHANGED <<now, holidays, turned, ticked, rolled, done>>
    BY <1>2, <2>1, <2>5, <2>11
  <2> QED
    BY <1>4, <2>4, <2>6, <2>7, <2>8, <2>9, <2>10, <2>11, SessionSteps
       DEF Check, Queue, Start, ReadPhase, PassOver, vars, calendarVars, watcher, history
<1> QED
  BY <1>3, <1>4

\* A session that ends has had its tick.
LEMMA AmosAreTriedStep ==
  ASSUME Punctual, TypeOK, SessionTries, SessionsPast, AmosAreTried, [Next]_vars
  PROVE  AmosAreTried'
<1>1. /\ now \in Int /\ DayOf(now) \in Int
      /\ \A o \in DOMAIN orders : orders[o].made \in Int /\ orders[o].tried \in Int
      /\ \A s \in sessions : s \in Int /\ DayOf(s) \in Int
  BY DayInDays DEF TypeOK, Days, None, Order
<1>2. SUFFICES ASSUME NEW o \in Pending({"AMO"})', NEW s \in sessions',
                      s >= orders'[o].made + 1, DayOf(s) \notin turned',
                      <<"amo", DayOf(s)>> \notin raised'
               PROVE  orders'[o].tried >= DayOf(s)
  BY DEF AmosAreTried, SessionsSince
<1>3. turned \subseteq turned' /\ raised \subseteq raised'
  BY DayStands, RaisedStays DEF Advance, ChangeCalendar
<1>4. ASSUME o \in Pending({"AMO"}), orders'[o].made = orders[o].made, s \in sessions
      PROVE  orders[o].tried >= DayOf(s)
  BY <1>2, <1>3, <1>4 DEF AmosAreTried, SessionsSince
<1>5. CASE Advance
  <2>1. /\ ticked /\ UNCHANGED <<orders, turned>>
        /\ sessions' = IF Open(now) THEN sessions \cup {now} ELSE sessions
    BY <1>5 DEF Advance
  <2>2. o \in Pending({"AMO"})
    BY <2>1 DEF Pending
  <2>3. CASE s \in sessions
    BY <1>4, <2>1, <2>2, <2>3
  <2>4. CASE s = now /\ Open(now)
    <3>1. orders[o].made < now
      BY <1>1, <1>2, <2>1, <2>2, <2>4 DEF Pending
    <3> QED
      BY <1>2, <1>3, <2>1, <2>2, <2>4, <3>1 DEF SessionTries
  <2> QED
    BY <2>1, <2>3, <2>4
<1>6. CASE ~Advance
  <2>1. sessions' = sessions
    BY <1>6, DayStands DEF ChangeCalendar
  <2>2. CASE Fade
    <3>1. /\ o \in Pending({"AMO"}) /\ orders'[o].made = orders[o].made
          /\ orders'[o].tried \in {orders[o].tried, DayOf(now)}
      BY <1>2, <2>2 DEF Fade, Pending
    <3>2. DayOf(s) <= DayOf(now)
      <4>1. s < now /\ s \in Int
        BY <1>1, <2>1 DEF SessionsPast
      <4> QED
        BY <1>1, <4>1 DEF DayOf
    <3> QED
      BY <1>1, <1>4, <2>1, <3>1, <3>2
  <2>3. CASE \E x \in OrderIds : Queue(x)
    <3>1. PICK x \in OrderIds : Queue(x)
      BY <2>3
    <3>2. s < now /\ s \in Int
      BY <1>1, <2>1 DEF SessionsPast
    <3>3. orders'[x].made = now
      BY <3>1, QueueTypes
    <3>4. o # x
      BY <1>1, <1>2, <3>2, <3>3
    <3>5. o \in Pending({"AMO"}) /\ orders'[o] = orders[o]
      BY <1>2, <3>1, <3>4, QueueTypes DEF Pending
    <3> QED
      BY <1>4, <2>1, <3>5
  <2> QED
    BY <2>2, <2>3, OrdersStep
<1> QED
  BY <1>5, <1>6

-----------------------------------------------------------------------------
(* The theorems of the day *)

\* Init establishes the invariant.
LEMMA SessionInvInit ==
  ASSUME Init
  PROVE  SessionInv
<1>1. TypeOK /\ SourcesOnly
  BY SessionTypesInit
<1>2. DayOf(now) = 0 /\ now % 6 = 0
  BY DEF Init, CalendarInit, DayOf
<1> QED
  BY <1>1, <1>2
     DEF SessionInv, Init, CalendarInit, TickTime, PhaseRead, FlagsTell, StagesDone,
         HandsLimits, NightCleans, SessionTries, SessionsPast, AmosAreTried, Pending,
         SessionsSince, None

\* Every step keeps the invariant.
LEMMA SessionInvStep ==
  ASSUME Punctual, SessionInv, [Next]_vars
  PROVE  SessionInv'
  BY SessionTypeStep, SourcesStep, TickTimeStep, PhaseReadStep, FlagsTellStep,
     StagesDoneStep, HandsLimitsStep, NightCleansStep, SessionTriesStep,
     SessionsPastStep, AmosAreTriedStep
     DEF SessionInv

\* With a punctual watcher, what the flags, the tick under way and the orders
\* that have not traded say of the day is always true, unless a work of the day
\* has raised.
THEOREM SessionInvHolds ==
  ASSUME Punctual
  PROVE  Spec => []SessionInv
<1>1. Init => SessionInv
  BY SessionInvInit
<1>2. SessionInv /\ [Next]_vars => SessionInv'
  BY SessionInvStep
<1> QED
  BY <1>1, <1>2, PTL DEF Spec

\* A DAY order that has not traded is gone before the session of a later day,
\* however the process restarted and the calendar changed meanwhile, unless that
\* day's expiry raised.
THEOREM SessionDayOrdersDie ==
  ASSUME Punctual
  PROVE  Spec => []DayOrdersDie
<1>1. ASSUME SessionInv
      PROVE  DayOrdersDie
  <2>1. SUFFICES ASSUME Open(now), DayOf(now) \notin turned,
                        <<"expiry", DayOf(now)>> \notin raised, NEW o \in Pending({"DAY"}),
                        NEW s \in sessions, s >= orders[o].made
                 PROVE  FALSE
    BY DEF DayOrdersDie, SessionsSince
  <2>2. /\ now \in Int /\ s \in Int /\ DayOf(now) \in Int /\ DayOf(s) \in Int
        /\ orders[o].made \in Int
    BY <1>1, DayInDays DEF SessionInv, TypeOK, Pending, Order
  <2>3. IsTradingDay(DayOf(now)) /\ now % 6 = 3
    BY <2>1, <2>2, PhaseNumbers DEF OpenSlot
  <2>4. orders[o].made >= 6 * DayOf(now)
    BY <1>1, <2>1, <2>3 DEF SessionInv, NightCleans
  <2>5. s < now /\ s % 6 = 3
    BY <1>1 DEF SessionInv, SessionsPast, OpenSlot
  <2>6. now = 6 * DayOf(now) + 3 /\ s = 6 * DayOf(s) + 3
    BY <2>2, <2>3, <2>5, Clock
  <2> QED
    BY <2>1, <2>2, <2>4, <2>5, <2>6
<1> QED
  BY <1>1, SessionInvHolds, PTL

\* An AMO that rests before a session is tried in it, unless the firing raised.
THEOREM SessionAmosAreTried ==
  ASSUME Punctual
  PROVE  Spec => []AmosAreTried
<1>1. SessionInv => AmosAreTried
  BY DEF SessionInv
<1> QED
  BY <1>1, SessionInvHolds, PTL

\* Only the firing of AMOs takes one off the book, and the auction of the day
\* has been before.
THEOREM SessionAuctionComesFirst ==
  ASSUME Punctual
  PROVE  Spec => AuctionComesFirst
<1>1. ASSUME SessionInv, [Next]_vars
      PROVE  [\A o \in DOMAIN orders :
                orders[o].tif = "AMO" /\ orders'[o].status # orders[o].status =>
                  auctioned = DayOf(now)]_vars
  <2>1. SUFFICES ASSUME NEW o \in DOMAIN orders, orders[o].tif = "AMO",
                        orders'[o].status # orders[o].status
                 PROVE  auctioned = DayOf(now)
    OBVIOUS
  <2>2. TypeOK /\ TickTime /\ PhaseRead /\ FlagsTell /\ StagesDone /\ HandsLimits
    BY <1>1 DEF SessionInv
  <2>3. CASE FireAmos
    <3>1. phase = "regular" /\ pc = "amo"
      BY <2>3 DEF FireAmos, Due
    <3>2. rolled = DayOf(now)
      BY <2>2, <3>1, RegularTick
    <3> QED
      BY <2>2, <3>1, <3>2 DEF StagesDone, FlagsTell
  <2>4. CASE Auction \/ FillLimits
    <3>1. PICK S : Trade(S) /\ o \notin S
      BY <2>1, <2>2, <2>4 DEF Auction, FillLimits, Pending, HandsLimits
    <3> QED
      BY <2>1, <2>2, <3>1, TradeFades
  <2>5. CASE Expire
    BY <2>1, <2>5 DEF Expire, Raises, Pending
  <2>6. CASE \E x \in OrderIds : Queue(x)
    BY <2>1, <2>2, <2>6, QueueTypes
  <2>7. CASE orders' = orders
    BY <2>1, <2>7
  <2> QED
    BY <1>1, <2>3, <2>4, <2>5, <2>6, <2>7, SessionSteps
       DEF Check, Advance, ChangeCalendar, Start, Stop, Roll, ReadPhase, PassOver, Gate,
           vars
<1> QED
  BY <1>1, SessionInvHolds, PTL DEF Spec, AuctionComesFirst
-----------------------------------------------------------------------------
(****************************************************************************)
(* Auction, for books of any length and any prices and quantities: the      *)
(* price follows the rules, the allotment is fair, and what trades is what  *)
(* was matched.                                                             *)
(*                                                                          *)
(* First the two loops.  What remains of the volume after some rows is what *)
(* the orders among them that take part have not asked for (RemainsIs), and *)
(* what they were given is what is gone (GivenIsGone).  The price that is   *)
(* best after some candidates beats them all (BestBeats), and no price      *)
(* trades more than some candidate (LimitsTradeMost).  Then the invariant:  *)
(* a fill that is left is the one of the match, and its order has had none. *)
(****************************************************************************)

SizeOf(bk) == [i \in DOMAIN bk |-> bk[i].qty]

\* The rows up to n that take part at p.
Partakers(side, bk, p, n) ==
  {i \in Of(side, bk) : Willing(bk[i], p) /\ i <= n}
Asked(side, bk, p, n) == SumFunctionOnSet(SizeOf(bk), Partakers(side, bk, p, n))

\* A book and its rows.
LEMMA BookRows ==
  ASSUME NEW bk \in Seq(LimitOrder)
  PROVE  /\ Len(bk) \in Nat /\ DOMAIN bk = 1..Len(bk) /\ IsFiniteSet(DOMAIN bk)
         /\ \A i \in DOMAIN bk :
              /\ bk[i].side \in Sides /\ bk[i].limit \in Prices
              /\ bk[i].limit \in Nat /\ bk[i].limit # 0
              /\ bk[i].qty \in Nat /\ bk[i].qty # 0
              /\ SizeOf(bk)[i] = bk[i].qty
<1>1. Len(bk) \in Nat /\ DOMAIN bk = 1..Len(bk)
  OBVIOUS
<1>2. IsFiniteSet(DOMAIN bk)
  BY <1>1, FS_Interval
<1>3. ASSUME NEW i \in DOMAIN bk
      PROVE  /\ bk[i].side \in Sides /\ bk[i].limit \in Prices
             /\ bk[i].limit \in Nat /\ bk[i].limit # 0
             /\ bk[i].qty \in Nat /\ bk[i].qty # 0
             /\ SizeOf(bk)[i] = bk[i].qty
  <2>1. bk[i] \in LimitOrder
    BY <1>1, <1>3
  <2>2. bk[i].side \in Sides /\ bk[i].limit \in Prices /\ bk[i].qty \in Sizes
    BY <2>1 DEF LimitOrder
  <2> QED
    BY <2>2, AuctionAssumption DEF AuctionAssumption, NoPrice, SizeOf
<1> QED
  BY <1>1, <1>2, <1>3

\* Some rows of a book have finitely many shares.
LEMMA RowsSum ==
  ASSUME NEW bk \in Seq(LimitOrder), NEW S \in SUBSET (DOMAIN bk)
  PROVE  /\ IsFiniteSet(S) /\ \A i \in S : SizeOf(bk)[i] \in Nat
         /\ SumFunctionOnSet(SizeOf(bk), S) \in Nat
<1>1. IsFiniteSet(S)
  BY BookRows, FS_Subset
<1>2. \A i \in S : SizeOf(bk)[i] \in Nat
  BY BookRows
<1> QED
  BY <1>1, <1>2, SumNat

\* A depth is the sum of the quantities that take part.
LEMMA DepthsAreSums ==
  ASSUME NEW bk \in Seq(LimitOrder), NEW p, NEW side
  PROVE  /\ Depth(side, bk, p) =
              SumFunctionOnSet(SizeOf(bk), {i \in Of(side, bk) : Willing(bk[i], p)})
         /\ Depth(side, bk, p) \in Nat
<1>1. {i \in Of(side, bk) : Willing(bk[i], p)} \in SUBSET (DOMAIN bk)
  BY DEF Of
<1> QED
  BY <1>1, RowsSum DEF Depth, SizeOf

\* The volume is the greatest quantity within both depths.
LEMMA VolumeIsLesser ==
  ASSUME NEW bk \in Seq(LimitOrder), NEW p
  PROVE  /\ Volume(bk, p) \in Nat
         /\ \A side \in Sides : Volume(bk, p) <= Depth(side, bk, p)
         /\ \A n \in Nat : n <= Depth("buy", bk, p) /\ n <= Depth("sell", bk, p) =>
              n <= Volume(bk, p)
<1>1. Depth("buy", bk, p) \in Nat /\ Depth("sell", bk, p) \in Nat
  BY DepthsAreSums
<1> QED
  BY <1>1 DEF Volume, Lesser, Sides

\* What an order takes is no more than what is left.
LEMMA TakesALittle ==
  ASSUME NEW bk \in Seq(LimitOrder), NEW p, NEW side, NEW i \in DOMAIN bk, NEW n \in Nat
  PROVE  /\ Take(side, bk, p, i, n) \in Nat /\ n - Take(side, bk, p, i, n) \in Nat
         /\ Take(side, bk, p, i, n) <= bk[i].qty
<1>1. bk[i].qty \in Nat
  BY BookRows
<1> QED
  BY <1>1 DEF Take, Lesser

\* The loop of the allotment computes what its rounds say.
LEMMA RemainingLoop ==
  ASSUME NEW bk \in Seq(LimitOrder), NEW p, NEW side
  PROVE  /\ Remaining(side, bk, p)[0] = Volume(bk, p)
         /\ \A n \in 1..Len(bk) :
              Remaining(side, bk, p)[n] = Remaining(side, bk, p)[n - 1]
                - Take(side, bk, p, n, Remaining(side, bk, p)[n - 1])
         /\ \A n \in 0..Len(bk) : Remaining(side, bk, p)[n] \in Nat
<1> DEFINE N == Len(bk)
           Is(f) == f = [n \in 0..N |->
                           IF n = 0 THEN Volume(bk, p)
                           ELSE f[n - 1] - Take(side, bk, p, n, f[n - 1])]
           step == [n \in 1..N |-> [x \in Nat |-> x - Take(side, bk, p, n, x)]]
<1>1. N \in Nat /\ DOMAIN bk = 1..N
  BY BookRows
<1>2. Volume(bk, p) \in Nat
  BY VolumeIsLesser
<1>3. \A n \in 1..N, x \in Nat : x - Take(side, bk, p, n, x) \in Nat
  BY <1>1, TakesALittle
<1>4. step \in [1..N -> [Nat -> Nat]]
  BY <1>3
<1>5. PICK f \in [0..N -> Nat] :
        f[0] = Volume(bk, p) /\ \A n \in 1..N : f[n] = step[n][f[n - 1]]
  <2> HIDE DEF step, N
  <2>1. N \in Nat
    BY <1>1
  <2> QED
    BY <1>2, <1>4, <2>1, LoopExists
<1>6. Is(f)
  <2>1. ASSUME NEW n \in 0..N
        PROVE  f[n] = IF n = 0 THEN Volume(bk, p)
                      ELSE f[n - 1] - Take(side, bk, p, n, f[n - 1])
    <3>1. CASE n = 0
      BY <1>5, <3>1
    <3>2. CASE n # 0
      <4>1. n \in 1..N /\ n - 1 \in 0..N
        BY <1>1, <3>2
      <4>2. f[n - 1] \in Nat
        BY <4>1
      <4>3. step[n][f[n - 1]] = f[n - 1] - Take(side, bk, p, n, f[n - 1])
        BY <4>1, <4>2
      <4>4. f[n] = step[n][f[n - 1]]
        <5> HIDE DEF step
        <5> QED
          BY <1>5, <4>1
      <4> QED
        BY <3>2, <4>3, <4>4
    <3> QED
      BY <3>1, <3>2
  <2>2. f = [n \in 0..N |-> f[n]]
    OBVIOUS
  <2> QED
    BY <2>1, <2>2
<1> DEFINE c == CHOOSE g : Is(g)
<1>7. Is(c)
  <2> HIDE DEF Is
  <2> QED
    BY <1>6
<1>8. c = Remaining(side, bk, p)
  BY DEF Remaining
<1> HIDE DEF c
<1>9. /\ c[0] = Volume(bk, p)
      /\ \A n \in 1..N : c[n] = c[n - 1] - Take(side, bk, p, n, c[n - 1])
  <2>1. 0 \in 0..N /\ \A n \in 1..N : n \in 0..N /\ n # 0
    BY <1>1
  <2> QED
    BY <1>7, <2>1
<1>10. \A n \in 0..N : c[n] \in Nat
  <2> DEFINE B == {n \in 0..N : c[n] \notin Nat}
  <2>1. SUFFICES ASSUME B # {} PROVE FALSE
    OBVIOUS
  <2>2. PICK m \in B : \A n \in B : m <= n
    <3>1. B \in SUBSET Nat
      BY <1>1
    <3> HIDE DEF B
    <3> QED
      BY <2>1, <3>1, LeastNat
  <2>3. m \in 1..N /\ m - 1 \in 0..N /\ m - 1 \notin B
    BY <1>1, <1>2, <1>9, <2>2
  <2>4. c[m - 1] \in Nat
    BY <2>3
  <2> QED
    BY <1>3, <1>9, <2>2, <2>3, <2>4
<1> QED
  BY <1>8, <1>9, <1>10

\* One more row, one more order that asks, if it takes part.
LEMMA AskedGrows ==
  ASSUME NEW bk \in Seq(LimitOrder), NEW p, NEW side
  PROVE  /\ \A n \in 0..Len(bk) : Asked(side, bk, p, n) \in Nat
         /\ Asked(side, bk, p, 0) = 0
         /\ \A n \in 0..Len(bk) : \A k \in 0..n :
              Asked(side, bk, p, k) <= Asked(side, bk, p, n)
         /\ Asked(side, bk, p, Len(bk)) = Depth(side, bk, p)
<1> DEFINE P(n) == Partakers(side, bk, p, n)
           A(n) == Asked(side, bk, p, n)
<1>1. Len(bk) \in Nat /\ DOMAIN bk = 1..Len(bk)
  BY BookRows
<1>2. ASSUME NEW n \in 0..Len(bk)
      PROVE  P(n) \in SUBSET (DOMAIN bk) /\ A(n) \in Nat
  <2>1. P(n) \in SUBSET (DOMAIN bk)
    BY DEF Partakers, Of
  <2> QED
    BY <2>1, RowsSum DEF Asked
<1>3. A(0) = 0
  <2>1. P(0) = {}
    BY <1>1 DEF Partakers, Of
  <2> QED
    BY <2>1, SumEmpty DEF Asked
<1>4. ASSUME NEW n \in 0..Len(bk), NEW k \in 0..n
      PROVE  A(k) <= A(n)
  <2>1. P(k) \in SUBSET P(n)
    BY <1>1 DEF Partakers, Of
  <2>2. IsFiniteSet(P(n)) /\ \A i \in P(n) : SizeOf(bk)[i] \in Nat
    BY <1>2, RowsSum
  <2> QED
    BY <2>1, <2>2, SumGrows DEF Asked
<1>5. A(Len(bk)) = Depth(side, bk, p)
  <2>1. P(Len(bk)) = {i \in Of(side, bk) : Willing(bk[i], p)}
    BY <1>1 DEF Partakers, Of
  <2> QED
    BY <2>1, DepthsAreSums DEF Asked
<1> HIDE DEF A
<1> QED
  BY <1>2, <1>3, <1>4, <1>5 DEF A

\* The next row asks for its quantity, if it takes part.
LEMMA AskedStep ==
  ASSUME NEW bk \in Seq(LimitOrder), NEW p, NEW side, NEW n \in 1..Len(bk)
  PROVE  /\ n \notin Partakers(side, bk, p, n) =>
              Asked(side, bk, p, n) = Asked(side, bk, p, n - 1)
         /\ n \in Partakers(side, bk, p, n) =>
              Asked(side, bk, p, n) = Asked(side, bk, p, n - 1) + bk[n].qty
<1> DEFINE P(k) == Partakers(side, bk, p, k)
<1>1. /\ Len(bk) \in Nat /\ DOMAIN bk = 1..Len(bk)
      /\ n \in DOMAIN bk /\ n - 1 \in 0..Len(bk)
  BY BookRows
<1>2. CASE n \notin P(n)
  <2>1. P(n) = P(n - 1)
    BY <1>1, <1>2 DEF Partakers, Of
  <2> QED
    BY <1>2, <2>1 DEF Asked
<1>3. CASE n \in P(n)
  <2>1. P(n) = P(n - 1) \cup {n} /\ n \notin P(n - 1)
    BY <1>1, <1>3 DEF Partakers, Of
  <2>2. P(n - 1) \in SUBSET (DOMAIN bk)
    BY DEF Partakers, Of
  <2>3. SizeOf(bk)[n] = bk[n].qty /\ bk[n].qty \in Int
    BY <1>1, BookRows
  <2> HIDE DEF P
  <2>4. IsFiniteSet(P(n - 1)) /\ \A i \in P(n - 1) : SizeOf(bk)[i] \in Nat
    BY <2>2, RowsSum
  <2>5. SumFunctionOnSet(SizeOf(bk), P(n - 1) \cup {n})
          = SumFunctionOnSet(SizeOf(bk), P(n - 1)) + SizeOf(bk)[n]
    BY <2>1, <2>3, <2>4, SumAdds
  <2> QED
    BY <1>3, <2>1, <2>3, <2>5 DEF Asked, P
<1> QED
  BY <1>2, <1>3

\* What remains is what the orders so far have not asked for.
LEMMA RemainsIs ==
  ASSUME NEW bk \in Seq(LimitOrder), NEW p, NEW side, NEW n \in 0..Len(bk)
  PROVE  Remaining(side, bk, p)[n] =
           IF Asked(side, bk, p, n) >= Volume(bk, p) THEN 0
           ELSE Volume(bk, p) - Asked(side, bk, p, n)
<1> DEFINE c == Remaining(side, bk, p)
           A(k) == Asked(side, bk, p, k)
           V == Volume(bk, p)
           B == {k \in 0..Len(bk) : c[k] # IF A(k) >= V THEN 0 ELSE V - A(k)}
<1>1. SUFFICES ASSUME B # {} PROVE FALSE
  <2>1. n \notin B => c[n] = IF A(n) >= V THEN 0 ELSE V - A(n)
    OBVIOUS
  <2> QED
    BY <2>1
<1>2. Len(bk) \in Nat /\ DOMAIN bk = 1..Len(bk) /\ V \in Nat
  BY BookRows, VolumeIsLesser
<1>3. PICK m \in B : \A k \in B : m <= k
  <2>1. B \in SUBSET Nat
    BY <1>2
  <2> HIDE DEF B
  <2> QED
    BY <1>1, <2>1, LeastNat
<1>4. m # 0
  <2>1. c[0] = V /\ A(0) = 0
    BY RemainingLoop, AskedGrows
  <2> HIDE DEF A, c, V
  <2> QED
    BY <1>2, <1>3, <2>1
<1>5. m \in 1..Len(bk) /\ m - 1 \in 0..Len(bk) /\ m - 1 \notin B /\ m \in 0..Len(bk)
  BY <1>2, <1>3, <1>4
<1>6. c[m - 1] = IF A(m - 1) >= V THEN 0 ELSE V - A(m - 1)
  <2> HIDE DEF A, c, V
  <2> QED
    BY <1>5
<1>7. /\ A(m - 1) \in Nat /\ c[m - 1] \in Nat
      /\ c[m] = c[m - 1] - Take(side, bk, p, m, c[m - 1])
  BY <1>5, RemainingLoop, AskedGrows
<1>8. /\ m \notin Partakers(side, bk, p, m) => A(m) = A(m - 1)
      /\ m \in Partakers(side, bk, p, m) => A(m) = A(m - 1) + bk[m].qty
  BY <1>5, AskedStep
<1>9. /\ m \notin Partakers(side, bk, p, m) => Take(side, bk, p, m, c[m - 1]) = 0
      /\ m \in Partakers(side, bk, p, m) =>
           Take(side, bk, p, m, c[m - 1]) = Lesser(bk[m].qty, c[m - 1])
      /\ bk[m].qty \in Nat
  <2>1. m \in DOMAIN bk /\ m <= m /\ bk[m].qty \in Nat
    BY <1>2, <1>5, BookRows
  <2> HIDE DEF c
  <2> QED
    BY <2>1 DEF Take, Partakers, Of
<1>10. c[m] # IF A(m) >= V THEN 0 ELSE V - A(m)
  BY <1>3
<1> HIDE DEF A, c, V
<1> QED
  BY <1>2, <1>6, <1>7, <1>8, <1>9, <1>10 DEF Lesser

\* An order is given what it takes of what remains.
LEMMA AllotTakes ==
  ASSUME NEW bk \in Seq(LimitOrder), NEW p, NEW side, NEW i \in Of(side, bk)
  PROVE  /\ i \in 1..Len(bk) /\ i \in DOMAIN bk
         /\ Remaining(side, bk, p)[i - 1] \in Nat
         /\ Allot(bk, p)[i] = Take(side, bk, p, i, Remaining(side, bk, p)[i - 1])
<1>1. i \in DOMAIN bk /\ bk[i].side = side /\ i \in 1..Len(bk) /\ i - 1 \in 0..Len(bk)
  BY BookRows DEF Of
<1>2. Allot(bk, p)[i] = Take(side, bk, p, i, Remaining(side, bk, p)[i - 1])
  BY <1>1 DEF Allot
<1> QED
  BY <1>1, <1>2, RemainingLoop

\* An allotment is a quantity, and no more than was ordered.
LEMMA AllotTypes ==
  ASSUME NEW bk \in Seq(LimitOrder), NEW p
  PROVE  /\ Allot(bk, p) \in [DOMAIN bk -> Nat]
         /\ \A i \in DOMAIN bk : Allot(bk, p)[i] <= bk[i].qty
<1>1. ASSUME NEW i \in DOMAIN bk
      PROVE  Allot(bk, p)[i] \in Nat /\ Allot(bk, p)[i] <= bk[i].qty
  <2>1. i \in Of(bk[i].side, bk)
    BY DEF Of
  <2>2. /\ Remaining(bk[i].side, bk, p)[i - 1] \in Nat
        /\ Allot(bk, p)[i]
             = Take(bk[i].side, bk, p, i, Remaining(bk[i].side, bk, p)[i - 1])
    BY <2>1, AllotTakes
  <2>3. \A n \in Nat : /\ Take(bk[i].side, bk, p, i, n) \in Nat
                       /\ Take(bk[i].side, bk, p, i, n) <= bk[i].qty
    BY TakesALittle
  <2> QED
    BY <2>2, <2>3
<1>2. Allot(bk, p) = [i \in DOMAIN bk |-> Allot(bk, p)[i]]
  BY DEF Allot
<1> QED
  BY <1>1, <1>2

\* What the rows up to n of a side are given is what is gone.
LEMMA GivenIsGone ==
  ASSUME NEW bk \in Seq(LimitOrder), NEW p, NEW side, NEW n \in 0..Len(bk)
  PROVE  SumFunctionOnSet(Allot(bk, p), {i \in Of(side, bk) : i <= n})
           = Volume(bk, p) - Remaining(side, bk, p)[n]
<1> DEFINE c == Remaining(side, bk, p)
           S(k) == {i \in Of(side, bk) : i <= k}
           G(k) == SumFunctionOnSet(Allot(bk, p), S(k))
           V == Volume(bk, p)
           B == {k \in 0..Len(bk) : G(k) # V - c[k]}
<1>1. SUFFICES ASSUME B # {} PROVE FALSE
  <2>1. n \notin B => G(n) = V - c[n]
    OBVIOUS
  <2> QED
    BY <2>1
<1>2. Len(bk) \in Nat /\ DOMAIN bk = 1..Len(bk) /\ V \in Nat
  BY BookRows, VolumeIsLesser
<1>3. PICK m \in B : \A k \in B : m <= k
  <2>1. B \in SUBSET Nat
    BY <1>2
  <2> HIDE DEF B
  <2> QED
    BY <1>1, <2>1, LeastNat
<1>4. m # 0
  <2>1. S(0) = {}
    BY <1>2 DEF Of
  <2>2. c[0] = V /\ G(0) = 0
    BY <2>1, RemainingLoop, SumEmpty
  <2> HIDE DEF G, c, V
  <2> QED
    BY <1>2, <1>3, <2>2
<1>5. m \in 1..Len(bk) /\ m - 1 \in 0..Len(bk) /\ m - 1 \notin B
  BY <1>2, <1>3, <1>4
<1>6. G(m - 1) = V - c[m - 1] /\ c[m - 1] \in Nat
  <2>1. G(m - 1) = V - c[m - 1]
    <3> HIDE DEF G, c, V
    <3> QED
      BY <1>5
  <2> QED
    BY <1>5, <2>1, RemainingLoop
<1>7. c[m] = c[m - 1] - Take(side, bk, p, m, c[m - 1])
  BY <1>5, RemainingLoop
<1>8. G(m) # V - c[m]
  BY <1>3
<1>9. CASE m \in Of(side, bk)
  <2>1. S(m) = S(m - 1) \cup {m} /\ m \notin S(m - 1)
    BY <1>2, <1>5, <1>9 DEF Of
  <2>2. S(m - 1) \in SUBSET (DOMAIN bk) /\ IsFiniteSet(S(m - 1))
    <3>1. S(m - 1) \in SUBSET (DOMAIN bk)
      BY DEF Of
    <3> QED
      BY <3>1, RowsSum
  <2>3. \A i \in S(m - 1) : Allot(bk, p)[i] \in Int
    BY <2>2, AllotTypes
  <2>4. Allot(bk, p)[m] \in Nat /\ Allot(bk, p)[m] = Take(side, bk, p, m, c[m - 1])
    BY <1>9, AllotTakes, AllotTypes
  <2>5. G(m) = G(m - 1) + Allot(bk, p)[m]
    <3> HIDE DEF S
    <3>1. SumFunctionOnSet(Allot(bk, p), S(m - 1) \cup {m})
            = SumFunctionOnSet(Allot(bk, p), S(m - 1)) + Allot(bk, p)[m]
      BY <2>1, <2>2, <2>3, <2>4, SumAdds
    <3> QED
      BY <2>1, <3>1
  <2> HIDE DEF G, c, V
  <2> QED
    BY <1>2, <1>6, <1>7, <1>8, <2>4, <2>5
<1>10. CASE m \notin Of(side, bk)
  <2>1. S(m) = S(m - 1)
    BY <1>2, <1>5, <1>10 DEF Of
  <2>2. Take(side, bk, p, m, c[m - 1]) = 0
    BY <1>2, <1>5, <1>10 DEF Take, Of
  <2>3. G(m) = G(m - 1)
    BY <2>1
  <2> HIDE DEF G, c, V
  <2> QED
    BY <1>2, <1>6, <1>7, <1>8, <2>2, <2>3
<1> QED
  BY <1>9, <1>10

\* Both sides get the volume, first come first served.
LEMMA AllotIsFair ==
  ASSUME NEW bk \in Seq(LimitOrder), NEW p, NEW side \in Sides
  PROVE  /\ SumFunctionOnSet(Allot(bk, p), Of(side, bk)) = Volume(bk, p)
         /\ \A i \in Of(side, bk) : Allot(bk, p)[i] > 0 =>
              /\ Willing(bk[i], p)
              /\ \A j \in Of(side, bk) :
                   j < i /\ Willing(bk[j], p) => Allot(bk, p)[j] = bk[j].qty
<1> DEFINE c == Remaining(side, bk, p)
           A(k) == Asked(side, bk, p, k)
           V == Volume(bk, p)
<1>1. Len(bk) \in Nat /\ DOMAIN bk = 1..Len(bk) /\ V \in Nat /\ Len(bk) \in 0..Len(bk)
  BY BookRows, VolumeIsLesser
<1>2. SumFunctionOnSet(Allot(bk, p), Of(side, bk)) = V
  <2>1. A(Len(bk)) = Depth(side, bk, p) /\ Depth(side, bk, p) >= V
    BY AskedGrows, VolumeIsLesser, DepthsAreSums
  <2>2. c[Len(bk)] = 0
    BY <1>1, <2>1, RemainsIs
  <2>3. {i \in Of(side, bk) : i <= Len(bk)} = Of(side, bk)
    BY <1>1 DEF Of
  <2>4. SumFunctionOnSet(Allot(bk, p), {i \in Of(side, bk) : i <= Len(bk)})
          = V - c[Len(bk)]
    BY <1>1, GivenIsGone
  <2>5. SumFunctionOnSet(Allot(bk, p), Of(side, bk)) = V - c[Len(bk)]
    BY <2>3, <2>4, Zenon
  <2>6. V - c[Len(bk)] = V
    <3> HIDE DEF V, c
    <3> QED
      BY <1>1, <2>2
  <2> QED
    BY <2>5, <2>6, Zenon
<1>3. ASSUME NEW i \in Of(side, bk), Allot(bk, p)[i] > 0
      PROVE  /\ Willing(bk[i], p)
             /\ \A j \in Of(side, bk) :
                  j < i /\ Willing(bk[j], p) => Allot(bk, p)[j] = bk[j].qty
  <2>1. /\ i \in 1..Len(bk) /\ i \in DOMAIN bk /\ c[i - 1] \in Nat
        /\ Take(side, bk, p, i, c[i - 1]) > 0 /\ bk[i].qty \in Nat
    BY <1>3, AllotTakes, BookRows
  <2>2. Willing(bk[i], p) /\ c[i - 1] > 0
    BY <2>1 DEF Take, Lesser
  <2>3. i - 1 \in 0..Len(bk) /\ A(i - 1) < V
    <3>1. i - 1 \in 0..Len(bk)
      BY <1>1, <2>1
    <3>2. c[i - 1] = IF A(i - 1) >= V THEN 0 ELSE V - A(i - 1)
      BY <3>1, RemainsIs
    <3>3. A(i - 1) \in Nat
      BY <3>1, AskedGrows
    <3> HIDE DEF A, c, V
    <3> QED
      BY <1>1, <2>2, <3>1, <3>2, <3>3
  <2>4. ASSUME NEW j \in Of(side, bk), j < i, Willing(bk[j], p)
        PROVE  Allot(bk, p)[j] = bk[j].qty
    <3>1. /\ j \in 1..Len(bk) /\ j \in DOMAIN bk /\ c[j - 1] \in Nat
          /\ Allot(bk, p)[j] = Take(side, bk, p, j, c[j - 1]) /\ bk[j].qty \in Nat
      BY AllotTakes, BookRows
    <3>2. j \in 0..(i - 1) /\ j \in 0..Len(bk) /\ bk[j].side = side
      BY <1>1, <2>1, <2>4, <3>1 DEF Of
    <3>3. A(j) <= A(i - 1) /\ A(j) \in Nat /\ A(i - 1) \in Nat
      BY <2>3, <3>2, AskedGrows
    <3>4. c[j] = IF A(j) >= V THEN 0 ELSE V - A(j)
      BY <3>2, RemainsIs
    <3>5. c[j] = c[j - 1] - Take(side, bk, p, j, c[j - 1])
      BY <3>1, RemainingLoop
    <3>6. Take(side, bk, p, j, c[j - 1]) = Lesser(bk[j].qty, c[j - 1])
      BY <2>4, <3>2 DEF Take
    <3> HIDE DEF A, c, V
    <3> QED
      BY <1>1, <2>3, <3>1, <3>3, <3>4, <3>5, <3>6 DEF Lesser
  <2> QED
    BY <2>2, <2>4
<1> QED
  BY <1>2, <1>3

\* A book has finitely many limits, and they are prices.
LEMMA LimitsAreFinite ==
  ASSUME NEW bk \in Seq(LimitOrder)
  PROVE  /\ \A side : /\ LimitsOf(side, bk) \in SUBSET Nat
                      /\ IsFiniteSet(LimitsOf(side, bk))
         /\ Candidates(bk) \in SUBSET Nat /\ IsFiniteSet(Candidates(bk))
         /\ \A q \in Candidates(bk) : q \in Prices /\ q # 0
<1>1. ASSUME NEW side
      PROVE  LimitsOf(side, bk) \in SUBSET Nat /\ IsFiniteSet(LimitsOf(side, bk))
  <2>1. IsFiniteSet(Of(side, bk))
    BY BookRows, FS_Subset DEF Of
  <2>2. IsFiniteSet(LimitsOf(side, bk))
    <3> DEFINE f == [i \in Of(side, bk) |-> bk[i].limit]
    <3>1. LimitsOf(side, bk) = {f[i] : i \in Of(side, bk)}
      BY DEF LimitsOf
    <3> HIDE DEF f
    <3> QED
      BY <2>1, <3>1, ValuesFinite
  <2>3. LimitsOf(side, bk) \in SUBSET Nat
    BY BookRows DEF LimitsOf, Of
  <2> QED
    BY <2>2, <2>3
<1>2. Candidates(bk) \in SUBSET Nat /\ IsFiniteSet(Candidates(bk))
  BY <1>1, FS_Union DEF Candidates
<1>3. \A q \in Candidates(bk) : q \in Prices /\ q # 0
  BY BookRows DEF Candidates, LimitsOf, Of
<1> QED
  BY <1>1, <1>2, <1>3

\* The greatest and the least limit.
LEMMA MaxLimit ==
  ASSUME NEW S \in SUBSET Nat, IsFiniteSet(S), S # {}
  PROVE  /\ Max(S) \in S /\ \A q \in S : q <= Max(S)
         /\ Min(S) \in S /\ \A q \in S : Min(S) <= q
<1>1. \E x \in S : \A y \in S : x >= y
  BY LargestNat
<1>2. \E x \in S : \A y \in S : x <= y
  BY LeastNat
<1>3. Max(S) \in S /\ \A y \in S : Max(S) >= y
  BY <1>1, Zenon DEF Max
<1>4. Min(S) \in S /\ \A y \in S : Min(S) <= y
  BY <1>2, Zenon DEF Min
<1> QED
  BY <1>3, <1>4

\* Where something trades, there is a buyer and a seller.
LEMMA VolumeNeedsBoth ==
  ASSUME NEW bk \in Seq(LimitOrder), NEW p \in Nat, Volume(bk, p) > 0
  PROVE  /\ \E i \in Of("buy", bk) : Willing(bk[i], p)
         /\ \E j \in Of("sell", bk) : Willing(bk[j], p)
         /\ ~NoOverlap(bk)
<1> DEFINE W(side) == {i \in Of(side, bk) : Willing(bk[i], p)}
<1>1. ASSUME NEW side \in Sides
      PROVE  W(side) # {}
  <2>1. Depth(side, bk, p) \in Nat /\ Depth(side, bk, p) # 0
    <3>1. Volume(bk, p) \in Nat /\ Volume(bk, p) <= Depth(side, bk, p)
      BY VolumeIsLesser
    <3>2. Depth(side, bk, p) \in Nat
      BY DepthsAreSums
    <3> QED
      BY <3>1, <3>2
  <2>2. Depth(side, bk, p) = SumFunctionOnSet(SizeOf(bk), W(side))
    BY DepthsAreSums
  <2> QED
    BY <2>1, <2>2, SumEmpty
<1>2. PICK i \in Of("buy", bk) : Willing(bk[i], p)
  BY <1>1 DEF Sides
<1>3. PICK j \in Of("sell", bk) : Willing(bk[j], p)
  BY <1>1 DEF Sides
<1>4. bk[i].limit >= p /\ bk[j].limit <= p /\ bk[i].limit \in Nat /\ bk[j].limit \in Nat
  BY <1>2, <1>3, BookRows DEF Willing, Of
<1> QED
  BY <1>2, <1>3, <1>4 DEF NoOverlap

\* No price trades more than some limit of the book.
LEMMA LimitsTradeMost ==
  ASSUME NEW bk \in Seq(LimitOrder), NEW p \in Nat, Volume(bk, p) > 0
  PROVE  \E q \in Candidates(bk) : Volume(bk, p) <= Volume(bk, q)
<1> DEFINE S == {q \in LimitsOf("sell", bk) : q <= p}
           W(side, q) == {i \in Of(side, bk) : Willing(bk[i], q)}
<1>1. S \in SUBSET Nat /\ IsFiniteSet(S)
  BY LimitsAreFinite, FS_Subset
<1>2. S # {}
  BY VolumeNeedsBoth DEF LimitsOf, Willing, Of
<1>3. PICK q \in S : \A r \in S : r <= q
  <2> HIDE DEF S
  <2> QED
    BY <1>1, <1>2, LargestNat
<1>4. q \in Nat /\ q <= p /\ q \in Candidates(bk)
  BY <1>1, <1>3 DEF Candidates
<1>5. W("buy", p) \in SUBSET W("buy", q)
  BY <1>4, BookRows DEF Willing, Of
<1>6. W("sell", p) \in SUBSET W("sell", q)
  <2>1. ASSUME NEW i \in W("sell", p)
        PROVE  i \in W("sell", q)
    <3>1. i \in Of("sell", bk) /\ bk[i].side = "sell" /\ bk[i].limit <= p
      BY <2>1 DEF Willing, Of
    <3>2. bk[i].limit <= q
      BY <1>3, <3>1 DEF LimitsOf
    <3> QED
      BY <3>1, <3>2 DEF Willing
  <2> QED
    BY <2>1
<1>7. ASSUME NEW side \in Sides
      PROVE  Depth(side, bk, p) <= Depth(side, bk, q)
  <2>1. W(side, p) \in SUBSET W(side, q)
    BY <1>5, <1>6 DEF Sides
  <2>2. W(side, q) \in SUBSET (DOMAIN bk)
    BY DEF Of
  <2> HIDE DEF W
  <2>3. IsFiniteSet(W(side, q)) /\ \A i \in W(side, q) : SizeOf(bk)[i] \in Nat
    BY <2>2, RowsSum
  <2>4. SumFunctionOnSet(SizeOf(bk), W(side, p))
          <= SumFunctionOnSet(SizeOf(bk), W(side, q))
    BY <2>1, <2>3, SumGrows
  <2> QED
    BY <2>4, DepthsAreSums DEF W
<1>8. Volume(bk, p) <= Volume(bk, q)
  <2>1. /\ Depth("buy", bk, p) \in Nat /\ Depth("sell", bk, p) \in Nat
        /\ Depth("buy", bk, q) \in Nat /\ Depth("sell", bk, q) \in Nat
    BY DepthsAreSums
  <2>2. /\ Depth("buy", bk, p) <= Depth("buy", bk, q)
        /\ Depth("sell", bk, p) <= Depth("sell", bk, q)
    BY <1>7 DEF Sides
  <2> QED
    BY <2>1, <2>2 DEF Volume, Lesser
<1> QED
  BY <1>4, <1>8

\* What the score compares are whole numbers.
LEMMA ScoreTypes ==
  ASSUME NEW bk \in Seq(LimitOrder), NEW ref \in Nat, NEW p \in Nat
  PROVE  Volume(bk, p) \in Nat /\ Imbalance(bk, p) \in Nat /\ Abs(2 * p - ref) \in Nat
<1>1. Depth("buy", bk, p) \in Nat /\ Depth("sell", bk, p) \in Nat
  BY DepthsAreSums
<1> QED
  BY <1>1, VolumeIsLesser DEF Imbalance, Abs

\* Of two prices one beats the other, and beating is transitive.
LEMMA BeatsIsOrder ==
  ASSUME NEW bk \in Seq(LimitOrder), NEW ref \in Nat,
         NEW p \in Nat, NEW q \in Nat, NEW r \in Nat
  PROVE  /\ p = q \/ Beats(bk, ref, p, q) \/ Beats(bk, ref, q, p)
         /\ Beats(bk, ref, p, q) /\ Beats(bk, ref, q, r) => Beats(bk, ref, p, r)
<1> DEFINE v(x) == Volume(bk, x)
           i(x) == Imbalance(bk, x)
           d(x) == Abs(2 * x - ref)
<1>1. \A x \in {p, q, r} : v(x) \in Nat /\ i(x) \in Nat /\ d(x) \in Nat
  BY ScoreTypes
<1>2. ASSUME NEW x \in {p, q, r}, NEW y \in {p, q, r}
      PROVE  Beats(bk, ref, x, y) <=>
               \/ v(x) > v(y)
               \/ v(x) = v(y) /\ i(x) < i(y)
               \/ v(x) = v(y) /\ i(x) = i(y) /\ d(x) < d(y)
               \/ v(x) = v(y) /\ i(x) = i(y) /\ d(x) = d(y) /\ x > y
  BY DEF Beats
<1> HIDE DEF v, i, d
<1> QED
  BY <1>1, <1>2

\* The best of the candidates up to n: none if none trades.
BestOf(bk, ref, n, best) ==
  IF best = NoPrice THEN \A q \in Candidates(bk) : q <= n => Volume(bk, q) = 0
  ELSE /\ best \in Candidates(bk) /\ best <= n /\ Volume(bk, best) > 0
       /\ \A q \in Candidates(bk) :
            q <= n /\ q # best /\ Volume(bk, q) > 0 => Beats(bk, ref, best, q)

\* A round of the loop keeps the best.
LEMMA BetterKeeps ==
  ASSUME NEW bk \in Seq(LimitOrder), NEW ref \in Nat, NEW n \in Nat, n > 0,
         NEW best \in Nat, BestOf(bk, ref, n - 1, best)
  PROVE  BestOf(bk, ref, n, Better(bk, ref, n, best))
<1> DEFINE b == Better(bk, ref, n, best)
           C == Candidates(bk)
<1>1. /\ C \in SUBSET Nat
      /\ \A q \in C : q # 0 /\ q \in Nat /\ Volume(bk, q) \in Nat
  BY LimitsAreFinite, ScoreTypes
<1>2. \A q \in C : q <= n => q <= n - 1 \/ q = n
  BY <1>1
<1>3. CASE n \in C /\ Volume(bk, n) > 0 /\ best = NoPrice
  <2>1. b = n
    BY <1>3 DEF Better
  <2>2. \A q \in C : q <= n /\ q # n => Volume(bk, q) = 0
    BY <1>2, <1>3 DEF BestOf
  <2> QED
    BY <1>1, <1>3, <2>1, <2>2 DEF BestOf, NoPrice
<1>4. CASE n \in C /\ Volume(bk, n) > 0 /\ best # NoPrice /\ Beats(bk, ref, n, best)
  <2>1. b = n
    BY <1>4 DEF Better
  <2>2. ASSUME NEW q \in C, q <= n, q # n, Volume(bk, q) > 0
        PROVE  Beats(bk, ref, n, q)
    <3>1. q \in Nat /\ q <= n - 1
      BY <1>1, <1>2, <2>2
    <3>2. q = best \/ Beats(bk, ref, best, q)
      BY <1>4, <2>2, <3>1 DEF BestOf
    <3> QED
      BY <1>4, <3>1, <3>2, BeatsIsOrder
  <2> QED
    BY <1>1, <1>4, <2>1, <2>2 DEF BestOf, NoPrice
<1>5. CASE n \in C /\ Volume(bk, n) > 0 /\ best # NoPrice /\ ~Beats(bk, ref, n, best)
  <2>1. b = best
    BY <1>5 DEF Better
  <2>2. best # n /\ best <= n - 1
    BY <1>5 DEF BestOf
  <2>3. Beats(bk, ref, best, n)
    BY <1>5, <2>2, BeatsIsOrder
  <2> QED
    BY <1>1, <1>2, <1>5, <2>1, <2>2, <2>3 DEF BestOf
<1>6. CASE n \notin C \/ ~(Volume(bk, n) > 0)
  <2>1. b = best
    BY <1>6 DEF Better
  <2>2. n \in C => Volume(bk, n) = 0
    BY <1>1, <1>6
  <2> QED
    BY <1>1, <1>2, <2>1, <2>2 DEF BestOf
<1> QED
  BY <1>3, <1>4, <1>5, <1>6

\* The loop ends with the best of all limits.
LEMMA BestBeats ==
  ASSUME NEW bk \in Seq(LimitOrder), NEW ref \in Nat, ~NoOverlap(bk)
  PROVE  LET best == Equilibrium(bk, ref)
         IN  BestOf(bk, ref, Max(Candidates(bk)), best)
<1> DEFINE N == Max(Candidates(bk))
           Is(f) == f = [n \in 0..N |-> IF n = 0 THEN NoPrice
                                        ELSE Better(bk, ref, n, f[n - 1])]
           step == [n \in 1..N |-> [x \in Nat |-> Better(bk, ref, n, x)]]
<1>1. N \in Nat
  <2>1. Candidates(bk) # {}
    BY DEF NoOverlap, Candidates, LimitsOf
  <2> QED
    BY <2>1, LimitsAreFinite, MaxLimit
<1> HIDE DEF N
<1>2. \A n \in 1..N, x \in Nat : Better(bk, ref, n, x) \in Nat
  BY <1>1 DEF Better
<1>3. step \in [1..N -> [Nat -> Nat]]
  BY <1>2
<1>4. PICK f \in [0..N -> Nat] :
        f[0] = NoPrice /\ \A n \in 1..N : f[n] = step[n][f[n - 1]]
  <2> HIDE DEF step
  <2>1. NoPrice \in Nat
    BY DEF NoPrice
  <2> QED
    BY <1>1, <1>3, <2>1, LoopExists
<1>5. Is(f)
  <2>1. ASSUME NEW n \in 0..N
        PROVE  f[n] = IF n = 0 THEN NoPrice ELSE Better(bk, ref, n, f[n - 1])
    <3>1. CASE n = 0
      BY <1>4, <3>1
    <3>2. CASE n # 0
      <4>1. n \in 1..N /\ n - 1 \in 0..N
        BY <1>1, <3>2
      <4>2. f[n - 1] \in Nat
        BY <4>1
      <4>3. step[n][f[n - 1]] = Better(bk, ref, n, f[n - 1])
        BY <4>1, <4>2
      <4>4. f[n] = step[n][f[n - 1]]
        <5> HIDE DEF step
        <5> QED
          BY <1>4, <4>1
      <4> QED
        BY <3>2, <4>3, <4>4
    <3> QED
      BY <3>1, <3>2
  <2>2. f = [n \in 0..N |-> f[n]]
    OBVIOUS
  <2> QED
    BY <2>1, <2>2
<1> DEFINE c == CHOOSE g : Is(g)
<1>6. Is(c)
  <2> HIDE DEF Is
  <2> QED
    BY <1>5
<1>7. Equilibrium(bk, ref) = c[N]
  BY DEF Equilibrium, N
<1> HIDE DEF c
<1>8. c[0] = NoPrice /\ \A n \in 1..N : c[n] = Better(bk, ref, n, c[n - 1])
  <2>1. 0 \in 0..N /\ \A n \in 1..N : n \in 0..N /\ n # 0
    BY <1>1
  <2> QED
    BY <1>6, <2>1
<1> DEFINE B == {n \in 0..N : ~(c[n] \in Nat /\ BestOf(bk, ref, n, c[n]))}
<1>9. B = {}
  <2>1. SUFFICES ASSUME B # {} PROVE FALSE
    OBVIOUS
  <2>2. PICK m \in B : \A n \in B : m <= n
    <3>1. B \in SUBSET Nat
      BY <1>1
    <3> HIDE DEF B
    <3> QED
      BY <2>1, <3>1, LeastNat
  <2>3. m # 0
    <3>1. \A q \in Candidates(bk) : ~(q <= 0)
      BY LimitsAreFinite
    <3> QED
      BY <1>8, <2>2, <3>1 DEF BestOf, NoPrice
  <2>4. /\ m \in 1..N /\ m - 1 \in 0..N /\ m - 1 \notin B
        /\ m \in Nat /\ m > 0
    BY <1>1, <2>2, <2>3
  <2>5. c[m - 1] \in Nat /\ BestOf(bk, ref, m - 1, c[m - 1])
    BY <2>4
  <2>6. BestOf(bk, ref, m, Better(bk, ref, m, c[m - 1]))
    BY <2>4, <2>5, BetterKeeps
  <2> QED
    BY <1>2, <1>8, <2>2, <2>4, <2>5, <2>6
<1> QED
  <2>1. N \in 0..N /\ N \notin B
    BY <1>1, <1>9
  <2>2. BestOf(bk, ref, N, c[N])
    BY <2>1
  <2> QED
    BY <1>7, <2>2 DEF N

\* The price of the loop follows the rules, over all prices.
LEMMA EquilibriumIsRight ==
  ASSUME NEW bk \in Seq(LimitOrder), NEW ref \in Nat, NEW pr, pr = Equilibrium(bk, ref)
  PROVE  /\ pr \in Prices \cup {NoPrice}
         /\ pr = NoPrice => \A p \in Prices : Volume(bk, p) = 0
         /\ pr # NoPrice =>
              /\ Volume(bk, pr) > 0
              /\ \A p \in Prices : Volume(bk, p) <= Volume(bk, pr)
              /\ \A p \in Candidates(bk) :
                   p # pr /\ Volume(bk, p) = Volume(bk, pr) => Beats(bk, ref, pr, p)
<1>1. \A p \in Prices : p \in Nat /\ Volume(bk, p) \in Nat
  BY ScoreTypes, AuctionAssumption DEF AuctionAssumption
<1>2. CASE NoOverlap(bk)
  <2>1. pr = NoPrice
    BY <1>2 DEF Equilibrium
  <2>2. \A p \in Prices : ~(Volume(bk, p) > 0)
    BY <1>1, <1>2, VolumeNeedsBoth
  <2> QED
    BY <1>1, <2>1, <2>2
<1>3. CASE ~NoOverlap(bk)
  <2> DEFINE C == Candidates(bk)
  <2>1. BestOf(bk, ref, Max(C), pr)
    BY <1>3, BestBeats
  <2>2. /\ \A q \in C : q \in Nat /\ q \in Prices /\ q # 0 /\ Volume(bk, q) \in Nat
    BY LimitsAreFinite, ScoreTypes
  <2>3. \A q \in C : q <= Max(C)
    <3>1. C # {}
      BY <1>3 DEF NoOverlap, Candidates, LimitsOf
    <3> QED
      BY <3>1, LimitsAreFinite, MaxLimit
  <2>4. CASE pr = NoPrice
    <3>1. \A q \in C : Volume(bk, q) = 0
      BY <2>1, <2>3, <2>4 DEF BestOf
    <3>2. \A p \in Prices : ~(Volume(bk, p) > 0)
      <4>1. SUFFICES ASSUME NEW p \in Prices, Volume(bk, p) > 0 PROVE FALSE
        OBVIOUS
      <4>2. PICK q \in C : Volume(bk, p) <= Volume(bk, q)
        BY <1>1, <4>1, LimitsTradeMost
      <4> QED
        BY <1>1, <3>1, <4>1, <4>2
    <3> QED
      BY <1>1, <2>4, <3>2
  <2>5. CASE pr # NoPrice
    <3>1. pr \in C /\ Volume(bk, pr) > 0
      BY <2>1, <2>5 DEF BestOf
    <3>2. \A q \in C : q # pr /\ Volume(bk, q) > 0 => Beats(bk, ref, pr, q)
      BY <2>1, <2>3, <2>5 DEF BestOf
    <3>3. \A q \in C : Volume(bk, q) <= Volume(bk, pr)
      <4>1. ASSUME NEW q \in C
            PROVE  Volume(bk, q) <= Volume(bk, pr)
        <5>1. Volume(bk, q) \in Nat /\ Volume(bk, pr) \in Nat
          BY <2>2, <3>1
        <5>2. Beats(bk, ref, pr, q) => Volume(bk, pr) >= Volume(bk, q)
          BY <5>1 DEF Beats
        <5> QED
          BY <3>1, <3>2, <5>1, <5>2
      <4> QED
        BY <4>1
    <3>4. ASSUME NEW p \in Prices
          PROVE  Volume(bk, p) <= Volume(bk, pr)
      <4>1. CASE Volume(bk, p) > 0
        <5>1. PICK q \in C : Volume(bk, p) <= Volume(bk, q)
          BY <1>1, <4>1, LimitsTradeMost
        <5> QED
          BY <1>1, <2>2, <3>1, <3>3, <5>1
      <4>2. CASE ~(Volume(bk, p) > 0)
        BY <1>1, <2>2, <3>1, <4>2
      <4> QED
        BY <4>1, <4>2
    <3>5. \A p \in C : p # pr /\ Volume(bk, p) = Volume(bk, pr) => Beats(bk, ref, pr, p)
      BY <3>1, <3>2
    <3> QED
      BY <2>2, <2>5, <3>1, <3>4, <3>5
  <2> QED
    BY <2>4, <2>5
<1> QED
  BY <1>2, <1>3

\* The reference price is a whole number.
LEMMA ReferenceTypes ==
  ASSUME NEW bk \in Seq(LimitOrder), ~NoOverlap(bk), NEW ref \in References \cup {NoPrice}
  PROVE  TwiceReference(bk, ref) \in Nat
<1>1. LimitsOf("buy", bk) # {} /\ LimitsOf("sell", bk) # {}
  BY DEF NoOverlap, LimitsOf
<1>2. Max(LimitsOf("buy", bk)) \in Nat /\ Min(LimitsOf("sell", bk)) \in Nat
  BY <1>1, LimitsAreFinite, MaxLimit
<1>3. ref \in Nat
  BY AuctionAssumption DEF AuctionAssumption, NoPrice
<1> QED
  BY <1>2, <1>3 DEF TwiceReference

-----------------------------------------------------------------------------
(* The inductive invariant of the auction.                                  *)

\* What the match gives each row.
Allotted == IF price = NoPrice THEN [i \in DOMAIN rows |-> 0] ELSE Allot(rows, price)

\* Until the match the orders rest.
Resting(bk) == \A i \in DOMAIN bk : bk[i].status = "pending" /\ bk[i].traded = 0
Collected == stage = "collect" => rows = <<>> /\ Resting(book)

\* The match is about the book, and the price is the equilibrium price.
Matched ==
  stage # "collect" =>
    /\ DOMAIN book = DOMAIN rows /\ Resting(rows)
    /\ \A i \in DOMAIN rows :
         book[i].side = rows[i].side /\ book[i].qty = rows[i].qty
    /\ price = Equilibrium(rows, reference)

\* A fill that is still to come is whole, and its order has had none.
Planned ==
  \A i \in DOMAIN rows : plan[i] > 0 =>
    /\ plan[i] = Allotted[i] /\ book[i].traded = 0
    /\ book[i].status \in {"pending", "cancelled"}

\* Nothing is lost: an order that was not cancelled has its fill or gets it.
Handed ==
  stage \in {"run", "done"} =>
    \A i \in DOMAIN rows :
      book[i].status # "cancelled" => book[i].traded + plan[i] = Allotted[i]

\* The run goes on exactly as long as a fill is left.
Going == stage # "collect" => (stage = "run" <=> ~Executed(plan))

\* Status and fill of an order agree.
Sound ==
  \A i \in DOMAIN book :
    /\ book[i].traded <= book[i].qty
    /\ book[i].status = "filled" <=> book[i].traded = book[i].qty
    /\ book[i].status \in {"pending", "cancelled"} => book[i].traded = 0

AuctionInv ==
  AuctionTypeOK /\ Collected /\ Matched /\ Planned /\ Handed /\ Going /\ Sound

\* What the match gives is a natural number, and no more than was ordered.
LEMMA AllottedTypes ==
  ASSUME rows \in Seq(LimitOrder)
  PROVE  /\ DOMAIN Allotted = DOMAIN rows
         /\ \A i \in DOMAIN rows : Allotted[i] \in Nat /\ Allotted[i] <= rows[i].qty
<1>1. CASE price = NoPrice
  BY <1>1, BookRows DEF Allotted
<1>2. CASE price # NoPrice
  BY <1>2, AllotTypes DEF Allotted
<1> QED
  BY <1>1, <1>2

\* The empty book satisfies the invariant.
LEMMA AuctionInvInit ==
  AuctionInit => AuctionInv
<1> SUFFICES ASSUME AuctionInit PROVE AuctionInv
  OBVIOUS
<1>1. /\ book = <<>> /\ rows = <<>> /\ plan = <<>> /\ stage = "collect"
      /\ reference = 0 /\ price = NoPrice
  BY DEF AuctionInit, NoPrice
<1>2. /\ DOMAIN book = {} /\ DOMAIN rows = {}
      /\ book \in Seq(LimitOrder) /\ rows \in Seq(LimitOrder)
  BY <1>1
<1>3. plan \in [DOMAIN rows -> Nat]
  BY <1>1, <1>2
<1> QED
  BY <1>1, <1>2, <1>3
     DEF AuctionInv, AuctionTypeOK, Collected, Resting, Matched, Planned, Handed, Going,
         Sound

\* A submission adds one order that rests.
LEMMA SubmitStep ==
  ASSUME AuctionInv, NEW o \in LimitOrder, o.traded = 0, o.status = "pending", Submit(o)
  PROVE  AuctionInv'
<1>1. /\ stage = "collect" /\ rows = <<>> /\ rows' = <<>> /\ stage' = "collect"
      /\ plan' = plan /\ reference' = reference /\ price' = price
      /\ book' = Append(book, o) /\ book \in Seq(LimitOrder)
  BY DEF Submit, AuctionInv, AuctionTypeOK, Collected
<1>2. /\ book' \in Seq(LimitOrder) /\ Len(book) \in Nat
      /\ DOMAIN book' = 1..(Len(book) + 1) /\ DOMAIN book = 1..Len(book)
      /\ \A i \in DOMAIN book : book'[i] = book[i]
      /\ book'[Len(book) + 1] = o
  BY <1>1, AppendProperties
<1>3. \A i \in DOMAIN book' : book'[i].status = "pending" /\ book'[i].traded = 0
  BY <1>1, <1>2 DEF AuctionInv, Collected, Resting
<1>4. \A i \in DOMAIN book' : book'[i].qty \in Nat /\ book'[i].qty # 0
  BY <1>2, BookRows
<1>5. DOMAIN rows' = {}
  BY <1>1
<1>6. AuctionTypeOK'
  BY <1>1, <1>2 DEF AuctionInv, AuctionTypeOK
<1> QED
  BY <1>1, <1>3, <1>4, <1>5, <1>6
     DEF AuctionInv, Collected, Resting, Matched, Planned, Handed, Going, Sound

\* The match reads the book and plans the fills.
LEMMA MatchStep ==
  ASSUME AuctionInv, NEW ref \in References \cup {NoPrice}, Match(ref)
  PROVE  AuctionInv'
<1>1. /\ stage = "collect" /\ book \in Seq(LimitOrder) /\ Resting(book)
      /\ rows' = book /\ book' = book
      /\ price' = Equilibrium(book, reference')
      /\ plan' = IF price' = NoPrice THEN [i \in DOMAIN book |-> 0]
                 ELSE Allot(book, price')
      /\ stage' = IF Executed(plan') THEN "done" ELSE "run"
  BY DEF Match, AuctionInv, AuctionTypeOK, Collected
<1>2. reference' \in Nat
  <2>1. NoPrice \in Nat
    BY DEF NoPrice
  <2> QED
    BY <1>1, <2>1, ReferenceTypes DEF Match
<1>3. price' \in Prices \cup {NoPrice}
  BY <1>1, <1>2, EquilibriumIsRight
<1>4. plan' = Allotted'
  BY <1>1 DEF Allotted
<1>5. DOMAIN plan' = DOMAIN book /\ \A i \in DOMAIN book : plan'[i] \in Nat
  <2>1. CASE price' = NoPrice
    BY <1>1, <2>1
  <2>2. CASE price' # NoPrice
    BY <1>1, <2>2, AllotTypes
  <2> QED
    BY <2>1, <2>2
<1>6. plan' \in [DOMAIN rows' -> Nat]
  <2>1. plan' = [i \in DOMAIN book |-> plan'[i]]
    <3>1. CASE price' = NoPrice
      BY <1>1, <3>1
    <3>2. CASE price' # NoPrice
      BY <1>1, <3>2 DEF Allot
    <3> QED
      BY <3>1, <3>2
  <2> QED
    BY <1>1, <1>5, <2>1
<1>7. \A i \in DOMAIN book : book[i].qty \in Nat /\ book[i].qty # 0
  BY <1>1, BookRows
<1>8. AuctionTypeOK'
  BY <1>1, <1>2, <1>3, <1>6 DEF AuctionTypeOK
<1>9. Matched' /\ Collected' /\ Going'
  BY <1>1 DEF Matched, Collected, Going
<1>10. Planned' /\ Handed'
  BY <1>1, <1>4, <1>5 DEF Planned, Handed, Resting
<1>11. Sound'
  BY <1>1, <1>7 DEF Sound, Resting
<1> QED
  BY <1>8, <1>9, <1>10, <1>11 DEF AuctionInv

\* One order of the book changes, but not what was asked.
Changed(i, o) ==
  /\ book' = [book EXCEPT ![i] = o]
  /\ o \in LimitOrder /\ o.side = book[i].side /\ o.qty = book[i].qty

\* A book in which one order changed is a book of the same rows.
LEMMA ChangedBook ==
  ASSUME AuctionTypeOK, NEW i \in DOMAIN book, NEW o, Changed(i, o)
  PROVE  /\ book' \in Seq(LimitOrder) /\ DOMAIN book' = DOMAIN book
         /\ \A j \in DOMAIN book : j # i => book'[j] = book[j]
         /\ book'[i] = o
         /\ \A j \in DOMAIN book :
              book'[j].side = book[j].side /\ book'[j].qty = book[j].qty
<1>1. book \in Seq(LimitOrder) /\ Len(book) \in Nat /\ DOMAIN book = 1..Len(book)
  BY DEF AuctionTypeOK
<1>2. \A j \in DOMAIN book : book'[j] = IF j = i THEN o ELSE book[j]
  BY DEF Changed
<1>3. book' = [j \in 1..Len(book) |-> IF j = i THEN o ELSE book[j]]
  BY <1>1 DEF Changed
<1>4. \A j \in 1..Len(book) : (IF j = i THEN o ELSE book[j]) \in LimitOrder
  BY <1>1 DEF Changed
<1>5. book' \in Seq(LimitOrder) /\ DOMAIN book' = DOMAIN book
  BY <1>1, <1>3, <1>4
<1> QED
  BY <1>2, <1>5 DEF Changed

\* The fields of an order of the book.
LEMMA OrderFields ==
  ASSUME AuctionTypeOK, NEW i \in DOMAIN book
  PROVE  /\ book[i] \in LimitOrder
         /\ book[i].traded \in Nat /\ book[i].qty \in Nat /\ book[i].qty # 0
         /\ book[i].status \in {"pending", "partially_filled", "filled", "cancelled"}
<1>1. book \in Seq(LimitOrder)
  BY DEF AuctionTypeOK
<1>2. book[i] \in LimitOrder
  BY <1>1, BookRows
<1>3. book[i].qty \in Nat /\ book[i].qty # 0
  BY <1>1, BookRows
<1> QED
  BY <1>2, <1>3 DEF LimitOrder

\* What is planned for the rows that are not executed stays.
LEMMA BehindKeeps ==
  ASSUME AuctionInv, stage = "run", NEW i \in DOMAIN rows, NEW o, Changed(i, o),
         Behind(i),
         o.status # "cancelled" => o.traded = Allotted[i],
         o.traded <= o.qty /\ (o.status = "filled" <=> o.traded = o.qty),
         o.status \in {"pending", "cancelled"} => o.traded = 0
  PROVE  AuctionInv'
<1>1. /\ AuctionTypeOK /\ DOMAIN book = DOMAIN rows
      /\ rows' = rows /\ price' = price /\ reference' = reference
      /\ stage' = IF Executed(plan') THEN "done" ELSE "run"
      /\ plan' = [plan EXCEPT ![i] = 0]
  BY DEF AuctionInv, Matched, Behind
<1>2. /\ book' \in Seq(LimitOrder) /\ DOMAIN book' = DOMAIN book
      /\ \A j \in DOMAIN book : j # i => book'[j] = book[j]
      /\ book'[i] = o
      /\ \A j \in DOMAIN book :
           book'[j].side = book[j].side /\ book'[j].qty = book[j].qty
  BY <1>1, ChangedBook
<1>3. /\ plan' \in [DOMAIN rows -> Nat] /\ plan'[i] = 0
      /\ \A j \in DOMAIN rows : j # i => plan'[j] = plan[j]
  BY <1>1 DEF AuctionTypeOK
<1>4. Allotted' = Allotted
  BY <1>1 DEF Allotted
<1>5. AuctionTypeOK'
  BY <1>1, <1>2, <1>3 DEF AuctionTypeOK
<1>6. Collected' /\ Going'
  BY <1>1 DEF Collected, Going
<1>7. Matched'
  BY <1>1, <1>2 DEF AuctionInv, Matched, Resting
<1>8. Planned'
  BY <1>1, <1>2, <1>3, <1>4 DEF AuctionInv, Planned
<1>9. Handed'
  <2>1. ASSUME NEW j \in DOMAIN rows, book'[j].status # "cancelled"
        PROVE  book'[j].traded + plan'[j] = Allotted[j]
    <3>1. CASE j = i
      <4>1. o.traded \in Nat
        BY DEF Changed, LimitOrder
      <4> QED
        BY <1>2, <1>3, <2>1, <3>1, <4>1
    <3>2. CASE j # i
      BY <1>1, <1>2, <1>3, <2>1, <3>2 DEF AuctionInv, Handed
    <3> QED
      BY <3>1, <3>2
  <2> QED
    BY <1>1, <1>4, <2>1 DEF Handed
<1>10. Sound'
  BY <1>1, <1>2 DEF AuctionInv, Sound
<1> QED
  BY <1>5, <1>6, <1>7, <1>8, <1>9, <1>10 DEF AuctionInv

\* A fill gives its order what was allotted to it, or nothing.
LEMMA ExecuteStep ==
  ASSUME AuctionInv, NEW i \in DOMAIN book, ExecuteFill(i)
  PROVE  AuctionInv'
<1> DEFINE o == book[i]
           slice == Lesser(plan[i], o.qty - o.traded)
           n == IF ~Live(o) THEN o
                ELSE [o EXCEPT !.traded = @ + slice,
                               !.status = IF o.traded + slice = o.qty THEN "filled"
                                          ELSE "partially_filled"]
<1>1. /\ AuctionTypeOK /\ stage = "run" /\ DOMAIN rows = DOMAIN book
      /\ plan[i] > 0 /\ plan[i] = Allotted[i] /\ o.traded = 0
      /\ o.status \in {"pending", "cancelled"} /\ Behind(i)
      /\ book' = [book EXCEPT ![i] = n]
  BY DEF ExecuteFill, Turn, AuctionInv, Matched, Planned
<1>2. /\ o \in LimitOrder /\ o.qty \in Nat /\ o.qty # 0 /\ plan[i] \in Nat
      /\ rows[i].qty = o.qty /\ rows \in Seq(LimitOrder)
  BY <1>1, OrderFields DEF AuctionInv, AuctionTypeOK, Matched
<1>3. plan[i] <= o.qty
  BY <1>1, <1>2, AllottedTypes
<1>4. slice = plan[i]
  BY <1>1, <1>2, <1>3 DEF Lesser
<1>5. CASE Live(o)
  <2>1. n = [o EXCEPT !.traded = plan[i],
                      !.status = IF plan[i] = o.qty THEN "filled"
                                 ELSE "partially_filled"]
    <3>1. o.traded + slice = plan[i]
      BY <1>1, <1>2, <1>4
    <3> HIDE DEF slice
    <3> QED
      BY <1>5, <3>1
  <2> HIDE DEF n
  <2>2. /\ n \in LimitOrder /\ n.side = o.side /\ n.qty = o.qty /\ n.traded = plan[i]
        /\ n.status = IF plan[i] = o.qty THEN "filled" ELSE "partially_filled"
    BY <1>2, <2>1 DEF LimitOrder
  <2>3. Changed(i, n)
    BY <1>1, <2>2 DEF Changed
  <2> QED
    BY <1>1, <1>2, <1>3, <2>2, <2>3, BehindKeeps
<1>6. CASE ~Live(o)
  <2>1. n = o /\ o.status = "cancelled"
    BY <1>1, <1>6 DEF Live
  <2>2. Changed(i, o)
    BY <1>1, <1>2, <2>1 DEF Changed
  <2> QED
    BY <1>1, <1>2, <2>1, <2>2, BehindKeeps
<1> QED
  BY <1>5, <1>6

\* A fill that raises leaves nothing in the plan.
LEMMA RaiseStep ==
  ASSUME AuctionInv, NEW i \in DOMAIN book, Raise(i)
  PROVE  AuctionInv'
<1>1. /\ stage # "collect" /\ stage' = "raised" /\ plan' = [j \in DOMAIN plan |-> 0]
      /\ book' = book /\ rows' = rows /\ reference' = reference /\ price' = price
      /\ DOMAIN plan = DOMAIN rows
  BY DEF Raise, Turn, AuctionInv, AuctionTypeOK
<1>2. AuctionTypeOK'
  BY <1>1 DEF AuctionInv, AuctionTypeOK
<1>3. Collected' /\ Matched' /\ Handed' /\ Sound'
  BY <1>1 DEF AuctionInv, Collected, Matched, Handed, Sound
<1>4. Planned' /\ Going'
  BY <1>1 DEF Planned, Going, Executed
<1> QED
  BY <1>2, <1>3, <1>4 DEF AuctionInv

\* A cancellation before its turn takes an order out of the sum.
LEMMA CancelStep ==
  ASSUME AuctionInv, NEW i \in DOMAIN book, Cancel(i)
  PROVE  AuctionInv'
<1> DEFINE n == [book[i] EXCEPT !.status = "cancelled"]
<1>1. /\ AuctionTypeOK /\ stage = "run" /\ plan[i] > 0 /\ DOMAIN rows = DOMAIN book
      /\ book' = [book EXCEPT ![i] = n] /\ book[i].traded = 0
      /\ rows' = rows /\ reference' = reference /\ price' = price
      /\ stage' = stage /\ plan' = plan
  BY DEF Cancel, AuctionInv, Matched, Planned
<1>2. book[i] \in LimitOrder /\ book[i].qty \in Nat /\ book[i].qty # 0
  BY <1>1, OrderFields
<1>3. /\ n \in LimitOrder /\ n.side = book[i].side /\ n.qty = book[i].qty
      /\ n.traded = 0 /\ n.status = "cancelled"
  BY <1>1, <1>2 DEF LimitOrder
<1> HIDE DEF n
<1>4. /\ book' \in Seq(LimitOrder) /\ DOMAIN book' = DOMAIN book
      /\ \A j \in DOMAIN book : j # i => book'[j] = book[j]
      /\ book'[i] = n
      /\ \A j \in DOMAIN book :
           book'[j].side = book[j].side /\ book'[j].qty = book[j].qty
  <2>1. Changed(i, n)
    BY <1>1, <1>3 DEF Changed
  <2> QED
    BY <1>1, <2>1, ChangedBook
<1>5. Allotted' = Allotted
  BY <1>1 DEF Allotted
<1>6. AuctionTypeOK' /\ Collected' /\ Going'
  BY <1>1, <1>4 DEF AuctionInv, AuctionTypeOK, Collected, Going
<1>7. Matched'
  BY <1>1, <1>4 DEF AuctionInv, Matched, Resting
<1>8. Planned' /\ Handed'
  BY <1>1, <1>3, <1>4, <1>5 DEF AuctionInv, Planned, Handed
<1>9. Sound'
  BY <1>2, <1>3, <1>4 DEF AuctionInv, Sound
<1> QED
  BY <1>6, <1>7, <1>8, <1>9 DEF AuctionInv

\* Every step of the auction keeps the invariant.
LEMMA AuctionInvStep ==
  AuctionInv /\ [AuctionNext]_auctionVars => AuctionInv'
<1> SUFFICES ASSUME AuctionInv, [AuctionNext]_auctionVars
             PROVE  AuctionInv'
  OBVIOUS
<1>1. ASSUME NEW side \in Sides, NEW p \in Prices, NEW q \in Sizes,
             Submit([side |-> side, limit |-> p, qty |-> q, traded |-> 0,
                     status |-> "pending"])
      PROVE  AuctionInv'
  <2> DEFINE o == [side |-> side, limit |-> p, qty |-> q, traded |-> 0,
                   status |-> "pending"]
  <2>1. o \in LimitOrder /\ o.traded = 0 /\ o.status = "pending"
    BY DEF LimitOrder
  <2>2. Submit(o)
    BY <1>1
  <2> HIDE DEF o
  <2> QED
    BY <2>1, <2>2, SubmitStep
<1>2. CASE UNCHANGED auctionVars
  BY <1>2 DEF auctionVars, AuctionInv, AuctionTypeOK, Collected, Resting, Matched,
              Planned, Handed, Going, Sound, Allotted
<1> QED
  BY <1>1, <1>2, MatchStep, ExecuteStep, RaiseStep, CancelStep DEF AuctionNext

\* The inductive invariant holds in every reachable state.
THEOREM AuctionInvHolds ==
  AuctionSpec => []AuctionInv
<1> QED
  BY AuctionInvInit, AuctionInvStep, PTL DEF AuctionSpec

\* Every variable of the auction has its type.
THEOREM AuctionTypesHold ==
  AuctionSpec => []AuctionTypeOK
<1>1. AuctionInv => AuctionTypeOK
  BY DEF AuctionInv
<1> QED
  BY <1>1, AuctionInvHolds, PTL

\* compute_equilibrium keeps the rules of its comment for every book: nothing
\* trades only if nothing can, no price would trade more, and ties go to the
\* smaller imbalance, the nearer and then the higher limit.
THEOREM AuctionFollowsRules ==
  AuctionSpec => []EquilibriumFollowsRules
<1>1. ASSUME AuctionInv
      PROVE  EquilibriumFollowsRules
  <2>1. SUFFICES ASSUME stage # "collect" PROVE EquilibriumFollowsRules
    BY DEF EquilibriumFollowsRules
  <2>2. /\ rows \in Seq(LimitOrder) /\ reference \in Nat
        /\ price = Equilibrium(rows, reference)
    BY <1>1, <2>1 DEF AuctionInv, AuctionTypeOK, Matched
  <2>3. /\ price \in Prices \cup {NoPrice}
        /\ price = NoPrice => \A p \in Prices : Volume(rows, p) = 0
        /\ price # NoPrice =>
             /\ Volume(rows, price) > 0
             /\ \A p \in Prices : Volume(rows, p) <= Volume(rows, price)
             /\ \A p \in Candidates(rows) :
                  p # price /\ Volume(rows, p) = Volume(rows, price) =>
                    Beats(rows, reference, price, p)
    BY <2>2, EquilibriumIsRight
  <2>4. ASSUME price # NoPrice, NEW p \in Candidates(rows), p # price,
               Volume(rows, p) = Volume(rows, price)
        PROVE  /\ Imbalance(rows, price) <= Imbalance(rows, p)
               /\ Imbalance(rows, price) = Imbalance(rows, p) =>
                    /\ Abs(2 * price - reference) <= Abs(2 * p - reference)
                    /\ Abs(2 * price - reference) = Abs(2 * p - reference) => price > p
    <3>1. p \in Nat /\ price \in Nat
      BY <2>2, <2>3, <2>4, LimitsAreFinite, AuctionAssumption DEF AuctionAssumption
    <3>2. /\ Volume(rows, p) \in Nat /\ Imbalance(rows, p) \in Nat
          /\ Imbalance(rows, price) \in Nat
          /\ Abs(2 * p - reference) \in Nat /\ Abs(2 * price - reference) \in Nat
      BY <2>2, <3>1, ScoreTypes
    <3>3. Beats(rows, reference, price, p)
      BY <2>3, <2>4
    <3> QED
      BY <2>4, <3>2, <3>3 DEF Beats
  <2> QED
    BY <2>3, <2>4 DEF EquilibriumFollowsRules
<1> QED
  BY <1>1, AuctionInvHolds, PTL

\* The fills of a match are fair for every book: both sides get the volume, no
\* order more than it has or beyond its limit, and nobody anything before an
\* earlier order of its side that takes part is done.
THEOREM AuctionMatchIsFair ==
  AuctionSpec => []MatchIsFair
<1>1. ASSUME AuctionInv
      PROVE  MatchIsFair
  <2>1. SUFFICES ASSUME stage = "run", book = rows PROVE MatchIsFair
    BY DEF MatchIsFair
  <2>2. rows \in Seq(LimitOrder) /\ plan \in [DOMAIN rows -> Nat]
    BY <1>1 DEF AuctionInv, AuctionTypeOK
  <2>3. \A i \in DOMAIN rows : plan[i] = Allotted[i]
    <3>1. \A i \in DOMAIN rows : book[i].status = "pending" /\ book[i].traded = 0
      BY <1>1, <2>1 DEF AuctionInv, Matched, Resting
    <3>2. \A i \in DOMAIN rows : plan[i] \in Nat /\ 0 + plan[i] = Allotted[i]
      BY <1>1, <2>1, <2>2, <3>1 DEF AuctionInv, Handed
    <3> QED
      BY <3>2
  <2>4. price # NoPrice
    <3>1. ~Executed(plan)
      BY <1>1, <2>1 DEF AuctionInv, Going
    <3> QED
      BY <2>2, <2>3, <3>1 DEF Allotted, Executed
  <2>5. \A i \in DOMAIN rows : plan[i] = Allot(rows, price)[i]
    BY <2>3, <2>4 DEF Allotted
  <2>6. ASSUME NEW side \in Sides
        PROVE  SumFunctionOnSet(plan, Of(side, rows)) = Volume(rows, price)
    <3>1. IsFiniteSet(Of(side, rows))
      BY <2>2, RowsSum DEF Of
    <3>2. \A i \in Of(side, rows) : plan[i] = Allot(rows, price)[i]
      BY <2>5 DEF Of
    <3>3. SumFunctionOnSet(plan, Of(side, rows))
            = SumFunctionOnSet(Allot(rows, price), Of(side, rows))
      BY <3>1, <3>2, SumSame
    <3>4. SumFunctionOnSet(Allot(rows, price), Of(side, rows)) = Volume(rows, price)
      BY <2>2, AllotIsFair
    <3> QED
      BY <3>3, <3>4
  <2>7. ASSUME NEW i \in DOMAIN rows
        PROVE  /\ plan[i] <= rows[i].qty
               /\ plan[i] > 0 => Willing(rows[i], price)
               /\ plan[i] > 0 =>
                    \A j \in 1..(i - 1) :
                      rows[j].side = rows[i].side /\ Willing(rows[j], price) =>
                        plan[j] = rows[j].qty
    <3> DEFINE side == rows[i].side
    <3>1. side \in Sides /\ i \in Of(side, rows)
      BY <2>2, BookRows DEF Of
    <3>2. plan[i] <= rows[i].qty
      BY <2>2, <2>5, AllotTypes
    <3>3. plan[i] > 0 =>
            /\ Willing(rows[i], price)
            /\ \A j \in Of(side, rows) :
                 j < i /\ Willing(rows[j], price) => Allot(rows, price)[j] = rows[j].qty
      <4> HIDE DEF side
      <4> QED
        BY <2>2, <2>5, <3>1, AllotIsFair
    <3>4. ASSUME NEW j \in 1..(i - 1), rows[j].side = side
          PROVE  j \in Of(side, rows) /\ j \in DOMAIN rows /\ j < i
      <4>1. i \in 1..Len(rows) /\ DOMAIN rows = 1..Len(rows) /\ Len(rows) \in Nat
        BY <2>2, BookRows
      <4>2. j \in DOMAIN rows /\ j < i
        BY <4>1
      <4> QED
        BY <3>4, <4>2 DEF Of
    <3> HIDE DEF side
    <3>5. ASSUME plan[i] > 0, NEW j \in 1..(i - 1), rows[j].side = side,
                 Willing(rows[j], price)
          PROVE  plan[j] = rows[j].qty
      BY <2>5, <3>3, <3>4, <3>5
    <3> QED
      BY <3>2, <3>3, <3>5 DEF side
  <2> QED
    BY <2>6, <2>7 DEF MatchIsFair
<1> QED
  BY <1>1, AuctionInvHolds, PTL

\* What trades is what was matched: an order that was cancelled before its turn
\* trades nothing, and when nobody cancels and nothing raises, as many shares
\* are bought as sold.
THEOREM AuctionTradesFollowMatch ==
  AuctionSpec => []TradesFollowMatch
<1>1. ASSUME AuctionInv
      PROVE  TradesFollowMatch
  <2>1. ASSUME stage = "done", price # NoPrice,
               \A i \in DOMAIN book : book[i].status # "cancelled",
               NEW side \in Sides
        PROVE  Traded(side) = Volume(rows, price)
    <3> DEFINE t == [i \in DOMAIN book |-> book[i].traded]
    <3>1. /\ AuctionTypeOK /\ rows \in Seq(LimitOrder) /\ plan \in [DOMAIN rows -> Nat]
          /\ DOMAIN book = DOMAIN rows /\ Executed(plan)
      BY <1>1, <2>1 DEF AuctionInv, AuctionTypeOK, Matched, Going
    <3>2. ASSUME NEW i \in DOMAIN book
          PROVE  t[i] = Allot(rows, price)[i]
      <4>1. plan[i] = 0 /\ book[i].traded \in Nat
        BY <3>1, <3>2, OrderFields DEF Executed
      <4>2. book[i].traded + plan[i] = Allotted[i]
        BY <1>1, <2>1, <3>1 DEF AuctionInv, Handed
      <4> QED
        BY <2>1, <4>1, <4>2 DEF Allotted
    <3>3. Of(side, book) = Of(side, rows) /\ Of(side, rows) \in SUBSET (DOMAIN rows)
      BY <1>1, <2>1, <3>1 DEF AuctionInv, Matched, Of
    <3>4. IsFiniteSet(Of(side, rows))
      BY <3>1, <3>3, RowsSum
    <3>5. \A i \in Of(side, rows) : t[i] = Allot(rows, price)[i]
      BY <3>1, <3>2, <3>3
    <3> HIDE DEF t
    <3>6. SumFunctionOnSet(t, Of(side, rows))
            = SumFunctionOnSet(Allot(rows, price), Of(side, rows))
      BY <3>4, <3>5, SumSame
    <3>7. SumFunctionOnSet(Allot(rows, price), Of(side, rows)) = Volume(rows, price)
      BY <3>1, AllotIsFair
    <3> QED
      BY <3>3, <3>6, <3>7 DEF Traded, t
  <2> QED
    BY <1>1, <2>1 DEF TradesFollowMatch, AuctionInv, Sound, Sides
<1> QED
  BY <1>1, AuctionInvHolds, PTL
=============================================================================
