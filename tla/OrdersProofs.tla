---------------------------- MODULE OrdersProofs ----------------------------
(****************************************************************************)
(* Orders for every number of orders, clients and watchers, in this order:  *)
(*  - the rows stay well typed, the lifecycle refines module Account, whose *)
(*    theorems carry over, and a terminal row is final;                     *)
(*  - brackets have no orphans, one exit, and exits that wait;              *)
(*  - fills match trades when there is one watcher;                         *)
(*  - the position is the net of the trades;                                *)
(*  - no limit trades beyond its price;                                     *)
(*  - with one watcher, the status says what is filled, and the exits of a  *)
(*    bracket cover what its entry bought, and no more.                     *)
(* Each part uses the invariants of those before it.                        *)
(****************************************************************************)
EXTENDS Orders, Sums, TLAPS

AP == INSTANCE AccountProofs

\* The assumptions of the account follow from those of the orders.
LEMMA SameAssumption == AP!AccountAssumption
  BY OrdersAssumption DEF OrdersAssumption, AP!AccountAssumption, Sides

\* The account of this module and the one of AccountProofs have one type.
LEMMA SameTypes == (AP!TypeOK <=> A!TypeOK) /\ (AP!TypeOK' <=> A!TypeOK')
  BY DEF AP!TypeOK, A!TypeOK, AP!Reasons, A!Reasons

\* A step of the account here is a step of the account there.
LEMMA SameNext == A!Next => AP!Next
<1> USE DEF A!Reasons, AP!Reasons
<1>1. ASSUME NEW q \in Quantities, NEW p \in Prices, A!Buy(q, p)
      PROVE  AP!Buy(q, p)
  BY <1>1 DEF A!Buy, AP!Buy, A!BuyFor, AP!BuyFor, A!CanBuyFor, AP!CanBuyFor
<1>2. ASSUME NEW q \in Quantities, NEW p \in Prices, A!Sell(q, p)
      PROVE  AP!Sell(q, p)
  BY <1>2 DEF A!Sell, AP!Sell, A!SellFor, AP!SellFor, A!CanSellFor,
              AP!CanSellFor, A!CostOf, AP!CostOf
<1>3. ASSUME NEW d \in Prices, A!Dividend(d)
      PROVE  AP!Dividend(d)
  BY <1>3 DEF A!Dividend, AP!Dividend
<1>4. ASSUME NEW r \in Ratios, A!Split(r) \/ A!Bonus(r)
      PROVE  AP!Split(r) \/ AP!Bonus(r)
  BY <1>4 DEF A!Split, AP!Split, A!Bonus, AP!Bonus, A!Rescale, AP!Rescale
<1>5. ASSUME NEW r \in Ratios, NEW p \in Prices, A!Rights(r, p)
      PROVE  AP!Rights(r, p)
  BY <1>5 DEF A!Rights, AP!Rights
<1>6. ASSUME NEW c \in Capitals \cup {cash}, A!Reset(c)
      PROVE  AP!Reset(c)
  BY <1>6 DEF A!Reset, AP!Reset, A!Opening, AP!Opening
<1> QED
  BY <1>1, <1>2, <1>3, <1>4, <1>5, <1>6 DEF A!Next, AP!Next

-----------------------------------------------------------------------------
(* Typing of rows *)

\* Quantities are positive, and a part of a quantity is a quantity.
LEMMA QuantityFacts ==
  ASSUME NEW q \in Quantities
  PROVE  /\ q \in Nat \ {0}
         /\ \A n \in Nat \ {0} : n <= q => n \in Quantities
  BY OrdersAssumption DEF OrdersAssumption

\* Updating a column of a row with a value of its type leaves a row.
LEMMA Retyped ==
  ASSUME NEW r \in Row
  PROVE  /\ \A s \in Statuses : [r EXCEPT !.status = s] \in Row
         /\ \A q \in Quantities : [r EXCEPT !.qty = q] \in Row
         /\ \A t \in OrderTypes : [r EXCEPT !.otype = t] \in Row
         /\ \A s \in Statuses, f \in Quantities :
              [r EXCEPT !.status = s, !.filled = f] \in Row
  BY DEF Row

\* The row of an id without an order is a row.
LEMMA BlankTyped ==
  ASSUME NEW s \in Statuses
  PROVE  Blank(s) \in Row
<1>1. (CHOOSE q \in Quantities : TRUE) \in Quantities
  BY OrdersAssumption DEF OrdersAssumption
<1> QED
  BY <1>1 DEF Blank, Row, OrderTypes, Sides, PriceOrNull, Tifs

\* state.record writes well-typed rows.
LEMMA NewRowTyped ==
  ASSUME NEW r \in Requests, NEW t \in OrderTypes
  PROVE  NewRow(r, t) \in Row
<1>1. r \in Request
  BY OrdersAssumption DEF OrdersAssumption
<1> QED
  BY <1>1 DEF NewRow, Row, Request, Statuses, Live

\* Every status a step writes is a status.
LEMMA PlainStatuses ==
  /\ {"pending", "partially_filled"} \subseteq Statuses
  /\ {"filled", "cancelled", "expired", "unused", "deleted"} \subseteq Statuses
  BY DEF Statuses, Live, Terminal

\* The claim of a fill writes a well-typed row and keeps its parent.
LEMMA ClaimedTyped ==
  ASSUME TypeOK, NEW o \in OrderIds, NEW s \in Statuses, NEW f \in Quantities
  PROVE  /\ Claimed(o, s, f) \in [OrderIds -> Row]
         /\ Claimed(o, s, f)[o].parent = orders[o].parent
<1>1. orders[o] \in Row
  BY DEF TypeOK
<1>2. [orders[o] EXCEPT !.status = s, !.filled = f] \in Row
  BY <1>1, Retyped
<1>3. [orders[o] EXCEPT !.status = s, !.filled = f].parent = orders[o].parent
  BY <1>1 DEF Row
<1> QED
  BY <1>2, <1>3 DEF Claimed, TypeOK

\* Cancelling siblings writes well-typed rows.
LEMMA CancelSiblingsTyped ==
  ASSUME NEW rows \in [OrderIds -> Row], NEW o \in OrderIds
  PROVE  CancelSiblings(rows, o) \in [OrderIds -> Row]
  BY Retyped DEF CancelSiblings, Statuses, Terminal

\* Rebalancing never writes a quantity of zero or one that is not a part
\* of the sibling's (the qty > 0 CHECK of table orders).
LEMMA ShrinkSiblingTyped ==
  ASSUME NEW rows \in [OrderIds -> Row], NEW o \in OrderIds, NEW done \in Nat,
         TypeOK, rows[o].parent = orders[o].parent
  PROVE  ShrinkSibling(rows, o, done) \in [OrderIds -> Row]
<1> DEFINE left == rows[rows[o].parent].filled - done
<1> SUFFICES ASSUME NEW x \in OrderIds, x \in Siblings(o),
                    0 < left, left < rows[x].qty
             PROVE  [rows[x] EXCEPT !.qty = left] \in Row
  BY DEF ShrinkSibling
<1>1. rows[o].parent \in OrderIds
  BY DEF Siblings, TypeOK, Row
<1>2. left \in Int
  BY <1>1, QuantityFacts DEF Row
<1>3. left \in Quantities
  BY <1>2, QuantityFacts DEF Row
<1> QED
  BY <1>3, Retyped

-----------------------------------------------------------------------------
(* A watcher that has work, or is among its stops, has a price. *)
PriceReady ==
  \A w \in Watchers :
    stage[w] = "stops" \/ todo[w] # {} => quote[w] \in Prices

TypeInv == TypeOK /\ PriceReady

\* A snapshot in a watcher's hands is a well-typed one.
LEMMA SnapshotFacts ==
  ASSUME TypeInv, NEW w \in Watchers, NEW s \in todo[w]
  PROVE  /\ s \in Snapshot /\ s.id \in OrderIds /\ s.qty \in Quantities
         /\ s.filled \in Nat /\ quote[w] \in Prices
  BY QuantityFacts DEF TypeInv, TypeOK, PriceReady, Snapshot

\* A held snapshot names an order and a quantity.
LEMMA ClaimFacts ==
  ASSUME TypeInv, NEW w \in Watchers, claim[w] # NoSnapshot
  PROVE  claim[w].id \in OrderIds /\ claim[w].qty \in Quantities
  BY DEF TypeInv, TypeOK, Snapshot

\* What a watcher reads of a row is a snapshot.
LEMMA SnapshotOfTyped ==
  ASSUME TypeOK, NEW o \in OrderIds
  PROVE  SnapshotOf(o) \in Snapshot
  BY DEF TypeOK, SnapshotOf, Snapshot, Row

-----------------------------------------------------------------------------
(* The account only makes account steps. *)

\* apply_buy and apply_sell are operations of the account.
LEMMA ApplyIsAccountStep ==
  ASSUME NEW side, NEW q \in Quantities, NEW p \in Prices, Apply(side, q, p)
  PROVE  A!Next
  BY DEF Apply, A!Next

\* Every step is one account operation, or leaves the account alone.
LEMMA AccountStep ==
  ASSUME TypeInv, [Next]_vars
  PROVE  [A!Next]_(A!vars)
<1> USE DEF account, A!vars
<1>1. ASSUME NEW o \in OrderIds, NEW r \in Requests, Queue(o, r)
      PROVE  UNCHANGED account
  BY <1>1 DEF Queue
<1>2. ASSUME NEW o \in OrderIds, NEW r \in Requests, NEW p \in Prices,
             ExecuteMarket(o, r, p)
      PROVE  A!Next
  <2>1. r.qty \in Quantities
    BY OrdersAssumption DEF OrdersAssumption, Request
  <2> QED
    BY <1>2, <2>1, ApplyIsAccountStep DEF ExecuteMarket
<1>3. ASSUME NEW o \in OrderIds, NEW sl \in OrderIds, NEW tgt \in OrderIds,
             NEW r \in Requests, QueueBracket(o, sl, tgt, r)
      PROVE  UNCHANGED account
  BY <1>3 DEF QueueBracket
<1>4. ASSUME NEW o \in OrderIds, FireAmo(o) \/ Cancel(o) \/ ClientGivesUp(o)
      PROVE  UNCHANGED account
  BY <1>4 DEF FireAmo, Cancel, ClientGivesUp
<1>5. ASSUME NEW o \in OrderIds, NEW p \in Prices, ClientFires(o, p)
      PROVE  A!Next
  <2>1. orders[o].qty \in Quantities
    BY DEF TypeInv, TypeOK, Row
  <2> QED
    BY <1>5, <2>1, ApplyIsAccountStep DEF ClientFires, FillPendingMarket
<1>6. CASE ExpireDay
  BY <1>6 DEF ExpireDay
<1>7. CASE Reset
  BY <1>7 DEF Reset, A!Next
<1>8. ASSUME NEW w \in Watchers, NEW p \in Prices,
             Pull(w, p) \/ StopNotFilled(w, p)
      PROVE  UNCHANGED account
  BY <1>8 DEF Pull, StopNotFilled
<1>9. ASSUME NEW w \in Watchers, NEW p \in Prices, FillStop(w, p)
      PROVE  A!Next
  BY <1>9, ClaimFacts, ApplyIsAccountStep DEF FillStop, FillPendingMarket
<1>10. ASSUME NEW w \in Watchers, NEW s \in todo[w],
              TriggerStopMarket(w, s) \/ TriggerStopLimit(w, s) \/ SkipStop(w, s)
       PROVE  UNCHANGED account
  BY <1>10 DEF TriggerStopMarket, TriggerStopLimit, SkipStop
<1>11. ASSUME NEW w \in Watchers, NEW s \in todo[w], NEW q \in Quantities,
              FillSlice(w, s, q)
       PROVE  A!Next
  BY <1>11, SnapshotFacts, ApplyIsAccountStep DEF FillSlice, FillLimit, BookSlice
<1>12. ASSUME NEW w \in Watchers, NEW s \in todo[w], NEW q \in Quantities,
              SkipLimit(w, s, q)
       PROVE  UNCHANGED account
  BY <1>12 DEF SkipLimit
<1>13. ASSUME NEW w \in Watchers, Repull(w)
       PROVE  UNCHANGED account
  BY <1>13 DEF Repull
<1>14. CASE UNCHANGED vars
  BY <1>14 DEF vars
<1> QED
  BY <1>1, <1>2, <1>3, <1>4, <1>5, <1>6, <1>7, <1>8, <1>9, <1>10, <1>11,
     <1>12, <1>13, <1>14 DEF Next, ClientStep, WatcherStep

-----------------------------------------------------------------------------
(* Type correctness *)

\* What a fill does to the table, with the row of the order written first.
LEMMA BookSliceTyped ==
  ASSUME TypeOK, NEW o \in OrderIds, NEW q \in Quantities, NEW p \in Prices,
         NEW done \in Quantities, NEW terminal \in BOOLEAN,
         BookSlice(o, q, p, done, terminal)
  PROVE  orders' \in [OrderIds -> Row] /\ traded' \in [OrderIds -> Nat]
<1> DEFINE claimed ==
             Claimed(o, IF terminal THEN "filled" ELSE "partially_filled", done)
<1>1. claimed \in [OrderIds -> Row] /\ claimed[o].parent = orders[o].parent
  BY ClaimedTyped, PlainStatuses
<1> DEFINE shrunk == ShrinkSibling(claimed, o, done)
<1>2. shrunk \in [OrderIds -> Row]
  BY <1>1, QuantityFacts, ShrinkSiblingTyped
<1>3. CancelSiblings(shrunk, o) \in [OrderIds -> Row]
  BY <1>2, CancelSiblingsTyped
<1>4. traded' \in [OrderIds -> Nat]
  BY QuantityFacts DEF BookSlice, TypeOK
<1>5. orders' = IF terminal THEN CancelSiblings(shrunk, o) ELSE shrunk
  BY DEF BookSlice
<1> QED
  BY <1>2, <1>3, <1>4, <1>5

\* fill_pending_market writes well-typed rows and trades.
LEMMA FillPendingMarketTyped ==
  ASSUME TypeOK, NEW o \in OrderIds, NEW q \in Quantities, NEW p \in Prices,
         FillPendingMarket(o, q, p)
  PROVE  orders' \in [OrderIds -> Row] /\ traded' \in [OrderIds -> Nat]
<1> DEFINE rows == Claimed(o, "filled", q)
<1>1. rows \in [OrderIds -> Row]
  BY ClaimedTyped, PlainStatuses
<1>2. CancelSiblings(rows, o) \in [OrderIds -> Row]
  BY <1>1, CancelSiblingsTyped
<1>3. traded' \in [OrderIds -> Nat]
  BY QuantityFacts DEF FillPendingMarket, TypeOK
<1> QED
  BY <1>2, <1>3 DEF FillPendingMarket

\* A slice of what the snapshot says is left makes a quantity of the order.
LEMMA DoneIsQuantity ==
  ASSUME TypeInv, NEW w \in Watchers, NEW s \in todo[w], NEW q \in Quantities,
         q <= s.qty - s.filled
  PROVE  s.filled + q \in Quantities
  BY SnapshotFacts, QuantityFacts

\* Every step writes well-typed rows and trades.
LEMMA TableStep ==
  ASSUME TypeInv, [Next]_vars
  PROVE  orders' \in [OrderIds -> Row] /\ traded' \in [OrderIds -> Nat]
<1> DEFINE Goal == orders' \in [OrderIds -> Row] /\ traded' \in [OrderIds -> Nat]
<1> USE DEF table, TypeInv
<1>1. ASSUME NEW o \in OrderIds, NEW r \in Requests, Queue(o, r)
      PROVE  Goal
  <2>1. r.kind \in OrderTypes
    BY <1>1 DEF Queue, OrderTypes
  <2> QED
    BY <1>1, <2>1, NewRowTyped DEF Queue, TypeOK
<1>2. ASSUME NEW o \in OrderIds, NEW r \in Requests, NEW p \in Prices,
             ExecuteMarket(o, r, p)
      PROVE  Goal
  <2>1. r.qty \in Quantities /\ r.qty \in Nat
    BY OrdersAssumption DEF OrdersAssumption, Request
  <2>2. NewRow(r, "market") \in Row
    BY NewRowTyped DEF OrderTypes
  <2>3. [NewRow(r, "market") EXCEPT !.status = "filled", !.filled = r.qty] \in Row
    BY <2>1, <2>2 DEF Row, Statuses, Terminal
  <2> QED
    BY <1>2, <2>1, <2>3 DEF ExecuteMarket, TypeOK
<1>3. ASSUME NEW o \in OrderIds, NEW sl \in OrderIds, NEW tgt \in OrderIds,
             NEW r \in Requests, QueueBracket(o, sl, tgt, r)
      PROVE  Goal
  <2> DEFINE ptype == IF r.limit = NoPrice THEN "market" ELSE "limit"
             child == [NewRow(r, "limit") EXCEPT !.side = Opposite(r.side),
                                                 !.parent = o]
             slRow == [child EXCEPT !.otype = "stop_market", !.limit = NoPrice]
             tgtRow == [child EXCEPT !.limit = r.target, !.stop = NoPrice]
  <2>1. ptype \in OrderTypes /\ "limit" \in OrderTypes
    BY DEF OrderTypes
  <2>2. NewRow(r, ptype) \in Row /\ NewRow(r, "limit") \in Row
    BY <2>1, NewRowTyped
  <2>3. child \in Row
    BY <2>2 DEF Row, Opposite, Sides
  <2>4. r.target \in PriceOrNull
    BY OrdersAssumption DEF OrdersAssumption, Request
  <2>5. slRow \in Row /\ tgtRow \in Row
    BY <2>3, <2>4 DEF Row, OrderTypes, PriceOrNull
  <2>6. orders' = [orders EXCEPT ![o] = NewRow(r, ptype), ![sl] = slRow,
                                 ![tgt] = tgtRow]
        /\ traded' = traded
    BY <1>3 DEF QueueBracket
  <2> HIDE DEF slRow, tgtRow, ptype
  <2> QED
    BY <2>2, <2>5, <2>6 DEF TypeOK
<1>4. ASSUME NEW o \in OrderIds, Cancel(o)
      PROVE  Goal
  BY <1>4, Retyped DEF Cancel, TypeOK, Statuses, Terminal
<1>5. ASSUME NEW o \in OrderIds, NEW p \in Prices, ClientFires(o, p)
      PROVE  Goal
  <2>1. orders[o].qty \in Quantities
    BY DEF TypeOK, Row
  <2> QED
    BY <1>5, <2>1, FillPendingMarketTyped DEF ClientFires
<1>6. CASE ExpireDay
  BY <1>6, Retyped DEF ExpireDay, TypeOK, Statuses, Terminal
<1>7. CASE Reset
  BY <1>7, BlankTyped DEF Reset, TypeOK, Statuses
<1>8. ASSUME NEW w \in Watchers, NEW p \in Prices, FillStop(w, p)
      PROVE  Goal
  BY <1>8, ClaimFacts, FillPendingMarketTyped DEF FillStop
<1>9. ASSUME NEW w \in Watchers, NEW s \in todo[w], TriggerStopLimit(w, s)
      PROVE  Goal
  BY <1>9, SnapshotFacts, Retyped DEF TriggerStopLimit, TypeOK, OrderTypes
<1>10. ASSUME NEW w \in Watchers, NEW s \in todo[w], NEW q \in Quantities,
              FillSlice(w, s, q)
       PROVE  Goal
  BY <1>10, SnapshotFacts, DoneIsQuantity, BookSliceTyped
  DEF FillSlice, FillLimit
<1>11. ASSUME NEW o \in OrderIds, FireAmo(o) \/ ClientGivesUp(o)
       PROVE  Goal
  BY <1>11 DEF FireAmo, ClientGivesUp, TypeOK
<1>12. ASSUME NEW w \in Watchers, NEW p \in Prices,
              Pull(w, p) \/ StopNotFilled(w, p)
       PROVE  Goal
  BY <1>12 DEF Pull, StopNotFilled, TypeOK
<1>13. ASSUME NEW w \in Watchers, NEW s \in todo[w],
              TriggerStopMarket(w, s) \/ SkipStop(w, s)
       PROVE  Goal
  BY <1>13 DEF TriggerStopMarket, SkipStop, TypeOK
<1>14. ASSUME NEW w \in Watchers, NEW s \in todo[w], NEW q \in Quantities,
              SkipLimit(w, s, q)
       PROVE  Goal
  BY <1>14 DEF SkipLimit, TypeOK
<1>15. ASSUME NEW w \in Watchers, Repull(w)
       PROVE  Goal
  BY <1>15 DEF Repull, TypeOK
<1>16. CASE UNCHANGED vars
  BY <1>16 DEF vars, TypeOK
<1> QED
  BY <1>1, <1>2, <1>3, <1>4, <1>5, <1>6, <1>7, <1>8, <1>9, <1>10, <1>11,
     <1>12, <1>13, <1>14, <1>15, <1>16 DEF Next, ClientStep, WatcherStep

\* The threads' own state.
ThreadsOK ==
  /\ firing \subseteq OrderIds
  /\ stage \in [Watchers -> {"stops", "limits"}]
  /\ quote \in [Watchers -> PriceOrNull]
  /\ todo \in [Watchers -> SUBSET Snapshot]
  /\ claim \in [Watchers -> Snapshot \cup {NoSnapshot}]
  /\ PriceReady

\* Every step leaves the watchers' memory well typed, and a watcher that has
\* limits to fill has a quote.
LEMMA ThreadStep ==
  ASSUME TypeInv, [Next]_vars
  PROVE  ThreadsOK'
<1> USE DEF threads, TypeInv, TypeOK, ThreadsOK, PriceReady
<1>1. ASSUME NEW o \in OrderIds, NEW r \in Requests, Queue(o, r)
      PROVE  ThreadsOK'
  BY <1>1 DEF Queue
<1>2. ASSUME NEW o \in OrderIds, NEW r \in Requests, NEW p \in Prices,
             ExecuteMarket(o, r, p)
      PROVE  ThreadsOK'
  BY <1>2 DEF ExecuteMarket
<1>3. ASSUME NEW o \in OrderIds, NEW sl \in OrderIds, NEW tgt \in OrderIds,
             NEW r \in Requests, QueueBracket(o, sl, tgt, r)
      PROVE  ThreadsOK'
  BY <1>3 DEF QueueBracket
<1>4. ASSUME NEW o \in OrderIds, FireAmo(o) \/ Cancel(o) \/ ClientGivesUp(o)
      PROVE  ThreadsOK'
  BY <1>4 DEF FireAmo, Cancel, ClientGivesUp
<1>5. ASSUME NEW o \in OrderIds, NEW p \in Prices, ClientFires(o, p)
      PROVE  ThreadsOK'
  BY <1>5 DEF ClientFires
<1>6. CASE ExpireDay \/ Reset
  BY <1>6 DEF ExpireDay, Reset
<1>7. ASSUME NEW w \in Watchers, NEW p \in Prices, Pull(w, p)
      PROVE  ThreadsOK'
  <2>1. StopsAt(p) \subseteq Snapshot /\ LimitsAt(p) \subseteq Snapshot
    BY SnapshotOfTyped DEF StopsAt, LimitsAt, Workable
  <2>2. p \in PriceOrNull
    BY DEF PriceOrNull
  <2> QED
    BY <1>7, <2>1, <2>2 DEF Pull
<1>8. ASSUME NEW w \in Watchers, NEW p \in Prices,
             FillStop(w, p) \/ StopNotFilled(w, p)
      PROVE  ThreadsOK'
  BY <1>8 DEF FillStop, StopNotFilled
<1>9. ASSUME NEW w \in Watchers, NEW s \in todo[w], TriggerStopMarket(w, s)
      PROVE  ThreadsOK'
  <2>1. SnapshotOf(s.id) \in Snapshot
    BY SnapshotFacts, SnapshotOfTyped
  <2> QED
    BY <1>9, <2>1 DEF TriggerStopMarket
<1>10. ASSUME NEW w \in Watchers, NEW s \in todo[w],
              TriggerStopLimit(w, s) \/ SkipStop(w, s)
       PROVE  ThreadsOK'
  BY <1>10 DEF TriggerStopLimit, SkipStop
<1>11. ASSUME NEW w \in Watchers, Repull(w)
       PROVE  ThreadsOK'
  <2>1. LimitsAt(quote[w]) \subseteq Snapshot
    BY SnapshotOfTyped DEF LimitsAt, Workable
  <2> QED
    BY <1>11, <2>1 DEF Repull
<1>12. ASSUME NEW w \in Watchers, NEW s \in todo[w], NEW q \in Quantities,
              FillSlice(w, s, q) \/ SkipLimit(w, s, q)
       PROVE  ThreadsOK'
  BY <1>12 DEF FillSlice, SkipLimit
<1>13. CASE UNCHANGED vars
  BY <1>13 DEF vars
<1> QED
  BY <1>1, <1>2, <1>3, <1>4, <1>5, <1>6, <1>7, <1>8, <1>9, <1>10, <1>11,
     <1>12, <1>13 DEF Next, ClientStep, WatcherStep

\* The type invariant holds of a new account.
LEMMA TypeInvInit == Init => TypeInv
<1> SUFFICES ASSUME Init PROVE TypeInv
  OBVIOUS
<1>1. A!TypeOK
  BY OrdersAssumption
  DEF OrdersAssumption, Init, A!Init, A!TypeOK, A!Opening, A!Reasons
<1>2. [o \in OrderIds |-> Blank("unused")] \in [OrderIds -> Row]
  BY BlankTyped, PlainStatuses
<1> QED
  BY <1>1, <1>2 DEF Init, TypeInv, TypeOK, PriceReady, PriceOrNull

\* The type invariant is inductive.
LEMMA TypeInvStep == TypeInv /\ [Next]_vars => TypeInv'
<1> SUFFICES ASSUME TypeInv, [Next]_vars PROVE TypeInv'
  OBVIOUS
<1>1. A!TypeOK'
  <2>1. [AP!Next]_(AP!vars)
    BY AccountStep, SameNext DEF A!vars, AP!vars
  <2>2. AP!TypeOK
    BY SameTypes DEF TypeInv, TypeOK
  <2>3. AP!TypeOK'
    BY <2>1, <2>2, SameAssumption, AP!TypeStep
  <2> QED
    BY <2>3, SameTypes
<1>2. orders' \in [OrderIds -> Row] /\ traded' \in [OrderIds -> Nat]
  BY TableStep
<1>3. ThreadsOK'
  BY ThreadStep
<1> QED
  BY <1>1, <1>2, <1>3 DEF TypeInv, TypeOK, ThreadsOK

\* In every reachable state, with any number of orders and watchers: rows,
\* trades, snapshots and the account are well typed; no slice, rebalancing
\* or stale snapshot drives a quantity to zero, below it or past its order.
THEOREM OrdersTypeInv == Spec => []TypeInv
  BY TypeInvInit, TypeInvStep, PTL DEF Spec

\* Rows, trades, watchers and account are well typed in every reachable
\* state; in particular sibling rebalancing and slices never write a quantity
\* of zero (state.py 588-623, limit.py 97-103).
THEOREM OrdersTypeOK == Spec => []TypeOK
<1>1. TypeInv => TypeOK
  BY DEF TypeInv
<1> QED
  BY <1>1, OrdersTypeInv, PTL

\* Orders implement the account, for every set of constants: whatever the
\* threads do, money and shares move by whole account transactions only, so
\* every theorem about the account holds of the order system.
THEOREM OrdersImplementAccount == Spec => ImplementsAccount
<1>1. Init => A!Init
  BY DEF Init
<1>2. TypeInv /\ [Next]_vars => [A!Next]_(A!vars)
  BY AccountStep
<1> QED
  BY <1>1, <1>2, OrdersTypeInv, PTL DEF Spec, ImplementsAccount, A!Spec

\* In particular the ledger explains the balance in every reachable state of
\* the order system.
THEOREM OrdersCashIsLedger == Spec => []A!CashIsLedger
<1>1. Init => A!CashIsLedger
  <2>1. ASSUME NEW c \in Capitals
        PROVE  c = A!Opening(c)["initial_capital"] + A!Opening(c)["buy_principal"]
                     + A!Opening(c)["buy_fees"] + A!Opening(c)["sell_principal"]
                     + A!Opening(c)["sell_fees"] + A!Opening(c)["dividend"]
                     + A!Opening(c)["adjustment"]
    BY OrdersAssumption DEF OrdersAssumption, A!Opening, A!Reasons
  <2> QED
    BY <2>1 DEF Init, A!Init, A!CashIsLedger, A!LedgerSum
<1>2. TypeInv /\ A!CashIsLedger /\ [Next]_vars => A!CashIsLedger'
  <2> SUFFICES ASSUME TypeInv, A!CashIsLedger, [Next]_vars
               PROVE  A!CashIsLedger'
    OBVIOUS
  <2>1. [AP!Next]_(AP!vars)
    BY AccountStep, SameNext DEF A!vars, AP!vars
  <2>2. AP!TypeOK
    BY SameTypes DEF TypeInv, TypeOK
  <2>3. AP!CashIsLedger
    BY DEF A!CashIsLedger, AP!CashIsLedger, A!LedgerSum, AP!LedgerSum
  <2>4. AP!CashIsLedger'
    BY <2>1, <2>2, <2>3, SameAssumption, AP!CashStep
  <2> QED
    BY <2>4 DEF A!CashIsLedger, AP!CashIsLedger, A!LedgerSum, AP!LedgerSum
<1> QED
  BY <1>1, <1>2, OrdersTypeInv, PTL DEF Spec

-----------------------------------------------------------------------------
(* Terminal orders are final. *)

\* A row that was terminal is untouched, or its table was wiped.
Frozen(o) ==
  \/ orders'[o] = orders[o] /\ traded'[o] = traded[o]
  \/ orders'[o].status = "deleted"

\* A terminal row passes none of the claims.
LEMMA TerminalIsNotLive ==
  ASSUME NEW o \in OrderIds, orders[o].status \in Terminal
  PROVE  ~IsLive(o) /\ ~Unused(o) /\ orders[o].status # "pending"
  BY DEF IsLive, Unused, Live, Terminal

\* A fill touches its own row, which was live, and live siblings.
LEMMA BookSliceFrozen ==
  ASSUME TypeOK, NEW o \in OrderIds, NEW x \in OrderIds,
         NEW q, NEW p, NEW done, NEW terminal \in BOOLEAN,
         BookSlice(o, q, p, done, terminal),
         x # o, orders[x].status \in Terminal
  PROVE  Frozen(x)
<1> DEFINE rows ==
             Claimed(o, IF terminal THEN "filled" ELSE "partially_filled", done)
           shrunk == ShrinkSibling(rows, o, done)
<1>1. rows[x] = orders[x]
  BY DEF Claimed, TypeOK
<1>2. orders[x].status \notin Live
  BY DEF Live, Terminal
<1>3. shrunk[x] = orders[x]
  BY <1>1, <1>2 DEF ShrinkSibling
<1>4. CancelSiblings(shrunk, o)[x] = orders[x]
  BY <1>2, <1>3 DEF CancelSiblings
<1>5. orders' = IF terminal THEN CancelSiblings(shrunk, o) ELSE shrunk
  BY DEF BookSlice
<1>6. traded'[x] = traded[x]
  BY DEF BookSlice, TypeOK
<1> QED
  BY <1>3, <1>4, <1>5, <1>6 DEF Frozen

\* A market fill leaves terminal rows alone.
LEMMA FillPendingMarketFrozen ==
  ASSUME TypeOK, NEW o \in OrderIds, NEW x \in OrderIds, NEW q, NEW p,
         FillPendingMarket(o, q, p), orders[x].status \in Terminal
  PROVE  Frozen(x)
<1>1. x # o
  BY TerminalIsNotLive DEF FillPendingMarket
<1>2. Claimed(o, "filled", q)[x] = orders[x]
  BY <1>1 DEF Claimed, TypeOK
<1>3. orders'[x] = orders[x]
  BY <1>2 DEF FillPendingMarket, CancelSiblings, Live, Terminal
<1>4. traded'[x] = traded[x]
  BY <1>1 DEF FillPendingMarket, TypeOK
<1> QED
  BY <1>3, <1>4 DEF Frozen

\* Every step but a reset leaves terminal rows and their trades alone.
LEMMA FrozenStep ==
  ASSUME TypeInv, [Next]_vars, NEW x \in OrderIds, orders[x].status \in Terminal
  PROVE  Frozen(x)
<1> USE DEF table, TypeInv
<1>1. ASSUME NEW o \in OrderIds, NEW r \in Requests, Queue(o, r)
      PROVE  Frozen(x)
  BY <1>1, TerminalIsNotLive DEF Queue, Frozen, TypeOK
<1>2. ASSUME NEW o \in OrderIds, NEW r \in Requests, NEW p \in Prices,
             ExecuteMarket(o, r, p)
      PROVE  Frozen(x)
  BY <1>2, TerminalIsNotLive DEF ExecuteMarket, Frozen, TypeOK
<1>3. ASSUME NEW o \in OrderIds, NEW sl \in OrderIds, NEW tgt \in OrderIds,
             NEW r \in Requests, QueueBracket(o, sl, tgt, r)
      PROVE  Frozen(x)
  BY <1>3, TerminalIsNotLive DEF QueueBracket, Frozen, TypeOK
<1>4. ASSUME NEW o \in OrderIds, Cancel(o)
      PROVE  Frozen(x)
  BY <1>4, TerminalIsNotLive DEF Cancel, Frozen
<1>5. ASSUME NEW o \in OrderIds, NEW p \in Prices, ClientFires(o, p)
      PROVE  Frozen(x)
  BY <1>5, FillPendingMarketFrozen DEF ClientFires
<1>6. CASE ExpireDay
  BY <1>6, TerminalIsNotLive DEF ExpireDay, Frozen
<1>7. CASE Reset
  BY <1>7, TerminalIsNotLive DEF Reset, Frozen, Blank
<1>8. ASSUME NEW w \in Watchers, NEW p \in Prices, FillStop(w, p)
      PROVE  Frozen(x)
  BY <1>8, ClaimFacts, FillPendingMarketFrozen DEF FillStop
<1>9. ASSUME NEW w \in Watchers, NEW s \in todo[w], TriggerStopLimit(w, s)
      PROVE  Frozen(x)
  BY <1>9, SnapshotFacts, TerminalIsNotLive DEF TriggerStopLimit, Frozen, TypeOK
<1>10. ASSUME NEW w \in Watchers, NEW s \in todo[w], NEW q \in Quantities,
              FillSlice(w, s, q)
       PROVE  Frozen(x)
  <2>1. x # s.id
    BY <1>10, TerminalIsNotLive DEF FillSlice, FillLimit
  <2> QED
    BY <1>10, <2>1, SnapshotFacts, BookSliceFrozen DEF FillSlice, FillLimit
<1>11. ASSUME NEW o \in OrderIds, FireAmo(o) \/ ClientGivesUp(o)
       PROVE  Frozen(x)
  BY <1>11 DEF FireAmo, ClientGivesUp, Frozen
<1>12. ASSUME NEW w \in Watchers, NEW p \in Prices,
              Pull(w, p) \/ StopNotFilled(w, p)
       PROVE  Frozen(x)
  BY <1>12 DEF Pull, StopNotFilled, Frozen
<1>13. ASSUME NEW w \in Watchers, NEW s \in todo[w],
              TriggerStopMarket(w, s) \/ SkipStop(w, s)
       PROVE  Frozen(x)
  BY <1>13 DEF TriggerStopMarket, SkipStop, Frozen
<1>14. ASSUME NEW w \in Watchers, NEW s \in todo[w], NEW q \in Quantities,
              SkipLimit(w, s, q)
       PROVE  Frozen(x)
  BY <1>14 DEF SkipLimit, Frozen
<1>15. ASSUME NEW w \in Watchers, Repull(w)
       PROVE  Frozen(x)
  BY <1>15 DEF Repull, Frozen
<1>16. CASE UNCHANGED vars
  BY <1>16 DEF vars, Frozen
<1> QED
  BY <1>1, <1>2, <1>3, <1>4, <1>5, <1>6, <1>7, <1>8, <1>9, <1>10, <1>11,
     <1>12, <1>13, <1>14, <1>15, <1>16 DEF Next, ClientStep, WatcherStep

\* The cancel-versus-fill race, for any number of orders, clients and
\* watchers: no thread that read an order while it was live changes it, or
\* trades for it, once it is filled, cancelled or expired.
THEOREM OrdersTerminalFrozen == Spec => TerminalFrozen
<1>1. TypeInv /\ [Next]_vars =>
        [ \A o \in OrderIds : orders[o].status \in Terminal =>
            \/ orders'[o] = orders[o] /\ traded'[o] = traded[o]
            \/ orders'[o].status = "deleted" ]_vars
  BY FrozenStep DEF Frozen
<1> QED
  BY <1>1, OrdersTypeInv, PTL DEF Spec, TerminalFrozen

-----------------------------------------------------------------------------
(****************************************************************************)
(* Brackets, for any number of orders, clients and watchers: exits wait for *)
(* their entry, one exit closes it, and a dead entry leaves no live exit.   *)
(*                                                                          *)
(* None of the three properties is inductive.  A watcher fills an exit from *)
(* a snapshot, so it must be known that a snapshot of a live exit was taken *)
(* when the entry was FILLED already (Released); that a thread that fills   *)
(* entries never holds an exit (EntriesFire); and what a family of rows     *)
(* looks like (Families).                                                   *)
(****************************************************************************)

Gone == {"unused", "deleted"}

\* A child exists only next to its parent, which has no parent itself; it is
\* a limit or a stop and shares the parent's time in force.
Families ==
  \A c \in OrderIds : orders[c].parent # NoOrder =>
    LET e == orders[c].parent IN
    /\ orders[c].status \notin Gone /\ orders[e].status \notin Gone
    /\ orders[e].parent = NoOrder
    /\ orders[c].otype # "market" /\ orders[c].tif = orders[e].tif

\* Nothing happened to a child before its parent was FILLED.
ChildrenWait ==
  \A c \in OrderIds :
    /\ orders[c].parent # NoOrder
    /\ orders[c].status \in {"partially_filled", "filled"} \/ traded[c] > 0
    => orders[orders[c].parent].status = "filled"

\* What a watcher holds is a drawn id, and if still live, released.
Ready(o) == ~Unused(o) /\ (IsLive(o) => ~Gated(o))

Released ==
  \A w \in Watchers :
    /\ \A s \in todo[w] : Ready(s.id)
    /\ claim[w] # NoSnapshot => Ready(claim[w].id)

EntriesFire == \A o \in firing : ~Unused(o) /\ orders[o].parent = NoOrder

\* An id that was not drawn has no trades.
UnusedUntraded == \A o \in OrderIds : Unused(o) => traded[o] = 0

TableInv == Families /\ ChildrenWait /\ UnusedUntraded /\ NoOrphans /\ OneExit

BracketInv == TypeInv /\ TableInv /\ Released /\ EntriesFire

-----------------------------------------------------------------------------
(* How one step may change the table *)

\* No row is born in the step.
Unborn == \A x \in OrderIds : Unused(x) => orders'[x] = orders[x]

\* A drawn row keeps its place in its family, is not brought back to life,
\* and stays FILLED if it was.
Kept ==
  \A x \in OrderIds : ~Unused(x) =>
    /\ orders'[x].parent = orders[x].parent
    /\ orders'[x].tif = orders[x].tif
    /\ orders[x].otype # "market" => orders'[x].otype # "market"
    /\ orders'[x].status # "unused"
    /\ orders'[x].status = "deleted" <=> orders[x].status = "deleted"
    /\ orders'[x].status \in Live => orders[x].status \in Live
    /\ orders[x].status = "filled" => orders'[x].status = "filled"

\* The rows after a fill of order o.
FillMoves(o, terminal) ==
  \A x \in OrderIds :
    /\ orders'[x].parent = orders[x].parent /\ orders'[x].tif = orders[x].tif
    /\ orders'[x].otype = orders[x].otype
    /\ orders'[x].status =
         IF x = o THEN IF terminal THEN "filled" ELSE "partially_filled"
         ELSE IF terminal /\ x \in Siblings(o) /\ IsLive(x) THEN "cancelled"
         ELSE orders[x].status
    /\ x # o => traded'[x] = traded[x]

\* Rewriting two columns leaves the others alone.
LEMMA RowColumns ==
  ASSUME NEW r \in Row
  PROVE  /\ \A v : /\ [r EXCEPT !.status = v].parent = r.parent
                   /\ [r EXCEPT !.status = v].tif = r.tif
                   /\ [r EXCEPT !.status = v].otype = r.otype
                   /\ [r EXCEPT !.status = v].status = v
         /\ \A v : /\ [r EXCEPT !.qty = v].parent = r.parent
                   /\ [r EXCEPT !.qty = v].tif = r.tif
                   /\ [r EXCEPT !.qty = v].otype = r.otype
                   /\ [r EXCEPT !.qty = v].status = r.status
         /\ \A v, f : LET n == [r EXCEPT !.status = v, !.filled = f] IN
              n.parent = r.parent /\ n.tif = r.tif /\ n.otype = r.otype
              /\ n.status = v
  BY DEF Row

\* The claim of a fill changes the status of its own row and no link.
LEMMA ClaimedColumns ==
  ASSUME TypeInv, NEW o \in OrderIds, NEW v, NEW f, NEW x \in OrderIds
  PROVE  LET r == Claimed(o, v, f)[x] IN
         /\ r.parent = orders[x].parent /\ r.tif = orders[x].tif
         /\ r.otype = orders[x].otype
         /\ r.status = IF x = o THEN v ELSE orders[x].status
<1>1. orders[x] \in Row /\ orders \in [OrderIds -> Row]
  BY DEF TypeInv, TypeOK
<1> QED
  BY <1>1, RowColumns DEF Claimed

\* Rebalancing a sibling changes quantities only.
LEMMA ShrinkColumns ==
  ASSUME NEW rows \in [OrderIds -> Row], NEW o, NEW done, NEW x \in OrderIds
  PROVE  LET r == ShrinkSibling(rows, o, done)[x] IN
         /\ r.parent = rows[x].parent /\ r.tif = rows[x].tif
         /\ r.otype = rows[x].otype /\ r.status = rows[x].status
  BY RowColumns DEF ShrinkSibling

\* Cancelling siblings changes the status of live siblings only.
LEMMA CancelColumns ==
  ASSUME NEW rows \in [OrderIds -> Row], NEW o, NEW x \in OrderIds
  PROVE  LET r == CancelSiblings(rows, o)[x] IN
         /\ r.parent = rows[x].parent /\ r.tif = rows[x].tif
         /\ r.otype = rows[x].otype
         /\ r.status = IF x \in Siblings(o) /\ rows[x].status \in Live
                       THEN "cancelled" ELSE rows[x].status
  BY RowColumns DEF CancelSiblings

\* What the transaction of limit.fill does to statuses and links.
LEMMA BookSliceMoves ==
  ASSUME TypeInv, NEW o \in OrderIds, NEW q \in Quantities, NEW p \in Prices,
         NEW done \in Quantities, NEW terminal \in BOOLEAN,
         BookSlice(o, q, p, done, terminal)
  PROVE  FillMoves(o, terminal)
<1> DEFINE status == IF terminal THEN "filled" ELSE "partially_filled"
           rows == Claimed(o, status, done)
           shrunk == ShrinkSibling(rows, o, done)
<1>1. rows \in [OrderIds -> Row] /\ rows[o].parent = orders[o].parent
  BY ClaimedTyped, PlainStatuses DEF TypeInv
<1>2. shrunk \in [OrderIds -> Row]
  BY <1>1, QuantityFacts, ShrinkSiblingTyped DEF TypeInv
<1>3. orders' = IF terminal THEN CancelSiblings(shrunk, o) ELSE shrunk
  BY DEF BookSlice
<1>4. traded' = [traded EXCEPT ![o] = @ + q]
  BY DEF BookSlice
<1> SUFFICES ASSUME NEW x \in OrderIds
             PROVE  /\ orders'[x].parent = orders[x].parent
                    /\ orders'[x].tif = orders[x].tif
                    /\ orders'[x].otype = orders[x].otype
                    /\ orders'[x].status =
                         IF x = o THEN status
                         ELSE IF terminal /\ x \in Siblings(o) /\ IsLive(x)
                              THEN "cancelled"
                         ELSE orders[x].status
                    /\ x # o => traded'[x] = traded[x]
  BY DEF FillMoves
<1>5. /\ rows[x].parent = orders[x].parent /\ rows[x].tif = orders[x].tif
      /\ rows[x].otype = orders[x].otype
      /\ rows[x].status = IF x = o THEN status ELSE orders[x].status
  BY ClaimedColumns
<1>6. /\ shrunk[x].parent = rows[x].parent /\ shrunk[x].tif = rows[x].tif
      /\ shrunk[x].otype = rows[x].otype /\ shrunk[x].status = rows[x].status
  BY <1>1, ShrinkColumns
<1> DEFINE final == CancelSiblings(shrunk, o)
<1>7. /\ final[x].parent = shrunk[x].parent /\ final[x].tif = shrunk[x].tif
      /\ final[x].otype = shrunk[x].otype
      /\ final[x].status = IF x \in Siblings(o) /\ shrunk[x].status \in Live
                           THEN "cancelled" ELSE shrunk[x].status
  BY <1>2, CancelColumns
<1>8. x \in Siblings(o) => x # o
  BY DEF Siblings
<1>9. x # o => traded'[x] = traded[x]
  BY <1>4 DEF TypeInv, TypeOK
<1>10. orders' = IF terminal THEN final ELSE shrunk
  BY <1>3
<1> HIDE DEF rows, shrunk, final, status
<1> QED
  BY <1>5, <1>6, <1>7, <1>8, <1>9, <1>10 DEF IsLive

\* What the transaction of fill_pending_market does to statuses and links.
LEMMA FillPendingMarketMoves ==
  ASSUME TypeInv, NEW o \in OrderIds, NEW q \in Quantities, NEW p \in Prices,
         FillPendingMarket(o, q, p)
  PROVE  FillMoves(o, TRUE)
<1> DEFINE rows == Claimed(o, "filled", q)
           final == CancelSiblings(rows, o)
<1>1. rows \in [OrderIds -> Row]
  BY ClaimedTyped, PlainStatuses DEF TypeInv
<1>2. orders' = final /\ traded' = [traded EXCEPT ![o] = @ + q]
  BY DEF FillPendingMarket
<1> SUFFICES ASSUME NEW x \in OrderIds
             PROVE  /\ orders'[x].parent = orders[x].parent
                    /\ orders'[x].tif = orders[x].tif
                    /\ orders'[x].otype = orders[x].otype
                    /\ orders'[x].status =
                         IF x = o THEN "filled"
                         ELSE IF x \in Siblings(o) /\ IsLive(x)
                              THEN "cancelled"
                         ELSE orders[x].status
                    /\ x # o => traded'[x] = traded[x]
  BY DEF FillMoves
<1>3. /\ rows[x].parent = orders[x].parent /\ rows[x].tif = orders[x].tif
      /\ rows[x].otype = orders[x].otype
      /\ rows[x].status = IF x = o THEN "filled" ELSE orders[x].status
  BY ClaimedColumns
<1>4. /\ final[x].parent = rows[x].parent /\ final[x].tif = rows[x].tif
      /\ final[x].otype = rows[x].otype
      /\ final[x].status = IF x \in Siblings(o) /\ rows[x].status \in Live
                           THEN "cancelled" ELSE rows[x].status
  BY <1>1, CancelColumns
<1>5. x \in Siblings(o) => x # o
  BY DEF Siblings
<1>6. x # o => traded'[x] = traded[x]
  BY <1>2 DEF TypeInv, TypeOK
<1> HIDE DEF rows, final
<1> QED
  BY <1>2, <1>3, <1>4, <1>5, <1>6 DEF IsLive

-----------------------------------------------------------------------------
(* What the invariant needs of the table after a step *)

\* A fill of a live, released order.
LEMMA FillStep ==
  ASSUME BracketInv, NEW o \in OrderIds, NEW terminal \in BOOLEAN,
         FillMoves(o, terminal), IsLive(o), Ready(o)
  PROVE  TableInv' /\ Kept
<1> USE DEF Live
<1>1. ASSUME NEW x \in OrderIds
      PROVE  /\ orders'[x].parent = orders[x].parent
             /\ orders'[x].tif = orders[x].tif
             /\ orders'[x].otype = orders[x].otype
             /\ x # o => traded'[x] = traded[x]
             /\ x # o => \/ orders'[x].status = orders[x].status
                        \/ /\ orders'[x].status = "cancelled"
                           /\ terminal /\ x \in Siblings(o) /\ IsLive(x)
             /\ x = o => orders'[x].status \in {"filled", "partially_filled"}
             /\ x = o /\ terminal => orders'[x].status = "filled"
             /\ x # o /\ terminal /\ x \in Siblings(o) /\ IsLive(x)
                  => orders'[x].status = "cancelled"
             /\ x = o /\ ~terminal => orders'[x].status = "partially_filled"
  BY DEF FillMoves
<1>2. \A x \in OrderIds : orders[x].parent \in OrderIds \cup {NoOrder}
  BY DEF BracketInv, TableInv, TypeInv, TypeOK, Row
<1>3. Families'
  BY <1>1, <1>2 DEF Families, Gone, BracketInv, TableInv, IsLive
<1>4. ChildrenWait'
  <2> SUFFICES ASSUME NEW c \in OrderIds, orders'[c].parent # NoOrder,
                      \/ orders'[c].status \in {"partially_filled", "filled"}
                      \/ traded'[c] > 0
               PROVE  orders'[orders'[c].parent].status = "filled"
    BY DEF ChildrenWait
  <2> DEFINE e == orders[c].parent
  <2>1. e \in OrderIds /\ orders'[c].parent = e /\ e # NoOrder
    BY <1>1, <1>2
  <2>2. orders[e].status = "filled"
    <3>1. CASE c = o
      BY <3>1, <2>1 DEF Ready, Gated
    <3>2. CASE c # o
      BY <3>2, <1>1, <2>1 DEF BracketInv, TableInv, ChildrenWait
    <3> QED
      BY <3>1, <3>2
  <2>3. e # o
    BY <2>2 DEF IsLive
  <2> QED
    BY <1>1, <2>1, <2>2, <2>3 DEF IsLive
<1>5. NoOrphans'
  <2> SUFFICES ASSUME NEW c \in OrderIds, orders'[c].parent # NoOrder
               PROVE  LET e == orders'[c].parent IN
                      /\ orders'[e].status \in {"cancelled", "expired"}
                           => orders'[c].status \notin Live
                      /\ orders'[c].status # "deleted"
                           => orders'[e].status # "deleted"
    BY DEF NoOrphans, IsLive
  <2> DEFINE e == orders[c].parent
  <2>1. e \in OrderIds /\ orders'[c].parent = e /\ e # NoOrder
    BY <1>1, <1>2
  <2>2. /\ orders[e].status \in {"cancelled", "expired"} => ~IsLive(c)
        /\ orders[e].status # "deleted" /\ orders[e].parent = NoOrder
    BY <2>1 DEF BracketInv, TableInv, NoOrphans, Families, Gone
  <2>3. e \notin Siblings(o)
    BY <2>2 DEF Siblings
  <2>4. orders'[e].status = orders[e].status
        \/ orders'[e].status \in {"filled", "partially_filled"}
    BY <1>1, <2>1, <2>3
  <2>5. orders'[c].status \in Live => IsLive(c)
    BY <1>1 DEF IsLive
  <2> QED
    BY <2>1, <2>2, <2>4, <2>5
<1>6. OneExit'
  <2>1. \A x \in OrderIds : Siblings(x)' = Siblings(x)
    BY <1>1 DEF Siblings
  <2> SUFFICES ASSUME NEW x \in OrderIds, NEW y \in Siblings(x),
                      orders'[x].status = "filled"
               PROVE  orders'[y].status # "filled"
                      /\ orders'[y].status \notin Live
    BY <2>1 DEF OneExit, IsLive
  <2>2. y \in OrderIds /\ x # y /\ x \in Siblings(y)
    BY DEF Siblings
  <2>3. CASE x = o
    <3>1. orders[y].status # "filled"
      BY <2>2, <2>3 DEF BracketInv, TableInv, OneExit
    <3> QED
      BY <1>1, <2>2, <2>3, <3>1 DEF IsLive
  <2>4. CASE x # o
    <3>1. orders[x].status = "filled"
      BY <1>1, <2>4
    <3>2. orders[y].status # "filled" /\ ~IsLive(y)
      BY <3>1 DEF BracketInv, TableInv, OneExit
    <3> QED
      BY <1>1, <2>2, <3>2 DEF IsLive
  <2> QED
    BY <2>3, <2>4
<1>7. Kept
  BY <1>1 DEF Kept, IsLive, Unused
<1>8. UnusedUntraded'
  BY <1>1 DEF BracketInv, TableInv, UnusedUntraded, Unused
<1> QED
  BY <1>3, <1>4, <1>5, <1>6, <1>7, <1>8 DEF TableInv

\* Rows only cancelled, expired or triggered, and no trade: cancelling or
\* expiring an entry needs its live children to go along.
LEMMA QuietStep ==
  ASSUME BracketInv, Kept, Unborn, traded' = traded,
         \A x \in OrderIds :
           \/ orders'[x].status = orders[x].status
           \/ orders'[x].status \in {"cancelled", "expired"},
         \A x \in OrderIds : \A c \in Children(x) :
           orders'[x].status \in {"cancelled", "expired"} /\ IsLive(x)
             => orders'[c].status \notin Live
  PROVE  TableInv'
<1> USE DEF Live
<1>1. \A x \in OrderIds : /\ orders'[x].parent = orders[x].parent
                          /\ orders'[x].tif = orders[x].tif
                          /\ orders'[x].status \in Live => IsLive(x)
  BY DEF Kept, Unborn, Unused, IsLive
<1>2. \A x \in OrderIds : orders[x].parent \in OrderIds \cup {NoOrder}
  BY DEF BracketInv, TableInv, TypeInv, TypeOK, Row
<1>3. Families'
  BY <1>1, <1>2 DEF Families, Gone, BracketInv, TableInv, Kept, Unused
<1>4. ChildrenWait'
  <2> SUFFICES ASSUME NEW c \in OrderIds, orders'[c].parent # NoOrder,
                      \/ orders'[c].status \in {"partially_filled", "filled"}
                      \/ traded'[c] > 0
               PROVE  orders'[orders'[c].parent].status = "filled"
    BY DEF ChildrenWait
  <2>1. orders[c].parent \in OrderIds /\ orders'[c].parent = orders[c].parent
    BY <1>1, <1>2
  <2>2. orders[orders[c].parent].status = "filled"
    BY <2>1 DEF BracketInv, TableInv, ChildrenWait
  <2> QED
    BY <2>1, <2>2 DEF Kept, Unused
<1>5. NoOrphans'
  <2> SUFFICES ASSUME NEW c \in OrderIds, orders'[c].parent # NoOrder
               PROVE  LET e == orders'[c].parent IN
                      /\ orders'[e].status \in {"cancelled", "expired"}
                           => orders'[c].status \notin Live
                      /\ orders'[c].status # "deleted"
                           => orders'[e].status # "deleted"
    BY DEF NoOrphans, IsLive
  <2> DEFINE e == orders[c].parent
  <2>1. e \in OrderIds /\ orders'[c].parent = e /\ c \in Children(e)
    BY <1>1, <1>2 DEF Children
  <2>2. /\ orders[e].status \in {"cancelled", "expired"} => ~IsLive(c)
        /\ orders[e].status # "deleted" /\ ~Unused(e)
    BY <1>1, <2>1 DEF BracketInv, TableInv, NoOrphans, Families, Gone, Unused
  <2>3. orders'[e].status # "deleted"
    BY <2>1, <2>2 DEF Kept
  <2>4. CASE IsLive(e)
    BY <2>1, <2>3, <2>4
  <2>5. CASE ~IsLive(e)
    <3>1. CASE orders[e].status = "filled"
      BY <2>1, <2>2, <2>3, <3>1 DEF Kept
    <3>2. CASE orders[e].status \in {"cancelled", "expired"}
      BY <1>1, <2>1, <2>2, <2>3, <3>2
    <3>3. orders[e].status \in Statuses
      BY <2>1 DEF BracketInv, TableInv, TypeInv, TypeOK, Row
    <3> QED
      BY <2>2, <2>5, <3>1, <3>2, <3>3 DEF Statuses, Terminal, IsLive, Unused
  <2> QED
    BY <2>4, <2>5
<1>6. OneExit'
  <2>1. \A x \in OrderIds : Siblings(x)' = Siblings(x)
    BY <1>1 DEF Siblings
  <2> SUFFICES ASSUME NEW x \in OrderIds, NEW y \in Siblings(x),
                      orders'[x].status = "filled"
               PROVE  orders'[y].status # "filled"
                      /\ orders'[y].status \notin Live
    BY <2>1 DEF OneExit, IsLive
  <2>2. y \in OrderIds /\ orders[x].status = "filled"
    BY DEF Siblings
  <2>3. orders[y].status # "filled" /\ ~IsLive(y)
    BY <2>2 DEF BracketInv, TableInv, OneExit
  <2> QED
    BY <1>1, <2>2, <2>3
<1>7. UnusedUntraded'
  BY DEF BracketInv, TableInv, UnusedUntraded, Unused, Kept
<1> QED
  BY <1>3, <1>4, <1>5, <1>6, <1>7 DEF TableInv

\* A row born without a parent: nobody points at an id that was unused.
LEMMA BirthStep ==
  ASSUME BracketInv, NEW o \in OrderIds, Unused(o), NEW row, NEW n,
         row.parent = NoOrder,
         row.status \notin {"cancelled", "expired", "unused"},
         orders' = [orders EXCEPT ![o] = row],
         traded' = [traded EXCEPT ![o] = n] \/ traded' = traded
  PROVE  TableInv' /\ Kept
<1>1. orders \in [OrderIds -> Row] /\ traded \in [OrderIds -> Nat]
  BY DEF BracketInv, TableInv, TypeInv, TypeOK
<1>2. \A x \in OrderIds : /\ x # o => orders'[x] = orders[x]
                          /\ x # o => traded'[x] = traded[x]
  BY <1>1
<1>3. orders'[o] = row
  BY <1>1
<1>4. \A x \in OrderIds : /\ orders[x].parent # o
                          /\ orders[x].parent \in OrderIds \cup {NoOrder}
  BY <1>1, OrdersAssumption
  DEF BracketInv, TableInv, Families, Gone, Unused, Row, OrdersAssumption
<1>5. Families'
  BY <1>2, <1>3, <1>4 DEF Families, BracketInv, TableInv
<1>6. ChildrenWait'
  BY <1>2, <1>3, <1>4 DEF ChildrenWait, BracketInv, TableInv
<1>7. NoOrphans'
  BY <1>2, <1>3, <1>4 DEF NoOrphans, BracketInv, TableInv, IsLive
<1>8. OneExit'
  <2>1. \A x, y \in OrderIds : y \in Siblings(x)' =>
          x # o /\ y # o /\ y \in Siblings(x)
    BY <1>2, <1>3, <1>4 DEF Siblings
  <2> SUFFICES ASSUME NEW x \in OrderIds, NEW y \in Siblings(x)',
                      orders'[x].status = "filled"
               PROVE  orders'[y].status # "filled"
                      /\ orders'[y].status \notin Live
    BY DEF OneExit, IsLive
  <2>2. y \in OrderIds
    BY DEF Siblings
  <2> QED
    BY <1>2, <2>1, <2>2 DEF OneExit, BracketInv, TableInv, IsLive
<1>9. Kept
  BY <1>2 DEF Kept, Unused
<1>10. UnusedUntraded'
  BY <1>2, <1>3 DEF BracketInv, TableInv, UnusedUntraded, Unused
<1> QED
  BY <1>5, <1>6, <1>7, <1>8, <1>9, <1>10 DEF TableInv

\* bracket.queue adds a whole family and touches no other row.
LEMMA BracketBirthStep ==
  ASSUME BracketInv, NEW o \in OrderIds, NEW sl \in OrderIds,
         NEW tgt \in OrderIds, NEW r \in Requests, QueueBracket(o, sl, tgt, r)
  PROVE  TableInv' /\ Kept
<1>1. orders \in [OrderIds -> Row] /\ traded \in [OrderIds -> Nat]
  BY DEF BracketInv, TableInv, TypeInv, TypeOK
<1>2. o # sl /\ o # tgt /\ sl # tgt /\ Unused(o) /\ Unused(sl) /\ Unused(tgt)
  BY DEF QueueBracket
<1>3. \A x \in OrderIds \ {o, sl, tgt} : orders'[x] = orders[x]
  BY <1>1 DEF QueueBracket
<1>4. traded' = traded
  BY DEF QueueBracket
<1>5. /\ orders'[o].parent = NoOrder /\ orders'[o].status = "pending"
      /\ orders'[o].tif = r.tif
  BY <1>1, <1>2 DEF QueueBracket, NewRow
<1>6. /\ orders'[sl].parent = o /\ orders'[sl].status = "pending"
      /\ orders'[sl].tif = r.tif /\ orders'[sl].otype = "stop_market"
  BY <1>1, <1>2 DEF QueueBracket, NewRow
<1>7. /\ orders'[tgt].parent = o /\ orders'[tgt].status = "pending"
      /\ orders'[tgt].tif = r.tif /\ orders'[tgt].otype = "limit"
  BY <1>1, <1>2 DEF QueueBracket, NewRow
<1>8. o # NoOrder
  BY OrdersAssumption DEF OrdersAssumption
<1>9. \A x \in OrderIds :
        /\ orders[x].parent \notin {o, sl, tgt}
        /\ orders[x].parent \in OrderIds \cup {NoOrder}
  BY <1>1, <1>2, OrdersAssumption
  DEF BracketInv, TableInv, Families, Gone, Unused, Row, OrdersAssumption
<1>10. traded[sl] = 0 /\ traded[tgt] = 0
  BY <1>2 DEF BracketInv, TableInv, UnusedUntraded
<1> HIDE DEF QueueBracket
<1>11. Families'
  BY <1>3, <1>5, <1>6, <1>7, <1>8, <1>9
  DEF Families, Gone, BracketInv, TableInv
<1>12. ChildrenWait'
  BY <1>3, <1>4, <1>5, <1>6, <1>7, <1>9, <1>10
  DEF ChildrenWait, BracketInv, TableInv
<1>13. UnusedUntraded'
  BY <1>3, <1>4, <1>5, <1>6, <1>7
  DEF UnusedUntraded, Unused, BracketInv, TableInv
<1>14. NoOrphans'
  BY <1>3, <1>5, <1>6, <1>7, <1>9
  DEF NoOrphans, BracketInv, TableInv, IsLive
<1>15. OneExit'
  <2> SUFFICES ASSUME NEW x \in OrderIds, NEW y \in Siblings(x)',
                      orders'[x].status = "filled"
               PROVE  orders'[y].status # "filled"
                      /\ orders'[y].status \notin Live
    BY DEF OneExit, IsLive
  <2>1. y \in OrderIds /\ x \notin {o, sl, tgt}
    BY <1>5, <1>6, <1>7 DEF Siblings
  <2>2. y \notin {o, sl, tgt} /\ y \in Siblings(x)
    BY <1>3, <1>5, <1>6, <1>7, <1>9, <2>1 DEF Siblings
  <2> QED
    BY <1>3, <2>1, <2>2 DEF OneExit, BracketInv, TableInv, IsLive
<1>16. Kept
  BY <1>2, <1>3 DEF Kept, Unused
<1> QED
  BY <1>11, <1>12, <1>13, <1>14, <1>15, <1>16 DEF TableInv

\* After a reset no row is left, and no used id becomes unused.
LEMMA ResetStep ==
  ASSUME BracketInv, Reset
  PROVE  /\ TableInv'
         /\ \A x \in OrderIds :
              /\ orders'[x].parent = NoOrder /\ orders'[x].status \in Gone
              /\ orders'[x].status = "unused" => Unused(x)
<1>1. \A x \in OrderIds : orders'[x] = IF Unused(x) THEN orders[x]
                                                  ELSE Blank("deleted")
  BY DEF Reset
<1>2. \A x \in OrderIds : Unused(x) => orders[x].parent = NoOrder
  BY DEF BracketInv, TableInv, Families, Gone, Unused
<1>3. Blank("deleted").parent = NoOrder /\ Blank("deleted").status = "deleted"
  BY DEF Blank
<1>4. ASSUME NEW x \in OrderIds
      PROVE  /\ orders'[x].parent = NoOrder /\ orders'[x].status \in Gone
             /\ orders'[x].status = "unused" => Unused(x)
  <2>1. CASE Unused(x)
    BY <1>1, <1>2, <2>1 DEF Gone, Unused
  <2>2. CASE ~Unused(x)
    BY <1>1, <1>3, <2>2 DEF Gone
  <2> QED
    BY <2>1, <2>2
<1>5. \A x \in OrderIds : Siblings(x)' = {}
  BY <1>4 DEF Siblings
<1>6. \A x \in OrderIds : traded'[x] = 0
  BY DEF Reset
<1>7. TableInv'
  BY <1>4, <1>5, <1>6
  DEF TableInv, Families, ChildrenWait, UnusedUntraded, NoOrphans, OneExit
<1> QED
  BY <1>4, <1>7

\* A step that writes no row keeps what is known of the rows.
LEMMA SameTableStep ==
  ASSUME BracketInv, UNCHANGED table
  PROVE  TableInv' /\ Kept
<1>1. orders' = orders /\ traded' = traded
  BY DEF table
<1>2. TableInv'
  BY <1>1 DEF BracketInv, TableInv, Families, ChildrenWait, UnusedUntraded,
     NoOrphans, OneExit, Siblings, IsLive, Unused
<1> QED
  BY <1>1, <1>2 DEF Kept, Unused

\* A cancelled entry takes its live children with it; a cancelled child
\* leaves its family in order.
LEMMA CancelStep ==
  ASSUME BracketInv, NEW o \in OrderIds, Cancel(o)
  PROVE  TableInv' /\ Kept
<1>1. IsLive(o) /\ traded' = traded
  BY DEF Cancel
<1>2. orders \in [OrderIds -> Row]
  BY DEF BracketInv, TypeInv, TypeOK
<1>3. \A x \in OrderIds :
        orders'[x] = IF x = o \/ (x \in Children(o) /\ IsLive(x))
                     THEN [orders[x] EXCEPT !.status = "cancelled"]
                     ELSE orders[x]
  BY DEF Cancel
<1>4. ASSUME NEW x \in OrderIds
      PROVE  /\ orders'[x].parent = orders[x].parent
             /\ orders'[x].tif = orders[x].tif
             /\ orders'[x].otype = orders[x].otype
             /\ orders'[x].status =
                  IF x = o \/ (x \in Children(o) /\ IsLive(x))
                  THEN "cancelled" ELSE orders[x].status
  <2>1. orders[x] \in Row
    BY <1>2
  <2>2. CASE x = o \/ (x \in Children(o) /\ IsLive(x))
    <3>1. orders'[x] = [orders[x] EXCEPT !.status = "cancelled"]
      BY <1>3, <2>2
    <3> QED
      BY <2>1, <2>2, <3>1, RowColumns
  <2>3. CASE ~(x = o \/ (x \in Children(o) /\ IsLive(x)))
    BY <1>3, <2>3
  <2> QED
    BY <2>2, <2>3
<1>5. Unborn
  BY <1>1, <1>3 DEF Unborn, Unused, IsLive, Live
<1>6. Kept
  BY <1>1, <1>4 DEF Kept, Unused, IsLive, Live
<1>7. \A x \in OrderIds : \A c \in Children(x) :
        orders'[x].status \in {"cancelled", "expired"} /\ IsLive(x)
          => orders'[c].status \notin Live
  <2> SUFFICES ASSUME NEW x \in OrderIds, NEW c \in Children(x), IsLive(x),
                      orders'[x].status \in {"cancelled", "expired"}
               PROVE  orders'[c].status \notin Live
    OBVIOUS
  <2>1. c \in OrderIds /\ orders[c].parent = x
    BY DEF Children
  <2>2. CASE x = o
    BY <1>4, <2>1, <2>2 DEF IsLive, Live
  <2>3. CASE x # o
    <3>1. x \in Children(o)
      BY <1>4, <2>3 DEF IsLive, Live
    <3>2. orders[x].parent = o /\ o # NoOrder /\ x # NoOrder
      BY <3>1, OrdersAssumption DEF Children, OrdersAssumption
    <3> QED
      BY <2>1, <3>2 DEF BracketInv, TableInv, Families
  <2> QED
    BY <2>2, <2>3
<1> QED
  BY <1>1, <1>4, <1>5, <1>6, <1>7, QuietStep

\* The expiry sweep takes an entry and its exits together: they share their
\* time in force.
LEMMA ExpireStep ==
  ASSUME BracketInv, ExpireDay
  PROVE  TableInv' /\ Kept
<1>1. orders \in [OrderIds -> Row] /\ traded' = traded
  BY DEF BracketInv, TypeInv, TypeOK, ExpireDay
<1>2. \A x \in OrderIds :
        orders'[x] = IF orders[x].status = "pending" /\ orders[x].tif = "DAY"
                     THEN [orders[x] EXCEPT !.status = "expired"]
                     ELSE orders[x]
  BY DEF ExpireDay
<1>3. ASSUME NEW x \in OrderIds
      PROVE  /\ orders'[x].parent = orders[x].parent
             /\ orders'[x].tif = orders[x].tif
             /\ orders'[x].otype = orders[x].otype
             /\ orders'[x].status =
                  IF orders[x].status = "pending" /\ orders[x].tif = "DAY"
                  THEN "expired" ELSE orders[x].status
  <2>1. orders[x] \in Row
    BY <1>1
  <2>2. CASE orders[x].status = "pending" /\ orders[x].tif = "DAY"
    <3>1. orders'[x] = [orders[x] EXCEPT !.status = "expired"]
      BY <1>2, <2>2
    <3> QED
      BY <2>1, <2>2, <3>1, RowColumns
  <2>3. CASE ~(orders[x].status = "pending" /\ orders[x].tif = "DAY")
    BY <1>2, <2>3
  <2> QED
    BY <2>2, <2>3
<1>4. Unborn
  BY <1>2 DEF Unborn, Unused
<1>5. Kept
  BY <1>3 DEF Kept, Unused, Live
<1>6. \A x \in OrderIds : \A c \in Children(x) :
        orders'[x].status \in {"cancelled", "expired"} /\ IsLive(x)
          => orders'[c].status \notin Live
  <2> SUFFICES ASSUME NEW x \in OrderIds, NEW c \in Children(x), IsLive(x),
                      orders'[x].status \in {"cancelled", "expired"}
               PROVE  orders'[c].status \notin Live
    OBVIOUS
  <2>1. c \in OrderIds /\ orders[c].parent = x /\ x # NoOrder
    BY OrdersAssumption DEF Children, OrdersAssumption
  <2>2. orders[x].status = "pending" /\ orders[x].tif = "DAY"
    BY <1>3 DEF IsLive, Live
  <2>3. orders[c].tif = "DAY" /\ orders[c].status # "partially_filled"
    BY <2>1, <2>2 DEF BracketInv, TableInv, Families, ChildrenWait
  <2> QED
    BY <1>3, <2>1, <2>3 DEF Live
<1> QED
  BY <1>1, <1>3, <1>4, <1>5, <1>6, QuietStep

\* A triggered STOP_LIMIT only changes its type.
LEMMA TriggerStep ==
  ASSUME BracketInv, NEW w \in Watchers, NEW s \in todo[w], TriggerStopLimit(w, s)
  PROVE  TableInv' /\ Kept
<1>1. s.id \in OrderIds /\ orders \in [OrderIds -> Row]
  BY SnapshotFacts DEF BracketInv, TypeInv, TypeOK
<1>2. orders' = [orders EXCEPT ![s.id].otype = "limit"] /\ traded' = traded
      /\ orders[s.id].status = "pending"
  BY DEF TriggerStopLimit
<1>3. ASSUME NEW x \in OrderIds
      PROVE  /\ orders'[x].parent = orders[x].parent
             /\ orders'[x].tif = orders[x].tif
             /\ orders'[x].status = orders[x].status
             /\ orders[x].otype # "market" => orders'[x].otype # "market"
  BY <1>1, <1>2 DEF Row
<1>4. Unborn
  BY <1>1, <1>2 DEF Unborn, Unused
<1>5. Kept
  BY <1>3 DEF Kept, Unused
<1>6. \A x \in OrderIds : IsLive(x) =>
        orders'[x].status \notin {"cancelled", "expired"}
  BY <1>3 DEF IsLive, Live
<1> QED
  BY <1>2, <1>3, <1>4, <1>5, <1>6, QuietStep

\* Every step keeps the families of rows in order, and, but for a reset,
\* takes nothing from a row that was ready to trade.
LEMMA TableInvStep ==
  ASSUME BracketInv, [Next]_vars
  PROVE  TableInv' /\ (Kept \/ Reset)
<1>1. ASSUME NEW o \in OrderIds, NEW r \in Requests, Queue(o, r)
      PROVE  TableInv' /\ Kept
  <2>1. NewRow(r, r.kind).parent = NoOrder
        /\ NewRow(r, r.kind).status = "pending"
    BY DEF NewRow
  <2> QED
    BY <1>1, <2>1, BirthStep DEF Queue
<1>2. ASSUME NEW o \in OrderIds, NEW r \in Requests, NEW p \in Prices,
             ExecuteMarket(o, r, p)
      PROVE  TableInv' /\ Kept
  <2> DEFINE row == [NewRow(r, "market") EXCEPT !.status = "filled",
                                                !.filled = r.qty]
  <2>1. row.parent = NoOrder /\ row.status = "filled"
    BY DEF NewRow
  <2>2. /\ Unused(o) /\ orders' = [orders EXCEPT ![o] = row]
        /\ traded' = [traded EXCEPT ![o] = r.qty]
    BY <1>2 DEF ExecuteMarket
  <2> HIDE DEF row
  <2> QED
    BY <2>1, <2>2, BirthStep
<1>3. ASSUME NEW o \in OrderIds, NEW sl \in OrderIds, NEW tgt \in OrderIds,
             NEW r \in Requests, QueueBracket(o, sl, tgt, r)
      PROVE  TableInv' /\ Kept
  BY <1>3, BracketBirthStep
<1>4. ASSUME NEW o \in OrderIds, Cancel(o)
      PROVE  TableInv' /\ Kept
  BY <1>4, CancelStep
<1>5. ASSUME NEW o \in OrderIds, NEW p \in Prices, ClientFires(o, p)
      PROVE  TableInv' /\ Kept
  <2>1. FillPendingMarket(o, orders[o].qty, p) /\ IsLive(o)
    BY <1>5 DEF ClientFires, FillPendingMarket, IsLive, Live
  <2>2. orders[o].qty \in Quantities
    BY DEF BracketInv, TypeInv, TypeOK, Row
  <2>3. Ready(o)
    BY <1>5 DEF ClientFires, BracketInv, EntriesFire, Ready, Gated
  <2>4. FillMoves(o, TRUE)
    BY <2>1, <2>2, FillPendingMarketMoves DEF BracketInv
  <2> QED
    BY <2>1, <2>3, <2>4, FillStep
<1>6. CASE ExpireDay
  BY <1>6, ExpireStep
<1>7. CASE Reset
  BY <1>7, ResetStep
<1>8. ASSUME NEW w \in Watchers, NEW p \in Prices, FillStop(w, p)
      PROVE  TableInv' /\ Kept
  <2> DEFINE o == claim[w].id
  <2>1. claim[w] # NoSnapshot /\ FillPendingMarket(o, claim[w].qty, p)
    BY <1>8 DEF FillStop
  <2>2. o \in OrderIds /\ claim[w].qty \in Quantities
    BY <2>1, ClaimFacts DEF BracketInv
  <2>3. IsLive(o)
    BY <2>1 DEF FillPendingMarket, IsLive, Live
  <2>4. Ready(o)
    BY <2>1 DEF BracketInv, Released
  <2>5. FillMoves(o, TRUE)
    BY <2>1, <2>2, FillPendingMarketMoves DEF BracketInv
  <2> QED
    BY <2>2, <2>3, <2>4, <2>5, FillStep
<1>9. ASSUME NEW w \in Watchers, NEW s \in todo[w], TriggerStopLimit(w, s)
      PROVE  TableInv' /\ Kept
  BY <1>9, TriggerStep
<1>10. ASSUME NEW w \in Watchers, NEW s \in todo[w], NEW q \in Quantities,
              FillSlice(w, s, q)
       PROVE  TableInv' /\ Kept
  <2> DEFINE terminal == q = s.qty - s.filled
  <2>1. /\ IsLive(s.id) /\ q <= s.qty - s.filled
        /\ BookSlice(s.id, q, quote[w], s.filled + q, terminal)
    BY <1>10 DEF FillSlice, FillLimit
  <2>2. /\ s.id \in OrderIds /\ quote[w] \in Prices
        /\ s.filled + q \in Quantities
    BY <2>1, SnapshotFacts, DoneIsQuantity DEF BracketInv
  <2>3. Ready(s.id)
    BY DEF BracketInv, Released
  <2>4. FillMoves(s.id, terminal)
    BY <2>1, <2>2, BookSliceMoves DEF BracketInv
  <2> QED
    BY <2>1, <2>2, <2>3, <2>4, FillStep
<1>11. ASSUME NEW o \in OrderIds, FireAmo(o) \/ ClientGivesUp(o)
       PROVE  UNCHANGED table
  BY <1>11 DEF FireAmo, ClientGivesUp, table
<1>12. ASSUME NEW w \in Watchers, NEW p \in Prices,
              Pull(w, p) \/ StopNotFilled(w, p)
       PROVE  UNCHANGED table
  BY <1>12 DEF Pull, StopNotFilled, table
<1>13. ASSUME NEW w \in Watchers, NEW s \in todo[w],
              TriggerStopMarket(w, s) \/ SkipStop(w, s)
       PROVE  UNCHANGED table
  BY <1>13 DEF TriggerStopMarket, SkipStop, table
<1>14. ASSUME NEW w \in Watchers, NEW s \in todo[w], NEW q \in Quantities,
              SkipLimit(w, s, q)
       PROVE  UNCHANGED table
  BY <1>14 DEF SkipLimit, table
<1>15. ASSUME NEW w \in Watchers, Repull(w)
       PROVE  UNCHANGED table
  BY <1>15 DEF Repull, table
<1>16. CASE UNCHANGED vars
  BY <1>16, SameTableStep DEF vars, table
<1> QED
  BY <1>1, <1>2, <1>3, <1>4, <1>5, <1>6, <1>7, <1>8, <1>9, <1>10, <1>11,
     <1>12, <1>13, <1>14, <1>15, <1>16, SameTableStep
  DEF Next, ClientStep, WatcherStep

-----------------------------------------------------------------------------
(* What threads hold stays good *)

\* A row that may trade while live may trade later whenever it is still live.
LEMMA ReadyStays ==
  ASSUME BracketInv, Kept \/ Reset, NEW x \in OrderIds, Ready(x)
  PROVE  Ready(x)'
<1>1. CASE Kept
  <2> SUFFICES ASSUME orders'[x].status \in Live, orders'[x].parent # NoOrder
               PROVE  orders'[orders'[x].parent].status = "filled"
    BY <1>1 DEF Kept, Ready, Unused, IsLive, Gated
  <2> DEFINE e == orders[x].parent
  <2>1. IsLive(x) /\ orders'[x].parent = e /\ e # NoOrder
    BY <1>1 DEF Kept, Ready, IsLive
  <2>2. e \in OrderIds /\ orders[e].status = "filled"
    BY <2>1 DEF Ready, Gated, BracketInv, TypeInv, TypeOK, Row
  <2> QED
    BY <1>1, <2>1, <2>2 DEF Kept, Unused
<1>2. CASE Reset
  BY <1>2, ResetStep DEF Ready, Gone, IsLive, Live, Unused
<1> QED
  BY <1>1, <1>2

\* A watcher only selects rows that may trade.
LEMMA WorkIsReady ==
  ASSUME NEW p
  PROVE  \A s \in StopsAt(p) \cup LimitsAt(p) : s.id \in OrderIds /\ Ready(s.id)
<1>1. \A types : \A o \in Workable(types) : o \in OrderIds /\ Ready(o)
  BY DEF Workable, Ready, Unused, IsLive, Live
<1> QED
  BY <1>1 DEF StopsAt, LimitsAt, SnapshotOf

\* A watcher keeps, drops or reads work; it never makes it up.
OldWork(w) == /\ todo'[w] \subseteq todo[w]
              /\ claim'[w] = claim[w] \/ claim'[w] = NoSnapshot

\* What watchers hold stays released: the entry of a held exit is FILLED.
LEMMA ReleasedStep ==
  ASSUME BracketInv, [Next]_vars
  PROVE  Released'
<1>1. Kept \/ Reset
  BY TableInvStep
<1>2. \A x \in OrderIds : Ready(x) => Ready(x)'
  BY <1>1, ReadyStays
<1>3. /\ \A w \in Watchers : \A s \in todo[w] : s.id \in OrderIds
      /\ \A w \in Watchers : claim[w] # NoSnapshot => claim[w].id \in OrderIds
      /\ todo \in [Watchers -> SUBSET Snapshot]
      /\ claim \in [Watchers -> Snapshot \cup {NoSnapshot}]
  BY SnapshotFacts, ClaimFacts DEF BracketInv, TypeInv, TypeOK
<1>4. ASSUME \A w \in Watchers : OldWork(w)
      PROVE  Released'
  BY <1>2, <1>3, <1>4 DEF OldWork, Released, BracketInv
<1> USE DEF threads
<1>5. ASSUME NEW o \in OrderIds, NEW r \in Requests, NEW p \in Prices,
             ExecuteMarket(o, r, p)
      PROVE  Released'
  BY <1>4, <1>5 DEF ExecuteMarket, OldWork
<1>6. ASSUME NEW o \in OrderIds, NEW r \in Requests, Queue(o, r)
      PROVE  Released'
  BY <1>4, <1>6 DEF Queue, OldWork
<1>7. ASSUME NEW o \in OrderIds, NEW sl \in OrderIds, NEW tgt \in OrderIds,
             NEW r \in Requests, QueueBracket(o, sl, tgt, r)
      PROVE  Released'
  BY <1>4, <1>7 DEF QueueBracket, OldWork
<1>8. ASSUME NEW o \in OrderIds, FireAmo(o) \/ Cancel(o) \/ ClientGivesUp(o)
      PROVE  Released'
  BY <1>4, <1>8 DEF FireAmo, Cancel, ClientGivesUp, OldWork
<1>9. ASSUME NEW o \in OrderIds, NEW p \in Prices, ClientFires(o, p)
      PROVE  Released'
  BY <1>4, <1>9 DEF ClientFires, OldWork
<1>10. CASE ExpireDay \/ Reset
  BY <1>4, <1>10 DEF ExpireDay, Reset, OldWork
<1>11. ASSUME NEW w \in Watchers, NEW p \in Prices, Pull(w, p)
       PROVE  Released'
  <2>1. orders' = orders /\ claim' = claim
    BY <1>11 DEF Pull, table
  <2>2. \A s \in todo'[w] : s \in StopsAt(p) \cup LimitsAt(p)
    BY <1>3, <1>11 DEF Pull
  <2>3. \A v \in Watchers \ {w} : todo'[v] = todo[v]
    BY <1>3, <1>11 DEF Pull
  <2> QED
    BY <1>2, <1>3, <2>1, <2>2, <2>3, WorkIsReady DEF Released, BracketInv
<1>12. ASSUME NEW w \in Watchers, Repull(w)
       PROVE  Released'
  <2>1. orders' = orders /\ claim' = claim
    BY <1>12 DEF Repull, table
  <2>2. \A s \in todo'[w] : s \in StopsAt(quote[w]) \cup LimitsAt(quote[w])
    BY <1>3, <1>12 DEF Repull
  <2>3. \A v \in Watchers \ {w} : todo'[v] = todo[v]
    BY <1>3, <1>12 DEF Repull
  <2> QED
    BY <1>2, <1>3, <2>1, <2>2, <2>3, WorkIsReady DEF Released, BracketInv
<1>13. ASSUME NEW w \in Watchers, NEW p \in Prices,
              FillStop(w, p) \/ StopNotFilled(w, p)
       PROVE  Released'
  BY <1>3, <1>4, <1>13 DEF FillStop, StopNotFilled, OldWork
<1>14. ASSUME NEW w \in Watchers, NEW s \in todo[w], TriggerStopMarket(w, s)
       PROVE  Released'
  <2>1. \A v \in Watchers : todo'[v] \subseteq todo[v]
    BY <1>3, <1>14 DEF TriggerStopMarket
  <2>2. claim'[w].id = s.id /\ s.id \in OrderIds
    BY <1>3, <1>14 DEF TriggerStopMarket, SnapshotOf
  <2>3. \A v \in Watchers \ {w} : claim'[v] = claim[v]
    BY <1>3, <1>14 DEF TriggerStopMarket
  <2>4. Ready(s.id)'
    BY <1>2, <2>2 DEF Released, BracketInv
  <2> QED
    BY <1>2, <1>3, <2>1, <2>2, <2>3, <2>4 DEF Released, BracketInv
<1>15. ASSUME NEW w \in Watchers, NEW s \in todo[w],
              TriggerStopLimit(w, s) \/ SkipStop(w, s)
       PROVE  Released'
  BY <1>3, <1>4, <1>15 DEF TriggerStopLimit, SkipStop, OldWork
<1>16. ASSUME NEW w \in Watchers, NEW s \in todo[w], NEW q \in Quantities,
              FillSlice(w, s, q) \/ SkipLimit(w, s, q)
       PROVE  Released'
  BY <1>3, <1>4, <1>16 DEF FillSlice, SkipLimit, OldWork
<1>17. CASE UNCHANGED vars
  BY <1>4, <1>17 DEF vars, OldWork
<1> QED
  BY <1>5, <1>6, <1>7, <1>8, <1>9, <1>10, <1>11, <1>12, <1>13, <1>14,
     <1>15, <1>16, <1>17 DEF Next, ClientStep, WatcherStep

\* Threads that fire market orders only ever hold entries.
LEMMA EntriesFireStep ==
  ASSUME BracketInv, [Next]_vars
  PROVE  EntriesFire'
<1>1. Kept \/ Reset
  BY TableInvStep
<1>2. ASSUME NEW x \in firing
      PROVE  ~Unused(x)' /\ orders'[x].parent = NoOrder
  <2>1. x \in OrderIds /\ ~Unused(x) /\ orders[x].parent = NoOrder
    BY DEF BracketInv, EntriesFire, TypeInv, TypeOK
  <2>2. CASE Kept
    BY <2>1, <2>2 DEF Kept, Unused
  <2>3. CASE Reset
    BY <2>1, <2>3, ResetStep DEF Unused
  <2> QED
    BY <1>1, <2>2, <2>3
<1>3. ASSUME firing' \subseteq firing
      PROVE  EntriesFire'
  BY <1>2, <1>3 DEF EntriesFire
<1>4. ASSUME NEW o \in OrderIds, NEW r \in Requests, Queue(o, r)
      PROVE  EntriesFire'
  BY <1>3, <1>4 DEF Queue
<1>5. ASSUME NEW o \in OrderIds, NEW r \in Requests, NEW p \in Prices,
             ExecuteMarket(o, r, p)
      PROVE  EntriesFire'
  BY <1>3, <1>5 DEF ExecuteMarket
<1>6. ASSUME NEW o \in OrderIds, NEW sl \in OrderIds, NEW tgt \in OrderIds,
             NEW r \in Requests, QueueBracket(o, sl, tgt, r)
      PROVE  EntriesFire'
  <2>1. orders'[o].parent = NoOrder /\ orders'[o].status = "pending"
    BY <1>6 DEF QueueBracket, NewRow, BracketInv, TypeInv, TypeOK
  <2>2. firing' \subseteq firing \cup {o}
    BY <1>6 DEF QueueBracket
  <2> QED
    BY <1>2, <2>1, <2>2 DEF EntriesFire, Unused
<1>7. ASSUME NEW o \in OrderIds, FireAmo(o)
      PROVE  EntriesFire'
  <2>1. orders[o].parent = NoOrder /\ ~Unused(o)
    BY <1>7 DEF FireAmo, BracketInv, TableInv, Families, Unused
  <2>2. firing' = firing \cup {o} /\ orders' = orders
    BY <1>7 DEF FireAmo, table
  <2> QED
    BY <1>2, <2>1, <2>2 DEF EntriesFire, Unused
<1>8. ASSUME NEW o \in OrderIds, Cancel(o) \/ ClientGivesUp(o)
      PROVE  EntriesFire'
  BY <1>3, <1>8 DEF Cancel, ClientGivesUp
<1>14. ASSUME NEW o \in OrderIds, NEW p \in Prices, ClientFires(o, p)
      PROVE  EntriesFire'
  BY <1>3, <1>14 DEF ClientFires
<1>9. CASE ExpireDay \/ Reset
  BY <1>3, <1>9 DEF ExpireDay, Reset
<1>10. ASSUME NEW w \in Watchers, NEW p \in Prices,
              Pull(w, p) \/ FillStop(w, p) \/ StopNotFilled(w, p)
       PROVE  EntriesFire'
  BY <1>3, <1>10 DEF Pull, FillStop, StopNotFilled
<1>11. ASSUME NEW w \in Watchers, NEW s \in todo[w],
              TriggerStopMarket(w, s) \/ TriggerStopLimit(w, s) \/ SkipStop(w, s)
       PROVE  EntriesFire'
  BY <1>3, <1>11 DEF TriggerStopMarket, TriggerStopLimit, SkipStop
<1>12. ASSUME NEW w \in Watchers, NEW s \in todo[w], NEW q \in Quantities,
              FillSlice(w, s, q) \/ SkipLimit(w, s, q)
       PROVE  EntriesFire'
  BY <1>3, <1>12 DEF FillSlice, SkipLimit
<1>13. ASSUME NEW w \in Watchers, Repull(w)
       PROVE  EntriesFire'
  BY <1>3, <1>13 DEF Repull
<1>15. CASE UNCHANGED vars
  BY <1>3, <1>15 DEF vars
<1> QED
  BY <1>4, <1>5, <1>6, <1>7, <1>8, <1>9, <1>10, <1>11, <1>12, <1>13, <1>14,
     <1>15 DEF Next, ClientStep, WatcherStep

-----------------------------------------------------------------------------
\* The bracket invariant holds of a new account.
LEMMA BracketInvInit == Init => BracketInv
<1> SUFFICES ASSUME Init PROVE BracketInv
  OBVIOUS
<1>1. TypeInv
  BY TypeInvInit
<1>2. Blank("unused").parent = NoOrder /\ Blank("unused").status = "unused"
  BY DEF Blank
<1>3. \A o \in OrderIds : /\ orders[o].parent = NoOrder
                          /\ orders[o].status = "unused" /\ traded[o] = 0
  BY <1>2 DEF Init
<1>4. TableInv
  BY <1>3 DEF TableInv, Families, ChildrenWait, UnusedUntraded, NoOrphans,
     OneExit, Siblings
<1>5. Released /\ EntriesFire
  BY DEF Init, Released, EntriesFire
<1> QED
  BY <1>1, <1>4, <1>5 DEF BracketInv

\* The bracket invariant is inductive.
LEMMA BracketInvStep == BracketInv /\ [Next]_vars => BracketInv'
<1> SUFFICES ASSUME BracketInv, [Next]_vars PROVE BracketInv'
  OBVIOUS
<1>1. TypeInv'
  BY TypeInvStep DEF BracketInv
<1> QED
  BY <1>1, TableInvStep, ReleasedStep, EntriesFireStep DEF BracketInv

\* The inductive invariant of brackets holds in every reachable state of the
\* order lifecycle (bracket.py, state.cancel, limit.fill, tick).
THEOREM BracketsInv == Spec => []BracketInv
  BY BracketInvInit, BracketInvStep, PTL DEF Spec

\* An entry that is cancelled or expires takes its live exits with it, with
\* any number of watchers holding snapshots of them.
THEOREM BracketsNoOrphans == Spec => []NoOrphans
<1>1. BracketInv => NoOrphans
  BY DEF BracketInv, TableInv
<1> QED
  BY <1>1, BracketsInv, PTL

\* One-Cancels-Other: two exits of a bracket are never both filled, and a
\* filled one leaves no live sibling, however many watchers race.
THEOREM BracketsOneExit == Spec => []OneExit
<1>1. BracketInv => OneExit
  BY DEF BracketInv, TableInv
<1> QED
  BY <1>1, BracketsInv, PTL

\* Nothing is traded for an exit before its entry is FILLED.
THEOREM BracketsExitsWait == Spec => []ExitsWait
<1>1. BracketInv => ExitsWait
  BY DEF BracketInv, TableInv, ChildrenWait, ExitsWait
<1> QED
  BY <1>1, BracketsInv, PTL

-----------------------------------------------------------------------------
(****************************************************************************)
(* With one watcher, every order row agrees with its trades, for any number *)
(* of orders and clients.  With two it does not: limit.fill writes the      *)
(* filled_qty of its snapshot, and the claim does not compare it with the   *)
(* row.  The proof shows what that leaves to the deployment: a snapshot     *)
(* stays current (Current) because nobody but its own watcher fills part of *)
(* the order meanwhile.                                                     *)
(****************************************************************************)

\* A row that was not filled yet says so.
Unfilled ==
  \A o \in OrderIds :
    orders[o].status \in {"pending", "unused"} => orders[o].filled = 0

\* The limits a watcher still has to fill are as it read them.
Current ==
  \A w \in Watchers :
    /\ \A s, t \in todo[w] : s.id = t.id => s = t
    /\ stage[w] = "limits" =>
         \A s \in todo[w] : IsLive(s.id) => s.filled = orders[s.id].filled

FillInv == BracketInv /\ FillsMatchTrades /\ Unfilled /\ Current

-----------------------------------------------------------------------------
(* The columns filled_qty and SUM(trades.qty) *)

\* Which updates of a row change its filled_qty.
LEMMA FilledColumn ==
  ASSUME NEW r \in Row
  PROVE  /\ \A v : [r EXCEPT !.status = v].filled = r.filled
         /\ \A v : [r EXCEPT !.qty = v].filled = r.filled
         /\ \A v, f : [r EXCEPT !.status = v, !.filled = f].filled = f
  BY DEF Row

\* Rebalancing a sibling leaves its filled_qty alone.
LEMMA ShrinkFilled ==
  ASSUME NEW rows \in [OrderIds -> Row], NEW o, NEW done, NEW x \in OrderIds
  PROVE  ShrinkSibling(rows, o, done)[x].filled = rows[x].filled
  BY FilledColumn DEF ShrinkSibling

\* Cancelling siblings leaves their filled_qty alone.
LEMMA CancelFilled ==
  ASSUME NEW rows \in [OrderIds -> Row], NEW o, NEW x \in OrderIds
  PROVE  CancelSiblings(rows, o)[x].filled = rows[x].filled
  BY FilledColumn DEF CancelSiblings

\* The claim writes the filled_qty of its own row only.
LEMMA ClaimedFilled ==
  ASSUME TypeInv, NEW o \in OrderIds, NEW v, NEW f, NEW x \in OrderIds
  PROVE  Claimed(o, v, f)[x].filled = IF x = o THEN f ELSE orders[x].filled
<1>1. orders[x] \in Row /\ orders \in [OrderIds -> Row]
  BY DEF TypeInv, TypeOK
<1> QED
  BY <1>1, FilledColumn DEF Claimed

\* A fill of o: filled_qty becomes done, q is traded, other rows keep both.
FilledMoves(o, q, done) ==
  \A x \in OrderIds :
    /\ orders'[x].filled = IF x = o THEN done ELSE orders[x].filled
    /\ traded'[x] = IF x = o THEN traded[x] + q ELSE traded[x]

\* limit.fill writes filled_qty and trades of one row: done and one slice.
LEMMA BookSliceFilled ==
  ASSUME TypeInv, NEW o \in OrderIds, NEW q \in Quantities, NEW p \in Prices,
         NEW done \in Quantities, NEW terminal \in BOOLEAN,
         BookSlice(o, q, p, done, terminal)
  PROVE  FilledMoves(o, q, done)
<1> DEFINE status == IF terminal THEN "filled" ELSE "partially_filled"
           rows == Claimed(o, status, done)
           shrunk == ShrinkSibling(rows, o, done)
           final == CancelSiblings(shrunk, o)
<1>1. rows \in [OrderIds -> Row] /\ rows[o].parent = orders[o].parent
  BY ClaimedTyped, PlainStatuses DEF TypeInv
<1>2. shrunk \in [OrderIds -> Row]
  BY <1>1, QuantityFacts, ShrinkSiblingTyped DEF TypeInv
<1>3. orders' = IF terminal THEN final ELSE shrunk
  BY DEF BookSlice
<1>4. traded' = [traded EXCEPT ![o] = @ + q] /\ traded \in [OrderIds -> Nat]
  BY DEF BookSlice, TypeInv, TypeOK
<1>5. \A x \in OrderIds :
        /\ rows[x].filled = IF x = o THEN done ELSE orders[x].filled
        /\ shrunk[x].filled = rows[x].filled
        /\ final[x].filled = shrunk[x].filled
  BY <1>1, <1>2, ClaimedFilled, ShrinkFilled, CancelFilled
<1> HIDE DEF rows, shrunk, final
<1> QED
  BY <1>3, <1>4, <1>5 DEF FilledMoves

\* fill_pending_market writes filled_qty and trades of one row: all of it.
LEMMA FillPendingMarketFilled ==
  ASSUME TypeInv, NEW o \in OrderIds, NEW q \in Quantities, NEW p \in Prices,
         FillPendingMarket(o, q, p)
  PROVE  FilledMoves(o, q, q)
<1> DEFINE rows == Claimed(o, "filled", q)
           final == CancelSiblings(rows, o)
<1>1. rows \in [OrderIds -> Row]
  BY ClaimedTyped, PlainStatuses DEF TypeInv
<1>2. orders' = final
  BY DEF FillPendingMarket
<1>3. traded' = [traded EXCEPT ![o] = @ + q] /\ traded \in [OrderIds -> Nat]
  BY DEF FillPendingMarket, TypeInv, TypeOK
<1>4. \A x \in OrderIds :
        /\ rows[x].filled = IF x = o THEN q ELSE orders[x].filled
        /\ final[x].filled = rows[x].filled
  BY <1>1, ClaimedFilled, CancelFilled
<1> HIDE DEF rows, final
<1> QED
  BY <1>2, <1>3, <1>4 DEF FilledMoves

-----------------------------------------------------------------------------
(* One step *)

\* Rows in S that are live after the step were live before it and have
\* gained nothing.
Steady(S) ==
  \A x \in S : ~Unused(x) /\ orders'[x].status \in Live =>
    IsLive(x) /\ orders'[x].filled = orders[x].filled

RowsAgree == FillsMatchTrades /\ Unfilled

\* Cancelling, expiring and triggering leave both columns alone.
LEMMA QuietFilled ==
  ASSUME FillInv, Kept, traded' = traded,
         \A x \in OrderIds : /\ orders'[x].filled = orders[x].filled
                             /\ orders'[x].status \in {"pending", "unused"}
                                  => orders'[x].status = orders[x].status
  PROVE  RowsAgree' /\ Steady(OrderIds)
<1>1. RowsAgree'
  BY DEF RowsAgree, FillInv, FillsMatchTrades, Unfilled
<1>2. Steady(OrderIds)
  BY DEF Steady, Kept, IsLive
<1> QED
  BY <1>1, <1>2

\* A fill that adds q to an order whose row said filled before.
LEMMA MovesAgree ==
  ASSUME FillInv, NEW o \in OrderIds, NEW q \in Quantities, NEW done,
         NEW terminal \in BOOLEAN, FilledMoves(o, q, done),
         FillMoves(o, terminal), done = orders[o].filled + q
  PROVE  RowsAgree' /\ Steady(OrderIds \ {o})
<1>1. \A x \in OrderIds : orders'[x].status \in {"pending", "unused"} =>
        x # o /\ orders'[x].status = orders[x].status
  BY DEF FillMoves
<1>2. \A x \in OrderIds \ {o} : orders'[x].status \in Live => IsLive(x)
  BY DEF FillMoves, IsLive, Live
<1>3. RowsAgree'
  BY <1>1 DEF RowsAgree, FilledMoves, FillInv, FillsMatchTrades, Unfilled
<1> QED
  BY <1>2, <1>3 DEF Steady, FilledMoves

\* Births.
LEMMA NewRowsAgree ==
  ASSUME FillInv, NEW S \in SUBSET OrderIds, \A x \in S : Unused(x),
         \A x \in OrderIds \ S : orders'[x] = orders[x] /\ traded'[x] = traded[x],
         \A x \in S : /\ orders'[x].filled = traded'[x]
                      /\ orders'[x].status \in {"pending", "unused"}
                           => orders'[x].filled = 0
  PROVE  RowsAgree' /\ Steady(OrderIds)
<1>1. RowsAgree'
  BY DEF RowsAgree, FillInv, FillsMatchTrades, Unfilled
<1>2. Steady(OrderIds)
  BY DEF Steady, IsLive
<1> QED
  BY <1>1, <1>2

\* Whatever the step, the rows agree with their trades afterwards, and no
\* row gained anything except one that a watcher fills from its snapshot.
LEMMA RowsAgreeStep ==
  ASSUME FillInv, [Next]_vars
  PROVE  /\ RowsAgree'
         /\ \/ Steady(OrderIds)
            \/ \E w \in Watchers : \E s \in todo[w] :
                 /\ todo' = [todo EXCEPT ![w] = @ \ {s}] /\ stage' = stage
                 /\ Steady(OrderIds \ {s.id})
<1> DEFINE Goal == RowsAgree' /\ Steady(OrderIds)
<1> USE DEF table
<1>1. ASSUME NEW o \in OrderIds, NEW r \in Requests, Queue(o, r)
      PROVE  Goal
  <2>1. /\ Unused(o) /\ traded' = traded
        /\ orders' = [orders EXCEPT ![o] = NewRow(r, r.kind)]
    BY <1>1 DEF Queue
  <2>2. orders'[o].filled = 0
    BY <2>1 DEF NewRow, FillInv, BracketInv, TypeInv, TypeOK
  <2>3. traded'[o] = 0
    BY <2>1 DEF FillInv, BracketInv, TableInv, UnusedUntraded
  <2>4. \A x \in OrderIds \ {o} : orders'[x] = orders[x] /\ traded'[x] = traded[x]
    BY <2>1 DEF FillInv, BracketInv, TypeInv, TypeOK
  <2> DEFINE S == {o}
  <2>5. /\ S \in SUBSET OrderIds
        /\ \A x \in S : /\ Unused(x) /\ orders'[x].filled = traded'[x]
                        /\ orders'[x].filled = 0
    BY <2>1, <2>2, <2>3
  <2>6. \A x \in OrderIds \ S : orders'[x] = orders[x] /\ traded'[x] = traded[x]
    BY <2>4
  <2> HIDE DEF S
  <2> QED
    BY <2>5, <2>6, NewRowsAgree
<1>2. ASSUME NEW o \in OrderIds, NEW r \in Requests, NEW p \in Prices,
             ExecuteMarket(o, r, p)
      PROVE  Goal
  <2>1. /\ Unused(o) /\ traded' = [traded EXCEPT ![o] = r.qty]
        /\ orders' = [orders EXCEPT ![o] = [NewRow(r, "market") EXCEPT
                                             !.status = "filled",
                                             !.filled = r.qty]]
    BY <1>2 DEF ExecuteMarket
  <2>2. orders'[o].filled = r.qty /\ orders'[o].status = "filled"
    BY <2>1 DEF NewRow, FillInv, BracketInv, TypeInv, TypeOK
  <2>3. traded'[o] = r.qty
    BY <2>1 DEF FillInv, BracketInv, TypeInv, TypeOK
  <2>4. \A x \in OrderIds \ {o} : orders'[x] = orders[x] /\ traded'[x] = traded[x]
    BY <2>1 DEF FillInv, BracketInv, TypeInv, TypeOK
  <2> DEFINE S == {o}
  <2>5. /\ S \in SUBSET OrderIds
        /\ \A x \in S : /\ Unused(x) /\ orders'[x].filled = traded'[x]
                        /\ orders'[x].status \notin {"pending", "unused"}
    BY <2>1, <2>2, <2>3
  <2>6. \A x \in OrderIds \ S : orders'[x] = orders[x] /\ traded'[x] = traded[x]
    BY <2>4
  <2> HIDE DEF S
  <2> QED
    BY <2>5, <2>6, NewRowsAgree
<1>3. ASSUME NEW o \in OrderIds, NEW sl \in OrderIds, NEW tgt \in OrderIds,
             NEW r \in Requests, QueueBracket(o, sl, tgt, r)
      PROVE  Goal
  <2> DEFINE S == {o, sl, tgt}
  <2>1. /\ o # sl /\ o # tgt /\ sl # tgt /\ traded' = traded
        /\ \A x \in S : Unused(x)
    BY <1>3 DEF QueueBracket
  <2>2. orders'[o].filled = 0 /\ orders'[sl].filled = 0 /\ orders'[tgt].filled = 0
    BY <1>3, <2>1 DEF QueueBracket, NewRow, FillInv, BracketInv, TypeInv, TypeOK
  <2>3. \A x \in S : traded'[x] = 0
    BY <2>1 DEF FillInv, BracketInv, TableInv, UnusedUntraded
  <2>4. \A x \in OrderIds \ S : orders'[x] = orders[x] /\ traded'[x] = traded[x]
    BY <1>3 DEF QueueBracket, FillInv, BracketInv, TypeInv, TypeOK
  <2>5. S \in SUBSET OrderIds
    OBVIOUS
  <2> QED
    BY <2>1, <2>2, <2>3, <2>4, <2>5, NewRowsAgree
<1>4. ASSUME NEW o \in OrderIds, Cancel(o)
      PROVE  Goal
  <2>1. Kept
    BY <1>4, CancelStep DEF FillInv
  <2>2. ASSUME NEW x \in OrderIds
        PROVE  /\ orders'[x].filled = orders[x].filled
               /\ orders'[x].status = "cancelled" \/ orders'[x] = orders[x]
    BY <1>4, FilledColumn, RowColumns
    DEF Cancel, FillInv, BracketInv, TypeInv, TypeOK
  <2> QED
    BY <1>4, <2>1, <2>2, QuietFilled DEF Cancel
<1>5. ASSUME NEW o \in OrderIds, NEW p \in Prices, ClientFires(o, p)
      PROVE  Goal
  <2>1. FillPendingMarket(o, orders[o].qty, p) /\ orders[o].status = "pending"
    BY <1>5 DEF ClientFires, FillPendingMarket
  <2>2. orders[o].qty \in Quantities
    BY DEF FillInv, BracketInv, TypeInv, TypeOK, Row
  <2>3. orders[o].qty = orders[o].filled + orders[o].qty
    BY <2>1, <2>2, QuantityFacts DEF FillInv, Unfilled
  <2>4. /\ FilledMoves(o, orders[o].qty, orders[o].qty)
        /\ FillMoves(o, TRUE)
    BY <2>1, <2>2, FillPendingMarketFilled, FillPendingMarketMoves
    DEF FillInv, BracketInv
  <2>5. RowsAgree' /\ Steady(OrderIds \ {o})
    BY <2>2, <2>3, <2>4, MovesAgree
  <2>6. orders'[o].status \notin Live
    BY <2>4 DEF FillMoves, Live
  <2> QED
    BY <2>5, <2>6 DEF Steady
<1>6. CASE ExpireDay
  <2>1. Kept
    BY <1>6, ExpireStep DEF FillInv
  <2>2. ASSUME NEW x \in OrderIds
        PROVE  /\ orders'[x].filled = orders[x].filled
               /\ orders'[x].status = "expired" \/ orders'[x] = orders[x]
    BY <1>6, FilledColumn, RowColumns
    DEF ExpireDay, FillInv, BracketInv, TypeInv, TypeOK
  <2> QED
    BY <1>6, <2>1, <2>2, QuietFilled DEF ExpireDay
<1>7. CASE Reset
  <2>1. Blank("deleted").filled = 0
    BY DEF Blank
  <2>2. ASSUME NEW x \in OrderIds
        PROVE  orders'[x].filled = 0 /\ traded'[x] = 0
    BY <1>7, <2>1 DEF Reset, FillInv, Unfilled, Unused
  <2>3. \A x \in OrderIds : orders'[x].status \notin Live
    BY <1>7, ResetStep DEF FillInv, Gone, Live
  <2> QED
    BY <2>2, <2>3 DEF RowsAgree, FillsMatchTrades, Unfilled, Steady
<1>8. ASSUME NEW w \in Watchers, NEW p \in Prices, FillStop(w, p)
      PROVE  Goal
  <2> DEFINE o == claim[w].id
             q == claim[w].qty
  <2>1. claim[w] # NoSnapshot /\ FillPendingMarket(o, q, p)
        /\ orders[o].status = "pending"
    BY <1>8 DEF FillStop, FillPendingMarket
  <2>2. o \in OrderIds /\ q \in Quantities
    BY <2>1, ClaimFacts DEF FillInv, BracketInv
  <2>3. q = orders[o].filled + q
    BY <2>1, <2>2, QuantityFacts DEF FillInv, Unfilled
  <2>4. FilledMoves(o, q, q) /\ FillMoves(o, TRUE)
    BY <2>1, <2>2, FillPendingMarketFilled, FillPendingMarketMoves
    DEF FillInv, BracketInv
  <2>5. RowsAgree' /\ Steady(OrderIds \ {o})
    BY <2>2, <2>3, <2>4, MovesAgree
  <2>6. orders'[o].status \notin Live
    BY <2>2, <2>4 DEF FillMoves, Live
  <2> QED
    BY <2>5, <2>6 DEF Steady
<1>9. ASSUME NEW w \in Watchers, NEW s \in todo[w], TriggerStopLimit(w, s)
      PROVE  Goal
  <2>1. Kept
    BY <1>9, TriggerStep DEF FillInv
  <2>2. ASSUME NEW x \in OrderIds
        PROVE  /\ orders'[x].filled = orders[x].filled
               /\ orders'[x].status = orders[x].status
    BY <1>9, SnapshotFacts
    DEF TriggerStopLimit, FillInv, BracketInv, TypeInv, TypeOK, Row
  <2> QED
    BY <1>9, <2>1, <2>2, QuietFilled DEF TriggerStopLimit
<1>10. ASSUME NEW w \in Watchers, NEW s \in todo[w], NEW q \in Quantities,
              FillSlice(w, s, q)
       PROVE  /\ RowsAgree' /\ Steady(OrderIds \ {s.id})
              /\ todo' = [todo EXCEPT ![w] = @ \ {s}] /\ stage' = stage
  <2> DEFINE terminal == q = s.qty - s.filled
  <2>1. /\ IsLive(s.id) /\ stage[w] = "limits" /\ q <= s.qty - s.filled
        /\ BookSlice(s.id, q, quote[w], s.filled + q, terminal)
        /\ todo' = [todo EXCEPT ![w] = @ \ {s}] /\ stage' = stage
    BY <1>10 DEF FillSlice, FillLimit
  <2>2. /\ s.id \in OrderIds /\ quote[w] \in Prices
        /\ s.filled + q \in Quantities
    BY <2>1, SnapshotFacts, DoneIsQuantity DEF FillInv, BracketInv
  <2>3. s.filled + q = orders[s.id].filled + q
    BY <2>1 DEF FillInv, Current
  <2>4. FilledMoves(s.id, q, s.filled + q) /\ FillMoves(s.id, terminal)
    BY <2>1, <2>2, BookSliceFilled, BookSliceMoves DEF FillInv, BracketInv
  <2> QED
    BY <2>1, <2>2, <2>3, <2>4, MovesAgree
<1>11. ASSUME UNCHANGED table
       PROVE  Goal
  BY <1>11, SameTableStep, QuietFilled DEF FillInv
<1>12. ASSUME NEW o \in OrderIds, FireAmo(o) \/ ClientGivesUp(o)
       PROVE  UNCHANGED table
  BY <1>12 DEF FireAmo, ClientGivesUp
<1>13. ASSUME NEW w \in Watchers, NEW p \in Prices,
              Pull(w, p) \/ StopNotFilled(w, p)
       PROVE  UNCHANGED table
  BY <1>13 DEF Pull, StopNotFilled
<1>14. ASSUME NEW w \in Watchers, NEW s \in todo[w],
              TriggerStopMarket(w, s) \/ SkipStop(w, s)
       PROVE  UNCHANGED table
  BY <1>14 DEF TriggerStopMarket, SkipStop
<1>15. ASSUME NEW w \in Watchers, NEW s \in todo[w], NEW q \in Quantities,
              SkipLimit(w, s, q)
       PROVE  UNCHANGED table
  BY <1>15 DEF SkipLimit
<1>16. ASSUME NEW w \in Watchers, Repull(w)
       PROVE  UNCHANGED table
  BY <1>16 DEF Repull
<1>17. CASE UNCHANGED vars
  BY <1>11, <1>17 DEF vars
<1> QED
  BY <1>1, <1>2, <1>3, <1>4, <1>5, <1>6, <1>7, <1>8, <1>9, <1>10, <1>11,
     <1>12, <1>13, <1>14, <1>15, <1>16, <1>17 DEF Next, ClientStep, WatcherStep

-----------------------------------------------------------------------------
(* The snapshots *)

\* A step leaves what a watcher has still to do, or reads all of it afresh.
OldTodo(w) == /\ todo'[w] \subseteq todo[w]
              /\ stage'[w] = stage[w] /\ quote'[w] = quote[w]
FreshTodo(w) ==
  /\ UNCHANGED orders /\ claim'[w] = NoSnapshot
  /\ \A s \in todo'[w] :
       /\ s.id \in OrderIds /\ s = SnapshotOf(s.id)
       /\ stage'[w] = "limits" =>
            orders[s.id].otype = "limit" /\ LimitCrossed(s.id, quote'[w])

\* Snapshots carry the id of the row that they were taken of.
LEMMA FreshWork ==
  ASSUME NEW p
  PROVE  \A s \in StopsAt(p) \cup LimitsAt(p) :
           /\ s.id \in OrderIds /\ s = SnapshotOf(s.id)
           /\ s \in LimitsAt(p) =>
                orders[s.id].otype = "limit" /\ LimitCrossed(s.id, p)
  BY DEF StopsAt, LimitsAt, Workable, SnapshotOf

\* Only the two reads of a tick put anything on a watcher's list.
LEMMA TodoStep ==
  ASSUME TypeInv, [Next]_vars, NEW w \in Watchers
  PROVE  OldTodo(w) \/ FreshTodo(w)
<1> USE DEF threads, OldTodo, TypeInv, TypeOK
<1>1. ASSUME NEW o \in OrderIds, NEW r \in Requests,
             Queue(o, r) \/ (\E p \in Prices : ExecuteMarket(o, r, p))
      PROVE  OldTodo(w)
  BY <1>1 DEF Queue, ExecuteMarket
<1>2. ASSUME NEW o \in OrderIds, NEW sl \in OrderIds, NEW tgt \in OrderIds,
             NEW r \in Requests, QueueBracket(o, sl, tgt, r)
      PROVE  OldTodo(w)
  BY <1>2 DEF QueueBracket
<1>3. ASSUME NEW o \in OrderIds,
             \/ FireAmo(o) \/ Cancel(o) \/ ClientGivesUp(o)
             \/ \E p \in Prices : ClientFires(o, p)
      PROVE  OldTodo(w)
  BY <1>3 DEF FireAmo, Cancel, ClientGivesUp, ClientFires
<1>4. CASE ExpireDay \/ Reset
  BY <1>4 DEF ExpireDay, Reset
<1>5. ASSUME NEW v \in Watchers, NEW p \in Prices, Pull(v, p)
      PROVE  OldTodo(w) \/ FreshTodo(w)
  <2>1. CASE v = w
    <3>1. /\ todo'[w] \subseteq StopsAt(p) \cup LimitsAt(p) /\ UNCHANGED orders
          /\ stage'[w] = "limits" => todo'[w] = LimitsAt(p)
          /\ quote'[w] = p /\ claim'[w] = NoSnapshot
      BY <1>5, <2>1 DEF Pull, table, Idle
    <3> QED
      BY <3>1, FreshWork DEF FreshTodo
  <2>2. CASE v # w
    BY <1>5, <2>2 DEF Pull
  <2> QED
    BY <2>1, <2>2
<1>6. ASSUME NEW v \in Watchers, Repull(v)
      PROVE  OldTodo(w) \/ FreshTodo(w)
  <2>1. CASE v = w
    <3>1. /\ todo'[w] \subseteq LimitsAt(quote[w]) /\ UNCHANGED orders
          /\ quote'[w] = quote[w] /\ claim'[w] = NoSnapshot
      BY <1>6, <2>1 DEF Repull, table, Idle
    <3> QED
      BY <3>1, FreshWork DEF FreshTodo
  <2>2. CASE v # w
    BY <1>6, <2>2 DEF Repull
  <2> QED
    BY <2>1, <2>2
<1>7. ASSUME NEW v \in Watchers, NEW p \in Prices,
             FillStop(v, p) \/ StopNotFilled(v, p)
      PROVE  OldTodo(w)
  BY <1>7 DEF FillStop, StopNotFilled
<1>8. ASSUME NEW v \in Watchers, NEW s \in todo[v],
             TriggerStopMarket(v, s) \/ TriggerStopLimit(v, s) \/ SkipStop(v, s)
      PROVE  OldTodo(w)
  BY <1>8 DEF TriggerStopMarket, TriggerStopLimit, SkipStop
<1>9. ASSUME NEW v \in Watchers, NEW s \in todo[v], NEW q \in Quantities,
             FillSlice(v, s, q) \/ SkipLimit(v, s, q)
      PROVE  OldTodo(w)
  BY <1>9 DEF FillSlice, SkipLimit
<1>10. CASE UNCHANGED vars
  BY <1>10 DEF vars
<1> QED
  BY <1>1, <1>2, <1>3, <1>4, <1>5, <1>6, <1>7, <1>8, <1>9, <1>10
  DEF Next, ClientStep, WatcherStep

\* A snapshot stays current when its watcher is the only one.
LEMMA CurrentStep ==
  ASSUME FillInv, [Next]_vars, \A v, w \in Watchers : v = w
  PROVE  Current'
<1> SUFFICES ASSUME NEW w \in Watchers
             PROVE  /\ \A s, t \in todo'[w] : s.id = t.id => s = t
                    /\ stage'[w] = "limits" =>
                         \A s \in todo'[w] :
                           orders'[s.id].status \in Live =>
                             s.filled = orders'[s.id].filled
  BY DEF Current, IsLive
<1>1. CASE FreshTodo(w)
  <2>1. \A s \in todo'[w] : s.filled = orders[s.id].filled
    BY <1>1 DEF FreshTodo, SnapshotOf
  <2> QED
    BY <1>1, <2>1 DEF FreshTodo
<1>2. CASE OldTodo(w)
  <2>1. /\ \A s \in todo[w] : s.id \in OrderIds /\ ~Unused(s.id)
        /\ todo \in [Watchers -> SUBSET Snapshot]
    BY SnapshotFacts
    DEF FillInv, BracketInv, TypeInv, TypeOK, Released, Ready
  <2>2. \A s, t \in todo[w] : s.id = t.id => s = t
    BY DEF FillInv, Current
  <2>3. ASSUME NEW s \in todo'[w], stage'[w] = "limits",
               orders'[s.id].status \in Live
        PROVE  s.filled = orders'[s.id].filled
    <3>1. s \in todo[w] /\ stage[w] = "limits" /\ s.id \in OrderIds
          /\ ~Unused(s.id)
      BY <1>2, <2>1, <2>3 DEF OldTodo
    <3>2. CASE Steady(OrderIds)
      BY <2>3, <3>1, <3>2 DEF Steady, FillInv, Current
    <3>3. ASSUME NEW v \in Watchers, NEW t \in todo[v],
                 todo' = [todo EXCEPT ![v] = @ \ {t}],
                 Steady(OrderIds \ {t.id})
          PROVE  s.filled = orders'[s.id].filled
      <4>1. v = w
        OBVIOUS
      <4>2. s # t
        BY <2>1, <3>3, <4>1
      <4>3. s.id # t.id
        BY <2>2, <3>1, <4>1, <4>2
      <4> QED
        BY <2>3, <3>1, <3>3, <4>3 DEF Steady, FillInv, Current
    <3> QED
      BY <3>2, <3>3, RowsAgreeStep
  <2> QED
    BY <1>2, <2>2, <2>3 DEF OldTodo
<1> QED
  BY <1>1, <1>2, TodoStep DEF FillInv, BracketInv

\* The invariant of fills holds of a new account.
LEMMA FillInvInit == Init => FillInv
<1> SUFFICES ASSUME Init PROVE FillInv
  OBVIOUS
<1>1. Blank("unused").filled = 0
  BY DEF Blank
<1>2. FillsMatchTrades /\ Unfilled /\ Current
  BY <1>1 DEF Init, FillsMatchTrades, Unfilled, Current
<1> QED
  BY <1>2, BracketInvInit DEF FillInv

\* With at most one watcher, what an order row says was filled is what was
\* traded for it, in every reachable state of any number of orders and client
\* threads that cancel, expire, reset and fire in between.
THEOREM OneWatcherFillsMatchTrades ==
  ASSUME \A v, w \in Watchers : v = w
  PROVE  Spec => []FillsMatchTrades
<1>1. FillInv /\ [Next]_vars => FillInv'
  BY BracketInvStep, RowsAgreeStep, CurrentStep DEF FillInv, RowsAgree
<1>2. FillInv => FillsMatchTrades
  BY DEF FillInv
<1> QED
  BY <1>1, <1>2, FillInvInit, PTL DEF Spec

-----------------------------------------------------------------------------
(****************************************************************************)
(* The position is the net of all trades, for any number of orders, clients *)
(* and watchers.  A stale snapshot may make a row disagree with its trades, *)
(* but no fill writes a trade without moving the position by it.            *)
(****************************************************************************)

\* A drawn row keeps the side and the limit that it was born with.
Lasting ==
  \A x \in OrderIds : ~Unused(x) =>
    orders'[x].side = orders[x].side /\ orders'[x].limit = orders[x].limit

\* The three ways a step may move the position and the trades.
Still == UNCHANGED account /\ traded' = traded /\ Lasting

Trade(o, q, p) ==
  /\ Apply(orders'[o].side, q, p)
  /\ traded' = [traded EXCEPT ![o] = @ + q]
  /\ Lasting

\* Which updates of a row leave the columns of Lasting alone.
LEMMA LastingColumns ==
  ASSUME NEW r \in Row
  PROVE  /\ \A v : LET n == [r EXCEPT !.status = v] IN
              n.side = r.side /\ n.limit = r.limit
         /\ \A v : LET n == [r EXCEPT !.qty = v] IN
              n.side = r.side /\ n.limit = r.limit
         /\ \A v, f : LET n == [r EXCEPT !.status = v, !.filled = f] IN
              n.side = r.side /\ n.limit = r.limit
  BY DEF Row

\* A fill leaves side and limit of every row alone.
LEMMA ClaimedLasting ==
  ASSUME TypeInv, NEW o \in OrderIds, NEW v, NEW f, NEW x \in OrderIds
  PROVE  LET r == Claimed(o, v, f)[x] IN
         /\ r.side = orders[x].side /\ r.limit = orders[x].limit
<1>1. orders[x] \in Row /\ orders \in [OrderIds -> Row]
  BY DEF TypeInv, TypeOK
<1> QED
  BY <1>1, LastingColumns DEF Claimed

\* Shrinking the sibling leaves side and limit of every row alone.
LEMMA ShrinkLasting ==
  ASSUME NEW rows \in [OrderIds -> Row], NEW o, NEW done, NEW x \in OrderIds
  PROVE  LET r == ShrinkSibling(rows, o, done)[x] IN
         /\ r.side = rows[x].side /\ r.limit = rows[x].limit
  BY LastingColumns DEF ShrinkSibling

\* So does the cancellation of the siblings.
LEMMA CancelLasting ==
  ASSUME NEW rows \in [OrderIds -> Row], NEW o, NEW x \in OrderIds
  PROVE  LET r == CancelSiblings(rows, o)[x] IN
         /\ r.side = rows[x].side /\ r.limit = rows[x].limit
  BY LastingColumns DEF CancelSiblings

\* The transaction of limit.fill is one trade.
LEMMA BookSliceTrades ==
  ASSUME TypeInv, NEW o \in OrderIds, NEW q \in Quantities, NEW p \in Prices,
         NEW done \in Quantities, NEW terminal \in BOOLEAN,
         BookSlice(o, q, p, done, terminal)
  PROVE  Trade(o, q, p)
<1> DEFINE status == IF terminal THEN "filled" ELSE "partially_filled"
           rows == Claimed(o, status, done)
           shrunk == ShrinkSibling(rows, o, done)
           final == CancelSiblings(shrunk, o)
<1>1. rows \in [OrderIds -> Row] /\ rows[o].parent = orders[o].parent
  BY ClaimedTyped, PlainStatuses DEF TypeInv
<1>2. shrunk \in [OrderIds -> Row]
  BY <1>1, QuantityFacts, ShrinkSiblingTyped DEF TypeInv
<1>3. orders' = IF terminal THEN final ELSE shrunk
  BY DEF BookSlice
<1>4. \A x \in OrderIds :
        /\ rows[x].side = orders[x].side /\ rows[x].limit = orders[x].limit
  BY ClaimedLasting
<1>5. \A x \in OrderIds :
        /\ shrunk[x].side = rows[x].side /\ shrunk[x].limit = rows[x].limit
  BY <1>1, ShrinkLasting
<1>6. \A x \in OrderIds :
        /\ final[x].side = shrunk[x].side /\ final[x].limit = shrunk[x].limit
  BY <1>2, CancelLasting
<1>7. Apply(orders[o].side, q, p) /\ traded' = [traded EXCEPT ![o] = @ + q]
  BY DEF BookSlice
<1> HIDE DEF rows, shrunk, final
<1>8. \A x \in OrderIds :
        /\ orders'[x].side = orders[x].side /\ orders'[x].limit = orders[x].limit
  BY <1>3, <1>4, <1>5, <1>6
<1> QED
  BY <1>7, <1>8 DEF Trade, Lasting

\* The transaction of fill_pending_market is one trade.
LEMMA FillPendingMarketTrades ==
  ASSUME TypeInv, NEW o \in OrderIds, NEW q \in Quantities, NEW p \in Prices,
         FillPendingMarket(o, q, p)
  PROVE  Trade(o, q, p)
<1> DEFINE rows == Claimed(o, "filled", q)
           final == CancelSiblings(rows, o)
<1>1. rows \in [OrderIds -> Row]
  BY ClaimedTyped, PlainStatuses DEF TypeInv
<1>2. orders' = final
  BY DEF FillPendingMarket
<1>3. \A x \in OrderIds :
        /\ rows[x].side = orders[x].side /\ rows[x].limit = orders[x].limit
  BY ClaimedLasting
<1>4. \A x \in OrderIds :
        /\ final[x].side = rows[x].side /\ final[x].limit = rows[x].limit
  BY <1>1, CancelLasting
<1>5. Apply(orders[o].side, q, p) /\ traded' = [traded EXCEPT ![o] = @ + q]
  BY DEF FillPendingMarket
<1> HIDE DEF rows, final
<1> QED
  BY <1>2, <1>3, <1>4, <1>5 DEF Trade, Lasting

\* A step is a reset, one trade of one order, or leaves shares and trades.
LEMMA TradeStep ==
  ASSUME BracketInv, [Next]_vars
  PROVE  \/ Still
         \/ \E o \in OrderIds, q \in Quantities, p \in Prices : Trade(o, q, p)
         \/ Reset
<1> DEFINE Goal == \E o \in OrderIds, q \in Quantities, p \in Prices : Trade(o, q, p)
<1>0. /\ orders \in [OrderIds -> Row] /\ traded \in [OrderIds -> Nat]
      /\ TypeInv
  BY DEF BracketInv, TypeInv, TypeOK
<1>1. ASSUME NEW o \in OrderIds, NEW r \in Requests, Queue(o, r)
      PROVE  Still
  <2>1. \A x \in OrderIds : ~Unused(x) => orders'[x] = orders[x]
    BY <1>0, <1>1 DEF Queue
  <2> QED
    BY <1>1, <2>1 DEF Queue, Still, Lasting
<1>2. ASSUME NEW o \in OrderIds, NEW r \in Requests, NEW p \in Prices,
             ExecuteMarket(o, r, p)
      PROVE  Goal
  <2> DEFINE row == [NewRow(r, "market") EXCEPT !.status = "filled",
                                                !.filled = r.qty]
  <2>1. /\ Unused(o) /\ orders' = [orders EXCEPT ![o] = row]
        /\ traded' = [traded EXCEPT ![o] = r.qty] /\ Apply(r.side, r.qty, p)
    BY <1>2 DEF ExecuteMarket
  <2>2. row.side = r.side
    BY DEF NewRow
  <2> HIDE DEF row
  <2>3. r.qty \in Quantities /\ r.qty \in Nat
    BY OrdersAssumption DEF OrdersAssumption, Request
  <2>4. traded[o] = 0
    BY <2>1 DEF BracketInv, TableInv, UnusedUntraded
  <2>5. traded' = [traded EXCEPT ![o] = @ + r.qty]
    <3>1. r.qty = traded[o] + r.qty
      BY <2>3, <2>4
    <3> QED
      BY <1>0, <2>1, <3>1
  <2>6. \A x \in OrderIds : ~Unused(x) => orders'[x] = orders[x]
    BY <1>0, <2>1
  <2>7. orders'[o].side = r.side
    BY <1>0, <2>1, <2>2
  <2>8. Trade(o, r.qty, p)
    BY <2>1, <2>5, <2>6, <2>7 DEF Trade, Lasting
  <2> QED
    BY <2>3, <2>8
<1>3. ASSUME NEW o \in OrderIds, NEW sl \in OrderIds, NEW tgt \in OrderIds,
             NEW r \in Requests, QueueBracket(o, sl, tgt, r)
      PROVE  Still
  <2>1. \A x \in OrderIds : ~Unused(x) => orders'[x] = orders[x]
    BY <1>0, <1>3 DEF QueueBracket
  <2> QED
    BY <1>3, <2>1 DEF QueueBracket, Still, Lasting
<1>4. ASSUME NEW o \in OrderIds, Cancel(o)
      PROVE  Still
  <2>1. ASSUME NEW x \in OrderIds
        PROVE  \/ orders'[x] = orders[x]
               \/ orders'[x] = [orders[x] EXCEPT !.status = "cancelled"]
    BY <1>4 DEF Cancel
  <2>2. Lasting
    <3> SUFFICES ASSUME NEW x \in OrderIds
                 PROVE  /\ orders'[x].side = orders[x].side
                        /\ orders'[x].limit = orders[x].limit
      BY DEF Lasting
    <3>1. orders[x] \in Row
      BY <1>0
    <3>2. ASSUME orders'[x] = [orders[x] EXCEPT !.status = "cancelled"]
          PROVE  orders'[x].side = orders[x].side
                 /\ orders'[x].limit = orders[x].limit
      BY <3>1, <3>2 DEF Row
    <3> QED
      BY <2>1, <3>2
  <2> QED
    BY <1>4, <2>2 DEF Cancel, Still
<1>5. ASSUME NEW o \in OrderIds, NEW p \in Prices, ClientFires(o, p)
      PROVE  Goal
  <2>1. orders[o].qty \in Quantities
    BY <1>0 DEF Row
  <2>2. Trade(o, orders[o].qty, p)
    BY <1>0, <1>5, <2>1, FillPendingMarketTrades DEF ClientFires
  <2> QED
    BY <2>1, <2>2
<1>6. CASE ExpireDay
  <2>1. ASSUME NEW x \in OrderIds
        PROVE  \/ orders'[x] = orders[x]
               \/ orders'[x] = [orders[x] EXCEPT !.status = "expired"]
    BY <1>6 DEF ExpireDay
  <2>2. Lasting
    <3> SUFFICES ASSUME NEW x \in OrderIds
                 PROVE  /\ orders'[x].side = orders[x].side
                        /\ orders'[x].limit = orders[x].limit
      BY DEF Lasting
    <3>1. orders[x] \in Row
      BY <1>0
    <3>2. ASSUME orders'[x] = [orders[x] EXCEPT !.status = "expired"]
          PROVE  orders'[x].side = orders[x].side
                 /\ orders'[x].limit = orders[x].limit
      BY <3>1, <3>2 DEF Row
    <3> QED
      BY <2>1, <3>2
  <2> QED
    BY <1>6, <2>2 DEF ExpireDay, Still
<1>7. ASSUME NEW w \in Watchers, NEW p \in Prices, FillStop(w, p)
      PROVE  Goal
  <2>1. claim[w] # NoSnapshot /\ FillPendingMarket(claim[w].id, claim[w].qty, p)
    BY <1>7 DEF FillStop
  <2>2. claim[w].id \in OrderIds /\ claim[w].qty \in Quantities
    BY <1>0, <2>1, ClaimFacts
  <2>3. Trade(claim[w].id, claim[w].qty, p)
    BY <1>0, <2>1, <2>2, FillPendingMarketTrades
  <2> QED
    BY <2>2, <2>3
<1>8. ASSUME NEW w \in Watchers, NEW s \in todo[w], TriggerStopLimit(w, s)
      PROVE  Still
  <2>1. s.id \in OrderIds
    BY <1>0, SnapshotFacts
  <2>2. orders' = [orders EXCEPT ![s.id].otype = "limit"]
    BY <1>8 DEF TriggerStopLimit
  <2>3. Lasting
    <3> SUFFICES ASSUME NEW x \in OrderIds
                 PROVE  /\ orders'[x].side = orders[x].side
                        /\ orders'[x].limit = orders[x].limit
      BY DEF Lasting
    <3> QED
      BY <1>0, <2>1, <2>2 DEF Row
  <2> QED
    BY <1>8, <2>3 DEF TriggerStopLimit, Still
<1>9. ASSUME NEW w \in Watchers, NEW s \in todo[w], NEW q \in Quantities,
             FillSlice(w, s, q)
      PROVE  Goal
  <2> DEFINE terminal == q = s.qty - s.filled
  <2>1. /\ q <= s.qty - s.filled
        /\ BookSlice(s.id, q, quote[w], s.filled + q, terminal)
    BY <1>9 DEF FillSlice, FillLimit
  <2>2. /\ s.id \in OrderIds /\ quote[w] \in Prices
        /\ s.filled + q \in Quantities
    BY <1>0, <2>1, SnapshotFacts, DoneIsQuantity
  <2>3. Trade(s.id, q, quote[w])
    BY <1>0, <2>1, <2>2, BookSliceTrades
  <2> QED
    BY <2>2, <2>3
<1>10. ASSUME UNCHANGED <<account, table>>
       PROVE  Still
  BY <1>10 DEF table, Still, Lasting
<1>11. ASSUME NEW o \in OrderIds, FireAmo(o) \/ ClientGivesUp(o)
       PROVE  Still
  BY <1>10, <1>11 DEF FireAmo, ClientGivesUp
<1>12. ASSUME NEW w \in Watchers, NEW p \in Prices,
              Pull(w, p) \/ StopNotFilled(w, p)
       PROVE  Still
  BY <1>10, <1>12 DEF Pull, StopNotFilled
<1>13. ASSUME NEW w \in Watchers, NEW s \in todo[w],
              TriggerStopMarket(w, s) \/ SkipStop(w, s)
       PROVE  Still
  BY <1>10, <1>13 DEF TriggerStopMarket, SkipStop
<1>14. ASSUME NEW w \in Watchers, NEW s \in todo[w], NEW q \in Quantities,
              SkipLimit(w, s, q)
       PROVE  Still
  BY <1>10, <1>14 DEF SkipLimit
<1>15. ASSUME NEW w \in Watchers, Repull(w)
       PROVE  Still
  BY <1>10, <1>15 DEF Repull
<1>16. CASE UNCHANGED vars
  BY <1>10, <1>16 DEF vars
<1> HIDE DEF Goal
<1> QED
  BY <1>1, <1>2, <1>3, <1>4, <1>5, <1>6, <1>7, <1>8, <1>9, <1>11,
     <1>12, <1>13, <1>14, <1>15, <1>16 DEF Next, ClientStep, WatcherStep, Goal

\* What each order adds to the position.
Net == [o \in OrderIds |-> IF orders[o].side = "buy" THEN traded[o]
                                                     ELSE 0 - traded[o]]

SharesAreNet == shares = SumFunctionOnSet(Net, OrderIds)

\* Terms of the net are whole numbers, and zero for an id without an order.
LEMMA NetFacts ==
  ASSUME BracketInv
  PROVE  \A x \in OrderIds :
           /\ traded[x] \in Nat /\ Net[x] \in Int
           /\ Net[x] = IF orders[x].side = "buy" THEN traded[x] ELSE 0 - traded[x]
           /\ Unused(x) => traded[x] = 0
<1>1. traded \in [OrderIds -> Nat]
  BY DEF BracketInv, TypeInv, TypeOK
<1>2. \A x \in OrderIds : Unused(x) => traded[x] = 0
  BY DEF BracketInv, TableInv, UnusedUntraded
<1> QED
  BY <1>1, <1>2 DEF Net

\* A purchase adds its quantity to the position, a sale takes it away.
LEMMA ApplyMovesShares ==
  ASSUME NEW side, NEW q, NEW p, Apply(side, q, p)
  PROVE  \/ side = "buy" /\ shares' = shares + q
         \/ side = "sell" /\ shares' = shares - q
  BY DEF Apply, A!Buy, A!BuyFor, A!Sell, A!SellFor

\* Every step moves the position by what it moves the trades by.
LEMMA NetStep ==
  ASSUME IsFiniteSet(OrderIds), BracketInv, SharesAreNet, [Next]_vars
  PROVE  SharesAreNet'
<1>1. BracketInv'
  BY BracketInvStep
<1>2. \A x \in OrderIds :
        /\ traded[x] \in Nat /\ Net[x] \in Int
        /\ Net[x] = IF orders[x].side = "buy" THEN traded[x] ELSE 0 - traded[x]
        /\ Unused(x) => traded[x] = 0
  BY NetFacts
<1> DEFINE new == Net'
<1>3. \A x \in OrderIds :
        /\ traded'[x] \in Nat /\ new[x] \in Int
        /\ new[x] = IF orders'[x].side = "buy" THEN traded'[x]
                                               ELSE 0 - traded'[x]
  BY <1>1 DEF Net, BracketInv, TypeInv, TypeOK
<1>4. traded \in [OrderIds -> Nat] /\ shares \in Nat
  BY DEF BracketInv, TypeInv, TypeOK, A!TypeOK
<1>5. SharesAreNet' <=> shares' = SumFunctionOnSet(new, OrderIds)
  BY DEF SharesAreNet
<1> HIDE DEF new
<1>6. CASE Still
  <2>1. shares' = shares /\ traded' = traded
    BY <1>6 DEF Still, account
  <2>2. \A x \in OrderIds : Net[x] = new[x]
    BY <1>2, <1>3, <1>6, <2>1 DEF Still, Lasting
  <2>3. SumFunctionOnSet(Net, OrderIds) = SumFunctionOnSet(new, OrderIds)
    BY <2>2, SumSame
  <2> QED
    BY <1>5, <2>1, <2>3 DEF SharesAreNet
<1>7. ASSUME NEW o \in OrderIds, NEW q \in Quantities, NEW p \in Prices,
             Trade(o, q, p)
      PROVE  SharesAreNet'
  <2>1. q \in Nat
    BY QuantityFacts
  <2>2. \A x \in OrderIds : traded'[x] = IF x = o THEN traded[x] + q ELSE traded[x]
    BY <1>4, <1>7 DEF Trade
  <2>3. \A x \in OrderIds \ {o} : new[x] = Net[x]
    BY <1>2, <1>3, <1>7, <2>2 DEF Trade, Lasting
  <2>4. SumFunctionOnSet(new, OrderIds) =
          SumFunctionOnSet(Net, OrderIds) + new[o] - Net[o]
    BY <1>2, <1>3, <2>3, SumMoves
  <2>5. traded'[o] = traded[o] + q
    BY <2>2
  <2>6. new[o] - Net[o] = IF orders'[o].side = "buy" THEN q ELSE 0 - q
    <3>1. CASE Unused(o)
      BY <1>2, <1>3, <2>1, <2>5, <3>1
    <3>2. CASE ~Unused(o)
      <4>1. orders'[o].side = orders[o].side
        BY <1>7, <3>2 DEF Trade, Lasting
      <4> QED
        BY <1>2, <1>3, <2>1, <2>5, <4>1
    <3> QED
      BY <3>1, <3>2
  <2>7. \/ orders'[o].side = "buy" /\ shares' = shares + q
        \/ orders'[o].side = "sell" /\ shares' = shares - q
    BY <1>7, ApplyMovesShares DEF Trade
  <2>8. new[o] \in Int /\ Net[o] \in Int
    BY <1>2, <1>3
  <2>9. shares' = SumFunctionOnSet(new, OrderIds)
    BY <1>4, <2>1, <2>4, <2>6, <2>7, <2>8 DEF SharesAreNet
  <2> QED
    BY <1>5, <2>9
<1>8. CASE Reset
  <2>1. \A x \in OrderIds : traded'[x] = 0
    BY <1>8 DEF Reset
  <2>2. \A x \in OrderIds : new[x] = 0
    BY <1>3, <2>1
  <2>3. SumFunctionOnSet(new, OrderIds) = 0
    BY <2>2, SumOfZeros
  <2>4. shares' = 0
    BY <1>8 DEF Reset, A!Reset
  <2> QED
    BY <1>5, <2>3, <2>4
<1> QED
  BY <1>6, <1>7, <1>8, TradeStep

\* The position is what was bought less what was sold, by all the orders
\* there are, in every reachable state: with any number of watchers, and also
\* where a stale snapshot has made a row disagree with its trades, no fill
\* moves the position without its trade or writes a trade without the
\* position (market.py 54-97, limit.py 125-178).
THEOREM OrdersSharesMatchTrades ==
  ASSUME IsFiniteSet(OrderIds)
  PROVE  Spec => []SharesMatchTrades
<1>1. Init => SharesAreNet
  <2> SUFFICES ASSUME Init PROVE SharesAreNet
    OBVIOUS
  <2>1. \A x \in OrderIds : Net[x] = 0
    BY DEF Init, Net
  <2>2. SumFunctionOnSet(Net, OrderIds) = 0
    BY <2>1, SumOfZeros
  <2> QED
    BY <2>2 DEF Init, A!Init, SharesAreNet
<1>2. BracketInv /\ SharesAreNet /\ [Next]_vars => SharesAreNet'
  BY NetStep
<1>3. BracketInv /\ SharesAreNet => SharesMatchTrades
  <2> SUFFICES ASSUME BracketInv, SharesAreNet PROVE SharesMatchTrades
    OBVIOUS
  <2>1. /\ OnSide("buy") \in SUBSET OrderIds
        /\ OnSide("sell") = OrderIds \ OnSide("buy")
    BY DEF OnSide, BracketInv, TypeInv, TypeOK, Row, Sides
  <2>2. /\ \A x \in OrderIds : traded[x] \in Int
        /\ \A x \in OnSide("buy") : Net[x] = traded[x]
        /\ \A x \in OrderIds \ OnSide("buy") : Net[x] = -traded[x]
    BY NetFacts DEF OnSide
  <2>3. SumFunctionOnSet(Net, OrderIds) =
          SumFunctionOnSet(traded, OnSide("buy"))
            - SumFunctionOnSet(traded, OrderIds \ OnSide("buy"))
    BY <2>1, <2>2, SumSplits
  <2> QED
    BY <2>1, <2>3 DEF SharesAreNet, SharesMatchTrades, TradedBy
<1> QED
  BY <1>1, <1>2, <1>3, BracketsInv, PTL DEF Spec

-----------------------------------------------------------------------------
(****************************************************************************)
(* A limit order never trades beyond its limit, with any number of watchers *)
(* and whatever the feed quotes between the tick that selected the order    *)
(* and its fill.                                                            *)
(*                                                                          *)
(* What a watcher fills at its quote it had compared with that quote: its   *)
(* limits are crossed (Crossed), also those that a STOP_LIMIT became, since *)
(* the limits are read again after the stops.  And nothing else fills a     *)
(* limit order: the thread that fires entries holds market orders, a held   *)
(* claim is of a STOP_MARKET (SameKind).                                    *)
(****************************************************************************)

\* Every order with a limit type has a limit; an id without an order is blank.
Priced(row) ==
  /\ row.otype \in {"limit", "stop_limit"} => row.limit \in Prices
  /\ row.status = "unused" => row.otype = "market"

LimitsPriced == \A o \in OrderIds : Priced(orders[o])

\* A snapshot of a live order is still right about its type, unless it was a
\* STOP_LIMIT and has triggered.
SameKind ==
  /\ \A w \in Watchers :
       /\ \A s \in todo[w] : IsLive(s.id) =>
            \/ orders[s.id].otype = s.otype
            \/ s.otype = "stop_limit" /\ orders[s.id].otype = "limit"
       /\ claim[w] # NoSnapshot /\ IsLive(claim[w].id) =>
            orders[claim[w].id].otype = "stop_market"
  /\ \A o \in firing : IsLive(o) => orders[o].otype = "market"

\* The limits a watcher is about to fill are crossed by its quote.
Crossed ==
  \A w \in Watchers : stage[w] = "limits" =>
    \A s \in todo[w] : IsLive(s.id) => LimitCrossed(s.id, quote[w])

LimitInv == BracketInv /\ LimitsPriced /\ SameKind /\ Crossed

\* How a step may change the type of a row that stays live.
TypeKept(x) == \/ orders'[x].otype = orders[x].otype
               \/ orders[x].otype = "stop_limit" /\ orders'[x].otype = "limit"

RowsPriced ==
  \A x \in OrderIds :
    /\ Priced(orders'[x])
    /\ ~Unused(x) /\ orders'[x].status \in Live => IsLive(x) /\ TypeKept(x)

\* Steps that keep type and limit of every row.
LEMMA SameTypePriced ==
  ASSUME LimitInv, Kept, Lasting, Unborn,
         \A x \in OrderIds : ~Unused(x) => orders'[x].otype = orders[x].otype
  PROVE  RowsPriced
  BY DEF LimitInv, LimitsPriced, Priced, RowsPriced, TypeKept, Kept, Lasting,
     Unborn, Unused, IsLive

\* A fill keeps them.
LEMMA FillPriced ==
  ASSUME LimitInv, Kept, NEW o \in OrderIds, ~Unused(o), NEW q, NEW p,
         NEW terminal \in BOOLEAN, FillMoves(o, terminal), Trade(o, q, p)
  PROVE  RowsPriced
<1>1. ASSUME NEW x \in OrderIds, Unused(x)
      PROVE  Priced(orders'[x])
  <2>1. orders'[x].status = "unused" /\ orders'[x].otype = "market"
    BY <1>1 DEF FillMoves, Unused, IsLive, Live, LimitInv, LimitsPriced, Priced
  <2> QED
    BY <2>1 DEF Priced
<1>2. ASSUME NEW x \in OrderIds, ~Unused(x)
      PROVE  Priced(orders'[x])
  <2>1. /\ orders'[x].status # "unused" /\ orders'[x].otype = orders[x].otype
        /\ orders'[x].limit = orders[x].limit
    BY <1>2 DEF FillMoves, Kept, Trade, Lasting
  <2> QED
    BY <2>1 DEF LimitInv, LimitsPriced, Priced
<1>3. \A x \in OrderIds : ~Unused(x) /\ orders'[x].status \in Live =>
        IsLive(x) /\ TypeKept(x)
  BY DEF Kept, FillMoves, TypeKept, IsLive
<1> QED
  BY <1>1, <1>2, <1>3 DEF RowsPriced

\* A row that is born in the step has a limit if its type asks for one.
LEMMA BirthPriced ==
  ASSUME LimitInv, NEW S \in SUBSET OrderIds, \A x \in S : Unused(x),
         \A x \in OrderIds \ S : orders'[x] = orders[x],
         \A x \in S : Priced(orders'[x])
  PROVE  RowsPriced
  BY DEF LimitInv, LimitsPriced, RowsPriced, TypeKept, Unused, IsLive

\* What submit_order lets pass has the prices its type needs.
LEMMA RequestPrices ==
  ASSUME NEW r \in Requests
  PROVE  /\ r.kind \in {"limit", "stop_limit"} => r.limit \in Prices
         /\ r.kind = "bracket" => r.target \in Prices
         /\ r.limit = NoPrice \/ r.limit \in Prices
<1>1. r \in Request
  BY OrdersAssumption DEF OrdersAssumption
<1>2. r.limit \in PriceOrNull /\ r.target \in PriceOrNull
  BY <1>1 DEF Request
<1> QED
  BY <1>2, OrdersAssumption DEF OrdersAssumption, PriceOrNull

\* Every step keeps types and limits in order.
LEMMA PricedStep ==
  ASSUME LimitInv, [Next]_vars
  PROVE  RowsPriced
<1>0. /\ orders \in [OrderIds -> Row] /\ traded \in [OrderIds -> Nat]
      /\ TypeInv /\ BracketInv
  BY DEF LimitInv, BracketInv, TypeInv, TypeOK
<1>1. ASSUME NEW o \in OrderIds, NEW r \in Requests, Queue(o, r)
      PROVE  RowsPriced
  <2> DEFINE row == NewRow(r, r.kind)
  <2>1. Unused(o) /\ orders' = [orders EXCEPT ![o] = row]
        /\ r.kind # "bracket"
    BY <1>1 DEF Queue
  <2>2. Priced(row)
    BY <2>1, RequestPrices DEF NewRow, Priced
  <2> HIDE DEF row
  <2>3. orders'[o] = row /\ \A x \in OrderIds \ {o} : orders'[x] = orders[x]
    BY <1>0, <2>1
  <2> DEFINE S == {o}
  <2>4. /\ S \in SUBSET OrderIds /\ \A x \in S : Unused(x)
        /\ \A x \in OrderIds \ S : orders'[x] = orders[x]
        /\ \A x \in S : Priced(orders'[x])
    BY <2>1, <2>2, <2>3
  <2> HIDE DEF S
  <2> QED
    BY <2>4, BirthPriced
<1>2. ASSUME NEW o \in OrderIds, NEW r \in Requests, NEW p \in Prices,
             ExecuteMarket(o, r, p)
      PROVE  RowsPriced
  <2> DEFINE row == [NewRow(r, "market") EXCEPT !.status = "filled",
                                                !.filled = r.qty]
  <2>1. Unused(o) /\ orders' = [orders EXCEPT ![o] = row]
    BY <1>2 DEF ExecuteMarket
  <2>2. Priced(row)
    BY DEF NewRow, Priced
  <2> HIDE DEF row
  <2>3. orders'[o] = row /\ \A x \in OrderIds \ {o} : orders'[x] = orders[x]
    BY <1>0, <2>1
  <2> DEFINE S == {o}
  <2>4. /\ S \in SUBSET OrderIds /\ \A x \in S : Unused(x)
        /\ \A x \in OrderIds \ S : orders'[x] = orders[x]
        /\ \A x \in S : Priced(orders'[x])
    BY <2>1, <2>2, <2>3
  <2> HIDE DEF S
  <2> QED
    BY <2>4, BirthPriced
<1>3. ASSUME NEW o \in OrderIds, NEW sl \in OrderIds, NEW tgt \in OrderIds,
             NEW r \in Requests, QueueBracket(o, sl, tgt, r)
      PROVE  RowsPriced
  <2> DEFINE S == {o, sl, tgt}
  <2>1. /\ o # sl /\ o # tgt /\ sl # tgt /\ r.kind = "bracket"
        /\ \A x \in S : Unused(x)
    BY <1>3 DEF QueueBracket
  <2>2. /\ orders'[o].otype = IF r.limit = NoPrice THEN "market" ELSE "limit"
        /\ orders'[o].limit = r.limit /\ orders'[o].status = "pending"
    BY <1>0, <1>3, <2>1 DEF QueueBracket, NewRow
  <2>3. orders'[sl].otype = "stop_market" /\ orders'[sl].status = "pending"
    BY <1>0, <1>3, <2>1 DEF QueueBracket, NewRow
  <2>4. orders'[tgt].limit = r.target /\ orders'[tgt].status = "pending"
    BY <1>0, <1>3, <2>1 DEF QueueBracket, NewRow
  <2>5. Priced(orders'[o]) /\ Priced(orders'[sl]) /\ Priced(orders'[tgt])
    BY <2>1, <2>2, <2>3, <2>4, RequestPrices DEF Priced
  <2>6. \A x \in OrderIds \ S : orders'[x] = orders[x]
    BY <1>0, <1>3 DEF QueueBracket
  <2>7. S \in SUBSET OrderIds /\ \A x \in S : Priced(orders'[x])
    BY <2>5
  <2> HIDE DEF S
  <2> QED
    BY <2>1, <2>6, <2>7, BirthPriced
<1>4. ASSUME NEW o \in OrderIds, Cancel(o)
      PROVE  RowsPriced
  <2>1. ASSUME NEW x \in OrderIds
        PROVE  \/ orders'[x] = orders[x]
               \/ IsLive(x) /\ orders'[x] = [orders[x] EXCEPT !.status = "cancelled"]
    BY <1>4 DEF Cancel
  <2>2. ASSUME NEW x \in OrderIds, ~Unused(x)
        PROVE  orders'[x].otype = orders[x].otype
               /\ orders'[x].limit = orders[x].limit
               /\ orders'[x].side = orders[x].side
    <3>1. orders[x] \in Row
      BY <1>0
    <3> QED
      BY <2>1, <3>1 DEF Row
  <2>3. Kept /\ Lasting
    BY <1>0, <1>4, <2>2, CancelStep DEF Lasting
  <2>4. Unborn
    BY <2>1 DEF Unborn, Unused, IsLive, Live
  <2> QED
    BY <2>2, <2>3, <2>4, SameTypePriced
<1>5. CASE ExpireDay
  <2>1. ASSUME NEW x \in OrderIds
        PROVE  \/ orders'[x] = orders[x]
               \/ /\ orders[x].status = "pending"
                  /\ orders'[x] = [orders[x] EXCEPT !.status = "expired"]
    BY <1>5 DEF ExpireDay
  <2>2. ASSUME NEW x \in OrderIds, ~Unused(x)
        PROVE  orders'[x].otype = orders[x].otype
               /\ orders'[x].limit = orders[x].limit
               /\ orders'[x].side = orders[x].side
    <3>1. orders[x] \in Row
      BY <1>0
    <3> QED
      BY <2>1, <3>1 DEF Row
  <2>3. Kept /\ Lasting
    BY <1>0, <1>5, <2>2, ExpireStep DEF Lasting
  <2>4. Unborn
    BY <2>1 DEF Unborn, Unused
  <2> QED
    BY <2>2, <2>3, <2>4, SameTypePriced
<1>6. ASSUME NEW o \in OrderIds, NEW p \in Prices, ClientFires(o, p)
      PROVE  RowsPriced
  <2>1. FillPendingMarket(o, orders[o].qty, p) /\ IsLive(o) /\ ~Unused(o)
    BY <1>6 DEF ClientFires, FillPendingMarket, IsLive, Live, Unused
  <2>2. orders[o].qty \in Quantities /\ Ready(o)
    BY <1>0, <1>6 DEF Row, ClientFires, BracketInv, EntriesFire, Ready, Gated
  <2>3. FillMoves(o, TRUE) /\ Trade(o, orders[o].qty, p)
    BY <1>0, <2>1, <2>2, FillPendingMarketMoves, FillPendingMarketTrades
  <2>4. Kept
    BY <1>0, <2>1, <2>2, <2>3, FillStep
  <2> QED
    BY <2>1, <2>3, <2>4, FillPriced
<1>7. ASSUME NEW w \in Watchers, NEW p \in Prices, FillStop(w, p)
      PROVE  RowsPriced
  <2> DEFINE o == claim[w].id
             q == claim[w].qty
  <2>1. claim[w] # NoSnapshot /\ FillPendingMarket(o, q, p) /\ IsLive(o)
        /\ ~Unused(o)
    BY <1>7 DEF FillStop, FillPendingMarket, IsLive, Live, Unused
  <2>2. o \in OrderIds /\ q \in Quantities /\ Ready(o)
    BY <1>0, <2>1, ClaimFacts DEF BracketInv, Released
  <2>3. FillMoves(o, TRUE) /\ Trade(o, q, p)
    BY <1>0, <2>1, <2>2, FillPendingMarketMoves, FillPendingMarketTrades
  <2>4. Kept
    BY <1>0, <2>1, <2>2, <2>3, FillStep
  <2> HIDE DEF o, q
  <2> QED
    BY <2>1, <2>2, <2>3, <2>4, FillPriced
<1>8. ASSUME NEW w \in Watchers, NEW s \in todo[w], NEW q \in Quantities,
             FillSlice(w, s, q)
      PROVE  RowsPriced
  <2> DEFINE terminal == q = s.qty - s.filled
  <2>1. /\ IsLive(s.id) /\ ~Unused(s.id) /\ q <= s.qty - s.filled
        /\ BookSlice(s.id, q, quote[w], s.filled + q, terminal)
    BY <1>8 DEF FillSlice, FillLimit, IsLive, Live, Unused
  <2>2. /\ s.id \in OrderIds /\ quote[w] \in Prices
        /\ s.filled + q \in Quantities /\ Ready(s.id)
    BY <1>0, <2>1, SnapshotFacts, DoneIsQuantity DEF BracketInv, Released
  <2>3. FillMoves(s.id, terminal) /\ Trade(s.id, q, quote[w])
    BY <1>0, <2>1, <2>2, BookSliceMoves, BookSliceTrades
  <2>4. Kept
    BY <1>0, <2>1, <2>2, <2>3, FillStep
  <2> HIDE DEF terminal
  <2>5. terminal \in BOOLEAN
    BY DEF terminal
  <2> QED
    BY <2>1, <2>2, <2>3, <2>4, <2>5, FillPriced
<1>9. ASSUME NEW w \in Watchers, NEW s \in todo[w], TriggerStopLimit(w, s)
      PROVE  RowsPriced
  <2>1. /\ s.id \in OrderIds /\ orders[s.id].status = "pending"
        /\ orders' = [orders EXCEPT ![s.id].otype = "limit"]
        /\ s.otype = "stop_limit" /\ IsLive(s.id)
    BY <1>0, <1>9, SnapshotFacts DEF TriggerStopLimit, IsLive, Live
  <2>2. orders[s.id].otype \in {"stop_limit", "limit"}
    BY <2>1 DEF LimitInv, SameKind
  <2>3. /\ orders'[s.id].otype = "limit" /\ orders'[s.id].status = "pending"
        /\ orders'[s.id].limit = orders[s.id].limit
        /\ \A x \in OrderIds \ {s.id} : orders'[x] = orders[x]
    BY <1>0, <2>1 DEF Row
  <2>4. Priced(orders'[s.id]) /\ TypeKept(s.id)
    BY <2>1, <2>2, <2>3 DEF Priced, TypeKept, LimitInv, LimitsPriced
  <2>5. ASSUME NEW x \in OrderIds, x # s.id
        PROVE  /\ Priced(orders'[x])
               /\ orders'[x].status \in Live => IsLive(x) /\ TypeKept(x)
    BY <2>3, <2>5 DEF LimitInv, LimitsPriced, TypeKept, IsLive
  <2> QED
    BY <2>1, <2>4, <2>5 DEF RowsPriced
<1>10. CASE Reset
  <2>1. ASSUME NEW x \in OrderIds
        PROVE  Priced(orders'[x])
    <3>1. Priced(Blank("deleted"))
      BY DEF Blank, Priced
    <3> QED
      BY <1>10, <3>1 DEF Reset, LimitInv, LimitsPriced
  <2>2. \A x \in OrderIds : orders'[x].status \notin Live
    BY <1>0, <1>10, ResetStep DEF Gone, Live
  <2> QED
    BY <2>1, <2>2 DEF RowsPriced
<1>11. ASSUME UNCHANGED table
       PROVE  RowsPriced
  BY <1>11 DEF table, RowsPriced, LimitInv, LimitsPriced, TypeKept, IsLive
<1>12. ASSUME NEW o \in OrderIds, FireAmo(o) \/ ClientGivesUp(o)
       PROVE  RowsPriced
  BY <1>11, <1>12 DEF FireAmo, ClientGivesUp
<1>13. ASSUME NEW w \in Watchers, NEW p \in Prices,
              Pull(w, p) \/ StopNotFilled(w, p)
       PROVE  RowsPriced
  BY <1>11, <1>13 DEF Pull, StopNotFilled
<1>14. ASSUME NEW w \in Watchers, NEW s \in todo[w],
              TriggerStopMarket(w, s) \/ SkipStop(w, s)
       PROVE  RowsPriced
  BY <1>11, <1>14 DEF TriggerStopMarket, SkipStop
<1>15. ASSUME NEW w \in Watchers, NEW s \in todo[w], NEW q \in Quantities,
              SkipLimit(w, s, q)
       PROVE  RowsPriced
  BY <1>11, <1>15 DEF SkipLimit
<1>16. ASSUME NEW w \in Watchers, Repull(w)
       PROVE  RowsPriced
  BY <1>11, <1>16 DEF Repull
<1>17. CASE UNCHANGED vars
  BY <1>11, <1>17 DEF vars, table
<1> QED
  BY <1>1, <1>2, <1>3, <1>4, <1>5, <1>6, <1>7, <1>8, <1>9, <1>10,
     <1>12, <1>13, <1>14, <1>15, <1>16, <1>17 DEF Next, ClientStep, WatcherStep

\* Where a watcher's claim comes from: it was there, or is a triggered stop.
LEMMA ClaimStep ==
  ASSUME TypeInv, [Next]_vars, NEW w \in Watchers
  PROVE  \/ claim'[w] \in {claim[w], NoSnapshot}
         \/ \E s \in todo[w] : /\ claim'[w].id = s.id /\ s.otype = "stop_market"
                               /\ claim'[w] = SnapshotOf(s.id)
                               /\ stage[w] = "stops" /\ stage'[w] = "stops"
                               /\ UNCHANGED orders
<1> DEFINE Kept1 == claim'[w] \in {claim[w], NoSnapshot}
<1> USE DEF threads, TypeInv, TypeOK
<1>1. ASSUME NEW o \in OrderIds, NEW r \in Requests,
             Queue(o, r) \/ (\E p \in Prices : ExecuteMarket(o, r, p))
      PROVE  Kept1
  BY <1>1 DEF Queue, ExecuteMarket
<1>2. ASSUME NEW o \in OrderIds, NEW sl \in OrderIds, NEW tgt \in OrderIds,
             NEW r \in Requests, QueueBracket(o, sl, tgt, r)
      PROVE  Kept1
  BY <1>2 DEF QueueBracket
<1>3. ASSUME NEW o \in OrderIds,
             \/ FireAmo(o) \/ Cancel(o) \/ ClientGivesUp(o)
             \/ \E p \in Prices : ClientFires(o, p)
      PROVE  Kept1
  BY <1>3 DEF FireAmo, Cancel, ClientGivesUp, ClientFires
<1>4. CASE ExpireDay \/ Reset
  BY <1>4 DEF ExpireDay, Reset
<1>5. ASSUME NEW v \in Watchers, Repull(v) \/ (\E p \in Prices : Pull(v, p))
      PROVE  Kept1
  BY <1>5 DEF Pull, Repull
<1>6. ASSUME NEW v \in Watchers, NEW p \in Prices,
             FillStop(v, p) \/ StopNotFilled(v, p)
      PROVE  Kept1
  BY <1>6 DEF FillStop, StopNotFilled
<1>7. ASSUME NEW v \in Watchers, NEW s \in todo[v], TriggerStopMarket(v, s)
      PROVE  \/ Kept1
             \/ /\ v = w /\ claim'[w].id = s.id /\ s.otype = "stop_market"
                /\ claim'[w] = SnapshotOf(s.id)
                /\ stage[w] = "stops" /\ stage'[w] = "stops"
                /\ UNCHANGED orders
  <2>1. CASE v = w
    BY <1>7, <2>1 DEF TriggerStopMarket, table, SnapshotOf
  <2>2. CASE v # w
    BY <1>7, <2>2 DEF TriggerStopMarket
  <2> QED
    BY <2>1, <2>2
<1>8. ASSUME NEW v \in Watchers, NEW s \in todo[v],
             TriggerStopLimit(v, s) \/ SkipStop(v, s)
      PROVE  Kept1
  BY <1>8 DEF TriggerStopLimit, SkipStop
<1>9. ASSUME NEW v \in Watchers, NEW s \in todo[v], NEW q \in Quantities,
             FillSlice(v, s, q) \/ SkipLimit(v, s, q)
      PROVE  Kept1
  BY <1>9 DEF FillSlice, SkipLimit
<1>10. CASE UNCHANGED vars
  BY <1>10 DEF vars
<1> QED
  BY <1>1, <1>2, <1>3, <1>4, <1>5, <1>6, <1>7, <1>8, <1>9, <1>10
  DEF Next, ClientStep, WatcherStep

\* What a client thread fires: it held it before, or it is a market order.
LEMMA FiringStep ==
  ASSUME TypeInv, [Next]_vars
  PROVE  \A o \in firing' : o \in firing \/ orders'[o].otype = "market"
<1> USE DEF threads, TypeInv, TypeOK
<1>1. ASSUME NEW o \in OrderIds, NEW r \in Requests,
             Queue(o, r) \/ (\E p \in Prices : ExecuteMarket(o, r, p))
      PROVE  firing' \subseteq firing
  BY <1>1 DEF Queue, ExecuteMarket
<1>2. ASSUME NEW o \in OrderIds, NEW sl \in OrderIds, NEW tgt \in OrderIds,
             NEW r \in Requests, QueueBracket(o, sl, tgt, r)
      PROVE  \A x \in firing' : x \in firing \/ orders'[x].otype = "market"
  <2>1. orders'[o].otype = IF r.limit = NoPrice THEN "market" ELSE "limit"
    BY <1>2 DEF QueueBracket, NewRow
  <2>2. firing' = firing \/ (r.limit = NoPrice /\ firing' = firing \cup {o})
    BY <1>2 DEF QueueBracket
  <2> QED
    BY <2>1, <2>2
<1>3. ASSUME NEW o \in OrderIds, FireAmo(o)
      PROVE  \A x \in firing' : x \in firing \/ orders'[x].otype = "market"
  BY <1>3 DEF FireAmo, table
<1>4. ASSUME NEW o \in OrderIds,
             Cancel(o) \/ ClientGivesUp(o) \/ (\E p \in Prices : ClientFires(o, p))
      PROVE  firing' \subseteq firing
  BY <1>4 DEF Cancel, ClientGivesUp, ClientFires
<1>5. CASE ExpireDay \/ Reset
  BY <1>5 DEF ExpireDay, Reset
<1>6. ASSUME NEW w \in Watchers, WatcherStep(w)
      PROVE  firing' \subseteq firing
  BY <1>6 DEF WatcherStep, Pull, FillStop, StopNotFilled, TriggerStopMarket,
     TriggerStopLimit, SkipStop, FillSlice, SkipLimit, Repull
<1>7. CASE UNCHANGED vars
  BY <1>7 DEF vars
<1> QED
  BY <1>1, <1>2, <1>3, <1>4, <1>5, <1>6, <1>7 DEF Next, ClientStep

\* Snapshots and claims stay right about types, crossed limits stay crossed.
LEMMA LimitInvStep == LimitInv /\ [Next]_vars => LimitInv'
<1> SUFFICES ASSUME LimitInv, [Next]_vars PROVE LimitInv'
  OBVIOUS
<1>1. BracketInv' /\ RowsPriced /\ (Kept \/ Reset)
  BY BracketInvStep, PricedStep, TableInvStep DEF LimitInv
<1>2. LimitsPriced'
  BY <1>1 DEF RowsPriced, LimitsPriced
<1>3. Lasting \/ Reset
  BY TradeStep DEF LimitInv, Still, Trade
<1>4. ASSUME NEW x \in OrderIds, ~Unused(x), orders'[x].status \in Live
      PROVE  /\ IsLive(x) /\ TypeKept(x)
             /\ orders'[x].side = orders[x].side
             /\ orders'[x].limit = orders[x].limit
  <2>1. ~Reset
    BY <1>4, ResetStep DEF LimitInv, Gone, Live
  <2> QED
    BY <1>1, <1>3, <1>4, <2>1 DEF RowsPriced, Lasting
<1>5. \A w \in Watchers : \A s \in todo[w] : s.id \in OrderIds /\ ~Unused(s.id)
  BY SnapshotFacts DEF LimitInv, BracketInv, Released, Ready
<1>6. ASSUME NEW w \in Watchers, NEW s \in todo'[w], orders'[s.id].status \in Live
      PROVE  /\ \/ orders'[s.id].otype = s.otype
                \/ s.otype = "stop_limit" /\ orders'[s.id].otype = "limit"
             /\ stage'[w] = "limits" => LimitCrossed(s.id, quote[w])'
  <2>1. CASE OldTodo(w)
    <3>1. /\ s \in todo[w] /\ stage'[w] = stage[w] /\ quote'[w] = quote[w]
          /\ s.id \in OrderIds /\ ~Unused(s.id)
      BY <1>5, <2>1 DEF OldTodo
    <3>2. /\ IsLive(s.id) /\ TypeKept(s.id)
          /\ orders'[s.id].side = orders[s.id].side
          /\ orders'[s.id].limit = orders[s.id].limit
      BY <1>4, <1>6, <3>1
    <3>3. \/ orders[s.id].otype = s.otype
          \/ s.otype = "stop_limit" /\ orders[s.id].otype = "limit"
      BY <3>1, <3>2 DEF LimitInv, SameKind
    <3>4. stage[w] = "limits" => LimitCrossed(s.id, quote[w])
      BY <3>1, <3>2 DEF LimitInv, Crossed
    <3> QED
      BY <3>1, <3>2, <3>3, <3>4 DEF TypeKept, LimitCrossed
  <2>2. CASE FreshTodo(w)
    <3>1. /\ UNCHANGED orders /\ s.otype = orders[s.id].otype
          /\ stage'[w] = "limits" => LimitCrossed(s.id, quote'[w])
      BY <2>2 DEF FreshTodo, SnapshotOf
    <3> QED
      BY <3>1 DEF LimitCrossed
  <2> QED
    BY <2>1, <2>2, TodoStep DEF LimitInv, BracketInv
<1>7. ASSUME NEW w \in Watchers, claim'[w] # NoSnapshot,
             orders'[claim'[w].id].status \in Live
      PROVE  orders'[claim'[w].id].otype = "stop_market"
  <2>1. CASE claim'[w] = claim[w]
    <3>1. claim[w].id \in OrderIds /\ ~Unused(claim[w].id)
      BY <1>7, <2>1, ClaimFacts DEF LimitInv, BracketInv, Released, Ready
    <3>2. IsLive(claim[w].id) /\ TypeKept(claim[w].id)
      BY <1>4, <1>7, <2>1, <3>1
    <3> QED
      BY <1>7, <2>1, <3>2 DEF LimitInv, SameKind, TypeKept
  <2>2. ASSUME NEW s \in todo[w], claim'[w].id = s.id, s.otype = "stop_market",
               UNCHANGED orders
        PROVE  orders'[claim'[w].id].otype = "stop_market"
    BY <1>7, <2>2 DEF LimitInv, SameKind, IsLive
  <2> QED
    BY <1>7, <2>1, <2>2, ClaimStep DEF LimitInv, BracketInv
<1>8. ASSUME NEW o \in firing', orders'[o].status \in Live
      PROVE  orders'[o].otype = "market"
  <2>1. CASE o \in firing
    <3>1. o \in OrderIds /\ ~Unused(o)
      BY <2>1 DEF LimitInv, BracketInv, EntriesFire, TypeInv, TypeOK
    <3>2. IsLive(o) /\ TypeKept(o)
      BY <1>4, <1>8, <3>1
    <3> QED
      BY <2>1, <3>2 DEF LimitInv, SameKind, TypeKept
  <2>2. CASE o \notin firing
    BY <2>2, FiringStep DEF LimitInv, BracketInv
  <2> QED
    BY <2>1, <2>2
<1>9. SameKind'
  BY <1>6, <1>7, <1>8 DEF SameKind, IsLive
<1>10. Crossed'
  BY <1>6 DEF Crossed, IsLive
<1> QED
  BY <1>1, <1>2, <1>9, <1>10 DEF LimitInv

\* The invariant of limits holds of a new account.
LEMMA LimitInvInit == Init => LimitInv
<1> SUFFICES ASSUME Init PROVE LimitInv
  OBVIOUS
<1>1. Blank("unused").otype = "market" /\ Blank("unused").status = "unused"
  BY DEF Blank
<1>2. LimitsPriced
  BY <1>1 DEF Init, LimitsPriced, Priced
<1>3. SameKind /\ Crossed
  BY DEF Init, SameKind, Crossed
<1> QED
  BY <1>2, <1>3, BracketInvInit DEF LimitInv

\* The step in which a limit order trades crosses its limit at the price paid.
LEMMA LimitTrades ==
  ASSUME LimitInv, [Next]_vars, NEW o \in OrderIds, orders[o].otype = "limit",
         traded'[o] > traded[o]
  PROVE  \E q \in Quantities, p \in Prices :
           /\ LimitCrossed(o, p) /\ Apply(orders[o].side, q, p)
           /\ traded'[o] = traded[o] + q
<1> DEFINE Goal == \E q \in Quantities, p \in Prices :
                     /\ LimitCrossed(o, p) /\ Apply(orders[o].side, q, p)
                     /\ traded'[o] = traded[o] + q
<1>0. /\ traded \in [OrderIds -> Nat] /\ TypeInv /\ ~Unused(o)
      /\ ~(traded[o] > traded[o]) /\ ~(0 > traded[o])
  BY DEF LimitInv, BracketInv, TypeInv, TypeOK, LimitsPriced, Priced, Unused
<1>1. ASSUME NEW x \in OrderIds, NEW r \in Requests, NEW p \in Prices,
             ExecuteMarket(x, r, p)
      PROVE  FALSE
  <2>1. traded'[o] = traded[o]
    BY <1>0, <1>1 DEF ExecuteMarket
  <2> QED
    BY <1>0, <2>1
<1>2. ASSUME NEW x \in OrderIds, NEW p \in Prices, ClientFires(x, p)
      PROVE  FALSE
  <2>1. /\ x \in firing /\ IsLive(x)
        /\ traded' = [traded EXCEPT ![x] = @ + orders[x].qty]
    BY <1>2 DEF ClientFires, FillPendingMarket, IsLive, Live
  <2>2. x # o
    BY <2>1 DEF LimitInv, SameKind
  <2>3. traded'[o] = traded[o]
    BY <1>0, <2>1, <2>2
  <2> QED
    BY <1>0, <2>3
<1>3. ASSUME NEW w \in Watchers, NEW p \in Prices, FillStop(w, p)
      PROVE  FALSE
  <2>1. /\ claim[w] # NoSnapshot /\ IsLive(claim[w].id)
        /\ traded' = [traded EXCEPT ![claim[w].id] = @ + claim[w].qty]
    BY <1>3 DEF FillStop, FillPendingMarket, IsLive, Live
  <2>2. claim[w].id # o
    BY <2>1 DEF LimitInv, SameKind
  <2>3. traded'[o] = traded[o]
    BY <1>0, <2>1, <2>2
  <2> QED
    BY <1>0, <2>3
<1>4. ASSUME NEW w \in Watchers, NEW s \in todo[w], NEW q \in Quantities,
             FillSlice(w, s, q)
      PROVE  Goal
  <2>1. /\ stage[w] = "limits" /\ IsLive(s.id)
        /\ Apply(orders[s.id].side, q, quote[w])
        /\ traded' = [traded EXCEPT ![s.id] = @ + q]
    BY <1>4 DEF FillSlice, FillLimit, BookSlice
  <2>2. s.id = o
    BY <1>0, <2>1
  <2>3. LimitCrossed(o, quote[w]) /\ quote[w] \in Prices
    BY <1>0, <2>1, <2>2, SnapshotFacts DEF LimitInv, Crossed
  <2> QED
    BY <1>0, <2>1, <2>2, <2>3
<1>5. ASSUME Reset
      PROVE  FALSE
  BY <1>0, <1>5 DEF Reset
<1>6. ASSUME traded' = traded
      PROVE  FALSE
  BY <1>0, <1>6
<1>7. ASSUME NEW x \in OrderIds, NEW r \in Requests, Queue(x, r)
      PROVE  FALSE
  BY <1>6, <1>7 DEF Queue
<1>8. ASSUME NEW x \in OrderIds, FireAmo(x) \/ Cancel(x) \/ ClientGivesUp(x)
      PROVE  FALSE
  BY <1>6, <1>8 DEF FireAmo, Cancel, ClientGivesUp, table
<1>9. ASSUME ExpireDay
      PROVE  FALSE
  BY <1>6, <1>9 DEF ExpireDay
<1>10. ASSUME NEW w \in Watchers, NEW p \in Prices,
              Pull(w, p) \/ StopNotFilled(w, p)
       PROVE  FALSE
  BY <1>6, <1>10 DEF Pull, StopNotFilled, table
<1>11. ASSUME NEW w \in Watchers, NEW s \in todo[w],
              TriggerStopMarket(w, s) \/ TriggerStopLimit(w, s) \/ SkipStop(w, s)
       PROVE  FALSE
  BY <1>6, <1>11 DEF TriggerStopMarket, TriggerStopLimit, SkipStop, table
<1>12. ASSUME NEW w \in Watchers, NEW s \in todo[w], NEW q \in Quantities,
              SkipLimit(w, s, q)
       PROVE  FALSE
  BY <1>6, <1>12 DEF SkipLimit, table
<1>13. ASSUME NEW w \in Watchers, Repull(w)
       PROVE  FALSE
  BY <1>6, <1>13 DEF Repull, table
<1>14. ASSUME NEW x \in OrderIds, NEW sl \in OrderIds, NEW tgt \in OrderIds,
              NEW r \in Requests, QueueBracket(x, sl, tgt, r)
       PROVE  FALSE
  BY <1>6, <1>14 DEF QueueBracket
<1>15. ASSUME UNCHANGED vars
       PROVE  FALSE
  BY <1>6, <1>15 DEF vars, table
<1> HIDE DEF Goal
<1>16. Goal
  BY <1>1, <1>2, <1>3, <1>4, <1>5, <1>7, <1>8, <1>9, <1>10, <1>11, <1>12,
     <1>13, <1>14, <1>15 DEF Next, ClientStep, WatcherStep
<1> QED
  BY <1>16 DEF Goal

\* A limit order never trades beyond its limit, whatever the feed quotes
\* between the tick that selected the order and the fill, with any number of
\* watchers, and also when it began as a STOP_LIMIT (limit_orders.py 256-340,
\* limit.fill): the principal booked is at most, or at least, what its limit
\* makes of the quantity.
THEOREM OrdersLimitRespected == Spec => LimitRespected
<1> DEFINE Respected(o) ==
      orders[o].otype = "limit" /\ traded'[o] > traded[o] =>
        LET q == traded'[o] - traded[o] IN
        IF orders[o].side = "buy"
        THEN ledger["buy_principal"] - ledger'["buy_principal"]
               <= q * orders[o].limit
        ELSE ledger'["sell_principal"] - ledger["sell_principal"]
               >= q * orders[o].limit
<1>1. ASSUME LimitInv, [Next]_vars, NEW o \in OrderIds
      PROVE  Respected(o)
  <2> SUFFICES ASSUME orders[o].otype = "limit", traded'[o] > traded[o]
               PROVE  LET q == traded'[o] - traded[o] IN
                      IF orders[o].side = "buy"
                      THEN ledger["buy_principal"] - ledger'["buy_principal"]
                             <= q * orders[o].limit
                      ELSE ledger'["sell_principal"] - ledger["sell_principal"]
                             >= q * orders[o].limit
    OBVIOUS
  <2>1. PICK q \in Quantities, p \in Prices :
          /\ LimitCrossed(o, p) /\ Apply(orders[o].side, q, p)
          /\ traded'[o] = traded[o] + q
    BY <1>1, LimitTrades
  <2>2. /\ q \in Nat /\ p \in Nat /\ traded[o] \in Nat
        /\ ledger \in [A!Reasons -> Int] /\ orders[o].side \in Sides
        /\ orders[o].limit \in Nat
    BY <1>1, QuantityFacts, OrdersAssumption
    DEF OrdersAssumption, LimitInv, BracketInv, TypeInv, TypeOK, A!TypeOK, Row,
        LimitsPriced, Priced
  <2>3. traded'[o] - traded[o] = q
    BY <2>1, <2>2
  <2>4. CASE orders[o].side = "buy"
    <3>1. p <= orders[o].limit /\ A!Buy(q, p)
      BY <2>1, <2>4 DEF LimitCrossed, Apply
    <3>2. ledger'["buy_principal"] = ledger["buy_principal"] - q * p
      BY <2>2, <3>1 DEF A!Buy, A!BuyFor, A!Reasons
    <3>3. q * p <= q * orders[o].limit
      BY <2>2, <3>1
    <3> QED
      BY <2>2, <2>3, <2>4, <3>2, <3>3 DEF A!Reasons
  <2>5. CASE orders[o].side = "sell"
    <3>1. p >= orders[o].limit /\ A!Sell(q, p)
      BY <2>1, <2>5 DEF LimitCrossed, Apply
    <3>2. ledger'["sell_principal"] = ledger["sell_principal"] + q * p
      BY <2>2, <3>1 DEF A!Sell, A!SellFor, A!Reasons
    <3>3. q * orders[o].limit <= q * p
      BY <2>2, <3>1
    <3> QED
      BY <2>2, <2>3, <2>5, <3>2, <3>3 DEF A!Reasons
  <2> QED
    BY <2>2, <2>4, <2>5 DEF Sides
<1>2. LimitInv /\ [Next]_vars => \A o \in OrderIds : Respected(o)
  BY <1>1
<1>3. Spec => []LimitInv
  BY LimitInvInit, LimitInvStep, PTL DEF Spec
<1>4. LimitInv /\ [Next]_vars => [ \A o \in OrderIds : Respected(o) ]_vars
  BY <1>2
<1> QED
  BY <1>3, <1>4, PTL DEF Spec, LimitRespected

-----------------------------------------------------------------------------
(****************************************************************************)
(* The quantities of a bracket, with one watcher: status and quantity of a  *)
(* row agree, the stop-loss is for what the target has not sold, and the    *)
(* exits never trade more than their entry.                                 *)
(*                                                                          *)
(* The three hold together or not at all.  That the stop-loss covers the    *)
(* rest needs the filled_qty of the entry to be its quantity; that a shrunk *)
(* row still has something to fill needs that only stop-losses are shrunk   *)
(* and that they fill at once; and a held claim is for the quantity of its  *)
(* row because the same watcher does not fill a target meanwhile.           *)
(****************************************************************************)

\* A bracket has one target and one stop-loss.
Pairs ==
  \A c \in OrderIds : orders[c].parent # NoOrder =>
    /\ orders[c].otype \in {"limit", "stop_market"}
    /\ Siblings(c) # {}
    /\ \A s \in Siblings(c) : orders[s].otype # orders[c].otype

\* Only a limit order is ever filled in part.
PartsAreLimits ==
  \A o \in OrderIds :
    orders[o].filled > 0 /\ orders[o].status # "filled" =>
      orders[o].otype = "limit"

\* Status and quantity agree, and nothing is filled beyond its quantity.
Fits == StatusMatchesFill /\ \A o \in OrderIds : orders[o].filled <= orders[o].qty

\* Quantities of the exits, next to that of their entry.
ExitsFit ==
  \A c \in OrderIds : orders[c].parent # NoOrder =>
    LET entry == orders[orders[c].parent] IN
    /\ orders[c].otype = "limit" => orders[c].qty = entry.qty
    /\ orders[c].otype = "stop_market" =>
         \A s \in Siblings(c) :
           /\ IsLive(c) => orders[c].qty + traded[s] = entry.qty
           /\ traded[c] + traded[s] <= entry.qty

RowsWhole == Pairs /\ PartsAreLimits /\ Fits /\ ExitsFit

\* A watcher among its limits holds no claim; what it holds has the quantity
\* of its row.
SnapshotsWhole ==
  \A w \in Watchers :
    /\ stage[w] = "limits" =>
         /\ claim[w] = NoSnapshot
         /\ \A s \in todo[w] : /\ s.otype = "limit"
                               /\ IsLive(s.id) => s.qty = orders[s.id].qty
    /\ claim[w] # NoSnapshot /\ orders[claim[w].id].status = "pending" =>
         claim[w].qty = orders[claim[w].id].qty

WholeInv == LimitInv /\ FillInv /\ RowsWhole /\ SnapshotsWhole

-----------------------------------------------------------------------------
(* How one step may change quantities *)

\* No quantity moves; rows may die, and a STOP_LIMIT become a LIMIT.
QuietRows ==
  /\ traded' = traded
  /\ \A x \in OrderIds :
       /\ orders'[x].parent = orders[x].parent /\ orders'[x].qty = orders[x].qty
       /\ orders'[x].filled = orders[x].filled
       /\ \/ orders'[x].otype = orders[x].otype
          \/ orders[x].otype = "stop_limit" /\ orders'[x].otype = "limit"
       /\ \/ orders'[x].status = orders[x].status
          \/ IsLive(x) /\ orders'[x].status \in {"cancelled", "expired"}

\* What the parent bought and order o, filled to done, has not closed yet.
Left(o, done) == orders[orders[o].parent].filled - done

\* One order is filled by q more; its siblings may be cancelled or shrunk.
FillRows(o, q, terminal) ==
  /\ FillMoves(o, terminal) /\ FilledMoves(o, q, orders[o].filled + q)
  /\ IsLive(o) /\ Ready(o)
  /\ orders[o].filled + q <= orders[o].qty
  /\ terminal <=> orders[o].filled + q = orders[o].qty
  /\ \/ /\ orders[o].otype # "limit" /\ terminal
        /\ \A x \in OrderIds : orders'[x].qty = orders[x].qty
     \/ /\ orders[o].otype = "limit"
        /\ \A x \in OrderIds :
             orders'[x].qty =
               IF /\ x \in Siblings(o) /\ IsLive(x)
                  /\ 0 < Left(o, orders[o].filled + q)
                  /\ Left(o, orders[o].filled + q) < orders[x].qty
               THEN Left(o, orders[o].filled + q) ELSE orders[x].qty

\* Columns of rows as the invariants use them.
LEMMA WholeTypes ==
  ASSUME BracketInv, NEW x \in OrderIds
  PROVE  /\ orders[x].qty \in Nat \ {0} /\ orders[x].filled \in Nat
         /\ traded[x] \in Nat /\ orders[x].status \in Statuses
         /\ orders[x].parent \in OrderIds \cup {NoOrder}
<1>1. orders[x] \in Row /\ traded[x] \in Nat
  BY DEF BracketInv, TypeInv, TypeOK
<1>2. orders[x].qty \in Quantities /\ orders[x].filled \in {0} \cup Quantities
  BY <1>1 DEF Row
<1> QED
  BY <1>1, <1>2, QuantityFacts DEF Row

\* Steps that move no quantity keep the quantities in order.
LEMMA QuietWhole ==
  ASSUME WholeInv, QuietRows
  PROVE  RowsWhole'
<1>1. \A x \in OrderIds : Siblings(x)' = Siblings(x)
  BY DEF QuietRows, Siblings
<1>2. \A x \in OrderIds : orders'[x].status \in Live => IsLive(x)
  BY DEF QuietRows, IsLive, Live
<1>3. \A x \in OrderIds :
        orders[x].parent # NoOrder => orders'[x].otype = orders[x].otype
  BY DEF QuietRows, WholeInv, RowsWhole, Pairs
<1>4. Pairs'
  <2> SUFFICES ASSUME NEW c \in OrderIds, orders'[c].parent # NoOrder
               PROVE  /\ orders'[c].otype \in {"limit", "stop_market"}
                      /\ Siblings(c)' # {}
                      /\ \A s \in Siblings(c)' : orders'[s].otype # orders'[c].otype
    BY DEF Pairs
  <2>1. orders[c].parent # NoOrder
    BY DEF QuietRows
  <2>2. \A s \in Siblings(c) : s \in OrderIds /\ orders[s].parent # NoOrder
    BY <2>1 DEF Siblings
  <2> QED
    BY <1>1, <1>3, <2>1, <2>2 DEF WholeInv, RowsWhole, Pairs
<1>5. PartsAreLimits'
  <2> SUFFICES ASSUME NEW x \in OrderIds, orders'[x].filled > 0,
                      orders'[x].status # "filled"
               PROVE  orders'[x].otype = "limit"
    BY DEF PartsAreLimits
  <2>1. orders[x].filled > 0 /\ orders[x].status # "filled"
    BY DEF QuietRows, IsLive, Live
  <2> QED
    BY <2>1 DEF QuietRows, WholeInv, RowsWhole, PartsAreLimits
<1>6. Fits'
  BY DEF QuietRows, WholeInv, RowsWhole, Fits, StatusMatchesFill
<1>7. ExitsFit'
  <2> SUFFICES ASSUME NEW c \in OrderIds, orders'[c].parent # NoOrder
               PROVE  LET entry == orders'[orders'[c].parent] IN
                      /\ orders'[c].otype = "limit" => orders'[c].qty = entry.qty
                      /\ orders'[c].otype = "stop_market" =>
                           \A s \in Siblings(c)' :
                             /\ orders'[c].status \in Live =>
                                  orders'[c].qty + traded'[s] = entry.qty
                             /\ traded'[c] + traded'[s] <= entry.qty
    BY DEF ExitsFit, IsLive
  <2>1. /\ orders[c].parent # NoOrder /\ orders'[c].parent = orders[c].parent
        /\ orders[c].parent \in OrderIds
        /\ orders'[c].otype = orders[c].otype
    BY <1>3, WholeTypes DEF QuietRows, WholeInv, LimitInv
  <2> QED
    BY <1>1, <1>2, <2>1 DEF QuietRows, WholeInv, RowsWhole, ExitsFit
<1> QED
  BY <1>4, <1>5, <1>6, <1>7 DEF RowsWhole

\* The sibling of an exit is the only one.
LEMMA OneSibling ==
  ASSUME Pairs, NEW c \in OrderIds, orders[c].parent # NoOrder, NEW s \in Siblings(c)
  PROVE  /\ Siblings(c) = {s} /\ s \in OrderIds /\ s # c
         /\ orders[s].parent = orders[c].parent /\ c \in Siblings(s)
         /\ orders[s].otype # orders[c].otype
<1>1. /\ s \in OrderIds /\ s # c /\ orders[s].parent = orders[c].parent
      /\ c \in Siblings(s)
  BY DEF Siblings
<1>2. ASSUME NEW t \in Siblings(c), t # s
      PROVE  FALSE
  <2>1. t \in OrderIds /\ t \in Siblings(s) /\ orders[t].parent # NoOrder
    BY <1>1, <1>2 DEF Siblings
  <2>2. /\ orders[t].otype # orders[c].otype /\ orders[t].otype # orders[s].otype
        /\ orders[s].otype # orders[c].otype
    BY <1>1, <2>1 DEF Pairs
  <2> QED
    BY <1>1, <2>1, <2>2 DEF Pairs
<1> QED
  BY <1>1, <1>2 DEF Pairs

\* What a fill leaves of status and quantity of one row.
LEMMA FillFits ==
  ASSUME WholeInv, NEW o \in OrderIds, NEW q \in Quantities,
         NEW terminal \in BOOLEAN, FillRows(o, q, terminal), NEW x \in OrderIds
  PROVE  /\ orders'[x].status = "filled" => orders'[x].filled = orders'[x].qty
         /\ orders'[x].status = "partially_filled" =>
              orders'[x].filled \in 1..(orders'[x].qty - 1)
         /\ orders'[x].status = "pending" => orders'[x].filled = 0
         /\ orders'[x].filled <= orders'[x].qty
         /\ orders'[x].filled > 0 /\ orders'[x].status # "filled" =>
              orders'[x].otype = "limit"
<1>0. /\ Left(o, orders[o].filled + q) \in Int \/ x \notin Siblings(o)
      /\ orders[x].qty \in Nat \ {0} /\ orders[x].filled \in Nat
      /\ orders[o].qty \in Nat \ {0} /\ orders[o].filled \in Nat
      /\ q \in Nat \ {0}
  <2>1. x \in Siblings(o) => orders[o].parent \in OrderIds
    BY WholeTypes DEF Siblings, WholeInv, LimitInv
  <2> QED
    BY <2>1, WholeTypes, QuantityFacts DEF Left, WholeInv, LimitInv
<1>1. /\ orders[x].status = "filled" => orders[x].filled = orders[x].qty
      /\ orders[x].status = "partially_filled" =>
           orders[x].filled \in 1..(orders[x].qty - 1)
      /\ orders[x].status = "pending" => orders[x].filled = 0
      /\ orders[x].filled <= orders[x].qty
      /\ orders[x].filled > 0 /\ orders[x].status # "filled" =>
           orders[x].otype = "limit"
  BY DEF WholeInv, RowsWhole, Fits, StatusMatchesFill, PartsAreLimits
<1>2. orders'[x].otype = orders[x].otype
  BY DEF FillRows, FillMoves
<1>3. CASE x = o
  <2>1. /\ orders'[o].filled = orders[o].filled + q
        /\ orders'[o].status = IF terminal THEN "filled" ELSE "partially_filled"
        /\ orders'[o].qty = orders[o].qty
    BY DEF FillRows, FillMoves, FilledMoves, Siblings
  <2>2. ~terminal => orders[o].otype = "limit"
    BY DEF FillRows
  <2> QED
    BY <1>0, <1>2, <1>3, <2>1, <2>2 DEF FillRows
<1>4. CASE x # o
  <2>1. orders'[x].filled = orders[x].filled
    BY <1>4 DEF FillRows, FilledMoves
  <2>2. orders'[x].status \in {orders[x].status, "cancelled"}
    BY <1>4 DEF FillRows, FillMoves
  <2>3. CASE orders'[x].qty = orders[x].qty
    <3>1. orders'[x].status = "cancelled" \/ orders'[x].status = orders[x].status
      BY <2>2
    <3>2. orders'[x].status # "filled" => orders[x].status # "filled" \/ x \in Siblings(o)
      BY <1>4 DEF FillRows, FillMoves
    <3>3. orders'[x].status # "filled" => orders[x].status # "filled"
      BY <1>4 DEF FillRows, FillMoves, IsLive, Live
    <3> QED
      BY <1>0, <1>1, <1>2, <2>1, <2>2, <2>3, <3>3
  <2>4. CASE orders'[x].qty # orders[x].qty
    <3>1. /\ x \in Siblings(o) /\ IsLive(x) /\ orders[o].otype = "limit"
          /\ 0 < Left(o, orders[o].filled + q)
          /\ orders'[x].qty = Left(o, orders[o].filled + q)
      BY <2>4 DEF FillRows
    <3>2. o \in Siblings(x) /\ orders[x].parent # NoOrder
      BY <3>1 DEF Siblings
    <3>3. orders[x].otype # "limit"
      BY <3>1, <3>2 DEF WholeInv, RowsWhole, Pairs
    <3>4. orders[x].filled = 0 /\ orders[x].status = "pending"
      BY <1>0, <1>1, <3>1, <3>3 DEF IsLive, Live
    <3> QED
      BY <1>0, <2>1, <2>2, <3>1, <3>4
  <2> QED
    BY <2>3, <2>4
<1> QED
  BY <1>3, <1>4

\* A fill of a target shrinks the stop-loss to what is left; the fill of a
\* stop-loss closes all of it.
LEMMA FillExits ==
  ASSUME WholeInv, NEW o \in OrderIds, NEW q \in Quantities,
         NEW terminal \in BOOLEAN, FillRows(o, q, terminal)
  PROVE  ExitsFit'
<1>1. /\ \A x \in OrderIds : /\ Siblings(x)' = Siblings(x)
                             /\ orders'[x].parent = orders[x].parent
                             /\ orders'[x].otype = orders[x].otype
      /\ \A x \in OrderIds : orders'[x].status \in Live => IsLive(x)
      /\ orders[o].filled + q = traded[o] + q
  BY DEF FillRows, FillMoves, Siblings, IsLive, Live, WholeInv, FillInv,
     FillsMatchTrades
<1>2. q \in Nat \ {0} /\ BracketInv /\ Pairs
  BY QuantityFacts DEF WholeInv, LimitInv, RowsWhole
<1> SUFFICES ASSUME NEW c \in OrderIds, orders[c].parent # NoOrder
             PROVE  LET entry == orders'[orders[c].parent] IN
                    /\ orders[c].otype = "limit" => orders'[c].qty = entry.qty
                    /\ orders[c].otype = "stop_market" =>
                         \A s \in Siblings(c) :
                           /\ orders'[c].status \in Live =>
                                orders'[c].qty + traded'[s] = entry.qty
                           /\ traded'[c] + traded'[s] <= entry.qty
  BY <1>1 DEF ExitsFit, IsLive
<1> DEFINE e == orders[c].parent
<1>3. /\ e \in OrderIds /\ orders[e].parent = NoOrder
      /\ orders'[e].qty = orders[e].qty
  <2>1. e \in OrderIds /\ orders[e].parent = NoOrder
    BY <1>2, WholeTypes DEF BracketInv, TableInv, Families
  <2>2. e \notin Siblings(o)
    BY <2>1 DEF Siblings
  <2> QED
    BY <2>1, <2>2 DEF FillRows
<1>4. CASE orders[c].otype = "limit"
  <2>1. orders[c].qty = orders[e].qty
    BY <1>4 DEF WholeInv, RowsWhole, ExitsFit
  <2>2. orders'[c].qty = orders[c].qty
    <3>1. CASE c \in Siblings(o)
      <4>1. o \in Siblings(c)
        BY <3>1 DEF Siblings
      <4>2. orders[o].otype # "limit"
        BY <1>2, <1>4, <4>1 DEF Pairs
      <4> QED
        BY <4>2 DEF FillRows
    <3>2. CASE c \notin Siblings(o)
      BY <3>2 DEF FillRows
    <3> QED
      BY <3>1, <3>2
  <2> QED
    BY <1>3, <1>4, <2>1, <2>2
<1>5. ASSUME orders[c].otype = "stop_market", NEW s \in Siblings(c)
      PROVE  /\ orders'[c].status \in Live =>
                  orders'[c].qty + traded'[s] = orders[e].qty
             /\ traded'[c] + traded'[s] <= orders[e].qty
  <2>1. /\ Siblings(c) = {s} /\ s \in OrderIds /\ s # c
        /\ orders[s].parent = e /\ c \in Siblings(s)
        /\ orders[s].otype # orders[c].otype
    BY <1>2, OneSibling
  <2>2. orders[s].otype = "limit"
    BY <1>2, <1>5, <2>1 DEF Pairs
  <2>3. /\ IsLive(c) => orders[c].qty + traded[s] = orders[e].qty
        /\ traded[c] + traded[s] <= orders[e].qty
    BY <1>5 DEF WholeInv, RowsWhole, ExitsFit
  <2>4. /\ orders[c].qty \in Nat \ {0} /\ orders[e].qty \in Nat \ {0}
        /\ traded[c] \in Nat /\ traded[s] \in Nat
        /\ orders[c].filled = traded[c] /\ orders[s].filled = traded[s]
    BY <1>2, <1>3, <2>1, WholeTypes DEF WholeInv, FillInv, FillsMatchTrades
  <2>5. \A x \in {c, s} : traded'[x] = IF x = o THEN traded[x] + q ELSE traded[x]
    BY <2>1 DEF FillRows, FilledMoves
  <2>6. orders[c].status # "filled" => orders[c].filled = 0
    BY <1>5, <2>4 DEF WholeInv, RowsWhole, PartsAreLimits
  <2>7. CASE o = c
    <3>1. terminal /\ orders'[c].status \notin Live
      BY <1>5, <2>7 DEF FillRows, FillMoves, Live
    <3>2. IsLive(c) /\ orders[c].filled + q = orders[c].qty
      BY <2>7, <3>1 DEF FillRows
    <3>3. traded'[c] = orders[c].qty /\ traded'[s] = traded[s]
      BY <2>1, <2>4, <2>5, <2>7, <3>2
    <3> QED
      BY <2>3, <2>4, <3>1, <3>2, <3>3
  <2>8. CASE o = s
    <3> DEFINE done == orders[o].filled + q
    <3>1. traded'[c] = traded[c] /\ traded'[s] = traded[s] + q /\ done = traded[s] + q
      BY <2>1, <2>4, <2>5, <2>8
    <3>2. orders[e].status = "filled" /\ orders[e].filled = orders[e].qty
      <4>1. IsLive(s) /\ Ready(s)
        BY <2>8 DEF FillRows
      <4>2. orders[e].status = "filled"
        BY <2>1, <4>1 DEF Ready, Gated
      <4> QED
        BY <1>3, <4>2 DEF WholeInv, RowsWhole, Fits, StatusMatchesFill
    <3>3. orders[s].qty = orders[e].qty
      BY <2>1, <2>2 DEF WholeInv, RowsWhole, ExitsFit
    <3>4. done <= orders[s].qty /\ (terminal <=> done = orders[s].qty)
      BY <2>8 DEF FillRows
    <3>5. Left(o, done) = orders[e].qty - done
      BY <2>1, <2>8, <3>2 DEF Left
    <3>6. orders[c].status # "filled"
      <4>1. IsLive(s)
        BY <2>8 DEF FillRows
      <4> QED
        BY <1>2, <2>1, <4>1 DEF BracketInv, TableInv, OneExit
    <3>7. traded[c] = 0
      BY <2>4, <2>6, <3>6
    <3>8. traded'[c] + traded'[s] <= orders[e].qty
      BY <1>2, <2>4, <3>1, <3>3, <3>4, <3>7
    <3>9. ASSUME orders'[c].status \in Live
          PROVE  orders'[c].qty + traded'[s] = orders[e].qty
      <4>1. IsLive(c) /\ ~terminal
        BY <1>1, <2>1, <2>8, <3>9 DEF FillRows, FillMoves, Live
      <4>2. orders[c].qty = orders[e].qty - traded[s] /\ done < orders[e].qty
        BY <1>2, <2>3, <2>4, <3>1, <3>3, <3>4, <4>1
      <4>3. 0 < Left(o, done) /\ Left(o, done) < orders[c].qty
        BY <1>2, <2>4, <3>1, <3>5, <4>2
      <4>4. orders'[c].qty = Left(o, done)
        BY <2>1, <2>2, <2>8, <4>1, <4>3 DEF FillRows
      <4> QED
        BY <1>2, <2>4, <3>1, <3>5, <4>4
    <3> QED
      BY <3>8, <3>9
  <2>9. CASE o \notin {c, s}
    <3>1. c \notin Siblings(o)
      BY <2>1, <2>9 DEF Siblings
    <3>2. orders'[c].qty = orders[c].qty
      BY <3>1 DEF FillRows
    <3>3. traded'[c] = traded[c] /\ traded'[s] = traded[s]
      BY <2>5, <2>9
    <3> QED
      BY <1>1, <2>3, <3>2, <3>3
  <2> QED
    BY <2>7, <2>8, <2>9
<1> QED
  BY <1>3, <1>4, <1>5

\* A fill keeps the quantities in order.
LEMMA FillWhole ==
  ASSUME WholeInv, NEW o \in OrderIds, NEW q \in Quantities,
         NEW terminal \in BOOLEAN, FillRows(o, q, terminal)
  PROVE  RowsWhole'
<1>1. /\ \A x \in OrderIds : /\ Siblings(x)' = Siblings(x)
                             /\ orders'[x].parent = orders[x].parent
                             /\ orders'[x].otype = orders[x].otype
  BY DEF FillRows, FillMoves, Siblings
<1>2. Pairs'
  BY <1>1 DEF Pairs, Siblings, WholeInv, RowsWhole
<1>3. PartsAreLimits' /\ Fits'
  BY FillFits DEF PartsAreLimits, Fits, StatusMatchesFill
<1> QED
  BY <1>2, <1>3, FillExits DEF RowsWhole

\* A new order without a parent fits.
LEMMA BirthWhole ==
  ASSUME WholeInv, NEW o \in OrderIds, Unused(o), NEW row,
         row.parent = NoOrder, row.filled <= row.qty,
         \/ row.status = "pending" /\ row.filled = 0
         \/ row.status = "filled" /\ row.filled = row.qty,
         orders' = [orders EXCEPT ![o] = row],
         \A x \in OrderIds \ {o} : traded'[x] = traded[x]
  PROVE  RowsWhole'
<1>1. /\ \A x \in OrderIds \ {o} : orders'[x] = orders[x]
      /\ orders'[o] = row /\ BracketInv
  BY DEF WholeInv, LimitInv, BracketInv, TypeInv, TypeOK
<1>2. \A x \in OrderIds : /\ orders[x].parent # o
                          /\ orders[x].parent \in OrderIds \cup {NoOrder}
                          /\ x = o => orders[x].parent = NoOrder
  BY <1>1, WholeTypes, OrdersAssumption
  DEF BracketInv, TableInv, Families, Gone, Unused, OrdersAssumption
<1>3. \A x \in OrderIds : orders'[x].parent = orders[x].parent
  BY <1>1, <1>2
<1>4. \A x \in OrderIds : Siblings(x)' = Siblings(x)
  BY <1>3 DEF Siblings
<1>5. \A x \in OrderIds : \A s \in Siblings(x) : s \in OrderIds \ {o} /\ x # o
  BY <1>2 DEF Siblings
<1>6. Pairs'
  BY <1>1, <1>2, <1>3, <1>4, <1>5 DEF Pairs, WholeInv, RowsWhole
<1>7. PartsAreLimits'
  BY <1>1 DEF PartsAreLimits, WholeInv, RowsWhole
<1>8. Fits'
  BY <1>1 DEF Fits, StatusMatchesFill, WholeInv, RowsWhole
<1>9. ExitsFit'
  <2> SUFFICES ASSUME NEW c \in OrderIds, orders'[c].parent # NoOrder
               PROVE  LET entry == orders'[orders'[c].parent] IN
                      /\ orders'[c].otype = "limit" => orders'[c].qty = entry.qty
                      /\ orders'[c].otype = "stop_market" =>
                           \A s \in Siblings(c) :
                             /\ orders'[c].status \in Live =>
                                  orders'[c].qty + traded'[s] = entry.qty
                             /\ traded'[c] + traded'[s] <= entry.qty
    BY <1>4 DEF ExitsFit, IsLive
  <2>1. /\ c # o /\ orders[c].parent \in OrderIds \ {o}
        /\ orders'[c].parent = orders[c].parent /\ orders[c].parent # NoOrder
    BY <1>2, <1>3
  <2> QED
    BY <1>1, <1>5, <2>1 DEF WholeInv, RowsWhole, ExitsFit, IsLive
<1> QED
  BY <1>6, <1>7, <1>8, <1>9 DEF RowsWhole

\* A new bracket fits: one target and one stop-loss, each for all of it.
LEMMA BracketBirthWhole ==
  ASSUME WholeInv, NEW o \in OrderIds, NEW sl \in OrderIds,
         NEW tgt \in OrderIds, NEW r \in Requests, QueueBracket(o, sl, tgt, r)
  PROVE  RowsWhole'
<1>1. /\ orders \in [OrderIds -> Row] /\ traded \in [OrderIds -> Nat]
      /\ BracketInv
  BY DEF WholeInv, LimitInv, BracketInv, TypeInv, TypeOK
<1>2. o # sl /\ o # tgt /\ sl # tgt /\ Unused(o) /\ Unused(sl) /\ Unused(tgt)
  BY DEF QueueBracket
<1>3. /\ \A x \in OrderIds \ {o, sl, tgt} : orders'[x] = orders[x]
      /\ traded' = traded
  BY <1>1 DEF QueueBracket
<1>4. /\ orders'[o].parent = NoOrder /\ orders'[o].status = "pending"
      /\ orders'[o].qty = r.qty /\ orders'[o].filled = 0
  BY <1>1, <1>2 DEF QueueBracket, NewRow
<1>5. /\ orders'[sl].parent = o /\ orders'[sl].status = "pending"
      /\ orders'[sl].qty = r.qty /\ orders'[sl].filled = 0
      /\ orders'[sl].otype = "stop_market"
  BY <1>1, <1>2 DEF QueueBracket, NewRow
<1>6. /\ orders'[tgt].parent = o /\ orders'[tgt].status = "pending"
      /\ orders'[tgt].qty = r.qty /\ orders'[tgt].filled = 0
      /\ orders'[tgt].otype = "limit"
  BY <1>1, <1>2 DEF QueueBracket, NewRow
<1>7. o # NoOrder /\ r.qty \in Nat
  BY OrdersAssumption, QuantityFacts DEF OrdersAssumption, Request
<1>8. \A x \in OrderIds :
        /\ orders[x].parent \notin {o, sl, tgt}
        /\ orders[x].parent \in OrderIds \cup {NoOrder}
        /\ x \in {o, sl, tgt} => orders[x].parent = NoOrder
  BY <1>1, <1>2, WholeTypes, OrdersAssumption
  DEF BracketInv, TableInv, Families, Gone, Unused, OrdersAssumption
<1>9. traded[sl] = 0 /\ traded[tgt] = 0
  BY <1>1, <1>2 DEF BracketInv, TableInv, UnusedUntraded
<1> HIDE DEF QueueBracket
<1>10. /\ Siblings(sl)' = {tgt} /\ Siblings(tgt)' = {sl}
       /\ \A x \in OrderIds \ {o, sl, tgt} : Siblings(x)' = Siblings(x)
       /\ \A x \in OrderIds : \A s \in Siblings(x) :
            s \in OrderIds \ {o, sl, tgt} /\ x \notin {o, sl, tgt}
  <2>1. \A x \in OrderIds :
          orders'[x].parent = IF x \in {sl, tgt} THEN o ELSE orders[x].parent
    BY <1>3, <1>4, <1>5, <1>6, <1>8
  <2>2. Siblings(sl)' = {tgt}
    BY <1>2, <1>7, <1>8, <2>1 DEF Siblings
  <2>3. Siblings(tgt)' = {sl}
    BY <1>2, <1>7, <1>8, <2>1 DEF Siblings
  <2>4. ASSUME NEW x \in OrderIds \ {o, sl, tgt}
        PROVE  Siblings(x)' = Siblings(x)
    BY <1>8, <2>1 DEF Siblings
  <2>5. \A x \in OrderIds : \A s \in Siblings(x) :
          s \in OrderIds \ {o, sl, tgt} /\ x \notin {o, sl, tgt}
    BY <1>8 DEF Siblings
  <2> QED
    BY <2>2, <2>3, <2>4, <2>5
<1>11. ASSUME NEW x \in OrderIds, x \notin {o, sl, tgt}, orders'[x].parent # NoOrder
       PROVE  /\ orders'[x] = orders[x] /\ Siblings(x)' = Siblings(x)
              /\ orders[x].parent # NoOrder
              /\ orders[x].parent \in OrderIds \ {o, sl, tgt}
              /\ orders'[orders[x].parent] = orders[orders[x].parent]
  BY <1>3, <1>8, <1>10, <1>11
<1>12. Pairs'
  <2> SUFFICES ASSUME NEW c \in OrderIds, orders'[c].parent # NoOrder
               PROVE  /\ orders'[c].otype \in {"limit", "stop_market"}
                      /\ Siblings(c)' # {}
                      /\ \A s \in Siblings(c)' : orders'[s].otype # orders'[c].otype
    BY DEF Pairs
  <2>1. CASE c \in {sl, tgt}
    BY <1>5, <1>6, <1>10, <2>1
  <2>2. CASE c \notin {sl, tgt}
    <3>1. c \notin {o, sl, tgt}
      BY <1>4, <2>2
    <3>2. /\ orders[c].otype \in {"limit", "stop_market"} /\ Siblings(c) # {}
          /\ \A s \in Siblings(c) : orders[s].otype # orders[c].otype
      BY <1>11, <3>1 DEF WholeInv, RowsWhole, Pairs
    <3>3. \A s \in Siblings(c) : orders'[s] = orders[s]
      BY <1>3, <1>10
    <3> QED
      BY <1>11, <3>1, <3>2, <3>3
  <2> QED
    BY <2>1, <2>2
<1>13. PartsAreLimits'
  BY <1>3, <1>4, <1>5, <1>6 DEF PartsAreLimits, WholeInv, RowsWhole
<1>14. Fits'
  BY <1>3, <1>4, <1>5, <1>6, <1>7 DEF Fits, StatusMatchesFill, WholeInv, RowsWhole
<1>15. ExitsFit'
  <2> SUFFICES ASSUME NEW c \in OrderIds, orders'[c].parent # NoOrder
               PROVE  LET entry == orders'[orders'[c].parent] IN
                      /\ orders'[c].otype = "limit" => orders'[c].qty = entry.qty
                      /\ orders'[c].otype = "stop_market" =>
                           \A s \in Siblings(c)' :
                             /\ orders'[c].status \in Live =>
                                  orders'[c].qty + traded'[s] = entry.qty
                             /\ traded'[c] + traded'[s] <= entry.qty
    BY DEF ExitsFit, IsLive
  <2>1. CASE c = sl
    BY <1>3, <1>4, <1>5, <1>7, <1>9, <1>10, <2>1
  <2>2. CASE c = tgt
    BY <1>4, <1>6, <2>2
  <2>3. CASE c \notin {sl, tgt}
    <3>1. c \notin {o, sl, tgt}
      BY <1>4, <2>3
    <3>2. LET entry == orders[orders[c].parent] IN
          /\ orders[c].otype = "limit" => orders[c].qty = entry.qty
          /\ orders[c].otype = "stop_market" =>
               \A s \in Siblings(c) :
                 /\ IsLive(c) => orders[c].qty + traded[s] = entry.qty
                 /\ traded[c] + traded[s] <= entry.qty
      BY <1>11, <3>1 DEF WholeInv, RowsWhole, ExitsFit
    <3> QED
      BY <1>3, <1>11, <3>1, <3>2 DEF IsLive
  <2> QED
    BY <2>1, <2>2, <2>3
<1> QED
  BY <1>12, <1>13, <1>14, <1>15 DEF RowsWhole

\* After a reset there is nothing to fit.
LEMMA ResetWhole ==
  ASSUME WholeInv, Reset
  PROVE  RowsWhole'
<1>1. \A x \in OrderIds : orders'[x].parent = NoOrder /\ orders'[x].status \in Gone
  BY ResetStep DEF WholeInv, LimitInv
<1>2. ASSUME NEW x \in OrderIds
      PROVE  orders'[x].filled = 0 /\ orders'[x].qty \in Nat
  <2>1. Blank("deleted").filled = 0 /\ Blank("deleted").qty \in Nat
    <3>1. (CHOOSE q \in Quantities : TRUE) \in Quantities
      BY OrdersAssumption DEF OrdersAssumption
    <3> QED
      BY <3>1, QuantityFacts DEF Blank
  <2>2. Unused(x) => orders[x].filled = 0 /\ orders[x].qty \in Nat
    BY WholeTypes DEF WholeInv, LimitInv, FillInv, Unfilled, Unused
  <2> QED
    BY <2>1, <2>2 DEF Reset
<1>3. Pairs' /\ ExitsFit'
  BY <1>1 DEF Pairs, ExitsFit
<1>4. PartsAreLimits' /\ Fits'
  BY <1>1, <1>2 DEF PartsAreLimits, Fits, StatusMatchesFill, Gone
<1> QED
  BY <1>3, <1>4 DEF RowsWhole

-----------------------------------------------------------------------------
(* The column qty in a fill *)

\* Which updates of a row change its quantity.
LEMMA QtyColumn ==
  ASSUME NEW r \in Row
  PROVE  /\ \A v : [r EXCEPT !.status = v].qty = r.qty
         /\ \A v : [r EXCEPT !.qty = v].qty = v
         /\ \A v, f : [r EXCEPT !.status = v, !.filled = f].qty = r.qty
  BY DEF Row

\* The claim of a fill leaves quantities alone, and so does the cancelling of
\* siblings.
LEMMA ClaimedQty ==
  ASSUME TypeInv, NEW o \in OrderIds, NEW v, NEW f, NEW x \in OrderIds
  PROVE  Claimed(o, v, f)[x].qty = orders[x].qty
<1>1. orders[x] \in Row /\ orders \in [OrderIds -> Row]
  BY DEF TypeInv, TypeOK
<1> QED
  BY <1>1, QtyColumn DEF Claimed

\* The cancellation of the siblings leaves the quantities alone.
LEMMA CancelQty ==
  ASSUME NEW rows \in [OrderIds -> Row], NEW o, NEW x \in OrderIds
  PROVE  CancelSiblings(rows, o)[x].qty = rows[x].qty
  BY QtyColumn DEF CancelSiblings

\* fill_pending_market changes no quantity.
LEMMA FillPendingMarketQty ==
  ASSUME TypeInv, NEW o \in OrderIds, NEW q \in Quantities, NEW p \in Prices,
         FillPendingMarket(o, q, p), NEW x \in OrderIds
  PROVE  orders'[x].qty = orders[x].qty
<1> DEFINE rows == Claimed(o, "filled", q)
<1>1. rows \in [OrderIds -> Row]
  BY ClaimedTyped, PlainStatuses DEF TypeInv
<1>2. orders' = CancelSiblings(rows, o) /\ rows[x].qty = orders[x].qty
  BY ClaimedQty DEF FillPendingMarket
<1> HIDE DEF rows
<1> QED
  BY <1>1, <1>2, CancelQty

\* limit.fill shrinks live siblings to what is left of the parent's position.
LEMMA BookSliceQty ==
  ASSUME BracketInv, NEW o \in OrderIds, NEW q \in Quantities, NEW p \in Prices,
         NEW done \in Quantities, NEW terminal \in BOOLEAN,
         BookSlice(o, q, p, done, terminal), NEW x \in OrderIds
  PROVE  orders'[x].qty =
           IF /\ x \in Siblings(o) /\ IsLive(x)
              /\ 0 < Left(o, done) /\ Left(o, done) < orders[x].qty
           THEN Left(o, done) ELSE orders[x].qty
<1> DEFINE status == IF terminal THEN "filled" ELSE "partially_filled"
           rows == Claimed(o, status, done)
           shrunk == ShrinkSibling(rows, o, done)
           final == CancelSiblings(shrunk, o)
<1>0. TypeInv
  BY DEF BracketInv
<1>1. rows \in [OrderIds -> Row] /\ rows[o].parent = orders[o].parent
  BY <1>0, ClaimedTyped, PlainStatuses DEF TypeInv
<1>2. shrunk \in [OrderIds -> Row]
  BY <1>0, <1>1, QuantityFacts, ShrinkSiblingTyped DEF TypeInv
<1>3. orders' = IF terminal THEN final ELSE shrunk
  BY DEF BookSlice
<1>4. final[x].qty = shrunk[x].qty
  BY <1>2, CancelQty
<1>5. orders'[x].qty = shrunk[x].qty
  BY <1>3, <1>4
<1>6. rows[x].qty = orders[x].qty
  BY <1>0, ClaimedQty
<1>7. CASE x \notin Siblings(o)
  BY <1>5, <1>6, <1>7 DEF ShrinkSibling
<1>8. CASE x \in Siblings(o)
  <2>1. /\ orders[o].parent \in OrderIds /\ orders[o].parent # o /\ x # o
    BY <1>8, WholeTypes DEF Siblings, BracketInv, TableInv, Families
  <2>2. rows[rows[o].parent].filled = orders[orders[o].parent].filled
    BY <1>0, <1>1, <2>1, ClaimedFilled
  <2>3. rows[x].status = orders[x].status
    BY <1>0, <2>1, ClaimedColumns
  <2>4. shrunk[x] =
          IF /\ orders[x].status \in Live
             /\ 0 < Left(o, done) /\ Left(o, done) < orders[x].qty
          THEN [rows[x] EXCEPT !.qty = Left(o, done)] ELSE rows[x]
    BY <1>6, <1>8, <2>2, <2>3 DEF ShrinkSibling, Left
  <2>5. rows[x] \in Row
    BY <1>1
  <2> HIDE DEF rows, shrunk
  <2> QED
    BY <1>5, <1>6, <1>8, <2>4, <2>5, QtyColumn DEF IsLive
<1> QED
  BY <1>7, <1>8

-----------------------------------------------------------------------------
(* One step of one watcher *)

\* What a client or the watcher is about to fill, it fills in its row's size.
LEMMA MarketFillRows ==
  ASSUME WholeInv, NEW o \in OrderIds, NEW q \in Quantities, NEW p \in Prices,
         FillPendingMarket(o, q, p), q = orders[o].qty, Ready(o),
         orders[o].otype # "limit"
  PROVE  FillRows(o, q, TRUE)
<1>1. orders[o].status = "pending" /\ IsLive(o) /\ BracketInv /\ TypeInv
  BY DEF FillPendingMarket, IsLive, Live, WholeInv, LimitInv, BracketInv
<1>2. orders[o].filled = 0 /\ q \in Nat
  BY <1>1, QuantityFacts DEF WholeInv, FillInv, Unfilled
<1>3. orders[o].filled + q = q
  BY <1>2
<1>4. FillMoves(o, TRUE) /\ FilledMoves(o, q, q)
  BY <1>1, FillPendingMarketMoves, FillPendingMarketFilled
<1>5. \A x \in OrderIds : orders'[x].qty = orders[x].qty
  BY <1>1, FillPendingMarketQty
<1>6. FilledMoves(o, q, orders[o].filled + q)
  BY <1>3, <1>4
<1>7. orders[o].filled + q = orders[o].qty /\ orders[o].filled + q <= orders[o].qty
  BY <1>2, <1>3
<1> QED
  BY <1>1, <1>4, <1>5, <1>6, <1>7, Zenon DEF FillRows

\* What a watcher's snapshot says is left is left in the row.
LEMMA SliceFillRows ==
  ASSUME WholeInv, NEW w \in Watchers, NEW s \in todo[w], NEW q \in Quantities,
         FillSlice(w, s, q)
  PROVE  FillRows(s.id, q, q = s.qty - s.filled)
<1> DEFINE terminal == q = s.qty - s.filled
<1>1. /\ stage[w] = "limits" /\ IsLive(s.id) /\ q <= s.qty - s.filled
      /\ BookSlice(s.id, q, quote[w], s.filled + q, terminal)
  BY DEF FillSlice, FillLimit
<1>2. BracketInv /\ TypeInv
  BY DEF WholeInv, LimitInv, BracketInv
<1>3. /\ s.id \in OrderIds /\ quote[w] \in Prices
      /\ s.filled + q \in Quantities /\ Ready(s.id)
  BY <1>1, <1>2, SnapshotFacts, DoneIsQuantity DEF BracketInv, Released
<1>4. s.filled = orders[s.id].filled /\ s.qty = orders[s.id].qty
      /\ s.otype = "limit"
  BY <1>1 DEF WholeInv, FillInv, Current, SnapshotsWhole
<1>5. orders[s.id].otype = "limit"
  BY <1>1, <1>4 DEF WholeInv, LimitInv, SameKind
<1> DEFINE done == orders[s.id].filled + q
<1>6. /\ BookSlice(s.id, q, quote[w], done, terminal)
      /\ done \in Quantities /\ terminal \in BOOLEAN
  BY <1>1, <1>3, <1>4
<1>7. FillMoves(s.id, terminal) /\ FilledMoves(s.id, q, done)
  BY <1>2, <1>3, <1>6, BookSliceMoves, BookSliceFilled
<1>8. \A x \in OrderIds :
        orders'[x].qty =
          IF /\ x \in Siblings(s.id) /\ IsLive(x)
             /\ 0 < Left(s.id, done) /\ Left(s.id, done) < orders[x].qty
          THEN Left(s.id, done) ELSE orders[x].qty
  BY <1>2, <1>3, <1>6, BookSliceQty
<1>9. done <= orders[s.id].qty /\ (terminal <=> done = orders[s.id].qty)
  <2>1. /\ orders[s.id].qty \in Nat /\ orders[s.id].filled \in Nat /\ q \in Nat
    BY <1>2, <1>3, WholeTypes, QuantityFacts
  <2> QED
    BY <1>1, <1>4, <2>1
<1> QED
  BY <1>1, <1>3, <1>5, <1>7, <1>8, <1>9 DEF FillRows
\* How a step may change the quantity of a row that is live after it: not for
\* a limit order, and only a watcher among its limits does it.
QtySteady ==
  \A x \in OrderIds : ~Unused(x) /\ orders'[x].status \in Live =>
    /\ orders[x].otype = "limit" => orders'[x].qty = orders[x].qty
    /\ orders'[x].status = "pending" => orders[x].status = "pending"
    /\ orders'[x].qty = orders[x].qty \/ \E w \in Watchers : stage[w] = "limits"

\* Steps that leave quantities alone.
LEMMA QuietQty ==
  ASSUME QuietRows
  PROVE  QtySteady
  BY DEF QuietRows, QtySteady, IsLive, Live

\* A row that is born is no row that changes.
LEMMA BirthQty ==
  ASSUME NEW S, \A x \in S : Unused(x),
         \A x \in OrderIds \ S : orders'[x] = orders[x]
  PROVE  QtySteady
  BY DEF QtySteady

\* A fill leaves the quantity of limit orders alone.
LEMMA FillQty ==
  ASSUME WholeInv, NEW o \in OrderIds, NEW q \in Quantities,
         NEW terminal \in BOOLEAN, FillRows(o, q, terminal),
         orders[o].otype = "limit" => \E w \in Watchers : stage[w] = "limits"
  PROVE  QtySteady
<1> SUFFICES ASSUME NEW x \in OrderIds, ~Unused(x), orders'[x].status \in Live
             PROVE  /\ orders[x].otype = "limit" => orders'[x].qty = orders[x].qty
                    /\ orders'[x].status = "pending" => orders[x].status = "pending"
                    /\ \/ orders'[x].qty = orders[x].qty
                       \/ \E w \in Watchers : stage[w] = "limits"
  BY DEF QtySteady
<1>1. orders'[x].status = "pending" => orders[x].status = "pending"
  BY DEF FillRows, FillMoves, Live
<1>2. orders'[x].qty = orders[x].qty \/ \E w \in Watchers : stage[w] = "limits"
  BY DEF FillRows
<1>3. ASSUME orders[x].otype = "limit", orders'[x].qty # orders[x].qty
      PROVE  FALSE
  <2>1. orders[o].otype = "limit" /\ x \in Siblings(o)
    BY <1>3 DEF FillRows
  <2>2. o \in Siblings(x) /\ orders[x].parent # NoOrder
    BY <2>1 DEF Siblings
  <2> QED
    BY <1>3, <2>1, <2>2 DEF WholeInv, RowsWhole, Pairs
<1> QED
  BY <1>1, <1>2, <1>3

\* Every step keeps the quantities of the rows in order.
LEMMA RowsWholeStep ==
  ASSUME WholeInv, [Next]_vars
  PROVE  RowsWhole' /\ QtySteady
<1> DEFINE Goal == RowsWhole' /\ QtySteady
<1>0. /\ orders \in [OrderIds -> Row] /\ traded \in [OrderIds -> Nat]
      /\ TypeInv /\ BracketInv
  BY DEF WholeInv, LimitInv, BracketInv, TypeInv, TypeOK
<1>1. ASSUME QuietRows
      PROVE  Goal
  BY <1>1, QuietWhole, QuietQty
<1>2. ASSUME NEW o \in OrderIds, NEW q \in Quantities, NEW terminal \in BOOLEAN,
             FillRows(o, q, terminal),
             orders[o].otype = "limit" => \E w \in Watchers : stage[w] = "limits"
      PROVE  Goal
  BY <1>2, FillWhole, FillQty
<1>3. ASSUME NEW o \in OrderIds, NEW r \in Requests, Queue(o, r)
      PROVE  Goal
  <2> DEFINE row == NewRow(r, r.kind)
             S == {o}
  <2>1. /\ Unused(o) /\ orders' = [orders EXCEPT ![o] = row] /\ traded' = traded
        /\ r \in Request
    BY <1>3, OrdersAssumption DEF Queue, OrdersAssumption
  <2>2. /\ row.parent = NoOrder /\ row.status = "pending" /\ row.filled = 0
        /\ row.qty \in Nat
    BY <2>1, QuantityFacts DEF NewRow, Request
  <2>3. \A x \in OrderIds \ S : orders'[x] = orders[x]
    BY <1>0, <2>1
  <2>4. \A x \in S : Unused(x)
    BY <2>1
  <2>5. row.filled <= row.qty /\ \A x \in OrderIds \ {o} : traded'[x] = traded[x]
    BY <2>1, <2>2
  <2> HIDE DEF row
  <2>6. RowsWhole'
    BY <2>1, <2>2, <2>5, BirthWhole
  <2> HIDE DEF S
  <2> QED
    BY <2>3, <2>4, <2>6, BirthQty
<1>4. ASSUME NEW o \in OrderIds, NEW r \in Requests, NEW p \in Prices,
             ExecuteMarket(o, r, p)
      PROVE  Goal
  <2> DEFINE row == [NewRow(r, "market") EXCEPT !.status = "filled",
                                                !.filled = r.qty]
             S == {o}
  <2>1. /\ Unused(o) /\ orders' = [orders EXCEPT ![o] = row]
        /\ traded' = [traded EXCEPT ![o] = r.qty] /\ r \in Request
    BY <1>4, OrdersAssumption DEF ExecuteMarket, OrdersAssumption
  <2>2. /\ row.parent = NoOrder /\ row.status = "filled" /\ row.filled = row.qty
        /\ row.qty \in Nat
    BY <2>1, QuantityFacts DEF NewRow, Request
  <2>3. \A x \in OrderIds \ S : orders'[x] = orders[x]
    BY <1>0, <2>1
  <2>4. \A x \in S : Unused(x)
    BY <2>1
  <2>6. \A x \in OrderIds \ {o} : traded'[x] = traded[x]
    BY <1>0, <2>1
  <2>7. row.filled <= row.qty
    BY <2>2
  <2> HIDE DEF row
  <2>5. RowsWhole'
    BY <2>1, <2>2, <2>6, <2>7, BirthWhole
  <2> HIDE DEF S
  <2> QED
    BY <2>3, <2>4, <2>5, BirthQty
<1>5. ASSUME NEW o \in OrderIds, NEW sl \in OrderIds, NEW tgt \in OrderIds,
             NEW r \in Requests, QueueBracket(o, sl, tgt, r)
      PROVE  Goal
  <2> DEFINE S == {o, sl, tgt}
  <2>1. \A x \in S : Unused(x)
    BY <1>5 DEF QueueBracket
  <2>2. \A x \in OrderIds \ S : orders'[x] = orders[x]
    BY <1>0, <1>5 DEF QueueBracket
  <2>3. RowsWhole'
    BY <1>5, BracketBirthWhole
  <2> HIDE DEF S
  <2> QED
    BY <2>1, <2>2, <2>3, BirthQty
<1>6. ASSUME NEW o \in OrderIds, Cancel(o)
      PROVE  Goal
  <2>1. ASSUME NEW x \in OrderIds
        PROVE  \/ orders'[x] = orders[x]
               \/ IsLive(x) /\ orders'[x] = [orders[x] EXCEPT !.status = "cancelled"]
    BY <1>6 DEF Cancel
  <2>2. orders[o] \in Row /\ traded' = traded
    BY <1>0, <1>6 DEF Cancel
  <2>3. ASSUME NEW x \in OrderIds
        PROVE  /\ orders'[x].parent = orders[x].parent
               /\ orders'[x].qty = orders[x].qty
               /\ orders'[x].filled = orders[x].filled
               /\ orders'[x].otype = orders[x].otype
               /\ \/ orders'[x].status = orders[x].status
                  \/ IsLive(x) /\ orders'[x].status = "cancelled"
    <3>1. orders[x] \in Row
      BY <1>0
    <3> QED
      BY <2>1, <3>1 DEF Row
  <2>4. QuietRows
    BY <2>2, <2>3 DEF QuietRows
  <2> QED
    BY <1>1, <2>4
<1>7. ASSUME ExpireDay
      PROVE  Goal
  <2>1. ASSUME NEW x \in OrderIds
        PROVE  \/ orders'[x] = orders[x]
               \/ IsLive(x) /\ orders'[x] = [orders[x] EXCEPT !.status = "expired"]
    BY <1>7 DEF ExpireDay, IsLive, Live
  <2>2. traded' = traded
    BY <1>7 DEF ExpireDay
  <2>3. ASSUME NEW x \in OrderIds
        PROVE  /\ orders'[x].parent = orders[x].parent
               /\ orders'[x].qty = orders[x].qty
               /\ orders'[x].filled = orders[x].filled
               /\ orders'[x].otype = orders[x].otype
               /\ \/ orders'[x].status = orders[x].status
                  \/ IsLive(x) /\ orders'[x].status = "expired"
    <3>1. orders[x] \in Row
      BY <1>0
    <3> QED
      BY <2>1, <3>1 DEF Row
  <2>4. QuietRows
    BY <2>2, <2>3 DEF QuietRows
  <2> QED
    BY <1>1, <2>4
<1>8. ASSUME Reset
      PROVE  Goal
  <2>1. \A x \in OrderIds : orders'[x].status \notin Live
    BY <1>0, <1>8, ResetStep DEF Gone, Live
  <2> QED
    BY <1>8, <2>1, ResetWhole DEF QtySteady
<1>9. ASSUME NEW o \in OrderIds, NEW p \in Prices, ClientFires(o, p)
      PROVE  Goal
  <2>1. FillPendingMarket(o, orders[o].qty, p) /\ o \in firing /\ IsLive(o)
    BY <1>9 DEF ClientFires, FillPendingMarket, IsLive, Live
  <2>2. orders[o].qty \in Quantities /\ Ready(o)
    BY <1>0, <2>1 DEF Row, BracketInv, EntriesFire, Ready, Gated
  <2>3. orders[o].otype = "market"
    BY <2>1 DEF WholeInv, LimitInv, SameKind
  <2>4. FillRows(o, orders[o].qty, TRUE)
    BY <2>1, <2>2, <2>3, MarketFillRows
  <2> QED
    BY <1>2, <2>2, <2>3, <2>4
<1>10. ASSUME NEW w \in Watchers, NEW p \in Prices, FillStop(w, p)
      PROVE  Goal
  <2> DEFINE o == claim[w].id
             q == claim[w].qty
  <2>1. /\ claim[w] # NoSnapshot /\ FillPendingMarket(o, q, p) /\ IsLive(o)
        /\ orders[o].status = "pending"
    BY <1>10 DEF FillStop, FillPendingMarket, IsLive, Live
  <2>2. o \in OrderIds /\ q \in Quantities /\ Ready(o)
    BY <1>0, <2>1, ClaimFacts DEF BracketInv, Released
  <2>3. orders[o].otype = "stop_market" /\ q = orders[o].qty
    BY <2>1 DEF WholeInv, LimitInv, SameKind, SnapshotsWhole
  <2> HIDE DEF o, q
  <2>4. FillRows(o, q, TRUE)
    BY <2>1, <2>2, <2>3, MarketFillRows
  <2> QED
    BY <1>2, <2>2, <2>3, <2>4
<1>11. ASSUME NEW w \in Watchers, NEW s \in todo[w], NEW q \in Quantities,
              FillSlice(w, s, q)
       PROVE  Goal
  <2> DEFINE terminal == q = s.qty - s.filled
  <2>1. FillRows(s.id, q, terminal) /\ terminal \in BOOLEAN
    BY <1>11, SliceFillRows
  <2>2. s.id \in OrderIds /\ stage[w] = "limits"
    BY <1>0, <1>11, SnapshotFacts DEF FillSlice
  <2> HIDE DEF terminal
  <2> QED
    BY <1>2, <2>1, <2>2
<1>12. ASSUME NEW w \in Watchers, NEW s \in todo[w], TriggerStopLimit(w, s)
       PROVE  Goal
  <2>1. /\ s.id \in OrderIds /\ orders[s.id].status = "pending"
        /\ orders' = [orders EXCEPT ![s.id].otype = "limit"]
        /\ s.otype = "stop_limit" /\ IsLive(s.id) /\ traded' = traded
    BY <1>0, <1>12, SnapshotFacts DEF TriggerStopLimit, IsLive, Live
  <2>2. orders[s.id].otype \in {"stop_limit", "limit"}
    BY <2>1 DEF WholeInv, LimitInv, SameKind
  <2>3. orders[s.id] \in Row
    BY <1>0, <2>1
  <2>4. /\ orders'[s.id].otype = "limit"
        /\ orders'[s.id].status = orders[s.id].status
        /\ orders'[s.id].parent = orders[s.id].parent
        /\ orders'[s.id].qty = orders[s.id].qty
        /\ orders'[s.id].filled = orders[s.id].filled
        /\ \A x \in OrderIds \ {s.id} : orders'[x] = orders[x]
    BY <1>0, <2>1, <2>3 DEF Row
  <2>5. QuietRows
    BY <2>1, <2>2, <2>4 DEF QuietRows
  <2> QED
    BY <1>1, <2>5
<1>13. ASSUME UNCHANGED table
       PROVE  Goal
  <2>1. QuietRows
    BY <1>13 DEF table, QuietRows
  <2> QED
    BY <1>1, <2>1
<1>14. ASSUME NEW o \in OrderIds, FireAmo(o) \/ ClientGivesUp(o)
       PROVE  Goal
  <2>1. UNCHANGED table
    BY <1>14 DEF FireAmo, ClientGivesUp
  <2> QED
    BY <1>13, <2>1
<1>15. ASSUME NEW w \in Watchers, NEW p \in Prices,
              Pull(w, p) \/ StopNotFilled(w, p)
       PROVE  Goal
  <2>1. UNCHANGED table
    BY <1>15 DEF Pull, StopNotFilled
  <2> QED
    BY <1>13, <2>1
<1>16. ASSUME NEW w \in Watchers, NEW s \in todo[w],
              TriggerStopMarket(w, s) \/ SkipStop(w, s)
       PROVE  Goal
  <2>1. UNCHANGED table
    BY <1>16 DEF TriggerStopMarket, SkipStop
  <2> QED
    BY <1>13, <2>1
<1>17. ASSUME NEW w \in Watchers, NEW s \in todo[w], NEW q \in Quantities,
              SkipLimit(w, s, q)
       PROVE  Goal
  <2>1. UNCHANGED table
    BY <1>17 DEF SkipLimit
  <2> QED
    BY <1>13, <2>1
<1>18. ASSUME NEW w \in Watchers, Repull(w)
       PROVE  Goal
  <2>1. UNCHANGED table
    BY <1>18 DEF Repull
  <2> QED
    BY <1>13, <2>1
<1>19. ASSUME UNCHANGED vars
       PROVE  Goal
  <2>1. UNCHANGED table
    BY <1>19 DEF vars, table
  <2> QED
    BY <1>13, <2>1
<1> HIDE DEF Goal
<1>20. Goal
  BY <1>3, <1>4, <1>5, <1>6, <1>7, <1>8, <1>9, <1>10, <1>11, <1>12, <1>14,
     <1>15, <1>16, <1>17, <1>18, <1>19 DEF Next, ClientStep, WatcherStep
<1> QED
  BY <1>20 DEF Goal

\* With one watcher, what it remembers keeps the quantity of its row.
LEMMA SnapshotsWholeStep ==
  ASSUME WholeInv, [Next]_vars, \A v, w \in Watchers : v = w
  PROVE  SnapshotsWhole'
<1> SUFFICES ASSUME NEW w \in Watchers
             PROVE  /\ stage'[w] = "limits" =>
                         /\ claim'[w] = NoSnapshot
                         /\ \A s \in todo'[w] :
                              /\ s.otype = "limit"
                              /\ orders'[s.id].status \in Live =>
                                   s.qty = orders'[s.id].qty
                    /\ claim'[w] # NoSnapshot
                         /\ orders'[claim'[w].id].status = "pending" =>
                         claim'[w].qty = orders'[claim'[w].id].qty
  BY DEF SnapshotsWhole, IsLive
<1>0. TypeInv /\ BracketInv /\ QtySteady /\ (Kept \/ Reset)
  BY RowsWholeStep, TableInvStep DEF WholeInv, LimitInv, BracketInv
<1>1. ASSUME NEW x \in OrderIds, ~Unused(x), orders'[x].status \in Live
      PROVE  IsLive(x)
  <2>1. ~Reset
    BY <1>0, <1>1, ResetStep DEF Gone, Live
  <2> QED
    BY <1>0, <1>1, <2>1 DEF Kept, IsLive
<1>2. OldTodo(w) \/ FreshTodo(w)
  BY <1>0, TodoStep
<1>3. \/ claim'[w] \in {claim[w], NoSnapshot}
      \/ \E s \in todo[w] : /\ claim'[w].id = s.id /\ s.otype = "stop_market"
                            /\ claim'[w] = SnapshotOf(s.id)
                            /\ stage[w] = "stops" /\ stage'[w] = "stops"
                            /\ UNCHANGED orders
  BY <1>0, ClaimStep
<1>4. ASSUME stage'[w] = "limits"
      PROVE  claim'[w] = NoSnapshot
  <2>1. CASE FreshTodo(w)
    BY <2>1 DEF FreshTodo
  <2>2. CASE OldTodo(w)
    BY <1>3, <1>4, <2>2 DEF OldTodo, WholeInv, SnapshotsWhole
  <2> QED
    BY <1>2, <2>1, <2>2
<1>5. ASSUME stage'[w] = "limits", NEW s \in todo'[w]
      PROVE  /\ s.otype = "limit"
             /\ orders'[s.id].status \in Live => s.qty = orders'[s.id].qty
  <2>1. CASE FreshTodo(w)
    BY <1>5, <2>1 DEF FreshTodo, SnapshotOf
  <2>2. CASE OldTodo(w)
    <3>1. s \in todo[w] /\ stage[w] = "limits"
      BY <1>5, <2>2 DEF OldTodo
    <3>2. s.otype = "limit"
      BY <3>1 DEF WholeInv, SnapshotsWhole
    <3>3. s.id \in OrderIds /\ ~Unused(s.id)
      BY <1>0, <3>1, SnapshotFacts DEF BracketInv, Released, Ready
    <3>4. ASSUME orders'[s.id].status \in Live
          PROVE  s.qty = orders'[s.id].qty
      <4>1. IsLive(s.id)
        BY <1>1, <3>3, <3>4
      <4>2. orders[s.id].otype = "limit" /\ s.qty = orders[s.id].qty
        BY <3>1, <3>2, <4>1 DEF WholeInv, LimitInv, SameKind, SnapshotsWhole
      <4> QED
        BY <1>0, <3>3, <3>4, <4>2 DEF QtySteady
    <3> QED
      BY <3>2, <3>4
  <2> QED
    BY <1>2, <2>1, <2>2
<1>6. ASSUME claim'[w] # NoSnapshot, orders'[claim'[w].id].status = "pending"
      PROVE  claim'[w].qty = orders'[claim'[w].id].qty
  <2>1. CASE claim'[w] = claim[w]
    <3>1. claim[w].id \in OrderIds /\ ~Unused(claim[w].id)
      BY <1>0, <1>6, <2>1, ClaimFacts DEF BracketInv, Released, Ready
    <3>2. /\ orders[claim[w].id].status = "pending"
          /\ \/ orders'[claim[w].id].qty = orders[claim[w].id].qty
             \/ \E v \in Watchers : stage[v] = "limits"
      BY <1>0, <1>6, <2>1, <3>1 DEF QtySteady, Live
    <3>3. stage[w] # "limits"
      BY <1>6, <2>1 DEF WholeInv, SnapshotsWhole
    <3>4. orders'[claim[w].id].qty = orders[claim[w].id].qty
      BY <3>2, <3>3
    <3>5. claim[w].qty = orders[claim[w].id].qty
      BY <1>6, <2>1, <3>2 DEF WholeInv, SnapshotsWhole
    <3> QED
      BY <2>1, <3>4, <3>5
  <2>2. ASSUME NEW s \in todo[w], claim'[w].id = s.id,
               claim'[w] = SnapshotOf(s.id), UNCHANGED orders
        PROVE  claim'[w].qty = orders'[claim'[w].id].qty
    BY <2>2 DEF SnapshotOf
  <2> QED
    BY <1>3, <1>6, <2>1, <2>2
<1> QED
  BY <1>4, <1>5, <1>6

\* The invariant of quantities holds of a new account ...
LEMMA WholeInvInit == Init => WholeInv
<1> SUFFICES ASSUME Init PROVE WholeInv
  OBVIOUS
<1>1. /\ Blank("unused").status = "unused" /\ Blank("unused").filled = 0
      /\ Blank("unused").parent = NoOrder
      /\ Blank("unused").qty \in Nat
  <2>1. (CHOOSE q \in Quantities : TRUE) \in Quantities
    BY OrdersAssumption DEF OrdersAssumption
  <2> QED
    BY <2>1, QuantityFacts DEF Blank
<1>2. RowsWhole
  BY <1>1 DEF Init, RowsWhole, Pairs, PartsAreLimits, Fits, StatusMatchesFill,
     ExitsFit
<1>3. SnapshotsWhole
  BY DEF Init, SnapshotsWhole
<1> QED
  BY <1>2, <1>3, LimitInvInit, FillInvInit DEF WholeInv

\* ... and one watcher and its clients keep it.
LEMMA WholeInvStep ==
  ASSUME WholeInv, [Next]_vars, \A v, w \in Watchers : v = w
  PROVE  WholeInv'
<1>1. LimitInv'
  BY LimitInvStep DEF WholeInv
<1>2. FillInv'
  BY BracketInvStep, RowsAgreeStep, CurrentStep DEF FillInv, RowsAgree, WholeInv
<1> QED
  BY <1>1, <1>2, RowsWholeStep, SnapshotsWholeStep DEF WholeInv

\* The invariant of quantities is one of the whole specification.
LEMMA WholeInvHolds ==
  ASSUME \A v, w \in Watchers : v = w
  PROVE  Spec => []WholeInv
<1>1. WholeInv /\ [Next]_vars => WholeInv'
  BY WholeInvStep
<1> QED
  BY <1>1, WholeInvInit, PTL DEF Spec

\* With at most one watcher the status of a row always agrees with what was
\* filled of it: FILLED is all of its quantity, also after the other exit
\* shrank it, and a live row still has something to fill.
THEOREM OneWatcherStatusMatchesFill ==
  ASSUME \A v, w \in Watchers : v = w
  PROVE  Spec => []StatusMatchesFill
<1>1. WholeInv => StatusMatchesFill
  BY DEF WholeInv, RowsWhole, Fits
<1> QED
  BY <1>1, WholeInvHolds, PTL

\* The children of an entry are two: one target, one stop-loss.
LEMMA ChildrenArePair ==
  ASSUME WholeInv, NEW o \in OrderIds, NEW c \in Children(o)
  PROVE  \E s \in Siblings(c) : /\ Children(o) = {c, s} /\ c # s
                                /\ s \in OrderIds /\ orders[s].parent = o
                                /\ orders[c].otype # orders[s].otype
                                /\ c \in Siblings(s)
<1>1. c \in OrderIds /\ orders[c].parent = o /\ o # NoOrder
  BY OrdersAssumption DEF Children, OrdersAssumption
<1>2. PICK s \in Siblings(c) : TRUE
  BY <1>1 DEF WholeInv, RowsWhole, Pairs
<1>3. /\ Siblings(c) = {s} /\ s \in OrderIds /\ s # c
      /\ orders[s].parent = o /\ c \in Siblings(s)
      /\ orders[s].otype # orders[c].otype
  BY <1>1, <1>2, OneSibling DEF WholeInv, RowsWhole
<1>4. Children(o) = {c, s}
  BY <1>1, <1>3 DEF Children, Siblings
<1> QED
  BY <1>3, <1>4

\* With at most one watcher the exits of a bracket never trade more than its
\* entry did, whatever is cancelled, expired or reset between their fills.
THEOREM OneWatcherExitsCovered ==
  ASSUME \A v, w \in Watchers : v = w
  PROVE  Spec => []ExitsCovered
<1>1. ASSUME WholeInv, NEW o \in OrderIds, NEW c \in Children(o)
      PROVE  TradedBy(Children(o)) <= traded[o]
  <2>1. PICK s \in Siblings(c) : /\ Children(o) = {c, s} /\ c # s
                                 /\ s \in OrderIds /\ orders[s].parent = o
                                 /\ orders[c].otype # orders[s].otype
                                 /\ c \in Siblings(s)
    BY <1>1, ChildrenArePair
  <2>2. /\ c \in OrderIds /\ orders[c].parent = o /\ o # NoOrder
        /\ traded \in [OrderIds -> Nat]
    BY <1>1, OrdersAssumption
    DEF Children, OrdersAssumption, WholeInv, LimitInv, BracketInv, TypeInv, TypeOK
  <2>3. traded[c] \in Nat /\ traded[s] \in Nat /\ traded[o] \in Nat
    BY <2>1, <2>2
  <2>4. TradedBy(Children(o)) = traded[c] + traded[s]
    BY <2>1, <2>2, <2>3, SumOfTwo DEF TradedBy
  <2>5. traded[c] + traded[s] <= orders[o].qty
    <3>1. orders[c].otype = "stop_market" \/ orders[s].otype = "stop_market"
      BY <1>1, <2>1, <2>2 DEF WholeInv, RowsWhole, Pairs
    <3>2. orders[c].otype = "stop_market" => traded[c] + traded[s] <= orders[o].qty
      BY <1>1, <2>1, <2>2 DEF WholeInv, RowsWhole, ExitsFit
    <3>3. orders[s].otype = "stop_market" => traded[s] + traded[c] <= orders[o].qty
      BY <1>1, <2>1, <2>2 DEF WholeInv, RowsWhole, ExitsFit
    <3> QED
      BY <2>3, <3>1, <3>2, <3>3
  <2>6. CASE traded[c] = 0 /\ traded[s] = 0
    BY <2>3, <2>4, <2>6
  <2>7. CASE traded[c] > 0 \/ traded[s] > 0
    <3>1. orders[o].status = "filled"
      BY <1>1, <2>1, <2>2, <2>7
      DEF WholeInv, LimitInv, BracketInv, TableInv, ChildrenWait
    <3>2. orders[o].qty = traded[o]
      BY <1>1, <3>1
      DEF WholeInv, RowsWhole, Fits, StatusMatchesFill, FillInv, FillsMatchTrades
    <3> QED
      BY <2>4, <2>5, <3>2
  <2> QED
    BY <2>3, <2>6, <2>7
<1>2. WholeInv => ExitsCovered
  BY <1>1 DEF ExitsCovered
<1> QED
  BY <1>2, WholeInvHolds, PTL

\* With at most one watcher a live stop-loss of a filled entry is for exactly
\* the shares that its target has not sold yet.
THEOREM OneWatcherStopCoversRest ==
  ASSUME \A v, w \in Watchers : v = w
  PROVE  Spec => []StopCoversRest
<1>1. ASSUME WholeInv, NEW o \in OrderIds, orders[o].otype = "stop_market",
             IsLive(o), orders[o].parent # NoOrder,
             orders[orders[o].parent].status = "filled"
      PROVE  orders[o].qty = traded[orders[o].parent] - TradedBy(Siblings(o))
  <2> DEFINE e == orders[o].parent
  <2>1. e \in OrderIds /\ traded \in [OrderIds -> Nat]
    BY <1>1, WholeTypes
    DEF WholeInv, LimitInv, BracketInv, TypeInv, TypeOK
  <2>2. PICK s \in Siblings(o) : TRUE
    BY <1>1 DEF WholeInv, RowsWhole, Pairs
  <2>3. Siblings(o) = {s} /\ s \in OrderIds
    BY <1>1, <2>2, OneSibling DEF WholeInv, RowsWhole
  <2>4. TradedBy(Siblings(o)) = traded[s] /\ traded[s] \in Nat
    BY <2>1, <2>3, SumOfOne DEF TradedBy
  <2>5. orders[o].qty + traded[s] = orders[e].qty
    BY <1>1, <2>2 DEF WholeInv, RowsWhole, ExitsFit
  <2>6. orders[e].qty = traded[e]
    BY <1>1, <2>1
    DEF WholeInv, RowsWhole, Fits, StatusMatchesFill, FillInv, FillsMatchTrades
  <2>7. orders[o].qty \in Nat
    BY <1>1, WholeTypes DEF WholeInv, LimitInv
  <2> QED
    BY <2>1, <2>4, <2>5, <2>6, <2>7
<1>2. WholeInv => StopCoversRest
  BY <1>1 DEF StopCoversRest
<1> QED
  BY <1>2, WholeInvHolds, PTL


=============================================================================
