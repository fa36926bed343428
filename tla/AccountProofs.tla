---------------------------- MODULE AccountProofs ----------------------------
(****************************************************************************)
(* Module Account proved for every set of quantities, prices, fees, opening *)
(* balances and corporate-action ratios: the books balance after any        *)
(* sequence of fills, dividends, splits, bonuses, rights issues and resets. *)
(****************************************************************************)
EXTENDS Account, TLAPS

-----------------------------------------------------------------------------
(* Arithmetic *)

\* A quotient stays between two multiples of its divisor.
LEMMA DivBounds ==
  ASSUME NEW a \in Nat, NEW b \in Nat \ {0}
  PROVE  /\ a \div b \in Nat
         /\ b * (a \div b) <= a
         /\ a < b * (a \div b) + b
  BY SMT

\* A positive factor may be cancelled from an inequality.
LEMMA CancelLess ==
  ASSUME NEW b \in Nat \ {0}, NEW x \in Int, NEW y \in Int, b * x < b * y
  PROVE  x < y
  BY SMT

\* A positive factor on both sides of an inequality cancels.
LEMMA CancelLeq ==
  ASSUME NEW b \in Nat \ {0}, NEW x \in Int, NEW y \in Int, b * x <= b * y
  PROVE  x <= y
  BY SMT

\* The cost of q shares out of the position: never more than the basis, all
\* of it when every share goes, less than it when some stay (state.py
\* 355-372: the average of the remaining shares is kept).
LEMMA CostOfBounds ==
  ASSUME TypeOK, NEW q \in Nat \ {0}, q <= shares
  PROVE  /\ CostOf(q) \in Nat
         /\ CostOf(q) <= basis
         /\ q = shares => CostOf(q) = basis
         /\ q < shares /\ basis > 0 => CostOf(q) < basis
<1> DEFINE d == (basis * q) \div shares
<1>1. basis \in Nat /\ shares \in Nat \ {0} /\ basis * q \in Nat
  BY SMT DEF TypeOK
<1>2. d \in Nat /\ shares * d <= basis * q /\ basis * q < shares * d + shares
  BY <1>1, DivBounds
<1>3. basis * q <= shares * basis
  BY <1>1, SMT
<1>4. d <= basis
  <2>1. shares * d <= shares * basis
    BY <1>1, <1>2, <1>3, SMT
  <2> QED
    BY <1>1, <1>2, <2>1, CancelLeq
<1>5. q = shares => d = basis
  <2> SUFFICES ASSUME q = shares PROVE d = basis
    OBVIOUS
  <2>1. shares * basis < shares * (d + 1)
    BY <1>1, <1>2, SMT
  <2>2. basis < d + 1
    BY <1>1, <1>2, <2>1, CancelLess
  <2> QED
    BY <1>1, <1>2, <1>4, <2>2, SMT
<1>6. q < shares /\ basis > 0 => d < basis
  <2> SUFFICES ASSUME q < shares, basis > 0 PROVE d < basis
    OBVIOUS
  <2>1. basis * q < shares * basis
    BY <1>1, SMT
  <2>2. shares * d < shares * basis
    BY <1>1, <1>2, <2>1, SMT
  <2> QED
    BY <1>1, <1>2, <2>2, CancelLess
<1> QED
  BY <1>2, <1>4, <1>5, <1>6 DEF CostOf

\* The parameters of the steps, typed once.
LEMMA Parameters ==
  ASSUME NEW q \in Quantities, NEW p \in Prices
  PROVE  /\ q \in Nat \ {0} /\ p \in Nat \ {0}
         /\ q * p \in Nat \ {0}
         /\ Fee["buy"][q][p] \in Nat /\ Fee["sell"][q][p] \in Nat
<1>1. q \in Nat \ {0} /\ p \in Nat \ {0}
  BY AccountAssumption DEF AccountAssumption
<1>2. Fee["buy"][q][p] \in Nat /\ Fee["sell"][q][p] \in Nat
  BY AccountAssumption DEF AccountAssumption
<1> QED
  BY <1>1, <1>2, SMT


-----------------------------------------------------------------------------
(* What each operation does to the books.  Split and Bonus are both Rescale. *)

\* The books that _ensure_account_exists and reset write: the opening
\* balance as initial capital and nothing else.
LEMMA OpeningBooks ==
  ASSUME NEW c \in Int
  PROVE  /\ Opening(c) \in [Reasons -> Int]
         /\ Opening(c)["initial_capital"] = c
         /\ \A r \in Reasons \ {"initial_capital"} : Opening(c)[r] = 0
  BY DEF Opening, Reasons

\* A reset starts from a natural number, a new capital or the old balance.
LEMMA CapitalsAreNat ==
  ASSUME TypeOK, NEW c \in Capitals \cup {cash}
  PROVE  c \in Nat
  BY AccountAssumption DEF AccountAssumption, TypeOK

\* A split and a bonus are both a rescaling by a positive fraction.
LEMMA RescaleCases ==
  ASSUME NEW r \in Ratios, Split(r) \/ Bonus(r)
  PROVE  \E num, den \in Nat \ {0} : Rescale(num, den)
<1>1. r[1] \in Nat \ {0} /\ r[2] \in Nat \ {0}
  BY AccountAssumption DEF AccountAssumption
<1>2. r[1] + r[2] \in Nat \ {0}
  BY <1>1, SMT
<1> QED
  BY <1>1, <1>2 DEF Split, Bonus

\* What a rights issue does, as one purchase of a positive number of shares
\* that the cash suffices for (rights.py 103-146).
LEMMA RightsFacts ==
  ASSUME TypeOK, NEW r \in Ratios, NEW p \in Prices, Rights(r, p)
  PROVE  \E new \in Nat \ {0} :
           /\ new * p \in Nat \ {0} /\ new * p <= cash
           /\ cash' = cash - new * p
           /\ ledger' = [ledger EXCEPT !["adjustment"] = @ - new * p]
           /\ shares' = shares + new
           /\ basis' = basis + new * p
           /\ realized' = realized
<1> DEFINE new == (shares * r[1]) \div r[2]
<1>1. r[1] \in Nat \ {0} /\ r[2] \in Nat \ {0} /\ p \in Nat \ {0}
  BY AccountAssumption DEF AccountAssumption
<1>2. shares * r[1] \in Nat
  BY <1>1, SMT DEF TypeOK
<1>3. new \in Nat
  BY <1>1, <1>2, DivBounds
<1>4. new > 0
  BY DEF Rights
<1>5. new \in Nat \ {0} /\ new * p \in Nat \ {0}
  BY <1>1, <1>3, <1>4, SMT
<1> QED
  BY <1>5 DEF Rights

\* What a purchase does to the books, whatever the price model and the fee
\* schedule made of it (state.py apply_buy).
LEMMA BuyForKeeps ==
  ASSUME TypeOK, NEW q \in Nat \ {0}, NEW principal \in Nat \ {0},
         NEW fee \in Nat, BuyFor(q, principal, fee)
  PROVE  /\ TypeOK'
         /\ CashIsLedger => CashIsLedger'
         /\ EquityConserved => EquityConserved'
         /\ BasisIffShares'
<1> USE DEF BuyFor
<1>1. TypeOK'
  BY DEF TypeOK, CanBuyFor, Reasons
<1>2. CashIsLedger => CashIsLedger'
  BY DEF TypeOK, Reasons, CashIsLedger, LedgerSum
<1>3. EquityConserved => EquityConserved'
  BY DEF TypeOK, Reasons, EquityConserved
<1>4. BasisIffShares'
  BY DEF TypeOK, BasisIffShares
<1> QED
  BY <1>1, <1>2, <1>3, <1>4

\* What a sale does to the books; the proceeds may even be zero (state.py
\* apply_sell).
LEMMA SellForKeeps ==
  ASSUME TypeOK, NEW q \in Nat \ {0}, NEW principal \in Nat,
         NEW fee \in Nat, SellFor(q, principal, fee)
  PROVE  /\ TypeOK'
         /\ CashIsLedger => CashIsLedger'
         /\ EquityConserved => EquityConserved'
         /\ BasisIffShares => BasisIffShares'
<1>1. q <= shares /\ cash + principal - fee >= 0
  BY DEF SellFor, CanSellFor
<1>2. /\ CostOf(q) \in Nat
      /\ CostOf(q) <= basis
      /\ q = shares => CostOf(q) = basis
      /\ q < shares /\ basis > 0 => CostOf(q) < basis
  BY <1>1, CostOfBounds
<1>3. /\ cash' = cash + principal - fee
      /\ realized' = realized + (principal - CostOf(q)) - fee
      /\ ledger' = [ledger EXCEPT !["sell_principal"] = @ + principal,
                                  !["sell_fees"] = @ - fee]
      /\ shares' = shares - q
      /\ basis' = basis - CostOf(q)
  BY DEF SellFor
<1>4. TypeOK'
  BY <1>1, <1>2, <1>3 DEF TypeOK, Reasons
<1>5. CashIsLedger => CashIsLedger'
  BY <1>3 DEF TypeOK, Reasons, CashIsLedger, LedgerSum
<1>6. EquityConserved => EquityConserved'
  BY <1>2, <1>3 DEF TypeOK, Reasons, EquityConserved
<1>7. BasisIffShares => BasisIffShares'
  BY <1>1, <1>2, <1>3 DEF TypeOK, BasisIffShares
<1> QED
  BY <1>4, <1>5, <1>6, <1>7

-----------------------------------------------------------------------------
(* Type correctness: neither cash nor the holding nor its cost can become   *)
(* negative.                                                                *)

\* Every operation keeps the account well typed.
LEMMA TypeStep ==
  ASSUME TypeOK, [Next]_vars
  PROVE  TypeOK'
<1>1. ASSUME NEW q \in Quantities, NEW p \in Prices, Buy(q, p)
      PROVE  TypeOK'
  BY <1>1, Parameters, BuyForKeeps DEF Buy
<1>2. ASSUME NEW q \in Quantities, NEW p \in Prices, Sell(q, p)
      PROVE  TypeOK'
  BY <1>2, Parameters, SellForKeeps DEF Sell
<1>3. ASSUME NEW d \in Prices, Dividend(d)
      PROVE  TypeOK'
  <2>1. shares * d \in Nat
    BY AccountAssumption, SMT DEF AccountAssumption, TypeOK
  <2> QED
    BY <1>3, <2>1 DEF TypeOK, Dividend, Reasons
<1>4. ASSUME NEW r \in Ratios, Split(r) \/ Bonus(r)
      PROVE  TypeOK'
  <2>1. PICK num, den \in Nat \ {0} : Rescale(num, den)
    BY <1>4, RescaleCases
  <2>2. shares * num \in Nat
    BY SMT DEF TypeOK
  <2> QED
    BY <2>1, <2>2 DEF TypeOK, Rescale
<1>5. ASSUME NEW r \in Ratios, NEW p \in Prices, Rights(r, p)
      PROVE  TypeOK'
  BY <1>5, RightsFacts DEF TypeOK, Reasons
<1>6. ASSUME NEW c \in Capitals \cup {cash}, Reset(c)
      PROVE  TypeOK'
  BY <1>6, CapitalsAreNat, OpeningBooks DEF TypeOK, Reset
<1>7. CASE UNCHANGED vars
  BY <1>7 DEF TypeOK, vars
<1> QED
  BY <1>1, <1>2, <1>3, <1>4, <1>5, <1>6, <1>7 DEF Next

\* A new account is well typed.
LEMMA TypeInit == Init => TypeOK
  BY AccountAssumption, OpeningBooks DEF AccountAssumption, Init, TypeOK

\* The account is well typed in every reachable state: in particular cash is
\* never negative, whatever orders, corporate actions and resets do to it.
THEOREM AccountTypeOK == Spec => []TypeOK
<1>1. TypeOK /\ [Next]_vars => TypeOK'
  BY TypeStep
<1> QED
  BY TypeInit, <1>1, PTL DEF Spec

-----------------------------------------------------------------------------
(* The ledger explains the balance. *)

\* Every operation books each change of the balance as a movement.
LEMMA CashStep ==
  ASSUME TypeOK, CashIsLedger, [Next]_vars
  PROVE  CashIsLedger'
<1> USE DEF CashIsLedger, LedgerSum
<1>1. ASSUME NEW q \in Quantities, NEW p \in Prices, Buy(q, p)
      PROVE  CashIsLedger'
  BY <1>1, Parameters, BuyForKeeps DEF Buy
<1>2. ASSUME NEW q \in Quantities, NEW p \in Prices, Sell(q, p)
      PROVE  CashIsLedger'
  BY <1>2, Parameters, SellForKeeps DEF Sell
<1>3. ASSUME NEW d \in Prices, Dividend(d)
      PROVE  CashIsLedger'
  <2>1. shares * d \in Nat
    BY AccountAssumption, SMT DEF AccountAssumption, TypeOK
  <2> QED
    BY <1>3, <2>1 DEF TypeOK, Dividend, Reasons
<1>4. ASSUME NEW r \in Ratios, Split(r) \/ Bonus(r)
      PROVE  CashIsLedger'
  BY <1>4, RescaleCases DEF Rescale
<1>5. ASSUME NEW r \in Ratios, NEW p \in Prices, Rights(r, p)
      PROVE  CashIsLedger'
  BY <1>5, RightsFacts DEF TypeOK, Reasons
<1>6. ASSUME NEW c \in Capitals \cup {cash}, Reset(c)
      PROVE  CashIsLedger'
  BY <1>6, CapitalsAreNat, OpeningBooks DEF Reset, Reasons
<1>7. CASE UNCHANGED vars
  BY <1>7 DEF vars
<1> QED
  BY <1>1, <1>2, <1>3, <1>4, <1>5, <1>6, <1>7 DEF Next

\* The sum of the cash movements is the balance, after any history.
THEOREM AccountCashIsLedger == Spec => []CashIsLedger
<1>1. Init => CashIsLedger
  BY AccountAssumption, OpeningBooks
  DEF AccountAssumption, Init, CashIsLedger, LedgerSum, Reasons
<1>2. TypeOK /\ CashIsLedger /\ [Next]_vars => CashIsLedger'
  BY CashStep
<1> QED
  BY <1>1, <1>2, AccountTypeOK, PTL DEF Spec

-----------------------------------------------------------------------------
(* Trading neither makes nor loses money. *)

\* Every operation moves value between cash, basis and realized P&L only.
LEMMA EquityStep ==
  ASSUME TypeOK, EquityConserved, [Next]_vars
  PROVE  EquityConserved'
<1> USE DEF EquityConserved
<1>1. ASSUME NEW q \in Quantities, NEW p \in Prices, Buy(q, p)
      PROVE  EquityConserved'
  BY <1>1, Parameters, BuyForKeeps DEF Buy
<1>2. ASSUME NEW q \in Quantities, NEW p \in Prices, Sell(q, p)
      PROVE  EquityConserved'
  BY <1>2, Parameters, SellForKeeps DEF Sell
<1>3. ASSUME NEW d \in Prices, Dividend(d)
      PROVE  EquityConserved'
  <2>1. shares * d \in Nat
    BY AccountAssumption, SMT DEF AccountAssumption, TypeOK
  <2> QED
    BY <1>3, <2>1 DEF TypeOK, Dividend, Reasons
<1>4. ASSUME NEW r \in Ratios, Split(r) \/ Bonus(r)
      PROVE  EquityConserved'
  BY <1>4, RescaleCases DEF Rescale
<1>5. ASSUME NEW r \in Ratios, NEW p \in Prices, Rights(r, p)
      PROVE  EquityConserved'
  BY <1>5, RightsFacts DEF TypeOK, Reasons
<1>6. ASSUME NEW c \in Capitals \cup {cash}, Reset(c)
      PROVE  EquityConserved'
  BY <1>6, CapitalsAreNat, OpeningBooks DEF Reset, Reasons
<1>7. CASE UNCHANGED vars
  BY <1>7 DEF vars
<1> QED
  BY <1>1, <1>2, <1>3, <1>4, <1>5, <1>6, <1>7 DEF Next

\* Cash plus the cost of the holding is what was paid in, paid out on the
\* holding and realized: every fee is counted exactly once.
THEOREM AccountEquityConserved == Spec => []EquityConserved
<1>1. Init => EquityConserved
  BY AccountAssumption, OpeningBooks
  DEF AccountAssumption, Init, EquityConserved, Reasons
<1>2. TypeOK /\ EquityConserved /\ [Next]_vars => EquityConserved'
  BY EquityStep
<1> QED
  BY <1>1, <1>2, AccountTypeOK, PTL DEF Spec

-----------------------------------------------------------------------------
(* The holding and its cost vanish together. *)

\* No operation leaves shares without cost or cost without shares.
LEMMA BasisStep ==
  ASSUME TypeOK, BasisIffShares, [Next]_vars
  PROVE  BasisIffShares'
<1> USE DEF BasisIffShares
<1>1. ASSUME NEW q \in Quantities, NEW p \in Prices, Buy(q, p)
      PROVE  BasisIffShares'
  BY <1>1, Parameters, BuyForKeeps DEF Buy
<1>2. ASSUME NEW q \in Quantities, NEW p \in Prices, Sell(q, p)
      PROVE  BasisIffShares'
  BY <1>2, Parameters, SellForKeeps DEF Sell
<1>3. ASSUME NEW d \in Prices, Dividend(d)
      PROVE  BasisIffShares'
  BY <1>3 DEF Dividend
<1>4. ASSUME NEW r \in Ratios, Split(r) \/ Bonus(r)
      PROVE  BasisIffShares'
  <2>1. PICK num, den \in Nat \ {0} : Rescale(num, den)
    BY <1>4, RescaleCases
  <2>2. shares * num \in Nat
    BY SMT DEF TypeOK
  <2> QED
    BY <2>1, <2>2 DEF TypeOK, Rescale
<1>5. ASSUME NEW r \in Ratios, NEW p \in Prices, Rights(r, p)
      PROVE  BasisIffShares'
  BY <1>5, RightsFacts DEF TypeOK
<1>6. ASSUME NEW c \in Capitals \cup {cash}, Reset(c)
      PROVE  BasisIffShares'
  BY <1>6 DEF Reset
<1>7. CASE UNCHANGED vars
  BY <1>7 DEF vars
<1> QED
  BY <1>1, <1>2, <1>3, <1>4, <1>5, <1>6, <1>7 DEF Next

\* Shares are held exactly when they have a cost: the row's CHECK
\* avg_cost > 0 cannot fail and a closed position leaves nothing behind.
THEOREM AccountBasisIffShares == Spec => []BasisIffShares
<1>1. Init => BasisIffShares
  BY DEF Init, BasisIffShares
<1>2. TypeOK /\ BasisIffShares /\ [Next]_vars => BasisIffShares'
  BY BasisStep
<1> QED
  BY <1>1, <1>2, AccountTypeOK, PTL DEF Spec
=============================================================================
