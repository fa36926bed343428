------------------------------- MODULE Account -------------------------------
(****************************************************************************)
(* The money side of one brokerage account: the row of table "account"      *)
(* (cash, realized_pl_total), the append-only ledger "cash_movements" and   *)
(* the row of table "positions" for the traded symbol.  One action stands   *)
(* for one committed database transaction of orders/state.py, of            *)
(* corporate_actions/ or of broker.reset.                                   *)
(*                                                                          *)
(* Abstractions.                                                            *)
(*  - Money is counted in whole units, share counts are whole.  The code    *)
(*    stores qty and avg_cost; the module stores qty and                    *)
(*    basis = qty * avg_cost, so that the one inexact operation, the cost   *)
(*    of the shares that a partial sell takes out, is a named division      *)
(*    (CostOf) as it is a floating-point product in the code.               *)
(*  - One symbol: every operation touches one row of "positions"; symbols   *)
(*    meet only in cash.                                                    *)
(*  - The ledger is kept as one running sum per reason, which is all that   *)
(*    its readers (cash_sum, verify_cash_invariant) look at.                *)
(*  - A result with a fraction of a share (a split that does not divide     *)
(*    the holding) is left out.                                             *)
(*  - BuyFor and SellFor take any principal and any fee: module Execution   *)
(*    computes them as the code does, Orders takes whole prices.            *)
(****************************************************************************)
EXTENDS Integers

CONSTANTS
  Quantities,   \* share quantities that one fill may have
  Prices,       \* prices a fill, a dividend or a rights issue may have
  Fee,          \* Fee[side][qty][price]: total fees of a fill
  Capitals,     \* opening balances
  Ratios        \* <<num, den>> of splits, bonuses and rights issues

ASSUME AccountAssumption ==
  /\ Quantities \subseteq Nat \ {0}
  /\ Prices \subseteq Nat \ {0}
  /\ Fee \in [{"buy", "sell"} -> [Quantities -> [Prices -> Nat]]]
  /\ Capitals \subseteq Nat
  /\ Ratios \subseteq (Nat \ {0}) \X (Nat \ {0})

VARIABLES
  cash,         \* account.cash
  realized,     \* account.realized_pl_total
  ledger,       \* sum of cash_movements.amount per reason
  shares,       \* positions.qty; 0 when there is no row
  basis         \* positions.qty * positions.avg_cost; 0 when there is no row

vars == <<cash, realized, ledger, shares, basis>>

Reasons == {"initial_capital", "buy_principal", "buy_fees", "sell_principal",
            "sell_fees", "dividend", "adjustment"}

TypeOK ==
  /\ cash \in Nat
  /\ realized \in Int
  /\ ledger \in [Reasons -> Int]
  /\ shares \in Nat
  /\ basis \in Nat

\* The ledger of an account whose only movement is its opening deposit.
Opening(c) == [r \in Reasons |-> IF r = "initial_capital" THEN c ELSE 0]

\* cash_sum: the sum of all movements.
LedgerSum ==
  ledger["initial_capital"] + ledger["buy_principal"] + ledger["buy_fees"]
    + ledger["sell_principal"] + ledger["sell_fees"]
    + ledger["dividend"] + ledger["adjustment"]

\* Mutant of CostOf: a partial sell takes the cost of the whole position.
CostOfAll(q) == basis

\* avg_cost * q: what the q shares taken out of the position had cost.
CostOf(q) == (basis * q) \div shares

Init ==
  \E c \in Capitals :
    /\ cash = c
    /\ realized = 0
    /\ ledger = Opening(c)
    /\ shares = 0
    /\ basis = 0

-----------------------------------------------------------------------------
(* orders/state.py *)

\* apply_buy raises InsufficientFundsError otherwise.
CanBuyFor(q, principal, fee) == principal + fee <= cash

\* Mutant of BuyFor: the fees do not enter the average cost.
BuyFeesOutsideBasis(q, principal, fee) ==
  /\ CanBuyFor(q, principal, fee)
  /\ cash' = cash - (principal + fee)
  /\ ledger' = [ledger EXCEPT !["buy_principal"] = @ - principal,
                              !["buy_fees"] = @ - fee]
  /\ shares' = shares + q
  /\ basis' = basis + principal
  /\ UNCHANGED realized

\* apply_buy: the fill costs principal plus fees; both enter the basis.
BuyFor(q, principal, fee) ==
  /\ CanBuyFor(q, principal, fee)
  /\ cash' = cash - (principal + fee)
  /\ ledger' = [ledger EXCEPT !["buy_principal"] = @ - principal,
                              !["buy_fees"] = @ - fee]
  /\ shares' = shares + q
  /\ basis' = basis + principal + fee
  /\ UNCHANGED realized

\* apply_sell raises InsufficientSharesError when fewer shares are held; that
\* the fees do not overdraw the account is a CHECK of the table.
CanSellFor(q, principal, fee) ==
  /\ q <= shares
  /\ cash + principal - fee >= 0

\* apply_sell: realizes (price - avg_cost) * qty - fees; the average of the
\* shares that stay is unchanged.
SellFor(q, principal, fee) ==
  /\ CanSellFor(q, principal, fee)
  /\ cash' = cash + principal - fee
  /\ realized' = realized + (principal - CostOf(q)) - fee
  /\ ledger' = [ledger EXCEPT !["sell_principal"] = @ + principal,
                              !["sell_fees"] = @ - fee]
  /\ shares' = shares - q
  /\ basis' = basis - CostOf(q)

\* A fill at a whole price, with the fees of the constant Fee.
CanBuy(q, p) == CanBuyFor(q, q * p, Fee["buy"][q][p])
CanSell(q, p) == CanSellFor(q, q * p, Fee["sell"][q][p])
Buy(q, p) == BuyFor(q, q * p, Fee["buy"][q][p])
Sell(q, p) == SellFor(q, q * p, Fee["sell"][q][p])

-----------------------------------------------------------------------------
(* corporate_actions/ *)

\* dividends.apply: credits the holding; no holding, no credit.
Dividend(d) ==
  /\ shares > 0
  /\ cash' = cash + shares * d
  /\ ledger' = [ledger EXCEPT !["dividend"] = @ + shares * d]
  /\ UNCHANGED <<realized, shares, basis>>

\* The holding becomes num/den of what it was; its basis is preserved.
Rescale(num, den) ==
  /\ shares > 0
  /\ \E n \in 1..(shares * num) : n * den = shares * num /\ shares' = n
  /\ UNCHANGED <<cash, realized, ledger, basis>>

\* splits.apply
Split(ratio) == Rescale(ratio[1], ratio[2])

\* bonus.apply: num new shares for every den held.
Bonus(ratio) == Rescale(ratio[1] + ratio[2], ratio[2])

\* rights.apply with subscribe=True: the entitlement is rounded down and
\* paid from cash.  Lapsed or empty rights change nothing.
Rights(ratio, p) ==
  LET new == (shares * ratio[1]) \div ratio[2] IN
  /\ new > 0
  /\ new * p <= cash
  /\ cash' = cash - new * p
  /\ ledger' = [ledger EXCEPT !["adjustment"] = @ - new * p]
  /\ shares' = shares + new
  /\ basis' = basis + new * p
  /\ UNCHANGED realized

-----------------------------------------------------------------------------
\* Mutant of Reset: the old movements stay in the ledger.
ResetKeepsMovements(c) ==
  /\ cash' = c
  /\ realized' = 0
  /\ ledger' = [ledger EXCEPT !["initial_capital"] = @ + c]
  /\ shares' = 0
  /\ basis' = 0

\* broker.reset: the ledger restarts at the new capital, or at the cash of
\* the account when no capital is given; positions and realized P&L go.
Reset(c) ==
  /\ cash' = c
  /\ realized' = 0
  /\ ledger' = Opening(c)
  /\ shares' = 0
  /\ basis' = 0

Next ==
  \/ \E q \in Quantities, p \in Prices : Buy(q, p) \/ Sell(q, p)
  \/ \E d \in Prices : Dividend(d)
  \/ \E r \in Ratios : Split(r) \/ Bonus(r)
  \/ \E r \in Ratios, p \in Prices : Rights(r, p)
  \/ \E c \in Capitals \cup {cash} : Reset(c)

Spec == Init /\ [][Next]_vars

-----------------------------------------------------------------------------
(* Properties *)

\* Every movement of cash has its ledger rows: their sum is the balance
\* (infrastructure/ledger.py 3-8, verify_cash_invariant).
CashIsLedger == cash = LedgerSum

\* Nothing is made or lost by trading: cash plus what the held shares cost
\* equals what was put in, what was paid out on the holding and what was
\* realized.  Fees are counted once: a buy puts them into the basis, a sell
\* into realized P&L (state.py 246-251 and 334-336).
EquityConserved ==
  cash + basis = ledger["initial_capital"] + ledger["dividend"] + realized

\* A position row exists exactly when shares are held, and then its avg_cost
\* is positive, as the table's CHECK demands: no sequence of partial sells
\* leaves shares without cost or cost without shares.
BasisIffShares == (basis > 0) <=> (shares > 0)
=============================================================================
