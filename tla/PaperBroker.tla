------------------------------ MODULE PaperBroker ------------------------------
(***************************************************************************)
(* The simulated broker of app/execution/paper_broker.py: virtual balances *)
(* and one aggregated long position per symbol.                            *)
(*                                                                         *)
(* A position is kept by its total cost instead of its average entry       *)
(* price (entry_price * quantity), so that the weighted average of two     *)
(* fills is the sum of their costs and needs no division.                  *)
(***************************************************************************)
EXTENDS Market, FiniteSetsExt

CONSTANTS QuotedSymbols,     \* the symbols that end with the quote asset
          InitialBalance, FeePct, SlippagePct

ASSUME BrokerAssumption ==
  /\ QuotedSymbols \subseteq Symbols
  /\ InitialBalance \in Nat
  /\ FeePct \in 0 .. 100
  /\ SlippagePct \in 0 .. 100

VARIABLES
  quote,   \* balances[quote_asset]
  base,    \* balances[base asset of the symbol]
  held,    \* the keys of positions
  bpos,    \* positions: quantity, cost (entry_price * quantity), entry_fee
  orders   \* Len(orders): how many orders were filled

brokerVars == <<quote, base, held, bpos, orders>>

NoHolding == [qty |-> 0, cost |-> 0, fee |-> 0]

BrokerTypeOK ==
  /\ quote \in Nat
  /\ base \in [Symbols -> Nat]
  /\ held \subseteq Symbols
  /\ bpos \in [Symbols -> [qty : Nat, cost : Nat, fee : Nat]]
  /\ orders \in Nat

BrokerInit ==
  /\ quote = InitialBalance
  /\ base = [s \in Symbols |-> 0]
  /\ held = {}
  /\ bpos = [s \in Symbols |-> NoHolding]
  /\ orders = 0

FillPrice(side, price) ==
  IF side = "BUY" THEN (price * (100 + SlippagePct)) \div 100
                  ELSE (price * (100 - SlippagePct)) \div 100

FeeOf(amount) == (amount * FeePct) \div 100

BuyCost(qty, price)  == FillPrice("BUY", price) * qty
SellGain(qty, price) == FillPrice("SELL", price) * qty

\* What a BUY takes from the quote balance, and what a SELL puts there.
BuyTotal(qty, price) == BuyCost(qty, price) + FeeOf(BuyCost(qty, price))
SellNet(qty, price)  == SellGain(qty, price) - FeeOf(SellGain(qty, price))

\* A BUY the balance covers: pays cost and fee, opens or aggregates the position.
BuyFills(s, qty, price) ==
  /\ s \in QuotedSymbols
  /\ BuyTotal(qty, price) <= quote
  /\ quote' = quote - BuyTotal(qty, price)
  /\ base' = [base EXCEPT ![s] = @ + qty]
  /\ held' = held \cup {s}
  /\ bpos' = [bpos EXCEPT ![s] = [ qty  |-> @.qty + qty,
                                   cost |-> @.cost + BuyCost(qty, price),
                                   fee  |-> @.fee + FeeOf(BuyCost(qty, price)) ]]
  /\ orders' = orders + 1

\* A BUY refused for insufficient balance.  On an order for the whole balance
\* the floating-point sum of cost and fee may land on either side of it.
BuyRefused(qty, price) ==
  /\ BuyTotal(qty, price) >= quote
  /\ UNCHANGED brokerVars

\* A BUY of a symbol outside the quote asset: _base_asset raises after the
\* quote balance was already charged.
BuyRaises(s, qty, price) ==
  /\ s \notin QuotedSymbols
  /\ BuyTotal(qty, price) <= quote
  /\ quote' = quote - BuyTotal(qty, price)
  /\ UNCHANGED <<base, held, bpos, orders>>

\* The base balance covers the order, so the SELL will not be rejected.
SellCovered(s, qty) == s \in QuotedSymbols /\ qty <= base[s]

\* A SELL: credits the proceeds and closes the position, or reduces it at its
\* entry price.
SellFills(s, qty, price) ==
  LET remaining == bpos[s].qty - qty IN
  /\ SellCovered(s, qty)
  /\ base' = [base EXCEPT ![s] = @ - qty]
  /\ quote' = quote + SellNet(qty, price)
  /\ held' = IF remaining <= 0 THEN held \ {s} ELSE held
  /\ bpos' = [bpos EXCEPT ![s] =
                IF remaining <= 0 THEN NoHolding
                ELSE [ qty  |-> remaining,
                       cost |-> (bpos[s].cost * remaining) \div bpos[s].qty,
                       fee  |-> bpos[s].fee ]]
  /\ orders' = orders + 1

\* get_total_equity: the quote balance and every position at its last mark.
EquityAt(mark) == quote + SumFunctionOnSet([s \in Symbols |-> bpos[s].qty * mark[s]], held)

=============================================================================
