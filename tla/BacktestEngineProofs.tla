-------------------------- MODULE BacktestEngineProofs --------------------------
(***************************************************************************)
(* Theorems about the candle loop of the backtest, for every value of its  *)
(* constants.                                                              *)
(***************************************************************************)
EXTENDS BacktestEngine, TLAPS

(***************************************************************************)
(* Money stays a natural number.                                           *)
(***************************************************************************)

\* Natural numbers are closed under product.
LEMMA ProductNat ==
  ASSUME NEW a \in Nat, NEW b \in Nat
  PROVE  a * b \in Nat
  BY SMT

\* A quotient of naturals is natural, whatever the positive divisor.
LEMMA QuotientNat ==
  ASSUME NEW a \in Nat, NEW b \in Nat, b > 0
  PROVE  a \div b \in Nat
  BY SMT

\* What an integer quotient leaves out.
LEMMA QuotientBounds ==
  ASSUME NEW a \in Nat, NEW b \in Nat, b > 0
  PROVE  /\ (a \div b) * b <= a
         /\ a < (a \div b) * b + b
  BY SMT

\* The same of a percentage.
LEMMA PercentBounds ==
  ASSUME NEW a \in Nat
  PROVE  /\ a \div 100 \in Nat
         /\ (a \div 100) * 100 <= a
         /\ a < (a \div 100) * 100 + 100
  BY SMT

\* A factor keeps the order.
LEMMA ProductMono ==
  ASSUME NEW a \in Int, NEW b \in Int, NEW n \in Nat, a <= b
  PROVE  a * n \in Int /\ b * n \in Int /\ a * n <= b * n
  BY SMT

\* A share of at most 100% is at most the whole.
LEMMA PercentBound ==
  ASSUME NEW a \in Nat, NEW p \in 0 .. 100
  PROVE  /\ (a * p) \div 100 \in Nat
         /\ (a * p) \div 100 <= a
<1>1. a * p \in Nat
  BY ProductNat
<1>2. a * p <= a * 100
  BY SMT
<1> QED
  BY <1>1, <1>2, SMT

\* A fee is at most the amount it is charged on.
LEMMA FeeBound ==
  ASSUME NEW a \in Nat
  PROVE  FeeOf(a) \in Nat /\ FeeOf(a) <= a
  BY PercentBound, EngineAssumption DEF FeeOf

\* A BUY fills at a positive price, a SELL at a natural one.
LEMMA FillPrices ==
  ASSUME NEW p \in Nat
  PROVE  /\ BuyPrice(p) \in Nat /\ SellPrice(p) \in Nat
         /\ p > 0 => BuyPrice(p) > 0
<1>1. /\ 100 + SlippagePct \in Nat /\ 100 - SlippagePct \in Nat /\ SlippagePct \in Nat
      /\ 100 + SlippagePct >= 100
  BY EngineAssumption
<1>2. p * (100 + SlippagePct) \in Nat /\ p * (100 - SlippagePct) \in Nat
  BY <1>1, ProductNat
<1>3. BuyPrice(p) \in Nat /\ SellPrice(p) \in Nat
  BY <1>2, QuotientNat DEF BuyPrice, SellPrice
<1>4. p * (100 + SlippagePct) >= 100 * p
  BY <1>1, SMT
<1>5. ASSUME p > 0 PROVE BuyPrice(p) > 0
  <2>1. p * (100 + SlippagePct) >= 100
    BY <1>2, <1>4, <1>5
  <2>2. p * (100 + SlippagePct) < BuyPrice(p) * 100 + 100
    BY <1>2, PercentBounds DEF BuyPrice
  <2> QED
    BY <1>2, <1>3, <2>1, <2>2
<1> QED
  BY <1>3, <1>5

\* A sale never takes money.
LEMMA ProceedsNat ==
  ASSUME NEW p \in Positions, NEW price \in Nat
  PROVE  Proceeds(p, price) \in Nat /\ Pnl(p, price) \in Int
         /\ Pnl(p, price) = Proceeds(p, price) - p.cost - p.fee
<1>1. p.qty \in Nat /\ p.cost \in Nat /\ p.fee \in Nat
  BY DEF Positions
<1>2. price * p.qty \in Nat
  BY <1>1, ProductNat
<1>3. Proceeds(p, price) \in Nat
  BY <1>2, FeeBound DEF Proceeds
<1> QED
  BY <1>1, <1>3 DEF Pnl

(***************************************************************************)
(* What a BUY may spend.                                                   *)
(***************************************************************************)

\* A signal of a strategy under test.
LEMMA SignalTyped ==
  ASSUME strategy \in DOMAIN Signals, NEW sig \in Signals[strategy]
  PROVE  /\ sig \in EngineSignals
         /\ sig.price \in Nat /\ sig.price > 0 /\ sig.allocation \in Nat /\ sig.grid \in Nat
         /\ sig.stop \in Nat /\ sig.profit \in Nat
         /\ sig.target = NoShare \/ sig.target \in Nat
<1>1. sig \in EngineSignals
  BY EngineAssumption
<1> QED
  BY <1>1 DEF EngineSignals

\* An order is for no more than the cash.
LEMMA InvestBound ==
  ASSUME cash \in Nat, NEW p \in Positions, NEW account \in Nat, NEW sig \in EngineSignals
  PROVE  MaxInvest(sig, account, p) \in 0 .. cash
<1>0. /\ sig.allocation \in Nat /\ (sig.target = NoShare \/ sig.target \in Nat) /\ p.cost \in Nat
  BY DEF EngineSignals, Positions
<1>1. CASE sig.target = NoShare
  <2>1. (cash * SizePct) \div 100 \in Nat /\ (cash * SizePct) \div 100 <= cash
    BY PercentBound, EngineAssumption
  <2> QED
    BY <1>1, <2>1 DEF MaxInvest
<1>2. CASE sig.target # NoShare
  <2> DEFINE wanted == (account * sig.target) \div 100
             room == (account * sig.allocation) \div 100
  <2>1. wanted \in Nat /\ room \in Nat
    <3>1. account * sig.target \in Nat /\ account * sig.allocation \in Nat
      BY <1>0, <1>2, ProductNat
    <3> QED
      BY <3>1, PercentBounds
  <2> HIDE DEF wanted, room
  <2>2. AtLeast0(room - p.cost) \in Nat
    BY <1>0, <2>1 DEF AtLeast0
  <2>3. MaxInvest(sig, account, p) =
          Least(IF Holding(p) /\ sig.allocation > 0 THEN Least(wanted, AtLeast0(room - p.cost))
                                                    ELSE wanted, cash)
    BY <1>2 DEF MaxInvest, wanted, room
  <2> QED
    BY <2>1, <2>2, <2>3 DEF Least
<1> QED
  BY <1>1, <1>2

\* A fill with its fee costs no more than the order was for.
LEMMA BuyCosts ==
  ASSUME cash \in Nat, NEW p \in Positions, NEW account \in Nat, NEW sig \in EngineSignals
  PROVE  LET qty == BuyQty(sig, account, p)
             value == BuyPrice(sig.price) * qty
         IN /\ qty \in Nat /\ value \in Nat /\ FeeOf(value) \in Nat
            /\ value + FeeOf(value) <= MaxInvest(sig, account, p)
            /\ value + FeeOf(value) <= cash
<1> DEFINE invest == MaxInvest(sig, account, p)
           price == BuyPrice(sig.price)
           unit == price * (100 + FeePct)
           qty == BuyQty(sig, account, p)
           value == price * qty
<1>1. invest \in Nat /\ invest <= cash
  BY InvestBound
<1>2. price \in Nat /\ price > 0
  BY FillPrices DEF EngineSignals
<1>3. FeePct \in Nat /\ 100 + FeePct \in Nat /\ 100 + FeePct > 0
  BY EngineAssumption
<1>4. qty = (100 * invest) \div unit
  BY DEF BuyQty
<1> HIDE DEF invest, price, qty
<1>5. unit \in Nat /\ unit > 0 /\ 100 * invest \in Nat
  BY <1>1, <1>2, <1>3, SMT
<1>6. qty \in Nat /\ qty * unit <= 100 * invest
  BY <1>4, <1>5, QuotientNat, QuotientBounds
<1>7. value \in Nat /\ value * FeePct \in Nat
  BY <1>2, <1>3, <1>6, ProductNat
<1>8. qty * unit = 100 * value + value * FeePct
  <2>1. qty * (price * (100 + FeePct)) = 100 * (price * qty) + (price * qty) * FeePct
    BY <1>2, <1>3, <1>6, SMT
  <2> QED
    BY <2>1
<1>9. FeeOf(value) \in Nat /\ FeeOf(value) * 100 <= value * FeePct
  BY <1>7, PercentBounds DEF FeeOf
<1>10. value + FeeOf(value) <= invest
  <2> DEFINE fee == FeeOf(value)
             part == value * FeePct
  <2>1. 100 * value + part <= 100 * invest /\ fee * 100 <= part /\ fee \in Nat /\ part \in Nat
    BY <1>6, <1>7, <1>8, <1>9
  <2> HIDE DEF fee, part, value
  <2>2. 100 * (value + fee) <= 100 * invest
    BY <1>1, <1>7, <2>1
  <2>3. value + fee <= invest
    BY <1>1, <1>7, <2>1, <2>2
  <2> QED
    BY <2>3 DEF fee
<1> HIDE DEF value
<1>11. value + FeeOf(value) <= cash
  BY <1>1, <1>7, <1>9, <1>10
<1> QED
  BY <1>6, <1>7, <1>9, <1>10, <1>11 DEF invest, price, qty, value

(***************************************************************************)
(* The inductive invariant.  The account adds up, and a grid position's    *)
(* stop is that of its average entry: neither follows from the types, and  *)
(* the types need the second to know that a held quantity divides.         *)
(***************************************************************************)

\* What was paid for the position and is still to be realised.
AccountAddsUp == cash + pos.cost + pos.fee = InitialCapital + realised

NothingHeld == ~Holding(pos) => pos = NoPosition

GridStopAnchored ==
  pos.grid # NoGrid => pos.stop = (pos.cost * (100 - GridStopPct)) \div (100 * pos.qty)

\* A bar under way is one of the data.
BarUnderWay == phase = "signal" => bar < Bars

IInv ==
  TypeOK /\ AccountAddsUp /\ NothingHeld /\ GridStopAnchored /\ BarUnderWay /\ CurvePerCandle

\* The account alone.
AccountOK ==
  /\ cash \in Nat /\ realised \in Int /\ pos \in Positions
  /\ AccountAddsUp /\ NothingHeld /\ GridStopAnchored

\* A position with refreshed stops.
LEMMA Refreshed ==
  ASSUME NEW p \in Positions, p.qty > 0
  PROVE  LET r == RefreshGridStops(p)
         IN /\ r \in Positions
            /\ r.qty = p.qty /\ r.cost = p.cost /\ r.fee = p.fee /\ r.grid = p.grid /\ r.cap = p.cap
            /\ r.grid # NoGrid => r.stop = (r.cost * (100 - GridStopPct)) \div (100 * r.qty)
<1>1. CASE p.grid = NoGrid
  BY <1>1 DEF RefreshGridStops
<1>2. CASE p.grid # NoGrid
  <2> DEFINE stop == (p.cost * (100 - GridStopPct)) \div (100 * p.qty)
             target == (p.cost * (100 + GridTargetPct)) \div (100 * p.qty)
  <2>1. stop \in Nat /\ target \in Nat
    <3>1. /\ p.cost \in Nat /\ p.qty \in Nat /\ 100 * p.qty \in Nat /\ 100 * p.qty > 0
          /\ 100 - GridStopPct \in Nat /\ 100 + GridTargetPct \in Nat
      BY EngineAssumption DEF Positions
    <3>2. p.cost * (100 - GridStopPct) \in Nat /\ p.cost * (100 + GridTargetPct) \in Nat
      BY <3>1, ProductNat
    <3> QED
      BY <3>1, <3>2, QuotientNat
  <2>2. RefreshGridStops(p) = [p EXCEPT !.stop = stop, !.target = target]
    BY <1>2 DEF RefreshGridStops
  <2> HIDE DEF target
  <2>3. /\ RefreshGridStops(p).stop = stop
        /\ RefreshGridStops(p).qty = p.qty /\ RefreshGridStops(p).cost = p.cost
        /\ RefreshGridStops(p).fee = p.fee /\ RefreshGridStops(p).grid = p.grid
        /\ RefreshGridStops(p).cap = p.cap
    BY <2>2 DEF Positions
  <2>4. RefreshGridStops(p) \in Positions
    <3> HIDE DEF stop
    <3> QED
      BY <2>1, <2>2 DEF Positions
  <2> QED
    BY <2>3, <2>4
<1> QED
  BY <1>1, <1>2

\* The stops of a plain order.
LEMMA StopsNat ==
  ASSUME NEW sig \in EngineSignals, NEW price \in Nat
  PROVE  /\ Or(sig.stop, DefaultStop(price)) \in Nat
         /\ Or(sig.profit, DefaultTarget(price)) \in Nat
<1>1. 100 - DefaultStopPct \in Nat /\ 100 + DefaultTargetPct \in Nat
  BY EngineAssumption
<1>2. price * (100 - DefaultStopPct) \in Nat /\ price * (100 + DefaultTargetPct) \in Nat
  BY <1>1, ProductNat
<1>3. DefaultStop(price) \in Nat /\ DefaultTarget(price) \in Nat
  BY <1>2, QuotientNat DEF DefaultStop, DefaultTarget, NoPrice
<1> QED
  BY <1>3 DEF Or, EngineSignals

\* A fill adds what it cost to the position, in the position's own basket.
LEMMA FillAdds ==
  ASSUME NEW p \in Positions, NEW sig \in EngineSignals, NEW qty \in Nat, qty > 0,
         ~Holding(p) => p = NoPosition
  PROVE  LET q == Filled(p, sig, qty)
             value == BuyPrice(sig.price) * qty
         IN /\ q \in Positions
            /\ q.qty = p.qty + qty /\ q.qty > 0
            /\ q.cost = p.cost + value
            /\ q.fee = p.fee + FeeOf(value)
            /\ q.cap = sig.allocation
            /\ q.grid = IF Holding(p) THEN p.grid ELSE sig.grid
            /\ q.grid # NoGrid => q.stop = (q.cost * (100 - GridStopPct)) \div (100 * q.qty)
<1> DEFINE price == BuyPrice(sig.price)
           value == price * qty
           fee == FeeOf(value)
           grown == [p EXCEPT !.qty = @ + qty, !.cost = @ + value, !.fee = @ + fee,
                              !.stop = Or(sig.stop, @), !.target = Or(sig.profit, @),
                              !.cap = sig.allocation]
           fresh == [qty |-> qty, cost |-> value, fee |-> fee,
                     stop |-> Or(sig.stop, DefaultStop(price)),
                     target |-> Or(sig.profit, DefaultTarget(price)),
                     grid |-> sig.grid, cap |-> sig.allocation]
<1>1. /\ price \in Nat /\ sig.stop \in Nat /\ sig.profit \in Nat /\ sig.allocation \in Nat
      /\ sig.grid \in Nat
  BY FillPrices DEF EngineSignals
<1>2. Filled(p, sig, qty) = RefreshGridStops(IF Holding(p) THEN grown ELSE fresh)
  BY DEF Filled
<1>3. value \in Nat /\ fee \in Nat
  BY <1>1, ProductNat, FeeBound
<1>4. Or(sig.stop, DefaultStop(price)) \in Nat /\ Or(sig.profit, DefaultTarget(price)) \in Nat
  BY <1>1, StopsNat
<1> HIDE DEF price, value, fee
<1>5. CASE Holding(p)
  <2>1. Or(sig.stop, p.stop) \in Nat /\ Or(sig.profit, p.target) \in Nat
    BY <1>1 DEF Or, Positions
  <2>2. grown \in Positions
    <3>1. PICK stop, target \in Nat :
            stop = Or(sig.stop, p.stop) /\ target = Or(sig.profit, p.target)
      BY <2>1
    <3>2. grown = [p EXCEPT !.qty = p.qty + qty, !.cost = p.cost + value, !.fee = p.fee + fee,
                            !.stop = stop, !.target = target, !.cap = sig.allocation]
      BY <3>1
    <3>3. p.qty + qty \in Nat /\ p.cost + value \in Nat /\ p.fee + fee \in Nat
      BY <1>3 DEF Positions
    <3> HIDE DEF grown
    <3> QED
      BY <1>1, <3>2, <3>3 DEF Positions
  <2>3. /\ grown.qty = p.qty + qty /\ grown.cost = p.cost + value /\ grown.fee = p.fee + fee
        /\ grown.grid = p.grid /\ grown.cap = sig.allocation /\ grown.qty > 0
    BY <1>5 DEF Positions, Holding
  <2>4. Filled(p, sig, qty) = RefreshGridStops(grown)
    BY <1>2, <1>5
  <2> HIDE DEF grown
  <2> QED
    BY <1>5, <2>2, <2>3, <2>4, Refreshed DEF value, fee, price
<1>6. CASE ~Holding(p)
  <2>1. p.qty = 0 /\ p.cost = 0 /\ p.fee = 0
    BY <1>6 DEF NoPosition
  <2>2. fresh \in Positions
    BY <1>1, <1>3, <1>4 DEF Positions
  <2>3. /\ fresh.qty = p.qty + qty /\ fresh.cost = p.cost + value /\ fresh.fee = p.fee + fee
        /\ fresh.grid = sig.grid /\ fresh.cap = sig.allocation /\ fresh.qty > 0
    BY <1>3, <2>1
  <2>4. Filled(p, sig, qty) = RefreshGridStops(fresh)
    BY <1>2, <1>6
  <2> HIDE DEF fresh
  <2> QED
    BY <1>6, <2>2, <2>3, <2>4, Refreshed DEF value, fee, price
<1> QED
  BY <1>5, <1>6

\* The balance after a fill, and after a close.
LEMMA BalanceOfFill ==
  ASSUME NEW m \in Nat, NEW c \in Nat, NEW f \in Nat, NEW start \in Int, NEW r \in Int,
         NEW value \in Nat, NEW fee \in Nat,
         m + c + f = start + r, value + fee <= m
  PROVE  /\ m - value - fee \in Nat /\ m - value - fee <= m
         /\ (m - value - fee) + (c + value) + (f + fee) = start + r
  BY SMT

LEMMA BalanceOfClose ==
  ASSUME NEW m \in Nat, NEW c \in Nat, NEW f \in Nat, NEW start \in Int, NEW r \in Int,
         NEW got \in Nat, m + c + f = start + r
  PROVE  /\ m + got \in Nat /\ r + (got - c - f) \in Int /\ m + got >= m
         /\ m + got + 0 + 0 = start + (r + (got - c - f))
  BY SMT

(***************************************************************************)
(* The steps.                                                              *)
(***************************************************************************)

\* A fill pays what it adds to the position and nothing else.
LEMMA BuyStep ==
  ASSUME AccountOK, NEW sig \in EngineSignals, NEW account \in Nat,
         BuyQty(sig, account, pos) > 0, Buy(sig, BuyQty(sig, account, pos))
  PROVE  AccountOK' /\ realised' = realised /\ cash' <= cash /\ exitKind' = ""
<1>1. PICK qty : qty = BuyQty(sig, account, pos)
  OBVIOUS
<1>2. PICK value : value = BuyPrice(sig.price) * qty
  OBVIOUS
<1>3. PICK fee : fee = FeeOf(value)
  OBVIOUS
<1>4. cash \in Nat /\ realised \in Int /\ pos \in Positions /\ (~Holding(pos) => pos = NoPosition)
  BY DEF AccountOK, NothingHeld
<1>5. qty \in Nat /\ qty > 0 /\ value \in Nat /\ fee \in Nat /\ value + fee <= cash
  BY <1>1, <1>2, <1>3, <1>4, BuyCosts
<1>6. cash' = cash - value - fee /\ pos' = Filled(pos, sig, qty) /\ realised' = realised /\ exitKind' = ""
  BY <1>1, <1>2, <1>3 DEF Buy
<1>7. /\ pos' \in Positions /\ pos'.qty > 0
      /\ pos'.cost = pos.cost + value /\ pos'.fee = pos.fee + fee
      /\ pos'.grid # NoGrid =>
           pos'.stop = (pos'.cost * (100 - GridStopPct)) \div (100 * pos'.qty)
  <2> DEFINE q == Filled(pos, sig, qty)
  <2>1. /\ q \in Positions /\ q.qty > 0
        /\ q.cost = pos.cost + BuyPrice(sig.price) * qty
        /\ q.fee = pos.fee + FeeOf(BuyPrice(sig.price) * qty)
        /\ q.grid # NoGrid => q.stop = (q.cost * (100 - GridStopPct)) \div (100 * q.qty)
    <3> HIDE DEF q
    <3>1. pos \in Positions /\ qty \in Nat /\ qty > 0 /\ (~Holding(pos) => pos = NoPosition)
      BY <1>4, <1>5
    <3> QED
      BY ONLY <3>1, FillAdds, sig \in EngineSignals DEF q
  <2> HIDE DEF q
  <2>2. q.cost = pos.cost + value /\ q.fee = pos.fee + fee /\ pos' = q
    BY <1>2, <1>3, <1>6, <2>1 DEF q
  <2> QED
    BY <2>1, <2>2
<1>8. InitialCapital \in Int /\ pos.cost \in Nat /\ pos.fee \in Nat
  BY <1>4, EngineAssumption DEF Positions
<1>9. cash + pos.cost + pos.fee = InitialCapital + realised
  BY DEF AccountOK, AccountAddsUp
<1>10. cash' \in Nat /\ cash' <= cash /\ cash' + pos'.cost + pos'.fee = InitialCapital + realised'
  <2>1. /\ cash - value - fee \in Nat /\ cash - value - fee <= cash
        /\ (cash - value - fee) + (pos.cost + value) + (pos.fee + fee) = InitialCapital + realised
    BY <1>4, <1>5, <1>8, <1>9, BalanceOfFill
  <2> QED
    BY <1>6, <1>7, <2>1
<1> QED
  BY <1>4, <1>6, <1>7, <1>10
     DEF AccountOK, AccountAddsUp, NothingHeld, GridStopAnchored, Holding

\* A close realises what the position paid.
LEMMA CloseStep ==
  ASSUME AccountOK, NEW price \in Nat, NEW kind, Close(price, kind)
  PROVE  AccountOK' /\ pos' = NoPosition /\ cash' >= cash /\ exitKind' = kind
<1>1. cash \in Nat /\ realised \in Int /\ pos \in Positions
  BY DEF AccountOK
<1>2. PICK got, pnl : got = Proceeds(pos, price) /\ pnl = Pnl(pos, price)
  OBVIOUS
<1>3. got \in Nat /\ pnl \in Int /\ pnl = got - pos.cost - pos.fee
  BY <1>1, <1>2, ProceedsNat
<1>4. /\ cash' = cash + got /\ realised' = realised + pnl /\ pos' = NoPosition /\ exitKind' = kind
  BY <1>2 DEF Close
<1>5. /\ pos' \in Positions /\ pos'.cost = 0 /\ pos'.fee = 0 /\ pos'.grid = NoGrid
      /\ pos.cost \in Nat /\ pos.fee \in Nat
  BY <1>1, <1>4 DEF NoPosition, Positions, NoGrid, NoPrice
<1>6. InitialCapital \in Int /\ cash + pos.cost + pos.fee = InitialCapital + realised
  BY EngineAssumption DEF AccountOK, AccountAddsUp
<1>7. /\ cash' \in Nat /\ realised' \in Int /\ cash' >= cash
      /\ cash' + pos'.cost + pos'.fee = InitialCapital + realised'
  <2>1. /\ cash + got \in Nat /\ realised + (got - pos.cost - pos.fee) \in Int /\ cash + got >= cash
        /\ cash + got + 0 + 0 = InitialCapital + (realised + (got - pos.cost - pos.fee))
    <3>1. PICK c, f \in Nat : c = pos.cost /\ f = pos.fee
      BY <1>5
    <3>2. cash \in Nat /\ realised \in Int /\ got \in Nat /\ InitialCapital \in Int
          /\ cash + c + f = InitialCapital + realised
      BY <1>1, <1>3, <1>6, <3>1
    <3>3. /\ cash + got \in Nat /\ realised + (got - c - f) \in Int /\ cash + got >= cash
          /\ cash + got + 0 + 0 = InitialCapital + (realised + (got - c - f))
      BY ONLY <3>2, c \in Nat, f \in Nat, BalanceOfClose
    <3> QED
      BY <3>1, <3>3
  <2> QED
    BY <1>3, <1>4, <1>5, <2>1
<1> QED
  BY <1>4, <1>5, <1>7 DEF AccountOK, AccountAddsUp, NothingHeld, GridStopAnchored

\* What the invariant says of the account, and what an account gives it back.
LEMMA AccountOfIInv ==
  ASSUME IInv
  PROVE  AccountOK
  BY DEF IInv, AccountOK, TypeOK

\* How a step moves the account: not at all, by a fill, or by a close.
LedgerMove ==
  \/ UNCHANGED <<cash, pos, realised>>
  \/ realised' = realised /\ cash' <= cash
  \/ pos' = NoPosition /\ cash' >= cash

\* Stops and targets.
LEMMA StopsKeepIInv ==
  ASSUME IInv, CheckStops
  PROVE  IInv' /\ LedgerMove
<1>1. AccountOK
  BY AccountOfIInv
<1>2. pos.stop \in Nat /\ pos.target \in Nat
  BY <1>1 DEF AccountOK, Positions
<1>3. AccountOK' /\ LedgerMove /\ exitKind' \in {"", "stop_loss", "take_profit"}
  <2>1. PICK b \in BarShapes :
          \/ Close(SellPrice(pos.stop), "stop_loss")
          \/ Close(SellPrice(pos.target), "take_profit")
          \/ exitKind' = "" /\ UNCHANGED <<cash, pos, realised>>
    BY DEF CheckStops
  <2>2. CASE Close(SellPrice(pos.stop), "stop_loss")
    BY <1>1, <1>2, <2>2, FillPrices, CloseStep DEF LedgerMove
  <2>3. CASE Close(SellPrice(pos.target), "take_profit")
    BY <1>1, <1>2, <2>3, FillPrices, CloseStep DEF LedgerMove
  <2>4. CASE exitKind' = "" /\ UNCHANGED <<cash, pos, realised>>
    BY <1>1, <2>4 DEF LedgerMove, AccountOK, AccountAddsUp, NothingHeld, GridStopAnchored
  <2> QED
    BY <2>1, <2>2, <2>3, <2>4
<1>4. /\ shape' \in BarShapes /\ phase' = "signal" /\ strategy' = strategy /\ bar' = bar
      /\ equity' = equity /\ points' = points
  BY DEF CheckStops
<1>5. TypeOK'
  BY <1>3, <1>4 DEF IInv, TypeOK, AccountOK
<1>6. CurvePerCandle' /\ BarUnderWay'
  BY <1>4 DEF IInv, CurvePerCandle, BarUnderWay, CheckStops
<1> QED
  BY <1>3, <1>5, <1>6 DEF IInv, AccountOK

\* The signal of a bar leaves an account that adds up.
LEMMA SignalKeepsAccount ==
  ASSUME AccountOK, shape.close \in Nat, strategy \in DOMAIN Signals,
         NEW sig \in Signals[strategy], OnSignal(sig)
  PROVE  /\ AccountOK' /\ LedgerMove /\ exitKind' \in {"", "signal"}
         /\ \/ EndBar(shape.close, cash', pos')
            \/ SkipBar /\ ~Holding(pos)
<1>1. cash \in Nat /\ pos \in Positions /\ sig \in EngineSignals /\ sig.price \in Nat
  BY SignalTyped DEF AccountOK
<1>2. AccountEquity \in Nat
  <2>1. pos.qty \in Nat
    BY <1>1 DEF Positions
  <2>2. pos.qty * shape.close \in Nat
    BY <2>1, ProductNat
  <2> QED
    BY <1>1, <2>2 DEF AccountEquity
<1>3. ASSUME UNCHANGED <<cash, pos, realised>> PROVE AccountOK' /\ LedgerMove
  BY <1>3 DEF LedgerMove, AccountOK, AccountAddsUp, NothingHeld, GridStopAnchored
<1>4. ASSUME NEW account \in Nat, BuyQty(sig, account, pos) > 0,
             Buy(sig, BuyQty(sig, account, pos))
      PROVE  AccountOK' /\ LedgerMove /\ exitKind' = ""
  BY <1>1, <1>4, BuyStep DEF LedgerMove
<1>5. CASE ~Holding(pos) /\ sig.type = "BUY"
  <2>1. \/ /\ BuyQty(sig, cash, pos) > 0 /\ Buy(sig, BuyQty(sig, cash, pos))
           /\ EndBar(shape.close, cash', pos')
        \/ SkipBar
    BY <1>5 DEF OnSignal
  <2>2. CASE SkipBar
    BY <1>3, <1>5, <2>2 DEF SkipBar
  <2>3. CASE /\ BuyQty(sig, cash, pos) > 0 /\ Buy(sig, BuyQty(sig, cash, pos))
             /\ EndBar(shape.close, cash', pos')
    BY <1>1, <1>4, <2>3
  <2> QED
    BY <2>1, <2>2, <2>3
<1>6. CASE ~Holding(pos) /\ sig.type = "SELL"
  <2>1. Nothing /\ EndBar(shape.close, cash, pos)
    BY <1>6 DEF OnSignal
  <2>2. EndBar(shape.close, cash', pos')
    BY <2>1 DEF Nothing, EndBar
  <2> QED
    BY <1>3, <2>1, <2>2 DEF Nothing
<1>7. CASE Holding(pos) /\ sig.type = "BUY"
  <2>1. /\ \/ /\ BuyQty(sig, AccountEquity, pos) > 0
              /\ Buy(sig, BuyQty(sig, AccountEquity, pos))
           \/ Nothing
        /\ EndBar(shape.close, cash', pos')
    BY <1>7 DEF OnSignal
  <2>2. CASE BuyQty(sig, AccountEquity, pos) > 0 /\ Buy(sig, BuyQty(sig, AccountEquity, pos))
    BY <1>2, <1>4, <2>1, <2>2
  <2>3. CASE Nothing
    BY <1>3, <2>1, <2>3 DEF Nothing
  <2> QED
    BY <2>1, <2>2, <2>3
<1>8. CASE Holding(pos) /\ sig.type = "SELL"
  <2>1. Close(SellPrice(sig.price), "signal") /\ EndBar(shape.close, cash', pos')
    BY <1>8 DEF OnSignal
  <2> QED
    BY <1>1, <2>1, FillPrices, CloseStep DEF LedgerMove
<1>9. sig.type \in {"BUY", "SELL"}
  BY <1>1 DEF EngineSignals
<1> QED
  BY <1>5, <1>6, <1>7, <1>8, <1>9

\* The rest of a bar: its signal, or none.
LEMMA SignalKeepsIInv ==
  ASSUME IInv, ProcessSignal
  PROVE  /\ IInv' /\ LedgerMove /\ phase' = "stops" /\ bar' = bar + 1
         /\ \/ equity' = cash' + pos'.qty * shape.close
            \/ SkipBar /\ ~Holding(pos)
<1>1. AccountOK /\ strategy \in DOMAIN Signals /\ shape \in BarShapes /\ bar \in 0 .. Bars
      /\ points \in Nat /\ points = bar + 1 /\ equity \in Nat /\ bar < Bars
  BY AccountOfIInv DEF IInv, TypeOK, CurvePerCandle, BarUnderWay, ProcessSignal
<1>2. shape.close \in Nat
  BY <1>1, EngineAssumption DEF Shapes
<1>3. /\ AccountOK' /\ LedgerMove /\ exitKind' \in {"", "signal"}
      /\ \/ EndBar(shape.close, cash', pos')
         \/ SkipBar /\ ~Holding(pos)
  <2>1. CASE Nothing /\ EndBar(shape.close, cash, pos)
    <3>1. UNCHANGED <<cash, pos, realised>> /\ exitKind' = ""
      BY <2>1 DEF Nothing
    <3>2. EndBar(shape.close, cash', pos')
      BY <2>1, <3>1 DEF EndBar
    <3> QED
      BY <1>1, <3>1, <3>2
         DEF LedgerMove, AccountOK, AccountAddsUp, NothingHeld, GridStopAnchored
  <2>2. ASSUME NEW sig \in Signals[strategy], OnSignal(sig)
        PROVE  /\ AccountOK' /\ LedgerMove /\ exitKind' \in {"", "signal"}
               /\ \/ EndBar(shape.close, cash', pos')
                  \/ SkipBar /\ ~Holding(pos)
    BY <1>1, <1>2, <2>2, SignalKeepsAccount
  <2> QED
    BY <2>1, <2>2 DEF ProcessSignal
<1>4. phase' = "stops" /\ bar' = bar + 1 /\ points' = points + 1
  BY <1>3 DEF EndBar, SkipBar
<1>5. \/ equity' = cash' + pos'.qty * shape.close
      \/ SkipBar /\ ~Holding(pos)
  BY <1>3 DEF EndBar
<1>6. equity' \in Nat
  <2>1. CASE SkipBar
    BY <1>1, <2>1 DEF SkipBar
  <2>2. CASE equity' = cash' + pos'.qty * shape.close
    <3>1. cash' \in Nat /\ pos'.qty \in Nat
      BY <1>3 DEF AccountOK, Positions
    <3>2. pos'.qty * shape.close \in Nat
      BY <1>2, <3>1, ProductNat
    <3> QED
      BY <2>2, <3>1, <3>2
  <2> QED
    BY <1>5, <2>1, <2>2
<1>7. bar' \in 0 .. Bars /\ points' \in Nat /\ points' = bar' + 1
  BY <1>1, <1>4, EngineAssumption
<1>8. shape' = shape /\ strategy' = strategy
  BY DEF ProcessSignal
<1>9. TypeOK'
  BY <1>1, <1>3, <1>4, <1>6, <1>7, <1>8 DEF TypeOK, AccountOK
<1> QED
  BY <1>3, <1>4, <1>5, <1>7, <1>9 DEF IInv, AccountOK, CurvePerCandle, BarUnderWay

\* The end of the data.
LEMMA EndKeepsIInv ==
  ASSUME IInv, EndOfData
  PROVE  /\ IInv' /\ LedgerMove
         /\ \/ ~Holding(pos) /\ UNCHANGED <<cash, pos, equity>>
            \/ pos' = NoPosition /\ equity' = cash'
<1>1. AccountOK /\ shape \in BarShapes /\ equity \in Nat
  BY AccountOfIInv DEF IInv, TypeOK
<1>2. shape.close \in Nat
  BY <1>1, EngineAssumption DEF Shapes
<1>3. /\ AccountOK' /\ LedgerMove /\ exitKind' \in {"", "end_of_data"} /\ equity' \in Nat
      /\ \/ ~Holding(pos) /\ UNCHANGED <<cash, pos, equity>>
         \/ pos' = NoPosition /\ equity' = cash'
  <2>1. CASE Holding(pos)
    <3>1. Close(shape.close, "end_of_data") /\ equity' = cash'
      BY <2>1 DEF EndOfData
    <3>2. AccountOK' /\ pos' = NoPosition /\ cash' >= cash /\ exitKind' = "end_of_data"
      BY <1>1, <1>2, <3>1, CloseStep
    <3> QED
      BY <3>1, <3>2 DEF LedgerMove, AccountOK
  <2>2. CASE ~Holding(pos)
    <3>1. UNCHANGED <<cash, pos, realised>> /\ exitKind' = "" /\ equity' = equity
      BY <2>2 DEF EndOfData, Nothing
    <3> QED
      BY <1>1, <2>2, <3>1
         DEF LedgerMove, AccountOK, AccountAddsUp, NothingHeld, GridStopAnchored
  <2> QED
    BY <2>1, <2>2
<1>4. /\ phase' = "done" /\ strategy' = strategy /\ bar' = bar /\ shape' = shape
      /\ points' = points
  BY DEF EndOfData
<1>5. TypeOK'
  BY <1>3, <1>4 DEF IInv, TypeOK, AccountOK
<1>6. CurvePerCandle' /\ BarUnderWay'
  BY <1>4 DEF IInv, CurvePerCandle, BarUnderWay
<1> QED
  BY <1>3, <1>5, <1>6 DEF IInv, AccountOK

\* The first state.
LEMMA InitIInv == Init => IInv
<1> SUFFICES ASSUME Init PROVE IInv
  OBVIOUS
<1>1. /\ pos \in Positions /\ pos.cost = 0 /\ pos.fee = 0 /\ pos.grid = NoGrid
      /\ ~Holding(pos) /\ pos = NoPosition
  <2>1. pos = NoPosition
    BY DEF Init
  <2>2. NoPosition \in Positions
    BY DEF NoPosition, Positions, NoGrid, NoPrice
  <2>3. NoPosition.qty = 0 /\ NoPosition.cost = 0 /\ NoPosition.fee = 0 /\ NoPosition.grid = NoGrid
    BY DEF NoPosition
  <2> QED
    BY <2>1, <2>2, <2>3 DEF Holding
<1>2. /\ bar = 0 /\ points = 1 /\ cash = InitialCapital /\ equity = InitialCapital
      /\ realised = 0 /\ InitialCapital \in Nat /\ Bars \in Nat
  BY EngineAssumption DEF Init
<1>3. /\ strategy \in DOMAIN Signals /\ shape \in BarShapes /\ phase = "stops"
      /\ exitKind = ""
  BY DEF Init
<1>4. TypeOK
  <2>1. /\ bar \in 0 .. Bars /\ cash \in Nat /\ realised \in Int /\ equity \in Nat
        /\ points \in Nat
    BY <1>2
  <2> QED
    BY <1>1, <1>3, <2>1 DEF TypeOK
<1>5. AccountAddsUp /\ CurvePerCandle
  BY <1>1, <1>2 DEF AccountAddsUp, CurvePerCandle
<1> QED
  BY <1>1, <1>3, <1>4, <1>5 DEF IInv, NothingHeld, GridStopAnchored, BarUnderWay

\* A stutter.
LEMMA StutterIInv == IInv /\ UNCHANGED vars => IInv' /\ LedgerMove
  BY DEF vars, IInv, LedgerMove, TypeOK, AccountAddsUp, NothingHeld, GridStopAnchored,
         BarUnderWay, CurvePerCandle

\* Every step preserves the invariant and moves the account one of three ways.
LEMMA NextIInv == IInv /\ [Next]_vars => IInv' /\ LedgerMove
  BY StopsKeepIInv, SignalKeepsIInv, EndKeepsIInv, StutterIInv DEF Next

(***************************************************************************)
(* The theorems.                                                           *)
(***************************************************************************)

\* The candle loop keeps its account: what is in cash and in the position is
\* the capital and what the trades realised, a grid position's stop is that of
\* its average entry, and the curve has one point per candle.
THEOREM BacktestInvariant == Spec => []IInv
<1>1. IInv /\ [Next]_vars => IInv'
  BY NextIInv
<1> QED
  BY InitIInv, <1>1, PTL DEF Spec

\* The types of the loop: cash and equity are never negative, whatever the
\* prices, the fees and the slippage.
THEOREM BacktestTypeOK == Spec => []TypeOK
<1>1. IInv => TypeOK
  BY DEF IInv
<1> QED
  BY <1>1, BacktestInvariant, PTL

\* One point per candle, whatever path a bar took through the loop.
THEOREM BacktestCurve == Spec => []CurvePerCandle
<1>1. IInv => CurvePerCandle
  BY DEF IInv
<1> QED
  BY <1>1, BacktestInvariant, PTL

\* The backtest is a ledger: cash is spent only on the position, and a close
\* brings all of it back with its result, as in paper trading.
THEOREM BacktestRefinesLedger == Spec => LedgerSpec
<1> DEFINE paid == [s \in {"symbol"} |-> pos.cost + pos.fee]
<1>1. Init => Ledger!Init
  <2> SUFFICES ASSUME Init PROVE Ledger!Init
    OBVIOUS
  <2>1. pos.cost + pos.fee = 0
    <3>1. pos = NoPosition /\ NoPosition.cost = 0 /\ NoPosition.fee = 0
      BY DEF Init, NoPosition
    <3> QED
      BY <3>1
  <2>2. [s \in {"symbol"} |-> pos.cost + pos.fee] = [s \in {"symbol"} |-> 0]
    BY <2>1
  <2> QED
    BY <2>2 DEF Init, Ledger!Init
<1>2. IInv /\ IInv' /\ LedgerMove => [Ledger!Next]_(Ledger!ledgerVars)
  <2> SUFFICES ASSUME IInv, IInv', LedgerMove PROVE [Ledger!Next]_(Ledger!ledgerVars)
    OBVIOUS
  <2>1. /\ cash \in Nat /\ realised \in Int /\ pos.cost \in Nat /\ pos.fee \in Nat
        /\ cash' \in Nat /\ realised' \in Int /\ pos'.cost \in Nat /\ pos'.fee \in Nat
        /\ InitialCapital \in Int
    <3>1. cash \in Nat /\ realised \in Int /\ pos \in Positions
      BY DEF IInv, TypeOK
    <3>2. cash' \in Nat /\ realised' \in Int /\ pos' \in Positions
      BY DEF IInv, TypeOK
    <3> QED
      BY <3>1, <3>2, EngineAssumption DEF Positions
  <2>2. /\ cash + pos.cost + pos.fee = InitialCapital + realised
        /\ cash' + pos'.cost + pos'.fee = InitialCapital + realised'
    BY DEF IInv, AccountAddsUp
  <2>3. CASE UNCHANGED <<cash, pos, realised>>
    BY <2>3 DEF Ledger!ledgerVars
  <2>4. CASE realised' = realised /\ cash' <= cash
    <3>1. pos'.cost + pos'.fee = (pos.cost + pos.fee) + (cash - cash')
      <4>1. PICK c, f, c2, f2 \in Nat :
              c = pos.cost /\ f = pos.fee /\ c2 = pos'.cost /\ f2 = pos'.fee
        BY <2>1
      <4>2. cash + c + f = cash' + c2 + f2
        BY <2>2, <2>4, <4>1
      <4>3. PICK m, n \in Nat : m = cash /\ n = cash'
        BY <2>1
      <4>4. m + c + f = n + c2 + f2
        BY <4>2, <4>3
      <4>5. c2 + f2 = (c + f) + (m - n)
        BY ONLY <4>4, c \in Nat, f \in Nat, c2 \in Nat, f2 \in Nat, m \in Nat, n \in Nat
      <4> QED
        BY <4>1, <4>3, <4>5
    <3>2. paid' = [paid EXCEPT !["symbol"] = @ + (cash - cash')]
      BY <3>1
    <3>3. cash' \in 0 .. cash
      BY <2>1, <2>4
    <3> QED
      BY <2>4, <3>2, <3>3 DEF Ledger!Next, Ledger!Enter
  <2>5. CASE pos' = NoPosition /\ cash' >= cash
    <3>1. pos'.cost = 0 /\ pos'.fee = 0
      BY <2>5 DEF NoPosition
    <3>2. realised' = realised + (cash' - cash) - (pos.cost + pos.fee)
      <4>1. PICK c, f \in Nat : c = pos.cost /\ f = pos.fee
        BY <2>1
      <4>2. cash' + 0 + 0 = InitialCapital + realised' /\ cash + c + f = InitialCapital + realised
        BY <2>2, <3>1, <4>1
      <4>3. realised' = realised + (cash' - cash) - (c + f)
        BY <2>1, <4>1, <4>2
      <4> QED
        BY <4>1, <4>3
    <3>3. paid' = [paid EXCEPT !["symbol"] = 0] /\ paid["symbol"] = pos.cost + pos.fee
      BY <3>1
    <3> QED
      BY <2>5, <3>2, <3>3 DEF Ledger!Next, Ledger!Exit
  <2> QED
    BY <2>3, <2>4, <2>5 DEF LedgerMove
<1>3. IInv /\ [Next]_vars => LedgerMove
  BY NextIInv
<1> QED
  BY <1>1, <1>2, <1>3, BacktestInvariant, PTL DEF Spec, LedgerSpec, Ledger!Spec

(***************************************************************************)
(* The final equity.                                                       *)
(***************************************************************************)

\* The equity the loop holds is the cash, wherever nothing is held.  On the
\* bar of an exit it is so only once the bar's point is written.
EquitySettled ==
  ~Holding(pos) /\ (phase = "signal" => exitKind = "") => equity = cash

\* A BUY that buys nothing ends its bar before the point is written.  When the
\* same bar closed a position, what the loop holds stays the equity of the bar
\* before.
NoStaleEquity == (SkipBar /\ exitKind # "") => equity = cash

\* EquitySettled is preserved as long as no bar leaves its exit out of the
\* equity.
LEMMA SettledNext ==
  IInv /\ EquitySettled /\ (phase = "done" => ~Holding(pos))
    /\ [Next]_vars /\ [NoStaleEquity]_vars
  => EquitySettled' /\ (phase = "done" => ~Holding(pos))'
<1> SUFFICES ASSUME IInv, EquitySettled, phase = "done" => ~Holding(pos),
                    [Next]_vars, [NoStaleEquity]_vars
             PROVE  EquitySettled' /\ (phase = "done" => ~Holding(pos))'
  OBVIOUS
<1>1. /\ cash \in Nat /\ pos \in Positions /\ shape \in BarShapes /\ shape.close \in Nat
      /\ cash' \in Nat /\ pos' \in Positions
  BY NextIInv, EngineAssumption DEF IInv, TypeOK, Shapes
<1>2. CASE CheckStops
  <2>1. phase = "stops" /\ phase' = "signal" /\ equity' = equity
    BY <1>2 DEF CheckStops
  <2>2. \/ exitKind' # ""
        \/ UNCHANGED <<cash, pos>>
    BY <1>2 DEF CheckStops, Close
  <2> QED
    BY <2>1, <2>2 DEF EquitySettled, Holding
<1>3. CASE ProcessSignal
  <2>1. /\ phase = "signal" /\ phase' = "stops" /\ bar' = bar + 1 /\ bar \in Nat
        /\ \/ equity' = cash' + pos'.qty * shape.close
           \/ SkipBar /\ ~Holding(pos)
    <3>1. phase = "signal" /\ bar \in Nat
      <4>1. bar \in 0 .. Bars /\ Bars \in Nat
        BY EngineAssumption DEF IInv, TypeOK
      <4>2. phase = "signal"
        BY <1>3 DEF ProcessSignal
      <4> QED
        BY <4>1, <4>2
    <3> QED
      BY <1>3, <3>1, SignalKeepsIInv
  <2>2. ASSUME equity' = cash' + pos'.qty * shape.close, ~Holding(pos') PROVE equity' = cash'
    <3>1. pos'.qty = 0
      BY <1>1, <2>2 DEF Holding, Positions
    <3> QED
      BY <1>1, <2>2, <3>1
  <2>3. ASSUME SkipBar, ~Holding(pos) PROVE equity' = cash'
    <3>1. bar' # bar
      BY <2>1
    <3>2. NoStaleEquity
      BY <3>1 DEF vars
    <3>3. equity = cash
      BY <2>1, <2>3, <3>2 DEF NoStaleEquity, EquitySettled
    <3> QED
      BY <2>3, <3>3 DEF SkipBar
  <2>4. ~Holding(pos') => equity' = cash'
    BY <2>1, <2>2, <2>3
  <2> QED
    BY <2>1, <2>4 DEF EquitySettled, Holding
<1>4. CASE EndOfData
  <2>1. /\ phase = "stops" /\ phase' = "done"
        /\ \/ ~Holding(pos) /\ UNCHANGED <<cash, pos, equity>>
           \/ pos' = NoPosition /\ equity' = cash'
    BY <1>4, EndKeepsIInv DEF EndOfData
  <2>2. ~Holding(NoPosition)
    BY DEF NoPosition, Holding
  <2> QED
    BY <2>1, <2>2 DEF EquitySettled, Holding
<1>5. CASE UNCHANGED vars
  BY <1>5 DEF vars, EquitySettled, Holding
<1> QED
  BY <1>2, <1>3, <1>4, <1>5 DEF Next

\* The final equity of a backtest is its capital and the sum of its trades'
\* pnl, on every run on which no bar leaves its exit out of the equity.
THEOREM FinalEquity == Spec /\ [][NoStaleEquity]_vars => []FinalEquityIsPnl
<1>1. Init => EquitySettled /\ (phase = "done" => ~Holding(pos))
  BY DEF Init, EquitySettled
<1>2. IInv /\ EquitySettled /\ (phase = "done" => ~Holding(pos)) => FinalEquityIsPnl
  <2> SUFFICES ASSUME IInv, EquitySettled, ~Holding(pos), phase = "done"
               PROVE  equity = InitialCapital + realised
    BY DEF FinalEquityIsPnl
  <2>1. equity = cash /\ pos = NoPosition /\ cash \in Nat
    BY DEF EquitySettled, IInv, NothingHeld, TypeOK
  <2>2. pos.cost = 0 /\ pos.fee = 0
    BY <2>1 DEF NoPosition
  <2>3. cash + pos.cost + pos.fee = InitialCapital + realised
    BY DEF IInv, AccountAddsUp
  <2> QED
    BY <2>1, <2>2, <2>3
<1> QED
  BY <1>1, <1>2, SettledNext, BacktestInvariant, PTL DEF Spec

(***************************************************************************)
(* The loss of a basket that is stopped.                                   *)
(***************************************************************************)

\* A price rounded down per unit, and the total rounded down once: for q units
\* of a total of c, less a share.
LEMMA ShareOfAverage ==
  ASSUME NEW c \in Nat, NEW q \in Nat, q > 0, NEW keep \in 0 .. 100
  PROVE  LET unit == (c * keep) \div (100 * q)
             total == (c * keep) \div 100
         IN unit \in Nat /\ total \in Nat /\ unit * q \in Nat
            /\ unit * q <= total /\ total < unit * q + q
<1>1. PICK x \in Nat : x = c * keep
  BY ProductNat
<1>2. PICK unit \in Nat : unit = x \div (100 * q)
  BY QuotientNat
<1>3. unit * (100 * q) <= x /\ x < unit * (100 * q) + 100 * q
  BY <1>1, <1>2, QuotientBounds
<1>4. PICK amount \in Nat : amount = unit * q
  BY <1>2, ProductNat
<1>5. unit * (100 * q) = 100 * amount
  BY <1>2, <1>4, SMT
<1>6. PICK total \in Nat : total = x \div 100
  BY <1>1, PercentBounds
<1>7. total * 100 <= x /\ x < total * 100 + 100
  BY <1>1, <1>6, PercentBounds
<1>8. 100 * amount <= x /\ x < 100 * amount + 100 * q
  BY <1>3, <1>5
<1>9. amount <= total /\ total < amount + q
  BY <1>1, <1>4, <1>6, <1>7, <1>8
<1> QED
  BY <1>1, <1>2, <1>4, <1>6, <1>9

\* A price less a share per unit, against an amount near its total less the
\* same share: the distance between the two grows by at most a unit each.
LEMMA ShareOfPrice ==
  ASSUME NEW price \in Nat, NEW q \in Nat, q > 0, NEW keep \in 0 .. 100,
         NEW near \in Nat, NEW slack \in Nat,
         price * q <= near, near <= price * q + slack
  PROVE  LET unit == (price * keep) \div 100
             total == (near * keep) \div 100
         IN unit \in Nat /\ total \in Nat /\ unit * q \in Nat
            /\ unit * q <= total /\ total <= unit * q + q + slack
<1>1. PICK x \in Nat : x = price * keep
  BY ProductNat
<1>2. PICK unit \in Nat : unit = x \div 100
  BY <1>1, PercentBounds
<1>3. unit * 100 <= x /\ x < unit * 100 + 100
  BY <1>1, <1>2, PercentBounds
<1>4. PICK amount \in Nat : amount = unit * q
  BY <1>2, ProductNat
<1>5. PICK paid \in Nat : paid = price * q
  BY ProductNat
<1>6. PICK y \in Nat : y = near * keep
  BY ProductNat
<1>7. PICK total \in Nat : total = y \div 100
  BY <1>6, PercentBounds
<1>8. total * 100 <= y /\ y < total * 100 + 100
  BY <1>6, <1>7, PercentBounds
<1>9. x * q = paid * keep
  <2>1. (price * keep) * q = (price * q) * keep
    BY SMT
  <2> QED
    BY <1>1, <1>5, <2>1
<1>10. 100 * amount <= x * q /\ x * q <= 100 * amount + 100 * q
  <2>1. (unit * 100) * q <= x * q
    BY <1>1, <1>2, <1>3, ProductMono
  <2>2. x * q <= (unit * 100 + 100) * q
    BY <1>1, <1>2, <1>3, ProductMono
  <2>3. (unit * 100) * q = 100 * (unit * q) /\ (unit * 100 + 100) * q = 100 * (unit * q) + 100 * q
    BY <1>2, SMT
  <2> QED
    BY <1>4, <2>1, <2>2, <2>3
<1>11. paid * keep <= y /\ y <= paid * keep + 100 * slack
  <2>1. paid * keep <= near * keep
    BY <1>5, ProductMono
  <2>2. near * keep <= (paid + slack) * keep
    BY <1>5, ProductMono
  <2>3. (paid + slack) * keep = paid * keep + slack * keep
    BY <1>5, SMT
  <2>4. slack * keep <= slack * 100
    BY SMT
  <2>5. paid * keep \in Nat /\ slack * keep \in Nat
    BY <1>5, ProductNat
  <2> QED
    BY <1>6, <2>1, <2>2, <2>3, <2>4, <2>5
<1>12. PICK z \in Nat : z = x * q
  BY <1>1, ProductNat
<1>13. /\ 100 * amount <= z /\ z <= 100 * amount + 100 * q
       /\ z <= y /\ y <= z + 100 * slack
  BY <1>9, <1>10, <1>11, <1>12
<1>14. amount <= total /\ total <= amount + q + slack
  BY <1>4, <1>6, <1>7, <1>8, <1>12, <1>13
<1> QED
  BY <1>1, <1>2, <1>4, <1>6, <1>7, <1>14

\* What is left of an amount after its fee, against an amount near it less
\* the same share.
LEMMA ShareOfSale ==
  ASSUME NEW amount \in Nat, NEW near \in Nat, NEW slack \in Nat,
         amount <= near, near <= amount + slack
  PROVE  LET kept == amount - FeeOf(amount)
             total == (near * (100 - FeePct)) \div 100
         IN kept \in Nat /\ total \in Nat /\ kept <= total + 1 /\ total <= kept + slack
<1>1. FeePct \in Nat /\ 100 - FeePct \in Nat /\ 100 - FeePct <= 100
  BY EngineAssumption
<1>2. PICK keep \in 0 .. 100 : keep = 100 - FeePct
  BY <1>1
<1>3. PICK x \in Nat : x = amount * FeePct
  BY <1>1, ProductNat
<1>4. PICK fee \in Nat : fee = FeeOf(amount) /\ fee <= amount
  BY FeeBound
<1>5. fee * 100 <= x /\ x < fee * 100 + 100
  BY <1>3, <1>4, PercentBounds DEF FeeOf
<1>6. PICK y \in Nat : y = amount * keep
  BY <1>2, ProductNat
<1>7. x + y = 100 * amount
  <2>1. amount * FeePct + amount * (100 - FeePct) = 100 * amount
    BY <1>1, SMT
  <2> QED
    BY <1>2, <1>3, <1>6, <2>1
<1>8. PICK z \in Nat : z = near * keep
  BY <1>2, ProductNat
<1>9. PICK total \in Nat : total = z \div 100
  BY <1>8, PercentBounds
<1>10. total * 100 <= z /\ z < total * 100 + 100
  BY <1>8, <1>9, PercentBounds
<1>11. y <= z /\ z <= y + 100 * slack
  <2>1. amount * keep <= near * keep
    BY <1>2, ProductMono
  <2>2. near * keep <= (amount + slack) * keep
    BY <1>2, ProductMono
  <2>3. (amount + slack) * keep = amount * keep + slack * keep
    BY <1>2, SMT
  <2>4. slack * keep <= slack * 100 /\ slack * keep \in Nat
    BY <1>2, ProductNat, SMT
  <2> QED
    BY <1>6, <1>8, <2>1, <2>2, <2>3, <2>4
<1>12. /\ amount - fee \in Nat
       /\ amount - fee <= total + 1 /\ total <= (amount - fee) + slack
  BY <1>3, <1>4, <1>5, <1>6, <1>7, <1>8, <1>9, <1>10, <1>11
<1> QED
  BY <1>2, <1>4, <1>8, <1>9, <1>12

\* A step that reports a stop sold the position at its stop.
LEMMA StopSells ==
  ASSUME IInv, Next, exitKind' = "stop_loss"
  PROVE  Holding(pos) /\ cash' = cash + Proceeds(pos, SellPrice(pos.stop))
<1>1. ProcessSignal => exitKind' \in {"", "signal"}
  BY DEF ProcessSignal, OnSignal, Nothing, SkipBar, Buy, Close
<1>2. EndOfData => exitKind' \in {"", "end_of_data"}
  BY DEF EndOfData, Nothing, Close
<1>3. CheckStops
  BY <1>1, <1>2 DEF Next
<1> QED
  BY <1>3 DEF CheckStops, Close

\* A basket that is stopped loses the stop's share of what was paid for it and
\* the slippage and the fee of the sale, give or take three units per lot,
\* with however many fills and at whatever prices it was built.
THEOREM GridLossIsShare == Spec => GridLossIsStopShare
<1> DEFINE less(a, pct) == (a * (100 - pct)) \div 100
           kept == less(less(less(pos.cost, GridStopPct), SlippagePct), FeePct)
           Loss == (exitKind' = "stop_loss" /\ pos.grid # NoGrid) =>
                     cash' - cash \in kept - 3 * pos.qty .. kept + 3 * pos.qty
<1>1. ASSUME IInv, Next, exitKind' = "stop_loss", pos.grid # NoGrid
      PROVE  cash' - cash \in kept - 3 * pos.qty .. kept + 3 * pos.qty
  <2>1. /\ pos \in Positions /\ Holding(pos)
        /\ cash \in Nat /\ cash' = cash + Proceeds(pos, SellPrice(pos.stop))
        /\ pos.stop = (pos.cost * (100 - GridStopPct)) \div (100 * pos.qty)
    BY <1>1, StopSells DEF IInv, TypeOK, GridStopAnchored
  <2>2. PICK cost, qty, unit \in Nat : cost = pos.cost /\ qty = pos.qty /\ unit = pos.stop
    BY <2>1 DEF Positions
  <2>3. qty > 0
    BY <2>1, <2>2 DEF Holding
  <2>4. /\ 100 - GridStopPct \in 0 .. 100 /\ 100 - SlippagePct \in 0 .. 100
    BY EngineAssumption
  <2>5. PICK k1 \in Nat : k1 = less(cost, GridStopPct)
    BY <2>4, ShareOfAverage, <2>3
  <2>6. unit * qty \in Nat /\ unit * qty <= k1 /\ k1 <= unit * qty + qty
    <3>1. PICK keep \in 0 .. 100 : keep = 100 - GridStopPct
      BY <2>4
    <3>2. unit = (cost * keep) \div (100 * qty) /\ k1 = (cost * keep) \div 100
      BY <2>1, <2>2, <2>5, <3>1
    <3>3. /\ (cost * keep) \div 100 < ((cost * keep) \div (100 * qty)) * qty + qty
          /\ ((cost * keep) \div (100 * qty)) * qty <= (cost * keep) \div 100
      BY <2>3, ShareOfAverage
    <3>4. PICK amount \in Nat : amount = unit * qty
      BY ProductNat
    <3>5. amount <= k1 /\ k1 < amount + qty
      BY <3>2, <3>3, <3>4
    <3> QED
      BY <3>4, <3>5
  <2>7. PICK price \in Nat : price = SellPrice(unit)
    BY FillPrices
  <2>8. PICK k2 \in Nat : k2 = less(k1, SlippagePct)
    BY <2>3, <2>4, <2>6, ShareOfPrice
  <2>9. price * qty \in Nat /\ price * qty <= k2 /\ k2 <= price * qty + qty + qty
    BY <2>3, <2>4, <2>6, <2>7, <2>8, ShareOfPrice DEF SellPrice
  <2>10. PICK amount \in Nat : amount = price * qty
    BY <2>9
  <2>11. PICK got \in Nat : got = amount - FeeOf(amount)
    BY FeeBound
  <2>12. PICK k3 \in Nat : k3 = less(k2, FeePct)
    BY PercentBound, EngineAssumption
  <2>13. amount <= k2 /\ k2 <= amount + (qty + qty) /\ qty + qty \in Nat
    BY <2>9, <2>10
  <2>14. got <= k3 + 1 /\ k3 <= got + (qty + qty)
    BY <2>11, <2>12, <2>13, ShareOfSale
  <2>15. Proceeds(pos, SellPrice(pos.stop)) = got
    BY <2>2, <2>7, <2>10, <2>11 DEF Proceeds
  <2>16. kept = k3
    BY <2>2, <2>5, <2>8, <2>12
  <2> HIDE DEF kept
  <2>17. cash' - cash = got
    BY <2>1, <2>15
  <2>18. got \in k3 - 3 * qty .. k3 + 3 * qty
    BY <2>3, <2>14
  <2> QED
    BY <2>2, <2>16, <2>17, <2>18
<1>2. IInv /\ [Next]_vars => [Loss]_vars
  BY <1>1
<1>3. Spec => [][Loss]_vars
  BY <1>2, BacktestInvariant, PTL DEF Spec
<1> QED
  BY <1>3 DEF GridLossIsStopShare

(***************************************************************************)
(* The allocation of a basket.                                             *)
(***************************************************************************)

\* A scale-in spends at most the room its basket has left.
LEMMA ScaleInFitsRoom ==
  ASSUME cash \in Nat, NEW p \in Positions, Holding(p), NEW account \in Nat,
         NEW sig \in EngineSignals, sig.target # NoShare, sig.allocation > 0,
         MaxInvest(sig, account, p) > 0
  PROVE  100 * (p.cost + MaxInvest(sig, account, p)) <= sig.allocation * account
<1>1. sig.allocation \in Nat /\ sig.target \in Nat /\ p.cost \in Nat
  BY DEF EngineSignals, Positions
<1>2. PICK x \in Nat : x = account * sig.allocation
  BY <1>1, ProductNat
<1>3. PICK room \in Nat : room = x \div 100
  BY <1>2, PercentBounds
<1>4. room * 100 <= x
  BY <1>2, <1>3, PercentBounds
<1>5. PICK wanted \in Nat : wanted = (account * sig.target) \div 100
  BY <1>1, ProductNat, PercentBounds
<1>6. MaxInvest(sig, account, p) = Least(Least(wanted, AtLeast0(room - p.cost)), cash)
  BY <1>2, <1>3, <1>5 DEF MaxInvest
<1>7. PICK invest : invest = MaxInvest(sig, account, p)
  OBVIOUS
<1>8. invest <= AtLeast0(room - p.cost) /\ invest > 0 /\ invest \in Nat
  BY <1>1, <1>3, <1>5, <1>6, <1>7 DEF Least, AtLeast0
<1>9. p.cost + invest <= room
  BY <1>1, <1>3, <1>8 DEF AtLeast0
<1>10. x = sig.allocation * account
  BY <1>1, <1>2, SMT
<1>11. 100 * (p.cost + invest) <= x
  BY <1>1, <1>2, <1>3, <1>4, <1>8, <1>9
<1> QED
  BY <1>7, <1>10, <1>11

\* A position grows only by a scale-in of its own basket.
LEMMA GrowsByScaleIn ==
  ASSUME IInv, Next, Holding(pos), pos'.qty > pos.qty
  PROVE  \E sig \in Signals[strategy] :
           /\ IsScaleIn(sig) /\ sig \in EngineSignals
           /\ BuyQty(sig, AccountEquity, pos) > 0
           /\ Buy(sig, BuyQty(sig, AccountEquity, pos))
<1>1. pos.qty \in Nat /\ NoPosition.qty = 0 /\ strategy \in DOMAIN Signals
  BY DEF IInv, TypeOK, Positions, NoPosition
<1>2. pos' # NoPosition /\ pos' # pos
  BY <1>1 DEF Holding
<1>3. ~CheckStops /\ ~EndOfData
  BY <1>2 DEF CheckStops, EndOfData, Close, Nothing
<1>4. PICK sig \in Signals[strategy] : OnSignal(sig)
  BY <1>2, <1>3 DEF Next, ProcessSignal, Nothing
<1>5. sig \in EngineSignals
  BY <1>1, SignalTyped
<1> QED
  BY <1>2, <1>4, <1>5 DEF OnSignal, Nothing, Close

\* A scale-in never takes a basket over its allocation of the account, as the
\* account stands on its bar, when every scale-in says what share of the
\* account it wants and what its basket may hold.
THEOREM AllocationIsKept ==
  ASSUME \A s \in DOMAIN Signals : \A sig \in Signals[s] :
           IsScaleIn(sig) => sig.target # NoShare /\ sig.allocation > 0
  PROVE  Spec => AllocationKept
<1> DEFINE Kept == (Holding(pos) /\ pos'.qty > pos.qty) =>
                     100 * pos'.cost <= pos'.cap * AccountEquity
<1>1. ASSUME IInv, Next, Holding(pos), pos'.qty > pos.qty
      PROVE  100 * pos'.cost <= pos'.cap * AccountEquity
  <2>1. PICK sig \in Signals[strategy] :
          /\ IsScaleIn(sig) /\ sig \in EngineSignals
          /\ BuyQty(sig, AccountEquity, pos) > 0
          /\ Buy(sig, BuyQty(sig, AccountEquity, pos))
    BY <1>1, GrowsByScaleIn
  <2>2. /\ strategy \in DOMAIN Signals /\ cash \in Nat /\ pos \in Positions
        /\ shape \in BarShapes /\ pos.qty \in Nat /\ pos.cost \in Nat
    BY <1>1 DEF IInv, TypeOK, Positions
  <2>3. PICK account \in Nat : account = AccountEquity
    <3>1. shape.close \in Nat
      BY <2>2, EngineAssumption DEF Shapes
    <3>2. pos.qty * shape.close \in Nat
      BY <2>2, <3>1, ProductNat
    <3> QED
      BY <2>2, <3>2 DEF AccountEquity
  <2>4. sig.target # NoShare /\ sig.allocation > 0 /\ sig.allocation \in Nat
    BY <2>1, <2>2 DEF EngineSignals
  <2>5. PICK qty : qty = BuyQty(sig, account, pos)
    OBVIOUS
  <2>6. PICK value : value = BuyPrice(sig.price) * qty
    OBVIOUS
  <2>7. PICK invest : invest = MaxInvest(sig, account, pos)
    OBVIOUS
  <2>8. /\ qty \in Nat /\ qty > 0 /\ value \in Nat /\ FeeOf(value) \in Nat
        /\ value + FeeOf(value) <= invest /\ invest \in Nat
    BY <2>1, <2>2, <2>3, <2>5, <2>6, <2>7, BuyCosts, InvestBound
  <2>9. pos' = Filled(pos, sig, qty)
    BY <2>1, <2>3, <2>5 DEF Buy
  <2>10. pos'.cost = pos.cost + value /\ pos'.cap = sig.allocation
    BY <1>1, <2>1, <2>2, <2>6, <2>8, <2>9, FillAdds
  <2>11. value > 0
    <3>1. PICK price \in Nat : price = BuyPrice(sig.price) /\ price > 0
      BY <2>1, FillPrices DEF EngineSignals
    <3>2. price * qty > 0
      BY <2>8, <3>1, SMT
    <3> QED
      BY <2>6, <3>1, <3>2
  <2>12. invest > 0
    BY <2>8, <2>11
  <2>13. 100 * (pos.cost + invest) <= sig.allocation * account
    BY <1>1, <2>1, <2>2, <2>4, <2>7, <2>12, ScaleInFitsRoom
  <2>14. PICK cap \in Nat : cap = sig.allocation * account
    BY <2>4, ProductNat
  <2>15. 100 * (pos.cost + value) <= cap
    BY <2>2, <2>8, <2>13, <2>14
  <2> QED
    BY <2>3, <2>10, <2>14, <2>15
<1>2. IInv /\ [Next]_vars => [Kept]_vars
  BY <1>1
<1>3. Spec => [][Kept]_vars
  BY <1>2, BacktestInvariant, PTL DEF Spec
<1> QED
  BY <1>3 DEF AllocationKept

=============================================================================
