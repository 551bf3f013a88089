---------------------------- MODULE BacktestEngine ----------------------------
(***************************************************************************)
(* The candle loop of app/backtesting/engine.py: one long position, stops  *)
(* and targets checked on the bar's low and high, then at most one signal  *)
(* of the bar, then a point of the equity curve; what is still open is     *)
(* closed after the last bar.                                              *)
(*                                                                         *)
(* As in PaperBroker a position is kept by its total cost, so that the     *)
(* average entry price of several fills needs no division.  Quantities are *)
(* whole; the instances choose amounts large enough for the rest not to    *)
(* turn an order into none.                                                *)
(***************************************************************************)
EXTENDS Integers, Sequences, FiniteSets

CONSTANTS
  Bars,             \* bound: the number of candles
  BarShapes,        \* candles: low, high, close
  Signals,          \* for each strategy, the signals it may emit on a bar
  InitialCapital, FeePct, SlippagePct,
  SizePct,          \* max_position_size_pct
  DefaultStopPct,   \* default_stop_loss_pct and default_take_profit_pct, 0 = none
  DefaultTargetPct,
  GridStopPct,      \* stop_loss_pct and take_profit_pct of a grid strategy
  GridTargetPct

NoGrid == 0
NoPrice == 0     \* None for a stop or a target
NoShare == -1    \* no target_notional_pct in the metadata

\* A candle, and a signal with the metadata the engine reads.
Shapes == [low : Nat \ {0}, high : Nat \ {0}, close : Nat \ {0}]

EngineSignals ==
  [ type : {"BUY", "SELL"}, action : {"none", "open", "scale_in", "take_profit", "stop_exit"},
    grid : Nat, price : Nat \ {0}, target : Nat \cup {NoShare}, allocation : Nat,
    stop : Nat, profit : Nat ]

ASSUME EngineAssumption ==
  /\ Bars \in Nat \ {0} /\ InitialCapital \in Nat
  /\ FeePct \in 0 .. 100 /\ SlippagePct \in 0 .. 100 /\ SizePct \in 0 .. 100
  /\ DefaultStopPct \in 0 .. 100 /\ DefaultTargetPct \in Nat
  /\ GridStopPct \in 0 .. 100 /\ GridTargetPct \in Nat
  /\ BarShapes \subseteq Shapes
  /\ \A s \in DOMAIN Signals : Signals[s] \subseteq EngineSignals

VARIABLES
  strategy,  \* the strategy under test
  bar,       \* candles fully processed
  phase,     \* "stops" before the bar's exits, "signal" after them, "done"
  shape,     \* the candle under way
  cash, pos, \* the account
  realised,  \* the sum of the pnl of the trades
  equity,    \* the variable final_equity is read from
  points,    \* Len(equity_curve)
  exitKind   \* history: how the last step closed a position, "" when it did not

vars == <<strategy, bar, phase, shape, cash, pos, realised, equity, points, exitKind>>

NoPosition == [qty |-> 0, cost |-> 0, fee |-> 0, stop |-> NoPrice, target |-> NoPrice,
               grid |-> NoGrid, cap |-> 0]
Positions == [qty : Nat, cost : Nat, fee : Nat, stop : Nat, target : Nat, grid : Nat, cap : Nat]
Holding(p) == p.qty > 0

Least(a, b) == IF a <= b THEN a ELSE b
AtLeast0(a) == IF a >= 0 THEN a ELSE 0

BuyPrice(p)  == (p * (100 + SlippagePct)) \div 100
SellPrice(p) == (p * (100 - SlippagePct)) \div 100
FeeOf(amount) == (amount * FeePct) \div 100

-----------------------------------------------------------------------------
(* Sizing and stops *)

\* _buy_fill: what a BUY may spend, fee included.  A grid order is a share of
\* the account, within what its basket may still hold and within the cash.
MaxInvest(sig, account, p) ==
  IF sig.target = NoShare THEN (cash * SizePct) \div 100
  ELSE LET wanted == (account * sig.target) \div 100
           remaining == AtLeast0((account * sig.allocation) \div 100 - p.cost)
       IN Least(IF Holding(p) /\ sig.allocation > 0 THEN Least(wanted, remaining)
                                                    ELSE wanted,
                cash)

BuyQty(sig, account, p) ==
  (100 * MaxInvest(sig, account, p)) \div (BuyPrice(sig.price) * (100 + FeePct))

\* _refresh_grid_stops: the stop and the target of a basket follow its average.
RefreshGridStops(p) ==
  IF p.grid = NoGrid THEN p
  ELSE [p EXCEPT !.stop = (p.cost * (100 - GridStopPct)) \div (100 * p.qty),
                 !.target = (p.cost * (100 + GridTargetPct)) \div (100 * p.qty)]

Or(a, b) == IF a # NoPrice THEN a ELSE b
DefaultStop(price) ==
  IF DefaultStopPct = 0 THEN NoPrice ELSE (price * (100 - DefaultStopPct)) \div 100
DefaultTarget(price) ==
  IF DefaultTargetPct = 0 THEN NoPrice ELSE (price * (100 + DefaultTargetPct)) \div 100

\* Fault: the stops stay where the first fill put them.
FilledStale(p, sig, qty) ==
  LET price == BuyPrice(sig.price)
      value == price * qty
  IN IF Holding(p)
     THEN [p EXCEPT !.qty = @ + qty, !.cost = @ + value, !.fee = @ + FeeOf(value)]
     ELSE RefreshGridStops(
            [qty |-> qty, cost |-> value, fee |-> FeeOf(value),
             stop |-> Or(sig.stop, DefaultStop(price)),
             target |-> Or(sig.profit, DefaultTarget(price)),
             grid |-> sig.grid, cap |-> sig.allocation])

\* Fault: of the entry fees only the last is kept.
FilledFeeless(p, sig, qty) ==
  LET price == BuyPrice(sig.price)
      value == price * qty
  IN RefreshGridStops(
       [qty |-> p.qty + qty, cost |-> p.cost + value, fee |-> FeeOf(value),
        stop |-> Or(sig.stop, DefaultStop(price)),
        target |-> Or(sig.profit, DefaultTarget(price)),
        grid |-> sig.grid, cap |-> sig.allocation])

\* The position after a fill of qty: a new one, or the old one with a new
\* average and, where the signal gives them, new stops.
Filled(p, sig, qty) ==
  LET price == BuyPrice(sig.price)
      value == price * qty
  IN RefreshGridStops(
       IF Holding(p)
       THEN [p EXCEPT !.qty = @ + qty, !.cost = @ + value, !.fee = @ + FeeOf(value),
                      !.stop = Or(sig.stop, @), !.target = Or(sig.profit, @),
                      !.cap = sig.allocation]
       ELSE [qty |-> qty, cost |-> value, fee |-> FeeOf(value),
             stop |-> Or(sig.stop, DefaultStop(price)),
             target |-> Or(sig.profit, DefaultTarget(price)),
             grid |-> sig.grid, cap |-> sig.allocation])

-----------------------------------------------------------------------------
(* Closing *)

\* What a sale at a fill price brings, and the pnl a trade books for it.
Proceeds(p, price) == price * p.qty - FeeOf(price * p.qty)

\* Fault: the entry fees of the position are forgotten.
PnlGross(p, price) == Proceeds(p, price) - p.cost

Pnl(p, price) == Proceeds(p, price) - p.cost - p.fee

Close(price, kind) ==
  /\ cash' = cash + Proceeds(pos, price)
  /\ realised' = realised + Pnl(pos, price)
  /\ pos' = NoPosition
  /\ exitKind' = kind

StopHit(b)   == pos.stop # NoPrice /\ b.low <= pos.stop
TargetHit(b) == pos.target # NoPrice /\ b.high >= pos.target

\* A new candle: on a bar that reaches both, the stop is what counts.
CheckStops ==
  /\ phase = "stops" /\ bar < Bars
  /\ \E b \in BarShapes :
       /\ shape' = b
       /\ \/ /\ Holding(pos) /\ StopHit(b)
             /\ Close(SellPrice(pos.stop), "stop_loss")
          \/ /\ Holding(pos) /\ ~StopHit(b) /\ TargetHit(b)
             /\ Close(SellPrice(pos.target), "take_profit")
          \/ /\ ~Holding(pos) \/ (~StopHit(b) /\ ~TargetHit(b))
             /\ exitKind' = "" /\ UNCHANGED <<cash, pos, realised>>
  /\ phase' = "signal"
  /\ UNCHANGED <<strategy, bar, equity, points>>

-----------------------------------------------------------------------------
(* The bar's signal *)

\* The end of a bar: a point on the curve, marked at the close.
EndBar(close, newCash, newPos) ==
  /\ equity' = newCash + newPos.qty * close
  /\ points' = points + 1
  /\ bar' = bar + 1 /\ phase' = "stops"

\* A BUY that would buy nothing ends the bar without touching equity.  Only a
\* strategy whose every order is for nothing gets here, and it never trades.
SkipBar ==
  /\ points' = points + 1
  /\ bar' = bar + 1 /\ phase' = "stops"
  /\ exitKind' = "" /\ UNCHANGED <<cash, pos, realised, equity>>

Buy(sig, qty) ==
  LET value == BuyPrice(sig.price) * qty IN
  /\ cash' = cash - value - FeeOf(value)
  /\ pos' = Filled(pos, sig, qty)
  /\ exitKind' = "" /\ UNCHANGED realised

IsScaleIn(sig) == sig.type = "BUY" /\ sig.action = "scale_in" /\ sig.grid # NoGrid

Nothing == exitKind' = "" /\ UNCHANGED <<cash, pos, realised>>

\* The account equity a scale-in is sized by.
AccountEquity == cash + pos.qty * shape.close

OnSignal(sig) ==
  \/ /\ ~Holding(pos) /\ sig.type = "BUY"
     /\ LET qty == BuyQty(sig, cash, pos) IN
          \/ qty > 0 /\ Buy(sig, qty) /\ EndBar(shape.close, cash', pos')
          \/ qty <= 0 /\ SkipBar
  \/ /\ ~Holding(pos) /\ sig.type = "SELL"
     /\ Nothing /\ EndBar(shape.close, cash, pos)
  \/ /\ Holding(pos) /\ sig.type = "BUY"
     /\ LET qty == BuyQty(sig, AccountEquity, pos) IN
          IF IsScaleIn(sig) /\ sig.grid = pos.grid /\ qty > 0
          THEN Buy(sig, qty) ELSE Nothing
     /\ EndBar(shape.close, cash', pos')
  \/ /\ Holding(pos) /\ sig.type = "SELL"
     /\ Close(SellPrice(sig.price), "signal")
     /\ EndBar(shape.close, cash', pos')

\* A bar has at most one signal, the first mapped to it (see StrategySignals).
ProcessSignal ==
  /\ phase = "signal"
  /\ \/ Nothing /\ EndBar(shape.close, cash, pos)
     \/ \E sig \in Signals[strategy] : sig.price = shape.close /\ OnSignal(sig)
  /\ UNCHANGED <<strategy, shape>>

\* After the last candle the rest is closed at its close, without slippage.
EndOfData ==
  /\ phase = "stops" /\ bar = Bars
  /\ IF Holding(pos)
     THEN Close(shape.close, "end_of_data") /\ equity' = cash'
     ELSE Nothing /\ UNCHANGED equity
  /\ phase' = "done"
  /\ UNCHANGED <<strategy, bar, shape, points>>

-----------------------------------------------------------------------------
Init ==
  /\ strategy \in DOMAIN Signals
  /\ bar = 0 /\ phase = "stops" /\ shape \in BarShapes
  /\ cash = InitialCapital /\ pos = NoPosition /\ realised = 0
  /\ equity = InitialCapital /\ points = 1 /\ exitKind = ""

Next == CheckStops \/ ProcessSignal \/ EndOfData

Spec == Init /\ [][Next]_vars

-----------------------------------------------------------------------------
(* Properties *)

\* The shape of the account and of the loop.
TypeOK ==
  /\ strategy \in DOMAIN Signals
  /\ bar \in 0 .. Bars /\ phase \in {"stops", "signal", "done"}
  /\ shape \in BarShapes
  /\ cash \in Nat /\ realised \in Int /\ equity \in Nat /\ points \in Nat
  /\ pos \in Positions
  /\ exitKind \in {"", "stop_loss", "take_profit", "signal", "end_of_data"}

\* What the metrics read twice, from the trades and from the account, is one
\* number: the final equity is the capital and the sum of the trades' pnl.
FinalEquityIsPnl ==
  phase = "done" => equity = InitialCapital + realised /\ ~Holding(pos)

\* One point per candle and the initial one, whatever path a bar took: the
\* curve's returns and drawdown are those of the candles.
CurvePerCandle == points = bar + 1

\* A scale-in never takes the basket over its allocation of the account.
AllocationKept ==
  [][(Holding(pos) /\ pos'.qty > pos.qty) =>
       100 * pos'.cost <= pos'.cap * AccountEquity]_vars

\* A basket closed by its stop loses the stop's share of all that was paid for
\* it, and the slippage and fees of the sale, no more and no less, with however
\* many fills and at whatever prices it was built.  A few units per lot are
\* rounding.
GridLossIsStopShare ==
  [][(exitKind' = "stop_loss" /\ pos.grid # NoGrid) =>
       LET less(a, pct) == (a * (100 - pct)) \div 100
           kept == less(less(less(pos.cost, GridStopPct), SlippagePct), FeePct)
       IN cash' - cash \in kept - 3 * pos.qty .. kept + 3 * pos.qty]_vars

\* The backtest implements the ledger that paper trading implements too.
Ledger == INSTANCE PositionLedger WITH
            Symbols <- {"symbol"}, InitialBalance <- InitialCapital,
            invested <- [s \in {"symbol"} |-> pos.cost + pos.fee]

LedgerSpec == Ledger!Spec
=============================================================================
