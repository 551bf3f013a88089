------------------------------ MODULE Orchestrator ------------------------------
(***************************************************************************)
(* The candle pipeline of app/services/orchestrator.py, with the paper     *)
(* broker and the risk engine it drives.                                   *)
(*                                                                         *)
(* process_candle is two steps.  The first admits a closed candle and runs *)
(* the stop-loss / take-profit check; the second runs the strategy's       *)
(* signal through the lifecycle checks, the risk engine and the broker.    *)
(* Between them lies the one await that can suspend the handler, the       *)
(* notification of a stop-loss or take-profit exit: an interrupt there     *)
(* cancels the rest of the candle.                                         *)
(***************************************************************************)
EXTENDS PaperBroker, RiskEngine

CONSTANTS Signals,        \* the signals the strategy may return
          MinBuffer,      \* MIN_CANDLE_BUFFER
          RegimeGating,   \* regime_config is not None
          GridStopPct, GridTargetPct,   \* stop_loss_pct, take_profit_pct of the grid
          MaxLots,        \* bound: lots of a BUY
          MaxOrders,      \* bound: no BUY fills after this many orders
          MaxFaults,      \* bound: strategy errors explored
          NoCandle

ASSUME OrchestratorAssumption ==
  /\ Signals \subseteq StrategySignals
  /\ MinBuffer \in Nat \ {0}
  /\ RegimeGating \in BOOLEAN
  /\ GridStopPct \in 0 .. 100
  /\ GridTargetPct \in Nat
  /\ MaxLots \in Nat
  /\ MaxOrders \in Nat
  /\ MaxFaults \in Nat
  /\ NoCandle \notin Candles

VARIABLES
  running,     \* _running
  processed,   \* _processed_candles
  buffered,    \* length of the candle buffer of each symbol, counted up to MinBuffer
  lastClose,   \* _last_close_prices; 0 before the first candle
  open,        \* the keys of _open_positions
  pos,         \* _open_positions
  current,     \* the candle being processed, NoCandle between candles
  exited,      \* the candle's stop-loss / take-profit check closed a position
  result       \* the action process_candle last returned; "none" while it runs

bookVars   == <<open, pos>>
feedVars   == <<processed, buffered, lastClose>>
handlerVars == <<current, exited, result>>
vars == <<brokerVars, riskVars, running, feedVars, bookVars, handlerVars>>

NoPosition == [ qty |-> 0, cost |-> 0, fee |-> 0, stopLoss |-> 0, takeProfit |-> 0,
                gridId |-> NoGrid, levels |-> {} ]

Positions == [ qty : Nat, cost : Nat, fee : Nat, stopLoss : Nat, takeProfit : Nat,
               gridId : GridIds \cup {NoGrid}, levels : SUBSET GridLevels ]

Results == { "none", "stopped", "kill_switch", "duplicate", "buffering", "regime_blocked",
             "strategy_error", "no_signal", "lifecycle_blocked", "risk_rejected",
             "execution_error", "order_rejected", "trade_executed" }

TypeOK ==
  /\ BrokerTypeOK
  /\ RiskTypeOK
  /\ running \in BOOLEAN
  /\ processed \subseteq Symbols \X Times
  /\ buffered \in [Symbols -> 0 .. MinBuffer]
  /\ lastClose \in [Symbols -> Nat]
  /\ open \subseteq Symbols
  /\ pos \in [Symbols -> Positions]
  /\ current \in Candles \cup {NoCandle}
  /\ exited \in BOOLEAN
  /\ result \in Results

Init ==
  /\ BrokerInit
  /\ RiskInit
  /\ running = TRUE
  /\ processed = {}
  /\ buffered = [s \in Symbols |-> 0]
  /\ lastClose = [s \in Symbols |-> 0]
  /\ open = {}
  /\ pos = [s \in Symbols |-> NoPosition]
  /\ current = NoCandle
  /\ exited = FALSE
  /\ result = "none"

Idle == current = NoCandle

Return(action) ==
  /\ current' = NoCandle
  /\ exited' = FALSE
  /\ result' = action

-----------------------------------------------------------------------------
(***************************************************************************)
(* Admission of a candle and the stop-loss / take-profit check.            *)
(***************************************************************************)

Key(c) == <<c.symbol, c.time>>

\* The feed delivers the candles of a symbol in order, and may deliver again
\* one that was already processed.
Delivered(c) ==
  \/ Key(c) \in processed
  \/ \A t \in Times : <<c.symbol, t>> \in processed => t < c.time

StopHit(c)   == pos[c.symbol].stopLoss # 0 /\ c.low <= pos[c.symbol].stopLoss
TargetHit(c) == pos[c.symbol].takeProfit # 0 /\ c.high >= pos[c.symbol].takeProfit

\* The stop is looked at before the target: a candle that spans both exits at
\* the stop.
ExitPrice(c) == IF StopHit(c) THEN pos[c.symbol].stopLoss ELSE pos[c.symbol].takeProfit

MustExit(c) == c.symbol \in open /\ (StopHit(c) \/ TargetHit(c))

\* Mutant: the result of a trade leaves out the fee of its entries.
PnlOf_WithoutEntryFee(s, qty, price) == SellNet(qty, price) - pos[s].cost

PnlOf(s, qty, price) == SellNet(qty, price) - pos[s].cost - pos[s].fee

ForgetPosition(s) ==
  /\ open' = open \ {s}
  /\ pos' = [pos EXCEPT ![s] = NoPosition]

\* Mutant: a full exit is not booked in the risk engine.
ClosePosition_Unbooked(s, price, now) ==
  /\ SellFills(s, pos[s].qty, price)
  /\ PositionClosed
  /\ ForgetPosition(s)
  /\ UNCHANGED <<dailyPnl, consecutiveLosses, lastTradeTime, errorCount, killSwitch>>

\* A full exit: the broker sells the whole position and every counter follows.
ClosePosition(s, price, now) ==
  /\ SellFills(s, pos[s].qty, price)
  /\ RecordTradeResult(PnlOf(s, pos[s].qty, price), s, now)
  /\ PositionClosed
  /\ ForgetPosition(s)
  /\ UNCHANGED <<errorCount, killSwitch>>

CandleWhileStopped ==
  /\ Idle
  /\ ~running
  /\ Return("stopped")
  /\ UNCHANGED <<brokerVars, riskVars, running, feedVars, bookVars>>

CandleUnderKillSwitch ==
  /\ Idle
  /\ running
  /\ killSwitch
  /\ Return("kill_switch")
  /\ UNCHANGED <<brokerVars, riskVars, running, feedVars, bookVars>>

\* The mark price is taken from every candle, duplicates included.
MarkPrice(c) == lastClose' = [lastClose EXCEPT ![c.symbol] = c.close]

DuplicateCandle(c) ==
  /\ Idle
  /\ running
  /\ ~killSwitch
  /\ Key(c) \in processed
  /\ MarkPrice(c)
  /\ Return("duplicate")
  /\ UNCHANGED <<brokerVars, riskVars, running, processed, buffered, bookVars>>

Admit(c) ==
  /\ Idle
  /\ running
  /\ ~killSwitch
  /\ Delivered(c)
  /\ Key(c) \notin processed
  /\ MarkPrice(c)
  /\ processed' = processed \cup {Key(c)}
  /\ buffered' = [buffered EXCEPT ![c.symbol] = IF @ < MinBuffer THEN @ + 1 ELSE @]
  /\ UNCHANGED running

AdmitCandle(c) ==
  /\ Admit(c)
  /\ ~MustExit(c)
  /\ current' = c
  /\ exited' = FALSE
  /\ result' = "none"
  /\ UNCHANGED <<brokerVars, riskVars, bookVars>>

\* The position's stop or target was hit: the exit goes to the broker without
\* asking the risk engine.  When the broker refuses, the candle ends there.
AdmitAndExit(c) ==
  /\ Admit(c)
  /\ MustExit(c)
  /\ IF SellCovered(c.symbol, pos[c.symbol].qty)
     THEN /\ ClosePosition(c.symbol, ExitPrice(c), c.time)
          /\ current' = c
          /\ exited' = TRUE
          /\ result' = "none"
     ELSE /\ Return("order_rejected")
          /\ UNCHANGED <<brokerVars, riskVars, bookVars>>

-----------------------------------------------------------------------------
(***************************************************************************)
(* The strategy's signal on the admitted candle.                           *)
(***************************************************************************)

PipelineUnchanged == UNCHANGED <<running, feedVars>>

Buffering ==
  /\ ~Idle
  /\ buffered[current.symbol] < MinBuffer
  /\ Return("buffering")
  /\ PipelineUnchanged
  /\ UNCHANGED <<brokerVars, riskVars, bookVars>>

RegimeBlocked ==
  /\ ~Idle
  /\ buffered[current.symbol] = MinBuffer
  /\ RegimeGating
  /\ Return("regime_blocked")
  /\ PipelineUnchanged
  /\ UNCHANGED <<brokerVars, riskVars, bookVars>>

\* The buffer is long enough and the regime filter let the candle through.
AtStrategy == ~Idle /\ buffered[current.symbol] = MinBuffer

StrategyError ==
  /\ AtStrategy
  /\ errorCount < MaxFaults
  /\ RecordError
  /\ Return("strategy_error")
  /\ PipelineUnchanged
  /\ UNCHANGED <<brokerVars, openPositions, dailyPnl, consecutiveLosses, lastTradeTime,
                 killSwitch, bookVars>>

\* What the candle returns when nothing else happened after the exit check.
QuietResult == IF exited THEN "trade_executed" ELSE "no_signal"

NoSignal ==
  /\ AtStrategy
  /\ Return(QuietResult)
  /\ PipelineUnchanged
  /\ UNCHANGED <<brokerVars, riskVars, bookVars>>

IsGridScaleIn(sig) == IsBuy(sig) /\ sig.action = "scale_in" /\ sig.gridId # NoGrid

IsStaleGridExit(sig) ==
  ~IsBuy(sig) /\ sig.action \in {"take_profit", "stop_exit"} /\ sig.gridId # NoGrid

SellWithoutPosition(sig) ==
  /\ AtStrategy
  /\ ~IsBuy(sig)
  /\ current.symbol \notin open
  /\ Return(IF exited \/ IsStaleGridExit(sig) THEN QuietResult ELSE "lifecycle_blocked")
  /\ PipelineUnchanged
  /\ UNCHANGED <<brokerVars, riskVars, bookVars>>

\* _validate_grid_scale_in returns no reason.
ScaleInValid(s, sig) ==
  /\ s \in open
  /\ sig.gridId = pos[s].gridId
  /\ sig.level \notin pos[s].levels
  /\ sig.projected <= sig.allocation

\* A BUY on an open position must be a valid scale-in.  Without a position the
\* lifecycle check has nothing to say, whatever the signal's grid action.
BuyAllowed(s, sig) == s \in open => IsGridScaleIn(sig) /\ ScaleInValid(s, sig)

LifecycleBlocked(sig) ==
  /\ AtStrategy
  /\ IsBuy(sig)
  /\ ~BuyAllowed(current.symbol, sig)
  /\ Return("lifecycle_blocked")
  /\ PipelineUnchanged
  /\ UNCHANGED <<brokerVars, riskVars, bookVars>>

PastLifecycle(sig) ==
  /\ AtStrategy
  /\ IF IsBuy(sig) THEN BuyAllowed(current.symbol, sig) ELSE current.symbol \in open

Equity == EquityAt(lastClose)

Least(a, b) == IF a <= b THEN a ELSE b

\* What the grid's allocation leaves to invest in the open position of s.
GridRoom(s, sig) ==
  LET ceiling == (Equity * sig.allocation) \div 100
  IN IF ceiling > pos[s].cost THEN ceiling - pos[s].cost ELSE 0

\* Mutant: a scale-in is sized by its own target alone.
BuyBudget_TargetOnly(s, sig) ==
  IF sig.gridId = NoGrid THEN (quote * MaxPositionSizePct) \div 100
  ELSE Least(quote, (Equity * sig.target) \div 100)

\* The quote amount a BUY may spend, fee included.
BuyBudget(s, sig) ==
  LET target == (Equity * sig.target) \div 100
  IN IF sig.gridId = NoGrid THEN (quote * MaxPositionSizePct) \div 100
     ELSE Least(quote, IF s \in open THEN Least(target, GridRoom(s, sig)) ELSE target)

\* Lots are indivisible here: qty is the most the budget buys, fee included.
\* Bound: a budget below one lot is not explored, unless the grid has no room
\* left, where the code submits an order for nothing.
Sized(s, sig, qty) ==
  /\ BuyTotal(qty, sig.price) <= BuyBudget(s, sig)
  /\ BuyBudget(s, sig) < BuyTotal(qty + 1, sig.price)
  /\ qty = 0 => s \in open /\ sig.gridId # NoGrid /\ GridRoom(s, sig) = 0

\* The notional annotated on the signal is the budget again.
SignalApproved(sig) ==
  Approved(sig, current.symbol, current.time, Equity, quote, BuyBudget(current.symbol, sig))

RiskRejected(sig) ==
  /\ PastLifecycle(sig)
  /\ ~SignalApproved(sig)
  /\ Return("risk_rejected")
  /\ PipelineUnchanged
  /\ UNCHANGED <<brokerVars, riskVars, bookVars>>

\* Grid stops are anchored to the weighted average entry.
GridStop(cost, qty)   == (cost * (100 - GridStopPct)) \div (100 * qty)
GridTarget(cost, qty) == (cost * (100 + GridTargetPct) + 100 * qty - 1) \div (100 * qty)

\* Mutant: the stops of a grid position are those its signals carry.
Refreshed_Never(p) == p

Refreshed(p) ==
  IF p.gridId = NoGrid \/ p.qty = 0 THEN p
  ELSE [p EXCEPT !.stopLoss = GridStop(p.cost, p.qty), !.takeProfit = GridTarget(p.cost, p.qty)]

OpenedPosition(sig, qty) ==
  Refreshed([ qty |-> qty, cost |-> BuyCost(qty, sig.price), fee |-> FeeOf(BuyCost(qty, sig.price)),
              stopLoss |-> sig.stopLoss, takeProfit |-> sig.takeProfit,
              gridId |-> sig.gridId,
              levels |-> IF sig.gridId = NoGrid THEN {} ELSE {sig.level} ])

\* Mutants: the fee, or the level, of a scale-in is not recorded.
ScaledPosition_WithoutFee(p, sig, qty) ==
  Refreshed([ p EXCEPT !.qty = @ + qty, !.cost = @ + BuyCost(qty, sig.price),
                       !.levels = @ \cup {sig.level} ])

ScaledPosition_WithoutLevel(p, sig, qty) ==
  Refreshed([ p EXCEPT !.qty = @ + qty, !.cost = @ + BuyCost(qty, sig.price),
                       !.fee = @ + FeeOf(BuyCost(qty, sig.price)) ])

ScaledPosition(p, sig, qty) ==
  Refreshed([ qty |-> p.qty + qty,
              cost |-> p.cost + BuyCost(qty, sig.price),
              fee |-> p.fee + FeeOf(BuyCost(qty, sig.price)),
              stopLoss |-> IF sig.stopLoss # 0 THEN sig.stopLoss ELSE p.stopLoss,
              takeProfit |-> IF sig.takeProfit # 0 THEN sig.takeProfit ELSE p.takeProfit,
              gridId |-> sig.gridId,
              levels |-> p.levels \cup {sig.level} ])

BuyApproved(sig, qty) ==
  /\ PastLifecycle(sig)
  /\ IsBuy(sig)
  /\ SignalApproved(sig)
  /\ Sized(current.symbol, sig, qty)
  /\ PipelineUnchanged

\* The first fill of a symbol opens its position and moves the risk counter.
OpenPosition(sig, qty) ==
  LET s == current.symbol IN
  /\ BuyApproved(sig, qty)
  /\ orders < MaxOrders
  /\ s \notin open
  /\ BuyFills(s, qty, sig.price)
  /\ open' = open \cup {s}
  /\ pos' = [pos EXCEPT ![s] = OpenedPosition(sig, qty)]
  /\ openPositions' = openPositions + 1
  /\ Return("trade_executed")
  /\ UNCHANGED <<dailyPnl, consecutiveLosses, lastTradeTime, errorCount, killSwitch>>

\* A later fill averages into it and leaves the counter alone.
ScaleIn(sig, qty) ==
  LET s == current.symbol IN
  /\ BuyApproved(sig, qty)
  /\ orders < MaxOrders
  /\ s \in open
  /\ BuyFills(s, qty, sig.price)
  /\ pos' = [pos EXCEPT ![s] = ScaledPosition(@, sig, qty)]
  /\ Return("trade_executed")
  /\ UNCHANGED <<riskVars, open>>

BuyOrderRejected(sig, qty) ==
  /\ BuyApproved(sig, qty)
  /\ BuyRefused(qty, sig.price)
  /\ Return("order_rejected")
  /\ UNCHANGED <<riskVars, bookVars>>

BuyExecutionError(sig, qty) ==
  /\ BuyApproved(sig, qty)
  /\ BuyRaises(current.symbol, qty, sig.price)
  /\ RecordError
  /\ Return("execution_error")
  /\ UNCHANGED <<openPositions, dailyPnl, consecutiveLosses, lastTradeTime, killSwitch, bookVars>>

\* A SELL closes the whole position.
SellSignal(sig) ==
  LET s == current.symbol IN
  /\ PastLifecycle(sig)
  /\ ~IsBuy(sig)
  /\ SignalApproved(sig)
  /\ PipelineUnchanged
  /\ IF SellCovered(s, pos[s].qty)
     THEN /\ ClosePosition(s, sig.price, current.time)
          /\ Return("trade_executed")
     ELSE /\ Return("order_rejected")
          /\ UNCHANGED <<brokerVars, riskVars, bookVars>>

-----------------------------------------------------------------------------
\* Ctrl+C cancels the task where it awaits: between candles, or at the exit
\* notification, where the rest of the candle is lost.  stop() follows.
Interrupt ==
  /\ running
  /\ Idle \/ exited
  /\ running' = FALSE
  /\ current' = NoCandle
  /\ exited' = FALSE
  /\ UNCHANGED <<brokerVars, riskVars, feedVars, bookVars, result>>

Feed ==
  \/ CandleWhileStopped
  \/ CandleUnderKillSwitch
  \/ \E c \in Candles : DuplicateCandle(c)
  \/ \E c \in Candles : AdmitCandle(c)
  \/ \E c \in Candles : AdmitAndExit(c)

\* The rest of the pipeline, when the strategy returned sig for this candle.
OnSignal(sig) ==
  \/ SellWithoutPosition(sig)
  \/ LifecycleBlocked(sig)
  \/ RiskRejected(sig)
  \/ SellSignal(sig)
  \/ \E qty \in 0 .. MaxLots : OpenPosition(sig, qty)
  \/ \E qty \in 0 .. MaxLots : ScaleIn(sig, qty)
  \/ \E qty \in 0 .. MaxLots : BuyOrderRejected(sig, qty)
  \/ \E qty \in 0 .. MaxLots : BuyExecutionError(sig, qty)

Pipeline ==
  \/ Buffering
  \/ RegimeBlocked
  \/ StrategyError
  \/ NoSignal
  \/ \E sig \in Signals : OnSignal(sig)

Next == Feed \/ Pipeline \/ Interrupt

Spec == Init /\ [][Next]_vars

-----------------------------------------------------------------------------
(***************************************************************************)
(* Properties.                                                             *)
(***************************************************************************)

\* The orchestrator, the broker and the wallet keep three records of the same
\* position (_open_positions, positions, balances): every fill, scale-in and
\* exit leaves them equal, so that a full exit is never refused for lack of
\* the asset, and a closed position leaves nothing behind.
BooksAgree ==
  /\ open = held
  /\ open \subseteq QuotedSymbols
  /\ \A s \in Symbols :
       /\ base[s] = bpos[s].qty
       /\ pos[s].qty = bpos[s].qty
       /\ pos[s].cost = bpos[s].cost
       /\ pos[s].fee = bpos[s].fee
       /\ s \notin open => bpos[s] = NoHolding

\* risk_engine.open_positions is a separate counter, moved on open, on
\* protective exits and on SELL signals: it always counts the open positions.
CounterAgrees == openPositions = Cardinality(open)

\* Money is conserved: what left the balance is either invested, fees included,
\* or was lost or won in daily_pnl, unless an execution error leaked some.
CashIdentity ==
  errorCount = 0 \/ QuotedSymbols = Symbols =>
    quote + SumFunctionOnSet([s \in Symbols |-> bpos[s].cost + bpos[s].fee], held)
      = InitialBalance + dailyPnl

\* A candle that closed a position fills no other order: the exit starts the
\* symbol's cooldown, which outlasts the candle, before the strategy is asked.
NoFillAfterExit == [][ exited => orders' = orders ]_vars

\* Entries, scale-ins aside, stop at max_open_positions.
ExposureCapped == Cardinality(open) <= MaxOpenPositions

\* While errors or a losing streak halt trading, or the day's loss exceeds its
\* limit, no order takes cash: only exits happen.  An exit earlier in the same
\* candle already counts.
Halted ==
  \/ errorCount >= MaxErrors
  \/ consecutiveLosses >= MaxConsecutive
  \/ killSwitch
  \/ Equity > 0 /\ ~(-dailyPnl * 100 < MaxDailyLossPct * Equity)

NoEntryWhileHalted == [][Halted => quote' >= quote]_vars

\* A later fill of an open position belongs to the same basket and takes a
\* level none of its fills took.
LevelBoughtOnce ==
  [][ \A s \in open \cap open' :
        bpos'[s] # bpos[s] => /\ pos'[s].gridId = pos[s].gridId
                              /\ pos[s].levels \subseteq pos'[s].levels
                              /\ pos[s].levels # pos'[s].levels ]_vars

\* A scale-in never takes the cost of the basket, fees included, past the
\* allocation of the signal it executes, at the equity of that candle.
GridAllocationCapped ==
  [][ \A s \in open \cap open' : pos'[s].cost > pos[s].cost =>
        \A sig \in Signals, qty \in 0 .. MaxLots :
          ScaleIn(sig, qty) =>
            pos[s].cost + (quote - quote') <= (Equity * sig.allocation) \div 100 ]_vars

\* What the shares of p bring at its stop: what was paid for them, less
\* stop_loss_pct, less the slippage of the sale.  The stop and the fill are each
\* rounded down by less than a unit a lot.
StopProceeds(p) ==
  LET atStop == (p.cost * (100 - GridStopPct)) \div 100
  IN (atStop * (100 - SlippagePct)) \div 100 - 2 * p.qty

\* A basket closed by its stop or target returns at least its average entry
\* less stop_loss_pct, less the slippage and the fee of the sale (and the
\* rounding of a lot), however many fills moved that average.
GridLossBounded ==
  [][ Idle => \A s \in open \ open' :
        pos[s].gridId # NoGrid =>
          quote' - quote >= StopProceeds(pos[s]) - FeeOf(StopProceeds(pos[s])) - 1 ]_vars

\* orchestrator.py:210 calls a protective exit the authoritative result of its
\* candle: a candle that closed a position and ran to its end reports a trade.
ExitReported == [][ exited /\ running' /\ Idle' => result' = "trade_executed" ]_vars

\* The orchestrator, with every symbol traded against the quote asset,
\* implements the ledger of PositionLedger: each fill, exit and booked result
\* moves cash, investment and profit together.
Ledger == INSTANCE PositionLedger WITH
            cash     <- quote,
            invested <- [s \in Symbols |-> bpos[s].cost + bpos[s].fee],
            realised <- dailyPnl

LedgerSpec == Ledger!Spec

=============================================================================
