------------------------------ MODULE GridTrading ------------------------------
(***************************************************************************)
(* The orchestrator trading the hybrid grid / DCA strategy                 *)
(* (app/strategies/hybrid_grid_dca.py).                                    *)
(*                                                                         *)
(* The strategy is a pure function of the candle buffer: at every candle   *)
(* it replays its own baskets over the whole buffer and never learns what  *)
(* became of its signals.  Its state after a candle therefore depends only *)
(* on the candles, and the module advances it once per buffered candle,    *)
(* whatever the pipeline then does with the signal.  What its indicators,  *)
(* its average entry and its level prices decide is left open.             *)
(***************************************************************************)
EXTENDS Orchestrator

CONSTANTS LevelPct,       \* base_order_pct * dca_size_multiplier ** level
          MaxAllocation,  \* max_grid_allocation_pct
          CooldownBars, StopCooldownBars,
          WarmupBars,     \* the candles the indicators need
          Silent

ASSUME GridAssumption ==
  /\ LevelPct \in [GridLevels -> Nat]
  /\ 0 \in GridLevels
  /\ MaxAllocation \in 0 .. 100
  /\ CooldownBars \in Nat
  /\ StopCooldownBars \in Nat
  /\ WarmupBars \in Nat
  /\ Silent \notin StrategySignals

VARIABLES
  bars,        \* length of the candle buffer of each symbol
  inBasket,    \* in_basket, by symbol
  sequence,    \* grid_sequence; the current basket's grid_id while in one
  filled,      \* filled_levels
  allocated,   \* allocated_pct
  lastSignal,  \* last_signal_bar
  nextOpen,    \* next_open_bar
  emitted      \* the signal of the newest bar, or Silent

basketVars == <<inBasket, sequence, filled, allocated, nextOpen>>
strategyVars == <<bars, basketVars, lastSignal, emitted>>
gridVars == <<vars, strategyVars>>

GridTypeOK ==
  /\ TypeOK
  /\ bars \in [Symbols -> Nat]
  /\ inBasket \in [Symbols -> BOOLEAN]
  /\ sequence \in [Symbols -> GridIds \cup {NoGrid}]
  /\ filled \in [Symbols -> SUBSET GridLevels]
  /\ allocated \in [Symbols -> 0 .. MaxAllocation]
  /\ lastSignal \in [Symbols -> Int]
  /\ nextOpen \in [Symbols -> Nat]
  /\ emitted \in StrategySignals \cup {Silent}

GridInit ==
  /\ Init
  /\ bars = [s \in Symbols |-> 0]
  /\ inBasket = [s \in Symbols |-> FALSE]
  /\ sequence = [s \in Symbols |-> NoGrid]
  /\ filled = [s \in Symbols |-> {}]
  /\ allocated = [s \in Symbols |-> 0]
  /\ lastSignal = [s \in Symbols |-> -CooldownBars]
  /\ nextOpen = [s \in Symbols |-> 0]
  /\ emitted = Silent

\* The signal of basket id.  Its own stops are dropped: a grid position takes
\* those of its average entry.
GridSignalOf(type, action, id, level, price, target, projected) ==
  [ type |-> type, price |-> price, action |-> action, gridId |-> id, level |-> level,
    target |-> target, projected |-> projected, allocation |-> MaxAllocation,
    stopLoss |-> 0, takeProfit |-> 0 ]

CanSignal(s) == bars[s] - lastSignal[s] >= CooldownBars

Emits(s, sig) ==
  /\ emitted' = sig
  /\ lastSignal' = [lastSignal EXCEPT ![s] = bars[s]]

\* In these the new candle is bar number bars[s].

\* A basket's stop or target was touched: it is over.  After a stop the next
\* basket waits.
CloseBasket(s, action, price) ==
  /\ inBasket[s]
  /\ CanSignal(s)
  /\ LET deepest == CHOOSE l \in filled[s] : \A m \in filled[s] : m <= l
     IN Emits(s, GridSignalOf("SELL", action, sequence[s], deepest, price, 0, allocated[s]))
  /\ inBasket' = [inBasket EXCEPT ![s] = FALSE]
  /\ nextOpen' = IF action = "stop_exit" THEN [nextOpen EXCEPT ![s] = bars[s] + StopCooldownBars]
                                         ELSE nextOpen
  /\ UNCHANGED <<sequence, filled, allocated>>

\* _next_unfilled_level: a deeper level is cheaper, so the first unfilled one
\* is reached first.
NextLevel(s, level) ==
  /\ level \in GridLevels \ filled[s]
  /\ \A l \in GridLevels \ filled[s] : level <= l

\* Mutant: the level of a scale-in is not remembered.
ScaleBasket_Forgotten(s, level, price) ==
  LET order == Least(LevelPct[level], MaxAllocation - allocated[s]) IN
  /\ inBasket[s]
  /\ CanSignal(s)
  /\ NextLevel(s, level)
  /\ order > 0
  /\ Emits(s, GridSignalOf("BUY", "scale_in", sequence[s], level, price, order,
                           allocated[s] + order))
  /\ allocated' = [allocated EXCEPT ![s] = @ + order]
  /\ UNCHANGED <<inBasket, sequence, filled, nextOpen>>

\* The price fell to the next level: it counts as filled from here on.
ScaleBasket(s, level, price) ==
  LET order == Least(LevelPct[level], MaxAllocation - allocated[s]) IN
  /\ inBasket[s]
  /\ CanSignal(s)
  /\ NextLevel(s, level)
  /\ order > 0
  /\ Emits(s, GridSignalOf("BUY", "scale_in", sequence[s], level, price, order,
                           allocated[s] + order))
  /\ filled' = [filled EXCEPT ![s] = @ \cup {level}]
  /\ allocated' = [allocated EXCEPT ![s] = @ + order]
  /\ UNCHANGED <<inBasket, sequence, nextOpen>>

\* Bound: a basket whose number is not in GridIds is not explored.
OpenBasket(s, price) ==
  LET order == Least(LevelPct[0], MaxAllocation) IN
  /\ ~inBasket[s]
  /\ bars[s] >= nextOpen[s]
  /\ CanSignal(s)
  /\ sequence[s] + 1 \in GridIds
  /\ Emits(s, GridSignalOf("BUY", "open", sequence[s] + 1, 0, price, order, order))
  /\ inBasket' = [inBasket EXCEPT ![s] = TRUE]
  /\ sequence' = [sequence EXCEPT ![s] = @ + 1]
  /\ filled' = [filled EXCEPT ![s] = {0}]
  /\ allocated' = [allocated EXCEPT ![s] = order]
  /\ UNCHANGED nextOpen

Quiet == emitted' = Silent /\ UNCHANGED <<basketVars, lastSignal>>

\* generate_signals over the buffer with candle c appended.
StrategyBar(c) ==
  /\ bars' = [bars EXCEPT ![c.symbol] = @ + 1]
  /\ \/ Quiet
     \/ /\ bars[c.symbol] >= WarmupBars
        /\ \/ \E price \in Prices : price >= c.low /\ CloseBasket(c.symbol, "stop_exit", price)
           \/ \E price \in Prices : price <= c.high /\ CloseBasket(c.symbol, "take_profit", price)
           \/ \E level \in GridLevels, price \in Prices :
                price \in c.low .. c.close /\ ScaleBasket(c.symbol, level, price)
           \/ OpenBasket(c.symbol, c.close)

-----------------------------------------------------------------------------
GridAdmit ==
  \E c \in Candles :
    /\ AdmitCandle(c) \/ AdmitAndExit(c)
    /\ StrategyBar(c)

\* A candle that ends before its signal is looked at loses the signal.
SignalLost ==
  /\ Buffering \/ RegimeBlocked \/ StrategyError
  /\ emitted' = Silent
  /\ UNCHANGED <<bars, basketVars, lastSignal>>

NothingEmitted == emitted = Silent /\ NoSignal /\ UNCHANGED strategyVars

SignalTaken ==
  /\ emitted # Silent
  /\ OnSignal(emitted)
  /\ emitted' = Silent
  /\ UNCHANGED <<bars, basketVars, lastSignal>>

CandleIgnored ==
  /\ CandleWhileStopped \/ CandleUnderKillSwitch \/ \E c \in Candles : DuplicateCandle(c)
  /\ UNCHANGED strategyVars

GridInterrupt ==
  /\ Interrupt
  /\ emitted' = Silent
  /\ UNCHANGED <<bars, basketVars, lastSignal>>

GridNext ==
  GridAdmit \/ SignalLost \/ NothingEmitted \/ SignalTaken \/ CandleIgnored \/ GridInterrupt

GridSpec == GridInit /\ [][GridNext]_gridVars

-----------------------------------------------------------------------------
\* What the orchestrator holds never runs ahead of what the strategy asked
\* for: the position's basket is one the strategy opened, and of its current
\* basket it holds only levels the strategy filled.
PositionFollowsStrategy ==
  \A s \in open :
    /\ pos[s].gridId \in 1 .. sequence[s]
    /\ pos[s].gridId = sequence[s] => pos[s].levels \subseteq filled[s]

\* Whatever happened to the strategy's own exit signals, the stop and the target
\* of a grid position stand on either side of its average entry.
GridProtected ==
  \A s \in open :
    /\ 0 < pos[s].stopLoss
    /\ pos[s].stopLoss * pos[s].qty <= pos[s].cost
    /\ pos[s].cost <= pos[s].takeProfit * pos[s].qty

\* No fill takes the cost of a held basket, fees included, past
\* max_grid_allocation_pct of the equity of that candle.
BasketAllocationCapped ==
  [][ \A s \in open \cap open' : pos'[s].cost > pos[s].cost =>
        pos[s].cost + (quote - quote') <= (Equity * MaxAllocation) \div 100 ]_gridVars

\* rules.py:69 rejects a BUY when the maximum of open positions is reached.
OpenPositionsCapped == Cardinality(open) <= MaxOpenPositions

=============================================================================
