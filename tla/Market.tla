-------------------------------- MODULE Market --------------------------------
(***************************************************************************)
(* The vocabulary shared by the paper-trading modules: what is traded, the *)
(* candle a feed delivers and the signal a strategy returns.               *)
(*                                                                         *)
(* Money and prices are integers and percentages are whole numbers out of  *)
(* 100.  A price of 0 stands for the None of an absent stop or target.     *)
(***************************************************************************)
EXTENDS Integers, FiniteSets

CONSTANTS Symbols,       \* the traded symbols
          Prices,        \* the price levels candles are made of
          Times,         \* candle open times, counted in bars
          GridIds,       \* numbers of the grid baskets a strategy may open
          GridLevels     \* numbers of the grid levels; 0 is the base order

ASSUME MarketAssumption ==
  /\ IsFiniteSet(Symbols)
  /\ Prices \subseteq Nat \ {0}
  /\ Times \subseteq Nat
  /\ GridIds \subseteq Nat \ {0}
  /\ GridLevels \subseteq Nat

\* No basket: the empty grid_id of a position or signal outside any grid.
NoGrid == 0

\* A closed kline.  Its range contains its close.
Candles ==
  { c \in [symbol : Symbols, time : Times, low : Prices, high : Prices, close : Prices] :
      c.low <= c.close /\ c.close <= c.high }

\* StrategySignal with the metadata the runtime reads.  The three percentages
\* are target_notional_pct, projected_grid_notional_pct and
\* max_grid_allocation_pct; only grid signals carry them.
StrategySignals ==
  [ type       : {"BUY", "SELL"},
    price      : Nat \ {0},
    action     : {"none", "open", "scale_in", "take_profit", "stop_exit"},
    gridId     : GridIds \cup {NoGrid},
    level      : GridLevels,
    target     : Nat,
    projected  : Nat,
    allocation : Nat,
    stopLoss   : Nat,
    takeProfit : Nat ]

=============================================================================
