------------------------------ MODULE Validation ------------------------------
(***************************************************************************)
(* The windows of the walk-forward validation: where walk_forward_validate *)
(* cuts a history of total candles into windows, and each window into what *)
(* a strategy is tuned on and what it is tested on; and the thresholds the *)
(* metrics of a backtest have to reach.                                    *)
(***************************************************************************)
EXTENDS Integers

\* The number of windows: as many as asked for, unless they would have fewer
\* than fifty candles each.
WindowCount(total, n) == IF total \div n < 50 THEN total \div 100 ELSE n

WindowSize(total, n) == total \div WindowCount(total, n)

\* The first candle of window i; the last window ends with the history.
WindowStart(total, n, i) ==
  IF WindowCount(total, n) > 1
  THEN (i * (total - WindowSize(total, n))) \div (WindowCount(total, n) - 1)
  ELSE 0

\* The candles to train on, int(size * 0.7), the others being tested on.  The
\* product is rounded: of some multiples of ten it falls just below seven tenths.
Splits(size) ==
  {(7 * size) \div 10} \cup {k \in {(7 * size) \div 10 - 1} : size % 10 = 0}

\* A window too small for a train and a test is skipped.
Skipped(size) == \E k \in Splits(size) : k < 30 \/ size - k < 10

\* What the aggregates rest on: no window is skipped, none leaves the history,
\* and none shares a candle with the next, so that no candle is tested on twice
\* and none is tested on before it is trained on.
Windows(total, n) == 0 .. WindowCount(total, n) - 1
WindowsSound(total, n) ==
  /\ Windows(total, n) # {} /\ ~Skipped(WindowSize(total, n))
  /\ \A i \in Windows(total, n) :
       /\ WindowStart(total, n, i) \in 0 .. total - WindowSize(total, n)
       /\ i + 1 \in Windows(total, n) =>
            WindowStart(total, n, i) + WindowSize(total, n) <= WindowStart(total, n, i + 1)

-----------------------------------------------------------------------------
(* check_qualification.  Shares are integers of some unit; the walk-forward   *)
(* result is its out-of-sample consistency, or NoResult.                      *)

CONSTANT NoResult

Metrics == [return : Int, sharpe : Int, trades : Nat, drawdown : Nat, factor : Int]
Thresholds == [return : Int, sharpe : Int, trades : Nat, drawdown : Nat, factor : Int,
               consistency : Int, alpha : Int]

\* A threshold of zero switches the last two checks off.
Qualified(m, t, consistency, benchmark) ==
  /\ m.return >= t.return /\ m.sharpe >= t.sharpe /\ m.trades >= t.trades
  /\ m.drawdown <= t.drawdown /\ m.factor >= t.factor
  /\ (consistency # NoResult /\ t.consistency > 0) => consistency >= t.consistency
  /\ t.alpha # 0 => m.return - benchmark >= t.alpha

\* u asks for no more than t.  Because zero switches the check of alpha off, an
\* alpha below zero asks for more than zero does.
Easier(u, t) ==
  /\ u.return <= t.return /\ u.sharpe <= t.sharpe /\ u.trades <= t.trades
  /\ u.drawdown >= t.drawdown /\ u.factor <= t.factor /\ u.consistency <= t.consistency
  /\ u.alpha = 0 \/ (t.alpha # 0 /\ u.alpha <= t.alpha)
=============================================================================
