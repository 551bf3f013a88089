--------------------------- MODULE MCBacktestEngine ---------------------------
(* Prices are large against the lots, so that a fill is never rounded away.  *)
EXTENDS BacktestEngine

Shape(l, h, c) == [low |-> l, high |-> h, close |-> c]

\* Quiet bars at two prices that neither stop nor target of a position bought
\* at the other reaches, a bar that falls through a stop, one that reaches a
\* target, and one that spans both.
MCShapes == {Shape(100, 100, 100), Shape(140, 140, 140), Shape(40, 120, 100),
             Shape(120, 340, 140), Shape(40, 340, 140)}

Signal(t, a, g, p, target, cap) ==
  [type |-> t, action |-> a, grid |-> g, price |-> p, target |-> target,
   allocation |-> cap, stop |-> NoPrice, profit |-> NoPrice]

\* A strategy that mixes baskets and plain orders, and a grid with orders of nothing.
MCSignals ==
  [trading |->
  UNION {{Signal("BUY", "open", 1, p, 30, 60), Signal("BUY", "scale_in", 1, p, 30, 60),
          Signal("BUY", "scale_in", 2, p, 30, 60), Signal("BUY", "none", NoGrid, p, NoShare, 0),
          [Signal("BUY", "none", NoGrid, p, NoShare, 0) EXCEPT !.stop = 80, !.profit = 200],
          Signal("SELL", "none", NoGrid, p, NoShare, 0)} : p \in {100, 140}},
   idle |-> {Signal("BUY", "open", 1, p, 0, 60) : p \in {100, 140}}]
=============================================================================
