---------------------------- MODULE MCOrchestrator ----------------------------
(***************************************************************************)
(* Values for TLC.  Prices are multiples of 10 and the fee is 10%, so that *)
(* costs and fees come out whole.                                          *)
(***************************************************************************)
EXTENDS Orchestrator

NoneSignal ==
  [ type |-> "BUY", price |-> 20, action |-> "none", gridId |-> NoGrid, level |-> 0, target |-> 0,
    projected |-> 0, allocation |-> 0, stopLoss |-> 0, takeProfit |-> 0 ]

\* Entries and exits of the strategies that do not trade a grid.
PlainSignals ==
  { [NoneSignal EXCEPT !.stopLoss = 10, !.takeProfit = 30],
    [NoneSignal EXCEPT !.price = 10, !.takeProfit = 20],
    [NoneSignal EXCEPT !.type = "SELL"] }

GridSignal(action, id, level, price) ==
  [ NoneSignal EXCEPT !.action = action, !.gridId = id, !.level = level, !.price = price,
                      !.target = 50, !.projected = IF level = 0 THEN 50 ELSE 75,
                      !.allocation = 75, !.stopLoss = 10 ]

\* A basket of three levels whose second scale-in finds the allocation spent,
\* a scale-in past the allocation, and one of another basket.
GridSignals ==
  { GridSignal("open", 1, 0, 40),
    GridSignal("scale_in", 1, 1, 20),
    GridSignal("scale_in", 1, 2, 20),
    [GridSignal("scale_in", 1, 2, 20) EXCEPT !.projected = 100],
    GridSignal("scale_in", 2, 1, 20),
    [GridSignal("take_profit", 1, 1, 40) EXCEPT !.type = "SELL"] }

\* An order for the whole balance, which the broker may refuse.
AllIn == [GridSignal("open", 2, 0, 40) EXCEPT !.target = 100, !.allocation = 100]

BookSignals == GridSignals \cup { AllIn, [NoneSignal EXCEPT !.type = "SELL"] }

=============================================================================
