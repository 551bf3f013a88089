-------------------------- MODULE MCStrategySignals --------------------------
(* Of each strategy the bars that make it take its different paths, and ways  *)
(* a buffer begun later reads some of them otherwise.                         *)
EXTENDS StrategySignals

QuietBar == [ready |-> TRUE, pass |-> TRUE, up |-> FALSE, down |-> FALSE, against |-> FALSE,
             turnUp |-> FALSE, turnDown |-> FALSE, adx |-> "middle",
             price |-> 100, atr |-> 4, mid |-> 110]

Up   == [QuietBar EXCEPT !.up = TRUE]
Down == [QuietBar EXCEPT !.down = TRUE]
Plain == {QuietBar, Up, Down, [Up EXCEPT !.ready = FALSE], [Up EXCEPT !.pass = FALSE]}

BarsSeen ==
  [ema_atr |-> Plain \cup {[Down EXCEPT !.against = TRUE]},
   rsi_mean_reversion |-> Plain,
   bollinger_mean_reversion |->
     Plain \cup {[Up EXCEPT !.against = TRUE], [Up EXCEPT !.mid = 96]},
   breakout |-> Plain,
   momentum_continuation |-> Plain \cup {[Up EXCEPT !.atr = 0], [Down EXCEPT !.pass = FALSE]},
   pullback_uptrend |-> Plain \cup {[Up EXCEPT !.atr = 0]},
   volatility_breakout |-> Plain \cup {[Up EXCEPT !.atr = 0]},
   regime_adaptive |->
     {QuietBar, Up, [Up EXCEPT !.ready = FALSE], [Down EXCEPT !.adx = "high"],
      [QuietBar EXCEPT !.adx = "low", !.turnDown = TRUE], [QuietBar EXCEPT !.turnUp = TRUE]}]

\* Read alike wherever the buffer starts; not ready yet; or with an average that
\* began at another close, so that the cross, the trend or the ADX is another one.
MCReadingsOf ==
  [strat \in DOMAIN BarsSeen |->
     {[full |-> b, own |-> b] : b \in BarsSeen[strat]} \cup
     {[full |-> QuietBar, own |-> Up],
      [full |-> Up, own |-> [Up EXCEPT !.ready = FALSE]]} \cup
     IF strat # "regime_adaptive" THEN {}
     ELSE {[full |-> [QuietBar EXCEPT !.turnUp = TRUE],
            own |-> [QuietBar EXCEPT !.turnUp = TRUE, !.adx = "low"]]}]
=============================================================================
