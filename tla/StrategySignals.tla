--------------------------- MODULE StrategySignals ---------------------------
(***************************************************************************)
(* What the eight strategies without a basket make of a history of         *)
(* candles, and which of their signals the two consumers act on: the       *)
(* backtest, which scans a whole history once, and the orchestrator, which *)
(* scans its growing buffer again at every candle.                         *)
(*                                                                         *)
(* A bar is what the indicators say of a candle: the conditions of the     *)
(* strategies by the part they play, and prices.  Rolling windows, EWMs    *)
(* and shifts look back only: a bar does not depend on later candles.  It  *)
(* does depend on where the buffer starts: an EWM begins with its first    *)
(* close and never forgets it, a window and the ADX are unknown until they *)
(* are full.  So a candle has two readings, one by a scan of the whole     *)
(* history and one by a buffer begun later, which share its price alone.   *)
(***************************************************************************)
EXTENDS Integers, Sequences, FiniteSetsExt

CONSTANTS
  ReadingsOf,    \* for each strategy, by name, how the candles it may see are read
  Cooldown,      \* cooldown_bars
  MinPeriods,    \* min_periods
  Lookback,      \* lookback_period of breakout
  MinBuffer,     \* MIN_CANDLE_BUFFER
  StopMult, TargetMult,   \* stop_loss_atr_mult, take_profit_atr_mult
  Bars,          \* bound: candles of a behaviour
  RestartBound   \* bound: restarts of the trading process

StrategyNames ==
  {"ema_atr", "rsi_mean_reversion", "bollinger_mean_reversion", "breakout",
   "momentum_continuation", "pullback_uptrend", "volatility_breakout", "regime_adaptive"}

BarRecords ==
  [ready : BOOLEAN, pass : BOOLEAN, up : BOOLEAN, down : BOOLEAN, against : BOOLEAN,
   turnUp : BOOLEAN, turnDown : BOOLEAN, adx : {"low", "middle", "high"},
   price : Int, atr : Int, mid : Int]

\* full: by a scan from the first candle on.  own: by a buffer begun later.
Readings == {r \in [full : BarRecords, own : BarRecords] : r.own.price = r.full.price}

ASSUME SignalsAssumption ==
  /\ DOMAIN ReadingsOf \subseteq StrategyNames
  /\ \A strat \in DOMAIN ReadingsOf : \A r \in ReadingsOf[strat] : r \in Readings
  /\ Cooldown \in Nat \ {0} /\ MinPeriods \in Nat \ {0} /\ MinBuffer \in Nat
  /\ Lookback \in Nat
  /\ StopMult \in Nat \ {0} /\ TargetMult \in Nat \ {0}
  /\ Bars \in Nat /\ RestartBound \in Nat

VARIABLES
  strategy,   \* the strategy of this behaviour
  candles,    \* the bars so far, as a scan of them all reads them
  start,      \* the first bar of the orchestrator's buffer
  buffer,     \* the bars from start on, as a scan of this buffer reads them
  acted       \* what the orchestrator took from each bar: a signal type, or None

vars == <<strategy, candles, start, buffer, acted>>

Strategies == DOMAIN ReadingsOf

None == "none"

\* A signal of bar i.  A SELL of the later strategies has no stops; none of
\* what is said here depends on them.
Signal(type, i, b, stop, target) ==
  [type |-> type, bar |-> i, price |-> b.price, stop |-> stop, target |-> target]

AtrBuy(i, b, atr) ==
  Signal("BUY", i, b, b.price - StopMult * atr, b.price + TargetMult * atr)
AtrSell(i, b, atr) ==
  Signal("SELL", i, b, b.price + StopMult * atr, b.price - TargetMult * atr)

-----------------------------------------------------------------------------
(* The strategies: what each makes of a bar it is free to signal on.  regime  *)
(* is the hysteresis of regime_adaptive, after the bar.                       *)

\* The rise is looked at first, the fall where it did not come.
FirstOf(up, buy, down, sell) == IF up THEN <<buy>> ELSE IF down THEN <<sell>> ELSE <<>>

\* ema_atr: a crossover with its slope, unless it goes against the long trend.
EmaAtr(i, b, regime) ==
  IF ~b.ready \/ ~b.pass \/ b.against THEN <<>>
  ELSE FirstOf(b.up, AtrBuy(i, b, b.atr), b.down, AtrSell(i, b, b.atr))

\* rsi_mean_reversion: the RSI turns back, with volume and without a trend.
\* Its stops are shares of the price.
RsiMeanReversion(i, b, regime) ==
  IF ~b.ready \/ ~b.pass THEN <<>>
  ELSE FirstOf(b.up, AtrBuy(i, b, b.price \div 20), b.down, AtrSell(i, b, b.price \div 20))

Lesser(x, y)  == IF x <= y THEN x ELSE y
Greater(x, y) == IF x >= y THEN x ELSE y

\* bollinger_mean_reversion: a price comes back inside its bands, with the RSI.
\* The target is no farther than the middle band.
Bollinger(i, b, regime) ==
  IF ~b.ready \/ ~b.pass \/ b.against THEN <<>>
  ELSE FirstOf(b.up,
               Signal("BUY", i, b, b.price - StopMult * b.atr,
                      Lesser(b.mid, b.price + TargetMult * b.atr)),
               b.down,
               Signal("SELL", i, b, b.price + StopMult * b.atr,
                      Greater(b.mid, b.price - TargetMult * b.atr)))

\* breakout: a close out of the channel, by a distance and with volume.
Breakout(i, b, regime) ==
  IF ~b.ready \/ ~b.pass THEN <<>>
  ELSE FirstOf(b.up, AtrBuy(i, b, b.atr), b.down, AtrSell(i, b, b.atr))

\* momentum_continuation: entry conditions filter entries only.
Momentum(i, b, regime) ==
  IF ~b.ready THEN <<>>
  ELSE FirstOf(b.up /\ b.pass /\ b.atr > 0, AtrBuy(i, b, b.atr), b.down, AtrSell(i, b, 0))

\* A stop distance where the ATR is zero or unknown.
AtrOr1(b) == IF b.atr > 0 THEN b.atr ELSE 1

\* pullback_uptrend: a dip in an uptrend; the trend's end.
Pullback(i, b, regime) ==
  IF ~b.ready THEN <<>>
  ELSE FirstOf(b.up /\ b.pass, AtrBuy(i, b, AtrOr1(b)), b.down, AtrSell(i, b, 0))

\* volatility_breakout: through the upper channel; back below the middle.
VolatilityBreakout(i, b, regime) ==
  IF ~b.ready THEN <<>>
  ELSE FirstOf(b.up /\ b.pass, AtrBuy(i, b, AtrOr1(b)), b.down, AtrSell(i, b, 0))

\* regime_adaptive: a crossover in a trend, an RSI that turns in a range.
RegimeAdaptive(i, b, regime) ==
  IF ~b.ready \/ ~b.pass THEN <<>>
  ELSE CASE regime = "trending" ->
              FirstOf(b.up, AtrBuy(i, b, b.atr), b.down, AtrSell(i, b, b.atr))
         [] regime = "ranging" ->
              FirstOf(b.turnUp, AtrBuy(i, b, b.atr), b.turnDown, AtrSell(i, b, b.atr))
         [] OTHER -> <<>>

Decide(strat, i, b, regime) ==
  CASE strat = "ema_atr" -> EmaAtr(i, b, regime)
    [] strat = "rsi_mean_reversion" -> RsiMeanReversion(i, b, regime)
    [] strat = "bollinger_mean_reversion" -> Bollinger(i, b, regime)
    [] strat = "breakout" -> Breakout(i, b, regime)
    [] strat = "momentum_continuation" -> Momentum(i, b, regime)
    [] strat = "pullback_uptrend" -> Pullback(i, b, regime)
    [] strat = "volatility_breakout" -> VolatilityBreakout(i, b, regime)
    [] strat = "regime_adaptive" -> RegimeAdaptive(i, b, regime)

-----------------------------------------------------------------------------
(* generate_signals: one pass over the bars *)

\* The first bar a strategy looks at, counted from 0.
FirstBar(strat) ==
  CASE strat = "breakout" -> Lookback + 1
    [] strat \in {"momentum_continuation", "pullback_uptrend", "volatility_breakout"} -> MinPeriods
    [] OTHER -> 1

\* The regime after a bar: between the thresholds it stays.
Hysteresis(regime, b) ==
  IF ~b.ready THEN regime
  ELSE CASE b.adx = "high" -> "trending" [] b.adx = "low" -> "ranging" [] OTHER -> regime

\* Fault: the regime is not followed while the strategy cools down.
StepCooledRegime(strat, st, i, b) ==
  IF i - st.last < Cooldown THEN st
  ELSE LET regime == Hysteresis(st.regime, b)
           new == Decide(strat, i, b, regime)
       IN [last |-> IF new = <<>> THEN st.last ELSE i, regime |-> regime,
           signals |-> st.signals \o new]

\* A bar: nothing while the last signal is younger than the cooldown.
Step(strat, st, i, b) ==
  LET regime == Hysteresis(st.regime, b)
      new == IF i < FirstBar(strat) \/ i - st.last < Cooldown THEN <<>>
             ELSE Decide(strat, i, b, regime)
  IN [last |-> IF new = <<>> THEN st.last ELSE i, regime |-> regime,
      signals |-> st.signals \o new]

Fresh == [last |-> -Cooldown, regime |-> "unknown", signals |-> <<>>]

\* What is known after each number of bars.
Scan(strat, bars) ==
  LET after[k \in 0 .. Len(bars)] ==
        IF k = 0 THEN Fresh ELSE Step(strat, after[k - 1], k - 1, bars[k])
  IN after

\* A history too short for the strategy gives nothing.
GenerateSignals(strat, bars) ==
  IF Len(bars) < MinPeriods THEN <<>> ELSE Scan(strat, bars)[Len(bars)].signals

-----------------------------------------------------------------------------
(* The two consumers *)

\* Fault: the newest signal of the history, of whatever bar.
SelectNewest(sigs, i) == IF sigs = <<>> THEN None ELSE sigs[Len(sigs)].type

Stamped(sigs, i) == {n \in DOMAIN sigs : sigs[n].bar = i}

\* _select_current_signal: the newest signal stamped with the newest bar.
SelectCurrentSignal(sigs, i) ==
  IF Stamped(sigs, i) = {} THEN None ELSE sigs[Max(Stamped(sigs, i))].type

\* _build_signal_map: the first signal stamped with a bar.
SignalMap(sigs, i) ==
  IF Stamped(sigs, i) = {} THEN None ELSE sigs[Min(Stamped(sigs, i))].type

\* What the orchestrator takes from its buffer, once it is long enough.
Acts(bars) ==
  IF Len(bars) < MinBuffer THEN None
  ELSE SelectCurrentSignal(GenerateSignals(strategy, bars), Len(bars) - 1)

\* A candle joins the history, and the buffer as the buffer reads it.
Candle ==
  /\ Len(candles) < Bars
  /\ \E r \in ReadingsOf[strategy] :
       /\ candles' = Append(candles, r.full)
       /\ buffer' = Append(buffer, IF start = 1 THEN r.full ELSE r.own)
  /\ acted' = Append(acted, Acts(buffer'))
  /\ UNCHANGED <<strategy, start>>

\* The process ends and is started again: its buffer is empty.
Restart ==
  /\ start = 1 /\ RestartBound > 0 /\ candles # <<>>
  /\ start' = Len(candles) + 1
  /\ buffer' = <<>>
  /\ UNCHANGED <<strategy, candles, acted>>

Init == strategy \in Strategies /\ candles = <<>> /\ start = 1 /\ buffer = <<>> /\ acted = <<>>

Next == Candle \/ Restart

Spec == Init /\ [][Next]_vars

-----------------------------------------------------------------------------
(* Properties *)

\* What the backtest of the whole history trades on bar k, counted from 1.
Backtested(k) == SignalMap(GenerateSignals(strategy, candles), k - 1)

\* A process that was never restarted acts, on every bar from where it has
\* enough of them, on the signal the backtest of the history acts on.
RuntimeIsBacktest ==
  start = 1 =>
    \A k \in 1 .. Len(candles) :
      k >= Greater(MinPeriods, MinBuffer) => acted[k] = Backtested(k)

\* The bar k of the new process is past its warm-up: the strategy looks at it, and
\* the buffer is long enough.
Warm(k) ==
  /\ k - start >= FirstBar(strategy)
  /\ k - start + 1 >= Greater(MinPeriods, MinBuffer)

\* The indicators of the new process say of bar k what those of a full scan say.
Alike(k) == buffer[k - start + 1] = candles[k]

\* Since the restart a ready bar has settled the regime, and from it on the
\* indicators of both scans agreed.
Settled(k) ==
  strategy = "regime_adaptive" =>
    \E j \in start .. k :
      candles[j].ready /\ candles[j].adx # "middle" /\ \A i \in j .. k : Alike(i)

Quiet(sigs, from, to) == \A s \in {sigs[n] : n \in DOMAIN sigs} : s.bar \notin from .. to

\* The cooldown and the regime are lost with the buffer, but they come back: a
\* restarted process acts as the backtest does on every bar its indicators read as
\* the backtest's do, if both scans gave no signal for a cooldown before it and the
\* regime was settled since.  Nothing is said of bars the EWMs and the windows of
\* the new buffer read otherwise; earlier bars that differed do no harm by
\* themselves.
RestartResyncs ==
  \A k \in start .. Len(candles) :
    LET full == GenerateSignals(strategy, candles)
        own == GenerateSignals(strategy, buffer)
    IN (/\ start > 1 /\ Warm(k) /\ Alike(k) /\ Settled(k)
        /\ Quiet(full, k - Cooldown, k - 2)
        /\ Quiet(own, k - start - Cooldown + 1, k - start - 1))
       => acted[k] = Backtested(k)

\* The stop of an entry is below its price.  Its target is above, unless a price
\* came back through its lower band so far that it is past the middle one: that
\* entry is sold by its target on the next bar, at or below its own price.
EntriesBracketed ==
  LET sigs == GenerateSignals(strategy, candles) IN
  \A n \in DOMAIN sigs :
    sigs[n].type = "BUY" =>
      /\ sigs[n].stop < sigs[n].price
      /\ \/ sigs[n].target > sigs[n].price
         \/ /\ strategy = "bollinger_mean_reversion"
            /\ sigs[n].price >= candles[sigs[n].bar + 1].mid
=============================================================================
