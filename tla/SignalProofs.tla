---------------------------- MODULE SignalProofs ----------------------------
(***************************************************************************)
(* Theorems about the strategies' scan of a history and its two readers,   *)
(* for every cooldown, every warm-up and histories of any length.          *)
(***************************************************************************)
EXTENDS StrategySignals, SequenceTheorems, WellFoundedInduction, TLAPS

\* A set of natural numbers has a least one: the first counterexample.
LEMMA LeastNat ==
  ASSUME NEW T \in SUBSET Nat, T # {}
  PROVE  \E x \in T : \A y \in T : x <= y
<1>1. \E x \in T : \A y \in T : ~ (<<y, x>> \in OpToRel(<, Nat))
  BY WFMin, NatLessThanWellFounded
<1>2. \E x \in T : \A y \in T : ~(y < x)
  BY <1>1 DEF OpToRel
<1> QED BY <1>2

(***************************************************************************)
(* What a strategy says of one bar.                                        *)
(***************************************************************************)

Types == {None, "BUY", "SELL"}

\* d holds at most one signal, of bar i and of that type.
Says(d, i, type) ==
  IF type = None THEN d = <<>>
  ELSE \E sig : d = <<sig>> /\ sig.bar = i /\ sig.type = type

\* The type of signal a bar gives, wherever it stands in a history.
Outcome(strat, b, regime) ==
  CHOOSE type \in Types : \A i \in Int : Says(Decide(strat, i, b, regime), i, type)

\* A signal says its type of its bar, whatever its stops.
LEMMA SignalSays ==
  ASSUME NEW i, NEW b, NEW stop, NEW target, NEW type \in {"BUY", "SELL"}
  PROVE  Says(<<Signal(type, i, b, stop, target)>>, i, type)
<1>1. Signal(type, i, b, stop, target).bar = i /\ Signal(type, i, b, stop, target).type = type
  BY DEF Signal
<1>2. type # None
  BY DEF None
<1> HIDE DEF Signal
<1> QED
  BY <1>1, <1>2 DEF Says

\* A signal made by AtrBuy says BUY, one made by AtrSell says SELL.
LEMMA AtrSays ==
  ASSUME NEW i, NEW b, NEW atr
  PROVE  Says(<<AtrBuy(i, b, atr)>>, i, "BUY") /\ Says(<<AtrSell(i, b, atr)>>, i, "SELL")
  BY SignalSays DEF AtrBuy, AtrSell

\* Nothing says nothing.
LEMMA NothingSays == \A i : Says(<<>>, i, None)
  BY DEF Says

\* A strategy whose filters hold for both sides says one thing of a bar, wherever
\* the bar stands in a history.
LEMMA FilteredSays ==
  ASSUME NEW b \in BarRecords, NEW regime
  PROVE  /\ \E type \in Types : \A i \in Int : Says(EmaAtr(i, b, regime), i, type)
         /\ \E type \in Types : \A i \in Int : Says(RsiMeanReversion(i, b, regime), i, type)
         /\ \E type \in Types : \A i \in Int : Says(Breakout(i, b, regime), i, type)
         /\ \E type \in Types : \A i \in Int : Says(RegimeAdaptive(i, b, regime), i, type)
<1> USE AtrSays, NothingSays
<1>t. None \in Types /\ "BUY" \in Types /\ "SELL" \in Types
  BY DEF Types
<1>b. /\ b.ready \in BOOLEAN /\ b.pass \in BOOLEAN /\ b.up \in BOOLEAN /\ b.down \in BOOLEAN
      /\ b.against \in BOOLEAN /\ b.turnUp \in BOOLEAN /\ b.turnDown \in BOOLEAN
  BY DEF BarRecords
<1>1. \E type \in Types : \A i \in Int : Says(EmaAtr(i, b, regime), i, type)
  <2>1. CASE \A i \in Int : EmaAtr(i, b, regime) = <<>>
    BY <2>1, <1>t
  <2>2. CASE \A i \in Int : EmaAtr(i, b, regime) = <<AtrBuy(i, b, b.atr)>>
    BY <2>2, <1>t
  <2>3. CASE \A i \in Int : EmaAtr(i, b, regime) = <<AtrSell(i, b, b.atr)>>
    BY <2>3, <1>t
  <2> QED
    BY <1>b, <2>1, <2>2, <2>3 DEF EmaAtr, FirstOf
<1>2. \E type \in Types : \A i \in Int : Says(RsiMeanReversion(i, b, regime), i, type)
  <2>1. CASE \A i \in Int : RsiMeanReversion(i, b, regime) = <<>>
    BY <2>1, <1>t
  <2>2. CASE \A i \in Int : RsiMeanReversion(i, b, regime) = <<AtrBuy(i, b, b.price \div 20)>>
    BY <2>2, <1>t
  <2>3. CASE \A i \in Int : RsiMeanReversion(i, b, regime) = <<AtrSell(i, b, b.price \div 20)>>
    BY <2>3, <1>t
  <2> QED
    BY <1>b, <2>1, <2>2, <2>3 DEF RsiMeanReversion, FirstOf
<1>3. \E type \in Types : \A i \in Int : Says(Breakout(i, b, regime), i, type)
  <2>1. CASE \A i \in Int : Breakout(i, b, regime) = <<>>
    BY <2>1, <1>t
  <2>2. CASE \A i \in Int : Breakout(i, b, regime) = <<AtrBuy(i, b, b.atr)>>
    BY <2>2, <1>t
  <2>3. CASE \A i \in Int : Breakout(i, b, regime) = <<AtrSell(i, b, b.atr)>>
    BY <2>3, <1>t
  <2> QED
    BY <1>b, <2>1, <2>2, <2>3 DEF Breakout, FirstOf
<1>4. \E type \in Types : \A i \in Int : Says(RegimeAdaptive(i, b, regime), i, type)
  <2>1. CASE \A i \in Int : RegimeAdaptive(i, b, regime) = <<>>
    BY <2>1, <1>t
  <2>2. CASE \A i \in Int : RegimeAdaptive(i, b, regime) = <<AtrBuy(i, b, b.atr)>>
    BY <2>2, <1>t
  <2>3. CASE \A i \in Int : RegimeAdaptive(i, b, regime) = <<AtrSell(i, b, b.atr)>>
    BY <2>3, <1>t
  <2> QED
    BY <1>b, <2>1, <2>2, <2>3 DEF RegimeAdaptive, FirstOf
<1> QED
  BY <1>1, <1>2, <1>3, <1>4

\* So does one that filters its entries only.
LEMMA EntryFilteredSays ==
  ASSUME NEW b \in BarRecords, NEW regime
  PROVE  /\ \E type \in Types : \A i \in Int : Says(Momentum(i, b, regime), i, type)
         /\ \E type \in Types : \A i \in Int : Says(Pullback(i, b, regime), i, type)
         /\ \E type \in Types : \A i \in Int : Says(VolatilityBreakout(i, b, regime), i, type)
<1> USE AtrSays, NothingSays
<1>t. None \in Types /\ "BUY" \in Types /\ "SELL" \in Types
  BY DEF Types
<1>b. /\ b.ready \in BOOLEAN /\ b.pass \in BOOLEAN /\ b.up \in BOOLEAN /\ b.down \in BOOLEAN
      /\ b.against \in BOOLEAN /\ b.turnUp \in BOOLEAN /\ b.turnDown \in BOOLEAN
  BY DEF BarRecords
<1>1. \E type \in Types : \A i \in Int : Says(Momentum(i, b, regime), i, type)
  <2>1. CASE \A i \in Int : Momentum(i, b, regime) = <<>>
    BY <2>1, <1>t
  <2>2. CASE \A i \in Int : Momentum(i, b, regime) = <<AtrBuy(i, b, b.atr)>>
    BY <2>2, <1>t
  <2>3. CASE \A i \in Int : Momentum(i, b, regime) = <<AtrSell(i, b, 0)>>
    BY <2>3, <1>t
  <2> QED
    BY <1>b, <2>1, <2>2, <2>3 DEF Momentum, FirstOf
<1>2. \E type \in Types : \A i \in Int : Says(Pullback(i, b, regime), i, type)
  <2>1. CASE \A i \in Int : Pullback(i, b, regime) = <<>>
    BY <2>1, <1>t
  <2>2. CASE \A i \in Int : Pullback(i, b, regime) = <<AtrBuy(i, b, AtrOr1(b))>>
    BY <2>2, <1>t
  <2>3. CASE \A i \in Int : Pullback(i, b, regime) = <<AtrSell(i, b, 0)>>
    BY <2>3, <1>t
  <2> QED
    BY <1>b, <2>1, <2>2, <2>3 DEF Pullback, FirstOf
<1>3. \E type \in Types : \A i \in Int : Says(VolatilityBreakout(i, b, regime), i, type)
  <2>1. CASE \A i \in Int : VolatilityBreakout(i, b, regime) = <<>>
    BY <2>1, <1>t
  <2>2. CASE \A i \in Int : VolatilityBreakout(i, b, regime) = <<AtrBuy(i, b, AtrOr1(b))>>
    BY <2>2, <1>t
  <2>3. CASE \A i \in Int : VolatilityBreakout(i, b, regime) = <<AtrSell(i, b, 0)>>
    BY <2>3, <1>t
  <2> QED
    BY <1>b, <2>1, <2>2, <2>3 DEF VolatilityBreakout, FirstOf
<1> QED
  BY <1>1, <1>2, <1>3

\* So does the one whose target is capped by a band.
LEMMA BollingerSays ==
  ASSUME NEW b \in BarRecords, NEW regime
  PROVE  \E type \in Types : \A i \in Int : Says(Bollinger(i, b, regime), i, type)
<1> DEFINE bought(i) == Signal("BUY", i, b, b.price - StopMult * b.atr,
                               Lesser(b.mid, b.price + TargetMult * b.atr))
           sold(i) == Signal("SELL", i, b, b.price + StopMult * b.atr,
                             Greater(b.mid, b.price - TargetMult * b.atr))
<1>1. \A i : Says(<<bought(i)>>, i, "BUY") /\ Says(<<sold(i)>>, i, "SELL")
  BY SignalSays
<1>2. None \in Types /\ "BUY" \in Types /\ "SELL" \in Types
  BY DEF Types
<1>3. \/ \A i \in Int : Bollinger(i, b, regime) = <<>>
      \/ \A i \in Int : Bollinger(i, b, regime) = <<bought(i)>>
      \/ \A i \in Int : Bollinger(i, b, regime) = <<sold(i)>>
  BY DEF Bollinger, FirstOf, BarRecords
<1> HIDE DEF bought, sold
<1> QED
  BY <1>1, <1>2, <1>3, NothingSays

\* What a strategy makes of a bar is one signal of a type or none, and the type
\* does not depend on where the bar stands.
LEMMA DecideSays ==
  ASSUME NEW strat \in StrategyNames, NEW b \in BarRecords, NEW regime
  PROVE  /\ Outcome(strat, b, regime) \in Types
         /\ \A i \in Int : Says(Decide(strat, i, b, regime), i, Outcome(strat, b, regime))
<1>1. \E type \in Types : \A i \in Int : Says(Decide(strat, i, b, regime), i, type)
  <2> USE FilteredSays, EntryFilteredSays, BollingerSays
  <2>1. CASE strat = "ema_atr"
    BY <2>1 DEF Decide
  <2>2. CASE strat = "rsi_mean_reversion"
    BY <2>2 DEF Decide
  <2>3. CASE strat = "bollinger_mean_reversion"
    BY <2>3 DEF Decide
  <2>4. CASE strat = "breakout"
    BY <2>4 DEF Decide
  <2>5. CASE strat = "momentum_continuation"
    BY <2>5 DEF Decide
  <2>6. CASE strat = "pullback_uptrend"
    BY <2>6 DEF Decide
  <2>7. CASE strat = "volatility_breakout"
    BY <2>7 DEF Decide
  <2>8. CASE strat = "regime_adaptive"
    BY <2>8 DEF Decide
  <2> QED
    BY <2>1, <2>2, <2>3, <2>4, <2>5, <2>6, <2>7, <2>8 DEF StrategyNames
<1> QED
  BY <1>1 DEF Outcome

\* Only regime_adaptive asks for the regime.
LEMMA RegimeIsForOne ==
  ASSUME NEW strat \in StrategyNames, strat # "regime_adaptive", NEW b \in BarRecords,
         NEW r1, NEW r2
  PROVE  Outcome(strat, b, r1) = Outcome(strat, b, r2)
<1>1. \A i \in Int : Decide(strat, i, b, r1) = Decide(strat, i, b, r2)
  BY DEF Decide, StrategyNames, EmaAtr, RsiMeanReversion, Bollinger, Breakout, Momentum,
         Pullback, VolatilityBreakout, FirstOf
<1>2. \A type \in Types : (\A i \in Int : Says(Decide(strat, i, b, r1), i, type))
                          <=> (\A i \in Int : Says(Decide(strat, i, b, r2), i, type))
  BY <1>1
<1> QED
  BY <1>2 DEF Outcome

(***************************************************************************)
(* The scan.  Its recursion is a function on 0 .. Len(bars): one exists, by *)
(* the first length that would have none.                                  *)
(***************************************************************************)

\* g is the scan of the first m bars.
Scans(strat, bars, m, g) ==
  g = [k \in 0 .. m |-> IF k = 0 THEN Fresh ELSE Step(strat, g[k - 1], k - 1, bars[k])]

\* There is a scan of every prefix.
LEMMA ScanExists ==
  ASSUME NEW strat, NEW bars, NEW n \in Nat
  PROVE  \E g : Scans(strat, bars, n, g)
<1> DEFINE T == {m \in Nat : ~ \E g : Scans(strat, bars, m, g)}
<1>1. SUFFICES ASSUME T # {} PROVE FALSE
  OBVIOUS
<1>2. PICK m \in T : \A y \in T : m <= y
  BY <1>1, LeastNat
<1>3. m \in Nat /\ ~ \E g : Scans(strat, bars, m, g)
  BY <1>2
<1>4. m # 0
  <2> DEFINE g == [k \in 0 .. 0 |-> Fresh]
  <2>1. g = [k \in 0 .. 0 |-> IF k = 0 THEN Fresh ELSE Step(strat, g[k - 1], k - 1, bars[k])]
    OBVIOUS
  <2>2. Scans(strat, bars, 0, g)
    BY <2>1 DEF Scans
  <2> QED
    BY <1>3, <2>2
<1>5. m - 1 \in Nat /\ m - 1 \notin T
  BY <1>2, <1>3, <1>4
<1>6. PICK f : Scans(strat, bars, m - 1, f)
  BY <1>5
<1> DEFINE h == [k \in 0 .. m |-> IF k = m THEN Step(strat, f[m - 1], m - 1, bars[m]) ELSE f[k]]
<1>7. \A k \in 0 .. m - 1 :
        f[k] = IF k = 0 THEN Fresh ELSE Step(strat, f[k - 1], k - 1, bars[k])
  BY <1>6 DEF Scans
<1>8. \A k \in 0 .. m :
        h[k] = IF k = 0 THEN Fresh ELSE Step(strat, h[k - 1], k - 1, bars[k])
  <2> SUFFICES ASSUME NEW k \in 0 .. m
               PROVE  h[k] = IF k = 0 THEN Fresh ELSE Step(strat, h[k - 1], k - 1, bars[k])
    OBVIOUS
  <2>1. CASE k = m
    <3>1. h[m] = Step(strat, f[m - 1], m - 1, bars[m]) /\ h[m - 1] = f[m - 1]
      BY <1>3, <1>4
    <3> QED
      BY <2>1, <3>1, <1>4
  <2>2. CASE k # m
    <3>1. k \in 0 .. m - 1 /\ h[k] = f[k]
      BY <2>2, <1>3
    <3>2. k # 0 => h[k - 1] = f[k - 1]
      BY <3>1, <1>3
    <3> QED
      BY <3>1, <3>2, <1>7
  <2> QED
    BY <2>1, <2>2
<1>9. Scans(strat, bars, m, h)
  BY <1>8 DEF Scans
<1> QED
  BY <1>3, <1>9

\* Scan is that function.
LEMMA ScanIs ==
  ASSUME NEW strat, NEW bars \in Seq(BarRecords)
  PROVE  /\ Scan(strat, bars)[0] = Fresh
         /\ \A k \in 1 .. Len(bars) :
              Scan(strat, bars)[k] = Step(strat, Scan(strat, bars)[k - 1], k - 1, bars[k])
<1>1. Len(bars) \in Nat
  OBVIOUS
<1>2. \E g : Scans(strat, bars, Len(bars), g)
  BY <1>1, ScanExists
<1>3. Scan(strat, bars) = CHOOSE g : Scans(strat, bars, Len(bars), g)
  BY DEF Scan, Scans
<1>4. Scans(strat, bars, Len(bars), Scan(strat, bars))
  BY <1>2, <1>3
<1> DEFINE S == Scan(strat, bars)
<1>5. \A k \in 0 .. Len(bars) : S[k] = IF k = 0 THEN Fresh ELSE Step(strat, S[k - 1], k - 1, bars[k])
  BY <1>4 DEF Scans
<1> HIDE DEF S
<1>6. S[0] = Fresh
  BY <1>5, <1>1
<1>7. \A k \in 1 .. Len(bars) : S[k] = Step(strat, S[k - 1], k - 1, bars[k])
  BY <1>5, <1>1
<1> QED
  BY <1>6, <1>7 DEF S

\* What is known after some bars does not depend on the bars that follow.
LEMMA ScanPrefix ==
  ASSUME NEW strat, NEW bars \in Seq(BarRecords), NEW longer \in Seq(BarRecords),
         Len(bars) <= Len(longer), \A k \in 1 .. Len(bars) : bars[k] = longer[k]
  PROVE  \A k \in 0 .. Len(bars) : Scan(strat, bars)[k] = Scan(strat, longer)[k]
<1> DEFINE S == Scan(strat, bars)
           L == Scan(strat, longer)
           T == {k \in 0 .. Len(bars) : S[k] # L[k]}
<1>n. Len(bars) \in Nat /\ Len(longer) \in Nat
  OBVIOUS
<1>s. /\ S[0] = Fresh /\ L[0] = Fresh
      /\ \A k \in 1 .. Len(bars) : S[k] = Step(strat, S[k - 1], k - 1, bars[k])
      /\ \A k \in 1 .. Len(longer) : L[k] = Step(strat, L[k - 1], k - 1, longer[k])
  BY ScanIs
<1> HIDE DEF S, L
<1>1. SUFFICES ASSUME T # {} PROVE FALSE
  BY DEF S, L
<1>2. T \in SUBSET Nat
  BY <1>n
<1>3. PICK k \in T : \A y \in T : k <= y
  BY <1>1, <1>2, LeastNat
<1>4. k \in 0 .. Len(bars) /\ S[k] # L[k]
  BY <1>3
<1>5. k # 0
  BY <1>4, <1>s
<1>6. k - 1 \in 0 .. Len(bars) /\ k - 1 \notin T
  BY <1>3, <1>4, <1>5, <1>n
<1>7. S[k - 1] = L[k - 1]
  BY <1>6
<1>8. k \in 1 .. Len(bars) /\ k \in 1 .. Len(longer)
  BY <1>4, <1>5, <1>n
<1> QED
  BY <1>4, <1>7, <1>8, <1>s

(***************************************************************************)
(* What is in the scan: at most one signal of each bar, and which.         *)
(***************************************************************************)

\* Bar k gives no signal before the strategy's first bar and while it cools down.
Mute(strat, last, k) == k - 1 < FirstBar(strat) \/ k - 1 - last < Cooldown

\* The type of signal the scan takes from bar k, counted from 1.
Decision(strat, bars, k) ==
  IF Mute(strat, Scan(strat, bars)[k - 1].last, k) THEN None
  ELSE Outcome(strat, bars[k], Scan(strat, bars)[k].regime)

\* sigs has one signal of bar i, of that type; none if the type is None.
Picks(sigs, i, type) ==
  IF type = None THEN \A j \in DOMAIN sigs : sigs[j].bar # i
  ELSE \E j \in DOMAIN sigs :
         /\ sigs[j].bar = i /\ sigs[j].type = type
         /\ \A q \in DOMAIN sigs : sigs[q].bar = i => q = j

\* The runtime reads the newest signal of a bar, the backtest the first one.
\* Where there is one at most, both read it.
LEMMA BothPick ==
  ASSUME NEW sigs, DOMAIN sigs \subseteq Nat, NEW i, NEW type, Picks(sigs, i, type)
  PROVE  SelectCurrentSignal(sigs, i) = type /\ SignalMap(sigs, i) = type
<1>1. CASE type = None
  <2>1. Stamped(sigs, i) = {}
    BY <1>1 DEF Picks, Stamped
  <2> QED
    BY <1>1, <2>1 DEF SelectCurrentSignal, SignalMap
<1>2. CASE type # None
  <2>1. PICK j \in DOMAIN sigs : /\ sigs[j].bar = i /\ sigs[j].type = type
                                /\ \A q \in DOMAIN sigs : sigs[q].bar = i => q = j
    BY <1>2 DEF Picks
  <2>2. Stamped(sigs, i) = {j}
    BY <2>1 DEF Stamped
  <2>3. j \in Nat
    BY <2>1
  <2>4. Max({j}) = j /\ Min({j}) = j
    BY <2>3 DEF Max, Min
  <2>5. {j} # {}
    OBVIOUS
  <2> QED
    BY <2>1, <2>2, <2>4, <2>5 DEF SelectCurrentSignal, SignalMap
<1> QED
  BY <1>1, <1>2

\* A new signal of another bar changes nothing for bar i.
LEMMA PicksKeeps ==
  ASSUME NEW V, NEW sigs \in Seq(V), NEW sig \in V, NEW i, NEW type,
         sig.bar # i, Picks(sigs, i, type)
  PROVE  Picks(sigs \o <<sig>>, i, type)
<1> DEFINE more == sigs \o <<sig>>
<1>1. /\ Len(sigs) \in Nat
      /\ DOMAIN sigs = 1 .. Len(sigs) /\ DOMAIN more = 1 .. Len(sigs) + 1
      /\ more[Len(sigs) + 1] = sig
      /\ \A j \in 1 .. Len(sigs) : more[j] = sigs[j]
  OBVIOUS
<1> HIDE DEF more
<1>2. \A q \in DOMAIN more : more[q].bar = i => q \in DOMAIN sigs /\ sigs[q].bar = i
  BY <1>1
<1>3. \A q \in DOMAIN sigs : q \in DOMAIN more /\ more[q] = sigs[q]
  BY <1>1
<1>4. Picks(more, i, type)
  BY <1>2, <1>3 DEF Picks
<1> QED
  BY <1>4 DEF more

\* A signal of a bar that had none is the one that is picked.
LEMMA PicksNew ==
  ASSUME NEW V, NEW sigs \in Seq(V), NEW sig \in V, sig.type # None,
         \A j \in DOMAIN sigs : sigs[j].bar # sig.bar
  PROVE  Picks(sigs \o <<sig>>, sig.bar, sig.type)
<1> DEFINE more == sigs \o <<sig>>
<1>1. /\ Len(sigs) \in Nat
      /\ DOMAIN sigs = 1 .. Len(sigs) /\ DOMAIN more = 1 .. Len(sigs) + 1
      /\ more[Len(sigs) + 1] = sig
      /\ \A j \in 1 .. Len(sigs) : more[j] = sigs[j]
  OBVIOUS
<1> HIDE DEF more
<1>2. \A q \in DOMAIN more : more[q].bar = sig.bar => q = Len(sigs) + 1
  BY <1>1
<1>3. Picks(more, sig.bar, sig.type)
  BY <1>1, <1>2 DEF Picks
<1> QED
  BY <1>3 DEF more

\* What the strategy decides on bar k after st.
Turn(strat, st, k, b) ==
  IF Mute(strat, st.last, k) THEN None ELSE Outcome(strat, b, Hysteresis(st.regime, b))

\* From st to next the scan took the one signal of its decision, or none.
Took(strat, st, k, b, next) ==
  /\ next.regime = Hysteresis(st.regime, b)
  /\ Turn(strat, st, k, b) \in Types
  /\ Turn(strat, st, k, b) = None => next.last = st.last /\ next.signals = st.signals \o <<>>
  /\ Turn(strat, st, k, b) # None =>
       /\ next.last = k - 1
       /\ \E sig : /\ next.signals = st.signals \o <<sig>>
                   /\ Decide(strat, k - 1, b, next.regime) = <<sig>>
                   /\ sig.bar = k - 1 /\ sig.type = Turn(strat, st, k, b)

\* A step of the scan does so.
LEMMA StepTakes ==
  ASSUME NEW strat \in StrategyNames, NEW st, NEW k \in Nat \ {0}, NEW b \in BarRecords
  PROVE  Took(strat, st, k, b, Step(strat, st, k - 1, b))
<1> DEFINE next == Step(strat, st, k - 1, b)
           type == Turn(strat, st, k, b)
<1> DEFINE regime == Hysteresis(st.regime, b)
           said == Decide(strat, k - 1, b, regime)
           new == IF Mute(strat, st.last, k) THEN <<>> ELSE said
<1>1. /\ next.regime = regime
      /\ next.last = IF new = <<>> THEN st.last ELSE k - 1
      /\ next.signals = st.signals \o new
  <2> HIDE DEF regime, said
  <2>1. next = [last |-> IF new = <<>> THEN st.last ELSE k - 1, regime |-> regime,
                signals |-> st.signals \o new]
    BY DEF Step, Mute, regime, said
  <2> HIDE DEF new
  <2> QED
    BY <2>1
<1>2. /\ Outcome(strat, b, regime) \in Types
      /\ Says(said, k - 1, Outcome(strat, b, regime))
  BY DecideSays
<1>t. type = IF Mute(strat, st.last, k) THEN None ELSE Outcome(strat, b, regime)
  BY DEF Turn
<1> HIDE DEF regime, said, next, type
<1> SUFFICES /\ next.regime = regime
             /\ type \in Types
             /\ type = None => next.last = st.last /\ next.signals = st.signals \o <<>>
             /\ type # None => /\ next.last = k - 1
                              /\ \E sig : /\ next.signals = st.signals \o <<sig>>
                                          /\ Decide(strat, k - 1, b, next.regime) = <<sig>>
                                          /\ sig.bar = k - 1 /\ sig.type = type
  BY DEF Took, next, type, regime
<1>3. CASE Mute(strat, st.last, k)
  BY <1>1, <1>t, <1>3 DEF Types
<1>4. CASE ~Mute(strat, st.last, k)
  <2>1. type = Outcome(strat, b, regime) /\ new = said
    BY <1>t, <1>4
  <2>2. CASE type = None
    BY <1>1, <1>2, <2>1, <2>2 DEF Says
  <2>3. CASE type # None
    <3>1. PICK sig : said = <<sig>> /\ sig.bar = k - 1 /\ sig.type = type
      BY <1>2, <2>1, <2>3 DEF Says
    <3>2. new # <<>> /\ new = <<sig>>
      BY <3>1, <2>1
    <3>3. said = Decide(strat, k - 1, b, next.regime)
      BY <1>1 DEF said
    <3> QED
      BY <1>1, <1>2, <2>1, <2>3, <3>1, <3>2, <3>3
  <2> QED
    BY <2>2, <2>3
<1> QED
  BY <1>3, <1>4

\* The signals of a scan.
Voiced(strat, bars) ==
  LET said(k) == Decide(strat, k - 1, bars[k], Scan(strat, bars)[k].regime) IN
  {said(k)[1] : k \in {q \in 1 .. Len(bars) : said(q) # <<>>}}

\* After m bars: the signals are of those bars, of each as decided, and the last
\* one is remembered.
Traced(strat, bars, m) ==
  LET st == Scan(strat, bars)[m] IN
  /\ st.signals \in Seq(Voiced(strat, bars))
  /\ \A j \in DOMAIN st.signals : st.signals[j].bar \in 0 .. m - 1
  /\ \A k \in 1 .. m : Picks(st.signals, k - 1, Decision(strat, bars, k))
  /\ \/ st.last = -Cooldown
     \/ \E k \in 1 .. m : Decision(strat, bars, k) # None /\ st.last = k - 1

\* A scan starts with nothing.
LEMMA TracedFirst ==
  ASSUME NEW strat \in StrategyNames, NEW bars \in Seq(BarRecords)
  PROVE  Traced(strat, bars, 0)
<1>1. Scan(strat, bars)[0].signals = <<>> /\ Scan(strat, bars)[0].last = -Cooldown
  BY ScanIs DEF Fresh
<1>2. <<>> \in Seq(Voiced(strat, bars)) /\ DOMAIN <<>> = {}
  OBVIOUS
<1> QED
  BY <1>1, <1>2 DEF Traced

\* A bar adds its own signal, if it gives one.
LEMMA TracedStep ==
  ASSUME NEW strat \in StrategyNames, NEW bars \in Seq(BarRecords),
         NEW m \in 1 .. Len(bars), Traced(strat, bars, m - 1)
  PROVE  Traced(strat, bars, m)
<1> DEFINE V == Voiced(strat, bars)
           S == Scan(strat, bars)
           old == S[m - 1].signals
           type == Decision(strat, bars, m)
<1>m. Len(bars) \in Nat /\ m \in Nat \ {0} /\ bars[m] \in BarRecords
  OBVIOUS
<1>s. S[m] = Step(strat, S[m - 1], m - 1, bars[m])
  BY ScanIs
<1>1. /\ old \in Seq(V)
      /\ \A j \in DOMAIN old : old[j].bar \in 0 .. m - 2
      /\ \A k \in 1 .. m - 1 : Picks(old, k - 1, Decision(strat, bars, k))
      /\ \/ S[m - 1].last = -Cooldown
         \/ \E k \in 1 .. m - 1 : Decision(strat, bars, k) # None /\ S[m - 1].last = k - 1
  <2>1. (m - 1) - 1 = m - 2
    BY <1>m
  <2> QED
    BY <2>1 DEF Traced
<1>2. /\ type \in Types
      /\ type = None => S[m].last = S[m - 1].last /\ S[m].signals = old \o <<>>
      /\ type # None => /\ S[m].last = m - 1
                       /\ \E sig : /\ S[m].signals = old \o <<sig>>
                                   /\ Decide(strat, m - 1, bars[m], S[m].regime) = <<sig>>
                                   /\ sig.bar = m - 1 /\ sig.type = type
  <2>1. Took(strat, S[m - 1], m, bars[m], S[m])
    BY <1>m, <1>s, StepTakes
  <2>2. type = Turn(strat, S[m - 1], m, bars[m])
    BY <2>1 DEF Took, Turn, Decision
  <2> HIDE DEF type, S
  <2> QED
    BY <2>1, <2>2 DEF Took
<1> HIDE DEF S
<1>3. CASE type = None
  <2>1. S[m].signals = old /\ S[m].last = S[m - 1].last
    BY <1>1, <1>2, <1>3, ConcatEmptySeq
  <2>2. \A j \in DOMAIN old : old[j].bar \in 0 .. m - 1 /\ old[j].bar # m - 1
    BY <1>1, <1>m
  <2>3. Picks(old, m - 1, type)
    BY <1>3, <2>2 DEF Picks
  <2>4. \A k \in 1 .. m : Picks(old, k - 1, Decision(strat, bars, k))
    BY <1>1, <2>3, <1>m
  <2>5. 1 .. m - 1 \subseteq 1 .. m
    BY <1>m
  <2> HIDE DEF type, V, old
  <2> QED
    BY <1>1, <2>1, <2>2, <2>4, <2>5 DEF Traced, S, V
<1>4. CASE type # None
  <2>1. PICK sig : /\ S[m].signals = old \o <<sig>>
                   /\ Decide(strat, m - 1, bars[m], S[m].regime) = <<sig>>
                   /\ sig.bar = m - 1 /\ sig.type = type
    BY <1>2, <1>4
  <2>2. /\ sig = Decide(strat, m - 1, bars[m], S[m].regime)[1]
        /\ Decide(strat, m - 1, bars[m], S[m].regime) # <<>>
    BY <2>1
  <2>3. sig \in V
    BY <2>2 DEF Voiced, S
  <2> DEFINE new == old \o <<sig>>
  <2> HIDE DEF type, V, old
  <2>4. /\ new \in Seq(V)
        /\ DOMAIN old = 1 .. Len(old) /\ Len(old) \in Nat /\ DOMAIN new = 1 .. Len(old) + 1
        /\ new[Len(old) + 1] = sig
        /\ \A j \in 1 .. Len(old) : new[j] = old[j]
    BY <1>1, <2>3
  <2>5. \A j \in DOMAIN old : old[j].bar \in 0 .. m - 1 /\ old[j].bar # m - 1
    BY <1>1, <1>m
  <2>6. \A j \in DOMAIN new : new[j].bar \in 0 .. m - 1
    <3> SUFFICES ASSUME NEW j \in DOMAIN new PROVE new[j].bar \in 0 .. m - 1
      OBVIOUS
    <3>1. CASE j \in DOMAIN old
      BY <3>1, <2>4, <2>5
    <3>2. CASE j \notin DOMAIN old
      <4>1. new[j] = sig
        BY <3>2, <2>4
      <4> QED
        BY <4>1, <2>1, <1>m
    <3> QED
      BY <3>1, <3>2
  <2>7. Picks(new, m - 1, type)
    BY <1>1, <1>4, <2>1, <2>3, <2>5, PicksNew
  <2>8. \A k \in 1 .. m - 1 : Picks(new, k - 1, Decision(strat, bars, k))
    <3> SUFFICES ASSUME NEW k \in 1 .. m - 1
                 PROVE  Picks(new, k - 1, Decision(strat, bars, k))
      OBVIOUS
    <3>1. sig.bar # k - 1
      BY <2>1, <1>m
    <3>2. Picks(old, k - 1, Decision(strat, bars, k))
      BY <1>1
    <3> HIDE DEF new
    <3> QED
      BY <3>1, <3>2, <1>1, <2>3, PicksKeeps DEF new
  <2>9. \A k \in 1 .. m : Picks(new, k - 1, Decision(strat, bars, k))
    BY <2>7, <2>8, <1>m DEF type
  <2>10. m \in 1 .. m /\ S[m].last = m - 1 /\ S[m].signals = new
    BY <1>2, <1>4, <1>m, <2>1
  <2> HIDE DEF new
  <2> QED
    BY <1>4, <2>4, <2>6, <2>9, <2>10 DEF Traced, S, V, type
<1> QED
  BY <1>3, <1>4

\* So it is after every number of bars.
LEMMA ScanTraced ==
  ASSUME NEW strat \in StrategyNames, NEW bars \in Seq(BarRecords)
  PROVE  \A m \in 0 .. Len(bars) : Traced(strat, bars, m)
<1> DEFINE T == {m \in 0 .. Len(bars) : ~Traced(strat, bars, m)}
<1>n. Len(bars) \in Nat
  OBVIOUS
<1>1. SUFFICES ASSUME T # {} PROVE FALSE
  OBVIOUS
<1>2. T \in SUBSET Nat
  BY <1>n
<1>3. PICK m \in T : \A y \in T : m <= y
  BY <1>1, <1>2, LeastNat
<1>4. m \in 0 .. Len(bars) /\ ~Traced(strat, bars, m)
  BY <1>3
<1>5. m # 0
  BY <1>4, TracedFirst
<1>6. m \in 1 .. Len(bars) /\ m - 1 \in 0 .. Len(bars) /\ m - 1 \notin T
  BY <1>3, <1>4, <1>5, <1>n
<1>7. Traced(strat, bars, m - 1)
  BY <1>6
<1> QED
  BY <1>4, <1>6, <1>7, TracedStep

\* What both readers find on a bar is what the scan decided there.
LEMMA DecisionPicked ==
  ASSUME NEW strat \in StrategyNames, NEW bars \in Seq(BarRecords), Len(bars) >= MinPeriods,
         NEW k \in 1 .. Len(bars)
  PROVE  /\ SelectCurrentSignal(GenerateSignals(strat, bars), k - 1) = Decision(strat, bars, k)
         /\ SignalMap(GenerateSignals(strat, bars), k - 1) = Decision(strat, bars, k)
         /\ Decision(strat, bars, k) # None =>
              \E j \in DOMAIN GenerateSignals(strat, bars) :
                GenerateSignals(strat, bars)[j].bar = k - 1
<1> DEFINE sigs == GenerateSignals(strat, bars)
<1>1. Len(bars) \in Nat /\ Len(bars) \in 0 .. Len(bars)
  OBVIOUS
<1>2. MinPeriods \in Nat
  BY SignalsAssumption
<1>3. sigs = Scan(strat, bars)[Len(bars)].signals
  BY <1>1, <1>2 DEF GenerateSignals
<1>4. Traced(strat, bars, Len(bars))
  BY <1>1, ScanTraced
<1>5. sigs \in Seq(Voiced(strat, bars)) /\ Picks(sigs, k - 1, Decision(strat, bars, k))
  BY <1>3, <1>4 DEF Traced
<1> HIDE DEF sigs
<1>6. DOMAIN sigs \subseteq Nat
  BY <1>5
<1>7. SelectCurrentSignal(sigs, k - 1) = Decision(strat, bars, k)
      /\ SignalMap(sigs, k - 1) = Decision(strat, bars, k)
  BY <1>5, <1>6, BothPick
<1>8. Decision(strat, bars, k) # None => \E j \in DOMAIN sigs : sigs[j].bar = k - 1
  BY <1>5 DEF Picks
<1> QED
  BY <1>7, <1>8 DEF sigs

\* The decision on a bar is one of the types, and does not depend on what follows.
LEMMA DecisionPrefix ==
  ASSUME NEW strat \in StrategyNames, NEW bars \in Seq(BarRecords), NEW longer \in Seq(BarRecords),
         Len(bars) <= Len(longer), \A j \in 1 .. Len(bars) : bars[j] = longer[j],
         NEW k \in 1 .. Len(bars)
  PROVE  Decision(strat, bars, k) \in Types /\ Decision(strat, bars, k) = Decision(strat, longer, k)
<1>1. Len(bars) \in Nat /\ k \in 0 .. Len(bars) /\ k - 1 \in 0 .. Len(bars)
  OBVIOUS
<1>2. Scan(strat, bars)[k] = Scan(strat, longer)[k]
      /\ Scan(strat, bars)[k - 1] = Scan(strat, longer)[k - 1]
  BY <1>1, ScanPrefix
<1>3. bars[k] = longer[k] /\ bars[k] \in BarRecords
  OBVIOUS
<1>4. Decision(strat, bars, k) = Decision(strat, longer, k)
  BY <1>2, <1>3 DEF Decision
<1>5. Outcome(strat, bars[k], Scan(strat, bars)[k].regime) \in Types
  BY <1>3, DecideSays
<1>6. Decision(strat, bars, k) \in Types
  BY <1>5 DEF Decision, Types
<1> QED
  BY <1>4, <1>6

(***************************************************************************)
(* The runtime and the backtest.                                           *)
(***************************************************************************)

\* What a strategy's candles are to a scan of them all.
BarsOf(strat) == {r.full : r \in ReadingsOf[strat]}

SignalsTypeOK ==
  /\ strategy \in Strategies
  /\ candles \in Seq(BarsOf(strategy))
  /\ start \in 1 .. Len(candles) + 1
  /\ buffer \in Seq(BarRecords)
  /\ Len(buffer) = Len(candles) - start + 1
  /\ acted \in Seq(Types)
  /\ Len(acted) = Len(candles)

\* The buffer of the first process is the history.
BufferIsHistory == start = 1 => buffer = candles

\* Since the process started, each bar was acted on as the buffer then said.
ActedFollows ==
  \A k \in start .. Len(candles) : acted[k] = Acts(SubSeq(buffer, 1, k - start + 1))

SignalsInv == SignalsTypeOK /\ BufferIsHistory /\ ActedFollows

\* Both readings of a candle are bars.
LEMMA ReadingsAreBars ==
  ASSUME NEW strat \in Strategies
  PROVE  /\ strat \in StrategyNames /\ BarsOf(strat) \subseteq BarRecords
         /\ \A r \in ReadingsOf[strat] : r.full \in BarRecords /\ r.own \in BarRecords
<1>1. strat \in DOMAIN ReadingsOf /\ strat \in StrategyNames
  BY SignalsAssumption DEF Strategies
<1>2. \A r \in ReadingsOf[strat] : r \in Readings
  BY <1>1, SignalsAssumption
<1>3. \A r \in Readings : r.full \in BarRecords /\ r.own \in BarRecords
  BY DEF Readings
<1> QED
  BY <1>1, <1>2, <1>3 DEF BarsOf

\* The candles of a strategy are bars.
LEMMA CandlesAreBars ==
  ASSUME SignalsTypeOK
  PROVE  strategy \in StrategyNames /\ candles \in Seq(BarRecords)
<1>1. strategy \in StrategyNames /\ BarsOf(strategy) \subseteq BarRecords
  BY ReadingsAreBars DEF SignalsTypeOK
<1> QED
  BY <1>1, SeqMonotonic DEF SignalsTypeOK

\* What is acted on is a type of signal, or nothing.
LEMMA ActsOnTypes ==
  ASSUME strategy \in StrategyNames, NEW bars \in Seq(BarRecords), Len(bars) > 0
  PROVE  Acts(bars) \in Types
<1>0. Len(bars) \in Nat /\ MinBuffer \in Nat /\ MinPeriods \in Nat
  BY SignalsAssumption
<1>1. CASE Len(bars) < MinBuffer
  BY <1>1 DEF Acts, Types
<1>2. CASE Len(bars) >= MinBuffer /\ Len(bars) < MinPeriods
  <2>1. GenerateSignals(strategy, bars) = <<>>
    BY <1>2 DEF GenerateSignals
  <2>2. Stamped(<<>>, Len(bars) - 1) = {}
    BY DEF Stamped
  <2>3. Acts(bars) = None
    BY <2>1, <2>2 DEF Acts, SelectCurrentSignal
  <2> QED
    BY <2>3 DEF Types
<1>3. CASE Len(bars) >= MinBuffer /\ Len(bars) >= MinPeriods
  <2>1. Len(bars) \in 1 .. Len(bars) /\ Len(bars) \in Nat
    BY <1>0
  <2>2. Decision(strategy, bars, Len(bars)) \in Types
    BY <2>1, DecisionPrefix
  <2>3. SelectCurrentSignal(GenerateSignals(strategy, bars), Len(bars) - 1)
          = Decision(strategy, bars, Len(bars))
    BY <2>1, <1>3, DecisionPicked
  <2> QED
    BY <1>3, <1>0, <2>2, <2>3 DEF Acts
<1> QED
  BY <1>0, <1>1, <1>2, <1>3

\* A sequence is its own first part; one that grew has the same first parts.
LEMMA FirstParts ==
  ASSUME NEW bars \in Seq(BarRecords), NEW b \in BarRecords
  PROVE  /\ SubSeq(Append(bars, b), 1, Len(bars) + 1) = Append(bars, b)
         /\ \A i \in 0 .. Len(bars) : SubSeq(Append(bars, b), 1, i) = SubSeq(bars, 1, i)
<1> DEFINE longer == Append(bars, b)
<1>1. /\ longer \in Seq(BarRecords) /\ Len(longer) = Len(bars) + 1 /\ Len(bars) \in Nat
      /\ \A j \in 1 .. Len(bars) : longer[j] = bars[j]
  OBVIOUS
<1> HIDE DEF longer
<1>2. SubSeq(longer, 1, Len(bars) + 1) = longer
  <2>1. /\ SubSeq(longer, 1, Len(bars) + 1) \in Seq(BarRecords)
        /\ Len(SubSeq(longer, 1, Len(bars) + 1)) = Len(longer)
        /\ \A j \in 1 .. Len(longer) : SubSeq(longer, 1, Len(bars) + 1)[j] = longer[j]
    BY <1>1
  <2> QED
    BY <1>1, <2>1, SeqEqual
<1>3. ASSUME NEW i \in 0 .. Len(bars)
      PROVE  SubSeq(longer, 1, i) = SubSeq(bars, 1, i)
  <2>1. /\ SubSeq(longer, 1, i) \in Seq(BarRecords) /\ Len(SubSeq(longer, 1, i)) = i
        /\ \A j \in 1 .. i : SubSeq(longer, 1, i)[j] = longer[j]
    BY <1>1
  <2>2. /\ SubSeq(bars, 1, i) \in Seq(BarRecords) /\ Len(SubSeq(bars, 1, i)) = i
        /\ \A j \in 1 .. i : SubSeq(bars, 1, i)[j] = bars[j] /\ longer[j] = bars[j]
    BY <1>1
  <2>3. \A j \in 1 .. i : SubSeq(longer, 1, i)[j] = SubSeq(bars, 1, i)[j]
    BY <2>1, <2>2
  <2> QED
    BY <2>1, <2>2, <2>3, SeqEqual
<1> QED
  BY <1>2, <1>3 DEF longer

\* A candle is judged by the buffer that ends with it; earlier ones stay.
LEMMA CandleFollows ==
  SignalsInv /\ Candle => SignalsInv'
<1> SUFFICES ASSUME SignalsInv, Candle PROVE SignalsInv'
  OBVIOUS
<1> DEFINE n == Len(candles)
           m == Len(buffer)
<1>1. PICK r \in ReadingsOf[strategy] :
        /\ candles' = Append(candles, r.full)
        /\ buffer' = Append(buffer, IF start = 1 THEN r.full ELSE r.own)
  BY DEF Candle
<1>2. strategy' = strategy /\ start' = start /\ acted' = Append(acted, Acts(buffer'))
  BY DEF Candle, Acts
<1>t. /\ strategy \in StrategyNames /\ strategy \in Strategies
      /\ candles \in Seq(BarsOf(strategy)) /\ candles \in Seq(BarRecords)
      /\ buffer \in Seq(BarRecords) /\ n \in Nat /\ m \in Nat /\ start \in 1 .. n + 1
      /\ m = n - start + 1 /\ acted \in Seq(Types) /\ Len(acted) = n
  BY CandlesAreBars DEF SignalsInv, SignalsTypeOK
<1>r. r.full \in BarsOf(strategy) /\ r.full \in BarRecords /\ r.own \in BarRecords
  BY <1>t, ReadingsAreBars DEF BarsOf
<1>b. PICK b \in BarRecords : b = IF start = 1 THEN r.full ELSE r.own
  BY <1>r
<1>3. candles' \in Seq(BarsOf(strategy)) /\ Len(candles') = n + 1
  BY <1>1, <1>t, <1>r
<1>4. /\ buffer' = Append(buffer, b) /\ buffer' \in Seq(BarRecords) /\ Len(buffer') = m + 1
  <2>1. buffer' = Append(buffer, b)
    BY <1>1, <1>b
  <2> QED
    BY <2>1, <1>t
<1> HIDE DEF n, m
<1>5. Acts(buffer') \in Types
  <2>0. buffer' \in Seq(BarRecords) /\ Len(buffer') > 0
    BY <1>4, <1>t
  <2>1. PICK bars \in Seq(BarRecords) : bars = buffer' /\ Len(bars) > 0
    BY <2>0, Zenon
  <2>2. Acts(bars) \in Types
    BY <2>1, <1>t, ActsOnTypes
  <2> QED
    BY <2>1, <2>2
<1>6. /\ acted' \in Seq(Types) /\ Len(acted') = n + 1
      /\ acted'[n + 1] = Acts(buffer') /\ \A k \in 1 .. n : acted'[k] = acted[k]
  BY <1>2, <1>5, <1>t
<1>7. SignalsTypeOK'
  BY <1>2, <1>3, <1>4, <1>6, <1>t DEF SignalsTypeOK, Strategies, BarsOf
<1>8. BufferIsHistory'
  <2>1. start = 1 => buffer = candles
    BY DEF SignalsInv, BufferIsHistory
  <2> QED
    BY <1>1, <1>2, <2>1 DEF BufferIsHistory
<1>9. ActedFollows'
  <2> SUFFICES ASSUME NEW k \in start .. n + 1
               PROVE  acted'[k] = Acts(SubSeq(buffer', 1, k - start + 1))
    BY <1>2, <1>3 DEF ActedFollows, Acts
  <2>1. CASE k = n + 1
    <3>1. k - start + 1 = m + 1
      BY <2>1, <1>t
    <3>2. SubSeq(buffer', 1, m + 1) = buffer'
      BY <1>4, <1>t, FirstParts DEF m
    <3> QED
      BY <2>1, <3>1, <3>2, <1>6
  <2>2. CASE k # n + 1
    <3>1. k \in start .. n /\ k \in 1 .. n
      BY <2>2, <1>t
    <3>2. acted[k] = Acts(SubSeq(buffer, 1, k - start + 1))
      BY <3>1 DEF SignalsInv, ActedFollows, n
    <3>3. k - start + 1 \in 0 .. m
      BY <3>1, <1>t
    <3>4. SubSeq(buffer', 1, k - start + 1) = SubSeq(buffer, 1, k - start + 1)
      BY <3>3, <1>4, <1>t, FirstParts DEF m
    <3> QED
      BY <3>1, <3>2, <3>4, <1>6
  <2> QED
    BY <2>1, <2>2
<1> QED
  BY <1>7, <1>8, <1>9 DEF SignalsInv

\* For every strategy, every cooldown, warm-up and minimal buffer, and histories
\* of any length: what the orchestrator acted on is what its buffer said then.
THEOREM SignalsInvariant == Spec => []SignalsInv
<1>1. Init => SignalsInv
  BY DEF Init, SignalsInv, SignalsTypeOK, BufferIsHistory, ActedFollows, BarsOf
<1>2. SignalsInv /\ [Next]_vars => SignalsInv'
  <2> SUFFICES ASSUME SignalsInv, [Next]_vars PROVE SignalsInv'
    OBVIOUS
  <2>1. CASE Candle
    BY <2>1, CandleFollows
  <2>2. CASE Restart
    <3>1. /\ start' = Len(candles) + 1 /\ strategy' = strategy /\ buffer' = <<>>
          /\ candles' = candles /\ candles # <<>> /\ acted' = acted
      BY <2>2 DEF Restart
    <3>2. SignalsTypeOK'
      BY <3>1 DEF SignalsInv, SignalsTypeOK, Strategies, BarsOf
    <3>3. start' .. Len(candles') = {} /\ start' # 1
      BY <3>1 DEF SignalsInv, SignalsTypeOK
    <3> QED
      BY <3>2, <3>3 DEF SignalsInv, BufferIsHistory, ActedFollows
  <2>3. CASE UNCHANGED vars
    BY <2>3 DEF vars, SignalsInv, SignalsTypeOK, BufferIsHistory, ActedFollows, Acts, Strategies, BarsOf
  <2> QED
    BY <2>1, <2>2, <2>3 DEF Next
<1> QED
  BY <1>1, <1>2, PTL DEF Spec

\* With enough of them, the orchestrator acts on what the scan of its buffer
\* decides on the newest bar.
LEMMA ActsAsDecided ==
  ASSUME strategy \in StrategyNames, NEW bars \in Seq(BarRecords),
         bars # <<>>, Len(bars) >= MinBuffer, Len(bars) >= MinPeriods
  PROVE  Acts(bars) = Decision(strategy, bars, Len(bars))
<1>1. Len(bars) \in Nat \ {0} /\ MinBuffer \in Nat
  BY SignalsAssumption
<1>2. Len(bars) \in 1 .. Len(bars) /\ ~(Len(bars) < MinBuffer)
  BY <1>1
<1>3. SelectCurrentSignal(GenerateSignals(strategy, bars), Len(bars) - 1)
        = Decision(strategy, bars, Len(bars))
  BY <1>2, DecisionPicked
<1> QED
  BY <1>2, <1>3 DEF Acts

\* A process that was never restarted trades what a backtest of the same candles
\* trades: a newer candle neither takes a signal back nor adds one to an old bar.
THEOREM RuntimeFollowsBacktest == Spec => []RuntimeIsBacktest
<1>1. SignalsInv => RuntimeIsBacktest
  <2> SUFFICES ASSUME SignalsInv, start = 1, NEW k \in 1 .. Len(candles),
                      k >= Greater(MinPeriods, MinBuffer)
               PROVE  acted[k] = Backtested(k)
    BY DEF RuntimeIsBacktest
  <2> DEFINE prefix == SubSeq(candles, 1, k)
  <2>t. /\ strategy \in StrategyNames /\ candles \in Seq(BarRecords) /\ Len(candles) \in Nat
        /\ k \in Nat \ {0} /\ k <= Len(candles)
        /\ MinPeriods \in Nat /\ MinBuffer \in Nat
    BY SignalsAssumption, CandlesAreBars DEF SignalsInv, SignalsTypeOK
  <2>1. k >= MinPeriods /\ k >= MinBuffer
    BY <2>t DEF Greater
  <2>2. /\ prefix \in Seq(BarRecords) /\ Len(prefix) = k
        /\ \A j \in 1 .. k : prefix[j] = candles[j]
    BY <2>t
  <2>3. acted[k] = Acts(prefix)
    <3>1. buffer = candles /\ k - start + 1 = k /\ k \in start .. Len(candles)
      BY <2>t DEF SignalsInv, BufferIsHistory
    <3> QED
      BY <3>1 DEF SignalsInv, ActedFollows
  <2> HIDE DEF prefix
  <2>4. prefix # <<>> /\ k \in 1 .. Len(prefix) /\ Len(prefix) <= Len(candles)
    BY <2>2, <2>t
  <2>5. Acts(prefix) = Decision(strategy, prefix, k)
    BY <2>1, <2>2, <2>4, <2>t, ActsAsDecided
  <2>6. Decision(strategy, prefix, k) = Decision(strategy, candles, k)
    BY <2>2, <2>4, <2>t, DecisionPrefix
  <2>7. Len(candles) >= MinPeriods
    BY <2>1, <2>t
  <2>8. Backtested(k) = Decision(strategy, candles, k)
    BY <2>7, <2>t, DecisionPicked DEF Backtested
  <2> QED
    BY <2>3, <2>5, <2>6, <2>8
<1> QED
  BY <1>1, SignalsInvariant, PTL

(***************************************************************************)
(* After a restart: two scans, one of the whole history and one of the     *)
(* bars from start on.                                                     *)
(***************************************************************************)

\* Where the signals were quiet for a cooldown, the scan is not cooling down.
LEMMA QuietIsReady ==
  ASSUME NEW strat \in StrategyNames, NEW bars \in Seq(BarRecords), Len(bars) >= MinPeriods,
         NEW k \in 1 .. Len(bars), k - 1 >= FirstBar(strat), FirstBar(strat) \in Nat,
         Quiet(GenerateSignals(strat, bars), k - Cooldown, k - 2)
  PROVE  ~Mute(strat, Scan(strat, bars)[k - 1].last, k)
<1> DEFINE last == Scan(strat, bars)[k - 1].last
           sigs == GenerateSignals(strat, bars)
<1>1. Len(bars) \in Nat /\ k \in Nat \ {0} /\ k - 1 \in 0 .. Len(bars) /\ Cooldown \in Nat \ {0}
  BY SignalsAssumption
<1>2. Traced(strat, bars, k - 1)
  BY <1>1, ScanTraced
<1>3. \/ last = -Cooldown
      \/ \E q \in 1 .. k - 1 : Decision(strat, bars, q) # None /\ last = q - 1
  BY <1>2 DEF Traced
<1> HIDE DEF last
<1>4. CASE last = -Cooldown
  <2>1. ~(k - 1 < FirstBar(strat)) /\ ~(k - 1 - last < Cooldown)
    BY <1>1, <1>4
  <2> QED
    BY <2>1 DEF Mute, last
<1>5. CASE \E q \in 1 .. k - 1 : Decision(strat, bars, q) # None /\ last = q - 1
  <2>1. PICK q \in 1 .. k - 1 : Decision(strat, bars, q) # None /\ last = q - 1
    BY <1>5
  <2>2. q \in 1 .. Len(bars)
    BY <1>1, <2>1
  <2>3. PICK j \in DOMAIN sigs : sigs[j].bar = q - 1
    BY <2>1, <2>2, DecisionPicked
  <2>4. q - 1 \notin k - Cooldown .. k - 2
    BY <2>3 DEF Quiet
  <2>5. q - 1 < k - Cooldown
    BY <2>1, <2>4, <1>1
  <2>6. ~(k - 1 < FirstBar(strat)) /\ ~(k - 1 - last < Cooldown)
    BY <2>1, <2>5, <1>1
  <2> QED
    BY <2>6 DEF Mute, last
<1> QED
  BY <1>3, <1>4, <1>5

\* The regime is followed on every bar, signal or not.
LEMMA RegimeFollowed ==
  ASSUME NEW strat \in StrategyNames, NEW bars \in Seq(BarRecords), NEW k \in 1 .. Len(bars)
  PROVE  Scan(strat, bars)[k].regime = Hysteresis(Scan(strat, bars)[k - 1].regime, bars[k])
<1>1. k \in Nat \ {0} /\ bars[k] \in BarRecords
  OBVIOUS
<1>2. Scan(strat, bars)[k] = Step(strat, Scan(strat, bars)[k - 1], k - 1, bars[k])
  BY ScanIs
<1>3. Took(strat, Scan(strat, bars)[k - 1], k, bars[k], Scan(strat, bars)[k])
  BY <1>1, <1>2, StepTakes
<1> QED
  BY <1>3 DEF Took

\* From the bar that settles it on, as long as both scans read the bars alike, the
\* regime does not depend on what was before.
LEMMA RegimeSettles ==
  ASSUME NEW strat \in StrategyNames, NEW bars \in Seq(BarRecords), NEW own \in Seq(BarRecords),
         NEW d \in Nat, Len(own) + d = Len(bars),
         NEW j \in 1 .. Len(own), NEW i \in 1 .. Len(own),
         \A k \in j .. i : own[k] = bars[k + d], own[j].ready, own[j].adx # "middle"
  PROVE  \A k \in j .. i : Scan(strat, own)[k].regime = Scan(strat, bars)[k + d].regime
<1> DEFINE O == Scan(strat, own)
           S == Scan(strat, bars)
           T == {k \in j .. i : O[k].regime # S[k + d].regime}
<1>1. SUFFICES ASSUME T # {} PROVE FALSE
  OBVIOUS
<1>n. Len(bars) \in Nat /\ Len(own) \in Nat /\ j \in Nat \ {0} /\ i \in Nat /\ i <= Len(own)
  OBVIOUS
<1>2. T \in SUBSET Nat
  BY <1>n
<1>3. PICK k \in T : \A y \in T : k <= y
  BY <1>1, <1>2, LeastNat
<1>4. k \in j .. i /\ O[k].regime # S[k + d].regime
  BY <1>3
<1>5. k \in 1 .. Len(own) /\ k + d \in 1 .. Len(bars) /\ k + d - 1 = (k - 1) + d
  BY <1>4, <1>n
<1>6. /\ O[k].regime = Hysteresis(O[k - 1].regime, own[k])
      /\ S[k + d].regime = Hysteresis(S[(k - 1) + d].regime, own[k])
  <2>0. k \in j .. i
    BY <1>4
  <2> HIDE DEF O, S, T
  <2>1. own[k] = bars[k + d]
    BY <2>0
  <2> QED
    BY <1>5, <2>1, RegimeFollowed DEF O, S
<1> HIDE DEF O, S
<1>7. CASE k = j
  <2>1. own[j].adx \in {"low", "middle", "high"}
    <3>1. own[j] \in BarRecords
      OBVIOUS
    <3>2. \A b \in BarRecords : b.adx \in {"low", "middle", "high"}
      BY DEF BarRecords
    <3> QED
      BY <3>1, <3>2
  <2>2. own[j].adx = "low" \/ own[j].adx = "high"
    BY <2>1
  <2>3. \A r1, r2 : Hysteresis(r1, own[j]) = Hysteresis(r2, own[j])
    BY <2>2 DEF Hysteresis
  <2> QED
    BY <1>4, <1>6, <1>7, <2>3
<1>8. CASE k # j
  <2>1. k - 1 \in j .. i /\ ~(k <= k - 1)
    BY <1>4, <1>8, <1>n
  <2>2. k - 1 \notin T
    BY <1>3, <2>1
  <2>3. O[k - 1].regime = S[(k - 1) + d].regime
    BY <2>1, <2>2
  <2> QED
    BY <1>4, <1>6, <2>3
<1> QED
  BY <1>7, <1>8

\* A restarted process trades what the backtest trades on every bar that finds it
\* warm, that its indicators read as the backtest's do, with the regime settled
\* since, and both scans quiet for a cooldown.
THEOREM RestartFollowsBacktest == Spec => []RestartResyncs
<1>1. SignalsInv => RestartResyncs
  <2> DEFINE full == GenerateSignals(strategy, candles)
             said == GenerateSignals(strategy, buffer)
  <2> SUFFICES ASSUME SignalsInv, NEW k \in start .. Len(candles), start > 1, Warm(k), Alike(k), Settled(k),
                      Quiet(full, k - Cooldown, k - 2),
                      Quiet(said, k - start - Cooldown + 1, k - start - 1)
               PROVE  acted[k] = Backtested(k)
    BY DEF RestartResyncs
  <2> DEFINE d == start - 1
             i == k - d
             own == SubSeq(buffer, 1, i)
  <2>t. /\ strategy \in StrategyNames /\ candles \in Seq(BarRecords) /\ Len(candles) \in Nat
        /\ start \in Nat \ {0} /\ k \in Nat \ {0} /\ start <= k /\ k <= Len(candles)
        /\ MinPeriods \in Nat \ {0} /\ MinBuffer \in Nat /\ Cooldown \in Nat \ {0}
        /\ k \in 1 .. Len(candles)
    BY SignalsAssumption, CandlesAreBars DEF SignalsInv, SignalsTypeOK
  <2>d. d \in Nat /\ i \in Nat \ {0} /\ i + d = k /\ i = k - start + 1
    BY <2>t
  <2>f. FirstBar(strategy) \in Nat
    BY SignalsAssumption, <2>t DEF FirstBar
  <2>w. k - start >= FirstBar(strategy) /\ k - start + 1 >= MinPeriods /\ k - start + 1 >= MinBuffer
    BY <2>f, <2>t DEF Warm, Greater
  <2>1. buffer \in Seq(BarRecords) /\ Len(buffer) + d = Len(candles)
    BY <2>t DEF SignalsInv, SignalsTypeOK
  <2>4. Len(buffer) \in Nat /\ i <= Len(buffer) /\ i \in 1 .. Len(buffer)
    BY <2>1, <2>d, <2>t
  <2>2. /\ own \in Seq(BarRecords) /\ Len(own) = i
        /\ \A j \in 1 .. i : own[j] = buffer[j]
    <3> HIDE DEF d, i
    <3> QED
      BY <2>1, <2>4, <2>d
  <2>3. acted[k] = Acts(own)
    BY <2>d DEF SignalsInv, ActedFollows
  <2> HIDE DEF own, d, i
  <2>5. i >= MinPeriods /\ i >= MinBuffer /\ Len(buffer) >= MinPeriods /\ Len(candles) >= MinPeriods
    BY <2>w, <2>d, <2>t, <2>4
  <2>6. acted[k] = Decision(strategy, buffer, i)
    <3>1. own # <<>> /\ i \in 1 .. Len(own)
      BY <2>2, <2>d
    <3>2. Acts(own) = Decision(strategy, own, i)
      BY <3>1, <2>2, <2>5, <2>t, ActsAsDecided
    <3>3. \A j \in 1 .. Len(own) : own[j] = buffer[j]
      BY <2>2
    <3>4. Decision(strategy, own, i) = Decision(strategy, buffer, i)
      BY <3>1, <3>3, <2>1, <2>2, <2>4, <2>t, DecisionPrefix
    <3> QED
      BY <2>3, <3>2, <3>4
  <2>7. Backtested(k) = Decision(strategy, candles, k)
    BY <2>5, <2>t, DecisionPicked DEF Backtested
  <2>8. ~Mute(strategy, Scan(strategy, candles)[k - 1].last, k)
    <3>1. k - 1 >= FirstBar(strategy)
      BY <2>w, <2>f, <2>t
    <3> QED
      BY <3>1, <2>5, <2>f, <2>t, QuietIsReady
  <2>9. ~Mute(strategy, Scan(strategy, buffer)[i - 1].last, i)
    <3>1. i - 1 >= FirstBar(strategy)
      BY <2>w, <2>f, <2>d, <2>t
    <3>2. i - Cooldown = k - start - Cooldown + 1 /\ i - 2 = k - start - 1
      BY <2>d, <2>t
    <3>3. Quiet(GenerateSignals(strategy, buffer), i - Cooldown, i - 2)
      BY <3>2
    <3> QED
      BY <3>1, <3>3, <2>1, <2>4, <2>5, <2>f, <2>t, QuietIsReady
  <2>10. buffer[i] = candles[k] /\ candles[k] \in BarRecords
    <3>1. buffer[i] = candles[k]
      BY <2>d DEF Alike
    <3>2. candles[k] \in BarRecords
      BY <2>t, ElementOfSeq
    <3> QED
      BY <3>1, <3>2
  <2>11. Outcome(strategy, candles[k], Scan(strategy, buffer)[i].regime)
           = Outcome(strategy, candles[k], Scan(strategy, candles)[k].regime)
    <3>1. CASE strategy = "regime_adaptive"
      <4>1. PICK j \in start .. k :
              /\ candles[j].ready /\ candles[j].adx # "middle"
              /\ \A x \in j .. k : Alike(x)
        BY <3>1 DEF Settled
      <4>2. j \in Int /\ start <= j /\ j <= k
        BY <4>1, <2>t
      <4>3. PICK p \in Nat : p = j - d
        BY <4>2, <2>t DEF d
      <4>4. p \in 1 .. Len(buffer) /\ p + d = j /\ i \in p .. i
        BY <4>2, <4>3, <2>4, <2>d, <2>t DEF d
      <4>5. \A q \in p .. i : buffer[q] = candles[q + d]
        <5> SUFFICES ASSUME NEW q \in p .. i PROVE buffer[q] = candles[q + d]
          OBVIOUS
        <5>1. q + d \in j .. k /\ (q + d) - start + 1 = q
          BY <4>2, <4>4, <2>d, <2>t DEF d
        <5> QED
          BY <5>1, <4>1 DEF Alike
      <4>6. buffer[p].ready /\ buffer[p].adx # "middle"
        <5>1. buffer[p] = candles[j]
          BY <4>4, <4>5, <4>2, <2>d
        <5> QED
          BY <4>1, <5>1
      <4>8. \A q \in p .. i :
              Scan(strategy, buffer)[q].regime = Scan(strategy, candles)[q + d].regime
        <5>1. /\ strategy \in StrategyNames /\ candles \in Seq(BarRecords)
              /\ buffer \in Seq(BarRecords) /\ d \in Nat /\ Len(buffer) + d = Len(candles)
              /\ \A q \in p .. i : buffer[q] = candles[q + d]
              /\ p \in 1 .. Len(buffer) /\ i \in 1 .. Len(buffer)
              /\ buffer[p].ready /\ buffer[p].adx # "middle"
          BY <4>4, <4>5, <4>6, <2>1, <2>4, <2>d, <2>t
        <5> QED
          BY <5>1, RegimeSettles
      <4>7. Scan(strategy, buffer)[i].regime = Scan(strategy, candles)[k].regime
        BY <4>4, <4>8, <2>d
      <4> QED
        BY <4>7
    <3>2. CASE strategy # "regime_adaptive"
      BY <3>2, <2>10, <2>t, RegimeIsForOne
    <3> QED
      BY <3>1, <3>2
  <2> QED
    BY <2>6, <2>7, <2>8, <2>9, <2>10, <2>11 DEF Decision
<1> QED
  BY <1>1, SignalsInvariant, PTL

(***************************************************************************)
(* The stop and the target of an entry.                                    *)
(***************************************************************************)

\* A BUY is bracketed by its stop and its target, but for the band that was passed.
Bracketed(strat, sig, b) ==
  /\ sig.stop < sig.price
  /\ \/ sig.target > sig.price
     \/ strat = "bollinger_mean_reversion" /\ sig.price >= b.mid

\* A distance of the ATR on both sides of the price brackets it.
LEMMA AtrBrackets ==
  ASSUME NEW i, NEW b \in BarRecords, NEW atr \in Int, atr > 0
  PROVE  /\ AtrBuy(i, b, atr).stop < AtrBuy(i, b, atr).price
         /\ AtrBuy(i, b, atr).target > AtrBuy(i, b, atr).price
<1>1. b.price \in Int
  BY DEF BarRecords
<1>2. PICK x \in Int : x = StopMult * atr /\ x > 0
  <2>1. StopMult \in Int /\ StopMult > 0
    BY SignalsAssumption
  <2>2. StopMult * atr \in Int /\ StopMult * atr > 0
    BY <2>1
  <2> QED
    BY <2>2
<1>3. PICK y \in Int : y = TargetMult * atr /\ y > 0
  <2>1. TargetMult \in Int /\ TargetMult > 0
    BY SignalsAssumption
  <2>2. TargetMult * atr \in Int /\ TargetMult * atr > 0
    BY <2>1
  <2> QED
    BY <2>2
<1>4. AtrBuy(i, b, atr) = [type |-> "BUY", bar |-> i, price |-> b.price,
                           stop |-> b.price - x, target |-> b.price + y]
  BY <1>2, <1>3 DEF AtrBuy, Signal
<1> HIDE DEF AtrBuy
<1> QED
  BY <1>1, <1>2, <1>3, <1>4

\* Three strategies look at the ATR themselves.
OwnGuard == {"momentum_continuation", "pullback_uptrend", "volatility_breakout"}

\* For the others a bar that passes the filters has moved: its ATR is not zero, and
\* a share of its price is not nothing.
BarsMove ==
  \A strat \in Strategies \ OwnGuard : \A b \in BarsOf(strat) :
    b.ready /\ b.pass => b.atr > 0 /\ b.price >= 20

\* A SELL is not a BUY.
LEMMA SellIsNoBuy ==
  \A i, b, stop, target, atr : /\ Signal("SELL", i, b, stop, target).type # "BUY"
                              /\ AtrSell(i, b, atr).type # "BUY"
  BY DEF Signal, AtrSell

\* An entry at the middle band's distance, or past it.
LEMMA BandBrackets ==
  ASSUME NEW i, NEW b \in BarRecords, b.atr > 0,
         NEW sig, sig = Signal("BUY", i, b, b.price - StopMult * b.atr,
                               Lesser(b.mid, b.price + TargetMult * b.atr))
  PROVE  Bracketed("bollinger_mean_reversion", sig, b)
<1>1. b.price \in Int /\ b.mid \in Int /\ b.atr \in Int
  BY DEF BarRecords
<1>2. AtrBuy(i, b, b.atr).stop < b.price /\ AtrBuy(i, b, b.atr).target > b.price
  <2>1. AtrBuy(i, b, b.atr).price = b.price
    BY DEF AtrBuy, Signal
  <2> QED
    BY <1>1, <2>1, AtrBrackets
<1>3. b.price - StopMult * b.atr < b.price /\ b.price + TargetMult * b.atr > b.price
  BY <1>2 DEF AtrBuy, Signal
<1>4. PICK x \in Int : x = b.price + TargetMult * b.atr
  <2>1. TargetMult * b.atr \in Int
    BY <1>1, SignalsAssumption
  <2> QED
    BY <1>1, <2>1
<1>5. /\ sig.price = b.price /\ sig.stop = b.price - StopMult * b.atr
      /\ sig.target = Lesser(b.mid, x)
  BY <1>4 DEF Signal
<1>6. Lesser(b.mid, x) > b.price \/ b.price >= b.mid
  BY <1>1, <1>3, <1>4 DEF Lesser
<1> QED
  BY <1>3, <1>5, <1>6 DEF Bracketed

\* Whatever strategy it is of, a BUY is bracketed.
LEMMA BuyIsBracketed ==
  ASSUME BarsMove, NEW strat \in Strategies, NEW b \in BarsOf(strat), NEW i \in Int, NEW regime,
         NEW sig, Decide(strat, i, b, regime) = <<sig>>, sig.type = "BUY"
  PROVE  Bracketed(strat, sig, b)
<1>1. strat \in StrategyNames /\ b \in BarRecords
  BY ReadingsAreBars
<1>2. b.atr \in Int /\ b.price \in Int /\ b.mid \in Int
  BY <1>1 DEF BarRecords
<1>b. /\ b.ready \in BOOLEAN /\ b.pass \in BOOLEAN /\ b.up \in BOOLEAN /\ b.down \in BOOLEAN
      /\ b.against \in BOOLEAN /\ b.turnUp \in BOOLEAN /\ b.turnDown \in BOOLEAN
  BY <1>1 DEF BarRecords
<1>3. ASSUME NEW atr \in Int, atr > 0, sig = AtrBuy(i, b, atr)
      PROVE  Bracketed(strat, sig, b)
  BY <1>1, <1>3, AtrBrackets DEF Bracketed
<1>4. strat \notin OwnGuard /\ b.ready /\ b.pass => b.atr > 0 /\ b.price >= 20
  BY DEF BarsMove
<1>5. CASE strat \in {"ema_atr", "breakout", "regime_adaptive"}
  <2>1. strat \notin OwnGuard
    BY <1>5 DEF OwnGuard
  <2>2. b.ready /\ b.pass /\ sig = AtrBuy(i, b, b.atr)
    <3>1. \/ Decide(strat, i, b, regime) = <<>>
          \/ b.ready /\ b.pass /\ Decide(strat, i, b, regime) = <<AtrBuy(i, b, b.atr)>>
          \/ b.ready /\ b.pass /\ Decide(strat, i, b, regime) = <<AtrSell(i, b, b.atr)>>
      <4>1. CASE strat = "ema_atr"
        <5>1. Decide(strat, i, b, regime) = EmaAtr(i, b, regime)
          BY <4>1 DEF Decide
        <5> QED
          BY <5>1, <1>b DEF EmaAtr, FirstOf
      <4>2. CASE strat = "breakout"
        <5>1. Decide(strat, i, b, regime) = Breakout(i, b, regime)
          BY <4>2 DEF Decide
        <5> QED
          BY <5>1, <1>b DEF Breakout, FirstOf
      <4>3. CASE strat = "regime_adaptive"
        <5>1. Decide(strat, i, b, regime) = RegimeAdaptive(i, b, regime)
          BY <4>3 DEF Decide
        <5> QED
          BY <5>1, <1>b DEF RegimeAdaptive, FirstOf
      <4> QED
        BY <1>5, <4>1, <4>2, <4>3
    <3> HIDE DEF Decide
    <3> QED
      BY <3>1, SellIsNoBuy
  <2> QED
    BY <1>2, <1>3, <1>4, <2>1, <2>2
<1>6. CASE strat = "rsi_mean_reversion"
  <2>1. strat \notin OwnGuard
    BY <1>6 DEF OwnGuard
  <2>2. b.ready /\ b.pass /\ sig = AtrBuy(i, b, b.price \div 20)
    <3>1. \/ Decide(strat, i, b, regime) = <<>>
          \/ b.ready /\ b.pass /\ Decide(strat, i, b, regime) = <<AtrBuy(i, b, b.price \div 20)>>
          \/ b.ready /\ b.pass /\ Decide(strat, i, b, regime) = <<AtrSell(i, b, b.price \div 20)>>
      <4>1. Decide(strat, i, b, regime) = RsiMeanReversion(i, b, regime)
        BY <1>6 DEF Decide
      <4> QED
        BY <4>1, <1>b DEF RsiMeanReversion, FirstOf
    <3> HIDE DEF Decide
    <3> QED
      BY <3>1, SellIsNoBuy
  <2>3. b.price \div 20 \in Int /\ b.price \div 20 > 0
    BY <1>2, <1>4, <2>1, <2>2
  <2> QED
    BY <1>3, <2>2, <2>3
<1>7. CASE strat = "bollinger_mean_reversion"
  <2>1. strat \notin OwnGuard
    BY <1>7 DEF OwnGuard
  <2>2. /\ b.ready /\ b.pass
        /\ sig = Signal("BUY", i, b, b.price - StopMult * b.atr,
                        Lesser(b.mid, b.price + TargetMult * b.atr))
    <3>1. \/ Decide(strat, i, b, regime) = <<>>
          \/ b.ready /\ b.pass
             /\ Decide(strat, i, b, regime) =
                <<Signal("BUY", i, b, b.price - StopMult * b.atr,
                                  Lesser(b.mid, b.price + TargetMult * b.atr))>>
          \/ b.ready /\ b.pass
             /\ Decide(strat, i, b, regime) =
                <<Signal("SELL", i, b, b.price + StopMult * b.atr,
                                  Greater(b.mid, b.price - TargetMult * b.atr))>>
      <4>1. Decide(strat, i, b, regime) = Bollinger(i, b, regime)
        BY <1>7 DEF Decide
      <4> QED
        BY <4>1, <1>b DEF Bollinger, FirstOf
    <3> HIDE DEF Decide
    <3> QED
      BY <3>1, SellIsNoBuy
  <2> QED
    BY <1>1, <1>4, <1>7, <2>1, <2>2, BandBrackets
<1>8. CASE strat = "momentum_continuation"
  <2>1. b.atr > 0 /\ sig = AtrBuy(i, b, b.atr)
    BY <1>8, <1>b, SellIsNoBuy DEF Decide, Momentum, FirstOf
  <2> QED
    BY <1>2, <1>3, <2>1
<1>9. CASE strat \in {"pullback_uptrend", "volatility_breakout"}
  <2>1. sig = AtrBuy(i, b, AtrOr1(b))
    BY <1>9, <1>b, SellIsNoBuy DEF Decide, Pullback, VolatilityBreakout, FirstOf
  <2>2. AtrOr1(b) \in Int /\ AtrOr1(b) > 0
    BY <1>2 DEF AtrOr1
  <2> QED
    BY <1>3, <2>1, <2>2
<1> QED
  BY <1>1, <1>5, <1>6, <1>7, <1>8, <1>9 DEF StrategyNames

\* Every BUY of a history has its stop below its price and its target above, but
\* for a price back inside its bands that is past the middle one already.
THEOREM EntriesAreBracketed ==
  ASSUME BarsMove
  PROVE  Spec => []EntriesBracketed
<1>1. SignalsInv => EntriesBracketed
  <2> DEFINE sigs == GenerateSignals(strategy, candles)
  <2> SUFFICES ASSUME SignalsInv, NEW j \in DOMAIN sigs, sigs[j].type = "BUY"
               PROVE  /\ sigs[j].stop < sigs[j].price
                      /\ \/ sigs[j].target > sigs[j].price
                         \/ /\ strategy = "bollinger_mean_reversion"
                            /\ sigs[j].price >= candles[sigs[j].bar + 1].mid
    BY DEF EntriesBracketed
  <2>t. /\ strategy \in Strategies /\ strategy \in StrategyNames
        /\ candles \in Seq(BarsOf(strategy)) /\ candles \in Seq(BarRecords)
        /\ Len(candles) \in Nat
    BY CandlesAreBars DEF SignalsInv, SignalsTypeOK
  <2>1. sigs # <<>>
    OBVIOUS
  <2>2. sigs = Scan(strategy, candles)[Len(candles)].signals
    BY <2>1 DEF GenerateSignals
  <2>3. Len(candles) \in 0 .. Len(candles)
    BY <2>t
  <2>4. Traced(strategy, candles, Len(candles))
    BY <2>3, <2>t, ScanTraced
  <2>5. sigs \in Seq(Voiced(strategy, candles))
    BY <2>2, <2>4 DEF Traced
  <2> HIDE DEF sigs
  <2>6. sigs[j] \in Voiced(strategy, candles)
    BY <2>5
  <2>7. PICK k \in 1 .. Len(candles) :
          LET said == Decide(strategy, k - 1, candles[k], Scan(strategy, candles)[k].regime)
          IN said # <<>> /\ sigs[j] = said[1]
    BY <2>6 DEF Voiced
  <2> DEFINE regime == Scan(strategy, candles)[k].regime
  <2>8. /\ candles[k] \in BarsOf(strategy) /\ candles[k] \in BarRecords
        /\ k - 1 \in Int /\ (k - 1) + 1 = k
    BY <2>t
  <2>9. Says(Decide(strategy, k - 1, candles[k], regime), k - 1,
             Outcome(strategy, candles[k], regime))
    BY <2>8, <2>t, DecideSays
  <2>10. PICK sig : Decide(strategy, k - 1, candles[k], regime) = <<sig>> /\ sig.bar = k - 1
    BY <2>7, <2>9 DEF Says
  <2>11. sigs[j] = sig
    BY <2>7, <2>10
  <2>12. Bracketed(strategy, sig, candles[k])
    BY <2>8, <2>10, <2>11, <2>t, BuyIsBracketed
  <2> QED
    BY <2>8, <2>10, <2>11, <2>12 DEF Bracketed
<1> QED
  BY <1>1, SignalsInvariant, PTL
=============================================================================
