--------------------------- MODULE TradingProofs ---------------------------
(***************************************************************************)
(* Theorems about paper trading, for every value of its constants: the     *)
(* orchestrator with any signals, the grid strategy trading through it,    *)
(* and the rows it leaves in the database.  What the orchestrator keeps by *)
(* itself is proved first, from its own assumptions and signal by signal,  *)
(* so that it also holds of the signals of the grid.                       *)
(***************************************************************************)
EXTENDS PersistedTrading, FiniteSetTheorems, TLAPS

(***************************************************************************)
(* Money stays a natural number.                                           *)
(***************************************************************************)

\* Natural numbers are closed under product.
LEMMA ProductNat ==
  ASSUME NEW a \in Nat, NEW b \in Nat
  PROVE  a * b \in Nat
  BY SMT

\* A quotient of naturals is natural, whatever the positive divisor.
LEMMA QuotientNat ==
  ASSUME NEW a \in Nat, NEW b \in Nat, b > 0
  PROVE  a \div b \in Nat
  BY SMT

\* A share of at most 100% is at most the whole.
LEMMA PercentBound ==
  ASSUME NEW a \in Nat, NEW p \in 0 .. 100
  PROVE  /\ (a * p) \div 100 \in Nat
         /\ (a * p) \div 100 <= a
<1>1. a * p \in Nat
  BY ProductNat
<1>2. a * p <= a * 100
  BY SMT
<1> QED
  BY <1>1, <1>2, SMT

\* A broker's fill price is a natural number, whatever the slippage.
LEMMA FillPriceNat ==
  ASSUME NEW side, NEW price \in Nat
  PROVE  FillPrice(side, price) \in Nat
<1>1. 100 + SlippagePct \in Nat /\ 100 - SlippagePct \in Nat
  BY BrokerAssumption
<1>2. price * (100 + SlippagePct) \in Nat /\ price * (100 - SlippagePct) \in Nat
  BY <1>1, ProductNat
<1> QED
  BY <1>2, QuotientNat DEF FillPrice

\* A fee is at most the amount it is charged on.
LEMMA FeeBound ==
  ASSUME NEW a \in Nat
  PROVE  FeeOf(a) \in Nat /\ FeeOf(a) <= a
  BY PercentBound, BrokerAssumption DEF FeeOf

\* What a BUY costs.
LEMMA BuyNat ==
  ASSUME NEW qty \in Nat, NEW price \in Nat
  PROVE  /\ BuyCost(qty, price) \in Nat
         /\ FeeOf(BuyCost(qty, price)) \in Nat
         /\ BuyTotal(qty, price) \in Nat
         /\ BuyTotal(qty, price) = BuyCost(qty, price) + FeeOf(BuyCost(qty, price))
<1>1. BuyCost(qty, price) \in Nat
  BY FillPriceNat, ProductNat DEF BuyCost
<1>2. FeeOf(BuyCost(qty, price)) \in Nat
  BY <1>1, FeeBound
<1> QED
  BY <1>1, <1>2 DEF BuyTotal

\* A SELL never takes money.
LEMMA SellNat ==
  ASSUME NEW qty \in Nat, NEW price \in Nat
  PROVE  SellNet(qty, price) \in Nat
<1>1. SellGain(qty, price) \in Nat
  BY FillPriceNat, ProductNat DEF SellGain
<1> QED
  BY <1>1, FeeBound DEF SellNet

(***************************************************************************)
(* The inductive invariant: types, equal books and an exact counter.  The  *)
(* types alone are not inductive: that a sale leaves a natural balance of  *)
(* the asset, and nothing of the position, needs the books to agree.       *)
(***************************************************************************)

IInv == TypeOK /\ BooksAgree /\ CounterAgrees

\* The part of it a trade can disturb.
TradeInv ==
  /\ BrokerTypeOK
  /\ RiskTypeOK
  /\ open \subseteq Symbols
  /\ pos \in [Symbols -> Positions]
  /\ BooksAgree
  /\ CounterAgrees

\* The part of TypeOK it cannot.
FeedTypeOK ==
  /\ running \in BOOLEAN
  /\ processed \subseteq Symbols \X Times
  /\ buffered \in [Symbols -> 0 .. MinBuffer]
  /\ lastClose \in [Symbols -> Nat]
  /\ current \in Candles \cup {NoCandle}
  /\ exited \in BOOLEAN
  /\ result \in Results

\* The two parts make up the invariant.
LEMMA IInvParts == IInv <=> TradeInv /\ FeedTypeOK
  BY Zenon DEF IInv, TradeInv, FeedTypeOK, TypeOK

\* So do they after a step.
LEMMA IInvPartsNext == IInv' <=> TradeInv' /\ FeedTypeOK'
  BY IInvParts, PTL

\* A step that trades nothing keeps the books.
LEMMA NoTrade ==
  ASSUME TradeInv, UNCHANGED <<brokerVars, riskVars, bookVars>>
  PROVE  TradeInv'
<1>1. UNCHANGED <<quote, base, held, bpos, orders, openPositions, dailyPnl, consecutiveLosses,
                  lastTradeTime, errorCount, killSwitch, open, pos>>
  BY DEF brokerVars, riskVars, bookVars
<1> QED
  BY <1>1 DEF TradeInv, BrokerTypeOK, RiskTypeOK, BooksAgree, CounterAgrees

\* Nor does one that only counts an error, or loses cash to one.
LEMMA ErrorOnly ==
  ASSUME TradeInv, RecordError, quote' \in Nat,
         UNCHANGED <<base, held, bpos, orders, openPositions, dailyPnl, consecutiveLosses,
                     lastTradeTime, killSwitch, bookVars>>
  PROVE  TradeInv'
<1>1. UNCHANGED <<base, held, bpos, orders, openPositions, dailyPnl, consecutiveLosses,
                  lastTradeTime, killSwitch, open, pos>>
  BY DEF bookVars
<1>2. errorCount' \in Nat
  BY DEF RecordError, TradeInv, RiskTypeOK
<1> QED
  BY <1>1, <1>2 DEF TradeInv, BrokerTypeOK, RiskTypeOK, BooksAgree, CounterAgrees

\* A full exit keeps the books: the position leaves all three of them, and the
\* counter, in the same step.
LEMMA ExitKeepsBooks ==
  ASSUME TradeInv, NEW s \in open, NEW price \in Nat, NEW now \in Times,
         ClosePosition(s, price, now)
  PROVE  TradeInv'
<1> DEFINE qty == pos[s].qty
<1>0. s \in Symbols
  BY DEF TradeInv
<1>1. /\ qty \in Nat /\ qty = bpos[s].qty /\ qty = base[s]
      /\ pos[s].cost \in Nat /\ pos[s].fee \in Nat
  BY <1>0 DEF TradeInv, Positions, BooksAgree
<1>2. SellFills(s, qty, price)
  BY DEF ClosePosition
<1>3. /\ base' = [base EXCEPT ![s] = 0]
      /\ held' = held \ {s}
      /\ bpos' = [bpos EXCEPT ![s] = NoHolding]
      /\ quote' = quote + SellNet(qty, price)
      /\ orders' = orders + 1
  <2>1. bpos[s].qty - qty <= 0 /\ base[s] - qty = 0
    BY <1>1
  <2>2. base' = [base EXCEPT ![s] = base[s] - qty]
    BY <1>2 DEF SellFills
  <2> QED
    BY <1>2, <2>1, <2>2 DEF SellFills
<1>4. SellNet(qty, price) \in Nat
  BY <1>1, SellNat
<1>5. BrokerTypeOK'
  BY <1>3, <1>4, <1>0 DEF TradeInv, BrokerTypeOK, NoHolding
<1>6. /\ open' = open \ {s}
      /\ pos' = [pos EXCEPT ![s] = NoPosition]
  BY DEF ClosePosition, ForgetPosition
<1>7. open' \subseteq Symbols /\ pos' \in [Symbols -> Positions]
  <2>1. NoPosition \in Positions
    BY DEF NoPosition, Positions
  <2> QED
    BY <1>6, <2>1 DEF TradeInv
<1>8. BooksAgree'
  BY <1>0, <1>3, <1>6 DEF TradeInv, BooksAgree, BrokerTypeOK, NoHolding, NoPosition
<1>9. PnlOf(s, qty, price) \in Int
  BY <1>1, <1>4 DEF PnlOf
<1>10. RecordTradeResult(PnlOf(s, qty, price), s, now) /\ PositionClosed
       /\ UNCHANGED <<errorCount, killSwitch>>
  BY DEF ClosePosition
<1>11. Cardinality(open') = openPositions - 1 /\ openPositions - 1 \in Nat
  <2>1. IsFiniteSet(open)
    BY MarketAssumption, FS_Subset DEF TradeInv
  <2>2. Cardinality(open \ {s}) = Cardinality(open) - 1
    BY <2>1, FS_RemoveElement
  <2>3. Cardinality(open \ {s}) \in Nat
    BY <2>1, FS_RemoveElement, FS_CardinalityType
  <2> QED
    BY <1>6, <2>2, <2>3 DEF TradeInv, CounterAgrees
<1>12. openPositions' = openPositions - 1
  BY <1>10, <1>11 DEF PositionClosed, TradeInv, RiskTypeOK
<1>13. RiskTypeOK'
  BY <1>9, <1>10, <1>11, <1>12, <1>0 DEF RecordTradeResult, TradeInv, RiskTypeOK
<1>14. CounterAgrees'
  BY <1>11, <1>12 DEF CounterAgrees
<1> QED
  BY <1>5, <1>7, <1>8, <1>13, <1>14 DEF TradeInv

\* Stops anchored to an average entry are natural numbers.
LEMMA RefreshedPosition ==
  ASSUME NEW p \in Positions
  PROVE  /\ Refreshed(p) \in Positions
         /\ Refreshed(p).qty = p.qty
         /\ Refreshed(p).cost = p.cost
         /\ Refreshed(p).fee = p.fee
<1>1. CASE p.gridId = NoGrid \/ p.qty = 0
  BY <1>1 DEF Refreshed
<1>2. CASE ~(p.gridId = NoGrid \/ p.qty = 0)
  <2>1. p.cost \in Nat /\ p.qty \in Nat /\ p.qty > 0
    BY <1>2 DEF Positions
  <2>2. 100 * p.qty \in Nat /\ 100 * p.qty > 0
    BY <2>1
  <2>3. GridStop(p.cost, p.qty) \in Nat
    <3>1. 100 - GridStopPct \in Nat
      BY OrchestratorAssumption
    <3> QED
      BY <2>1, <2>2, <3>1, ProductNat, QuotientNat DEF GridStop
  <2>4. GridTarget(p.cost, p.qty) \in Nat
    <3>1. 100 + GridTargetPct \in Nat
      BY OrchestratorAssumption
    <3>2. p.cost * (100 + GridTargetPct) \in Nat
      BY <2>1, <3>1, ProductNat
    <3>3. p.cost * (100 + GridTargetPct) + 100 * p.qty - 1 \in Nat
      BY <2>2, <3>2
    <3> QED
      BY <2>2, <3>3, QuotientNat DEF GridTarget
  <2>5. Refreshed(p) = [p EXCEPT !.stopLoss = GridStop(p.cost, p.qty),
                                 !.takeProfit = GridTarget(p.cost, p.qty)]
    BY <1>2 DEF Refreshed
  <2> QED
    BY <2>3, <2>4, <2>5 DEF Positions
<1> QED
  BY <1>1, <1>2

\* What the rest of the proof uses of a signal.
LEMMA SignalFields ==
  ASSUME NEW sig \in StrategySignals
  PROVE  /\ sig.price \in Nat /\ sig.stopLoss \in Nat /\ sig.takeProfit \in Nat
         /\ sig.gridId \in GridIds \cup {NoGrid} /\ sig.level \in GridLevels
  BY DEF StrategySignals

\* The configured signals are strategy signals.
LEMMA SignalsTyped == Signals \subseteq StrategySignals
  BY OrchestratorAssumption

\* A first fill keeps the books: the position enters all of them, and the
\* counter, in the same step.
LEMMA OpenKeepsBooks ==
  ASSUME TradeInv, FeedTypeOK, NEW sig \in StrategySignals, NEW qty \in 0 .. MaxLots,
         OpenPosition(sig, qty)
  PROVE  TradeInv'
<1> DEFINE s == current.symbol
           cost == BuyCost(qty, sig.price)
<1>0. s \in Symbols /\ qty \in Nat /\ s \notin open
  <2>1. current \in Candles
    BY DEF OpenPosition, BuyApproved, PastLifecycle, AtStrategy, Idle, FeedTypeOK
  <2> QED
    BY <2>1, OrchestratorAssumption DEF Candles, OpenPosition
<1>1. /\ cost \in Nat /\ FeeOf(cost) \in Nat
      /\ BuyTotal(qty, sig.price) \in Nat
  BY <1>0, SignalFields, BuyNat
<1>2. BuyFills(s, qty, sig.price)
  BY DEF OpenPosition
<1>3. /\ quote' = quote - BuyTotal(qty, sig.price)
      /\ BuyTotal(qty, sig.price) <= quote
      /\ s \in QuotedSymbols
      /\ base' = [base EXCEPT ![s] = base[s] + qty]
      /\ held' = held \cup {s}
      /\ orders' = orders + 1
  BY <1>2 DEF BuyFills
<1>4. bpos' = [bpos EXCEPT ![s] = [ qty  |-> bpos[s].qty + qty, cost |-> bpos[s].cost + cost,
                                    fee  |-> bpos[s].fee + FeeOf(cost) ]]
  BY <1>2 DEF BuyFills
<1>5. bpos[s] \in [qty : Nat, cost : Nat, fee : Nat]
  BY <1>0 DEF TradeInv, BrokerTypeOK
<1>6. BrokerTypeOK'
  BY <1>0, <1>1, <1>3, <1>4, <1>5 DEF TradeInv, BrokerTypeOK
<1>7. /\ open' = open \cup {s}
      /\ pos' = [pos EXCEPT ![s] = OpenedPosition(sig, qty)]
      /\ openPositions' = openPositions + 1
      /\ UNCHANGED <<dailyPnl, consecutiveLosses, lastTradeTime, errorCount, killSwitch>>
  BY DEF OpenPosition
<1>8. /\ OpenedPosition(sig, qty) \in Positions
      /\ OpenedPosition(sig, qty).qty = qty
      /\ OpenedPosition(sig, qty).cost = cost
      /\ OpenedPosition(sig, qty).fee = FeeOf(cost)
  <2> DEFINE p == [ qty |-> qty, cost |-> cost, fee |-> FeeOf(cost),
                    stopLoss |-> sig.stopLoss, takeProfit |-> sig.takeProfit,
                    gridId |-> sig.gridId,
                    levels |-> IF sig.gridId = NoGrid THEN {} ELSE {sig.level} ]
  <2>1. p \in Positions
    BY <1>0, <1>1, SignalFields DEF Positions
  <2>2. OpenedPosition(sig, qty) = Refreshed(p)
    BY DEF OpenedPosition
  <2> HIDE DEF p
  <2>3. p.qty = qty /\ p.cost = cost /\ p.fee = FeeOf(cost)
    BY DEF p
  <2> QED
    BY <2>1, <2>2, <2>3, RefreshedPosition
<1>9. BooksAgree'
  <2>1. bpos[s] = NoHolding
    BY <1>0 DEF TradeInv, BooksAgree
  <2>2. bpos' = [bpos EXCEPT ![s] = [qty |-> qty, cost |-> cost, fee |-> FeeOf(cost)]]
    <3>1. bpos[s].qty + qty = qty /\ bpos[s].cost + cost = cost /\ bpos[s].fee + FeeOf(cost) = FeeOf(cost)
      <4>1. bpos[s].qty = 0 /\ bpos[s].cost = 0 /\ bpos[s].fee = 0
        BY <2>1 DEF NoHolding
      <4> QED
        BY <1>0, <1>1, <4>1
    <3> QED
      BY <1>4, <3>1
  <2>3. base[s] = 0 /\ base'[s] = qty
    BY <1>0, <1>3, <2>1 DEF TradeInv, BooksAgree, NoHolding, BrokerTypeOK
  <2>4. /\ pos'[s].qty = qty /\ pos'[s].cost = cost /\ pos'[s].fee = FeeOf(cost)
        /\ bpos'[s].qty = qty /\ bpos'[s].cost = cost /\ bpos'[s].fee = FeeOf(cost)
    BY <1>0, <1>7, <1>8, <2>2 DEF TradeInv, BrokerTypeOK
  <2>5. \A q \in Symbols \ {s} :
          base'[q] = base[q] /\ pos'[q] = pos[q] /\ bpos'[q] = bpos[q]
    BY <1>3, <1>7, <2>2 DEF TradeInv, BrokerTypeOK
  <2>6. open' = held' /\ open' \subseteq QuotedSymbols
    BY <1>3, <1>7 DEF TradeInv, BooksAgree
  <2> QED
    BY <1>0, <1>7, <2>3, <2>4, <2>5, <2>6 DEF TradeInv, BooksAgree
<1>10. CounterAgrees'
  <2>1. IsFiniteSet(open)
    BY MarketAssumption, FS_Subset DEF TradeInv
  <2> QED
    BY <1>0, <1>7, <2>1, FS_AddElement DEF TradeInv, CounterAgrees
<1>11. RiskTypeOK' /\ open' \subseteq Symbols /\ pos' \in [Symbols -> Positions]
  BY <1>0, <1>7, <1>8 DEF TradeInv, RiskTypeOK
<1> QED
  BY <1>6, <1>9, <1>10, <1>11 DEF TradeInv

\* A scale-in adds the same lots, cost and fee to both records of the position.
LEMMA ScaleInKeepsBooks ==
  ASSUME TradeInv, FeedTypeOK, NEW sig \in StrategySignals, NEW qty \in 0 .. MaxLots,
         ScaleIn(sig, qty)
  PROVE  TradeInv'
<1> DEFINE s == current.symbol
           cost == BuyCost(qty, sig.price)
<1>0. s \in Symbols /\ qty \in Nat /\ s \in open
  BY DEF ScaleIn, TradeInv
<1>1. /\ cost \in Nat /\ FeeOf(cost) \in Nat
      /\ BuyTotal(qty, sig.price) \in Nat
  BY <1>0, SignalFields, BuyNat
<1>2. BuyFills(s, qty, sig.price)
  BY DEF ScaleIn
<1>3. /\ quote' = quote - BuyTotal(qty, sig.price)
      /\ BuyTotal(qty, sig.price) <= quote
      /\ base' = [base EXCEPT ![s] = base[s] + qty]
      /\ held' = held
      /\ orders' = orders + 1
  BY <1>0, <1>2 DEF BuyFills, TradeInv, BooksAgree
<1>4. bpos' = [bpos EXCEPT ![s] = [ qty  |-> bpos[s].qty + qty, cost |-> bpos[s].cost + cost,
                                    fee  |-> bpos[s].fee + FeeOf(cost) ]]
  BY <1>2 DEF BuyFills
<1>5. bpos[s] \in [qty : Nat, cost : Nat, fee : Nat] /\ pos[s] \in Positions
  BY <1>0 DEF TradeInv, BrokerTypeOK
<1>6. BrokerTypeOK'
  BY <1>0, <1>1, <1>3, <1>4, <1>5 DEF TradeInv, BrokerTypeOK
<1>7. /\ pos' = [pos EXCEPT ![s] = ScaledPosition(pos[s], sig, qty)]
      /\ UNCHANGED <<open, openPositions, dailyPnl, consecutiveLosses, lastTradeTime, errorCount,
                     killSwitch>>
  BY DEF ScaleIn, riskVars
<1>8. /\ ScaledPosition(pos[s], sig, qty) \in Positions
      /\ ScaledPosition(pos[s], sig, qty).qty = pos[s].qty + qty
      /\ ScaledPosition(pos[s], sig, qty).cost = pos[s].cost + cost
      /\ ScaledPosition(pos[s], sig, qty).fee = pos[s].fee + FeeOf(cost)
  <2> DEFINE p == [ qty |-> pos[s].qty + qty, cost |-> pos[s].cost + cost,
                    fee |-> pos[s].fee + FeeOf(cost),
                    stopLoss |-> IF sig.stopLoss # 0 THEN sig.stopLoss ELSE pos[s].stopLoss,
                    takeProfit |-> IF sig.takeProfit # 0 THEN sig.takeProfit
                                   ELSE pos[s].takeProfit,
                    gridId |-> sig.gridId,
                    levels |-> pos[s].levels \cup {sig.level} ]
  <2>1. p \in Positions
    BY <1>0, <1>1, <1>5, SignalFields DEF Positions
  <2>2. ScaledPosition(pos[s], sig, qty) = Refreshed(p)
    BY DEF ScaledPosition
  <2>3. p.qty = pos[s].qty + qty /\ p.cost = pos[s].cost + cost /\ p.fee = pos[s].fee + FeeOf(cost)
    OBVIOUS
  <2> HIDE DEF p
  <2> QED
    BY <2>1, <2>2, <2>3, RefreshedPosition
<1>9. BooksAgree'
  <2>1. /\ pos[s].qty = bpos[s].qty /\ pos[s].cost = bpos[s].cost /\ pos[s].fee = bpos[s].fee
        /\ base[s] = bpos[s].qty
    BY <1>0 DEF TradeInv, BooksAgree
  <2>2. /\ pos'[s].qty = bpos'[s].qty /\ pos'[s].cost = bpos'[s].cost /\ pos'[s].fee = bpos'[s].fee
        /\ base'[s] = bpos'[s].qty
    BY <1>0, <1>3, <1>4, <1>7, <1>8, <2>1 DEF TradeInv, BrokerTypeOK
  <2>3. \A q \in Symbols \ {s} :
          base'[q] = base[q] /\ pos'[q] = pos[q] /\ bpos'[q] = bpos[q]
    BY <1>3, <1>4, <1>7 DEF TradeInv, BrokerTypeOK
  <2> QED
    BY <1>0, <1>3, <1>7, <2>2, <2>3 DEF TradeInv, BooksAgree
<1>10. RiskTypeOK' /\ CounterAgrees' /\ open' \subseteq Symbols /\ pos' \in [Symbols -> Positions]
  BY <1>0, <1>7, <1>8 DEF TradeInv, RiskTypeOK, CounterAgrees
<1> QED
  BY <1>6, <1>9, <1>10 DEF TradeInv

(***************************************************************************)
(* Every action keeps the invariant.                                       *)
(***************************************************************************)

\* The initial state satisfies it.
LEMMA InitInv == Init => IInv
<1> SUFFICES ASSUME Init PROVE TradeInv /\ FeedTypeOK
  BY IInvParts, Zenon
<1>1. BrokerTypeOK
  BY BrokerAssumption DEF Init, BrokerInit, BrokerTypeOK, NoHolding
<1>2. RiskTypeOK
  BY DEF Init, RiskInit, RiskTypeOK
<1>3. open \subseteq Symbols /\ pos \in [Symbols -> Positions]
  BY DEF Init, NoPosition, Positions
<1>4. BooksAgree
  BY DEF Init, BrokerInit, BooksAgree, NoHolding, NoPosition
<1>5. CounterAgrees
  BY FS_EmptySet DEF Init, RiskInit, CounterAgrees
<1>6. FeedTypeOK
  <2>1. 0 \in 0 .. MinBuffer
    BY OrchestratorAssumption
  <2>2. buffered \in [Symbols -> 0 .. MinBuffer]
    BY <2>1 DEF Init
  <2>3. lastClose \in [Symbols -> Nat]
    BY DEF Init
  <2> QED
    BY <2>2, <2>3 DEF Init, FeedTypeOK, Results
<1> QED
  BY <1>1, <1>2, <1>3, <1>4, <1>5, <1>6 DEF TradeInv

\* What the end of a candle, the admission of one and the pipeline leave of
\* the feed's part.
LEMMA ReturnFeed ==
  ASSUME FeedTypeOK, NEW action \in Results, Return(action), UNCHANGED <<running, feedVars>>
  PROVE  FeedTypeOK'
  BY DEF FeedTypeOK, Return, feedVars

\* A mark price is a natural number.
LEMMA MarkFeed ==
  ASSUME FeedTypeOK, NEW c \in Candles, MarkPrice(c)
  PROVE  lastClose' \in [Symbols -> Nat]
<1>1. c.symbol \in Symbols /\ c.close \in Nat
  BY MarketAssumption DEF Candles
<1> QED
  BY <1>1 DEF FeedTypeOK, MarkPrice

\* Admission marks, counts and buffers the candle.
LEMMA AdmitFeed ==
  ASSUME FeedTypeOK, NEW c \in Candles, Admit(c)
  PROVE  /\ running' \in BOOLEAN
         /\ processed' \subseteq Symbols \X Times
         /\ buffered' \in [Symbols -> 0 .. MinBuffer]
         /\ lastClose' \in [Symbols -> Nat]
<1>1. c.symbol \in Symbols /\ c.time \in Times
  BY DEF Candles
<1>2. processed' \subseteq Symbols \X Times
  BY <1>1 DEF Admit, Key, FeedTypeOK
<1>3. buffered' \in [Symbols -> 0 .. MinBuffer]
  <2>1. buffered[c.symbol] \in 0 .. MinBuffer
    BY <1>1 DEF FeedTypeOK
  <2>2. (IF buffered[c.symbol] < MinBuffer THEN buffered[c.symbol] + 1 ELSE buffered[c.symbol])
          \in 0 .. MinBuffer
    BY <2>1, OrchestratorAssumption
  <2> QED
    BY <2>2 DEF Admit, FeedTypeOK
<1> QED
  BY <1>2, <1>3, MarkFeed DEF Admit, FeedTypeOK

\* Every action of the feed keeps the invariant.
LEMMA FeedStep == IInv /\ Feed => IInv'
<1> SUFFICES ASSUME TradeInv, FeedTypeOK, Feed PROVE TradeInv' /\ FeedTypeOK'
  BY IInvParts, IInvPartsNext
<1>1. CASE CandleWhileStopped
  <2>1. TradeInv'
    BY <1>1, NoTrade DEF CandleWhileStopped
  <2>2. FeedTypeOK'
    BY <1>1, ReturnFeed DEF CandleWhileStopped, Results
  <2> QED
    BY <2>1, <2>2
<1>2. CASE CandleUnderKillSwitch
  <2>1. TradeInv'
    BY <1>2, NoTrade DEF CandleUnderKillSwitch
  <2>2. FeedTypeOK'
    BY <1>2, ReturnFeed DEF CandleUnderKillSwitch, Results
  <2> QED
    BY <2>1, <2>2
<1>3. ASSUME NEW c \in Candles, DuplicateCandle(c) PROVE TradeInv' /\ FeedTypeOK'
  <2>1. TradeInv'
    BY <1>3, NoTrade DEF DuplicateCandle
  <2>2. FeedTypeOK'
    BY <1>3, MarkFeed DEF DuplicateCandle, Return, Results, FeedTypeOK
  <2> QED
    BY <2>1, <2>2
<1>4. ASSUME NEW c \in Candles, AdmitCandle(c) PROVE TradeInv' /\ FeedTypeOK'
  <2>1. TradeInv'
    BY <1>4, NoTrade DEF AdmitCandle
  <2>2. Admit(c) /\ current' = c /\ exited' = FALSE /\ result' = "none"
    BY <1>4 DEF AdmitCandle
  <2>3. FeedTypeOK'
    BY <2>2, AdmitFeed DEF Results, FeedTypeOK
  <2> QED
    BY <2>1, <2>3
<1>5. ASSUME NEW c \in Candles, AdmitAndExit(c) PROVE TradeInv' /\ FeedTypeOK'
  <2>1. Admit(c) /\ MustExit(c)
    BY <1>5 DEF AdmitAndExit
  <2>2. c.symbol \in open /\ c.time \in Times
    BY <2>1 DEF MustExit, Candles
  <2>3. ExitPrice(c) \in Nat
    BY <2>2 DEF ExitPrice, TradeInv, Positions
  <2>4. CASE SellCovered(c.symbol, pos[c.symbol].qty)
    <3>1. /\ ClosePosition(c.symbol, ExitPrice(c), c.time)
          /\ current' = c /\ exited' = TRUE /\ result' = "none"
      BY <1>5, <2>4 DEF AdmitAndExit
    <3>2. TradeInv'
      BY <2>2, <2>3, <3>1, ExitKeepsBooks
    <3>3. FeedTypeOK'
      BY <2>1, <3>1, AdmitFeed DEF Results, FeedTypeOK
    <3> QED
      BY <3>2, <3>3
  <2>5. CASE ~SellCovered(c.symbol, pos[c.symbol].qty)
    <3>1. Return("order_rejected") /\ UNCHANGED <<brokerVars, riskVars, bookVars>>
      BY <1>5, <2>5 DEF AdmitAndExit
    <3>2. TradeInv'
      BY <3>1, NoTrade
    <3>3. FeedTypeOK'
      BY <2>1, <3>1, AdmitFeed DEF Return, Results, FeedTypeOK
    <3> QED
      BY <3>2, <3>3
  <2> QED
    BY <2>4, <2>5
<1> QED
  BY <1>1, <1>2, <1>3, <1>4, <1>5 DEF Feed

\* Whatever the strategy signals, the pipeline keeps the invariant.
LEMMA SignalStep ==
  ASSUME TradeInv, FeedTypeOK, NEW sig \in StrategySignals, OnSignal(sig)
  PROVE  TradeInv' /\ FeedTypeOK'
<1>1. CASE SellWithoutPosition(sig)
  <2>1. TradeInv'
    BY <1>1, NoTrade DEF SellWithoutPosition
  <2>2. FeedTypeOK'
    BY <1>1, ReturnFeed DEF SellWithoutPosition, QuietResult, PipelineUnchanged, Results
  <2> QED
    BY <2>1, <2>2
<1>2. CASE LifecycleBlocked(sig)
  <2>1. TradeInv'
    BY <1>2, NoTrade DEF LifecycleBlocked
  <2>2. FeedTypeOK'
    BY <1>2, ReturnFeed DEF LifecycleBlocked, PipelineUnchanged, Results
  <2> QED
    BY <2>1, <2>2
<1>3. CASE RiskRejected(sig)
  <2>1. TradeInv'
    BY <1>3, NoTrade DEF RiskRejected
  <2>2. FeedTypeOK'
    BY <1>3, ReturnFeed DEF RiskRejected, PipelineUnchanged, Results
  <2> QED
    BY <2>1, <2>2
<1>4. CASE SellSignal(sig)
  <2> DEFINE s == current.symbol
  <2>1. s \in open /\ sig.price \in Nat /\ current.time \in Times
    <3>1. current \in Candles
      BY <1>4 DEF SellSignal, PastLifecycle, AtStrategy, Idle, FeedTypeOK
    <3> QED
      BY <1>4, <3>1, SignalFields DEF SellSignal, PastLifecycle, Candles
  <2>2. CASE SellCovered(s, pos[s].qty)
    <3>1. ClosePosition(s, sig.price, current.time) /\ Return("trade_executed")
          /\ UNCHANGED <<running, feedVars>>
      BY <1>4, <2>2 DEF SellSignal, PipelineUnchanged
    <3>2. TradeInv'
      BY <2>1, <3>1, ExitKeepsBooks
    <3> QED
      BY <3>1, <3>2, ReturnFeed DEF Results
  <2>3. CASE ~SellCovered(s, pos[s].qty)
    <3>1. Return("order_rejected") /\ UNCHANGED <<brokerVars, riskVars, bookVars>>
          /\ UNCHANGED <<running, feedVars>>
      BY <1>4, <2>3 DEF SellSignal, PipelineUnchanged
    <3> QED
      BY <3>1, NoTrade, ReturnFeed DEF Results
  <2> QED
    BY <2>2, <2>3
<1>5. ASSUME NEW qty \in 0 .. MaxLots, OpenPosition(sig, qty)
      PROVE  TradeInv' /\ FeedTypeOK'
  <2>1. TradeInv'
    BY <1>5, OpenKeepsBooks
  <2>2. FeedTypeOK'
    BY <1>5, ReturnFeed DEF OpenPosition, BuyApproved, PipelineUnchanged, Results
  <2> QED
    BY <2>1, <2>2
<1>6. ASSUME NEW qty \in 0 .. MaxLots, ScaleIn(sig, qty)
       PROVE  TradeInv' /\ FeedTypeOK'
  <2>1. TradeInv'
    BY <1>6, ScaleInKeepsBooks
  <2>2. FeedTypeOK'
    BY <1>6, ReturnFeed DEF ScaleIn, BuyApproved, PipelineUnchanged, Results
  <2> QED
    BY <2>1, <2>2
<1>7. ASSUME NEW qty \in 0 .. MaxLots, BuyOrderRejected(sig, qty)
       PROVE  TradeInv' /\ FeedTypeOK'
  <2>1. TradeInv'
    BY <1>7, NoTrade DEF BuyOrderRejected, BuyRefused
  <2>2. FeedTypeOK'
    BY <1>7, ReturnFeed DEF BuyOrderRejected, BuyApproved, PipelineUnchanged, Results
  <2> QED
    BY <2>1, <2>2
<1>8. ASSUME NEW qty \in 0 .. MaxLots, BuyExecutionError(sig, qty)
       PROVE  TradeInv' /\ FeedTypeOK'
  <2>1. quote' \in Nat
    <3>0. qty \in Nat /\ sig.price \in Nat
      BY SignalFields
    <3>1. BuyTotal(qty, sig.price) \in Nat
      BY <3>0, BuyNat
    <3>2. BuyTotal(qty, sig.price) <= quote /\ quote' = quote - BuyTotal(qty, sig.price)
      BY <1>8 DEF BuyExecutionError, BuyRaises
    <3> QED
      BY <3>1, <3>2 DEF TradeInv, BrokerTypeOK
  <2>2. TradeInv'
    BY <1>8, <2>1, ErrorOnly DEF BuyExecutionError, BuyRaises
  <2>3. FeedTypeOK'
    BY <1>8, ReturnFeed DEF BuyExecutionError, BuyApproved, PipelineUnchanged, Results
  <2> QED
    BY <2>2, <2>3
<1> QED
  BY <1>1, <1>2, <1>3, <1>4, <1>5, <1>6, <1>7, <1>8 DEF OnSignal

\* Every action of the pipeline keeps the invariant.
LEMMA PipelineStep == IInv /\ Pipeline => IInv'
<1> SUFFICES ASSUME TradeInv, FeedTypeOK, Pipeline PROVE TradeInv' /\ FeedTypeOK'
  BY IInvParts, IInvPartsNext, Zenon
<1>1. CASE Buffering
  <2>1. TradeInv'
    BY <1>1, NoTrade DEF Buffering
  <2>2. FeedTypeOK'
    BY <1>1, ReturnFeed DEF Buffering, PipelineUnchanged, Results
  <2> QED
    BY <2>1, <2>2
<1>2. CASE RegimeBlocked
  <2>1. TradeInv'
    BY <1>2, NoTrade DEF RegimeBlocked
  <2>2. FeedTypeOK'
    BY <1>2, ReturnFeed DEF RegimeBlocked, PipelineUnchanged, Results
  <2> QED
    BY <2>1, <2>2
<1>3. CASE StrategyError
  <2>1. TradeInv'
    BY <1>3, ErrorOnly DEF StrategyError, brokerVars, TradeInv, BrokerTypeOK
  <2>2. FeedTypeOK'
    BY <1>3, ReturnFeed DEF StrategyError, PipelineUnchanged, Results
  <2> QED
    BY <2>1, <2>2
<1>4. CASE NoSignal
  <2>1. TradeInv'
    BY <1>4, NoTrade DEF NoSignal
  <2>2. FeedTypeOK'
    BY <1>4, ReturnFeed DEF NoSignal, QuietResult, PipelineUnchanged, Results
  <2> QED
    BY <2>1, <2>2
<1>5. ASSUME NEW sig \in Signals, OnSignal(sig) PROVE TradeInv' /\ FeedTypeOK'
  BY <1>5, SignalsTyped, SignalStep
<1> QED
  BY <1>1, <1>2, <1>3, <1>4, <1>5 DEF Pipeline

\* An interrupt only stops the feed.
LEMMA InterruptStep == IInv /\ Interrupt => IInv'
<1> SUFFICES ASSUME TradeInv, FeedTypeOK, Interrupt PROVE TradeInv' /\ FeedTypeOK'
  BY IInvParts, IInvPartsNext, Zenon
<1>1. TradeInv'
  BY NoTrade DEF Interrupt
<1>2. FeedTypeOK'
  BY DEF Interrupt, FeedTypeOK, feedVars
<1> QED
  BY <1>1, <1>2

\* So does a stuttering step keep it.
LEMMA StutterStep == IInv /\ UNCHANGED vars => IInv'
<1> SUFFICES ASSUME TradeInv, FeedTypeOK, UNCHANGED vars PROVE TradeInv' /\ FeedTypeOK'
  BY IInvParts, IInvPartsNext, Zenon
<1>1. TradeInv'
  BY NoTrade DEF vars
<1>2. FeedTypeOK'
  BY DEF vars, feedVars, handlerVars, FeedTypeOK
<1> QED
  BY <1>1, <1>2

\* The invariant is inductive.
THEOREM InvariantHolds == Spec => []IInv
<1>1. Init => IInv
  BY InitInv
<1>2. IInv /\ [Next]_vars => IInv'
  BY FeedStep, PipelineStep, InterruptStep, StutterStep DEF Next
<1> QED
  BY <1>1, <1>2, PTL DEF Spec

\* Balances, positions and counters keep their types: no balance is ever
\* negative, whatever is bought and sold.
THEOREM TypeCorrect == Spec => []TypeOK
<1>1. IInv => TypeOK
  BY DEF IInv
<1> QED
  BY <1>1, InvariantHolds, PTL

\* The orchestrator's positions, the broker's and the wallet's holdings never
\* differ.
THEOREM BooksAlwaysAgree == Spec => []BooksAgree
<1>1. IInv => BooksAgree
  BY DEF IInv
<1> QED
  BY <1>1, InvariantHolds, PTL

\* The risk engine's counter is always the number of open positions.
THEOREM CounterAlwaysAgrees == Spec => []CounterAgrees
<1>1. IInv => CounterAgrees
  BY DEF IInv
<1> QED
  BY <1>1, InvariantHolds, PTL

(***************************************************************************)
(* What a step may never do.                                               *)
(***************************************************************************)

\* A full exit never takes cash.
LEMMA ExitPays ==
  ASSUME TradeInv, NEW s \in open, NEW price \in Nat, NEW now \in Times,
         ClosePosition(s, price, now)
  PROVE  /\ quote' = quote + SellNet(pos[s].qty, price)
         /\ SellNet(pos[s].qty, price) \in Nat
         /\ quote' >= quote
<1>1. pos[s].qty \in Nat /\ quote \in Nat
  BY DEF TradeInv, Positions, BrokerTypeOK
<1>2. SellNet(pos[s].qty, price) \in Nat
  BY <1>1, SellNat
<1>3. quote' = quote + SellNet(pos[s].qty, price)
  BY DEF ClosePosition, SellFills
<1> QED
  BY <1>1, <1>2, <1>3

\* A halt refuses every BUY.
LEMMA HaltRefusesBuys ==
  ASSUME TradeInv, Halted, NEW sig \in Signals, IsBuy(sig)
  PROVE  ~SignalApproved(sig)
<1>1. CASE killSwitch
  BY <1>1 DEF SignalApproved, Approved, KillSwitchRule
<1>2. CASE errorCount >= MaxErrors
  BY <1>2, RiskAssumption DEF SignalApproved, Approved, ErrorHaltRule, TradeInv, RiskTypeOK
<1>3. CASE consecutiveLosses >= MaxConsecutive
  BY <1>3, RiskAssumption
     DEF SignalApproved, Approved, ConsecutiveLossCooldownRule, TradeInv, RiskTypeOK
<1>4. CASE Equity > 0 /\ ~(-dailyPnl * 100 < MaxDailyLossPct * Equity)
  BY <1>4 DEF SignalApproved, Approved, MaxDailyLossRule
<1> QED
  BY <1>1, <1>2, <1>3, <1>4 DEF Halted

\* Only a BUY order takes cash.
LEMMA OnlyBuysTakeCash ==
  ASSUME IInv, [Next]_vars
  PROVE  \/ quote' >= quote
         \/ \E sig \in Signals : IsBuy(sig) /\ SignalApproved(sig)
<1>0. TradeInv /\ FeedTypeOK
  BY IInvParts, Zenon
<1>1. UNCHANGED brokerVars => quote' >= quote
  BY <1>0 DEF brokerVars, TradeInv, BrokerTypeOK
<1>2. CASE Feed
  <2>1. ASSUME NEW c \in Candles, AdmitAndExit(c) PROVE quote' >= quote
    <3>1. c.symbol \in open /\ c.time \in Times
      BY <2>1 DEF AdmitAndExit, MustExit, Candles
    <3>2. ExitPrice(c) \in Nat
      BY <1>0, <3>1 DEF ExitPrice, TradeInv, Positions
    <3>3. CASE ClosePosition(c.symbol, ExitPrice(c), c.time)
      BY <1>0, <3>1, <3>2, <3>3, ExitPays
    <3>4. CASE UNCHANGED brokerVars
      BY <1>1, <3>4
    <3> QED
      BY <2>1, <3>3, <3>4 DEF AdmitAndExit
  <2> QED
    BY <1>1, <1>2, <2>1
       DEF Feed, CandleWhileStopped, CandleUnderKillSwitch, DuplicateCandle, AdmitCandle
<1>3. CASE Pipeline
  <2>1. ASSUME NEW sig \in Signals, SellSignal(sig) PROVE quote' >= quote
    <3>1. current.symbol \in open /\ current.time \in Times /\ sig.price \in Nat
      <4>1. current \in Candles
        BY <1>0, <2>1 DEF SellSignal, PastLifecycle, AtStrategy, Idle, FeedTypeOK
      <4> QED
        BY <2>1, <4>1, SignalsTyped, SignalFields DEF SellSignal, PastLifecycle, Candles
    <3>2. CASE ClosePosition(current.symbol, sig.price, current.time)
      BY <1>0, <3>1, <3>2, ExitPays
    <3>3. CASE UNCHANGED brokerVars
      BY <1>1, <3>3
    <3> QED
      BY <2>1, <3>2, <3>3 DEF SellSignal
  <2>2. ASSUME NEW sig \in Signals, NEW qty \in 0 .. MaxLots, BuyApproved(sig, qty)
        PROVE  IsBuy(sig) /\ SignalApproved(sig)
    BY <2>2 DEF BuyApproved
  <2>3. CASE Buffering \/ RegimeBlocked \/ StrategyError \/ NoSignal
    BY <1>1, <2>3 DEF Buffering, RegimeBlocked, StrategyError, NoSignal
  <2>4. ASSUME NEW sig \in Signals,
               SellWithoutPosition(sig) \/ LifecycleBlocked(sig) \/ RiskRejected(sig)
        PROVE  quote' >= quote
    BY <1>1, <2>4 DEF SellWithoutPosition, LifecycleBlocked, RiskRejected
  <2>5. ASSUME NEW sig \in Signals, NEW qty \in 0 .. MaxLots,
               \/ OpenPosition(sig, qty) \/ ScaleIn(sig, qty)
               \/ BuyOrderRejected(sig, qty) \/ BuyExecutionError(sig, qty)
        PROVE  IsBuy(sig) /\ SignalApproved(sig)
    BY <2>2, <2>5 DEF OpenPosition, ScaleIn, BuyOrderRejected, BuyExecutionError
  <2> QED
    BY <1>3, <2>1, <2>3, <2>4, <2>5 DEF Pipeline, OnSignal
<1>4. CASE Interrupt
  BY <1>1, <1>4 DEF Interrupt
<1>5. CASE UNCHANGED vars
  BY <1>1, <1>5 DEF vars
<1> QED
  BY <1>2, <1>3, <1>4, <1>5 DEF Next

\* While any halt holds, no step takes cash, whatever the strategy signals and
\* even when an order fails half-way.
THEOREM HaltsStopEntries == Spec => NoEntryWhileHalted
<1>1. IInv /\ [Next]_vars => (Halted => quote' >= quote)
  <2> SUFFICES ASSUME IInv, [Next]_vars, Halted PROVE quote' >= quote
    OBVIOUS
  <2>1. TradeInv
    BY IInvParts, Zenon
  <2>2. ~ \E sig \in Signals : IsBuy(sig) /\ SignalApproved(sig)
    BY <2>1, HaltRefusesBuys
  <2> QED
    BY <2>2, OnlyBuysTakeCash
<1> QED
  BY <1>1, InvariantHolds, PTL DEF Spec, NoEntryWhileHalted

(***************************************************************************)
(* After a protective exit the candle trades no more.                      *)
(***************************************************************************)

\* Why: the exit closed the position and started the symbol's cooldown at the
\* time of this very candle.
ExitStartsCooldown ==
  exited => /\ current \in Candles
            /\ current.symbol \notin open
            /\ lastTradeTime[current.symbol] = current.time

\* A step out of the pipeline ends the candle.
LEMMA PipelineEndsCandle == Pipeline => exited' = FALSE
  BY DEF Pipeline, OnSignal, Buffering, RegimeBlocked, StrategyError, NoSignal,
         SellWithoutPosition, LifecycleBlocked, RiskRejected, SellSignal, OpenPosition, ScaleIn,
         BuyOrderRejected, BuyExecutionError, Return

\* Every exit starts the cooldown, and nothing else happens before the candle ends.
LEMMA CooldownStep == IInv /\ ExitStartsCooldown /\ [Next]_vars => ExitStartsCooldown'
<1> SUFFICES ASSUME IInv, ExitStartsCooldown, [Next]_vars PROVE ExitStartsCooldown'
  OBVIOUS
<1>0. TradeInv /\ FeedTypeOK
  BY IInvParts, Zenon
<1>1. CASE Feed
  <2>1. ASSUME NEW c \in Candles, AdmitAndExit(c), exited' # FALSE PROVE ExitStartsCooldown'
    <3>1. /\ ClosePosition(c.symbol, ExitPrice(c), c.time)
          /\ current' = c
      BY <2>1 DEF AdmitAndExit, Return
    <3>2. c.symbol \in Symbols
      BY DEF Candles
    <3>3. lastTradeTime' = [lastTradeTime EXCEPT ![c.symbol] = c.time]
      BY <3>1 DEF ClosePosition, RecordTradeResult
    <3>4. lastTradeTime'[c.symbol] = c.time
      BY <1>0, <3>2, <3>3 DEF TradeInv, RiskTypeOK
    <3>5. c.symbol \notin open'
      BY <3>1 DEF ClosePosition, ForgetPosition
    <3> QED
      BY <3>1, <3>4, <3>5 DEF ExitStartsCooldown
  <2>2. ASSUME exited' = FALSE PROVE ExitStartsCooldown'
    BY <2>2 DEF ExitStartsCooldown
  <2> QED
    BY <1>1, <2>1, <2>2
       DEF Feed, CandleWhileStopped, CandleUnderKillSwitch, DuplicateCandle, AdmitCandle, Return
<1>2. CASE Pipeline
  BY <1>2, PipelineEndsCandle DEF ExitStartsCooldown
<1>3. CASE Interrupt
  BY <1>3 DEF Interrupt, ExitStartsCooldown
<1>4. CASE UNCHANGED vars
  BY <1>4 DEF vars, riskVars, bookVars, handlerVars, ExitStartsCooldown
<1> QED
  BY <1>1, <1>2, <1>3, <1>4 DEF Next

\* A candle that closed a position fills no other order.
THEOREM ExitIsLast ==
  ASSUME Cooldown > 0
  PROVE  Spec => NoFillAfterExit
<1>1. Init => ExitStartsCooldown
  BY DEF Init, ExitStartsCooldown
<1>2. IInv /\ ExitStartsCooldown /\ [Next]_vars => (exited => orders' = orders)
  <2> SUFFICES ASSUME IInv, ExitStartsCooldown, [Next]_vars, exited PROVE orders' = orders
    OBVIOUS
  <2>0. TradeInv /\ FeedTypeOK
    BY IInvParts, Zenon
  <2>1. /\ current \in Candles
        /\ current.symbol \notin open
        /\ current.symbol \in Symbols
        /\ current.time \in Nat
        /\ lastTradeTime[current.symbol] = current.time
        /\ ~Idle
    BY MarketAssumption, OrchestratorAssumption DEF ExitStartsCooldown, Candles, Idle
  <2>2. ASSUME NEW sig \in Signals, IsBuy(sig) PROVE ~SignalApproved(sig)
    <3>1. lastTradeTime[current.symbol] # Never /\ current.time - lastTradeTime[current.symbol] = 0
      BY <2>1 DEF Never
    <3>2. ~(current.time - lastTradeTime[current.symbol] >= Cooldown)
      BY <3>1, RiskAssumption
    <3> QED
      BY <2>2, <3>1, <3>2 DEF SignalApproved, Approved, SymbolCooldownRule
  <2>3. CASE Feed
    BY <2>1, <2>3 DEF Feed, CandleWhileStopped, CandleUnderKillSwitch, DuplicateCandle, AdmitCandle,
                      AdmitAndExit, Admit
  <2>4. CASE Pipeline
    <3>1. ASSUME NEW sig \in Signals, OnSignal(sig) PROVE orders' = orders
      <4>1. ~SellSignal(sig)
        BY <2>1 DEF SellSignal, PastLifecycle
      <4>2. ASSUME NEW qty \in 0 .. MaxLots PROVE ~BuyApproved(sig, qty)
        BY <2>2 DEF BuyApproved
      <4> QED
        BY <3>1, <4>1, <4>2 DEF OnSignal, SellWithoutPosition, LifecycleBlocked, RiskRejected,
           OpenPosition, ScaleIn, BuyOrderRejected, BuyExecutionError, brokerVars
    <3> QED
      BY <2>4, <3>1 DEF Pipeline, Buffering, RegimeBlocked, StrategyError, NoSignal, brokerVars
  <2>5. CASE Interrupt \/ UNCHANGED vars
    BY <2>5 DEF Interrupt, vars, brokerVars
  <2> QED
    BY <2>3, <2>4, <2>5 DEF Next
<1> QED
  BY <1>1, <1>2, CooldownStep, InvariantHolds, PTL DEF Spec, NoFillAfterExit

(***************************************************************************)
(* Refinement of the ledger.                                               *)
(***************************************************************************)

\* What is invested in a symbol, as the ledger sees it.
Invested == [s \in Symbols |-> bpos[s].cost + bpos[s].fee]

\* A step that touches neither the broker nor the result of trades stutters.
LEMMA LedgerStutter ==
  ASSUME UNCHANGED <<brokerVars, dailyPnl>>
  PROVE  UNCHANGED Ledger!ledgerVars
  BY DEF brokerVars, Ledger!ledgerVars

\* A fill invests what it takes from the balance.
LEMMA LedgerEnter ==
  ASSUME TradeInv, NEW s \in Symbols, NEW qty \in Nat, NEW price \in Nat,
         BuyFills(s, qty, price), UNCHANGED dailyPnl
  PROVE  Ledger!Enter(s)
<1> DEFINE cost == BuyCost(qty, price)
<1>1. /\ cost \in Nat /\ FeeOf(cost) \in Nat
      /\ BuyTotal(qty, price) = cost + FeeOf(cost)
  BY BuyNat
<1>2. /\ quote' = quote - BuyTotal(qty, price)
      /\ BuyTotal(qty, price) <= quote
      /\ bpos' = [bpos EXCEPT ![s] = [ qty  |-> bpos[s].qty + qty, cost |-> bpos[s].cost + cost,
                                       fee  |-> bpos[s].fee + FeeOf(cost) ]]
  BY DEF BuyFills
<1>3. quote \in Nat /\ bpos \in [Symbols -> [qty : Nat, cost : Nat, fee : Nat]]
  BY DEF TradeInv, BrokerTypeOK
<1> HIDE DEF cost
<1>4. quote' \in 0 .. quote /\ quote - quote' = cost + FeeOf(cost)
  BY <1>1, <1>2, <1>3
<1>5. Invested' = [Invested EXCEPT ![s] = Invested[s] + (quote - quote')]
  <2>1. ASSUME NEW q \in Symbols, q # s PROVE Invested'[q] = Invested[q]
    BY <1>2, <1>3, <2>1 DEF Invested
  <2>2. Invested'[s] = Invested[s] + (quote - quote')
    BY <1>1, <1>2, <1>3, <1>4 DEF Invested
  <2> QED
    BY <2>1, <2>2 DEF Invested
<1> QED
  BY <1>4, <1>5 DEF Ledger!Enter, Invested

\* A full exit realises the whole investment.
LEMMA LedgerExit ==
  ASSUME TradeInv, NEW s \in open, NEW price \in Nat, NEW now \in Times,
         ClosePosition(s, price, now)
  PROVE  s \in Symbols /\ Ledger!Exit(s)
<1>1. s \in Symbols /\ bpos[s] \in [qty : Nat, cost : Nat, fee : Nat] /\ quote \in Nat
      /\ dailyPnl \in Int
  BY DEF TradeInv, BrokerTypeOK, RiskTypeOK
<1>2. pos[s].cost = bpos[s].cost /\ pos[s].fee = bpos[s].fee /\ pos[s].qty = bpos[s].qty
  BY <1>1 DEF TradeInv, BooksAgree
<1>3. /\ quote' = quote + SellNet(pos[s].qty, price)
      /\ SellNet(pos[s].qty, price) \in Nat
      /\ quote' >= quote
  BY ExitPays
<1>4. dailyPnl' = dailyPnl + (SellNet(pos[s].qty, price) - pos[s].cost - pos[s].fee)
  BY DEF ClosePosition, RecordTradeResult, PnlOf
<1>5. dailyPnl' = dailyPnl + (quote' - quote) - (bpos[s].cost + bpos[s].fee)
  BY <1>1, <1>2, <1>3, <1>4
<1>6. bpos' = [bpos EXCEPT ![s] = NoHolding]
  <2>1. bpos[s].qty - pos[s].qty <= 0
    BY <1>1, <1>2
  <2> QED
    BY <2>1 DEF ClosePosition, SellFills
<1>7. Invested' = [Invested EXCEPT ![s] = 0]
  <2>1. ASSUME NEW q \in Symbols, q # s PROVE Invested'[q] = Invested[q]
    BY <1>6, <2>1 DEF Invested, TradeInv, BrokerTypeOK
  <2>2. Invested'[s] = 0
    BY <1>1, <1>6 DEF Invested, NoHolding, TradeInv, BrokerTypeOK
  <2> QED
    BY <2>1, <2>2 DEF Invested
<1> QED
  BY <1>1, <1>3, <1>5, <1>7 DEF Ledger!Exit, Invested

\* A candle taken from the feed exits at most one position.
LEMMA LedgerFeed == IInv /\ Feed => [Ledger!Next]_(Ledger!ledgerVars)
<1> SUFFICES ASSUME IInv, Feed PROVE [Ledger!Next]_(Ledger!ledgerVars)
  OBVIOUS
<1>0. TradeInv
  BY IInvParts, Zenon
<1>1. ASSUME UNCHANGED <<brokerVars, riskVars>> PROVE UNCHANGED Ledger!ledgerVars
  BY <1>1, LedgerStutter DEF riskVars
<1>2. ASSUME NEW c \in Candles, AdmitAndExit(c) PROVE [Ledger!Next]_(Ledger!ledgerVars)
  <2>1. c.symbol \in open /\ c.symbol \in Symbols /\ c.time \in Times
    BY <1>2 DEF AdmitAndExit, MustExit, Candles
  <2>2. ExitPrice(c) \in Nat
    BY <1>0, <2>1 DEF ExitPrice, TradeInv, Positions
  <2>3. CASE ClosePosition(c.symbol, ExitPrice(c), c.time)
    BY <1>0, <2>1, <2>2, <2>3, LedgerExit DEF Ledger!Next
  <2>4. CASE UNCHANGED <<brokerVars, riskVars>>
    BY <1>1, <2>4
  <2> QED
    BY <1>2, <2>3, <2>4 DEF AdmitAndExit
<1> QED
  BY <1>1, <1>2 DEF Feed, CandleWhileStopped, CandleUnderKillSwitch, DuplicateCandle, AdmitCandle

\* The rest of the pipeline enters or exits one position, when no order can fail
\* half-way.
LEMMA LedgerPipeline ==
  ASSUME QuotedSymbols = Symbols
  PROVE  IInv /\ Pipeline => [Ledger!Next]_(Ledger!ledgerVars)
<1> SUFFICES ASSUME IInv, Pipeline PROVE [Ledger!Next]_(Ledger!ledgerVars)
  OBVIOUS
<1>0. TradeInv /\ FeedTypeOK
  BY IInvParts, Zenon
<1>1. ASSUME UNCHANGED <<brokerVars, dailyPnl>> PROVE [Ledger!Next]_(Ledger!ledgerVars)
  BY <1>1, LedgerStutter
<1>2. CASE Buffering \/ RegimeBlocked \/ StrategyError \/ NoSignal
  BY <1>1, <1>2 DEF Buffering, RegimeBlocked, StrategyError, NoSignal, riskVars
<1>3. ASSUME NEW sig \in Signals, AtStrategy, OnSignal(sig)
      PROVE  [Ledger!Next]_(Ledger!ledgerVars)
  <2>1. current \in Candles /\ current.symbol \in Symbols /\ current.time \in Times
    BY <1>0, <1>3 DEF AtStrategy, Idle, FeedTypeOK, Candles
  <2>2. sig.price \in Nat
    BY SignalsTyped, SignalFields
  <2>3. CASE SellWithoutPosition(sig) \/ LifecycleBlocked(sig) \/ RiskRejected(sig)
    BY <1>1, <2>3 DEF SellWithoutPosition, LifecycleBlocked, RiskRejected, riskVars
  <2>4. CASE SellSignal(sig)
    <3>1. CASE ClosePosition(current.symbol, sig.price, current.time)
      <4>1. current.symbol \in open
        BY <2>4 DEF SellSignal, PastLifecycle
      <4> QED
        BY <1>0, <2>1, <2>2, <3>1, <4>1, LedgerExit DEF Ledger!Next
    <3>2. CASE UNCHANGED <<brokerVars, riskVars>>
      BY <1>1, <3>2 DEF riskVars
    <3> QED
      BY <2>4, <3>1, <3>2 DEF SellSignal
  <2>5. ASSUME NEW qty \in 0 .. MaxLots, OpenPosition(sig, qty) \/ ScaleIn(sig, qty)
        PROVE  [Ledger!Next]_(Ledger!ledgerVars)
    <3>1. BuyFills(current.symbol, qty, sig.price) /\ UNCHANGED dailyPnl
      BY <2>5 DEF OpenPosition, ScaleIn, riskVars
    <3>2. qty \in Nat
      BY OrchestratorAssumption
    <3> QED
      BY <1>0, <2>1, <2>2, <3>1, <3>2, LedgerEnter DEF Ledger!Next
  <2>6. ASSUME NEW qty \in 0 .. MaxLots, BuyOrderRejected(sig, qty)
        PROVE  [Ledger!Next]_(Ledger!ledgerVars)
    BY <1>1, <2>6 DEF BuyOrderRejected, BuyRefused, riskVars
  <2>7. ASSUME NEW qty \in 0 .. MaxLots PROVE ~BuyExecutionError(sig, qty)
    BY <2>1 DEF BuyExecutionError, BuyRaises
  <2> QED
    BY <1>3, <2>3, <2>4, <2>5, <2>6, <2>7 DEF OnSignal
<1>4. ASSUME NEW sig \in Signals, OnSignal(sig) PROVE AtStrategy
  BY <1>4 DEF OnSignal, SellWithoutPosition, LifecycleBlocked, RiskRejected, SellSignal,
              OpenPosition, ScaleIn, BuyOrderRejected, BuyExecutionError, BuyApproved, PastLifecycle
<1> QED
  BY <1>2, <1>3, <1>4 DEF Pipeline

\* When every symbol is traded against the quote asset, the orchestrator
\* implements the ledger: cash, investment and booked profit never move apart.
THEOREM LedgerRefined ==
  ASSUME QuotedSymbols = Symbols
  PROVE  Spec => LedgerSpec
<1>1. Init => Ledger!Init
  BY DEF Init, BrokerInit, RiskInit, NoHolding, Ledger!Init
<1>2. IInv /\ [Next]_vars => [Ledger!Next]_(Ledger!ledgerVars)
  <2>1. Interrupt => UNCHANGED Ledger!ledgerVars
    BY LedgerStutter DEF Interrupt, riskVars
  <2>2. UNCHANGED vars => UNCHANGED Ledger!ledgerVars
    BY LedgerStutter DEF vars, riskVars
  <2> QED
    BY <2>1, <2>2, LedgerFeed, LedgerPipeline DEF Next
<1> QED
  BY <1>1, <1>2, InvariantHolds, PTL DEF Spec, LedgerSpec, Ledger!Spec

(***************************************************************************)
(* Sums over a finite set.                                                 *)
(***************************************************************************)

\* Every set of natural numbers has a least one.  This takes the place of
\* induction in what follows.
LEMMA LeastNat ==
  ASSUME NEW T \in SUBSET Nat, T # {}
  PROVE  \E x \in T : \A y \in T : x <= y
<1>1. \E x \in T : \A y \in T : ~ (<<y, x>> \in OpToRel(<,Nat))
  BY WFMin, NatLessThanWellFounded
<1>2. \E x \in T : \A y \in T : ~(y < x)
  BY <1>1 DEF OpToRel
<1> QED BY <1>2

\* A set of natural numbers that has zero and with a number the next has them all.
LEMMA SetInduction ==
  ASSUME NEW G, 0 \in G, \A n \in Nat : n \in G => n + 1 \in G
  PROVE  Nat \subseteq G
<1> DEFINE Bad == Nat \ G
<1>1. CASE Bad # {}
  <2>1. PICK n \in Bad : \A m \in Bad : n <= m
    BY <1>1, LeastNat
  <2>2. n # 0 /\ n - 1 \in Nat /\ n - 1 \notin Bad
    BY <2>1
  <2> QED
    BY <2>1, <2>2
<1> QED
  BY <1>1

\* The element the fold of the library takes out of T.
Chosen(T) == CHOOSE x \in T : TRUE

\* g has the sum of f over each set of F.
IsSum(g, f, F) ==
  \A T \in F : g[T] = IF T = {} THEN 0 ELSE f[Chosen(T)] + g[T \ {Chosen(T)}]

\* The subsets of S of at most n elements.
UpTo(S, n) == {T \in SUBSET S : Cardinality(T) <= n}

\* A finite set has a function that sums over its subsets: with one for the
\* subsets of n elements there is one for those of n + 1.
LEMMA SumExists ==
  ASSUME NEW S, IsFiniteSet(S), NEW f \in [S -> Int]
  PROVE  \E g \in [SUBSET S -> Int] : IsSum(g, f, SUBSET S)
<1> DEFINE G == {n \in Nat : \E g \in [UpTo(S, n) -> Int] : IsSum(g, f, UpTo(S, n))}
<1>1. 0 \in G
  <2>1. UpTo(S, 0) = {{}}
    BY FS_EmptySet, FS_Subset, FS_CardinalityType DEF UpTo
  <2>2. DEFINE g == [T \in UpTo(S, 0) |-> 0]
  <2>3. g \in [UpTo(S, 0) -> Int] /\ IsSum(g, f, UpTo(S, 0))
    BY <2>1 DEF IsSum
  <2> QED
    BY <2>3
<1>2. ASSUME NEW n \in Nat, n \in G PROVE n + 1 \in G
  <2>1. PICK g \in [UpTo(S, n) -> Int] : IsSum(g, f, UpTo(S, n))
    BY <1>2
  <2> DEFINE h == [T \in UpTo(S, n + 1) |->
                     IF T = {} THEN 0 ELSE f[Chosen(T)] + g[T \ {Chosen(T)}]]
  <2>2. ASSUME NEW T \in UpTo(S, n + 1), T # {}
        PROVE  T \ {Chosen(T)} \in UpTo(S, n) /\ Chosen(T) \in S
    <3>1. Chosen(T) \in T /\ T \in SUBSET S
      BY <2>2 DEF Chosen, UpTo
    <3>2. IsFiniteSet(T) /\ Cardinality(T) \in Nat /\ Cardinality(T) <= n + 1
      BY <3>1, FS_Subset, FS_CardinalityType DEF UpTo
    <3>3. Cardinality(T \ {Chosen(T)}) = Cardinality(T) - 1
      BY <3>1, <3>2, FS_RemoveElement
    <3> QED
      BY <3>1, <3>2, <3>3 DEF UpTo
  <2>3. h \in [UpTo(S, n + 1) -> Int]
    BY <2>2
  <2>4. UpTo(S, n) \subseteq UpTo(S, n + 1)
    <3>1. \A T \in SUBSET S : Cardinality(T) \in Nat
      BY FS_Subset, FS_CardinalityType
    <3> QED
      BY <3>1 DEF UpTo
  <2>5. \A T \in UpTo(S, n) : h[T] = g[T]
    BY <2>1, <2>4 DEF IsSum
  <2>6. IsSum(h, f, UpTo(S, n + 1))
    BY <2>2, <2>5 DEF IsSum
  <2>7. \E i \in [UpTo(S, n + 1) -> Int] : IsSum(i, f, UpTo(S, n + 1))
    <3> HIDE DEF h
    <3> QED
      BY <2>3, <2>6
  <2> QED
    BY <2>7
<1>3. Cardinality(S) \in G
  <2> HIDE DEF G
  <2> QED
    BY <1>1, <1>2, SetInduction, FS_CardinalityType
<1>4. UpTo(S, Cardinality(S)) = SUBSET S
  BY FS_Subset, FS_CardinalityType DEF UpTo
<1> QED
  BY <1>3, <1>4

\* The sum of the library is what such a function says.
LEMMA SumIs ==
  ASSUME NEW S, IsFiniteSet(S), NEW f \in [S -> Int],
         NEW g \in [SUBSET S -> Int], IsSum(g, f, SUBSET S)
  PROVE  SumFunctionOnSet(f, S) = g[S]
<1> DEFINE body(i) == [T \in SUBSET S |-> IF T = {} THEN 0
                         ELSE f[CHOOSE x \in T : TRUE] + i[T \ {CHOOSE x \in T : TRUE}]]
           it == CHOOSE i : i = body(i)
<1>1. g = body(g)
  BY DEF IsSum, Chosen
<1>2. it = body(it)
  BY <1>1
<1>3. SumFunctionOnSet(f, S) = it[S]
  BY DEF SumFunctionOnSet, FoldFunctionOnSet, MapThenFoldSet
<1> DEFINE G == {n \in Nat : \A T \in SUBSET S : Cardinality(T) = n => it[T] = g[T]}
<1>4. 0 \in G
  BY <1>2, FS_EmptySet, FS_Subset DEF IsSum
<1>5. ASSUME NEW n \in Nat, n \in G PROVE n + 1 \in G
  <2> HIDE DEF it
  <2>0. SUFFICES ASSUME NEW T \in SUBSET S, Cardinality(T) = n + 1 PROVE it[T] = g[T]
    OBVIOUS
  <2>1. IsFiniteSet(T) /\ T # {}
    BY <2>0, FS_Subset, FS_EmptySet
  <2>2. Chosen(T) \in T
    BY <2>1 DEF Chosen
  <2>3. Cardinality(T \ {Chosen(T)}) = n
    <3>1. Cardinality(T \ {Chosen(T)}) = Cardinality(T) - 1
      BY <2>1, <2>2, FS_RemoveElement
    <3> QED
      BY <2>0, <3>1
  <2>4. it[T \ {Chosen(T)}] = g[T \ {Chosen(T)}]
    BY <2>3, <1>5 DEF G
  <2>5. it[T] = f[Chosen(T)] + it[T \ {Chosen(T)}]
    BY <1>2, <2>1 DEF Chosen
  <2> QED
    BY <2>1, <2>4, <2>5 DEF IsSum
<1>6. Cardinality(S) \in G
  <2> HIDE DEF G
  <2> QED
    BY <1>4, <1>5, SetInduction, FS_CardinalityType
<1> QED
  BY <1>3, <1>6

\* A sum of integers is an integer.
LEMMA SumTyped ==
  ASSUME NEW S, IsFiniteSet(S), NEW f \in [S -> Int]
  PROVE  SumFunctionOnSet(f, S) \in Int
<1>1. PICK g \in [SUBSET S -> Int] : IsSum(g, f, SUBSET S)
  BY SumExists
<1> QED
  BY <1>1, SumIs

\* The order in which elements are chosen does not matter.
LEMMA SumAnyOrder ==
  ASSUME NEW S, IsFiniteSet(S), NEW f \in [S -> Int],
         NEW g \in [SUBSET S -> Int], IsSum(g, f, SUBSET S),
         NEW U \in SUBSET S, NEW y \in U
  PROVE  g[U] = g[U \ {y}] + f[y]
<1> DEFINE G == {n \in Nat : \A T \in SUBSET S : Cardinality(T) = n =>
                    \A x \in T : g[T] = g[T \ {x}] + f[x]}
<1>1. 0 \in G
  BY FS_EmptySet, FS_Subset
<1>2. ASSUME NEW n \in Nat, n \in G PROVE n + 1 \in G
  <2>0. SUFFICES ASSUME NEW T \in SUBSET S, Cardinality(T) = n + 1, NEW x \in T
                 PROVE  g[T] = g[T \ {x}] + f[x]
    OBVIOUS
  <2>1. PICK c \in T : c = Chosen(T)
    BY DEF Chosen
  <2>2. g[T] = f[c] + g[T \ {c}]
    BY <2>1 DEF IsSum
  <2>3. CASE c = x
    BY <2>2, <2>3
  <2>4. CASE c # x
    <3>1. IsFiniteSet(T)
      BY FS_Subset
    <3>2. Cardinality(T \ {c}) = Cardinality(T) - 1 /\ Cardinality(T \ {x}) = Cardinality(T) - 1
      BY <3>1, <2>1, FS_RemoveElement
    <3>3. Cardinality(T \ {c}) = n /\ Cardinality(T \ {x}) = n
      BY <2>0, <3>2
    <3>4. g[T \ {c}] = g[(T \ {c}) \ {x}] + f[x]
      BY <1>2, <2>4, <3>3 DEF G
    <3>5. g[T \ {x}] = g[(T \ {x}) \ {c}] + f[c]
      BY <1>2, <2>4, <3>3 DEF G
    <3>6. (T \ {c}) \ {x} = (T \ {x}) \ {c}
      OBVIOUS
    <3>7. PICK a, b, e, p, q \in Int : /\ a = g[T \ {c}] /\ b = g[T \ {x}] /\ e = g[(T \ {x}) \ {c}]
                                     /\ p = f[c] /\ q = f[x]
      OBVIOUS
    <3>8. a = e + q /\ b = e + p
      BY <3>4, <3>5, <3>6, <3>7
    <3> QED
      BY <2>2, <3>7, <3>8
  <2> QED
    BY <2>3, <2>4
<1>3. Nat \subseteq G
  <2> HIDE DEF G
  <2> QED
    BY <1>1, <1>2, SetInduction
<1>4. \A T \in SUBSET S : Cardinality(T) \in Nat
  BY FS_Subset, FS_CardinalityType
<1> QED
  BY <1>3, <1>4

\* Two functions that agree on a set have one sum over it.
LEMMA SumCongruent ==
  ASSUME NEW S, NEW f, NEW h, \A s \in S : f[s] = h[s]
  PROVE  SumFunctionOnSet(f, S) = SumFunctionOnSet(h, S)
<1> DEFINE of(k, i) == [T \in SUBSET S |-> IF T = {} THEN 0
                         ELSE k[CHOOSE x \in T : TRUE] + i[T \ {CHOOSE x \in T : TRUE}]]
<1>1. /\ SumFunctionOnSet(f, S) = (CHOOSE i : i = of(f, i))[S]
      /\ SumFunctionOnSet(h, S) = (CHOOSE i : i = of(h, i))[S]
  BY DEF SumFunctionOnSet, FoldFunctionOnSet, MapThenFoldSet
<1>2. ASSUME NEW i PROVE of(f, i) = of(h, i)
  <2>1. ASSUME NEW T \in SUBSET S, T # {} PROVE f[CHOOSE x \in T : TRUE] = h[CHOOSE x \in T : TRUE]
    BY <2>1
  <2> QED
    BY <2>1
<1>3. (CHOOSE i : i = of(f, i)) = (CHOOSE i : i = of(h, i))
  <2> HIDE DEF of
  <2> QED
    BY <1>2
<1> QED
  BY <1>1, <1>3

\* One element more adds its summand.
LEMMA SumAdds ==
  ASSUME NEW D, NEW f \in [D -> Int], NEW T \in SUBSET D, IsFiniteSet(T), NEW x \in D \ T
  PROVE  /\ SumFunctionOnSet(f, T) \in Int
         /\ SumFunctionOnSet(f, T \cup {x}) = SumFunctionOnSet(f, T) + f[x]
<1> DEFINE S == T \cup {x}
           fS == [s \in S |-> f[s]]
           fT == [s \in T |-> f[s]]
<1>1. IsFiniteSet(S) /\ fS \in [S -> Int] /\ fT \in [T -> Int]
  BY FS_AddElement
<1>2. PICK g \in [SUBSET S -> Int] : IsSum(g, fS, SUBSET S)
  BY <1>1, SumExists
<1> DEFINE gT == [U \in SUBSET T |-> g[U]]
<1>3. gT \in [SUBSET T -> Int] /\ IsSum(gT, fT, SUBSET T)
  BY <1>2 DEF IsSum, Chosen
<1>4. SumFunctionOnSet(fS, S) = g[S]
  BY <1>1, <1>2, SumIs
<1>5. SumFunctionOnSet(fT, T) = gT[T]
  BY <1>1, <1>3, SumIs
<1>6. g[S] = g[S \ {x}] + fS[x]
  <2>1. /\ IsFiniteSet(S) /\ fS \in [S -> Int] /\ g \in [SUBSET S -> Int] /\ IsSum(g, fS, SUBSET S)
        /\ S \in SUBSET S /\ x \in S
    BY <1>1, <1>2
  <2> HIDE DEF S, fS
  <2> QED
    BY <2>1, SumAnyOrder
<1>7. /\ SumFunctionOnSet(f, S) = SumFunctionOnSet(fS, S)
      /\ SumFunctionOnSet(f, T) = SumFunctionOnSet(fT, T)
  BY SumCongruent
<1>8. S \ {x} = T /\ fS[x] = f[x] /\ gT[T] = g[T] /\ g[T] \in Int
  OBVIOUS
<1> QED
  BY <1>4, <1>5, <1>6, <1>7, <1>8

\* A summand that changes changes the sum by as much; one outside the set
\* counted for nothing.
LEMMA SumChanges ==
  ASSUME NEW D, NEW f \in [D -> Int], NEW g \in [D -> Int], NEW T \in SUBSET D, NEW x \in D,
         IsFiniteSet(T), x \notin T => f[x] = 0, \A d \in D \ {x} : g[d] = f[d]
  PROVE  /\ SumFunctionOnSet(g, T \cup {x}) = SumFunctionOnSet(f, T) - f[x] + g[x]
         /\ SumFunctionOnSet(g, T \ {x}) = SumFunctionOnSet(f, T) - f[x]
<1> DEFINE U == T \ {x}
<1>1. IsFiniteSet(U) /\ U \in SUBSET D /\ x \in D \ U /\ f[x] \in Int /\ g[x] \in Int
  BY FS_Subset
<1>2. U \cup {x} = T \cup {x}
  OBVIOUS
<1>3. SumFunctionOnSet(g, U) = SumFunctionOnSet(f, U)
  BY SumCongruent
<1>4. /\ SumFunctionOnSet(f, U) \in Int
      /\ SumFunctionOnSet(f, U \cup {x}) = SumFunctionOnSet(f, U) + f[x]
      /\ SumFunctionOnSet(g, U \cup {x}) = SumFunctionOnSet(g, U) + g[x]
  <2> HIDE DEF U
  <2> QED
    BY <1>1, SumAdds
<1>5. SumFunctionOnSet(f, T) = SumFunctionOnSet(f, U) + f[x]
  <2>1. CASE x \in T
    <3>1. U \cup {x} = T
      BY <2>1
    <3> QED
      BY <1>4, <3>1
  <2>2. CASE x \notin T
    <3>1. U = T /\ f[x] = 0
      BY <2>2
    <3> HIDE DEF U
    <3> QED
      BY <1>4, <3>1
  <2> QED
    BY <2>1, <2>2
<1>6. PICK rest \in Int : rest = SumFunctionOnSet(f, U)
  BY <1>4
<1>7. PICK old \in Int : old = f[x]
  BY <1>1
<1>8. PICK new \in Int : new = g[x]
  BY <1>1
<1> HIDE DEF U
<1>9. /\ SumFunctionOnSet(f, T) = rest + old
      /\ SumFunctionOnSet(g, T \cup {x}) = rest + new
      /\ SumFunctionOnSet(g, U) = rest
  BY <1>2, <1>3, <1>4, <1>5, <1>6, <1>7, <1>8
<1> QED
  BY <1>7, <1>8, <1>9 DEF U

(***************************************************************************)
(* Money is conserved.                                                     *)
(***************************************************************************)

\* What is invested sums to an integer, and nothing is invested where nothing
\* is held.
LEMMA InvestedTyped ==
  ASSUME TradeInv
  PROVE  /\ Invested \in [Symbols -> Int] /\ IsFiniteSet(held) /\ held \in SUBSET Symbols
         /\ SumFunctionOnSet(Invested, held) \in Int
         /\ quote \in Int /\ dailyPnl \in Int /\ InitialBalance \in Int
         /\ \A s \in Symbols : s \notin held => Invested[s] = 0
<1>1. bpos \in [Symbols -> [qty : Nat, cost : Nat, fee : Nat]] /\ held \in SUBSET Symbols
      /\ quote \in Int /\ dailyPnl \in Int
  BY DEF TradeInv, BrokerTypeOK, RiskTypeOK
<1>2. Invested \in [Symbols -> Int]
  BY <1>1 DEF Invested
<1>3. IsFiniteSet(held)
  BY <1>1, MarketAssumption, FS_Subset
<1>4. \A s \in Symbols : s \notin held => Invested[s] = 0
  BY DEF TradeInv, BooksAgree, NoHolding, Invested
<1>5. SumFunctionOnSet(Invested, held) \in Int
  <2>1. SumFunctionOnSet([s \in held |-> Invested[s]], held) \in Int
    BY <1>1, <1>2, <1>3, SumTyped
  <2>2. SumFunctionOnSet(Invested, held) = SumFunctionOnSet([s \in held |-> Invested[s]], held)
    BY SumCongruent
  <2> QED
    BY <2>1, <2>2
<1> QED
  BY <1>1, <1>2, <1>3, <1>4, <1>5, BrokerAssumption

\* The same of what is invested in the symbols held.
LEMMA InvestmentChanges ==
  ASSUME NEW f \in [Symbols -> Int], NEW g \in [Symbols -> Int], NEW T \in SUBSET Symbols,
         NEW s \in Symbols, s \notin T => f[s] = 0, \A d \in Symbols \ {s} : g[d] = f[d]
  PROVE  /\ SumFunctionOnSet(g, T \cup {s}) = SumFunctionOnSet(f, T) - f[s] + g[s]
         /\ SumFunctionOnSet(g, T \ {s}) = SumFunctionOnSet(f, T) - f[s]
<1>1. IsFiniteSet(T)
  BY MarketAssumption, FS_Subset
<1> QED
  BY <1>1, SumChanges

\* The balance, what is invested, and less what was booked.
Worth == quote + SumFunctionOnSet(Invested, held) - dailyPnl

\* A fill takes from the balance what it invests.
LEMMA WorthAfterFill ==
  ASSUME TradeInv, NEW s \in Symbols, NEW qty \in Nat, NEW price \in Nat,
         BuyFills(s, qty, price), UNCHANGED dailyPnl
  PROVE  Worth' = Worth
<1>1. Ledger!Enter(s) /\ held' = held \cup {s}
  BY LedgerEnter DEF BuyFills
<1>2. Invested' = [Invested EXCEPT ![s] = Invested[s] + (quote - quote')]
  BY <1>1 DEF Ledger!Enter, Invested
<1>0. quote' \in Int /\ quote \in Int
  BY <1>1, InvestedTyped DEF Ledger!Enter
<1>3. PICK sum \in Int : sum = SumFunctionOnSet(Invested, held)
  BY InvestedTyped
<1>4. PICK was \in Int : was = Invested[s]
  BY InvestedTyped
<1>5. PICK spent \in Int : spent = quote - quote'
  <2>1. quote - quote' \in Int
    BY <1>0
  <2> QED
    BY <2>1
<1>6. PICK new \in Int : new = was + spent
  OBVIOUS
<1>7. SumFunctionOnSet(Invested', held') = sum - was + new
  <2>1. /\ Invested \in [Symbols -> Int] /\ held \in SUBSET Symbols /\ IsFiniteSet(held)
        /\ s \in Symbols /\ (s \notin held => Invested[s] = 0)
    BY InvestedTyped
  <2>2. /\ Invested' \in [Symbols -> Int] /\ Invested'[s] = new
        /\ \A d \in Symbols \ {s} : Invested'[d] = Invested[d]
    BY <1>2, <1>4, <1>5, <1>6, <2>1
  <2> QED
    BY ONLY <1>1, <1>3, <1>4, <2>1, <2>2, InvestmentChanges
<1>8. SumFunctionOnSet(Invested', held') = sum + spent
  BY <1>6, <1>7
<1> QED
  BY <1>0, <1>3, <1>5, <1>8, InvestedTyped DEF Worth

\* An exit books what it brings, less what was invested.
LEMMA WorthAfterExit ==
  ASSUME TradeInv, NEW s \in open, NEW price \in Nat, NEW now \in Times,
         ClosePosition(s, price, now)
  PROVE  Worth' = Worth
<1>1. Ledger!Exit(s) /\ s \in Symbols
  BY LedgerExit
<1>2. held' = held \ {s}
  BY <1>1 DEF ClosePosition, SellFills, TradeInv, BooksAgree, BrokerTypeOK
<1>3. /\ quote' >= quote /\ dailyPnl' = dailyPnl + (quote' - quote) - Invested[s]
      /\ Invested' = [Invested EXCEPT ![s] = 0]
  BY <1>1 DEF Ledger!Exit, Invested
<1>4. quote' \in Int
  BY ExitPays, InvestedTyped
<1>5. PICK sum \in Int : sum = SumFunctionOnSet(Invested, held)
  BY InvestedTyped
<1>6. PICK was \in Int : was = Invested[s]
  BY <1>1, InvestedTyped
<1>7. PICK gain \in Int : gain = quote' - quote
  BY <1>4, InvestedTyped
<1>8. SumFunctionOnSet(Invested', held') = sum - was
  <2>1. /\ Invested \in [Symbols -> Int] /\ held \in SUBSET Symbols /\ IsFiniteSet(held)
        /\ s \in Symbols /\ (s \notin held => Invested[s] = 0)
    BY <1>1, InvestedTyped
  <2>2. /\ Invested' \in [Symbols -> Int]
        /\ \A d \in Symbols \ {s} : Invested'[d] = Invested[d]
    BY <1>3, <2>1
  <2> QED
    BY ONLY <1>2, <1>5, <1>6, <2>1, <2>2, InvestmentChanges
<1>9. dailyPnl' = dailyPnl + gain - was
  BY <1>3, <1>6, <1>7
<1> QED
  BY <1>4, <1>5, <1>7, <1>8, <1>9, InvestedTyped DEF Worth

\* A step keeps the worth and forgets no error, or is an order that failed
\* half-way, which counts as an error.
Kept ==
  /\ errorCount' \in {errorCount, errorCount + 1}
  /\ Worth' = Worth \/ (errorCount' = errorCount + 1 /\ QuotedSymbols # Symbols)

\* What leaves the broker and the result of trades alone keeps the worth.
LEMMA WorthUnmoved ==
  ASSUME UNCHANGED <<brokerVars, dailyPnl>>
  PROVE  Worth' = Worth
  BY DEF brokerVars, Worth, Invested

\* A candle taken from the feed exits at most one position.
LEMMA WorthFeed ==
  ASSUME IInv, Feed
  PROVE  Kept
<1>0. TradeInv
  BY IInvParts, Zenon
<1>1. ASSUME UNCHANGED <<brokerVars, riskVars>> PROVE Kept
  BY <1>1, WorthUnmoved DEF riskVars, Kept
<1>2. ASSUME NEW c \in Candles, AdmitAndExit(c) PROVE Kept
  <2>1. c.symbol \in open /\ c.symbol \in Symbols /\ c.time \in Times
    BY <1>2 DEF AdmitAndExit, MustExit, Candles
  <2>2. ExitPrice(c) \in Nat
    BY <1>0, <2>1 DEF ExitPrice, TradeInv, Positions
  <2>3. CASE ClosePosition(c.symbol, ExitPrice(c), c.time)
    <3>1. UNCHANGED errorCount
      BY <2>3 DEF ClosePosition
    <3> QED
      BY <1>0, <2>1, <2>2, <2>3, <3>1, WorthAfterExit DEF Kept
  <2>4. CASE UNCHANGED <<brokerVars, riskVars>>
    BY <1>1, <2>4
  <2> QED
    BY <1>2, <2>3, <2>4 DEF AdmitAndExit
<1> QED
  BY <1>1, <1>2 DEF Feed, CandleWhileStopped, CandleUnderKillSwitch, DuplicateCandle, AdmitCandle

\* So does a signal, unless its order fails half-way.
LEMMA WorthSignal ==
  ASSUME TradeInv, FeedTypeOK, AtStrategy, NEW sig \in Signals, OnSignal(sig)
  PROVE  Kept
<1>1. current \in Candles /\ current.symbol \in Symbols /\ current.time \in Times
  BY DEF AtStrategy, Idle, FeedTypeOK, Candles
<1>2. sig.price \in Nat
  BY SignalsTyped, SignalFields
<1>3. ASSUME UNCHANGED <<brokerVars, dailyPnl, errorCount>> PROVE Kept
  BY <1>3, WorthUnmoved DEF Kept
<1>4. CASE SellWithoutPosition(sig) \/ LifecycleBlocked(sig) \/ RiskRejected(sig)
  BY <1>3, <1>4 DEF SellWithoutPosition, LifecycleBlocked, RiskRejected, riskVars
<1>5. CASE SellSignal(sig)
  <2>1. CASE ClosePosition(current.symbol, sig.price, current.time)
    <3>1. current.symbol \in open /\ UNCHANGED errorCount
      BY <1>5, <2>1 DEF SellSignal, PastLifecycle, ClosePosition
    <3> QED
      BY <1>1, <1>2, <2>1, <3>1, WorthAfterExit DEF Kept
  <2>2. CASE UNCHANGED <<brokerVars, riskVars>>
    BY <1>3, <2>2 DEF riskVars
  <2> QED
    BY <1>5, <2>1, <2>2 DEF SellSignal
<1>6. ASSUME NEW qty \in 0 .. MaxLots, OpenPosition(sig, qty) \/ ScaleIn(sig, qty)
      PROVE  Kept
  <2>1. BuyFills(current.symbol, qty, sig.price) /\ UNCHANGED <<dailyPnl, errorCount>>
    BY <1>6 DEF OpenPosition, ScaleIn, riskVars
  <2>2. qty \in Nat
    BY OrchestratorAssumption
  <2> QED
    BY <1>1, <1>2, <2>1, <2>2, WorthAfterFill DEF Kept
<1>7. ASSUME NEW qty \in 0 .. MaxLots, BuyOrderRejected(sig, qty) PROVE Kept
  BY <1>3, <1>7 DEF BuyOrderRejected, BuyRefused, riskVars
<1>8. ASSUME NEW qty \in 0 .. MaxLots, BuyExecutionError(sig, qty) PROVE Kept
  BY <1>1, <1>8 DEF BuyExecutionError, BuyRaises, RecordError, Kept
<1> QED
  BY <1>4, <1>5, <1>6, <1>7, <1>8 DEF OnSignal

\* The balance and what is invested add up to the initial balance and what was
\* won or lost, for any number of symbols and whatever order the fills, exits,
\* errors and interrupts come in.
THEOREM CashConserved == Spec => []CashIdentity
<1>1. Init => CashIdentity
  <2> SUFFICES ASSUME Init PROVE CashIdentity
    OBVIOUS
  <2>1. /\ quote = InitialBalance /\ held = {} /\ dailyPnl = 0
        /\ bpos = [s \in Symbols |-> NoHolding]
    BY DEF Init, BrokerInit, RiskInit
  <2>2. SumFunctionOnSet(Invested, {}) = 0
    BY DEF SumFunctionOnSet, FoldFunctionOnSet, MapThenFoldSet
  <2> QED
    BY <2>1, <2>2, BrokerAssumption DEF CashIdentity, Invested
<1>2. IInv /\ [Next]_vars => Kept
  <2> SUFFICES ASSUME IInv, [Next]_vars PROVE Kept
    OBVIOUS
  <2>0. TradeInv /\ FeedTypeOK
    BY IInvParts, Zenon
  <2>1. ASSUME UNCHANGED <<brokerVars, dailyPnl, errorCount>> PROVE Kept
    BY <2>1, WorthUnmoved DEF Kept
  <2>2. CASE Buffering \/ RegimeBlocked \/ NoSignal \/ Interrupt \/ UNCHANGED vars
    BY <2>1, <2>2 DEF Buffering, RegimeBlocked, NoSignal, Interrupt, vars, riskVars
  <2>3. CASE StrategyError
    BY <2>3, WorthUnmoved DEF StrategyError, RecordError, Kept
  <2>4. ASSUME NEW sig \in Signals, OnSignal(sig) PROVE Kept
    <3>1. AtStrategy
      BY <2>4 DEF OnSignal, SellWithoutPosition, LifecycleBlocked, RiskRejected, SellSignal,
                  OpenPosition, ScaleIn, BuyOrderRejected, BuyExecutionError, BuyApproved, PastLifecycle
    <3> QED
      BY <2>0, <2>4, <3>1, WorthSignal
  <2> QED
    BY <2>2, <2>3, <2>4, WorthFeed DEF Next, Pipeline
<1>3. IInv => (CashIdentity <=> (errorCount = 0 \/ QuotedSymbols = Symbols => Worth = InitialBalance))
  <2> SUFFICES ASSUME IInv
               PROVE  CashIdentity <=>
                        (errorCount = 0 \/ QuotedSymbols = Symbols => Worth = InitialBalance)
    OBVIOUS
  <2>1. TradeInv
    BY IInvParts, Zenon
  <2>2. PICK sum \in Int : sum = SumFunctionOnSet(Invested, held)
    BY <2>1, InvestedTyped
  <2>3. quote + sum = InitialBalance + dailyPnl <=> quote + sum - dailyPnl = InitialBalance
    BY <2>1, InvestedTyped
  <2> QED
    BY <2>2, <2>3 DEF CashIdentity, Worth, Invested
<1>4. IInv' => (CashIdentity <=> (errorCount = 0 \/ QuotedSymbols = Symbols => Worth = InitialBalance))'
  BY <1>3, PTL
<1>5. IInv /\ IInv' /\ CashIdentity /\ [Next]_vars => CashIdentity'
  <2> SUFFICES ASSUME IInv, IInv', CashIdentity, [Next]_vars PROVE CashIdentity'
    OBVIOUS
  <2>1. errorCount \in Nat
    BY DEF IInv, TypeOK, RiskTypeOK
  <2>2. Kept
    BY <1>2
  <2>3. errorCount' = 0 \/ QuotedSymbols = Symbols => Worth' = InitialBalance
    BY <1>3, <2>1, <2>2 DEF Kept
  <2> QED
    BY <1>4, <2>3
<1> QED
  BY <1>1, <1>5, InvariantHolds, PTL DEF Spec

(***************************************************************************)
(* What a step does to the positions.                                      *)
(***************************************************************************)

\* A signal fills one order of the candle's symbol, or none.
LEMMA SignalTrades ==
  ASSUME TradeInv, FeedTypeOK, NEW sig \in StrategySignals, OnSignal(sig)
  PROVE  \/ UNCHANGED <<open, pos, bpos, orders, openPositions, dailyPnl>>
         \/ /\ SellSignal(sig) /\ current.symbol \in open
            /\ ClosePosition(current.symbol, sig.price, current.time)
         \/ \E qty \in 0 .. MaxLots : OpenPosition(sig, qty) \/ ScaleIn(sig, qty)
<1>1. CASE SellWithoutPosition(sig) \/ LifecycleBlocked(sig) \/ RiskRejected(sig)
  BY <1>1 DEF SellWithoutPosition, LifecycleBlocked, RiskRejected, brokerVars, riskVars, bookVars
<1>2. CASE SellSignal(sig)
  BY <1>2 DEF SellSignal, PastLifecycle, brokerVars, riskVars, bookVars
<1>3. ASSUME NEW qty \in 0 .. MaxLots, BuyOrderRejected(sig, qty) \/ BuyExecutionError(sig, qty)
      PROVE  UNCHANGED <<open, pos, bpos, orders, openPositions, dailyPnl>>
  BY <1>3 DEF BuyOrderRejected, BuyRefused, BuyExecutionError, BuyRaises, brokerVars, riskVars,
              bookVars
<1> QED
  BY <1>1, <1>2, <1>3 DEF OnSignal

\* Any other step fills no order but the protective exit of its candle.
LEMMA OtherTrades ==
  ASSUME Feed \/ Buffering \/ RegimeBlocked \/ StrategyError \/ NoSignal \/ Interrupt
  PROVE  \/ UNCHANGED <<open, pos, quote, bpos, orders, openPositions, dailyPnl>>
         \/ \E c \in Candles :
              /\ AdmitAndExit(c) /\ c.symbol \in open /\ current' = c
              /\ ClosePosition(c.symbol, ExitPrice(c), c.time)
<1>1. ASSUME NEW c \in Candles, AdmitAndExit(c)
      PROVE  \/ UNCHANGED <<open, pos, quote, bpos, orders, openPositions, dailyPnl>>
             \/ /\ c.symbol \in open /\ current' = c
                /\ ClosePosition(c.symbol, ExitPrice(c), c.time)
  BY <1>1 DEF AdmitAndExit, MustExit, brokerVars, riskVars, bookVars
<1> QED
  BY <1>1 DEF Feed, CandleWhileStopped, CandleUnderKillSwitch, DuplicateCandle, AdmitCandle,
     Buffering, RegimeBlocked, StrategyError, NoSignal, Interrupt, brokerVars, riskVars, bookVars

\* A step of the orchestrator is one of those.
LEMMA StepTrades ==
  ASSUME IInv, [Next]_vars
  PROVE  \/ UNCHANGED <<open, pos, bpos, orders, openPositions, dailyPnl>>
         \/ \E c \in Candles :
              AdmitAndExit(c) /\ c.symbol \in open /\ ClosePosition(c.symbol, ExitPrice(c), c.time)
         \/ \E sig \in Signals :
              /\ SellSignal(sig) /\ current.symbol \in open
              /\ ClosePosition(current.symbol, sig.price, current.time)
         \/ \E sig \in Signals, qty \in 0 .. MaxLots : OpenPosition(sig, qty) \/ ScaleIn(sig, qty)
<1>0. TradeInv /\ FeedTypeOK
  BY IInvParts, Zenon
<1>1. ASSUME NEW sig \in Signals, OnSignal(sig)
      PROVE  \/ UNCHANGED <<open, pos, bpos, orders, openPositions, dailyPnl>>
             \/ /\ SellSignal(sig) /\ current.symbol \in open
                /\ ClosePosition(current.symbol, sig.price, current.time)
             \/ \E qty \in 0 .. MaxLots : OpenPosition(sig, qty) \/ ScaleIn(sig, qty)
  BY <1>0, <1>1, SignalsTyped, SignalTrades
<1>2. CASE \E sig \in Signals : OnSignal(sig)
  BY <1>1, <1>2
<1>3. CASE Feed \/ Buffering \/ RegimeBlocked \/ StrategyError \/ NoSignal \/ Interrupt
  BY <1>3, OtherTrades
<1>4. CASE UNCHANGED vars
  BY <1>4 DEF vars, brokerVars, riskVars, bookVars
<1> QED
  BY <1>2, <1>3, <1>4 DEF Next, Pipeline

(***************************************************************************)
(* The limit on open positions.                                            *)
(***************************************************************************)

\* A strategy that never scales in keeps within max_open_positions: its every
\* entry met a counter below the limit, and the counter counts the positions.
THEOREM ExposureWithinLimit ==
  ASSUME \A sig \in Signals : sig.action # "scale_in"
  PROVE  Spec => []ExposureCapped
<1>1. Init => ExposureCapped
  BY RiskAssumption, FS_EmptySet DEF Init, ExposureCapped
<1>2. IInv /\ ExposureCapped /\ [Next]_vars => ExposureCapped'
  <2> SUFFICES ASSUME IInv, ExposureCapped, [Next]_vars PROVE ExposureCapped'
    OBVIOUS
  <2>0. /\ TradeInv /\ IsFiniteSet(open) /\ Cardinality(open) \in Nat
        /\ openPositions = Cardinality(open) /\ MaxOpenPositions \in Nat
    BY IInvParts, MarketAssumption, RiskAssumption, FS_Subset, FS_CardinalityType
       DEF TradeInv, CounterAgrees
  <2>1. ASSUME open' \subseteq open PROVE ExposureCapped'
    <3>1. Cardinality(open') <= Cardinality(open) /\ Cardinality(open') \in Nat
      BY <2>0, <2>1, FS_Subset, FS_CardinalityType
    <3> QED
      BY <2>0, <3>1 DEF ExposureCapped
  <2>2. ASSUME NEW sig \in Signals, NEW qty \in 0 .. MaxLots, OpenPosition(sig, qty)
        PROVE  ExposureCapped'
    <3>1. openPositions < MaxOpenPositions
      BY <2>2 DEF OpenPosition, BuyApproved, SignalApproved, Approved, MaxOpenPositionsRule
    <3>2. open' = open \cup {current.symbol} /\ current.symbol \notin open
      BY <2>2 DEF OpenPosition
    <3>3. Cardinality(open') = Cardinality(open) + 1
      BY <2>0, <3>2, FS_AddElement
    <3> QED
      BY <2>0, <3>1, <3>3 DEF ExposureCapped
  <2>3. ASSUME NEW s \in open, NEW price, NEW now, ClosePosition(s, price, now)
        PROVE  open' \subseteq open
    BY <2>3 DEF ClosePosition, ForgetPosition
  <2> QED
    BY <2>1, <2>2, <2>3, StepTrades DEF ScaleIn
<1> QED
  BY <1>1, <1>2, InvariantHolds, PTL DEF Spec

(***************************************************************************)
(* Scale-ins.                                                              *)
(***************************************************************************)

\* A scale-in is of the position's own basket, at a level it does not hold.
LEMMA ScaleInAddsLevel ==
  ASSUME TradeInv, NEW sig \in StrategySignals, NEW qty \in 0 .. MaxLots, ScaleIn(sig, qty)
  PROVE  /\ current.symbol \in open /\ open' = open
         /\ pos' = [pos EXCEPT ![current.symbol] = ScaledPosition(pos[current.symbol], sig, qty)]
         /\ \A s \in Symbols \ {current.symbol} : pos'[s] = pos[s] /\ bpos'[s] = bpos[s]
         /\ IsBuy(sig) /\ IsGridScaleIn(sig)
         /\ sig.gridId = pos[current.symbol].gridId
         /\ sig.level \notin pos[current.symbol].levels
         /\ pos'[current.symbol].gridId = pos[current.symbol].gridId
         /\ pos'[current.symbol].levels = pos[current.symbol].levels \cup {sig.level}
<1> DEFINE s == current.symbol
<1>1. /\ s \in open /\ s \in Symbols /\ open' = open
      /\ pos' = [pos EXCEPT ![s] = ScaledPosition(pos[s], sig, qty)]
      /\ IsBuy(sig) /\ BuyAllowed(s, sig)
  BY DEF ScaleIn, BuyApproved, PastLifecycle, TradeInv
<1>2. IsGridScaleIn(sig) /\ sig.gridId = pos[s].gridId /\ sig.level \notin pos[s].levels
  BY <1>1 DEF BuyAllowed, ScaleInValid
<1>3. \A q \in Symbols \ {s} : pos'[q] = pos[q] /\ bpos'[q] = bpos[q]
  BY <1>1 DEF ScaleIn, BuyFills, TradeInv, BrokerTypeOK
<1>4. /\ ScaledPosition(pos[s], sig, qty).gridId = sig.gridId
      /\ ScaledPosition(pos[s], sig, qty).levels = pos[s].levels \cup {sig.level}
  BY DEF ScaledPosition, Refreshed
<1>5. pos'[s] = ScaledPosition(pos[s], sig, qty)
  BY <1>1 DEF TradeInv
<1> QED
  BY <1>1, <1>2, <1>3, <1>4, <1>5

\* A position that stays open keeps its basket, and every fill it takes is of a
\* level no earlier one took.
THEOREM LevelsBoughtOnce == Spec => LevelBoughtOnce
<1>1. IInv /\ [Next]_vars =>
        \A s \in open \cap open' :
          bpos'[s] # bpos[s] => /\ pos'[s].gridId = pos[s].gridId
                                /\ pos[s].levels \subseteq pos'[s].levels
                                /\ pos[s].levels # pos'[s].levels
  <2> SUFFICES ASSUME IInv, [Next]_vars, NEW s \in open \cap open', bpos'[s] # bpos[s]
               PROVE  /\ pos'[s].gridId = pos[s].gridId
                      /\ pos[s].levels \subseteq pos'[s].levels
                      /\ pos[s].levels # pos'[s].levels
    OBVIOUS
  <2>0. TradeInv /\ s \in Symbols /\ bpos \in [Symbols -> [qty : Nat, cost : Nat, fee : Nat]]
    BY IInvParts, Zenon DEF TradeInv, BrokerTypeOK
  <2>1. ASSUME NEW t \in open, NEW price, NEW now, ClosePosition(t, price, now) PROVE FALSE
    BY <2>0, <2>1 DEF ClosePosition, ForgetPosition, SellFills
  <2>2. ASSUME NEW sig \in Signals, NEW qty \in 0 .. MaxLots, OpenPosition(sig, qty) PROVE FALSE
    BY <2>0, <2>2 DEF OpenPosition, BuyFills
  <2>3. ASSUME NEW sig \in Signals, NEW qty \in 0 .. MaxLots, ScaleIn(sig, qty)
        PROVE  /\ pos'[s].gridId = pos[s].gridId
               /\ pos[s].levels \subseteq pos'[s].levels
               /\ pos[s].levels # pos'[s].levels
    <3>1. sig \in StrategySignals
      BY SignalsTyped
    <3>2. s = current.symbol
      BY <2>0, <2>3, <3>1, ScaleInAddsLevel
    <3> QED
      BY <2>0, <2>3, <3>1, <3>2, ScaleInAddsLevel
  <2> QED
    BY <2>1, <2>2, <2>3, StepTrades
<1> QED
  BY <1>1, InvariantHolds, PTL DEF Spec, LevelBoughtOnce

\* The equity of a candle is a number: a sum over the positions held.
LEMMA EquityTyped ==
  ASSUME TradeInv, FeedTypeOK
  PROVE  Equity \in Int
<1> DEFINE value == [s \in Symbols |-> bpos[s].qty * lastClose[s]]
<1>1. /\ bpos \in [Symbols -> [qty : Nat, cost : Nat, fee : Nat]]
      /\ held \in SUBSET Symbols /\ IsFiniteSet(held) /\ quote \in Int
  BY InvestedTyped DEF TradeInv, BrokerTypeOK
<1>2. \A s \in Symbols : value[s] \in Int
  <2>1. ASSUME NEW s \in Symbols PROVE bpos[s].qty * lastClose[s] \in Int
    <3>1. bpos[s].qty \in Nat /\ lastClose[s] \in Nat
      BY <1>1 DEF FeedTypeOK
    <3> QED
      BY <3>1, ProductNat
  <2> QED
    BY <2>1
<1>3. SumFunctionOnSet(value, held) \in Int
  <2> HIDE DEF value
  <2>1. [s \in held |-> value[s]] \in [held -> Int]
    BY <1>1, <1>2
  <2>2. SumFunctionOnSet([s \in held |-> value[s]], held) \in Int
    BY <1>1, <2>1, SumTyped
  <2>3. SumFunctionOnSet(value, held) = SumFunctionOnSet([s \in held |-> value[s]], held)
    BY SumCongruent
  <2> QED
    BY <2>2, <2>3
<1>4. Equity = quote + SumFunctionOnSet(value, held)
  BY DEF Equity, EquityAt
<1> QED
  BY <1>1, <1>3, <1>4

\* A scale-in that adds cost spends no more than the room the grid has left.
LEMMA ScaleInWithinRoom ==
  ASSUME TradeInv, FeedTypeOK, NEW sig \in StrategySignals, NEW qty \in 0 .. MaxLots,
         ScaleIn(sig, qty), pos'[current.symbol].cost > pos[current.symbol].cost
  PROVE  pos[current.symbol].cost + (quote - quote') <= (Equity * sig.allocation) \div 100
<1> DEFINE s == current.symbol
           ceiling == (Equity * sig.allocation) \div 100
           cost == BuyCost(qty, sig.price)
           total == BuyTotal(qty, sig.price)
<1>1. /\ s \in open /\ s \in Symbols /\ IsGridScaleIn(sig)
      /\ pos'[s] = ScaledPosition(pos[s], sig, qty)
  BY ScaleInAddsLevel DEF TradeInv
<1>2. qty \in Nat /\ sig.price \in Nat /\ sig.allocation \in Nat
  BY OrchestratorAssumption DEF StrategySignals
<1>3. PICK spent \in Nat : spent = total /\ cost \in Nat /\ cost <= spent
  <2>1. /\ cost \in Nat /\ FeeOf(cost) \in Nat /\ total \in Nat
        /\ total = cost + FeeOf(cost)
    BY <1>2, BuyNat
  <2> HIDE DEF cost, total
  <2> QED
    BY <2>1
<1>4. PICK top \in Int : top = ceiling
  BY <1>2, EquityTyped, SMT
<1>5. PICK was \in Nat : was = pos[s].cost
  BY <1>1 DEF TradeInv, Positions
<1>6. quote \in Int /\ quote' = quote - spent
  BY <1>3 DEF ScaleIn, BuyFills, TradeInv, BrokerTypeOK
<1>7. cost > 0
  <2>1. ScaledPosition(pos[s], sig, qty).cost = pos[s].cost + cost
    BY DEF ScaledPosition, Refreshed
  <2>2. was + cost > was
    BY <1>1, <1>5, <2>1
  <2> QED
    BY <1>3, <1>5, <2>2
<1>8. spent <= BuyBudget(s, sig)
  BY <1>3 DEF ScaleIn, BuyApproved, Sized
<1>9. PICK room \in Int : room = GridRoom(s, sig) /\ room = IF top > was THEN top - was ELSE 0
  BY <1>4, <1>5 DEF GridRoom
<1>10. spent <= room
  <2>1. PICK target \in Int : target = (Equity * sig.target) \div 100
    <3>1. sig.target \in Nat
      BY DEF StrategySignals
    <3> QED
      BY <3>1, EquityTyped, SMT
  <2>2. BuyBudget(s, sig) = Least(quote, Least(target, room))
    BY <1>1, <1>9, <2>1 DEF BuyBudget, IsGridScaleIn
  <2> QED
    BY <1>6, <1>8, <2>2, SMT DEF Least
<1>11. was + (quote - quote') <= top
  BY <1>3, <1>6, <1>7, <1>9, <1>10
<1> QED
  BY <1>4, <1>5, <1>11

\* No scale-in takes the cost of a basket, fees included, past the allocation
\* of the signal it executes.
THEOREM GridAllocationRespected == Spec => GridAllocationCapped
<1>1. IInv =>
        \A s \in open \cap open' : pos'[s].cost > pos[s].cost =>
          \A sig \in Signals, qty \in 0 .. MaxLots :
            ScaleIn(sig, qty) =>
              pos[s].cost + (quote - quote') <= (Equity * sig.allocation) \div 100
  <2> SUFFICES ASSUME IInv, NEW s \in open \cap open', pos'[s].cost > pos[s].cost,
                      NEW sig \in Signals, NEW qty \in 0 .. MaxLots, ScaleIn(sig, qty)
               PROVE  pos[s].cost + (quote - quote') <= (Equity * sig.allocation) \div 100
    OBVIOUS
  <2>1. TradeInv /\ FeedTypeOK /\ s \in Symbols /\ sig \in StrategySignals
    BY IInvParts, SignalsTyped, Zenon DEF TradeInv
  <2>2. s = current.symbol
    <3>1. pos[s].cost \in Nat
      BY <2>1 DEF TradeInv, Positions
    <3>2. \A q \in Symbols \ {current.symbol} : pos'[q] = pos[q]
      BY <2>1, ScaleInAddsLevel
    <3> QED
      BY <2>1, <3>1, <3>2
  <2> QED
    BY <2>1, <2>2, ScaleInWithinRoom
<1> QED
  BY <1>1, InvariantHolds, PTL DEF Spec, GridAllocationCapped

(***************************************************************************)
(* Stops and targets of the grid.                                          *)
(***************************************************************************)

\* What the integer quotient leaves out.
LEMMA QuotientBounds ==
  ASSUME NEW a \in Int, NEW b \in Nat, b > 0
  PROVE  /\ a \div b \in Int
         /\ (a \div b) * b <= a
         /\ a < (a \div b) * b + b
  BY SMT

\* The same of a percentage.
LEMMA PercentBounds ==
  ASSUME NEW a \in Int
  PROVE  /\ a \div 100 \in Int
         /\ (a \div 100) * 100 <= a
         /\ a < (a \div 100) * 100 + 100
  BY SMT

\* A factor keeps the order.
LEMMA ProductMono ==
  ASSUME NEW a \in Int, NEW b \in Int, NEW n \in Nat, a <= b
  PROVE  a * n \in Int /\ b * n \in Int /\ a * n <= b * n
  BY SMT

\* A positive factor can be taken out.
LEMMA ProductCancel ==
  ASSUME NEW a \in Int, NEW b \in Int, NEW n \in Nat, n > 0, a * n < b * n
  PROVE  a < b
  BY SMT

\* So does a positive divisor.
LEMMA QuotientMono ==
  ASSUME NEW a \in Int, NEW b \in Int, NEW n \in Nat, n > 0, a <= b
  PROVE  a \div n <= b \div n
<1> DEFINE x == a \div n
           y == b \div n
<1>1. x \in Int /\ y \in Int /\ x * n <= a /\ b < y * n + n
  BY QuotientBounds
<1> HIDE DEF x, y
<1>2. x * n < (y + 1) * n
  BY <1>1, SMT
<1>3. x < y + 1
  BY <1>1, <1>2, ProductCancel
<1> QED
  BY <1>1, <1>3 DEF x, y

\* A position whose stop and target are those of its average entry.
Anchored(p) ==
  /\ p.qty > 0
  /\ p.gridId # NoGrid => /\ p.stopLoss = GridStop(p.cost, p.qty)
                          /\ p.takeProfit = GridTarget(p.cost, p.qty)

StopsAnchored == \A s \in open : Anchored(pos[s])

\* Whatever stops a signal carries, a fill anchors them again.
LEMMA RefreshedAnchored ==
  ASSUME NEW p \in Positions, p.qty > 0
  PROVE  /\ Anchored(Refreshed(p))
         /\ Refreshed(p).gridId = p.gridId /\ Refreshed(p).levels = p.levels
<1>1. CASE p.gridId = NoGrid
  BY <1>1 DEF Refreshed, Anchored
<1>2. CASE p.gridId # NoGrid
  <2>1. Refreshed(p) = [p EXCEPT !.stopLoss = GridStop(p.cost, p.qty),
                                 !.takeProfit = GridTarget(p.cost, p.qty)]
    BY <1>2 DEF Refreshed
  <2>2. /\ Refreshed(p).qty = p.qty /\ Refreshed(p).cost = p.cost
        /\ Refreshed(p).gridId = p.gridId /\ Refreshed(p).levels = p.levels
        /\ Refreshed(p).stopLoss = GridStop(p.cost, p.qty)
        /\ Refreshed(p).takeProfit = GridTarget(p.cost, p.qty)
    BY <2>1 DEF Positions
  <2> QED
    BY <2>2 DEF Anchored
<1> QED
  BY <1>1, <1>2

\* A first fill is of at least one lot, and opens an anchored position.
LEMMA OpenedAnchored ==
  ASSUME TradeInv, FeedTypeOK, NEW sig \in StrategySignals, NEW qty \in 0 .. MaxLots,
         OpenPosition(sig, qty)
  PROVE  /\ current.symbol \in Symbols \ open /\ open' = open \cup {current.symbol} /\ qty > 0
         /\ \A s \in Symbols \ {current.symbol} : pos'[s] = pos[s]
         /\ pos'[current.symbol] = OpenedPosition(sig, qty)
         /\ Anchored(OpenedPosition(sig, qty))
         /\ OpenedPosition(sig, qty).gridId = sig.gridId
         /\ OpenedPosition(sig, qty).levels = IF sig.gridId = NoGrid THEN {} ELSE {sig.level}
         /\ OpenedPosition(sig, qty).qty = qty
         /\ OpenedPosition(sig, qty).cost = BuyCost(qty, sig.price)
<1> DEFINE s == current.symbol
<1>1. s \in Symbols /\ s \notin open /\ open' = open \cup {s}
      /\ pos' = [pos EXCEPT ![s] = OpenedPosition(sig, qty)]
  <2>1. current \in Candles
    BY DEF OpenPosition, BuyApproved, PastLifecycle, AtStrategy, Idle, FeedTypeOK
  <2> QED
    BY <2>1 DEF Candles, OpenPosition
<1>2. qty \in Nat /\ qty > 0
  BY <1>1, OrchestratorAssumption DEF OpenPosition, BuyApproved, Sized
<1>3. BuyCost(qty, sig.price) \in Nat /\ FeeOf(BuyCost(qty, sig.price)) \in Nat
  BY <1>2, SignalFields, BuyNat
<1>4. /\ Anchored(OpenedPosition(sig, qty))
      /\ OpenedPosition(sig, qty).gridId = sig.gridId
      /\ OpenedPosition(sig, qty).levels = IF sig.gridId = NoGrid THEN {} ELSE {sig.level}
      /\ OpenedPosition(sig, qty).qty = qty
      /\ OpenedPosition(sig, qty).cost = BuyCost(qty, sig.price)
  <2> DEFINE p == [ qty |-> qty, cost |-> BuyCost(qty, sig.price),
                    fee |-> FeeOf(BuyCost(qty, sig.price)),
                    stopLoss |-> sig.stopLoss, takeProfit |-> sig.takeProfit,
                    gridId |-> sig.gridId,
                    levels |-> IF sig.gridId = NoGrid THEN {} ELSE {sig.level} ]
  <2>1. p \in Positions
    BY <1>2, <1>3, SignalFields DEF Positions
  <2>2. OpenedPosition(sig, qty) = Refreshed(p)
    BY DEF OpenedPosition
  <2>3. /\ p.qty = qty /\ p.gridId = sig.gridId /\ p.cost = BuyCost(qty, sig.price)
        /\ p.levels = IF sig.gridId = NoGrid THEN {} ELSE {sig.level}
    OBVIOUS
  <2> HIDE DEF p
  <2> QED
    BY <1>2, <2>1, <2>2, <2>3, RefreshedAnchored, RefreshedPosition
<1> QED
  BY <1>1, <1>2, <1>4 DEF TradeInv

\* A scale-in anchors the stops to the new average.
LEMMA ScaledAnchored ==
  ASSUME TradeInv, StopsAnchored, NEW sig \in StrategySignals, NEW qty \in 0 .. MaxLots,
         ScaleIn(sig, qty)
  PROVE  /\ Anchored(pos'[current.symbol])
         /\ pos'[current.symbol].qty = pos[current.symbol].qty + qty
         /\ pos'[current.symbol].cost = pos[current.symbol].cost + BuyCost(qty, sig.price)
<1> DEFINE s == current.symbol
           p == [ qty |-> pos[s].qty + qty, cost |-> pos[s].cost + BuyCost(qty, sig.price),
                  fee |-> pos[s].fee + FeeOf(BuyCost(qty, sig.price)),
                  stopLoss |-> IF sig.stopLoss # 0 THEN sig.stopLoss ELSE pos[s].stopLoss,
                  takeProfit |-> IF sig.takeProfit # 0 THEN sig.takeProfit ELSE pos[s].takeProfit,
                  gridId |-> sig.gridId,
                  levels |-> pos[s].levels \cup {sig.level} ]
<1>1. /\ s \in open /\ s \in Symbols /\ qty \in Nat /\ pos[s] \in Positions
      /\ pos' = [pos EXCEPT ![s] = ScaledPosition(pos[s], sig, qty)]
  BY OrchestratorAssumption, ScaleInAddsLevel DEF TradeInv
<1>2. BuyCost(qty, sig.price) \in Nat /\ FeeOf(BuyCost(qty, sig.price)) \in Nat
  BY <1>1, SignalFields, BuyNat
<1>3. pos[s].qty \in Nat /\ pos[s].qty > 0
  BY <1>1 DEF StopsAnchored, Anchored, Positions
<1>4. p \in Positions
  BY <1>1, <1>2, <1>3, SignalFields DEF Positions
<1>5. p.qty > 0 /\ p.qty = pos[s].qty + qty /\ p.cost = pos[s].cost + BuyCost(qty, sig.price)
  BY <1>1, <1>3
<1>6. ScaledPosition(pos[s], sig, qty) = Refreshed(p)
  BY DEF ScaledPosition
<1>7. pos'[s] = ScaledPosition(pos[s], sig, qty)
  BY <1>1 DEF TradeInv
<1> HIDE DEF p
<1> QED
  BY <1>4, <1>5, <1>6, <1>7, RefreshedAnchored, RefreshedPosition

\* A position closed leaves the others as they were.
LEMMA ExitAnchored ==
  ASSUME TradeInv, StopsAnchored, NEW s \in open, NEW price, NEW now, ClosePosition(s, price, now)
  PROVE  StopsAnchored' /\ open' = open \ {s} /\ pos' = [pos EXCEPT ![s] = NoPosition]
BY DEF ClosePosition, ForgetPosition, StopsAnchored, TradeInv

\* Whatever the strategy signals, the stops stay anchored.
LEMMA SignalAnchored ==
  ASSUME TradeInv, FeedTypeOK, StopsAnchored, NEW sig \in StrategySignals, OnSignal(sig)
  PROVE  StopsAnchored'
<1>1. CASE ClosePosition(current.symbol, sig.price, current.time) /\ current.symbol \in open
  BY <1>1, ExitAnchored
<1>2. ASSUME NEW qty \in 0 .. MaxLots, OpenPosition(sig, qty)
      PROVE  StopsAnchored'
  <2>1. /\ open' = open \cup {current.symbol} /\ Anchored(pos'[current.symbol])
        /\ \A s \in Symbols \ {current.symbol} : pos'[s] = pos[s]
    BY <1>2, OpenedAnchored
  <2> QED
    BY <2>1 DEF StopsAnchored, TradeInv
<1>3. ASSUME NEW qty \in 0 .. MaxLots, ScaleIn(sig, qty)
      PROVE  StopsAnchored'
  BY <1>3, ScaleInAddsLevel, ScaledAnchored DEF StopsAnchored, TradeInv
<1> QED
  BY <1>1, <1>2, <1>3, SignalTrades DEF StopsAnchored

\* So do they in any other step.
LEMMA OtherAnchored ==
  ASSUME TradeInv, StopsAnchored,
         Feed \/ Buffering \/ RegimeBlocked \/ StrategyError \/ NoSignal \/ Interrupt
  PROVE  StopsAnchored'
<1>1. ASSUME NEW s \in open, NEW price, NEW now, ClosePosition(s, price, now)
      PROVE  StopsAnchored'
  BY <1>1, ExitAnchored
<1> QED
  BY <1>1, OtherTrades DEF StopsAnchored

\* Every step keeps the stops anchored.
LEMMA AnchoredStep == IInv /\ StopsAnchored /\ [Next]_vars => StopsAnchored'
<1> SUFFICES ASSUME IInv, StopsAnchored, [Next]_vars PROVE StopsAnchored'
  OBVIOUS
<1>0. TradeInv /\ FeedTypeOK
  BY IInvParts, Zenon
<1>1. ASSUME NEW sig \in Signals, OnSignal(sig) PROVE StopsAnchored'
  BY <1>0, <1>1, SignalsTyped, SignalAnchored
<1>2. CASE Feed \/ Buffering \/ RegimeBlocked \/ StrategyError \/ NoSignal \/ Interrupt
  BY <1>0, <1>2, OtherAnchored
<1>3. CASE UNCHANGED vars
  BY <1>3 DEF vars, bookVars, StopsAnchored
<1> QED
  BY <1>1, <1>2, <1>3 DEF Next, Pipeline

\* What is sold at or above the stop brings the share of the cost the stop
\* stands for, less the slippage, but for two units a lot of rounding.
LEMMA SaleAtStop ==
  ASSUME NEW p \in Positions, Anchored(p), NEW price \in Nat,
         price >= GridStop(p.cost, p.qty)
  PROVE  /\ SellGain(p.qty, price) \in Nat /\ StopProceeds(p) \in Int
         /\ StopProceeds(p) <= SellGain(p.qty, price)
<1>1. PICK keep \in Nat : keep = 100 - SlippagePct /\ keep <= 100
  BY BrokerAssumption
<1>2. PICK c, q \in Nat : c = p.cost /\ q = p.qty /\ q > 0
  BY DEF Positions, Anchored
<1>3. PICK k \in Nat : k = c * (100 - GridStopPct)
  BY OrchestratorAssumption, ProductNat
<1>4. PICK stop \in Int : stop = k \div (100 * q)
  BY <1>2
<1>5. k < stop * (100 * q) + 100 * q /\ price >= stop
  BY <1>2, <1>3, <1>4, QuotientBounds DEF GridStop
<1>6. PICK left \in Int : left = k \div 100
  OBVIOUS
<1>7. left * 100 <= k
  BY <1>3, <1>6, PercentBounds
<1>8. PICK paid \in Nat : paid = price * q
  BY ProductNat
<1>9. left < paid + q
  <2>1. stop * q \in Int /\ stop * (100 * q) = 100 * (stop * q) /\ stop * q <= price * q
    BY <1>2, <1>4, <1>5, SMT
  <2>2. PICK worth \in Int : worth = stop * q
    BY <2>1
  <2>3. k < 100 * worth + 100 * q /\ worth <= paid
    BY <1>5, <1>8, <2>1, <2>2
  <2> QED
    BY <1>7, <2>3
<1>10. PICK x \in Nat : x = price * keep
  BY <1>1, ProductNat
<1>11. PICK fill \in Int : fill = x \div 100
  OBVIOUS
<1>12. x < fill * 100 + 100 /\ fill \in Nat
  BY <1>10, <1>11, PercentBounds
<1>13. PICK gain \in Nat : gain = fill * q
  BY <1>12, ProductNat
<1>14. PICK y \in Int : y = left * keep
  BY <1>1
<1>15. PICK rest \in Int : rest = y \div 100
  BY <1>14
<1>16. rest * 100 <= y
  BY <1>14, <1>15, PercentBounds
<1>17. PICK z \in Nat : z = paid * keep
  BY <1>1, ProductNat
<1>18. z <= 100 * gain + 100 * q
  <2>1. x * q = paid * keep
    <3>1. (price * keep) * q = (price * q) * keep
      BY <1>1, <1>2, SMT
    <3> QED
      BY <1>8, <1>10, <3>1
  <2>2. x * q <= (fill * 100 + 100) * q
    BY <1>2, <1>10, <1>12, ProductMono, SMT
  <2>3. (fill * 100 + 100) * q = 100 * (fill * q) + 100 * q
    BY <1>2, <1>12, SMT
  <2> QED
    BY <1>13, <1>17, <2>1, <2>2, <2>3
<1>19. y <= z + 100 * q
  <2>1. left * keep <= (paid + q) * keep
    BY <1>1, <1>2, <1>9, ProductMono, SMT
  <2>2. (paid + q) * keep = paid * keep + q * keep
    BY <1>1, <1>2, SMT
  <2>3. q * keep <= 100 * q /\ q * keep \in Nat
    BY <1>1, <1>2, ProductNat, SMT
  <2> QED
    BY <1>14, <1>17, <2>1, <2>2, <2>3
<1>20. rest - 2 * q <= gain
  BY <1>2, <1>13, <1>14, <1>15, <1>16, <1>17, <1>18, <1>19
<1>21. StopProceeds(p) = rest - 2 * q
  BY <1>1, <1>2, <1>3, <1>6, <1>14, <1>15 DEF StopProceeds
<1>22. SellGain(p.qty, price) = gain
  BY <1>1, <1>2, <1>10, <1>11, <1>13 DEF SellGain, FillPrice
<1> QED
  BY <1>2, <1>13, <1>15, <1>20, <1>21, <1>22

\* A larger amount is larger after its fee, but for the rounding of the fee.
LEMMA LessFee ==
  ASSUME NEW a \in Nat, NEW b \in Int, b <= a
  PROVE  a - FeeOf(a) >= b - FeeOf(b) - 1
<1>0. PICK fee \in Nat : fee = FeePct /\ 100 - fee \in Nat
  BY BrokerAssumption
<1>1. /\ a * fee \in Int /\ b * fee \in Int
      /\ a * (100 - fee) = 100 * a - a * fee
      /\ b * (100 - fee) = 100 * b - b * fee
  BY <1>0, SMT
<1>2. b * (100 - fee) <= a * (100 - fee)
  BY <1>0, ProductMono
<1>3. PICK u, v \in Int : u = (a * fee) \div 100 /\ v = (b * fee) \div 100
  BY <1>1
<1>4. u * 100 <= a * fee /\ b * fee < v * 100 + 100
  BY <1>1, <1>3, PercentBounds
<1>5. a - u >= b - v - 1
  BY <1>1, <1>2, <1>3, <1>4
<1> QED
  BY <1>0, <1>3, <1>5 DEF FeeOf

\* So the sale brings at least what the property asks.
LEMMA ProceedsBound ==
  ASSUME NEW p \in Positions, Anchored(p), NEW price \in Nat,
         price >= GridStop(p.cost, p.qty)
  PROVE  SellNet(p.qty, price) >= StopProceeds(p) - FeeOf(StopProceeds(p)) - 1
  BY SaleAtStop, LessFee DEF SellNet

\* A target is never below the stop.
LEMMA TargetAboveStop ==
  ASSUME NEW c \in Nat, NEW q \in Nat, q > 0
  PROVE  GridStop(c, q) <= GridTarget(c, q)
<1> DEFINE lo == c * (100 - GridStopPct)
           hi == c * (100 + GridTargetPct) + 100 * q - 1
<1>1. 100 - GridStopPct \in Nat /\ 100 + GridTargetPct \in Nat
      /\ 100 - GridStopPct <= 100 + GridTargetPct
  BY OrchestratorAssumption
<1>2. (100 - GridStopPct) * c <= (100 + GridTargetPct) * c
  BY <1>1, ProductMono
<1>3. c * (100 - GridStopPct) \in Nat /\ c * (100 + GridTargetPct) \in Nat
      /\ c * (100 - GridStopPct) <= c * (100 + GridTargetPct)
  BY <1>1, <1>2, ProductNat, SMT
<1>4. lo \in Int /\ hi \in Int /\ lo <= hi /\ 100 * q \in Nat /\ 100 * q > 0
  BY <1>3
<1> HIDE DEF lo, hi
<1>5. lo \div (100 * q) <= hi \div (100 * q)
  BY <1>4, QuotientMono
<1> QED
  BY <1>5 DEF GridStop, GridTarget, lo, hi

\* A basket closed by its stop or its target returns at least its average entry
\* less the stop's share, the slippage and the fee of the sale, however many
\* fills moved the average.
THEOREM GridLossIsBounded == Spec => GridLossBounded
<1>1. Init => StopsAnchored
  BY DEF Init, StopsAnchored
<1>2. IInv /\ StopsAnchored /\ [Next]_vars =>
        (Idle => \A s \in open \ open' :
           pos[s].gridId # NoGrid =>
             quote' - quote >= StopProceeds(pos[s]) - FeeOf(StopProceeds(pos[s])) - 1)
  <2> SUFFICES ASSUME IInv, StopsAnchored, [Next]_vars, Idle, NEW s \in open \ open',
                      pos[s].gridId # NoGrid
               PROVE  quote' - quote >= StopProceeds(pos[s]) - FeeOf(StopProceeds(pos[s])) - 1
    OBVIOUS
  <2>0. TradeInv /\ s \in Symbols /\ pos[s] \in Positions /\ Anchored(pos[s]) /\ quote \in Nat
    BY IInvParts, Zenon DEF TradeInv, StopsAnchored, BrokerTypeOK
  <2>1. \E c \in Candles :
          AdmitAndExit(c) /\ c.symbol \in open /\ ClosePosition(c.symbol, ExitPrice(c), c.time)
    BY <2>0, StepTrades DEF SellSignal, OpenPosition, ScaleIn, BuyApproved, PastLifecycle, AtStrategy
  <2>2. PICK c \in Candles :
          AdmitAndExit(c) /\ c.symbol \in open /\ ClosePosition(c.symbol, ExitPrice(c), c.time)
    BY <2>1
  <2>3. c.symbol = s /\ c.time \in Times
    BY <2>2 DEF ClosePosition, ForgetPosition, Candles
  <2>4. /\ ExitPrice(c) \in Nat
        /\ ExitPrice(c) = GridStop(pos[s].cost, pos[s].qty)
           \/ ExitPrice(c) = GridTarget(pos[s].cost, pos[s].qty)
    BY <2>0, <2>3 DEF ExitPrice, Anchored, Positions
  <2>5. /\ pos[s].cost \in Nat /\ pos[s].qty \in Nat /\ pos[s].qty > 0
        /\ pos[s].stopLoss \in Nat /\ pos[s].takeProfit \in Nat
    BY <2>0 DEF Positions, Anchored
  <2>6. /\ GridStop(pos[s].cost, pos[s].qty) <= GridTarget(pos[s].cost, pos[s].qty)
        /\ GridStop(pos[s].cost, pos[s].qty) \in Nat
    BY <2>0, <2>5, TargetAboveStop DEF Anchored
  <2>7. ExitPrice(c) >= GridStop(pos[s].cost, pos[s].qty)
    BY <2>4, <2>6
  <2>8. quote' = quote + SellNet(pos[s].qty, ExitPrice(c)) /\ SellNet(pos[s].qty, ExitPrice(c)) \in Nat
    BY <2>0, <2>2, <2>3, <2>4, ExitPays
  <2>9. SellNet(pos[s].qty, ExitPrice(c)) >= StopProceeds(pos[s]) - FeeOf(StopProceeds(pos[s])) - 1
    BY <2>0, <2>4, <2>7, ProceedsBound
  <2> QED
    BY <2>0, <2>8, <2>9
<1> QED
  BY <1>1, <1>2, AnchoredStep, InvariantHolds, PTL DEF Spec, GridLossBounded

(***************************************************************************)
(* The grid and its database.                                              *)
(***************************************************************************)

(***************************************************************************)
(* The inductive invariant of the grid trader.                             *)
(***************************************************************************)

StrategyTypeOK ==
  /\ bars \in [Symbols -> Nat]
  /\ inBasket \in [Symbols -> BOOLEAN]
  /\ sequence \in [Symbols -> GridIds \cup {NoGrid}]
  /\ filled \in [Symbols -> SUBSET GridLevels]
  /\ allocated \in [Symbols -> 0 .. MaxAllocation]
  /\ lastSignal \in [Symbols -> Int]
  /\ nextOpen \in [Symbols -> Nat]
  /\ emitted \in StrategySignals \cup {Silent}

\* The strategy in a basket has numbered it, and knows its deepest level.
BasketsOpened ==
  \A s \in Symbols : inBasket[s] =>
    /\ sequence[s] \in GridIds
    /\ \E top \in filled[s] : \A l \in filled[s] : l <= top

\* The signal the candle is waiting for is of the strategy's current basket, and
\* an entry is of a level the strategy counts as filled.
EmittedFollows ==
  emitted # Silent /\ ~Idle =>
    /\ emitted.price \in Prices
    /\ emitted.gridId = sequence[current.symbol]
    /\ emitted.gridId # NoGrid
    /\ emitted.allocation = MaxAllocation
    /\ IsBuy(emitted) => emitted.level \in filled[current.symbol]

StrategyInv == StrategyTypeOK /\ BasketsOpened /\ EmittedFollows

GridInv == IInv /\ StopsAnchored /\ StrategyInv /\ PositionFollowsStrategy

(***************************************************************************)
(* A bar of the strategy.                                                  *)
(***************************************************************************)

\* What a bar leaves: a signal of the basket it ends in, and no basket or level
\* forgotten.
BarKeeps(s) ==
  /\ StrategyTypeOK' /\ BasketsOpened'
  /\ emitted' # Silent =>
       /\ emitted'.price \in Prices
       /\ emitted'.gridId = sequence'[s]
       /\ emitted'.gridId # NoGrid /\ emitted'.allocation = MaxAllocation
       /\ IsBuy(emitted') => emitted'.level \in filled'[s]
  /\ \A t \in Symbols : /\ sequence[t] <= sequence'[t]
                        /\ sequence'[t] = sequence[t] => filled[t] \subseteq filled'[t]

\* Silent is no signal.
LEMMA SilentIsNone == Silent \notin StrategySignals /\ MaxAllocation \in Nat /\ 0 \in GridLevels
                      /\ LevelPct \in [GridLevels -> Nat] /\ StopCooldownBars \in Nat
                      /\ GridLevels \subseteq Nat /\ GridIds \subseteq Nat \ {0}
                      /\ Prices \subseteq Nat \ {0} /\ MaxAllocation \in 0 .. 100
  BY GridAssumption, MarketAssumption

\* What is left of the allocation is a natural number, and so is an order of it.
LEMMA OrderTyped ==
  ASSUME NEW level \in GridLevels, NEW spent \in 0 .. MaxAllocation
  PROVE  /\ Least(LevelPct[level], MaxAllocation - spent) \in Nat
         /\ spent + Least(LevelPct[level], MaxAllocation - spent) \in 0 .. MaxAllocation
<1>1. LevelPct[level] \in Nat /\ MaxAllocation \in Nat
  BY SilentIsNone
<1> QED
  BY <1>1 DEF Least

\* The numbers of the strategy are naturals.
LEMMA SequenceNat ==
  ASSUME StrategyTypeOK, NEW s \in Symbols
  PROVE  sequence[s] \in Nat /\ (sequence[s] # NoGrid => sequence[s] \in GridIds)
<1>1. sequence[s] \in GridIds \cup {NoGrid}
  BY DEF StrategyTypeOK
<1> QED
  BY <1>1, SilentIsNone DEF NoGrid

\* Each of the strategy's moves keeps what a bar keeps.
LEMMA CloseKeeps ==
  ASSUME StrategyTypeOK, BasketsOpened, NEW s \in Symbols, NEW price \in Prices,
         NEW action \in {"stop_exit", "take_profit"},
         CloseBasket(s, action, price), bars' \in [Symbols -> Nat]
  PROVE  BarKeeps(s)
<1>1. PICK top \in filled[s] : \A l \in filled[s] : l <= top
  BY DEF CloseBasket, BasketsOpened
<1> DEFINE deepest == CHOOSE l \in filled[s] : \A m \in filled[s] : m <= l
           sig == GridSignalOf("SELL", action, sequence[s], deepest, price, 0, allocated[s])
<1>2. deepest \in GridLevels /\ sequence[s] \in GridIds /\ allocated[s] \in Nat
  <2>1. deepest \in filled[s]
    BY <1>1
  <2>2. filled[s] \subseteq GridLevels /\ allocated[s] \in 0 .. MaxAllocation
    BY DEF StrategyTypeOK
  <2> QED
    BY <2>1, <2>2 DEF CloseBasket, BasketsOpened
<1>3. /\ emitted' = sig /\ lastSignal' = [lastSignal EXCEPT ![s] = bars[s]]
      /\ inBasket' = [inBasket EXCEPT ![s] = FALSE]
      /\ UNCHANGED <<sequence, filled, allocated>>
      /\ nextOpen' = IF action = "stop_exit" THEN [nextOpen EXCEPT ![s] = bars[s] + StopCooldownBars]
                                             ELSE nextOpen
  BY DEF CloseBasket, Emits
<1> HIDE DEF deepest
<1>4. /\ sig \in StrategySignals /\ sig.price \in Prices /\ sig.gridId = sequence[s]
      /\ sig.gridId # NoGrid /\ sig.type = "SELL" /\ sig.allocation = MaxAllocation
  BY <1>2, SilentIsNone DEF GridSignalOf, StrategySignals, NoGrid
<1> HIDE DEF sig
<1>5. bars[s] \in Nat /\ bars[s] + StopCooldownBars \in Nat
  BY SilentIsNone DEF StrategyTypeOK
<1>6. /\ lastSignal' \in [Symbols -> Int] /\ nextOpen' \in [Symbols -> Nat]
      /\ inBasket' \in [Symbols -> BOOLEAN]
  BY <1>3, <1>5 DEF StrategyTypeOK
<1>7. StrategyTypeOK'
  BY <1>3, <1>4, <1>6, Zenon DEF StrategyTypeOK
<1>8. BasketsOpened'
  BY <1>3 DEF BasketsOpened, StrategyTypeOK
<1>9. \A t \in Symbols : sequence[t] <= sequence'[t] /\ filled[t] \subseteq filled'[t]
  BY <1>3, SequenceNat
<1>10. ~IsBuy(emitted') /\ emitted'.price \in Prices /\ emitted'.gridId = sequence'[s]
       /\ emitted'.gridId # NoGrid /\ emitted'.allocation = MaxAllocation
  BY <1>3, <1>4 DEF IsBuy
<1> QED
  BY <1>7, <1>8, <1>9, <1>10 DEF BarKeeps

\* A scale-in fills a level of the basket, and may be its deepest.
LEMMA ScaleKeeps ==
  ASSUME StrategyTypeOK, BasketsOpened, NEW s \in Symbols, NEW level \in GridLevels,
         NEW price \in Prices, ScaleBasket(s, level, price), bars' \in [Symbols -> Nat]
  PROVE  BarKeeps(s)
<1> DEFINE order == Least(LevelPct[level], MaxAllocation - allocated[s])
           sig == GridSignalOf("BUY", "scale_in", sequence[s], level, price, order,
                               allocated[s] + order)
<1>1. PICK top \in filled[s] : \A l \in filled[s] : l <= top
  BY DEF ScaleBasket, BasketsOpened
<1>2. /\ sequence[s] \in GridIds /\ allocated[s] \in 0 .. MaxAllocation
      /\ order \in Nat /\ allocated[s] + order \in 0 .. MaxAllocation
  BY OrderTyped DEF ScaleBasket, BasketsOpened, StrategyTypeOK
<1>3. /\ emitted' = sig /\ lastSignal' = [lastSignal EXCEPT ![s] = bars[s]]
      /\ filled' = [filled EXCEPT ![s] = filled[s] \cup {level}]
      /\ allocated' = [allocated EXCEPT ![s] = allocated[s] + order]
      /\ UNCHANGED <<inBasket, sequence, nextOpen>>
  BY DEF ScaleBasket, Emits
<1> HIDE DEF order
<1>4. allocated[s] + order \in Nat
  BY <1>2, SilentIsNone
<1>5. /\ sig \in StrategySignals /\ sig.price \in Prices /\ sig.gridId = sequence[s]
      /\ sig.gridId # NoGrid /\ sig.type = "BUY" /\ sig.level = level
      /\ sig.allocation = MaxAllocation
  BY <1>2, <1>4, SilentIsNone DEF GridSignalOf, StrategySignals, NoGrid
<1> HIDE DEF sig
<1>6. /\ lastSignal' \in [Symbols -> Int] /\ allocated' \in [Symbols -> 0 .. MaxAllocation]
      /\ filled' \in [Symbols -> SUBSET GridLevels]
  BY <1>2, <1>3 DEF StrategyTypeOK
<1>7. StrategyTypeOK'
  BY <1>3, <1>5, <1>6, Zenon DEF StrategyTypeOK
<1>8. /\ filled'[s] = filled[s] \cup {level} /\ filled[s] \subseteq GridLevels
      /\ \A t \in Symbols \ {s} : filled'[t] = filled[t]
  BY <1>3 DEF StrategyTypeOK
<1>9. \E deepest \in filled'[s] : \A l \in filled'[s] : l <= deepest
  <2>1. top \in Nat /\ level \in Nat /\ \A l \in filled[s] : l \in Nat
    BY <1>1, <1>8, SilentIsNone
  <2>2. CASE top <= level
    BY <1>1, <1>8, <2>1, <2>2
  <2>3. CASE level <= top
    BY <1>1, <1>8, <2>1, <2>3
  <2> QED
    BY <2>1, <2>2, <2>3
<1>10. BasketsOpened'
  BY <1>3, <1>8, <1>9 DEF BasketsOpened
<1>11. \A t \in Symbols : sequence[t] <= sequence'[t] /\ filled[t] \subseteq filled'[t]
  BY <1>3, <1>8, SequenceNat
<1>12. emitted'.level \in filled'[s] /\ emitted'.price \in Prices /\ emitted'.gridId = sequence'[s]
       /\ emitted'.gridId # NoGrid /\ emitted'.allocation = MaxAllocation
  BY <1>3, <1>5, <1>8
<1> QED
  BY <1>7, <1>10, <1>11, <1>12 DEF BarKeeps

\* A new basket has a number of its own, and starts with the base order.
LEMMA OpenKeeps ==
  ASSUME StrategyTypeOK, BasketsOpened, NEW s \in Symbols, NEW price \in Prices,
         OpenBasket(s, price), bars' \in [Symbols -> Nat]
  PROVE  BarKeeps(s)
<1> DEFINE order == Least(LevelPct[0], MaxAllocation)
           sig == GridSignalOf("BUY", "open", sequence[s] + 1, 0, price, order, order)
<1>1. order \in Nat /\ order \in 0 .. MaxAllocation
  <2>1. LevelPct[0] \in Nat /\ MaxAllocation \in Nat
    BY SilentIsNone
  <2> QED
    BY <2>1 DEF Least
<1>2. /\ emitted' = sig /\ lastSignal' = [lastSignal EXCEPT ![s] = bars[s]]
      /\ inBasket' = [inBasket EXCEPT ![s] = TRUE]
      /\ sequence' = [sequence EXCEPT ![s] = sequence[s] + 1]
      /\ filled' = [filled EXCEPT ![s] = {0}]
      /\ allocated' = [allocated EXCEPT ![s] = order]
      /\ nextOpen' = nextOpen /\ sequence[s] + 1 \in GridIds
  BY DEF OpenBasket, Emits
<1> HIDE DEF order
<1>3. /\ sig \in StrategySignals /\ sig.price \in Prices /\ sig.gridId = sequence[s] + 1
      /\ sig.gridId # NoGrid /\ sig.level = 0 /\ sig.allocation = MaxAllocation
  BY <1>1, <1>2, SilentIsNone DEF GridSignalOf, StrategySignals, NoGrid
<1> HIDE DEF sig
<1>4. /\ lastSignal' \in [Symbols -> Int] /\ allocated' \in [Symbols -> 0 .. MaxAllocation]
      /\ sequence' \in [Symbols -> GridIds \cup {NoGrid}]
      /\ inBasket' \in [Symbols -> BOOLEAN]
  BY <1>1, <1>2 DEF StrategyTypeOK
<1>5. filled' \in [Symbols -> SUBSET GridLevels]
  BY <1>2, SilentIsNone DEF StrategyTypeOK
<1>6. StrategyTypeOK'
  BY <1>2, <1>3, <1>4, <1>5, Zenon DEF StrategyTypeOK
<1>7. /\ filled'[s] = {0} /\ sequence'[s] = sequence[s] + 1
      /\ \A t \in Symbols \ {s} : /\ filled'[t] = filled[t] /\ sequence'[t] = sequence[t]
                                  /\ inBasket'[t] = inBasket[t]
  BY <1>2 DEF StrategyTypeOK
<1>8. BasketsOpened'
  BY <1>2, <1>7 DEF BasketsOpened
<1>9. \A t \in Symbols : /\ sequence[t] <= sequence'[t]
                         /\ sequence'[t] = sequence[t] => filled[t] \subseteq filled'[t]
  BY <1>7, SequenceNat
<1>10. emitted'.level \in filled'[s] /\ emitted'.price \in Prices /\ emitted'.gridId = sequence'[s]
       /\ emitted'.gridId # NoGrid /\ emitted'.allocation = MaxAllocation
  BY <1>2, <1>3, <1>7
<1> QED
  BY <1>6, <1>8, <1>9, <1>10 DEF BarKeeps

\* The bar of a candle.
LEMMA BarStep ==
  ASSUME StrategyTypeOK, BasketsOpened, NEW c \in Candles, StrategyBar(c)
  PROVE  BarKeeps(c.symbol)
<1>0. c.symbol \in Symbols /\ c.close \in Prices
  BY DEF Candles
<1>1. bars' \in [Symbols -> Nat]
  BY <1>0 DEF StrategyBar, StrategyTypeOK
<1>2. CASE Quiet
  <2>1. emitted' = Silent
        /\ UNCHANGED <<inBasket, sequence, filled, allocated, nextOpen, lastSignal>>
    BY <1>2 DEF Quiet, basketVars
  <2>2. StrategyTypeOK'
    BY <1>1, <2>1, Zenon DEF StrategyTypeOK
  <2> QED
    BY <2>1, <2>2, SequenceNat DEF BarKeeps, BasketsOpened
<1>3. ASSUME NEW price \in Prices,
             CloseBasket(c.symbol, "stop_exit", price) \/ CloseBasket(c.symbol, "take_profit", price)
      PROVE  BarKeeps(c.symbol)
  BY <1>0, <1>1, <1>3, CloseKeeps
<1>4. ASSUME NEW level \in GridLevels, NEW price \in Prices, ScaleBasket(c.symbol, level, price)
      PROVE  BarKeeps(c.symbol)
  BY <1>0, <1>1, <1>4, ScaleKeeps
<1>5. CASE OpenBasket(c.symbol, c.close)
  BY <1>0, <1>1, <1>5, OpenKeeps
<1> QED
  BY <1>2, <1>3, <1>4, <1>5 DEF StrategyBar

(***************************************************************************)
(* A step of the grid trader.                                              *)
(***************************************************************************)

\* The strategy only ever goes on, so positions that stay as they are go on
\* following it.
LEMMA FollowsGrown ==
  ASSUME PositionFollowsStrategy, StrategyTypeOK, StrategyTypeOK', open \subseteq Symbols,
         \A t \in Symbols : /\ sequence[t] <= sequence'[t]
                            /\ sequence'[t] = sequence[t] => filled[t] \subseteq filled'[t],
         \A t \in open' : /\ t \in open /\ pos'[t].gridId = pos[t].gridId
                          /\ pos'[t].levels = pos[t].levels
  PROVE  PositionFollowsStrategy'
<1> SUFFICES ASSUME NEW t \in open'
             PROVE  /\ pos'[t].gridId \in 1 .. sequence'[t]
                    /\ pos'[t].gridId = sequence'[t] => pos'[t].levels \subseteq filled'[t]
  BY DEF PositionFollowsStrategy
<1>1. /\ t \in Symbols /\ t \in open /\ sequence[t] \in Nat /\ sequence[t] <= sequence'[t]
      /\ pos'[t].gridId = pos[t].gridId /\ pos'[t].levels = pos[t].levels
  BY SequenceNat
<1>2. sequence'[t] \in Nat
  <2>1. sequence'[t] \in GridIds \cup {NoGrid}
    BY <1>1 DEF StrategyTypeOK
  <2> QED
    BY <2>1, SilentIsNone DEF NoGrid
<1>3. /\ pos[t].gridId \in 1 .. sequence[t]
      /\ pos[t].gridId = sequence[t] => pos[t].levels \subseteq filled[t]
  BY <1>1 DEF PositionFollowsStrategy
<1>4. pos'[t].gridId \in 1 .. sequence'[t]
  BY <1>1, <1>2, <1>3
<1>5. pos'[t].gridId = sequence'[t] => sequence'[t] = sequence[t] /\ pos[t].gridId = sequence[t]
  BY <1>1, <1>2, <1>3
<1> QED
  BY <1>1, <1>3, <1>4, <1>5

\* The strategy does nothing: what it kept it keeps.
LEMMA StrategyRests ==
  ASSUME StrategyInv, UNCHANGED <<bars, basketVars, lastSignal>>,
         emitted' = Silent \/ (emitted' = emitted /\ Idle')
  PROVE  StrategyInv' /\ (\A t \in Symbols : sequence[t] <= sequence'[t] /\ filled[t] \subseteq filled'[t])
<1>1. UNCHANGED <<bars, inBasket, sequence, filled, allocated, nextOpen, lastSignal>>
  BY DEF basketVars
<1>2. emitted' \in StrategySignals \cup {Silent}
  BY DEF StrategyInv, StrategyTypeOK
<1>3. StrategyTypeOK'
  BY <1>1, <1>2, Zenon DEF StrategyInv, StrategyTypeOK
<1>4. BasketsOpened' /\ EmittedFollows'
  BY <1>1 DEF StrategyInv, BasketsOpened, EmittedFollows
<1> QED
  BY <1>1, <1>3, <1>4, SequenceNat DEF StrategyInv

\* An exit takes one position out and leaves the others.
LEMMA RestAfterOther ==
  ASSUME TradeInv,
         Feed \/ Buffering \/ RegimeBlocked \/ StrategyError \/ NoSignal \/ Interrupt
  PROVE  /\ open \subseteq Symbols
         /\ \A t \in open' : t \in open /\ pos'[t] = pos[t] /\ bpos'[t] = bpos[t]
<1>1. ASSUME NEW s \in open, NEW price, NEW now, ClosePosition(s, price, now)
      PROVE  \A t \in open' : t \in open /\ pos'[t] = pos[t] /\ bpos'[t] = bpos[t]
  BY <1>1 DEF ClosePosition, ForgetPosition, SellFills, TradeInv, BrokerTypeOK
<1> QED
  BY <1>1, OtherTrades DEF TradeInv

\* A candle is admitted, and the strategy looks at it.
LEMMA AdmitKeeps == GridInv /\ GridAdmit => GridInv'
<1> SUFFICES ASSUME GridInv, GridAdmit PROVE GridInv'
  OBVIOUS
<1>1. PICK c \in Candles : (AdmitCandle(c) \/ AdmitAndExit(c)) /\ StrategyBar(c)
  BY DEF GridAdmit
<1>2. Feed /\ TradeInv
  BY <1>1, IInvParts, Zenon DEF Feed, GridInv
<1>3. IInv'
  BY <1>2, FeedStep DEF GridInv
<1>4. StopsAnchored'
  BY <1>2, OtherAnchored DEF GridInv
<1>5. BarKeeps(c.symbol)
  BY <1>1, BarStep DEF GridInv, StrategyInv
<1>6. current' = c \/ Idle'
  BY <1>1 DEF AdmitCandle, AdmitAndExit, Return, Idle
<1>7. StrategyInv'
  BY <1>5, <1>6 DEF BarKeeps, StrategyInv, EmittedFollows
<1>8. PositionFollowsStrategy'
  BY <1>2, <1>5, <1>7, RestAfterOther, FollowsGrown DEF BarKeeps, GridInv, StrategyInv
<1> QED
  BY <1>3, <1>4, <1>7, <1>8 DEF GridInv

\* The candle ends, or none is taken, without an order.
LEMMA RestKeeps ==
  GridInv /\ (SignalLost \/ NothingEmitted \/ CandleIgnored \/ GridInterrupt) => GridInv'
<1> SUFFICES ASSUME GridInv, SignalLost \/ NothingEmitted \/ CandleIgnored \/ GridInterrupt
             PROVE  GridInv'
  OBVIOUS
<1>1. /\ Feed \/ Buffering \/ RegimeBlocked \/ StrategyError \/ NoSignal \/ Interrupt
      /\ UNCHANGED <<bars, basketVars, lastSignal>>
      /\ emitted' = Silent \/ (emitted' = emitted /\ Idle')
  <2>1. CASE SignalLost
    BY <2>1 DEF SignalLost
  <2>2. CASE NothingEmitted
    BY <2>2 DEF NothingEmitted, strategyVars
  <2>3. CASE CandleIgnored
    BY <2>3 DEF CandleIgnored, strategyVars, Feed, CandleWhileStopped, CandleUnderKillSwitch,
                DuplicateCandle, Return, Idle
  <2>4. CASE GridInterrupt
    BY <2>4 DEF GridInterrupt
  <2> QED
    BY <2>1, <2>2, <2>3, <2>4
<1>2. TradeInv
  BY IInvParts, Zenon DEF GridInv
<1>3. IInv'
  BY <1>1, FeedStep, PipelineStep, InterruptStep DEF GridInv, Pipeline
<1>4. StopsAnchored'
  BY <1>1, <1>2, OtherAnchored DEF GridInv
<1>5. /\ StrategyInv'
      /\ \A t \in Symbols : sequence[t] <= sequence'[t] /\ filled[t] \subseteq filled'[t]
  BY <1>1, StrategyRests DEF GridInv
<1>6. PositionFollowsStrategy'
  BY <1>1, <1>2, <1>5, RestAfterOther, FollowsGrown DEF GridInv, StrategyInv
<1> QED
  BY <1>3, <1>4, <1>5, <1>6 DEF GridInv

\* The signal of the candle goes through the pipeline.
LEMMA SignalKeeps == GridInv /\ SignalTaken => GridInv'
<1> SUFFICES ASSUME GridInv, SignalTaken PROVE GridInv'
  OBVIOUS
<1>0. TradeInv /\ FeedTypeOK /\ open \subseteq Symbols /\ pos \in [Symbols -> Positions]
  BY IInvParts, Zenon DEF GridInv, TradeInv
<1>1. /\ emitted \in StrategySignals /\ OnSignal(emitted) /\ emitted # Silent
      /\ emitted' = Silent /\ UNCHANGED <<bars, basketVars, lastSignal>>
      /\ UNCHANGED <<sequence, filled>>
  BY DEF SignalTaken, GridInv, StrategyInv, StrategyTypeOK, basketVars
<1>2. IInv'
  BY <1>0, <1>1, SignalStep, IInvPartsNext
<1>3. StopsAnchored'
  BY <1>0, <1>1, SignalAnchored DEF GridInv
<1>4. StrategyInv'
  BY <1>1, StrategyRests DEF GridInv
<1>5. ~Idle => /\ emitted.gridId = sequence[current.symbol] /\ emitted.gridId # NoGrid
               /\ IsBuy(emitted) => emitted.level \in filled[current.symbol]
  BY <1>1 DEF GridInv, StrategyInv, EmittedFollows
<1>6. PositionFollowsStrategy'
  <2> DEFINE q == current.symbol
  <2>1. CASE ClosePosition(q, emitted.price, current.time)
    <3>1. open' = open \ {q} /\ pos' = [pos EXCEPT ![q] = NoPosition]
      BY <2>1 DEF ClosePosition, ForgetPosition
    <3> QED
      BY <1>0, <1>1, <3>1 DEF PositionFollowsStrategy, GridInv
  <2>2. ASSUME NEW qty \in 0 .. MaxLots, OpenPosition(emitted, qty)
        PROVE  PositionFollowsStrategy'
    <3>1. /\ q \in Symbols \ open /\ open' = open \cup {q}
          /\ \A t \in Symbols \ {q} : pos'[t] = pos[t]
          /\ pos'[q].gridId = emitted.gridId
          /\ pos'[q].levels = IF emitted.gridId = NoGrid THEN {} ELSE {emitted.level}
      BY <1>0, <1>1, <2>2, OpenedAnchored
    <3>2. ~Idle /\ IsBuy(emitted)
      BY <2>2 DEF OpenPosition, BuyApproved, PastLifecycle, AtStrategy
    <3>3. emitted.gridId \in 1 .. sequence[q] /\ emitted.gridId = sequence[q]
      <4>1. sequence[q] \in Nat /\ sequence[q] # 0 /\ emitted.gridId = sequence[q]
        BY <1>5, <3>1, <3>2, SequenceNat DEF GridInv, StrategyInv, NoGrid
      <4> QED
        BY <4>1
    <3>4. pos'[q].levels \subseteq filled[q]
      BY <1>5, <3>1, <3>2
    <3> QED
      BY <1>0, <1>1, <3>1, <3>3, <3>4 DEF PositionFollowsStrategy, GridInv
  <2>3. ASSUME NEW qty \in 0 .. MaxLots, ScaleIn(emitted, qty)
        PROVE  PositionFollowsStrategy'
    <3>1. /\ q \in open /\ open' = open /\ IsBuy(emitted)
          /\ \A t \in Symbols \ {q} : pos'[t] = pos[t]
          /\ pos'[q].gridId = pos[q].gridId
          /\ pos'[q].levels = pos[q].levels \cup {emitted.level}
      BY <1>0, <1>1, <2>3, ScaleInAddsLevel
    <3>2. ~Idle
      BY <2>3 DEF ScaleIn, BuyApproved, PastLifecycle, AtStrategy
    <3>3. emitted.level \in filled[q]
      BY <1>5, <3>1, <3>2
    <3> QED
      BY <1>0, <1>1, <3>1, <3>3 DEF PositionFollowsStrategy, GridInv
  <2>4. CASE UNCHANGED <<open, pos>>
    BY <1>1, <2>4 DEF PositionFollowsStrategy, GridInv
  <2> QED
    BY <1>0, <1>1, <2>1, <2>2, <2>3, <2>4, SignalTrades
<1> QED
  BY <1>2, <1>3, <1>4, <1>6 DEF GridInv

\* The trader starts with no position, no basket and no signal.
LEMMA GridInitInv == GridInit => GridInv
<1> SUFFICES ASSUME GridInit PROVE GridInv
  OBVIOUS
<1>1. IInv
  BY InitInv DEF GridInit
<1>2. StopsAnchored /\ PositionFollowsStrategy
  BY DEF GridInit, Init, StopsAnchored, PositionFollowsStrategy
<1>3. StrategyTypeOK
  <2>1. /\ bars \in [Symbols -> Nat] /\ inBasket \in [Symbols -> BOOLEAN]
        /\ nextOpen \in [Symbols -> Nat] /\ filled \in [Symbols -> SUBSET GridLevels]
        /\ sequence \in [Symbols -> GridIds \cup {NoGrid}]
    BY DEF GridInit
  <2>2. allocated \in [Symbols -> 0 .. MaxAllocation]
    BY SilentIsNone DEF GridInit
  <2>3. lastSignal \in [Symbols -> Int]
    <3>1. -CooldownBars \in Int
      BY GridAssumption
    <3> QED
      BY <3>1 DEF GridInit
  <2>4. emitted \in StrategySignals \cup {Silent}
    BY DEF GridInit
  <2> QED
    BY <2>1, <2>2, <2>3, <2>4, Zenon DEF StrategyTypeOK
<1>4. BasketsOpened /\ EmittedFollows
  BY DEF GridInit, BasketsOpened, EmittedFollows
<1> QED
  BY <1>1, <1>2, <1>3, <1>4 DEF GridInv, StrategyInv

\* Every step of the trader keeps its invariant.
LEMMA GridStep == GridInv /\ [GridNext]_gridVars => GridInv'
<1>1. GridInv /\ UNCHANGED gridVars => GridInv'
  <2> SUFFICES ASSUME GridInv, UNCHANGED gridVars PROVE GridInv'
    OBVIOUS
  <2>1. UNCHANGED vars /\ UNCHANGED <<bars, inBasket, sequence, filled, allocated, nextOpen,
                                      lastSignal, emitted>>
    BY DEF gridVars, strategyVars, basketVars
  <2>2. IInv'
    BY <2>1, StutterStep DEF GridInv
  <2>3. UNCHANGED <<open, pos, current>>
    BY <2>1 DEF vars, bookVars, handlerVars
  <2>4. StrategyTypeOK'
    BY <2>1, Zenon DEF GridInv, StrategyInv, StrategyTypeOK
  <2>5. BasketsOpened' /\ EmittedFollows' /\ PositionFollowsStrategy' /\ StopsAnchored'
    BY <2>1, <2>3 DEF GridInv, StrategyInv, BasketsOpened, EmittedFollows, Idle,
                      PositionFollowsStrategy, StopsAnchored
  <2> QED
    BY <2>2, <2>4, <2>5 DEF GridInv, StrategyInv
<1> QED
  BY <1>1, AdmitKeeps, RestKeeps, SignalKeeps DEF GridNext

\* The invariant holds of every run of the grid trader.
THEOREM GridInvariant == GridSpec => []GridInv
<1>1. GridInit => GridInv
  BY GridInitInv
<1>2. GridInv /\ [GridNext]_gridVars => GridInv'
  BY GridStep
<1> QED
  BY <1>1, <1>2, PTL DEF GridSpec

(***************************************************************************)
(* The grid trader is the orchestrator with one particular strategy.       *)
(***************************************************************************)

\* What the strategy has under way is a signal a strategy may return; so a step
\* of the grid trader is a step of the orchestrator.
LEMMA GridStepTrades ==
  ASSUME StrategySignals \subseteq Signals, GridInv, [GridNext]_gridVars
  PROVE  [Next]_vars
<1>1. CASE GridAdmit
  BY <1>1 DEF GridAdmit, Next, Feed
<1>2. CASE SignalLost
  BY <1>2 DEF SignalLost, Next, Pipeline
<1>3. CASE NothingEmitted
  BY <1>3 DEF NothingEmitted, Next, Pipeline
<1>4. CASE SignalTaken
  <2>1. emitted \in Signals /\ OnSignal(emitted)
    BY <1>4 DEF SignalTaken, GridInv, StrategyInv, StrategyTypeOK
  <2> QED
    BY <2>1 DEF Next, Pipeline
<1>5. CASE CandleIgnored
  BY <1>5 DEF CandleIgnored, Next, Feed
<1>6. CASE GridInterrupt
  BY <1>6 DEF GridInterrupt, Next
<1>7. CASE UNCHANGED gridVars
  BY <1>7 DEF gridVars
<1> QED
  BY <1>1, <1>2, <1>3, <1>4, <1>5, <1>6, <1>7 DEF GridNext

\* The grid strategy adds nothing the orchestrator was not already shown to stand:
\* trading it implements the orchestrator that takes any signal at any candle.
THEOREM GridRefinesTrading ==
  ASSUME StrategySignals \subseteq Signals
  PROVE  GridSpec => Spec
<1>1. GridInit => Init
  BY DEF GridInit
<1>2. GridInv /\ [GridNext]_gridVars => [Next]_vars
  BY GridStepTrades
<1> QED
  BY <1>1, <1>2, GridInvariant, PTL DEF GridSpec, Spec

\* No fill takes a basket, fees included, past the strategy's own allocation: the
\* signal executed is one the strategy emitted, and each names that allocation.
LEMMA BasketAllocated == GridSpec => BasketAllocationCapped
<1>1. GridInv /\ [GridNext]_gridVars =>
        \A s \in open \cap open' : pos'[s].cost > pos[s].cost =>
          pos[s].cost + (quote - quote') <= (Equity * MaxAllocation) \div 100
  <2> SUFFICES ASSUME GridInv, [GridNext]_gridVars, NEW s \in open \cap open',
                      pos'[s].cost > pos[s].cost
               PROVE  pos[s].cost + (quote - quote') <= (Equity * MaxAllocation) \div 100
    OBVIOUS
  <2>0. TradeInv /\ FeedTypeOK /\ s \in Symbols /\ pos[s].cost \in Nat
    <3>1. TradeInv /\ FeedTypeOK /\ s \in Symbols
      BY IInvParts, Zenon DEF GridInv, TradeInv
    <3> QED
      BY <3>1 DEF TradeInv, Positions
  <2>1. pos'[s] # pos[s]
    BY <2>0
  <2>2. SignalTaken
    <3>1. CASE GridAdmit \/ CandleIgnored \/ SignalLost \/ NothingEmitted \/ GridInterrupt
      <4>1. Feed \/ Buffering \/ RegimeBlocked \/ StrategyError \/ NoSignal \/ Interrupt
        BY <3>1 DEF GridAdmit, CandleIgnored, SignalLost, NothingEmitted, GridInterrupt, Feed
      <4> QED
        BY <2>0, <2>1, <4>1, RestAfterOther
    <3>2. CASE UNCHANGED gridVars
      BY <2>1, <3>2 DEF gridVars, vars, bookVars
    <3> QED
      BY <3>1, <3>2 DEF GridNext
  <2>3. /\ emitted \in StrategySignals /\ emitted # Silent /\ OnSignal(emitted)
    BY <2>2 DEF SignalTaken, GridInv, StrategyInv, StrategyTypeOK
  <2>4. PICK qty \in 0 .. MaxLots : ScaleIn(emitted, qty)
    <3>1. CASE ClosePosition(current.symbol, emitted.price, current.time)
      <4>1. open' = open \ {current.symbol} /\ pos' = [pos EXCEPT ![current.symbol] = NoPosition]
        BY <3>1 DEF ClosePosition, ForgetPosition
      <4> QED
        BY <2>0, <2>1, <4>1 DEF TradeInv
    <3>2. ASSUME NEW qty \in 0 .. MaxLots, OpenPosition(emitted, qty) PROVE FALSE
      BY <2>0, <2>1, <3>2 DEF OpenPosition, TradeInv
    <3> QED
      BY <2>0, <2>1, <2>3, <3>1, <3>2, SignalTrades
  <2>5. s = current.symbol
    BY <2>0, <2>1, <2>3, <2>4, ScaleInAddsLevel
  <2>6. emitted.allocation = MaxAllocation
    <3>1. ~Idle
      BY <2>4 DEF ScaleIn, BuyApproved, PastLifecycle, AtStrategy
    <3> QED
      BY <2>3, <3>1 DEF GridInv, StrategyInv, EmittedFollows
  <2>7. pos[s].cost + (quote - quote') <= (Equity * emitted.allocation) \div 100
    BY <2>0, <2>3, <2>4, <2>5, ScaleInWithinRoom
  <2> QED
    BY <2>6, <2>7
<1> QED
  BY <1>1, GridInvariant, PTL DEF GridSpec, BasketAllocationCapped

\* Hence the money is conserved while the grid is traded, no halt lets an entry
\* through, no level is bought twice, no scale-in passes the allocation of the
\* signal it executes, nor the strategy's, and a basket closed by its stop loses
\* no more than the configured share.
THEOREM GridTraderInherits ==
  ASSUME StrategySignals \subseteq Signals
  PROVE  GridSpec => /\ []CashIdentity
                     /\ NoEntryWhileHalted
                     /\ LevelBoughtOnce
                     /\ GridAllocationCapped
                     /\ BasketAllocationCapped
                     /\ GridLossBounded
<1>1. GridSpec => Spec
  BY GridRefinesTrading
<1> QED
  BY <1>1, CashConserved, HaltsStopEntries, LevelsBoughtOnce, GridAllocationRespected,
     BasketAllocated, GridLossIsBounded, PTL

(***************************************************************************)
(* The order of a step.                                                    *)
(***************************************************************************)

\* A fill: it opens a position, or adds a level to one in its own basket.
Filled(s) ==
  /\ s \in Symbols /\ open' = open \cup {s}
  /\ \A t \in Symbols \ {s} : pos'[t] = pos[t] /\ bpos'[t] = bpos[t]
  /\ pos[s].qty <= pos'[s].qty
  /\ s \in open => /\ pos'[s].gridId = pos[s].gridId
                   /\ pos'[s].levels \ pos[s].levels # {}

\* An exit: it takes the whole position.
Exited(s) ==
  /\ s \in open /\ open' = open \ {s}
  /\ pos' = [pos EXCEPT ![s] = NoPosition]
  /\ \A t \in Symbols \ {s} : bpos'[t] = bpos[t]

\* What a signal leaves of the positions.
LEMMA SignalOrder ==
  ASSUME TradeInv, FeedTypeOK, StopsAnchored, NEW sig \in StrategySignals, OnSignal(sig), ~Idle
  PROVE  \/ UNCHANGED <<open, pos, bpos, orders, openPositions, dailyPnl>>
         \/ orders' = orders + 1 /\ (Filled(current.symbol) \/ Exited(current.symbol))
<1> DEFINE q == current.symbol
<1>0. /\ open \subseteq Symbols /\ pos \in [Symbols -> Positions]
      /\ bpos \in [Symbols -> [qty : Nat, cost : Nat, fee : Nat]]
  BY DEF TradeInv, BrokerTypeOK
<1>1. ASSUME ClosePosition(q, sig.price, current.time), q \in open
      PROVE  orders' = orders + 1 /\ Exited(q)
  BY <1>0, <1>1 DEF ClosePosition, ForgetPosition, SellFills, Exited
<1>2. ASSUME NEW qty \in 0 .. MaxLots, OpenPosition(sig, qty)
      PROVE  orders' = orders + 1 /\ Filled(q)
  <2>1. /\ q \in Symbols \ open /\ open' = open \cup {q} /\ qty > 0
        /\ \A t \in Symbols \ {q} : pos'[t] = pos[t]
        /\ pos'[q].qty = qty
    BY <1>2, OpenedAnchored
  <2>2. orders' = orders + 1 /\ \A t \in Symbols \ {q} : bpos'[t] = bpos[t]
    BY <1>0, <1>2 DEF OpenPosition, BuyFills
  <2>3. pos[q].qty = 0
    BY <2>1 DEF TradeInv, BooksAgree, NoHolding
  <2> QED
    BY <2>1, <2>2, <2>3 DEF Filled
<1>3. ASSUME NEW qty \in 0 .. MaxLots, ScaleIn(sig, qty)
      PROVE  orders' = orders + 1 /\ Filled(q)
  <2>1. /\ q \in open /\ open' = open
        /\ \A t \in Symbols \ {q} : pos'[t] = pos[t] /\ bpos'[t] = bpos[t]
        /\ sig.level \notin pos[q].levels
        /\ pos'[q].gridId = pos[q].gridId
        /\ pos'[q].levels = pos[q].levels \cup {sig.level}
    BY <1>3, ScaleInAddsLevel
  <2>2. pos'[q].qty = pos[q].qty + qty
    BY <1>3, ScaledAnchored
  <2>3. pos[q].qty \in Nat /\ qty \in Nat
    BY <1>0, <2>1, OrchestratorAssumption DEF Positions
  <2>4. orders' = orders + 1
    BY <1>3 DEF ScaleIn, BuyFills
  <2> QED
    BY <1>0, <2>1, <2>2, <2>3, <2>4 DEF Filled
<1> QED
  BY <1>1, <1>2, <1>3, SignalTrades

\* A step of the trader fills one order of its candle's symbol, or none.
LEMMA StepOrder ==
  ASSUME GridInv, GridNext
  PROVE  \/ UNCHANGED <<open, pos, bpos, orders, openPositions, dailyPnl>>
         \/ orders' = orders + 1 /\ (Filled(TradedSymbol) \/ Exited(TradedSymbol))
<1>0. TradeInv /\ FeedTypeOK /\ StopsAnchored
  BY IInvParts, Zenon DEF GridInv
<1>1. CASE SignalTaken
  <2>1. emitted \in StrategySignals /\ OnSignal(emitted)
    BY <1>1 DEF SignalTaken, GridInv, StrategyInv, StrategyTypeOK
  <2>2. CASE Idle
    BY <2>1, <2>2 DEF OnSignal, SellWithoutPosition, LifecycleBlocked, RiskRejected, SellSignal,
       OpenPosition, ScaleIn, BuyOrderRejected, BuyExecutionError, BuyApproved, PastLifecycle,
       AtStrategy
  <2>3. CASE ~Idle
    BY <1>0, <2>1, <2>3, SignalOrder DEF TradedSymbol
  <2> QED
    BY <2>2, <2>3
<1>2. CASE ~SignalTaken
  <2>1. Feed \/ Buffering \/ RegimeBlocked \/ StrategyError \/ NoSignal \/ Interrupt
    BY <1>2 DEF GridNext, GridAdmit, SignalLost, NothingEmitted, CandleIgnored, GridInterrupt, Feed
  <2>2. ASSUME NEW c \in Candles, AdmitAndExit(c), c.symbol \in open, current' = c,
               ClosePosition(c.symbol, ExitPrice(c), c.time)
        PROVE  orders' = orders + 1 /\ Exited(TradedSymbol)
    <3>1. TradedSymbol = c.symbol
      BY <2>2 DEF TradedSymbol, AdmitAndExit, Admit
    <3>2. orders' = orders + 1 /\ Exited(c.symbol)
      BY <1>0, <2>2 DEF ClosePosition, ForgetPosition, SellFills, Exited, TradeInv, BrokerTypeOK
    <3> QED
      BY <3>1, <3>2
  <2> QED
    BY <2>1, <2>2, OtherTrades
<1> QED
  BY <1>1, <1>2

(***************************************************************************)
(* The trader across its restarts.                                         *)
(***************************************************************************)

\* What a restart leaves in memory is a fresh trader.
LEMMA FreshMemory == MemoryLost => GridInv'
<1>1. MemoryLost => GridInit'
  BY DEF MemoryLost, GridInit, Init, BrokerInit, RiskInit
<1>2. GridInit' => GridInv'
  BY GridInitInv, PTL
<1> QED
  BY <1>1, <1>2

\* A step of the process with its database is a step of the trader, nothing, or
\* the start of a fresh one.
LEMMA PersistedSteps ==
  ASSUME [PersistedNext]_persistedVars
  PROVE  [GridNext]_gridVars \/ MemoryLost
BY DEF PersistedNext, PersistedStep, Restart, persistedVars

\* The trader's invariant holds however often the process is killed and started.
THEOREM PersistedGridInvariant == PersistedSpec => []GridInv
<1>1. PersistedInit => GridInv
  BY GridInitInv DEF PersistedInit
<1>2. GridInv /\ [PersistedNext]_persistedVars => GridInv'
  BY PersistedSteps, GridStep, FreshMemory
<1> QED
  BY <1>1, <1>2, PTL DEF PersistedSpec

\* Whatever became of the strategy's signals, a position is of a basket the
\* strategy opened, and of its current basket it holds only levels the strategy
\* counts as filled.
THEOREM PositionsFollow == PersistedSpec => []PositionFollowsStrategy
<1>1. GridInv => PositionFollowsStrategy
  BY DEF GridInv
<1> QED
  BY <1>1, PersistedGridInvariant, PTL

(***************************************************************************)
(* The protection of a grid position.                                      *)
(***************************************************************************)

\* Each lot cost enough for the share that the stop keeps to be a unit of price.
CostCoversStop ==
  \A s \in open : 100 * pos[s].qty <= pos[s].cost * (100 - GridStopPct)

\* The unit of price is fine enough for that: every price the grid may buy at
\* leaves a unit above the stop_loss_pct.
PricesFine == \A p \in Prices : FillPrice("BUY", p) * (100 - GridStopPct) >= 100

\* A fill at such a price costs enough.
LEMMA FillCovers ==
  ASSUME PricesFine, NEW p \in Prices, NEW qty \in Nat
  PROVE  100 * qty <= BuyCost(qty, p) * (100 - GridStopPct) /\ BuyCost(qty, p) \in Nat
<1> DEFINE f == FillPrice("BUY", p)
           k == 100 - GridStopPct
<1>1. f \in Nat /\ k \in Nat /\ 100 <= f * k
  <2>1. p \in Nat
    BY MarketAssumption
  <2> QED
    BY <2>1, FillPriceNat, OrchestratorAssumption DEF PricesFine
<1>2. BuyCost(qty, p) = f * qty
  BY DEF BuyCost
<1> HIDE DEF f, k
<1>3. f * k \in Nat /\ f * qty \in Nat
  BY <1>1, ProductNat
<1>4. 100 * qty <= (f * k) * qty
  BY <1>1, <1>3, ProductMono
<1>5. (f * k) * qty = (f * qty) * k
  BY <1>1, SMT
<1> QED
  BY <1>2, <1>3, <1>4, <1>5 DEF k

\* A signal's fills cost enough.
LEMMA SignalCovers ==
  ASSUME PricesFine, TradeInv, FeedTypeOK, StopsAnchored, CostCoversStop,
         NEW sig \in StrategySignals, OnSignal(sig), ~Idle => sig.price \in Prices
  PROVE  CostCoversStop'
<1> DEFINE q == current.symbol
           k == 100 - GridStopPct
<1>0. /\ open \subseteq Symbols /\ pos \in [Symbols -> Positions] /\ k \in Nat
  BY OrchestratorAssumption DEF TradeInv
<1>1. CASE ClosePosition(q, sig.price, current.time) /\ q \in open
  BY <1>0, <1>1 DEF ClosePosition, ForgetPosition, CostCoversStop
<1>2. ASSUME NEW qty \in 0 .. MaxLots, OpenPosition(sig, qty)
      PROVE  CostCoversStop'
  <2>0. qty \in Nat
    BY OrchestratorAssumption
  <2>1. /\ open' = open \cup {q}
        /\ \A t \in Symbols \ {q} : pos'[t] = pos[t]
        /\ pos'[q].qty = qty /\ pos'[q].cost = BuyCost(qty, sig.price)
    <3>1. /\ open' = open \cup {q} /\ pos'[q] = OpenedPosition(sig, qty)
          /\ \A t \in Symbols \ {q} : pos'[t] = pos[t]
      BY <1>2, OpenedAnchored
    <3>2. /\ OpenedPosition(sig, qty).qty = qty
          /\ OpenedPosition(sig, qty).cost = BuyCost(qty, sig.price)
      BY <1>2, OpenedAnchored
    <3> QED
      BY <3>1, <3>2
  <2>2. sig.price \in Prices
    BY <1>2 DEF OpenPosition, BuyApproved, PastLifecycle, AtStrategy
  <2>3. 100 * qty <= BuyCost(qty, sig.price) * (100 - GridStopPct)
    BY <2>0, <2>2, FillCovers
  <2> QED
    BY <1>0, <2>1, <2>3 DEF CostCoversStop
<1>3. ASSUME NEW qty \in 0 .. MaxLots, ScaleIn(sig, qty)
      PROVE  CostCoversStop'
  <2>1. /\ open' = open /\ qty \in Nat /\ q \in open
        /\ \A t \in Symbols \ {q} : pos'[t] = pos[t]
    BY <1>3, ScaleInAddsLevel, OrchestratorAssumption
  <2>2. /\ pos'[q].qty = pos[q].qty + qty
        /\ pos'[q].cost = pos[q].cost + BuyCost(qty, sig.price)
    BY <1>3, ScaledAnchored
  <2>3. sig.price \in Prices
    BY <1>3 DEF ScaleIn, BuyApproved, PastLifecycle, AtStrategy
  <2>4. 100 * qty <= BuyCost(qty, sig.price) * k /\ BuyCost(qty, sig.price) \in Nat
    BY <2>1, <2>3, FillCovers
  <2>5. 100 * pos[q].qty <= pos[q].cost * k /\ pos[q].qty \in Nat /\ pos[q].cost \in Nat
    BY <1>0, <2>1 DEF CostCoversStop, Positions
  <2>6. 100 * pos'[q].qty <= pos'[q].cost * k
    <3> DEFINE a == pos[q].qty
               b == pos[q].cost
               d == BuyCost(qty, sig.price)
    <3>1. a \in Nat /\ b \in Nat /\ d \in Nat /\ 100 * a <= b * k /\ 100 * qty <= d * k
      BY <2>4, <2>5
    <3> HIDE DEF a, b, d, k
    <3>2. 100 * (a + qty) <= (b + d) * k
      BY <1>0, <2>1, <3>1, SMT
    <3> QED
      BY <2>2, <3>2 DEF a, b, d
  <2> QED
    BY <1>0, <2>1, <2>6 DEF CostCoversStop
<1> QED
  BY <1>1, <1>2, <1>3, SignalTrades DEF CostCoversStop

\* Every step keeps the positions covered.
LEMMA CoversStep ==
  ASSUME PricesFine, GridInv, CostCoversStop, [PersistedNext]_persistedVars
  PROVE  CostCoversStop'
<1>0. TradeInv /\ FeedTypeOK /\ StopsAnchored /\ pos \in [Symbols -> Positions]
      /\ open \subseteq Symbols
  BY IInvParts, Zenon DEF GridInv, TradeInv
<1>1. CASE MemoryLost
  BY <1>1 DEF MemoryLost, CostCoversStop
<1>2. CASE UNCHANGED gridVars
  BY <1>2 DEF gridVars, vars, bookVars, CostCoversStop
<1>3. CASE SignalTaken
  <2>1. emitted \in StrategySignals /\ OnSignal(emitted) /\ (~Idle => emitted.price \in Prices)
    BY <1>3 DEF SignalTaken, GridInv, StrategyInv, StrategyTypeOK, EmittedFollows
  <2> QED
    BY <1>0, <2>1, SignalCovers
<1>4. CASE GridNext /\ ~SignalTaken
  <2>1. Feed \/ Buffering \/ RegimeBlocked \/ StrategyError \/ NoSignal \/ Interrupt
    BY <1>4 DEF GridNext, GridAdmit, SignalLost, NothingEmitted, CandleIgnored, GridInterrupt, Feed
  <2>2. \A t \in open' : t \in open /\ pos'[t] = pos[t]
    BY <1>0, <2>1, RestAfterOther
  <2> QED
    BY <2>2 DEF CostCoversStop
<1> QED
  BY <1>1, <1>2, <1>3, <1>4, PersistedSteps

\* The stop and the target of such a position stand around its average entry.
LEMMA AnchoredProtects ==
  ASSUME NEW p \in Positions, Anchored(p), p.gridId # NoGrid,
         100 * p.qty <= p.cost * (100 - GridStopPct)
  PROVE  0 < p.stopLoss /\ p.stopLoss * p.qty <= p.cost /\ p.cost <= p.takeProfit * p.qty
<1> DEFINE q == p.qty
           c == p.cost
           k == 100 - GridStopPct
           up == 100 + GridTargetPct
           stop == p.stopLoss
           target == p.takeProfit
<1>1. /\ q \in Nat /\ q > 0 /\ c \in Nat /\ k \in Nat /\ k <= 100 /\ up \in Nat /\ up >= 100
      /\ stop \in Nat /\ target \in Nat /\ 100 * q <= c * k
  BY OrchestratorAssumption DEF Positions, Anchored
<1>2. /\ stop = (c * k) \div (100 * q)
      /\ target = (c * up + 100 * q - 1) \div (100 * q)
  BY DEF Anchored, GridStop, GridTarget
<1> HIDE DEF q, c, k, up, stop, target
<1>3. /\ 100 * q \in Nat /\ 100 * q > 0 /\ c * k \in Nat /\ c * up \in Nat
      /\ c * up + 100 * q - 1 \in Int
  BY <1>1, ProductNat
<1>4. /\ stop * (100 * q) <= c * k /\ c * k < stop * (100 * q) + 100 * q
      /\ c * up + 100 * q - 1 < target * (100 * q) + 100 * q
  <2> DEFINE n == 100 * q
             x == c * k
             y == c * up + 100 * q - 1
  <2>1. x \in Int /\ y \in Int /\ n \in Nat /\ n > 0 /\ stop = x \div n /\ target = y \div n
    BY <1>2, <1>3
  <2> HIDE DEF n, x, y
  <2>2. stop * n <= x /\ x < stop * n + n /\ y < target * n + n
    BY <2>1, QuotientBounds
  <2> QED
    BY <2>2 DEF n, x, y
<1>5. c * k <= c * 100 /\ c * 100 <= c * up
  BY <1>1, SMT
<1>6. 0 < stop
  <2>1. CASE stop = 0
    BY <1>1, <1>3, <1>4, <2>1
  <2> QED
    BY <1>1, <2>1
<1>7. stop * (100 * q) = 100 * (stop * q) /\ stop * q \in Nat
      /\ target * (100 * q) = 100 * (target * q) /\ target * q \in Nat
  BY <1>1, SMT
<1>8. stop * q <= c
  BY <1>1, <1>3, <1>4, <1>5, <1>7
<1>9. c <= target * q
  BY <1>1, <1>3, <1>4, <1>5, <1>7
<1> QED
  BY <1>6, <1>8, <1>9 DEF q, c, k, stop, target

\* When the unit of price is fine enough, every grid position has a stop and a
\* target, on either side of its average entry, whatever signals made it.
THEOREM GridPositionsProtected ==
  ASSUME PricesFine
  PROVE  PersistedSpec => []GridProtected
<1>1. PersistedInit => CostCoversStop
  BY DEF PersistedInit, GridInit, Init, CostCoversStop
<1>2. GridInv /\ CostCoversStop /\ [PersistedNext]_persistedVars => CostCoversStop'
  BY CoversStep
<1>3. GridInv /\ CostCoversStop => GridProtected
  <2> SUFFICES ASSUME GridInv, CostCoversStop, NEW s \in open
               PROVE  /\ 0 < pos[s].stopLoss
                      /\ pos[s].stopLoss * pos[s].qty <= pos[s].cost
                      /\ pos[s].cost <= pos[s].takeProfit * pos[s].qty
    BY DEF GridProtected
  <2>1. pos[s] \in Positions
    BY IInvParts, Zenon DEF GridInv, TradeInv
  <2>2. Anchored(pos[s]) /\ 100 * pos[s].qty <= pos[s].cost * (100 - GridStopPct)
    BY DEF GridInv, StopsAnchored, CostCoversStop
  <2>3. pos[s].gridId # NoGrid
    BY DEF GridInv, PositionFollowsStrategy, NoGrid
  <2> QED
    BY <2>1, <2>2, <2>3, AnchoredProtects
<1> QED
  BY <1>1, <1>2, <1>3, PersistedGridInvariant, PTL DEF PersistedSpec

(***************************************************************************)
(* The rows.                                                               *)
(***************************************************************************)

StoreTyped ==
  /\ run \in 1 .. MaxRuns
  /\ alive \in BOOLEAN
  /\ seen \subseteq Symbols \X Times
  /\ logged \in [Symbols -> Int]
  /\ events \in [Symbols -> [GridIds -> Int]]
  /\ rows \in [Symbols -> [GridIds -> Rows]]
  /\ snapshot \in Snapshots
  /\ failures \in 0 .. MaxFailures

\* No row is of a run to come.
RowsBounded ==
  /\ \A s \in Symbols, g \in GridIds : rows[s][g].writtenIn <= run
  /\ snapshot.writtenIn <= run

\* The basket of s has an OPEN row of this run.
OpenNow(s, g) == rows[s][g].status = "OPEN" /\ rows[s][g].writtenIn = run

\* What StoreFollowsBooks says of the trades and the baskets.
RowsFollow ==
  alive /\ failures = 0 =>
    \A s \in Symbols :
      /\ logged[s] = pos[s].qty
      /\ \A g \in GridIds : OpenNow(s, g) <=> s \in open /\ pos[s].gridId = g
      /\ s \in open => /\ rows[s][pos[s].gridId].qty = pos[s].qty
                       /\ rows[s][pos[s].gridId].levels = pos[s].levels

\* The positions are natural numbers of lots, in baskets that have a number.
PositionsTyped ==
  /\ pos \in [Symbols -> Positions] /\ open \subseteq Symbols
  /\ openPositions \in Nat /\ dailyPnl \in Int /\ quote \in Nat /\ orders \in Nat
  /\ \A s \in Symbols : /\ pos[s].qty \in Nat /\ pos[s].qty = bpos[s].qty
                        /\ s \notin open => pos[s].qty = 0
  /\ \A s \in open : pos[s].gridId \in GridIds

\* They are so in every state of the trader.
LEMMA PositionsAreTyped == GridInv => PositionsTyped
<1> SUFFICES ASSUME GridInv PROVE PositionsTyped
  OBVIOUS
<1>1. TradeInv
  BY IInvParts, Zenon DEF GridInv
<1>2. /\ pos \in [Symbols -> Positions] /\ open \subseteq Symbols
      /\ openPositions \in Nat /\ dailyPnl \in Int /\ quote \in Nat /\ orders \in Nat
      /\ \A s \in Symbols : /\ pos[s].qty = bpos[s].qty
                            /\ s \notin open => bpos[s] = NoHolding
  BY <1>1 DEF TradeInv, BrokerTypeOK, RiskTypeOK, BooksAgree
<1>3. \A s \in Symbols : /\ pos[s].qty \in Nat
                         /\ s \notin open => pos[s].qty = 0
  BY <1>2 DEF Positions, NoHolding
<1>4. ASSUME NEW s \in open PROVE pos[s].gridId \in GridIds
  <2>1. pos[s].gridId \in GridIds \cup {NoGrid}
    BY <1>2 DEF Positions
  <2>2. pos[s].gridId \in 1 .. sequence[s]
    BY DEF GridInv, PositionFollowsStrategy
  <2> QED
    BY <2>1, <2>2 DEF NoGrid
<1> QED
  BY <1>2, <1>3, <1>4 DEF PositionsTyped

\* The same after the step.
LEMMA PositionsTypedNext == GridInv' => PositionsTyped'
  BY PositionsAreTyped, PTL

\* A trade in s, as the rows see it.
Traded(s) ==
  /\ s \in Symbols
  /\ Change(s) = pos'[s].qty - pos[s].qty
  /\ \A t \in Symbols \ {s} : pos'[t] = pos[t] /\ (t \in open' <=> t \in open)
  /\ s \in open' => pos[s].qty <= pos'[s].qty /\ (s \in open => pos'[s].gridId = pos[s].gridId)
  /\ s \notin open' => s \in open

\* Without an order the positions and what the counters say of them stay.
LEMMA NoOrder ==
  ASSUME GridInv, GridNext, orders' = orders
  PROVE  UNCHANGED <<open, pos, openPositions, dailyPnl>>
<1>1. orders' # orders + 1
  BY PositionsAreTyped DEF PositionsTyped
<1> QED
  BY <1>1, StepOrder

\* An order is a trade in the candle's symbol.
LEMMA OrderTraded ==
  ASSUME GridInv, GridInv', GridNext, orders' # orders
  PROVE  Traded(TradedSymbol)
<1>1. PICK s : s = TradedSymbol
  OBVIOUS
<1>2. Filled(s) \/ Exited(s)
  BY <1>1, StepOrder
<1>3. /\ pos \in [Symbols -> Positions] /\ open \subseteq Symbols
      /\ \A t \in Symbols : pos[t].qty = bpos[t].qty /\ pos'[t].qty = bpos'[t].qty
  BY PositionsAreTyped, PositionsTypedNext DEF PositionsTyped
<1>4. s \in Symbols /\ Change(s) = pos'[s].qty - pos[s].qty
  BY <1>2, <1>3 DEF Filled, Exited, Change
<1>5. ASSUME Filled(s) PROVE Traded(s)
  BY <1>3, <1>4, <1>5 DEF Filled, Traded
<1>6. ASSUME Exited(s) PROVE Traded(s)
  BY <1>3, <1>4, <1>6 DEF Exited, Traded
<1> QED
  BY <1>1, <1>2, <1>5, <1>6

\* What was committed of a trade in s.
LEMMA Committed ==
  ASSUME NEW done, NEW s, s = TradedSymbol, Commit(done)
  PROVE  /\ "trade" \in done => logged' = [logged EXCEPT ![s] = logged[s] + Change(s)]
         /\ "trade" \notin done => logged' = logged
         /\ "state" \in done => SaveBasket(s)
         /\ "state" \notin done => rows' = rows
         /\ "event" \in done => LogEvent(s)
         /\ "event" \notin done => events' = events
         /\ "snapshot" \in done => TakeSnapshot
         /\ "snapshot" \notin done => snapshot' = snapshot
BY DEF Commit, LogTrade

\* The row that is written, and the basket it is written for.
LEMMA Saved ==
  ASSUME GridInv, GridInv', StoreTyped, NEW s, Traded(s), SaveBasket(s)
  PROVE  \E basket \in GridIds :
           /\ basket = IF s \in open' THEN pos'[s].gridId ELSE pos[s].gridId
           /\ rows' = [rows EXCEPT ![s][basket] = BasketRow(s)]
           /\ BasketRow(s) \in Rows /\ BasketRow(s).writtenIn = run
           /\ BasketRow(s).status = IF s \in open' THEN "OPEN" ELSE "CLOSED"
           /\ s \in open' => BasketRow(s).qty = pos'[s].qty /\ BasketRow(s).levels = pos'[s].levels
<1> DEFINE basket == IF s \in open' THEN pos'[s].gridId ELSE pos[s].gridId
<1>1. basket \in GridIds
  BY PositionsAreTyped, PositionsTypedNext DEF Traded, PositionsTyped
<1>2. rows' = [rows EXCEPT ![s][basket] = BasketRow(s)]
  BY DEF SaveBasket
<1>3. run \in 0 .. MaxRuns
  BY StoreAssumption DEF StoreTyped
<1>4. pos[s] \in Positions /\ pos'[s] \in Positions
  BY PositionsAreTyped, PositionsTypedNext DEF Traded, PositionsTyped
<1>5. BasketRow(s) \in Rows
  BY <1>3, <1>4 DEF BasketRow, Rows, Positions
<1>6. /\ BasketRow(s).writtenIn = run
      /\ BasketRow(s).status = IF s \in open' THEN "OPEN" ELSE "CLOSED"
      /\ s \in open' => BasketRow(s).qty = pos'[s].qty /\ BasketRow(s).levels = pos'[s].levels
  BY DEF BasketRow
<1> QED
  BY <1>1, <1>2, <1>5, <1>6

\* Whatever was committed, the store keeps its types and no row is of a later run.
LEMMA CommitTyped ==
  ASSUME GridInv, GridInv', StoreTyped, RowsBounded, NEW done, Traded(TradedSymbol), Commit(done)
  PROVE  /\ logged' \in [Symbols -> Int]
         /\ events' \in [Symbols -> [GridIds -> Int]]
         /\ rows' \in [Symbols -> [GridIds -> Rows]]
         /\ snapshot' \in Snapshots
         /\ \A t \in Symbols, g \in GridIds : rows'[t][g].writtenIn <= run
         /\ snapshot'.writtenIn <= run
<1>1. PICK s : s = TradedSymbol
  OBVIOUS
<1>2. s \in Symbols /\ Traded(s)
  BY <1>1 DEF Traded
<1>3. Change(s) \in Int
  BY <1>2, PositionsAreTyped, PositionsTypedNext DEF Traded, PositionsTyped
<1>4. run \in 0 .. MaxRuns /\ run \in Nat
  BY StoreAssumption DEF StoreTyped
<1>5. logged' \in [Symbols -> Int]
  BY <1>1, <1>2, <1>3, Committed DEF StoreTyped
<1>6. events' \in [Symbols -> [GridIds -> Int]]
  <2>1. CASE LogEvent(s)
    <3>1. PICK basket : events' = [events EXCEPT ![s][basket] = events[s][basket] + Change(s)]
      BY <2>1 DEF LogEvent
    <3>2. PICK n \in Int : n = Change(s)
      BY <1>3
    <3>3. events \in [Symbols -> [GridIds -> Int]]
      BY DEF StoreTyped
    <3>4. events' = [events EXCEPT ![s] = [events[s] EXCEPT ![basket] = events[s][basket] + n]]
      BY <3>1, <3>2
    <3>5. [events[s] EXCEPT ![basket] = events[s][basket] + n] \in [GridIds -> Int]
      <4>1. PICK log \in [GridIds -> Int] : log = events[s]
        BY <1>2, <3>3
      <4>2. [log EXCEPT ![basket] = log[basket] + n] \in [GridIds -> Int]
        <5>1. CASE basket \in GridIds
          BY <5>1
        <5>2. CASE basket \notin GridIds
          BY <5>2
        <5> QED
          BY <5>1, <5>2
      <4> QED
        BY <4>1, <4>2
    <3> QED
      BY <1>2, <3>3, <3>4, <3>5
  <2> QED
    BY <1>1, <2>1, Committed DEF StoreTyped
<1>7. /\ rows' \in [Symbols -> [GridIds -> Rows]]
      /\ \A t \in Symbols, g \in GridIds : rows'[t][g].writtenIn <= run
  <2>1. CASE SaveBasket(s)
    <3>1. PICK basket \in GridIds : /\ rows' = [rows EXCEPT ![s][basket] = BasketRow(s)]
                                    /\ BasketRow(s) \in Rows /\ BasketRow(s).writtenIn = run
      BY <1>2, <2>1, Saved
    <3>2. rows \in [Symbols -> [GridIds -> Rows]]
      BY DEF StoreTyped
    <3>3. PICK row \in Rows : row = BasketRow(s) /\ row.writtenIn = run
      BY <3>1
    <3>4. rows' = [rows EXCEPT ![s][basket] = row]
      BY <3>1, <3>3
    <3>5. rows' \in [Symbols -> [GridIds -> Rows]]
      BY <1>2, <3>2, <3>3, <3>4
    <3>6. \A t \in Symbols, g \in GridIds : rows'[t][g] = rows[t][g] \/ rows'[t][g] = row
      BY <1>2, <3>2, <3>4
    <3> QED
      BY <1>4, <3>3, <3>5, <3>6 DEF RowsBounded
  <2> QED
    BY <1>1, <2>1, Committed DEF StoreTyped, RowsBounded
<1>8. snapshot' \in Snapshots /\ snapshot'.writtenIn <= run
  <2>1. CASE TakeSnapshot
    BY <1>4, <2>1, PositionsTypedNext DEF TakeSnapshot, Snapshots, PositionsTyped
  <2> QED
    BY <1>1, <2>1, Committed DEF StoreTyped, RowsBounded
<1> QED
  BY <1>5, <1>6, <1>7, <1>8

\* What a commit that saves no basket without its trade leaves of a symbol.
LEMMA CommitRows ==
  ASSUME GridInv, GridInv', StoreTyped, RowsFollow, alive, failures = 0, run' = run,
         NEW done, "state" \in done => "trade" \in done,
         NEW s, s = TradedSymbol, Traded(s), Commit(done)
  PROVE  /\ s \in Symbols
         /\ \A t \in Symbols \ {s} : logged'[t] = logged[t] /\ rows'[t] = rows[t]
         /\ "trade" \in done => logged'[s] = pos'[s].qty
         /\ "trade" \notin done => logged'[s] = logged[s] /\ rows'[s] = rows[s]
         /\ "state" \notin done => rows'[s] = rows[s]
         /\ "state" \in done =>
              \E basket \in GridIds :
                /\ basket = IF s \in open' THEN pos'[s].gridId ELSE pos[s].gridId
                /\ rows'[s] = [rows[s] EXCEPT ![basket] = BasketRow(s)]
<1>1. s \in Symbols /\ logged \in [Symbols -> Int] /\ rows \in [Symbols -> [GridIds -> Rows]]
  BY DEF StoreTyped, Traded
<1>2. /\ pos[s].qty \in Nat /\ pos'[s].qty \in Nat
      /\ Change(s) = pos'[s].qty - pos[s].qty /\ logged[s] = pos[s].qty
  BY <1>1, PositionsAreTyped, PositionsTypedNext DEF Traded, PositionsTyped, RowsFollow
<1>3. /\ "trade" \in done => logged' = [logged EXCEPT ![s] = logged[s] + Change(s)]
      /\ "trade" \notin done => logged' = logged
      /\ "state" \in done => SaveBasket(s)
      /\ "state" \notin done => rows' = rows
  BY Committed
<1>4. logged[s] + Change(s) = pos'[s].qty
  BY <1>2
<1>5. "trade" \in done => logged'[s] = pos'[s].qty
  BY <1>1, <1>3, <1>4
<1>6. \A t \in Symbols \ {s} : logged'[t] = logged[t]
  BY <1>1, <1>3
<1>7. ASSUME "state" \in done
      PROVE  /\ \A t \in Symbols \ {s} : rows'[t] = rows[t]
             /\ \E basket \in GridIds :
                  /\ basket = IF s \in open' THEN pos'[s].gridId ELSE pos[s].gridId
                  /\ rows'[s] = [rows[s] EXCEPT ![basket] = BasketRow(s)]
  <2>1. PICK basket \in GridIds :
          /\ basket = IF s \in open' THEN pos'[s].gridId ELSE pos[s].gridId
          /\ rows' = [rows EXCEPT ![s][basket] = BasketRow(s)]
    BY <1>3, <1>7, Saved
  <2>2. PICK row : row = BasketRow(s)
    OBVIOUS
  <2>3. rows' = [rows EXCEPT ![s][basket] = row]
    BY <2>1, <2>2
  <2>4. rows'[s] = [rows[s] EXCEPT ![basket] = row] /\ \A t \in Symbols \ {s} : rows'[t] = rows[t]
    BY <1>1, <2>3
  <2> QED
    BY <2>1, <2>2, <2>4
<1> QED
  BY <1>1, <1>3, <1>5, <1>6, <1>7

\* Until the process dies, the log is ahead of every basket it reports open.
LEMMA CommitLeads ==
  ASSUME GridInv, GridInv', StoreTyped, RowsFollow, alive, failures = 0, run' = run,
         NEW done, "state" \in done => "trade" \in done,
         alive' => "state" \in done,
         NEW s, s = TradedSymbol, Traded(s), Commit(done)
  PROVE  LogLeadsRows'
<1> SUFFICES ASSUME NEW t \in Symbols, NEW g \in GridIds,
                    rows'[t][g].status = "OPEN", rows'[t][g].writtenIn = run
             PROVE  \/ rows'[t][g].qty <= logged'[t]
                    \/ ~alive' /\ t \notin open' /\ logged'[t] = 0
  BY DEF LogLeadsRows
<1>0. /\ s \in Symbols /\ \A r \in Symbols : pos[r].qty \in Nat /\ pos'[r].qty \in Nat
      /\ rows \in [Symbols -> [GridIds -> Rows]]
      /\ s \notin open' => pos'[s].qty = 0
  BY PositionsAreTyped, PositionsTypedNext DEF Traded, PositionsTyped, StoreTyped
<1>1. \A r \in Symbols : /\ logged[r] = pos[r].qty
                         /\ OpenNow(r, g) => /\ r \in open /\ pos[r].gridId = g
                                             /\ rows[r][g].qty = pos[r].qty
  BY DEF RowsFollow
<1>2. CASE logged'[t] = logged[t] /\ rows'[t] = rows[t]
  BY <1>0, <1>1, <1>2 DEF OpenNow
<1>3. CASE t = s /\ "trade" \in done
  <2>1. logged'[s] = pos'[s].qty
    BY <1>3, CommitRows
  <2>2. CASE s \notin open' /\ ~alive'
    BY <1>0, <1>3, <2>1, <2>2
  <2>5. CASE s \notin open' /\ alive'
    <3>1. SaveBasket(s)
      BY <2>5, Committed
    <3>2. PICK basket \in GridIds :
            /\ basket = pos[s].gridId
            /\ rows' = [rows EXCEPT ![s][basket] = BasketRow(s)]
            /\ BasketRow(s).status = "CLOSED"
      BY <2>5, <3>1, Saved
    <3>3. g # basket
      BY <1>0, <1>3, <3>2
    <3>4. rows'[s][g] = rows[s][g]
      BY <1>0, <3>2, <3>3
    <3>5. pos[s].gridId = g
      BY <1>1, <1>0, <1>3, <3>4 DEF OpenNow
    <3> QED
      BY <3>2, <3>3, <3>5
  <2>3. CASE s \in open' /\ rows'[s][g] = rows[s][g]
    <3>1. rows[s][g].qty = pos[s].qty /\ pos[s].qty <= pos'[s].qty
      BY <1>0, <1>1, <1>3, <2>3 DEF OpenNow, Traded
    <3> QED
      BY <1>3, <2>1, <2>3, <3>1
  <2>4. CASE s \in open' /\ rows'[s][g] # rows[s][g]
    <3>1. PICK basket \in GridIds :
            /\ basket = pos'[s].gridId
            /\ rows'[s] = [rows[s] EXCEPT ![basket] = BasketRow(s)]
      BY <2>4, CommitRows
    <3>2. rows'[s][g] = BasketRow(s)
      BY <1>0, <2>4, <3>1
    <3>3. rows'[s][g].qty = pos'[s].qty
      BY <2>4, <3>2 DEF BasketRow
    <3> QED
      BY <1>0, <1>3, <2>1, <3>3
  <2> QED
    BY <2>2, <2>3, <2>4, <2>5
<1> QED
  BY <1>2, <1>3, CommitRows

\* With all its rows written, a trade leaves them as the position is.
LEMMA CommitFollows ==
  ASSUME GridInv, GridInv', StoreTyped, RowsFollow, alive, failures = 0, run' = run,
         NEW done, "state" \in done, "trade" \in done,
         NEW s, s = TradedSymbol, Traded(s), Commit(done)
  PROVE  RowsFollow'
<1>0. /\ s \in Symbols /\ rows \in [Symbols -> [GridIds -> Rows]]
      /\ \A r \in open : r \in Symbols /\ pos[r].gridId \in GridIds
  BY PositionsAreTyped DEF Traded, PositionsTyped, StoreTyped
<1>1. \A r \in Symbols :
        /\ logged[r] = pos[r].qty
        /\ \A g \in GridIds : OpenNow(r, g) <=> r \in open /\ pos[r].gridId = g
        /\ r \in open => /\ rows[r][pos[r].gridId].qty = pos[r].qty
                         /\ rows[r][pos[r].gridId].levels = pos[r].levels
  BY DEF RowsFollow
<1>2. \A t \in Symbols \ {s} :
        /\ logged'[t] = logged[t] /\ rows'[t] = rows[t]
        /\ pos'[t] = pos[t] /\ (t \in open' <=> t \in open)
  BY CommitRows DEF Traded
<1>3. logged'[s] = pos'[s].qty
  BY CommitRows
<1>4. PICK basket \in GridIds :
        /\ basket = IF s \in open' THEN pos'[s].gridId ELSE pos[s].gridId
        /\ rows'[s] = [rows[s] EXCEPT ![basket] = BasketRow(s)]
  BY CommitRows
<1>5. /\ rows'[s][basket] = BasketRow(s)
      /\ \A g \in GridIds \ {basket} : rows'[s][g] = rows[s][g] /\ ~OpenNow(s, g)
  <2>1. s \in open => pos[s].gridId = basket
    BY <1>4 DEF Traded
  <2> QED
    BY <1>0, <1>1, <1>4, <2>1
<1>6. /\ BasketRow(s).writtenIn = run
      /\ BasketRow(s).status = IF s \in open' THEN "OPEN" ELSE "CLOSED"
      /\ s \in open' => BasketRow(s).qty = pos'[s].qty /\ BasketRow(s).levels = pos'[s].levels
  BY DEF BasketRow
<1>7. ASSUME NEW t \in Symbols
      PROVE  /\ logged'[t] = pos'[t].qty
             /\ \A g \in GridIds : rows'[t][g].status = "OPEN" /\ rows'[t][g].writtenIn = run
                                   <=> t \in open' /\ pos'[t].gridId = g
             /\ t \in open' => /\ rows'[t][pos'[t].gridId].qty = pos'[t].qty
                               /\ rows'[t][pos'[t].gridId].levels = pos'[t].levels
  <2>1. CASE t # s
    BY <1>1, <1>2, <2>1 DEF OpenNow
  <2>2. CASE t = s /\ s \in open'
    <3>1. basket = pos'[s].gridId
      BY <1>4, <2>2
    <3> QED
      BY <1>3, <1>5, <1>6, <2>2, <3>1 DEF OpenNow
  <2>3. CASE t = s /\ s \notin open'
    BY <1>3, <1>5, <1>6, <2>3 DEF OpenNow
  <2> QED
    BY <2>1, <2>2, <2>3
<1> QED
  BY <1>7 DEF RowsFollow, OpenNow

\* The four writes of a trade, and what a killed process may have committed.
LEMMA WritesOf ==
  /\ {Writes[i] : i \in 1 .. Len(Writes)} = {"trade", "event", "state", "snapshot"}
  /\ Len(Writes) = 4
  /\ \A done \in KillPoints : "state" \in done => "trade" \in done
<1>1. /\ Len(Writes) = 4 /\ 1 .. 4 = {1, 2, 3, 4}
      /\ Writes[1] = "trade" /\ Writes[2] = "event" /\ Writes[3] = "state"
      /\ Writes[4] = "snapshot"
  BY DEF Writes
<1>2. {Writes[i] : i \in 1 .. 4} = {"trade", "event", "state", "snapshot"}
  BY <1>1
<1>3. ASSUME NEW done \in KillPoints, "state" \in done PROVE "trade" \in done
  <2>1. PICK n \in 0 .. 3 : done = {Writes[i] : i \in 1 .. n}
    BY <1>1 DEF KillPoints
  <2>2. PICK i \in 1 .. n : Writes[i] = "state"
    BY <1>3, <2>1
  <2>3. 1 \in 1 .. n
    BY <2>1, <2>2
  <2> QED
    BY <1>1, <2>1, <2>3
<1> QED
  BY <1>1, <1>2, <1>3

\* The writes of a trade are four.
LEMMA FourWrites ==
  /\ IsFiniteSet({"trade", "event", "state", "snapshot"})
  /\ Cardinality({"trade", "event", "state", "snapshot"}) = 4
<1> DEFINE all == {"trade", "event", "state", "snapshot"}
<1>1. PICK a : a = {"trade"}
  OBVIOUS
<1>2. PICK b : b = a \cup {"event"}
  OBVIOUS
<1>3. PICK c : c = b \cup {"state"}
  OBVIOUS
<1>4. IsFiniteSet(a) /\ Cardinality(a) = 1
  BY <1>1, FS_Singleton
<1>5. IsFiniteSet(b) /\ Cardinality(b) = 2
  <2>1. "event" \notin a
    BY <1>1
  <2> QED
    BY <1>2, <1>4, <2>1, FS_AddElement
<1>6. IsFiniteSet(c) /\ Cardinality(c) = 3
  <2>1. "state" \notin b
    BY <1>1, <1>2
  <2> QED
    BY <1>3, <1>5, <2>1, FS_AddElement
<1>7. "snapshot" \notin c /\ all = c \cup {"snapshot"}
  BY <1>1, <1>2, <1>3
<1>8. IsFiniteSet(c \cup {"snapshot"}) /\ Cardinality(c \cup {"snapshot"}) = 3 + 1
  BY <1>6, <1>7, FS_AddElement
<1> QED
  BY <1>7, <1>8

\* A trade recorded without a new failure was recorded whole.
LEMMA WholeRecord ==
  ASSUME failures \in Nat, NEW done \in SUBSET {Writes[i] : i \in 1 .. Len(Writes)},
         failures' = failures + Len(Writes) - Cardinality(done)
  PROVE  /\ failures' \in Nat /\ failures <= failures'
         /\ failures' = 0 => failures = 0 /\ done = {"trade", "event", "state", "snapshot"}
<1> DEFINE all == {"trade", "event", "state", "snapshot"}
<1>1. done \subseteq all /\ failures' = failures + 4 - Cardinality(done)
  BY WritesOf
<1>2. IsFiniteSet(all) /\ Cardinality(all) = 4
  BY FourWrites
<1>3. /\ Cardinality(done) \in Nat /\ Cardinality(done) <= 4
      /\ Cardinality(done) = 4 => done = all
  BY <1>1, <1>2, FS_Subset, FS_CardinalityType
<1> QED
  BY <1>1, <1>3

PersistedInv == GridInv /\ StoreTyped /\ RowsBounded /\ RowsFollow /\ LogLeadsRows

\* A candle without an order touches neither the positions nor the database.
LEMMA QuietKeeps ==
  ASSUME PersistedInv, GridNext, orders' = orders, UNCHANGED <<alive, storeVars>>,
         UNCHANGED <<run, seen>>
  PROVE  StoreTyped' /\ RowsBounded' /\ RowsFollow' /\ LogLeadsRows'
<1>1. UNCHANGED <<open, pos>>
  BY NoOrder DEF PersistedInv
<1>2. UNCHANGED <<logged, events, rows, snapshot, failures, alive, run, seen>>
  BY DEF storeVars
<1>3. StoreTyped'
  BY <1>2, Zenon DEF PersistedInv, StoreTyped
<1>4. RowsBounded' /\ LogLeadsRows'
  BY <1>1, <1>2 DEF PersistedInv, RowsBounded, LogLeadsRows
<1>5. RowsFollow'
  BY <1>1, <1>2 DEF PersistedInv, RowsFollow, OpenNow
<1> QED
  BY <1>3, <1>4, <1>5

\* An order and what was written of it.
LEMMA OrderKeeps ==
  ASSUME PersistedInv, GridInv', GridNext, orders' # orders, alive,
         TradeRecorded \/ KilledWhileRecording, UNCHANGED <<run, seen>>
  PROVE  StoreTyped' /\ RowsBounded' /\ RowsFollow' /\ LogLeadsRows'
<1>0. /\ GridInv /\ StoreTyped /\ RowsBounded /\ RowsFollow /\ run' = run /\ seen' = seen
      /\ run \in 1 .. MaxRuns /\ seen \subseteq Symbols \X Times
  BY DEF PersistedInv, StoreTyped
<1>1. PICK s : s = TradedSymbol
  OBVIOUS
<1>2. Traded(TradedSymbol) /\ Traded(s)
  BY <1>0, <1>1, OrderTraded
<1>3. ASSUME NEW done, Commit(done)
      PROVE  /\ logged' \in [Symbols -> Int]
             /\ events' \in [Symbols -> [GridIds -> Int]]
             /\ rows' \in [Symbols -> [GridIds -> Rows]]
             /\ snapshot' \in Snapshots
             /\ RowsBounded'
  BY <1>0, <1>2, <1>3, CommitTyped DEF RowsBounded
<1>4. CASE TradeRecorded
  <2>1. PICK done \in SUBSET {Writes[i] : i \in 1 .. Len(Writes)} :
          /\ failures' = failures + Len(Writes) - Cardinality(done)
          /\ failures' <= MaxFailures
          /\ Commit(done)
          /\ alive' = alive
    BY <1>4 DEF TradeRecorded
  <2>2. /\ failures \in Nat /\ failures' \in Nat
        /\ failures' = 0 => failures = 0 /\ done = {"trade", "event", "state", "snapshot"}
    BY <1>0, <2>1, StoreAssumption, WholeRecord DEF StoreTyped
  <2>3. failures' \in 0 .. MaxFailures
    BY <2>1, <2>2, StoreAssumption
  <2>4. StoreTyped'
    BY <1>0, <1>3, <2>1, <2>3, Zenon DEF StoreTyped
  <2>5. ASSUME failures' = 0 PROVE RowsFollow' /\ LogLeadsRows'
    <3>1. failures = 0 /\ "state" \in done /\ "trade" \in done /\ Commit(done)
      BY <2>1, <2>2, <2>5
    <3>2. RowsFollow'
      BY <1>0, <1>1, <1>2, <3>1, CommitFollows
    <3>3. LogLeadsRows'
      BY <1>0, <1>1, <1>2, <3>1, CommitLeads
    <3> QED
      BY <3>2, <3>3
  <2>6. failures' # 0 => RowsFollow' /\ LogLeadsRows'
    BY DEF RowsFollow, LogLeadsRows
  <2> QED
    BY <1>3, <2>1, <2>4, <2>5, <2>6
<1>5. CASE KilledWhileRecording
  <2>1. PICK done \in KillPoints : Commit(done)
    BY <1>5 DEF KilledWhileRecording
  <2>2. alive' = FALSE /\ failures' = failures /\ failures \in 0 .. MaxFailures
    BY <1>0, <1>5 DEF KilledWhileRecording, StoreTyped
  <2>3. StoreTyped'
    BY <1>0, <1>3, <2>1, <2>2, Zenon DEF StoreTyped
  <2>4. RowsFollow'
    BY <2>2 DEF RowsFollow
  <2>5. "state" \in done => "trade" \in done
    BY WritesOf
  <2>6. failures = 0 => LogLeadsRows'
    BY <1>0, <1>1, <1>2, <2>1, <2>2, <2>5, CommitLeads
  <2>7. failures # 0 => LogLeadsRows'
    BY <2>2 DEF LogLeadsRows
  <2> QED
    BY <1>3, <2>1, <2>3, <2>4, <2>6, <2>7
<1> QED
  BY <1>4, <1>5

\* A fresh run owns none of the rows it finds.
LEMMA RestartKeeps ==
  ASSUME PersistedInv, Restart
  PROVE  StoreTyped' /\ RowsBounded' /\ RowsFollow' /\ LogLeadsRows'
<1>1. /\ run \in 1 .. MaxRuns /\ run < MaxRuns /\ run' = run + 1 /\ alive' = TRUE
      /\ seen' = seen \cup processed /\ logged' = [t \in Symbols |-> 0] /\ failures' = 0
      /\ UNCHANGED <<events, rows, snapshot>> /\ open' = {}
      /\ pos' = [t \in Symbols |-> NoPosition]
  BY DEF Restart, MemoryLost, PersistedInv, StoreTyped
<1>2. run' \in 1 .. MaxRuns /\ run < run' /\ run' \in Nat
  BY <1>1, StoreAssumption
<1>3. seen' \subseteq Symbols \X Times
  <2>1. processed \subseteq Symbols \X Times
    BY IInvParts, Zenon DEF PersistedInv, GridInv, FeedTypeOK
  <2>2. seen \subseteq Symbols \X Times
    BY DEF PersistedInv, StoreTyped
  <2> QED
    BY <1>1, <2>1, <2>2
<1>4. /\ logged' \in [Symbols -> Int] /\ failures' \in 0 .. MaxFailures
      /\ events' \in [Symbols -> [GridIds -> Int]]
      /\ rows' \in [Symbols -> [GridIds -> Rows]] /\ snapshot' \in Snapshots
      /\ alive' \in BOOLEAN
  BY <1>1, StoreAssumption DEF PersistedInv, StoreTyped
<1>5. StoreTyped'
  BY <1>2, <1>3, <1>4, Zenon DEF StoreTyped
<1>6. /\ \A t \in Symbols, g \in GridIds :
           rows'[t][g].writtenIn <= run' /\ rows'[t][g].writtenIn # run'
      /\ snapshot'.writtenIn <= run' /\ snapshot'.writtenIn # run'
  <2>1. /\ \A t \in Symbols, g \in GridIds : rows[t][g].writtenIn \in Nat
        /\ snapshot.writtenIn \in Nat
    <3>1. 0 .. MaxRuns \subseteq Nat
      BY StoreAssumption
    <3>2. rows \in [Symbols -> [GridIds -> Rows]] /\ snapshot \in Snapshots
      BY DEF PersistedInv, StoreTyped
    <3>3. \A t \in Symbols, g \in GridIds : rows[t][g] \in Rows
      BY <3>2
    <3> QED
      BY <3>1, <3>2, <3>3 DEF Rows, Snapshots
  <2> QED
    BY <1>1, <1>2, <2>1 DEF PersistedInv, RowsBounded
<1>7. RowsBounded' /\ LogLeadsRows'
  BY <1>6 DEF RowsBounded, LogLeadsRows
<1>8. RowsFollow'
  BY <1>1, <1>6 DEF RowsFollow, OpenNow, NoPosition
<1> QED
  BY <1>5, <1>7, <1>8

\* The store starts empty.
LEMMA PersistedInitInv == PersistedInit => PersistedInv
<1> SUFFICES ASSUME PersistedInit PROVE PersistedInv
  OBVIOUS
<1>1. GridInv
  BY GridInitInv DEF PersistedInit
<1>2. StoreTyped
  <2>1. NoRow \in Rows
    BY StoreAssumption DEF NoRow, Rows
  <2>2. [writtenIn |-> 0, open |-> 0, pnl |-> 0, cash |-> InitialBalance] \in Snapshots
    BY StoreAssumption, BrokerAssumption DEF Snapshots
  <2>3. snapshot \in Snapshots
    BY StoreAssumption DEF PersistedInit, Snapshots
  <2>4. /\ run \in 1 .. MaxRuns /\ failures \in 0 .. MaxFailures /\ alive \in BOOLEAN
        /\ seen \subseteq Symbols \X Times /\ logged \in [Symbols -> Int]
        /\ events \in [Symbols -> [GridIds -> Int]]
    BY StoreAssumption DEF PersistedInit
  <2>5. rows \in [Symbols -> [GridIds -> Rows]]
    BY <2>1 DEF PersistedInit
  <2> QED
    BY <2>3, <2>4, <2>5, Zenon DEF StoreTyped
<1>3. RowsBounded /\ LogLeadsRows
  BY DEF PersistedInit, NoRow, RowsBounded, LogLeadsRows
<1>4. RowsFollow
  BY DEF PersistedInit, GridInit, Init, NoRow, NoPosition, RowsFollow, OpenNow
<1> QED
  BY <1>1, <1>2, <1>3, <1>4 DEF PersistedInv

\* Every step keeps the invariant of the trader and its store.
LEMMA PersistedKeeps == PersistedInv /\ [PersistedNext]_persistedVars => PersistedInv'
<1> SUFFICES ASSUME PersistedInv, [PersistedNext]_persistedVars PROVE PersistedInv'
  OBVIOUS
<1>1. GridInv'
  BY PersistedSteps, GridStep, FreshMemory DEF PersistedInv
<1>2. CASE PersistedStep
  <2>1. GridNext /\ alive /\ UNCHANGED <<run, seen>>
        /\ IF orders' = orders THEN UNCHANGED <<alive, storeVars>>
                               ELSE TradeRecorded \/ KilledWhileRecording
    BY <1>2 DEF PersistedStep
  <2>2. CASE orders' = orders
    <3>1. UNCHANGED <<alive, storeVars>>
      BY <2>1, <2>2
    <3>2. StoreTyped' /\ RowsBounded' /\ RowsFollow' /\ LogLeadsRows'
      BY <2>1, <2>2, <3>1, QuietKeeps
    <3> QED
      BY <1>1, <3>2 DEF PersistedInv
  <2>3. CASE orders' # orders
    <3>1. TradeRecorded \/ KilledWhileRecording
      BY <2>1, <2>3
    <3>2. StoreTyped' /\ RowsBounded' /\ RowsFollow' /\ LogLeadsRows'
      BY <1>1, <2>1, <2>3, <3>1, OrderKeeps
    <3> QED
      BY <1>1, <3>2 DEF PersistedInv
  <2> QED
    BY <2>2, <2>3
<1>3. CASE Restart
  BY <1>1, <1>3, RestartKeeps DEF PersistedInv
<1>4. CASE UNCHANGED persistedVars
  <2>1. UNCHANGED <<run, alive, seen, logged, events, rows, snapshot, failures, open, pos>>
    BY <1>4 DEF persistedVars, storeVars, gridVars, vars, bookVars
  <2>2. StoreTyped'
    BY <2>1, Zenon DEF PersistedInv, StoreTyped
  <2>3. RowsBounded' /\ LogLeadsRows' /\ RowsFollow'
    BY <2>1 DEF PersistedInv, RowsBounded, LogLeadsRows, RowsFollow, OpenNow
  <2> QED
    BY <1>1, <2>2, <2>3 DEF PersistedInv
<1> QED
  BY <1>2, <1>3, <1>4 DEF PersistedNext

\* It holds of every run of the process.
THEOREM PersistedInvariant == PersistedSpec => []PersistedInv
  BY PersistedInitInv, PersistedKeeps, PTL DEF PersistedSpec

\* Every variable of the trader and of its store keeps its type.
THEOREM StoreTypeCorrect == PersistedSpec => []StoreTypeOK
<1>1. PersistedInv => StoreTypeOK
  BY Zenon DEF PersistedInv, GridInv, IInv, StrategyInv, StrategyTypeOK, StoreTyped, StoreTypeOK,
               GridTypeOK
<1> QED
  BY <1>1, PersistedInvariant, PTL

\* While no write has failed, and wherever the process is killed, the trade log
\* bought what a basket holds that this run reports open, unless the sale of the
\* whole position was logged and the process killed before the basket's row.
THEOREM LogLeads == PersistedSpec => []LogLeadsRows
<1>1. PersistedInv => LogLeadsRows
  BY DEF PersistedInv
<1> QED
  BY <1>1, PersistedInvariant, PTL

(***************************************************************************)
(* The account snapshot.                                                   *)
(***************************************************************************)

SnapshotFollows ==
  alive /\ failures = 0 /\ snapshot.writtenIn = run =>
    snapshot.open = openPositions /\ snapshot.pnl = dailyPnl /\ snapshot.cash = quote

\* When every symbol is traded against the quote asset, only an order moves cash.
LEMMA OnlyOrdersMoveCash ==
  ASSUME QuotedSymbols = Symbols, GridInv, GridNext, orders' = orders
  PROVE  quote' = quote
<1>0. TradeInv /\ FeedTypeOK /\ orders' # orders + 1
  <2>1. orders \in Nat
    BY PositionsAreTyped DEF PositionsTyped
  <2>2. orders' # orders + 1
    BY <2>1
  <2> QED
    BY <2>2, IInvParts, Zenon DEF GridInv
<1>1. CASE SignalTaken
  <2>1. OnSignal(emitted)
    BY <1>1 DEF SignalTaken
  <2>2. CASE SellWithoutPosition(emitted) \/ LifecycleBlocked(emitted) \/ RiskRejected(emitted)
    BY <2>2 DEF SellWithoutPosition, LifecycleBlocked, RiskRejected, brokerVars
  <2>3. CASE SellSignal(emitted)
    BY <1>0, <2>3 DEF SellSignal, ClosePosition, SellFills, brokerVars
  <2>4. ASSUME NEW qty, OpenPosition(emitted, qty) \/ ScaleIn(emitted, qty) PROVE FALSE
    BY <1>0, <2>4 DEF OpenPosition, ScaleIn, BuyFills
  <2>5. ASSUME NEW qty, BuyOrderRejected(emitted, qty) PROVE quote' = quote
    BY <2>5 DEF BuyOrderRejected, BuyRefused, brokerVars
  <2>6. ASSUME NEW qty, BuyExecutionError(emitted, qty) PROVE FALSE
    <3>1. current \in Candles
      BY <1>0, <2>6 DEF BuyExecutionError, BuyApproved, PastLifecycle, AtStrategy, Idle, FeedTypeOK
    <3> QED
      BY <2>6, <3>1 DEF BuyExecutionError, BuyRaises, Candles
  <2> QED
    BY <2>1, <2>2, <2>3, <2>4, <2>5, <2>6 DEF OnSignal
<1>2. CASE ~SignalTaken
  <2>1. Feed \/ Buffering \/ RegimeBlocked \/ StrategyError \/ NoSignal \/ Interrupt
    BY <1>2 DEF GridNext, GridAdmit, SignalLost, NothingEmitted, CandleIgnored, GridInterrupt, Feed
  <2>2. ASSUME NEW c, ClosePosition(c.symbol, ExitPrice(c), c.time) PROVE FALSE
    BY <1>0, <2>2 DEF ClosePosition, SellFills
  <2> QED
    BY <2>1, <2>2, OtherTrades
<1> QED
  BY <1>1, <1>2

\* The snapshot follows the account.
LEMMA SnapshotKeeps ==
  ASSUME QuotedSymbols = Symbols, PersistedInv, SnapshotFollows, [PersistedNext]_persistedVars
  PROVE  SnapshotFollows'
<1>0. /\ GridInv /\ run \in Nat /\ failures \in Nat /\ snapshot.writtenIn \in Nat
      /\ snapshot.writtenIn <= run
  <2>1. run \in 1 .. MaxRuns /\ failures \in 0 .. MaxFailures /\ snapshot \in Snapshots
    BY DEF PersistedInv, StoreTyped
  <2>2. 0 .. MaxRuns \subseteq Nat /\ 1 .. MaxRuns \subseteq Nat /\ 0 .. MaxFailures \subseteq Nat
    BY StoreAssumption
  <2>3. snapshot.writtenIn \in 0 .. MaxRuns
    BY <2>1 DEF Snapshots
  <2> QED
    BY <2>1, <2>2, <2>3 DEF PersistedInv, RowsBounded
<1>1. CASE PersistedStep /\ orders' = orders
  <2>1. GridNext /\ UNCHANGED <<alive, snapshot, failures, run>>
    BY <1>1 DEF PersistedStep, storeVars
  <2>2. UNCHANGED <<openPositions, dailyPnl, quote>>
    BY <1>0, <1>1, <2>1, NoOrder, OnlyOrdersMoveCash
  <2> QED
    BY <2>1, <2>2 DEF SnapshotFollows
<1>2. CASE PersistedStep /\ orders' # orders /\ TradeRecorded
  <2>1. PICK done \in SUBSET {Writes[i] : i \in 1 .. Len(Writes)} :
          failures' = failures + Len(Writes) - Cardinality(done) /\ Commit(done)
    BY <1>2 DEF TradeRecorded
  <2>2. failures' = 0 => "snapshot" \in done
    BY <1>0, <2>1, WholeRecord
  <2>3. failures' = 0 => TakeSnapshot
    BY <2>1, <2>2 DEF Commit
  <2> QED
    BY <2>3 DEF SnapshotFollows, TakeSnapshot
<1>3. CASE KilledWhileRecording
  BY <1>3 DEF KilledWhileRecording, SnapshotFollows
<1>4. CASE Restart
  <2>1. snapshot'.writtenIn # run'
    BY <1>0, <1>4 DEF Restart
  <2> QED
    BY <2>1 DEF SnapshotFollows
<1>5. CASE UNCHANGED persistedVars
  BY <1>5 DEF persistedVars, gridVars, vars, brokerVars, riskVars, storeVars, SnapshotFollows
<1>6. PersistedStep => orders' = orders \/ TradeRecorded \/ KilledWhileRecording
  BY DEF PersistedStep
<1> QED
  BY <1>1, <1>2, <1>3, <1>4, <1>5, <1>6 DEF PersistedNext

\* While the process lives and no write failed, the database tells the positions
\* and the account, when every symbol is traded against the quote asset: a charge
\* that an execution error leaks is in no snapshot.
THEOREM StoreFollows ==
  ASSUME QuotedSymbols = Symbols
  PROVE  PersistedSpec => []StoreFollowsBooks
<1>1. PersistedInit => SnapshotFollows
  BY DEF PersistedInit, SnapshotFollows
<1>2. PersistedInv /\ SnapshotFollows /\ [PersistedNext]_persistedVars => SnapshotFollows'
  BY SnapshotKeeps
<1>3. PersistedInv /\ SnapshotFollows => StoreFollowsBooks
  <2> SUFFICES ASSUME PersistedInv, SnapshotFollows, alive, failures = 0
               PROVE  /\ \A s \in Symbols :
                           /\ logged[s] = pos[s].qty
                           /\ { g \in GridIds : OpenNow(s, g) } =
                              IF s \in open THEN {pos[s].gridId} ELSE {}
                           /\ s \in open => /\ rows[s][pos[s].gridId].qty = pos[s].qty
                                            /\ rows[s][pos[s].gridId].levels = pos[s].levels
                      /\ snapshot.writtenIn = run =>
                           snapshot.open = openPositions /\ snapshot.pnl = dailyPnl
                           /\ snapshot.cash = quote
    BY DEF StoreFollowsBooks, OpenNow
  <2>1. \A s \in Symbols :
          /\ logged[s] = pos[s].qty
          /\ \A g \in GridIds : OpenNow(s, g) <=> s \in open /\ pos[s].gridId = g
          /\ s \in open => /\ rows[s][pos[s].gridId].qty = pos[s].qty
                           /\ rows[s][pos[s].gridId].levels = pos[s].levels
    BY DEF PersistedInv, RowsFollow
  <2>2. \A s \in open : pos[s].gridId \in GridIds
    BY PositionsAreTyped DEF PersistedInv, PositionsTyped
  <2>3. ASSUME NEW s \in Symbols
        PROVE  { g \in GridIds : OpenNow(s, g) } = IF s \in open THEN {pos[s].gridId} ELSE {}
    BY <2>1, <2>2
  <2> QED
    BY <2>1, <2>3 DEF SnapshotFollows
<1> QED
  BY <1>1, <1>2, <1>3, PersistedInvariant, PTL DEF PersistedSpec

(***************************************************************************)
(* The rows a lost write leaves behind.                                    *)
(***************************************************************************)

\* The baskets with an OPEN row of this run and no position.
Stray == { k \in Symbols \X GridIds : OpenNow(k[1], k[2])
                                      /\ ~(k[1] \in open /\ pos[k[1]].gridId = k[2]) }

\* GridIds may be infinite; that the stray rows are not is part of the invariant.
StrayBounded == alive => IsFiniteSet(Stray) /\ Cardinality(Stray) <= failures

\* What is in Stray.
LEMMA StrayIs ==
  ASSUME NEW t \in Symbols, NEW g \in GridIds
  PROVE  <<t, g>> \in Stray <=> OpenNow(t, g) /\ ~(t \in open /\ pos[t].gridId = g)
BY DEF Stray

\* The same after a step.
LEMMA StrayIsNext ==
  ASSUME NEW t \in Symbols, NEW g \in GridIds
  PROVE  <<t, g>> \in Stray' <=> OpenNow(t, g)' /\ ~(t \in open' /\ pos'[t].gridId = g)
BY DEF Stray

\* A set of stray rows that did not grow is still counted.
LEMMA StrayShrinks ==
  ASSUME failures \in Nat, failures' \in Nat, failures <= failures',
         IsFiniteSet(Stray), Cardinality(Stray) <= failures, Stray' \subseteq Stray
  PROVE  IsFiniteSet(Stray') /\ Cardinality(Stray') <= failures'
<1>1. /\ IsFiniteSet(Stray') /\ Cardinality(Stray') <= Cardinality(Stray)
      /\ Cardinality(Stray) \in Nat /\ Cardinality(Stray') \in Nat
  BY FS_Subset, FS_CardinalityType
<1> QED
  BY <1>1

\* A write of a basket's state leaves no stray row of that basket; a lost one
\* leaves one more, of the basket that was closed.
LEMMA StrayAfterTrade ==
  ASSUME GridInv, GridInv', StoreTyped, RowsBounded, NEW s, s = TradedSymbol, Traded(s),
         NEW done, Commit(done), run' = run
  PROVE  /\ "state" \in done => Stray' \subseteq Stray
         /\ Stray' \subseteq Stray \cup {<<s, pos[s].gridId>>}
<1>1. /\ s \in Symbols
      /\ \A t \in Symbols \ {s} : pos'[t] = pos[t] /\ (t \in open' <=> t \in open)
      /\ s \in open /\ s \in open' => pos'[s].gridId = pos[s].gridId
      /\ s \notin open' => s \in open
  BY DEF Traded
<1>2. Stray' \subseteq Symbols \X GridIds /\ rows \in [Symbols -> [GridIds -> Rows]]
  BY DEF Stray, StoreTyped
<1>3. ASSUME "state" \in done PROVE Stray' \subseteq Stray
  <2>1. SaveBasket(s)
    BY <1>3, Committed
  <2>2. PICK b \in GridIds :
          /\ b = IF s \in open' THEN pos'[s].gridId ELSE pos[s].gridId
          /\ rows' = [rows EXCEPT ![s][b] = BasketRow(s)]
          /\ BasketRow(s).status = IF s \in open' THEN "OPEN" ELSE "CLOSED"
    BY <2>1, Saved
  <2>3. ASSUME NEW t \in Symbols, NEW g \in GridIds, <<t, g>> \in Stray'
        PROVE  <<t, g>> \in Stray
    <3>1. OpenNow(t, g)' /\ ~(t \in open' /\ pos'[t].gridId = g)
      BY <2>3, StrayIsNext
    <3>2. ~(t = s /\ g = b)
      <4> SUFFICES ASSUME t = s, g = b PROVE FALSE
        OBVIOUS
      <4>1. s \notin open'
        BY <2>2, <3>1
      <4>2. rows'[s][b] = BasketRow(s) /\ BasketRow(s).status = "CLOSED"
        BY <1>1, <1>2, <2>2, <4>1
      <4> QED
        BY <3>1, <4>2 DEF OpenNow
    <3>3. rows'[t][g] = rows[t][g]
      BY <1>1, <1>2, <2>2, <3>2
    <3>4. OpenNow(t, g)
      BY <3>1, <3>3 DEF OpenNow
    <3>5. ~(t \in open /\ pos[t].gridId = g)
      BY <1>1, <2>2, <3>1, <3>2
    <3> QED
      BY <3>4, <3>5, StrayIs
  <2> QED
    BY <1>2, <2>3
<1>4. ASSUME "state" \notin done PROVE Stray' \subseteq Stray \cup {<<s, pos[s].gridId>>}
  <2>1. rows' = rows
    BY <1>4, Committed
  <2>2. ASSUME NEW t \in Symbols, NEW g \in GridIds, <<t, g>> \in Stray',
               ~(t = s /\ g = pos[s].gridId)
        PROVE  <<t, g>> \in Stray
    <3>1. OpenNow(t, g)' /\ ~(t \in open' /\ pos'[t].gridId = g)
      BY <2>2, StrayIsNext
    <3>2. OpenNow(t, g)
      BY <2>1, <3>1 DEF OpenNow
    <3>3. ~(t \in open /\ pos[t].gridId = g)
      BY <1>1, <2>2, <3>1
    <3> QED
      BY <3>2, <3>3, StrayIs
  <2> QED
    BY <1>2, <2>2
<1> QED
  BY <1>3, <1>4

\* A lost write of the state counts as a failure.
LEMMA LostState ==
  ASSUME failures \in Nat, NEW done \in SUBSET {Writes[i] : i \in 1 .. Len(Writes)},
         "state" \notin done, failures' = failures + Len(Writes) - Cardinality(done)
  PROVE  failures + 1 <= failures'
<1> DEFINE all == {"trade", "event", "state", "snapshot"}
<1>1. done \subseteq all /\ failures' = failures + 4 - Cardinality(done) /\ done # all
  BY WritesOf
<1>2. PICK rest : rest = done \cup {"state"}
  OBVIOUS
<1>3. IsFiniteSet(done) /\ Cardinality(done) \in Nat
  <2>1. IsFiniteSet({Writes[i] : i \in 1 .. Len(Writes)})
    BY FourWrites, WritesOf
  <2> QED
    BY <2>1, FS_Subset, FS_CardinalityType
<1>4. Cardinality(rest) = Cardinality(done) + 1
  BY <1>2, <1>3, FS_AddElement
<1>5. Cardinality(rest) <= 4
  <2>1. rest \in SUBSET all
    BY <1>1, <1>2
  <2>2. IsFiniteSet(all) /\ Cardinality(all) = 4
    BY FourWrites
  <2>3. Cardinality(rest) <= Cardinality(all)
    BY <2>1, <2>2, FS_Subset, Zenon
  <2> QED
    BY <2>2, <2>3
<1> QED
  BY <1>1, <1>3, <1>4, <1>5

\* Every step keeps the count.
LEMMA StrayStep ==
  ASSUME PersistedInv, PersistedInv', StrayBounded, [PersistedNext]_persistedVars
  PROVE  StrayBounded'
<1>0. /\ GridInv /\ GridInv' /\ StoreTyped /\ RowsBounded /\ RowsBounded' /\ StoreTyped'
      /\ failures \in Nat /\ failures' \in Nat
  BY StoreAssumption DEF PersistedInv, StoreTyped
<1>1. ASSUME UNCHANGED <<run, rows, open, pos, alive, failures>> PROVE StrayBounded'
  <2>1. Stray' = Stray
    BY <1>1 DEF Stray, OpenNow
  <2> QED
    BY <1>1, <2>1 DEF StrayBounded
<1>2. CASE PersistedStep /\ orders' = orders
  <2>1. GridNext /\ UNCHANGED <<run, alive, storeVars>>
    BY <1>2 DEF PersistedStep
  <2>2. UNCHANGED <<open, pos>>
    BY <1>0, <1>2, <2>1, NoOrder
  <2> QED
    BY <1>1, <2>1, <2>2 DEF storeVars
<1>3. CASE PersistedStep /\ orders' # orders
  <2>1. GridNext /\ alive /\ run' = run /\ (TradeRecorded \/ KilledWhileRecording)
    BY <1>3 DEF PersistedStep
  <2>2. PICK s : s = TradedSymbol
    OBVIOUS
  <2>3. Traded(s)
    BY <1>0, <1>3, <2>1, <2>2, OrderTraded
  <2>4. CASE TradeRecorded
    <3>1. PICK done \in SUBSET {Writes[i] : i \in 1 .. Len(Writes)} :
            /\ failures' = failures + Len(Writes) - Cardinality(done)
            /\ Commit(done)
      BY <2>4 DEF TradeRecorded
    <3>2. failures <= failures'
      BY <1>0, <3>1, WholeRecord
    <3>3. /\ "state" \in done => Stray' \subseteq Stray
          /\ Stray' \subseteq Stray \cup {<<s, pos[s].gridId>>}
      BY <1>0, <2>1, <2>2, <2>3, <3>1, StrayAfterTrade
    <3>4. IsFiniteSet(Stray) /\ Cardinality(Stray) <= failures
      BY <2>1 DEF StrayBounded
    <3>5. ASSUME "state" \in done PROVE StrayBounded'
      BY <1>0, <3>2, <3>3, <3>4, <3>5, StrayShrinks DEF StrayBounded
    <3>6. ASSUME "state" \notin done PROVE StrayBounded'
      <4>1. failures + 1 <= failures'
        BY <1>0, <3>1, <3>6, LostState
      <4>2. PICK more : more = Stray \cup {<<s, pos[s].gridId>>}
        OBVIOUS
      <4>3. IsFiniteSet(more) /\ Cardinality(more) <= Cardinality(Stray) + 1
        <5>1. Cardinality(Stray) \in Nat
          BY <3>4, FS_CardinalityType
        <5>2. PICK k : k = <<s, pos[s].gridId>>
          OBVIOUS
        <5>3. /\ IsFiniteSet(Stray \cup {k})
              /\ Cardinality(Stray \cup {k}) =
                 IF k \in Stray THEN Cardinality(Stray) ELSE Cardinality(Stray) + 1
          BY <3>4, FS_AddElement, Zenon
        <5>4. more = Stray \cup {k}
          BY <4>2, <5>2
        <5> QED
          BY <5>1, <5>3, <5>4
      <4>4. /\ IsFiniteSet(Stray') /\ Cardinality(Stray') <= Cardinality(more)
        BY <3>3, <4>2, <4>3, FS_Subset
      <4>5. /\ Cardinality(Stray') \in Nat /\ Cardinality(more) \in Nat
            /\ Cardinality(Stray) \in Nat
        BY <3>4, <4>3, <4>4, FS_CardinalityType
      <4>6. Cardinality(Stray') <= failures'
        BY <1>0, <3>4, <4>1, <4>3, <4>4, <4>5
      <4> QED
        BY <4>4, <4>6 DEF StrayBounded
    <3> QED
      BY <3>5, <3>6
  <2>5. CASE KilledWhileRecording
    BY <2>5 DEF KilledWhileRecording, StrayBounded
  <2> QED
    BY <2>1, <2>4, <2>5
<1>4. CASE Restart
  <2>1. run \in 1 .. MaxRuns /\ run' = run + 1 /\ rows' = rows /\ failures' = 0
    BY <1>4 DEF Restart, PersistedInv, StoreTyped
  <2>2. ASSUME NEW t \in Symbols, NEW g \in GridIds PROVE ~OpenNow(t, g)'
    <3>1. rows[t][g].writtenIn <= run /\ rows[t][g].writtenIn \in 0 .. MaxRuns
      <4>1. rows[t][g] \in Rows
        BY <1>0 DEF StoreTyped
      <4> QED
        BY <1>0, <4>1 DEF RowsBounded, Rows
    <3>2. rows'[t][g].writtenIn # run'
      BY <2>1, <3>1, StoreAssumption
    <3> QED
      BY <3>2 DEF OpenNow
  <2>3. Stray' = {}
    BY <2>2 DEF Stray
  <2> QED
    BY <2>1, <2>3, FS_EmptySet DEF StrayBounded
<1>5. CASE UNCHANGED persistedVars
  BY <1>1, <1>5 DEF persistedVars, storeVars, gridVars, vars, bookVars
<1> QED
  BY <1>2, <1>3, <1>4, <1>5 DEF PersistedNext

\* While the process lives, the baskets its database wrongly reports open are no
\* more than its failed writes: one lost write never makes the rows of later
\* trades wrong.
THEOREM StraysCounted == PersistedSpec => []StrayRowsCounted
<1>1. PersistedInit => StrayBounded
  <2> SUFFICES ASSUME PersistedInit PROVE StrayBounded
    OBVIOUS
  <2>1. failures = 0 /\ \A t \in Symbols, g \in GridIds : rows[t][g].status = "none"
    BY DEF PersistedInit, NoRow
  <2>2. Stray = {}
    BY <2>1 DEF Stray, OpenNow
  <2> QED
    BY <2>1, <2>2, FS_EmptySet DEF StrayBounded
<1>2. PersistedInv /\ PersistedInv' /\ StrayBounded /\ [PersistedNext]_persistedVars
        => StrayBounded'
  BY StrayStep
<1>3. StrayBounded => StrayRowsCounted
  <2>1. Stray = { k \in Symbols \X GridIds :
                    LET row == rows[k[1]][k[2]] IN
                      /\ row.status = "OPEN" /\ row.writtenIn = run
                      /\ ~(k[1] \in open /\ pos[k[1]].gridId = k[2]) }
    BY DEF Stray, OpenNow
  <2> QED
    BY <2>1 DEF StrayBounded, StrayRowsCounted
<1> QED
  BY <1>1, <1>2, <1>3, PersistedInvariant, PTL DEF PersistedSpec

=============================================================================
