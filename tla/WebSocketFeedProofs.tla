-------------------------- MODULE WebSocketFeedProofs --------------------------
(***************************************************************************)
(* What WebSocketFeed promises, for every set of symbols, number of        *)
(* candles and of reconnections, and capacity of a connection.             *)
(***************************************************************************)
EXTENDS WebSocketFeed, SequenceTheorems, TLAPS

-----------------------------------------------------------------------------
(* The inductive invariant *)

\* Nothing is under way without a connection, attempts are counted from the last
\* connection, and the orchestrator runs as long as the loop does.
LoopInv ==
  /\ conn # "open" => wire = <<>>
  /\ conn = "open" => attempts = 0
  /\ conn = "connecting" => attempts < MaxReconnects
  /\ conn # "over" => running
  /\ attempts <= failures + 1

\* The closed candles of a symbol arrive in the order of time, repeats included.
WireInOrder ==
  \A i, j \in 1 .. Len(wire) :
    /\ wire[i].final => wire[i].bar <= closed[wire[i].symbol]
    /\ (i < j /\ wire[i].final /\ wire[j].final /\ wire[i].symbol = wire[j].symbol) =>
          wire[i].bar <= wire[j].bar

\* What is buffered was seen, and is no later than what is still to come.
BufferedBefore(s) ==
  \A i \in 1 .. Len(buffers[s]) :
    LET m == buffers[s][i] IN
      /\ m.final /\ <<s, m.bar>> \in seen /\ m.bar <= closed[s]
      /\ \A j \in 1 .. Len(wire) :
           (wire[j].final /\ wire[j].symbol = s) => m.bar <= wire[j].bar

Increasing(b) == \A i, j \in 1 .. Len(b) : i < j => b[i].bar < b[j].bar

OrderInv ==
  /\ WireInOrder
  /\ \A s \in Symbols : BufferedBefore(s) /\ Increasing(buffers[s])

IInv == TypeOK /\ LoopInv /\ OrderInv /\ GapsExplained /\ GivesUpOnlyUnreachable

-----------------------------------------------------------------------------
(* Messages and the wire *)

\* A final message is a kline of one of the symbols.
LEMMA MessageTyped ==
  ASSUME NEW m \in Messages
  PROVE  /\ m.final \in BOOLEAN /\ m.bar \in Int
         /\ m.final => m # Noise /\ m.symbol \in Symbols /\ m.bar \in 1 .. Bars
  <1>1. CASE m = Noise
    BY <1>1 DEF Noise
  <1>2. CASE m \in [symbol : Symbols, bar : 1 .. Bars, final : BOOLEAN]
    <2>1. m.final \in BOOLEAN /\ m.bar \in 1 .. Bars /\ m.symbol \in Symbols
      BY <1>2
    <2>2. m # Noise
      <3>1. m.bar # 0
        BY <2>1
      <3>2. Noise.bar = 0
        BY DEF Noise
      <3> QED
        BY <3>1, <3>2
    <2> QED
      BY <2>1, <2>2
  <1> QED
    BY <1>1, <1>2 DEF Messages

\* The message a closed candle, or an update of one, is sent as.
LEMMA KlineTyped ==
  ASSUME NEW s \in Symbols, NEW b \in 1 .. Bars, NEW f \in BOOLEAN
  PROVE  /\ Kline(s, b, f) \in Messages /\ Kline(s, b, f).symbol = s
         /\ Kline(s, b, f).bar = b /\ Kline(s, b, f).final = f
  BY DEF Kline, Messages

LEMMA WireTyped ==
  ASSUME NEW w \in Seq(Messages)
  PROVE  /\ Len(w) \in Nat
         /\ \A i \in 1 .. Len(w) :
              /\ w[i] \in Messages /\ w[i].final \in BOOLEAN /\ w[i].bar \in Int
              /\ w[i].final => w[i] # Noise /\ w[i].symbol \in Symbols /\ w[i].bar \in 1 .. Bars
  <1>1. Len(w) \in Nat /\ \A i \in 1 .. Len(w) : w[i] \in Messages
    OBVIOUS
  <1> QED
    BY <1>1, MessageTyped

\* The closed candles of a wire, by their place on it.
LEMMA FinalsMeans ==
  ASSUME NEW w, NEW k
  PROVE  k \in FinalsOf(w) <=>
           \E i \in 1 .. Len(w) : w[i].final /\ k = <<w[i].symbol, w[i].bar>>
  BY DEF FinalsOf, OnWire

LEMMA FinalsTyped ==
  ASSUME NEW w \in Seq(Messages)
  PROVE  FinalsOf(w) \subseteq Symbols \X (1 .. Bars)
  BY FinalsMeans, WireTyped

\* A message more adds to the candles under way.
LEMMA FinalsAppend ==
  ASSUME NEW w \in Seq(Messages), NEW m \in Messages
  PROVE  /\ Append(w, m) \in Seq(Messages)
         /\ FinalsOf(w) \subseteq FinalsOf(Append(w, m))
         /\ m.final => <<m.symbol, m.bar>> \in FinalsOf(Append(w, m))
  <1> DEFINE v == Append(w, m)
  <1>1. /\ v \in Seq(Messages) /\ Len(v) = Len(w) + 1 /\ Len(w) \in Nat
        /\ v[Len(w) + 1] = m /\ \A i \in 1 .. Len(w) : v[i] = w[i] /\ i \in 1 .. Len(v)
    BY AppendProperties
  <1> HIDE DEF v
  <1>2. FinalsOf(w) \subseteq FinalsOf(v)
    <2> SUFFICES ASSUME NEW k \in FinalsOf(w) PROVE k \in FinalsOf(v)
      OBVIOUS
    <2>1. PICK i \in 1 .. Len(w) : w[i].final /\ k = <<w[i].symbol, w[i].bar>>
      BY FinalsMeans
    <2>2. i \in 1 .. Len(v) /\ v[i].final /\ k = <<v[i].symbol, v[i].bar>>
      BY <1>1, <2>1
    <2> QED
      BY <2>2, FinalsMeans
  <1>3. m.final => <<m.symbol, m.bar>> \in FinalsOf(v)
    <2>1. Len(w) + 1 \in 1 .. Len(v)
      BY <1>1
    <2> QED
      BY <1>1, <2>1, FinalsMeans
  <1> QED
    BY <1>1, <1>2, <1>3 DEF v

\* Cutting a wire in two loses no candle.
LEMMA FinalsSplit ==
  ASSUME NEW w \in Seq(Messages), NEW n \in 0 .. Len(w)
  PROVE  LET front == SubSeq(w, 1, n)
             rest  == SubSeq(w, n + 1, Len(w))
         IN /\ front \in Seq(Messages) /\ rest \in Seq(Messages) /\ Len(front) = n
            /\ \A i \in 1 .. n : front[i] = w[i]
            /\ FinalsOf(w) \subseteq FinalsOf(front) \cup FinalsOf(rest)
  <1> DEFINE front == SubSeq(w, 1, n)
             rest  == SubSeq(w, n + 1, Len(w))
  <1>1. Len(w) \in Nat /\ \A i \in 1 .. Len(w) : w[i] \in Messages
    OBVIOUS
  <1>2. front \in Seq(Messages) /\ Len(front) = n /\ \A i \in 1 .. n : front[i] = w[i]
    BY <1>1, SubSeqProperties
  <1>3. /\ rest \in Seq(Messages) /\ Len(rest) = Len(w) - n
        /\ \A i \in 1 .. Len(w) - n : rest[i] = w[n + i]
    <2>1. /\ rest \in Seq(Messages)
          /\ Len(rest) = IF n + 1 <= Len(w) THEN Len(w) - (n + 1) + 1 ELSE 0
          /\ \A i \in 1 .. Len(w) - (n + 1) + 1 : rest[i] = w[n + 1 + i - 1]
      BY <1>1, SubSeqProperties
    <2> HIDE DEF rest
    <2>2. \A i \in Int : n + 1 + i - 1 = n + i
      OBVIOUS
    <2> QED
      BY <1>1, <2>1, <2>2
  <1> HIDE DEF front, rest
  <1>4. ASSUME NEW k \in FinalsOf(w) PROVE k \in FinalsOf(front) \cup FinalsOf(rest)
    <2>1. PICK i \in 1 .. Len(w) : w[i].final /\ k = <<w[i].symbol, w[i].bar>>
      BY FinalsMeans
    <2>2. CASE i <= n
      <3>1. i \in 1 .. Len(front) /\ front[i] = w[i]
        BY <1>1, <1>2, <2>2
      <3> QED
        BY <2>1, <3>1, FinalsMeans
    <2>3. CASE i > n
      <3>1. i - n \in 1 .. Len(rest) /\ n + (i - n) = i
        BY <1>1, <1>3, <2>3
      <3>2. rest[i - n] = w[i]
        BY <1>3, <3>1
      <3> QED
        BY <2>1, <3>1, <3>2, FinalsMeans
    <2> QED
      BY <1>1, <2>2, <2>3
  <1> QED
    BY <1>2, <1>3, <1>4 DEF front, rest

\* A message read is the only one that leaves the wire.
LEMMA FinalsTail ==
  ASSUME NEW w \in Seq(Messages), w # <<>>
  PROVE  /\ Head(w) \in Messages /\ Head(w) = w[1] /\ 1 \in 1 .. Len(w)
         /\ Tail(w) \in Seq(Messages) /\ Len(Tail(w)) = Len(w) - 1 /\ Len(w) \in Nat
         /\ \A i \in 1 .. Len(Tail(w)) : Tail(w)[i] = w[i + 1]
         /\ \A k \in FinalsOf(w) : \/ k \in FinalsOf(Tail(w))
                                   \/ Head(w).final /\ k = <<Head(w).symbol, Head(w).bar>>
  <1>1. /\ Head(w) \in Messages /\ Head(w) = w[1]
        /\ Tail(w) \in Seq(Messages) /\ Len(Tail(w)) = Len(w) - 1 /\ Len(w) \in Nat
        /\ \A i \in 1 .. Len(Tail(w)) : Tail(w)[i] = w[i + 1]
    BY HeadTailProperties
  <1>2. 1 \in 1 .. Len(w)
    BY <1>1, LenProperties
  <1>3. ASSUME NEW k \in FinalsOf(w)
        PROVE  \/ k \in FinalsOf(Tail(w))
               \/ Head(w).final /\ k = <<Head(w).symbol, Head(w).bar>>
    <2>1. PICK i \in 1 .. Len(w) : w[i].final /\ k = <<w[i].symbol, w[i].bar>>
      BY FinalsMeans
    <2>2. CASE i = 1
      BY <1>1, <2>1, <2>2
    <2>3. CASE i # 1
      <3>1. i - 1 \in 1 .. Len(Tail(w)) /\ (i - 1) + 1 = i
        BY <1>1, <2>3
      <3>2. Tail(w)[i - 1] = w[i]
        BY <1>1, <3>1
      <3> QED
        BY <2>1, <3>1, <3>2, FinalsMeans
    <2> QED
      BY <2>2, <2>3
  <1> QED
    BY <1>1, <1>2, <1>3

\* The exchange sends more of a connection: a closed candle is the last of its symbol.
LEMMA ChatterMessage ==
  ASSUME TypeOK, NEW s \in Symbols, Chatter(s)
  PROVE  \E m \in Messages : /\ wire' = Append(wire, m)
                             /\ m.final => m.bar = closed[m.symbol]
  <1>1. closed[s] \in 0 .. Bars /\ Bars \in Nat
    BY FeedAssumption DEF TypeOK
  <1>2. \/ wire' = Append(wire, Noise)
        \/ closed[s] < Bars /\ wire' = Append(wire, Kline(s, closed[s] + 1, FALSE))
        \/ closed[s] > 0 /\ wire' = Append(wire, Kline(s, closed[s], TRUE))
    BY DEF Chatter
  <1>3. CASE wire' = Append(wire, Noise)
    <2>1. Noise \in Messages /\ ~Noise.final
      BY DEF Messages, Noise
    <2> QED
      BY <1>3, <2>1
  <1>4. CASE closed[s] < Bars /\ wire' = Append(wire, Kline(s, closed[s] + 1, FALSE))
    <2>1. closed[s] + 1 \in 1 .. Bars
      BY <1>1, <1>4
    <2>2. Kline(s, closed[s] + 1, FALSE) \in Messages /\ ~Kline(s, closed[s] + 1, FALSE).final
      BY <2>1, KlineTyped
    <2> QED
      BY <1>4, <2>2
  <1>5. CASE closed[s] > 0 /\ wire' = Append(wire, Kline(s, closed[s], TRUE))
    <2>1. closed[s] \in 1 .. Bars
      BY <1>1, <1>5
    <2>2. /\ Kline(s, closed[s], TRUE) \in Messages /\ Kline(s, closed[s], TRUE).symbol = s
          /\ Kline(s, closed[s], TRUE).bar = closed[s]
      BY <2>1, KlineTyped
    <2> QED
      BY <1>5, <2>2
  <1> QED
    BY <1>2, <1>3, <1>4, <1>5

-----------------------------------------------------------------------------
(* The shape of the feed, and the loop *)

BaseInv == TypeOK /\ LoopInv /\ GivesUpOnlyUnreachable

\* The loop starts connecting, with nothing closed and nothing buffered.
LEMMA InitEstablishes == Init => IInv
  <1> SUFFICES ASSUME Init PROVE IInv
    OBVIOUS
  <1> USE FeedAssumption
  <1>1. wire = <<>> /\ Len(<<>>) = 0 /\ <<>> \in Seq(Messages)
    BY DEF Init
  <1>2. TypeOK
    <2>1. buffers \in [Symbols -> Seq(Messages)] /\ closed \in [Symbols -> 0 .. Bars]
      BY <1>1 DEF Init
    <2>2. /\ conn = "connecting" /\ peer = "up" /\ attempts = 0 /\ running = TRUE
          /\ seen = {} /\ unsent = {} /\ failures = 0 /\ interrupted = FALSE
      BY DEF Init
    <2>3. attempts \in 0 .. MaxReconnects /\ failures \in Nat /\ Len(wire) <= WireCap
      BY <1>1, <2>2
    <2>4. wire \in Seq(Messages)
      BY <1>1
    <2> QED
      BY <2>1, <2>2, <2>3, <2>4, Zenon DEF TypeOK
  <1>3. LoopInv /\ GivesUpOnlyUnreachable
    BY DEF Init, LoopInv, GivesUpOnlyUnreachable
  <1>4. OrderInv
    BY <1>1 DEF Init, OrderInv, WireInOrder, BufferedBefore, Increasing
  <1>5. GapsExplained
    BY DEF Init, GapsExplained
  <1> QED
    BY <1>2, <1>3, <1>4, <1>5 DEF IInv

\* What the exchange does keeps the shape, and the loop is not concerned.
LEMMA ExchangeBase ==
  ASSUME BaseInv,
         PeerCloses \/ \E s \in Symbols : CandleCloses(s) \/ Chatter(s)
  PROVE  BaseInv'
  <1> USE FeedAssumption
  <1>1. /\ wire \in Seq(Messages) /\ Len(wire) \in Nat /\ Len(wire) <= WireCap
        /\ closed \in [Symbols -> 0 .. Bars] /\ unsent \subseteq Symbols \X (1 .. Bars)
    BY DEF BaseInv, TypeOK
  <1>2. UNCHANGED <<conn, attempts, running, buffers, seen, failures, interrupted>>
    BY DEF PeerCloses, CandleCloses, Chatter
  <1>3. ASSUME NEW m \in Messages, CanSend
        PROVE  /\ Append(wire, m) \in Seq(Messages) /\ Len(Append(wire, m)) <= WireCap
               /\ conn = "open"
    BY <1>1, <1>3, AppendProperties DEF CanSend
  <1>4. /\ closed' \in [Symbols -> 0 .. Bars] /\ peer' \in {"up", "closed", "lost"}
        /\ wire' \in Seq(Messages) /\ Len(wire') <= WireCap
        /\ unsent' \subseteq Symbols \X (1 .. Bars)
        /\ conn # "open" => wire' = wire
    <2>1. ASSUME NEW s \in Symbols, CandleCloses(s)
          PROVE  /\ closed' \in [Symbols -> 0 .. Bars] /\ peer' = peer
                 /\ wire' \in Seq(Messages) /\ Len(wire') <= WireCap
                 /\ unsent' \subseteq Symbols \X (1 .. Bars)
                 /\ conn # "open" => wire' = wire
      <3>1. closed[s] + 1 \in 1 .. Bars /\ closed' = [closed EXCEPT ![s] = @ + 1] /\ peer' = peer
        BY <1>1, <2>1 DEF CandleCloses
      <3>2. closed' \in [Symbols -> 0 .. Bars]
        BY <1>1, <3>1
      <3>3. Kline(s, closed[s] + 1, TRUE) \in Messages
        BY <3>1, KlineTyped
      <3>4. CASE CanSend /\ wire' = Append(wire, Kline(s, closed[s] + 1, TRUE)) /\ unsent' = unsent
        BY <1>1, <1>3, <3>1, <3>2, <3>3, <3>4
      <3>5. CASE unsent' = unsent \cup {<<s, closed[s] + 1>>} /\ wire' = wire
        BY <1>1, <3>1, <3>2, <3>5
      <3> QED
        BY <2>1, <3>4, <3>5 DEF CandleCloses
    <2>2. ASSUME NEW s \in Symbols, Chatter(s)
          PROVE  /\ wire' \in Seq(Messages) /\ Len(wire') <= WireCap /\ conn = "open"
                 /\ UNCHANGED <<closed, peer, unsent>>
      <3>1. \E m \in Messages : wire' = Append(wire, m)
        BY <2>2, ChatterMessage DEF BaseInv
      <3> QED
        BY <1>3, <2>2, <3>1 DEF Chatter
    <2>3. CASE PeerCloses
      <3>1. PICK n \in 0 .. Len(wire) :
              /\ wire' = SubSeq(wire, 1, n)
              /\ unsent' = unsent \cup FinalsOf(SubSeq(wire, n + 1, Len(wire)))
        BY <2>3 DEF PeerCloses
      <3>2. /\ wire' \in Seq(Messages) /\ Len(wire') = n
            /\ SubSeq(wire, n + 1, Len(wire)) \in Seq(Messages)
        BY <1>1, <3>1, FinalsSplit
      <3>3. unsent' \subseteq Symbols \X (1 .. Bars)
        BY <1>1, <3>1, <3>2, FinalsTyped
      <3> QED
        BY <1>1, <2>3, <3>2, <3>3 DEF PeerCloses
    <2>4. peer \in {"up", "closed", "lost"}
      BY DEF BaseInv, TypeOK
    <2> QED
      BY <1>1, <2>1, <2>2, <2>3, <2>4
  <1>5. TypeOK'
    BY <1>2, <1>4 DEF BaseInv, TypeOK
  <1>6. LoopInv' /\ GivesUpOnlyUnreachable'
    BY <1>2, <1>4 DEF BaseInv, LoopInv, GivesUpOnlyUnreachable
  <1> QED
    BY <1>5, <1>6 DEF BaseInv

\* Taking a message in keeps the shape of the buffers.
LEMMA TakeInTyped ==
  ASSUME TypeOK, NEW m \in Messages, TakeIn(m)
  PROVE  /\ seen' \subseteq Symbols \X (1 .. Bars)
         /\ buffers' \in [Symbols -> Seq(Messages)]
         /\ seen \subseteq seen'
         /\ (m.final /\ running) => <<m.symbol, m.bar>> \in seen'
  <1>1. CASE Taken(m)
    <2>1. /\ m.symbol \in Symbols /\ m.bar \in 1 .. Bars
          /\ seen' = seen \cup {<<m.symbol, m.bar>>}
          /\ buffers' = [buffers EXCEPT ![m.symbol] = Append(@, m)]
      BY <1>1, MessageTyped DEF Taken, TakeIn
    <2>2. buffers[m.symbol] \in Seq(Messages)
      BY <2>1 DEF TypeOK
    <2>3. Append(buffers[m.symbol], m) \in Seq(Messages)
      BY <2>2, AppendProperties
    <2> QED
      BY <2>1, <2>3 DEF TypeOK
  <1>2. CASE ~Taken(m)
    BY <1>2, MessageTyped DEF Taken, TakeIn, TypeOK
  <1> QED
    BY <1>1, <1>2

\* What the client does keeps the count of its attempts.
LEMMA ClientBase == BaseInv /\ (Client \/ Interrupt) => BaseInv'
  <1> SUFFICES ASSUME BaseInv, Client \/ Interrupt PROVE BaseInv'
    OBVIOUS
  <1> USE FeedAssumption
  <1>1. TypeOK /\ wire \in Seq(Messages) /\ Len(wire) \in Nat /\ Len(wire) <= WireCap
        /\ unsent \subseteq Symbols \X (1 .. Bars) /\ attempts \in Nat /\ failures \in Nat
        /\ attempts <= MaxReconnects /\ attempts <= failures + 1
        /\ <<>> \in Seq(Messages) /\ Len(<<>>) = 0
    BY DEF BaseInv, TypeOK, LoopInv
  <1>2. CASE Connected \/ ConnectFails \/ WakeUp \/ Drained
    <2>1. UNCHANGED <<closed, wire, running, buffers, seen, unsent, interrupted>>
      BY <1>2 DEF Connected, ConnectFails, WakeUp, Drained
    <2>2. conn # "over"
      BY <1>2 DEF Connected, ConnectFails, WakeUp, Drained
    <2>3. CASE Connected
      BY <2>1, <2>3 DEF Connected, BaseInv, TypeOK, LoopInv, GivesUpOnlyUnreachable
    <2>4. CASE ConnectFails
      <3>1. /\ conn = "connecting" /\ conn' = "sleeping" /\ attempts' = attempts + 1
            /\ failures' = failures + 1 /\ peer' = peer /\ attempts < MaxReconnects
        BY <2>4 DEF ConnectFails, Failed, BaseInv, LoopInv
      <3> QED
        BY <1>1, <2>1, <3>1 DEF BaseInv, TypeOK, LoopInv, GivesUpOnlyUnreachable
    <2>5. CASE WakeUp
      <3>1. /\ conn = "sleeping" /\ UNCHANGED <<attempts, peer, failures>>
            /\ conn' = IF attempts < MaxReconnects THEN "connecting" ELSE "over"
        BY <2>5 DEF WakeUp
      <3> QED
        BY <1>1, <2>1, <3>1 DEF BaseInv, TypeOK, LoopInv, GivesUpOnlyUnreachable
    <2>6. CASE Drained
      <3>1. /\ conn = "open" /\ wire = <<>> /\ UNCHANGED <<peer, failures>> /\ attempts = 0
            /\ \/ conn' = "connecting" /\ attempts' = attempts
               \/ conn' = "sleeping" /\ attempts' = attempts + 1
        BY <2>6 DEF Drained, Failed, BaseInv, LoopInv
      <3> QED
        BY <1>1, <2>1, <3>1 DEF BaseInv, TypeOK, LoopInv, GivesUpOnlyUnreachable
    <2> QED
      BY <1>2, <2>3, <2>4, <2>5, <2>6
  <1>3. CASE Receive \/ ReceiveRaises
    <2>1. /\ conn = "open" /\ attempts = 0 /\ running /\ wire # <<>> /\ TakeIn(Head(wire))
          /\ UNCHANGED <<closed, peer, running, failures, interrupted>>
      BY <1>3 DEF Receive, ReceiveRaises, BaseInv, LoopInv
    <2>2. /\ Head(wire) \in Messages /\ Tail(wire) \in Seq(Messages)
          /\ Len(Tail(wire)) = Len(wire) - 1
      BY <1>1, <2>1, FinalsTail
    <2>3. seen' \subseteq Symbols \X (1 .. Bars) /\ buffers' \in [Symbols -> Seq(Messages)]
      BY <1>1, <2>1, <2>2, TakeInTyped
    <2>4. /\ wire' \in Seq(Messages) /\ Len(wire') <= WireCap
          /\ unsent' \subseteq Symbols \X (1 .. Bars)
          /\ \/ conn' = conn /\ attempts' = attempts
             \/ conn' = "sleeping" /\ attempts' = attempts + 1 /\ wire' = <<>>
      <3>1. CASE Receive
        BY <1>1, <2>2, <3>1 DEF Receive
      <3>2. CASE ReceiveRaises
        <4>1. /\ wire' = <<>> /\ unsent' = unsent \cup FinalsOf(Tail(wire))
              /\ conn' = "sleeping" /\ attempts' = attempts + 1
          BY <3>2 DEF ReceiveRaises, Failed
        <4>2. unsent' \subseteq Symbols \X (1 .. Bars)
          BY <1>1, <2>2, <4>1, FinalsTyped
        <4>3. wire' \in Seq(Messages) /\ Len(wire') <= WireCap
          BY <1>1, <4>1
        <4> QED
          BY <4>1, <4>2, <4>3
      <3> QED
        BY <1>3, <3>1, <3>2
    <2>5. TypeOK'
      BY <1>1, <2>1, <2>3, <2>4 DEF TypeOK
    <2>6. LoopInv' /\ GivesUpOnlyUnreachable'
      BY <1>1, <2>1, <2>4 DEF LoopInv, GivesUpOnlyUnreachable
    <2> QED
      BY <2>5, <2>6 DEF BaseInv
  <1>4. CASE Interrupt
    <2>1. unsent' \subseteq Symbols \X (1 .. Bars)
      BY <1>1, <1>4, FinalsTyped DEF Interrupt
    <2> QED
      BY <1>1, <1>4, <2>1 DEF Interrupt, BaseInv, TypeOK, LoopInv, GivesUpOnlyUnreachable
  <1>5. CASE Stop
    BY <1>1, <1>5 DEF Stop, BaseInv, TypeOK, LoopInv, GivesUpOnlyUnreachable
  <1> QED
    BY <1>2, <1>3, <1>4, <1>5 DEF Client

\* No candle is lost but by the connection.
LEMMA GapsKept == BaseInv /\ GapsExplained /\ Next => GapsExplained'
  <1> SUFFICES ASSUME BaseInv, GapsExplained, Next PROVE GapsExplained'
    OBVIOUS
  <1> DEFINE Explained == seen \cup FinalsOf(wire) \cup unsent
  <1>1. /\ wire \in Seq(Messages) /\ closed \in [Symbols -> 0 .. Bars] /\ TypeOK
        /\ conn = "open" => running
    BY DEF BaseInv, TypeOK, LoopInv
  <1>2. SUFFICES /\ Explained \subseteq Explained'
                 /\ \/ closed' = closed
                    \/ \E s \in Symbols : /\ closed' = [closed EXCEPT ![s] = @ + 1]
                                          /\ <<s, closed[s] + 1>> \in Explained'
    <2>1. CASE closed' = closed
      BY <1>2, <2>1 DEF GapsExplained
    <2>2. ASSUME NEW s \in Symbols, closed' = [closed EXCEPT ![s] = @ + 1],
                 <<s, closed[s] + 1>> \in Explained'
          PROVE  GapsExplained'
      <3> SUFFICES ASSUME NEW t \in Symbols, NEW b \in 1 .. closed'[t]
                   PROVE  <<t, b>> \in Explained'
        BY DEF GapsExplained
      <3>1. b \in 1 .. closed[t] \/ (t = s /\ b = closed[s] + 1)
        BY <1>1, <2>2
      <3> QED
        BY <1>2, <2>2, <3>1 DEF GapsExplained
    <2> QED
      BY <1>2, <2>1, <2>2
  <1> HIDE DEF Explained
  <1>3. ASSUME NEW s \in Symbols, CandleCloses(s)
        PROVE  /\ Explained \subseteq Explained'
               /\ closed' = [closed EXCEPT ![s] = @ + 1]
               /\ <<s, closed[s] + 1>> \in Explained'
    <2> DEFINE m == Kline(s, closed[s] + 1, TRUE)
    <2>0. closed[s] \in 0 .. Bars /\ closed[s] < Bars /\ Bars \in Nat
      BY <1>1, <1>3, FeedAssumption DEF CandleCloses
    <2>1. /\ closed' = [closed EXCEPT ![s] = @ + 1] /\ seen' = seen
          /\ \/ wire' = Append(wire, m) /\ unsent' = unsent
             \/ wire' = wire /\ unsent' = unsent \cup {<<s, closed[s] + 1>>}
          /\ closed[s] + 1 \in 1 .. Bars
      <3>1. closed[s] + 1 \in 1 .. Bars
        BY <2>0
      <3> QED
        BY <1>3, <3>1 DEF CandleCloses
    <2>2. /\ FinalsOf(wire) \subseteq FinalsOf(Append(wire, m))
          /\ <<s, closed[s] + 1>> \in FinalsOf(Append(wire, m))
      <3>1. m \in Messages /\ m.symbol = s /\ m.bar = closed[s] + 1 /\ m.final
        BY <2>1, KlineTyped
      <3> HIDE DEF m
      <3>2. /\ FinalsOf(wire) \subseteq FinalsOf(Append(wire, m))
            /\ <<m.symbol, m.bar>> \in FinalsOf(Append(wire, m))
        BY <1>1, <3>1, FinalsAppend
      <3> QED
        BY <3>1, <3>2
    <2> HIDE DEF m
    <2>3. CASE wire' = Append(wire, m) /\ unsent' = unsent
      BY <2>1, <2>2, <2>3 DEF Explained
    <2>4. CASE wire' = wire /\ unsent' = unsent \cup {<<s, closed[s] + 1>>}
      BY <2>1, <2>4 DEF Explained
    <2> QED
      BY <2>1, <2>3, <2>4
  <1>4. ASSUME NEW s \in Symbols, Chatter(s)
        PROVE  Explained \subseteq Explained' /\ closed' = closed
    <2>1. PICK m \in Messages : wire' = Append(wire, m)
      BY <1>1, <1>4, ChatterMessage
    <2>2. FinalsOf(wire) \subseteq FinalsOf(wire')
      BY <1>1, <2>1, FinalsAppend
    <2> QED
      BY <1>4, <2>2 DEF Chatter, Explained
  <1>5. CASE PeerCloses
    <2>1. PICK n \in 0 .. Len(wire) :
            /\ wire' = SubSeq(wire, 1, n)
            /\ unsent' = unsent \cup FinalsOf(SubSeq(wire, n + 1, Len(wire)))
      BY <1>5 DEF PeerCloses
    <2>2. FinalsOf(wire) \subseteq FinalsOf(wire') \cup FinalsOf(SubSeq(wire, n + 1, Len(wire)))
      BY <1>1, <2>1, FinalsSplit
    <2> QED
      BY <1>5, <2>1, <2>2 DEF PeerCloses, Explained
  <1>6. CASE Receive \/ ReceiveRaises
    <2>1. /\ conn = "open" /\ running /\ wire # <<>> /\ TakeIn(Head(wire)) /\ closed' = closed
          /\ \/ wire' = Tail(wire) /\ unsent' = unsent
             \/ unsent' = unsent \cup FinalsOf(Tail(wire))
      BY <1>1, <1>6 DEF Receive, ReceiveRaises
    <2>2. /\ Head(wire) \in Messages
          /\ \A k \in FinalsOf(wire) :
               \/ k \in FinalsOf(Tail(wire))
               \/ Head(wire).final /\ k = <<Head(wire).symbol, Head(wire).bar>>
      BY <1>1, <2>1, FinalsTail
    <2>3. /\ seen \subseteq seen'
          /\ Head(wire).final => <<Head(wire).symbol, Head(wire).bar>> \in seen'
      BY <1>1, <2>1, <2>2, TakeInTyped
    <2>4. FinalsOf(Tail(wire)) \subseteq FinalsOf(wire') \cup unsent'
      BY <2>1
    <2>5. unsent \subseteq unsent'
      BY <2>1
    <2> QED
      BY <2>1, <2>2, <2>3, <2>4, <2>5 DEF Explained
  <1>7. CASE Interrupt
    BY <1>7 DEF Interrupt, Explained
  <1>8. CASE Connected \/ ConnectFails \/ WakeUp \/ Drained \/ Stop
    BY <1>8 DEF Connected, ConnectFails, WakeUp, Drained, Stop, Explained
  <1> QED
    BY <1>3, <1>4, <1>5, <1>6, <1>7, <1>8 DEF Next, Client, Interrupt, PeerCloses
-----------------------------------------------------------------------------
(* The order of the candles *)

\* v is a stretch of w.
Slice(v, w) == \E k \in Nat : \A i \in 1 .. Len(v) : i + k \in 1 .. Len(w) /\ v[i] = w[i + k]

\* More candles may have closed, none fewer.
Grown == closed' \in [Symbols -> Int] /\ \A s \in Symbols : closed[s] <= closed'[s]

\* Reading and cutting the wire do not disturb the order of what is left of it.
LEMMA SliceOrder ==
  ASSUME TypeOK, OrderInv, Grown, wire' \in Seq(Messages), Slice(wire', wire), seen \subseteq seen'
  PROVE  /\ WireInOrder'
         /\ \A s \in Symbols : buffers'[s] = buffers[s] => BufferedBefore(s)' /\ Increasing(buffers'[s])
  <1>1. /\ wire \in Seq(Messages) /\ Len(wire) \in Nat /\ Len(wire') \in Nat
        /\ closed \in [Symbols -> Int] /\ buffers \in [Symbols -> Seq(Messages)]
    BY FeedAssumption DEF TypeOK
  <1>2. PICK k \in Nat : \A i \in 1 .. Len(wire') : i + k \in 1 .. Len(wire) /\ wire'[i] = wire[i + k]
    BY DEF Slice
  <1>3. WireInOrder'
    <2> SUFFICES ASSUME NEW i \in 1 .. Len(wire'), NEW j \in 1 .. Len(wire')
                 PROVE  /\ wire'[i].final => wire'[i].bar <= closed'[wire'[i].symbol]
                        /\ (i < j /\ wire'[i].final /\ wire'[j].final
                              /\ wire'[i].symbol = wire'[j].symbol) => wire'[i].bar <= wire'[j].bar
      BY DEF WireInOrder
    <2> DEFINE x == i + k
               y == j + k
    <2>1. x \in 1 .. Len(wire) /\ y \in 1 .. Len(wire) /\ wire'[i] = wire[x] /\ wire'[j] = wire[y]
      BY <1>2
    <2>2. i < j => x < y
      BY <1>1, <1>2
    <2> HIDE DEF x, y
    <2>3. /\ wire[x].final => wire[x].bar <= closed[wire[x].symbol]
          /\ (x < y /\ wire[x].final /\ wire[y].final /\ wire[x].symbol = wire[y].symbol) =>
                wire[x].bar <= wire[y].bar
      BY <2>1 DEF OrderInv, WireInOrder
    <2>4. wire[x].final => wire[x].bar <= closed'[wire[x].symbol]
      <3> SUFFICES ASSUME wire[x].final PROVE wire[x].bar <= closed'[wire[x].symbol]
        OBVIOUS
      <3>1. wire[x].symbol \in Symbols /\ wire[x].bar \in Int
        BY <1>1, <2>1, WireTyped
      <3>2. closed[wire[x].symbol] \in Int /\ closed'[wire[x].symbol] \in Int
        BY <1>1, <3>1 DEF Grown
      <3>3. closed[wire[x].symbol] <= closed'[wire[x].symbol]
        BY <3>1 DEF Grown
      <3> QED
        BY <2>3, <3>1, <3>2, <3>3
    <2> QED
      BY <2>1, <2>2, <2>3, <2>4
  <1>4. ASSUME NEW s \in Symbols, buffers'[s] = buffers[s]
        PROVE  BufferedBefore(s)' /\ Increasing(buffers'[s])
    <2>1. BufferedBefore(s) /\ Increasing(buffers[s])
      BY DEF OrderInv
    <2>2. ASSUME NEW i \in 1 .. Len(buffers[s])
          PROVE  /\ buffers[s][i].final /\ <<s, buffers[s][i].bar>> \in seen'
                 /\ buffers[s][i].bar <= closed'[s]
                 /\ \A j \in 1 .. Len(wire') :
                      (wire'[j].final /\ wire'[j].symbol = s) => buffers[s][i].bar <= wire'[j].bar
      <3>1. /\ buffers[s][i].final /\ <<s, buffers[s][i].bar>> \in seen
            /\ buffers[s][i].bar <= closed[s]
            /\ \A j \in 1 .. Len(wire) :
                 (wire[j].final /\ wire[j].symbol = s) => buffers[s][i].bar <= wire[j].bar
        BY <2>1 DEF BufferedBefore
      <3>2. buffers[s] \in Seq(Messages)
        BY <1>1
      <3>3. buffers[s][i].bar \in Int /\ closed[s] \in Int /\ closed'[s] \in Int
        BY <1>1, <3>2, WireTyped DEF Grown
      <3>4. closed[s] <= closed'[s]
        BY DEF Grown
      <3>5. buffers[s][i].bar <= closed'[s]
        BY <3>1, <3>3, <3>4
      <3> QED
        BY <1>2, <3>1, <3>5
    <2> QED
      BY <1>4, <2>1, <2>2 DEF BufferedBefore
  <1> QED
    BY <1>3, <1>4

\* What the exchange sends is no earlier than what it has closed before.
LEMMA AppendOrder ==
  ASSUME TypeOK, OrderInv, Grown, UNCHANGED <<buffers, seen>>,
         NEW m \in Messages, wire' = Append(wire, m),
         m.final => closed[m.symbol] <= m.bar /\ m.bar <= closed'[m.symbol]
  PROVE  OrderInv'
  <1> DEFINE n == Len(wire) + 1
  <1>1. /\ wire \in Seq(Messages) /\ Len(wire) \in Nat
        /\ closed \in [Symbols -> Int] /\ buffers \in [Symbols -> Seq(Messages)]
    BY FeedAssumption DEF TypeOK
  <1>2. /\ Len(wire') = n /\ wire'[n] = m
        /\ \A i \in 1 .. Len(wire) : wire'[i] = wire[i]
    BY <1>1, AppendProperties
  <1>3. \A i \in 1 .. Len(wire') : i \in 1 .. Len(wire) \/ i = n
    BY <1>1, <1>2
  <1>4. n \in Nat /\ \A i \in 1 .. Len(wire') : ~(n < i)
    BY <1>1, <1>2
  <1> HIDE DEF n
  <1>5. m.final => /\ m.symbol \in Symbols /\ m.bar \in Int
                   /\ closed[m.symbol] \in Int /\ closed'[m.symbol] \in Int
    BY <1>1, MessageTyped DEF Grown
  <1>6. ASSUME NEW i \in 1 .. Len(wire), wire[i].final
        PROVE  /\ wire[i].symbol \in Symbols /\ wire[i].bar \in Int
               /\ wire[i].bar <= closed[wire[i].symbol]
               /\ wire[i].bar <= closed'[wire[i].symbol]
    <2>1. wire[i].symbol \in Symbols /\ wire[i].bar \in Int
      BY <1>1, <1>6, WireTyped
    <2>2. wire[i].bar <= closed[wire[i].symbol]
      BY <1>6 DEF OrderInv, WireInOrder
    <2>3. closed[wire[i].symbol] <= closed'[wire[i].symbol] /\ closed[wire[i].symbol] \in Int
          /\ closed'[wire[i].symbol] \in Int
      BY <1>1, <2>1 DEF Grown
    <2> QED
      BY <2>1, <2>2, <2>3
  <1>7. WireInOrder'
    <2> SUFFICES ASSUME NEW i \in 1 .. Len(wire'), NEW j \in 1 .. Len(wire')
                 PROVE  /\ wire'[i].final => wire'[i].bar <= closed'[wire'[i].symbol]
                        /\ (i < j /\ wire'[i].final /\ wire'[j].final
                              /\ wire'[i].symbol = wire'[j].symbol) => wire'[i].bar <= wire'[j].bar
      BY DEF WireInOrder
    <2>1. wire'[i].final => wire'[i].bar <= closed'[wire'[i].symbol]
      BY <1>2, <1>3, <1>6
    <2>2. ASSUME i < j, wire'[i].final, wire'[j].final, wire'[i].symbol = wire'[j].symbol
          PROVE  wire'[i].bar <= wire'[j].bar
      <3>1. i \in 1 .. Len(wire)
        BY <1>3, <1>4, <2>2
      <3>2. CASE j \in 1 .. Len(wire)
        BY <1>2, <2>2, <3>1, <3>2 DEF OrderInv, WireInOrder
      <3>3. CASE j = n
        <4>1. wire[i] = wire'[i] /\ wire'[j] = m
          BY <1>2, <3>1, <3>3
        <4>2. wire[i].bar <= closed[m.symbol] /\ wire[i].bar \in Int
          BY <1>6, <2>2, <3>1, <4>1
        <4> QED
          BY <1>5, <2>2, <4>1, <4>2
      <3> QED
        BY <1>3, <3>2, <3>3
    <2> QED
      BY <2>1, <2>2
  <1>8. ASSUME NEW s \in Symbols PROVE BufferedBefore(s)' /\ Increasing(buffers'[s])
    <2>1. BufferedBefore(s) /\ Increasing(buffers[s]) /\ buffers[s] \in Seq(Messages)
      BY <1>1 DEF OrderInv
    <2>2. ASSUME NEW i \in 1 .. Len(buffers[s])
          PROVE  /\ buffers[s][i].final /\ <<s, buffers[s][i].bar>> \in seen
                 /\ buffers[s][i].bar <= closed'[s]
                 /\ \A j \in 1 .. Len(wire') :
                      (wire'[j].final /\ wire'[j].symbol = s) => buffers[s][i].bar <= wire'[j].bar
      <3>1. /\ buffers[s][i].final /\ <<s, buffers[s][i].bar>> \in seen
            /\ buffers[s][i].bar <= closed[s]
            /\ \A j \in 1 .. Len(wire) :
                 (wire[j].final /\ wire[j].symbol = s) => buffers[s][i].bar <= wire[j].bar
        BY <2>1 DEF BufferedBefore
      <3>2. buffers[s][i].bar \in Int /\ closed[s] \in Int /\ closed'[s] \in Int /\ closed[s] <= closed'[s]
        BY <1>1, <2>1, WireTyped DEF Grown
      <3>3. buffers[s][i].bar <= closed'[s]
        BY <3>1, <3>2
      <3>4. (m.final /\ m.symbol = s) => buffers[s][i].bar <= m.bar
        BY <1>5, <3>1, <3>2
      <3> QED
        BY <1>2, <1>3, <3>1, <3>3, <3>4
    <2> QED
      BY <2>1, <2>2 DEF BufferedBefore
  <1> QED
    BY <1>7, <1>8 DEF OrderInv

\* A candle taken in comes after every candle of its symbol taken in before.
LEMMA TakenInOrder ==
  ASSUME TypeOK, OrderInv, wire # <<>>, TakeIn(Head(wire)), closed' = closed,
         wire' = Tail(wire) \/ wire' = <<>>
  PROVE  OrderInv'
  <1> DEFINE m == Head(wire)
  <1>1. /\ wire \in Seq(Messages) /\ Len(wire) \in Nat /\ m \in Messages /\ m = wire[1]
        /\ 1 \in 1 .. Len(wire) /\ Tail(wire) \in Seq(Messages)
        /\ Len(Tail(wire)) = Len(wire) - 1
        /\ \A i \in 1 .. Len(Tail(wire)) : Tail(wire)[i] = wire[i + 1]
    BY FinalsTail DEF TypeOK
  <1>2. /\ closed \in [Symbols -> Int] /\ buffers \in [Symbols -> Seq(Messages)]
        /\ <<>> \in Seq(Messages) /\ Len(<<>>) = 0
    BY FeedAssumption DEF TypeOK
  <1>3. Grown
    BY <1>2 DEF Grown
  <1>4. wire' \in Seq(Messages) /\ Len(wire') \in Nat
    <2>1. wire' \in Seq(Messages)
      BY <1>1, <1>2
    <2> QED
      BY <2>1
  <1>5. \A i \in 1 .. Len(wire') : i + 1 \in 1 .. Len(wire) /\ wire'[i] = wire[i + 1]
    <2>1. CASE wire' = Tail(wire)
      BY <1>1, <2>1
    <2>2. CASE wire' = <<>>
      BY <1>2, <2>2
    <2> QED
      BY <2>1, <2>2
  <1>6. Slice(wire', wire)
    BY <1>5 DEF Slice
  <1>7. seen \subseteq seen'
    BY <1>1, TakeInTyped
  <1>8. /\ WireInOrder'
        /\ \A s \in Symbols :
             buffers'[s] = buffers[s] => BufferedBefore(s)' /\ Increasing(buffers'[s])
    BY <1>3, <1>4, <1>6, <1>7, SliceOrder
  <1> HIDE DEF m
  <1>9. CASE ~Taken(m)
    BY <1>8, <1>9 DEF TakeIn, OrderInv, m
  <1>10. CASE Taken(m)
    <2>0. PICK s \in Symbols : s = m.symbol
      BY <1>1, <1>10, MessageTyped DEF Taken
    <2> DEFINE b == buffers[s]
    <2>1. /\ m.final /\ s \in Symbols /\ m.bar \in Int /\ <<s, m.bar>> \notin seen
      BY <1>1, <1>10, <2>0, MessageTyped DEF Taken
    <2>2. /\ seen' = seen \cup {<<s, m.bar>>}
          /\ buffers' = [buffers EXCEPT ![s] = Append(@, m)]
      BY <1>10, <2>0 DEF TakeIn, m
    <2>3. /\ b \in Seq(Messages) /\ buffers'[s] = Append(b, m)
          /\ \A t \in Symbols \ {s} : buffers'[t] = buffers[t]
      BY <1>2, <2>1, <2>2
    <2>4. BufferedBefore(s) /\ Increasing(b)
      BY <2>1 DEF OrderInv
    <2>5. m.bar <= closed[s] /\ closed[s] \in Int
      BY <1>1, <1>2, <2>0, <2>1 DEF OrderInv, WireInOrder
    <2>6. ASSUME NEW j \in 1 .. Len(wire'), wire'[j].final, wire'[j].symbol = s
          PROVE  m.bar <= wire'[j].bar
      <3>1. j + 1 \in 1 .. Len(wire) /\ wire'[j] = wire[j + 1] /\ 1 < j + 1
        BY <1>4, <1>5
      <3> QED
        BY <1>1, <2>0, <2>1, <2>6, <3>1 DEF OrderInv, WireInOrder
    <2>7. ASSUME NEW i \in 1 .. Len(b)
          PROVE  /\ b[i].final /\ <<s, b[i].bar>> \in seen /\ b[i].bar <= closed[s]
                 /\ b[i].bar < m.bar
      <3>1. /\ b[i].final /\ <<s, b[i].bar>> \in seen /\ b[i].bar <= closed[s]
            /\ b[i].bar <= m.bar
        BY <1>1, <2>0, <2>1, <2>4 DEF BufferedBefore
      <3>2. b[i].bar \in Int
        BY <2>3, WireTyped
      <3>3. b[i].bar # m.bar
        BY <2>1, <3>1
      <3> QED
        BY <2>1, <3>1, <3>2, <3>3
    <2>8. /\ Len(b) \in Nat /\ Len(buffers'[s]) = Len(b) + 1 /\ buffers'[s][Len(b) + 1] = m
          /\ \A i \in 1 .. Len(b) : buffers'[s][i] = b[i]
      BY <2>3, AppendProperties
    <2>9. \A i \in 1 .. Len(buffers'[s]) : i \in 1 .. Len(b) \/ i = Len(b) + 1
      BY <2>8
    <2>10. BufferedBefore(s)'
      <3>1. ASSUME NEW i \in 1 .. Len(b), NEW j \in 1 .. Len(wire'), wire'[j].final, wire'[j].symbol = s
            PROVE  b[i].bar <= wire'[j].bar
        <4>1. j + 1 \in 1 .. Len(wire) /\ wire'[j] = wire[j + 1]
          BY <1>5
        <4> QED
          BY <2>4, <3>1, <4>1 DEF BufferedBefore
      <3>2. ASSUME NEW i \in 1 .. Len(buffers'[s])
            PROVE  /\ buffers'[s][i].final /\ <<s, buffers'[s][i].bar>> \in seen'
                   /\ buffers'[s][i].bar <= closed'[s]
                   /\ \A j \in 1 .. Len(wire') :
                        (wire'[j].final /\ wire'[j].symbol = s) => buffers'[s][i].bar <= wire'[j].bar
        <4>1. CASE i \in 1 .. Len(b)
          BY <2>2, <2>7, <2>8, <3>1, <4>1
        <4>2. CASE i = Len(b) + 1
          BY <2>1, <2>2, <2>5, <2>6, <2>8, <4>2
        <4> QED
          BY <2>9, <4>1, <4>2
      <3> QED
        BY <3>2 DEF BufferedBefore
    <2>11. Increasing(buffers'[s])
      <3> SUFFICES ASSUME NEW i \in 1 .. Len(buffers'[s]), NEW j \in 1 .. Len(buffers'[s]), i < j
                   PROVE  buffers'[s][i].bar < buffers'[s][j].bar
        BY DEF Increasing
      <3>1. i \in 1 .. Len(b)
        BY <2>8
      <3>2. CASE j \in 1 .. Len(b)
        BY <2>4, <2>8, <3>1, <3>2 DEF Increasing
      <3>3. CASE j = Len(b) + 1
        BY <2>7, <2>8, <3>1, <3>3
      <3> QED
        BY <2>9, <3>2, <3>3
    <2> QED
      BY <1>8, <2>3, <2>10, <2>11 DEF OrderInv
  <1> QED
    BY <1>9, <1>10

\* No step disturbs the order.
LEMMA OrderKept == TypeOK /\ TypeOK' /\ OrderInv /\ Next => OrderInv'
  <1> SUFFICES ASSUME TypeOK, TypeOK', OrderInv, Next PROVE OrderInv'
    OBVIOUS
  <1>1. /\ wire \in Seq(Messages) /\ Len(wire) \in Nat /\ wire' \in Seq(Messages)
        /\ closed \in [Symbols -> Int] /\ <<>> \in Seq(Messages) /\ Len(<<>>) = 0
    BY FeedAssumption DEF TypeOK
  <1>2. closed' = closed => Grown
    BY <1>1 DEF Grown
  <1>3. wire' = wire => Slice(wire', wire)
    <2> SUFFICES ASSUME wire' = wire PROVE Slice(wire', wire)
      OBVIOUS
    <2>1. \A i \in 1 .. Len(wire') : i + 0 \in 1 .. Len(wire) /\ wire'[i] = wire[i + 0]
      BY <1>1
    <2> QED
      BY <2>1 DEF Slice
  <1>4. ASSUME Grown, Slice(wire', wire), UNCHANGED <<buffers, seen>> PROVE OrderInv'
    BY <1>1, <1>4, SliceOrder DEF OrderInv
  <1>5. ASSUME NEW s \in Symbols, CandleCloses(s) PROVE OrderInv'
    <2>1. /\ closed[s] \in 0 .. Bars /\ closed[s] < Bars /\ closed' = [closed EXCEPT ![s] = @ + 1]
          /\ UNCHANGED <<buffers, seen>> /\ Bars \in Nat
      BY <1>5, FeedAssumption DEF CandleCloses, TypeOK
    <2>2. Grown
      BY <1>1, <2>1 DEF Grown
    <2>3. CASE wire' = wire
      BY <1>3, <1>4, <2>1, <2>2, <2>3
    <2>4. CASE wire' = Append(wire, Kline(s, closed[s] + 1, TRUE))
      <3>1. closed[s] + 1 \in 1 .. Bars
        BY <2>1
      <3>2. PICK m \in Messages : wire' = Append(wire, m) /\ m.symbol = s /\ m.bar = closed[s] + 1
        BY <2>4, <3>1, KlineTyped
      <3>3. closed[m.symbol] <= m.bar /\ m.bar <= closed'[m.symbol]
        BY <1>1, <2>1, <3>2
      <3> QED
        BY <2>1, <2>2, <3>2, <3>3, AppendOrder
    <2> QED
      BY <1>5, <2>3, <2>4 DEF CandleCloses
  <1>6. ASSUME NEW s \in Symbols, Chatter(s) PROVE OrderInv'
    <2>1. PICK m \in Messages : /\ wire' = Append(wire, m)
                                /\ m.final => m.bar = closed[m.symbol]
      BY <1>6, ChatterMessage
    <2>2. UNCHANGED <<closed, buffers, seen>>
      BY <1>6 DEF Chatter
    <2>3. m.final => closed[m.symbol] <= m.bar /\ m.bar <= closed'[m.symbol]
      <3>1. m.bar \in Int
        BY MessageTyped
      <3> QED
        BY <2>1, <2>2, <3>1
    <2> QED
      BY <1>2, <2>1, <2>2, <2>3, AppendOrder
  <1>7. CASE PeerCloses
    <2>1. PICK n \in 0 .. Len(wire) : wire' = SubSeq(wire, 1, n)
      BY <1>7 DEF PeerCloses
    <2>2. Len(wire') = n /\ \A i \in 1 .. n : wire'[i] = wire[i]
      BY <1>1, <2>1, FinalsSplit
    <2>3. \A i \in 1 .. Len(wire') : i + 0 \in 1 .. Len(wire) /\ wire'[i] = wire[i + 0]
      BY <1>1, <2>2
    <2>4. Slice(wire', wire)
      BY <2>3 DEF Slice
    <2> QED
      BY <1>2, <1>4, <1>7, <2>4 DEF PeerCloses
  <1>8. CASE Receive \/ ReceiveRaises
    BY <1>8, TakenInOrder DEF Receive, ReceiveRaises
  <1>9. CASE Interrupt
    <2>1. Slice(<<>>, wire)
      BY <1>1 DEF Slice
    <2> QED
      BY <1>2, <1>4, <1>9, <2>1 DEF Interrupt
  <1>10. CASE Connected \/ ConnectFails \/ WakeUp \/ Drained \/ Stop
    <2>1. UNCHANGED <<closed, wire, buffers, seen>>
      BY <1>10 DEF Connected, ConnectFails, WakeUp, Drained, Stop
    <2> QED
      BY <1>2, <1>3, <1>4, <2>1
  <1> QED
    BY <1>5, <1>6, <1>7, <1>8, <1>9, <1>10 DEF Next, Client

-----------------------------------------------------------------------------
(* The theorems *)

\* Every step keeps the inductive invariant.
LEMMA StepKeeps == IInv /\ [Next]_vars => IInv'
  <1> SUFFICES ASSUME IInv, [Next]_vars PROVE IInv'
    OBVIOUS
  <1>1. CASE Next
    <2>1. BaseInv'
      BY <1>1, ExchangeBase, ClientBase DEF IInv, BaseInv, Next
    <2>2. GapsExplained'
      BY <1>1, GapsKept DEF IInv, BaseInv
    <2>3. OrderInv'
      BY <1>1, <2>1, OrderKept DEF IInv, BaseInv
    <2> QED
      BY <2>1, <2>2, <2>3 DEF IInv, BaseInv
  <1>2. CASE UNCHANGED vars
    BY <1>2 DEF vars, IInv, TypeOK, LoopInv, OrderInv, WireInOrder, BufferedBefore, GapsExplained,
                GivesUpOnlyUnreachable
  <1> QED
    BY <1>1, <1>2

\* The inductive invariant holds of every behaviour of the feed.
THEOREM FeedInvariant == Spec => []IInv
  <1>1. Init => IInv
    BY InitEstablishes
  <1>2. IInv /\ [Next]_vars => IInv'
    BY StepKeeps
  <1> QED
    BY <1>1, <1>2, PTL DEF Spec

\* The feed keeps its shape: the wire within its capacity, the attempts within
\* max_reconnect_attempts.
THEOREM FeedTypeOK == Spec => []TypeOK
  <1>1. IInv => TypeOK
    BY DEF IInv
  <1> QED
    BY <1>1, FeedInvariant, PTL

\* Every closed candle is in the buffers, on its way, or was lost with the
\* connection: the handler of a message drops none.
THEOREM FeedGapsExplained == Spec => []GapsExplained
  <1>1. IInv => GapsExplained
    BY DEF IInv
  <1> QED
    BY <1>1, FeedInvariant, PTL

\* The loop ends by itself only after a whole run of attempts that failed.
THEOREM FeedGivesUpOnlyUnreachable == Spec => []GivesUpOnlyUnreachable
  <1>1. IInv => GivesUpOnlyUnreachable
    BY DEF IInv
  <1> QED
    BY <1>1, FeedInvariant, PTL

\* What a strategy is given of a symbol is closed candles in the order of time,
\* each once, whatever was repeated, cut off or sent again.
THEOREM FeedBuffersInOrder == Spec => []BuffersInOrder
  <1>1. IInv => BuffersInOrder
    <2> SUFFICES ASSUME IInv, NEW s \in Symbols
                 PROVE  /\ \A i \in 1 .. Len(buffers[s]) : buffers[s][i].final
                        /\ \A i \in 1 .. Len(buffers[s]) - 1 :
                             buffers[s][i].bar < buffers[s][i + 1].bar
      BY DEF BuffersInOrder
    <2>1. BufferedBefore(s) /\ Increasing(buffers[s]) /\ Len(buffers[s]) \in Nat
      BY DEF IInv, OrderInv, TypeOK
    <2>2. ASSUME NEW i \in 1 .. Len(buffers[s]) - 1
          PROVE  buffers[s][i].bar < buffers[s][i + 1].bar
      <3>1. i \in 1 .. Len(buffers[s]) /\ i + 1 \in 1 .. Len(buffers[s]) /\ i < i + 1
        BY <2>1
      <3> QED
        BY <2>1, <3>1 DEF Increasing
    <2> QED
      BY <2>1, <2>2 DEF BufferedBefore
  <1> QED
    BY <1>1, FeedInvariant, PTL
=============================================================================
