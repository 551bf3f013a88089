---------------------------- MODULE WebSocketFeed ----------------------------
(***************************************************************************)
(* The kline stream of a live session: BinanceWebSocketClient's reconnect  *)
(* loop, the exchange at the other end of the connection, and the part of  *)
(* Orchestrator that takes a candle in.                                    *)
(*                                                                         *)
(* A message of the wire is a kline of a symbol, final when its candle has *)
(* closed, or Noise: a reply to SUBSCRIBE, or text that is not JSON.  What *)
(* happens to a candle after it is buffered is the module Orchestrator's.  *)
(***************************************************************************)
EXTENDS Integers, Sequences, FiniteSets

CONSTANTS
  Symbols,
  MaxReconnects,   \* max_reconnect_attempts
  Bars,            \* bound: candles per symbol
  WireCap          \* bound: messages under way on a connection

ASSUME FeedAssumption == MaxReconnects \in Nat \ {0} /\ Bars \in Nat /\ WireCap \in Nat

VARIABLES
  closed,      \* the exchange: how many candles of a symbol have closed
  wire,        \* messages of the open connection, not yet read
  conn,        \* where the subscription is: connecting, open, sleeping, over
  peer,        \* "up", or how the peer has closed the connection
  attempts,    \* attempts
  running,     \* Orchestrator._running
  buffers,     \* _candle_buffers: what the strategy will be given
  seen,        \* _processed_candles
  unsent,      \* history: candles that closed with nobody connected, or were cut off
  failures,    \* history: failed connects since the last one that succeeded
  interrupted  \* history: the user has pressed Ctrl+C

feedVars == <<closed, wire, conn, peer, attempts, running, buffers, seen>>
vars == <<closed, wire, conn, peer, attempts, running, buffers, seen,
          unsent, failures, interrupted>>

Noise == [symbol |-> "noise", bar |-> 0, final |-> FALSE]
Kline(s, b, f) == [symbol |-> s, bar |-> b, final |-> f]
Messages == [symbol : Symbols, bar : 1 .. Bars, final : BOOLEAN] \cup {Noise}

OnWire(w) == {w[i] : i \in 1 .. Len(w)}
FinalsOf(w) == {<<m.symbol, m.bar>> : m \in {x \in OnWire(w) : x.final}}

-----------------------------------------------------------------------------
(* The exchange *)

CanSend == conn = "open" /\ peer = "up" /\ Len(wire) < WireCap

\* A candle closes: whoever is connected is told once.
CandleCloses(s) ==
  /\ closed[s] < Bars
  /\ closed' = [closed EXCEPT ![s] = @ + 1]
  /\ \/ /\ CanSend
        /\ wire' = Append(wire, Kline(s, closed[s] + 1, TRUE))
        /\ UNCHANGED unsent
     \/ /\ ~(conn = "open" /\ peer = "up")
        /\ unsent' = unsent \cup {<<s, closed[s] + 1>>}
        /\ UNCHANGED wire
  /\ UNCHANGED <<conn, peer, attempts, running, buffers, seen, failures, interrupted>>

\* An update of the candle under way, the last closed one once more, or noise.
Chatter(s) ==
  /\ CanSend
  /\ \E m \in {Noise} \cup (IF closed[s] < Bars THEN {Kline(s, closed[s] + 1, FALSE)} ELSE {})
                      \cup (IF closed[s] > 0 THEN {Kline(s, closed[s], TRUE)} ELSE {}) :
       wire' = Append(wire, m)
  /\ UNCHANGED <<closed, conn, peer, attempts, running, buffers, seen,
                 unsent, failures, interrupted>>

\* The connection closes, with a normal code or without: what has arrived can
\* still be read, the rest is cut off.
PeerCloses ==
  /\ conn = "open" /\ peer = "up"
  /\ peer' \in {"closed", "lost"}
  /\ \E n \in 0 .. Len(wire) :
       /\ wire' = SubSeq(wire, 1, n)
       /\ unsent' = unsent \cup FinalsOf(SubSeq(wire, n + 1, Len(wire)))
  /\ UNCHANGED <<closed, conn, attempts, running, buffers, seen, failures, interrupted>>

-----------------------------------------------------------------------------
(* The reconnect loop *)

\* Fault: a successful connection does not reset the count.
ConnectedUncounted ==
  /\ conn = "connecting"
  /\ conn' = "open" /\ peer' = "up" /\ failures' = 0
  /\ UNCHANGED <<closed, wire, attempts, running, buffers, seen, unsent, interrupted>>

Connected ==
  /\ conn = "connecting"
  /\ conn' = "open" /\ peer' = "up" /\ attempts' = 0 /\ failures' = 0
  /\ UNCHANGED <<closed, wire, running, buffers, seen, unsent, interrupted>>

\* An exception left the connection: it counts as an attempt, and the client
\* sleeps for the reconnect delay.
Failed == conn' = "sleeping" /\ attempts' = attempts + 1

\* Fault: a refused connection is not counted.
ConnectFailsFree ==
  /\ conn = "connecting"
  /\ conn' = "sleeping"
  /\ UNCHANGED <<closed, wire, peer, attempts, running, buffers, seen,
                 unsent, failures, interrupted>>

ConnectFails ==
  /\ conn = "connecting"
  /\ Failed /\ failures' = failures + 1
  /\ UNCHANGED <<closed, wire, peer, running, buffers, seen, unsent, interrupted>>

\* The delay is over: the loop's condition is looked at.
WakeUp ==
  /\ conn = "sleeping"
  /\ conn' = IF attempts < MaxReconnects THEN "connecting" ELSE "over"
  /\ UNCHANGED <<closed, wire, peer, attempts, running, buffers, seen,
                 unsent, failures, interrupted>>

\* Everything was read from a connection the peer has closed: a normal closure
\* just ends the iteration, any other raises ConnectionClosed.
Drained ==
  /\ conn = "open" /\ wire = <<>> /\ peer # "up"
  /\ \/ peer = "closed" /\ conn' = "connecting" /\ UNCHANGED attempts
     \/ peer = "lost" /\ Failed
  /\ UNCHANGED <<closed, wire, peer, running, buffers, seen, unsent, failures, interrupted>>

-----------------------------------------------------------------------------
(* A message *)

\* Fault: a candle is known by its open time alone.
TakenByTime(m) ==
  m # Noise /\ m.final /\ running /\ m.bar \notin {k[2] : k \in seen}

\* _on_candle and process_candle take a candle in: closed, while running, once.
Taken(m) ==
  m # Noise /\ m.final /\ running /\ <<m.symbol, m.bar>> \notin seen

TakeIn(m) ==
  IF Taken(m)
  THEN /\ seen' = seen \cup {<<m.symbol, m.bar>>}
       /\ buffers' = [buffers EXCEPT ![m.symbol] = Append(@, m)]
  ELSE UNCHANGED <<seen, buffers>>

Receive ==
  /\ conn = "open" /\ wire # <<>>
  /\ TakeIn(Head(wire))
  /\ wire' = Tail(wire)
  /\ UNCHANGED <<closed, conn, peer, attempts, running, unsent, failures, interrupted>>

\* The pipeline raises on a candle it has taken in: the candle stays taken, and
\* the exception closes the connection with what is unread.
ReceiveRaises ==
  /\ conn = "open" /\ wire # <<>> /\ Taken(Head(wire))
  /\ TakeIn(Head(wire))
  /\ wire' = <<>> /\ unsent' = unsent \cup FinalsOf(Tail(wire))
  /\ Failed
  /\ UNCHANGED <<closed, peer, running, failures, interrupted>>

\* Ctrl+C cancels the subscription wherever it waits.
Interrupt ==
  /\ conn # "over"
  /\ conn' = "over" /\ interrupted' = TRUE
  /\ wire' = <<>> /\ unsent' = unsent \cup FinalsOf(wire)
  /\ UNCHANGED <<closed, peer, attempts, running, buffers, seen, failures>>

\* start() has returned or was cancelled: paper_trade calls stop().
Stop ==
  /\ conn = "over" /\ running
  /\ running' = FALSE
  /\ UNCHANGED <<closed, wire, conn, peer, attempts, buffers, seen,
                 unsent, failures, interrupted>>

-----------------------------------------------------------------------------
Init ==
  /\ closed = [s \in Symbols |-> 0] /\ wire = <<>>
  /\ conn = "connecting" /\ peer = "up" /\ attempts = 0 /\ running = TRUE
  /\ buffers = [s \in Symbols |-> <<>>] /\ seen = {}
  /\ unsent = {} /\ failures = 0 /\ interrupted = FALSE

Client ==
  Connected \/ ConnectFails \/ WakeUp \/ Drained \/ Receive \/ ReceiveRaises \/ Stop

Next ==
  \/ Client \/ PeerCloses \/ Interrupt
  \/ \E s \in Symbols : CandleCloses(s) \/ Chatter(s)

\* The client's task is scheduled: whatever it waits for ends, one way or another.
Spec == Init /\ [][Next]_vars /\ WF_vars(Client)

-----------------------------------------------------------------------------
(* Properties *)

\* The shape of the feed.
TypeOK ==
  /\ closed \in [Symbols -> 0 .. Bars]
  /\ wire \in Seq(Messages) /\ Len(wire) <= WireCap
  /\ conn \in {"connecting", "open", "sleeping", "over"}
  /\ peer \in {"up", "closed", "lost"}
  /\ attempts \in 0 .. MaxReconnects /\ running \in BOOLEAN
  /\ buffers \in [Symbols -> Seq(Messages)]
  /\ seen \subseteq Symbols \X (1 .. Bars) /\ unsent \subseteq Symbols \X (1 .. Bars)
  /\ failures \in Nat /\ interrupted \in BOOLEAN

\* Across reconnections, repeats and updates of the candle under way, what a
\* strategy is given of a symbol is closed candles in the order of time, each once.
BuffersInOrder ==
  \A s \in Symbols :
    LET b == buffers[s] IN
      /\ \A i \in 1 .. Len(b) : b[i].final
      /\ \A i \in 1 .. Len(b) - 1 : b[i].bar < b[i + 1].bar

\* A closed candle is missing from the buffers only because nobody was connected
\* when it closed, or because its connection went down before it was read: no
\* candle is dropped for another symbol's, and none by the handler.
GapsExplained ==
  \A s \in Symbols : \A b \in 1 .. closed[s] :
    <<s, b>> \in seen \cup FinalsOf(wire) \cup unsent

\* The session ends by itself only when the exchange could not be reached, the
\* whole number of attempts in a row: disconnections of a day do not add up.
GivesUpOnlyUnreachable ==
  (conn = "over" /\ ~interrupted) => failures >= MaxReconnects - 1

\* After every loss of the connection the feed comes back or gives up.
FeedReturns ==
  conn \in {"connecting", "sleeping"} ~> conn \in {"open", "over"}
=============================================================================
