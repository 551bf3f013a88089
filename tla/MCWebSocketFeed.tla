--------------------------- MODULE MCWebSocketFeed ---------------------------
(* Two symbols, so that one may shadow the other's candles.                  *)
EXTENDS WebSocketFeed

CONSTANTS s1, s2
MCSymbols == {s1, s2}
=============================================================================
