------------------------------ MODULE ResearchData ------------------------------
(***************************************************************************)
(* The candles that research decides on: `backfill' downloads them page by *)
(* page while the exchange goes on making them, upserts them into the      *)
(* database, and `optimize' and `backtest' read the newest ones back and   *)
(* refuse what does not pass the quality checks.                           *)
(*                                                                         *)
(* Candle i covers the Interval ticks from i * Interval.  Of a stored      *)
(* candle only one thing is kept: whether its values are final, that is,   *)
(* whether it had closed when the exchange answered with it.  One dataset  *)
(* is modelled; the others are downloaded one after the other, the same    *)
(* way, each with a session of its own.                                    *)
(***************************************************************************)
EXTENDS Integers, FiniteSets, FiniteSetsExt

CONSTANTS
  Interval,     \* ticks of a candle
  Day,          \* ticks of a day: dates without a time start downloads
  Lookback,     \* days, in ticks, of backfill and of research alike
  PageLimit,    \* limit, candles per request
  MinFloor,     \* 60, the candles asked for whatever the look-back
  StaleAfter,   \* max(12 intervals, 24 hours), in ticks
  Timeout,      \* 30 seconds, in ticks: less than half a candle, those of a minute excepted
  Halts,        \* the sets of candles the exchange may lack
  MaxNow        \* bound of the clock

ASSUME DataAssumption ==
  /\ Interval \in Nat \ {0} /\ PageLimit \in Nat \ {0} /\ MinFloor \in Nat \ {0}
  /\ Day \in Nat \ {0} /\ Day % Interval = 0
  /\ Lookback \in Nat \ {0} /\ Lookback % Day = 0
  /\ StaleAfter \in Nat /\ MaxNow \in Nat
  /\ Timeout \in Nat /\ 2 * Timeout < Interval

VARIABLES
  now,      \* the clock, the exchange's and ours
  halted,   \* the candles the exchange lacks
  store,    \* the candles of the database: number -> final or not
  loader    \* the progress of the download

vars == <<now, halted, store, loader>>

Closed(i, t) == (i + 1) * Interval <= t

NoRows == [i \in {} |-> TRUE]

\* The rows of both, those of new where both have one.
Over(new, old) ==
  [i \in DOMAIN new \cup DOMAIN old |-> IF i \in DOMAIN new THEN new[i] ELSE old[i]]

Idle == [pc |-> "idle", from |-> 0, next |-> 0, asked |-> 0, at |-> 0,
        page |-> NoRows, rows |-> NoRows]

-----------------------------------------------------------------------------
(* HistoricalLoader.load and MarketDataService.get_klines *)

\* The date of now - days, without its time.
StartOf(t) == ((t - Lookback) \div Day) * (Day \div Interval)

\* The exchange: the first PageLimit candles from number n that have opened,
\* the last of which may be in the making.
Listed(n, t) == {i \in n .. t \div Interval : i \notin halted}
Page(n, t) ==
  [i \in {j \in Listed(n, t) : Cardinality({k \in Listed(n, t) : k < j}) < PageLimit}
     |-> Closed(i, t)]

\* get_klines keeps the rows closed by our clock, which is read after the answer.
Kept(page, t) == [i \in {j \in DOMAIN page : Closed(j, t)} |-> page[i]]

Download ==
  /\ loader.pc = "idle" /\ now >= Lookback
  /\ loader' = [Idle EXCEPT !.pc = "asking", !.from = StartOf(now), !.next = StartOf(now),
                              !.asked = now]
  /\ UNCHANGED <<now, halted, store>>

Answer ==
  /\ loader.pc = "asking"
  /\ loader' = [loader EXCEPT !.pc = "answered", !.at = now, !.page = Page(loader.next, now)]
  /\ UNCHANGED <<now, halted, store>>

\* Fault: a row skipped between two pages.
AfterSkipping(kept) == Max(DOMAIN kept) + 2

\* last close time + 1
After(kept) == Max(DOMAIN kept) + 1

\* Fault: any page taken for the last one.
LastAlways(kept) == TRUE

\* A page that is not full, without its unclosed candle, is the last.
Last(kept) == Cardinality(DOMAIN kept) < PageLimit

\* An empty page ends the download; with no rows at all there is nothing to save.
Take ==
  /\ loader.pc = "answered"
  /\ LET kept == Kept(loader.page, now)
         rows == Over(loader.rows, kept)
     IN \/ /\ DOMAIN kept = {}
           /\ loader' = IF DOMAIN loader.rows = {} THEN Idle
                        ELSE [loader EXCEPT !.pc = "saving", !.page = NoRows]
        \/ /\ DOMAIN kept # {} /\ Last(kept)
           /\ loader' = [loader EXCEPT !.pc = "saving", !.page = NoRows, !.rows = rows]
        \/ /\ DOMAIN kept # {} /\ ~Last(kept)
           /\ loader' = [loader EXCEPT !.pc = "asking", !.page = NoRows, !.rows = rows,
                                       !.next = After(kept), !.asked = now]
  /\ UNCHANGED <<now, halted, store>>

\* Fault: rows that are there already are left as they are.
UpsertKeeping(rows) == Over(store, rows)

\* CandleRepository.upsert of every row, and the commit.
Upsert(rows) == Over(rows, store)

Save ==
  /\ loader.pc = "saving"
  /\ store' = Upsert(loader.rows)
  /\ loader' = Idle
  /\ UNCHANGED <<now, halted>>

\* A request raises, or the process is killed: no row is stored.
DownloadFails ==
  /\ loader.pc # "idle"
  /\ loader' = Idle
  /\ UNCHANGED <<now, halted, store>>

\* Time passes, but a request that takes longer than its timeout fails.
Tick ==
  /\ now < MaxNow
  /\ loader.pc \in {"asking", "answered"} => now < loader.asked + Timeout
  /\ now' = now + 1
  /\ UNCHANGED <<halted, store, loader>>

-----------------------------------------------------------------------------
(* What optimize and backtest read, which changes nothing *)

Lesser(x, y)  == IF x <= y THEN x ELSE y
Greater(x, y) == IF x >= y THEN x ELSE y

\* _candle_limit_for_days and _research_min_candles
Expected == (Lookback + Interval - 1) \div Interval
MinCandles == Greater(1, Lesser(Expected, Greater(MinFloor, (9 * Expected) \div 10)))

\* get_candles: of the closed rows the newest Expected.
Frame ==
  LET closed == {i \in DOMAIN store : Closed(i, now)}
  IN {i \in closed : Cardinality({j \in closed : j > i}) < Expected}

\* validate_candle_frame, of times: enough rows, no step of more than one and a
\* half intervals, the last row fresh.  The rows of a query are ordered, distinct
\* and closed, and prices are left out.
Passed(frame) ==
  /\ frame # {} /\ Cardinality(frame) >= MinCandles
  /\ \A i \in frame : i # Max(frame) => \E j \in frame : j > i /\ 2 * (j - i) <= 3
  /\ now - (Max(frame) + 1) * Interval <= StaleAfter

-----------------------------------------------------------------------------
Init ==
  /\ now = Lookback /\ halted \in Halts
  /\ store = NoRows /\ loader = Idle

Next == Download \/ Answer \/ Take \/ Save \/ DownloadFails \/ Tick

Spec == Init /\ [][Next]_vars
-----------------------------------------------------------------------------
(* Properties *)

\* What is about to be saved is every candle of the exchange from the start of
\* the download to the last one closed when the last page was answered, however
\* the pages fell and whatever closed between them; and nothing unclosed by our
\* clock.
PagingComplete ==
  loader.pc = "saving" =>
    /\ {i \in Listed(loader.from, loader.at) : Closed(i, loader.at)} \subseteq DOMAIN loader.rows
    /\ DOMAIN loader.rows \subseteq {i \in Listed(loader.from, now) : Closed(i, now)}

\* A candle that closes between the answer and the reading of our clock is saved
\* with the values it had before it closed, and only a later download that starts
\* early enough repairs it.  Still no frame that passes has one inside: at most
\* its newest row is one, and its oldest, where the newest candle is missing.  Two
\* candles missing in a row could let one through.
AcceptedFrameFinal ==
  Passed(Frame) => \A i \in Frame : store[i] \/ i \in {Min(Frame), Max(Frame)}

\* A download saved before its last page is stale, of candles the exchange has,
\* is enough for research over the same days: its frame passes.
BackfillSuffices ==
  [][(/\ loader.pc = "saving" /\ loader'.pc = "idle" /\ store' # store
      /\ \A i \in loader.from .. now \div Interval : i \notin halted
      /\ now - (Max(DOMAIN loader.rows) + 1) * Interval <= StaleAfter) => Passed(Frame)']_vars
=============================================================================
