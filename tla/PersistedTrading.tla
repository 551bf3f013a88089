---------------------------- MODULE PersistedTrading ----------------------------
(***************************************************************************)
(* The grid trader with the rows it leaves in the database.                *)
(*                                                                         *)
(* A trade is recorded by four writes, in this order: the trade, the event *)
(* of its basket, the state of the basket and an account snapshot.  Each   *)
(* has a session of its own; one that fails is rolled back, logged and     *)
(* forgotten.  The process may be killed between any two of them, and      *)
(* nothing it kept in memory comes back: the next run starts with a fresh  *)
(* wallet, an empty buffer and baskets numbered from 1 again.              *)
(***************************************************************************)
EXTENDS GridTrading, Sequences

CONSTANTS MaxRuns,       \* bound: runs of the paper-trade command
          MaxFailures    \* bound: writes that fail

ASSUME StoreAssumption == MaxRuns \in Nat \ {0} /\ MaxFailures \in Nat

VARIABLES
  run,        \* the number of the current run
  alive,      \* FALSE once the process was killed
  seen,       \* the candles of earlier runs
  logged,     \* net quantity of the trades recorded by this run, by symbol
  events,     \* net quantity of the grid_events of each basket, over all runs
  rows,       \* grid_states, by symbol and grid_id
  snapshot,   \* the last account_snapshots row, by what it tells of the run
  failures    \* writes that failed in this run

storeVars == <<logged, events, rows, snapshot, failures>>
persistedVars == <<gridVars, run, alive, seen, storeVars>>

NoRow == [status |-> "none", qty |-> 0, levels |-> {}, writtenIn |-> 0]

Rows == [ status : {"none", "OPEN", "CLOSED"}, qty : Nat, levels : SUBSET GridLevels,
          writtenIn : 0 .. MaxRuns ]

Snapshots == [writtenIn : 0 .. MaxRuns, open : Nat, pnl : Int, cash : Nat]

StoreTypeOK ==
  /\ GridTypeOK
  /\ run \in 1 .. MaxRuns
  /\ alive \in BOOLEAN
  /\ seen \subseteq Symbols \X Times
  /\ logged \in [Symbols -> Int]
  /\ events \in [Symbols -> [GridIds -> Int]]
  /\ rows \in [Symbols -> [GridIds -> Rows]]
  /\ snapshot \in Snapshots
  /\ failures \in 0 .. MaxFailures

PersistedInit ==
  /\ GridInit
  /\ run = 1
  /\ alive = TRUE
  /\ seen = {}
  /\ logged = [s \in Symbols |-> 0]
  /\ events = [s \in Symbols |-> [g \in GridIds |-> 0]]
  /\ rows = [s \in Symbols |-> [g \in GridIds |-> NoRow]]
  /\ snapshot = [writtenIn |-> 0, open |-> 0, pnl |-> 0, cash |-> 0]
  /\ failures = 0

-----------------------------------------------------------------------------
\* The trade of a step: its symbol, and what it added to the position.
TradedSymbol == IF Idle THEN current'.symbol ELSE current.symbol

Change(s) == bpos'[s].qty - bpos[s].qty

\* The event is filed under the basket of the signal; a protective exit takes
\* that of the position.
EventBasket(s) == IF Idle THEN pos[s].gridId ELSE emitted.gridId

\* _persist_trade.
LogTrade(s) == logged' = [logged EXCEPT ![s] = @ + Change(s)]

\* _persist_grid_event.
LogEvent(s) == events' = [events EXCEPT ![s][EventBasket(s)] = @ + Change(s)]

\* The row that describes the position of s: as it is after a fill, as it was
\* before the exit that closes it.
BasketRow(s) ==
  IF s \in open'
  THEN [status |-> "OPEN", qty |-> pos'[s].qty, levels |-> pos'[s].levels, writtenIn |-> run]
  ELSE [status |-> "CLOSED", qty |-> pos[s].qty, levels |-> pos[s].levels, writtenIn |-> run]

\* Mutant: the row of a basket is written after its position was deleted.
SaveBasket_AfterDelete(s) ==
  IF s \in open'
  THEN rows' = [rows EXCEPT ![s][pos'[s].gridId] = BasketRow(s)]
  ELSE UNCHANGED rows

\* Mutant: an exit closes the basket of its signal, not that of the position.
SaveBasket_OfSignal(s) ==
  rows' = [rows EXCEPT ![s][EventBasket(s)] = BasketRow(s)]

\* _persist_grid_state: upsert by mode, symbol, interval and grid_id.  A basket
\* is closed before its position is deleted.
SaveBasket(s) ==
  LET basket == IF s \in open' THEN pos'[s].gridId ELSE pos[s].gridId
  IN rows' = [rows EXCEPT ![s][basket] = BasketRow(s)]

\* _snapshot_equity.
TakeSnapshot ==
  snapshot' = [writtenIn |-> run, open |-> openPositions', pnl |-> dailyPnl', cash |-> quote']

Writes == <<"trade", "event", "state", "snapshot">>

\* Mutant: the basket's state is written before the trade.
KillPoints_StateFirst == { {}, {"state"}, {"state", "trade"}, {"state", "trade", "event"} }

\* What was written when the process was killed before the last write.
KillPoints == { {Writes[i] : i \in 1 .. n} : n \in 0 .. Len(Writes) - 1 }

\* Of the writes of a trade, those in done were committed.
Commit(done) ==
  LET s == TradedSymbol IN
  /\ IF "trade" \in done THEN LogTrade(s) ELSE UNCHANGED logged
  /\ IF "event" \in done THEN LogEvent(s) ELSE UNCHANGED events
  /\ IF "state" \in done THEN SaveBasket(s) ELSE UNCHANGED rows
  /\ IF "snapshot" \in done THEN TakeSnapshot ELSE UNCHANGED snapshot

\* The process lives on; the other writes failed and were swallowed.
TradeRecorded ==
  \E done \in SUBSET {Writes[i] : i \in 1 .. Len(Writes)} :
    /\ failures' = failures + Len(Writes) - Cardinality(done)
    /\ failures' <= MaxFailures
    /\ Commit(done)
    /\ UNCHANGED alive

\* Killed in the middle.  What the trade did to the memory is lost with it.
KilledWhileRecording ==
  /\ \E done \in KillPoints : Commit(done)
  /\ alive' = FALSE
  /\ UNCHANGED failures

\* The feed goes on where it was: a new run sees later candles only.
FreshCandles ==
  \A k \in processed' \ processed : \A t \in Times : <<k[1], t>> \in seen => t < k[2]

PersistedStep ==
  /\ alive
  /\ GridNext
  /\ FreshCandles
  /\ IF orders' = orders THEN UNCHANGED <<alive, storeVars>>
                         ELSE TradeRecorded \/ KilledWhileRecording
  /\ UNCHANGED <<run, seen>>

\* GridInit of the state after the step.
MemoryLost ==
  /\ quote' = InitialBalance /\ orders' = 0
  /\ base' = [s \in Symbols |-> 0] /\ held' = {} /\ bpos' = [s \in Symbols |-> NoHolding]
  /\ openPositions' = 0 /\ dailyPnl' = 0 /\ consecutiveLosses' = 0 /\ errorCount' = 0
  /\ lastTradeTime' = [s \in Symbols |-> Never]
  /\ killSwitch' \in BOOLEAN
  /\ running' = TRUE /\ processed' = {}
  /\ buffered' = [s \in Symbols |-> 0] /\ lastClose' = [s \in Symbols |-> 0]
  /\ open' = {} /\ pos' = [s \in Symbols |-> NoPosition]
  /\ current' = NoCandle /\ exited' = FALSE /\ result' = "none"
  /\ bars' = [s \in Symbols |-> 0] /\ inBasket' = [s \in Symbols |-> FALSE]
  /\ sequence' = [s \in Symbols |-> NoGrid] /\ filled' = [s \in Symbols |-> {}]
  /\ allocated' = [s \in Symbols |-> 0]
  /\ lastSignal' = [s \in Symbols |-> -CooldownBars] /\ nextOpen' = [s \in Symbols |-> 0]
  /\ emitted' = Silent

\* The command is started again, after it was killed or between two candles.
Restart ==
  /\ run < MaxRuns
  /\ ~alive \/ Idle
  /\ MemoryLost
  /\ run' = run + 1
  /\ alive' = TRUE
  /\ seen' = seen \cup processed
  /\ logged' = [s \in Symbols |-> 0]
  /\ failures' = 0
  /\ UNCHANGED <<events, rows, snapshot>>

PersistedNext == PersistedStep \/ Restart

PersistedSpec == PersistedInit /\ [][PersistedNext]_persistedVars

-----------------------------------------------------------------------------
\* While the process lives and no write failed, the database tells the position:
\* its basket has the one OPEN row of this run, with its quantity and levels;
\* the recorded trades add up to it; the last snapshot counts it.
StoreFollowsBooks ==
  alive /\ failures = 0 =>
    /\ \A s \in Symbols :
         /\ logged[s] = pos[s].qty
         /\ { g \in GridIds : rows[s][g].status = "OPEN" /\ rows[s][g].writtenIn = run } =
            IF s \in open THEN {pos[s].gridId} ELSE {}
         /\ s \in open =>
              /\ rows[s][pos[s].gridId].qty = pos[s].qty
              /\ rows[s][pos[s].gridId].levels = pos[s].levels
    /\ snapshot.writtenIn = run =>
         snapshot.open = openPositions /\ snapshot.pnl = dailyPnl /\ snapshot.cash = quote

\* Wherever the process is killed, the trade log is not behind the baskets: as
\* long as no write failed, the log bought what a basket this run reports open
\* holds.  Only a process killed after it logged the sale of the whole position
\* leaves the row of what it sold.
LogLeadsRows ==
  failures = 0 =>
    \A s \in Symbols, g \in GridIds :
      rows[s][g].status = "OPEN" /\ rows[s][g].writtenIn = run =>
        \/ rows[s][g].qty <= logged[s]
        \/ ~alive /\ s \notin open /\ logged[s] = 0

\* Each OPEN row of this run without a position is a closing write that failed: a
\* lost write is never repeated, but neither does it spread.
StrayRowsCounted ==
  alive =>
    Cardinality({ k \in Symbols \X GridIds :
                    LET row == rows[k[1]][k[2]] IN
                      /\ row.status = "OPEN" /\ row.writtenIn = run
                      /\ ~(k[1] \in open /\ pos[k[1]].gridId = k[2]) }) <= failures

\* models.py:193 calls grid_states the "current or historical" state of baskets:
\* the row of a basket that an earlier run closed is history, and stays.
HistoryKept ==
  [][ \A s \in Symbols, g \in GridIds :
        rows[s][g].status = "CLOSED" /\ rows[s][g].writtenIn < run => rows'[s][g] = rows[s][g]
    ]_persistedVars

\* models.py:225 calls grid_events the event log of a basket: while no write
\* failed, the events of a basket that was closed add up to nothing.
BasketEventsBalance ==
  run = 1 /\ alive /\ failures = 0 =>
    \A s \in Symbols, g \in GridIds : rows[s][g].status = "CLOSED" => events[s][g] = 0

=============================================================================
