--------------------------- MODULE ApprovalPipeline ---------------------------
(***************************************************************************)
(* How a strategy comes to trade.  `optimize' evaluates parameter sets,    *)
(* keeps one, replays it through the paper runtime and replaces the table  *)
(* of approvals; `audit-approved' replays the approved rows again and      *)
(* withdraws those that fail; `paper-trade' replays them once more, reads  *)
(* the table a second time and routes.  The three are processes of their   *)
(* own (a shell, the dashboard's command runner) that share nothing but    *)
(* the database.                                                           *)
(*                                                                         *)
(* The evaluations of a run touch no shared state, so a run is one step    *)
(* that ends with the batch in memory, in any order of completion of the   *)
(* worker threads; what follows are the statements sent to the database.   *)
(***************************************************************************)
EXTENDS Integers, FiniteSets, Sequences

CONSTANTS
  Keys,          \* datasets, "SYMBOL:INTERVAL"
  Configured,    \* those of trade_symbols with trade_interval
  ParamSets,     \* a strategy with its parameters
  StrategyOf,    \* the strategy of a parameter set
  Robustness,    \* robustness_score, as an integer
  AvgSharpe,     \* avg_sharpe, likewise
  MinPassPct,    \* qual_min_dataset_pass_rate, in percent
  Diagnostics,   \* what a replay of a row may count
  MaxRuns,       \* bound on the runs of optimize
  NoParams

ASSUME KeysAssumption == IsFiniteSet(Keys) /\ Configured \subseteq Keys
ASSUME ParamsAssumption ==
  /\ ParamSets # {} /\ NoParams \notin ParamSets
  /\ Robustness \in [ParamSets -> Int] /\ AvgSharpe \in [ParamSets -> Int]
  /\ DOMAIN StrategyOf = ParamSets
ASSUME DiagnosticsAssumption ==
  Diagnostics \subseteq [loads : BOOLEAN, total : Nat, buffering : Nat, duplicates : Nat,
                         trades : Nat, blocked : Nat, rejected : Nat, pnl : Int, errors : Nat]
ASSUME BoundsAssumption == MinPassPct \in 0 .. 100 /\ MaxRuns \in Nat

VARIABLES
  table,      \* approved_combinations: id -> row, ids 1..n as SQLite gives them
  runs,       \* optimize runs committed or under way
  batch,      \* the pending records of optimize, <<>> when none
  optimizer,  \* "idle" or "saving"
  auditor,    \* the progress of audit-approved
  trader,     \* the progress of paper-trade
  earned,     \* history: <<run, key>> that passed every gate of optimize
  proven      \* history: <<params, key>> whose replay this paper-trade approved

vars == <<table, runs, batch, optimizer, auditor, trader, earned, proven>>

-----------------------------------------------------------------------------
(* One parameter set on one dataset *)

\* "dropped": under fifty candles, or the backtest raised; "blocked": qualified
\* while the regime filter calls the dataset untradable.
Outcomes == {"ok", "blocked", "failed", "dropped"}

Evaluated(o) == {k \in Keys : o[k] # "dropped"}
Qualified(o) == {k \in Keys : o[k] \in {"ok", "blocked"}}
AllQualified(o) == Evaluated(o) # {} /\ Qualified(o) = Evaluated(o)

\* qualified_count / n, against a threshold in percent
PassRateOk(o) ==
  100 * Cardinality(Qualified(o)) >= MinPassPct * Cardinality(Evaluated(o))

\* a and b are the evaluations of p and q: p is preferred to q by the key
\* (all_qualified, datasets_qualified, pass_rate, robustness_score, avg_sharpe).
Preferred(p, a, q, b) ==
  LET na == Cardinality(Qualified(a))
      nb == Cardinality(Qualified(b))
      ra == na * Cardinality(Evaluated(b))
      rb == nb * Cardinality(Evaluated(a))
  IN \/ AllQualified(a) /\ ~AllQualified(b)
     \/ /\ AllQualified(a) = AllQualified(b)
        /\ \/ na > nb
           \/ na = nb /\ ra > rb
           \/ /\ na = nb /\ ra = rb
              /\ \/ Robustness[p] > Robustness[q]
                 \/ Robustness[p] = Robustness[q] /\ AvgSharpe[p] > AvgSharpe[q]

\* The sets the selection may return: those with an evaluation that none is
\* preferred to.  Among equals the first to complete wins, which with several
\* workers is any of them.
SelectApprovalParamSet(outcome) ==
  LET candidates == {p \in ParamSets : Evaluated(outcome[p]) # {}}
  IN {p \in candidates :
        \A q \in candidates : ~Preferred(q, outcome[q], p, outcome[p])}

-----------------------------------------------------------------------------
(* The replay of a row through the paper runtime *)

Effective(d) == d.total - d.buffering - d.duplicates

\* Whatever came of a signal; rejected counts the risk engine's and the broker's.
Signals(d) == d.trades + d.blocked + d.rejected

\* No reason against it: enough trades for the candles replayed (one, and five
\* in ten thousand), no loss, at most four signals in five refused by the
\* position lifecycle, no error.
RuntimeViable(d) ==
  /\ d.trades >= 1
  /\ Effective(d) > 0 => 10000 * d.trades >= 5 * Effective(d)
  /\ d.pnl >= 0
  /\ (Effective(d) > 0 /\ Signals(d) > 0) => 10 * d.blocked <= 8 * Signals(d)
  /\ d.errors = 0

\* The verdict of a replay; d.loads is false when there is no candle or the
\* strategy cannot be built.
AuditCombination(approved, d) ==
  CASE ~d.loads -> "flagged"
    [] d.loads /\ ~approved -> "rejected"
    [] d.loads /\ approved ->
         IF RuntimeViable(d) THEN "approved" ELSE "downgraded"

-----------------------------------------------------------------------------
(* optimize *)

Row == [run : 1 .. MaxRuns, params : ParamSets, key : Keys, approved : BOOLEAN]

Approved(t) == {i \in DOMAIN t : t[i].approved}

\* A dataset is approved when it is tradable and the set qualified on it.
BuildApproval(o, k) == o[k] = "ok"

\* One record per evaluated dataset; pass-rate below the threshold rejects all.
BuildApprovalRecord(r, p, o, k) ==
  [run |-> r, params |-> p, key |-> k,
   approved |-> BuildApproval(o, k) /\ PassRateOk(o)]

\* Fault: only one of the verdicts against a row looked for.
AuditForRuntimeDowngraded(row, d) ==
  IF row.approved /\ AuditCombination(TRUE, d) = "downgraded"
  THEN [row EXCEPT !.approved = FALSE] ELSE row

\* Rows whose replay ends in anything but "approved" are saved as rejected.
AuditForRuntime(row, d) ==
  IF row.approved /\ AuditCombination(TRUE, d) # "approved"
  THEN [row EXCEPT !.approved = FALSE] ELSE row

\* The rows of a batch in the order of the datasets.
InOrder(S) == {s \in [1 .. Cardinality(S) -> S] :
                 \A i, j \in 1 .. Cardinality(S) : i # j => s[i] # s[j]}

\* A run up to its batch: evaluate, select, build, replay.
OptimizeEvaluate ==
  /\ optimizer = "idle" /\ runs < MaxRuns
  /\ \E outcome \in [ParamSets -> [Keys -> Outcomes]] :
       /\ runs' = runs + 1
       /\ optimizer' = "saving"
       /\ \/ /\ SelectApprovalParamSet(outcome) = {}
             /\ batch' = <<>>
             /\ UNCHANGED earned
          \/ \E p \in SelectApprovalParamSet(outcome) :
             \E replay \in [Keys -> Diagnostics] :
             \E order \in InOrder(Evaluated(outcome[p])) :
               /\ batch' = [i \in DOMAIN order |->
                    AuditForRuntime(
                      BuildApprovalRecord(runs + 1, p, outcome[p], order[i]),
                      replay[order[i]])]
               /\ earned' = earned \cup
                    {<<runs + 1, k>> : k \in {j \in Keys :
                       /\ outcome[p][j] = "ok" /\ PassRateOk(outcome[p])
                       /\ replay[j].loads /\ RuntimeViable(replay[j])}}
  /\ UNCHANGED <<table, auditor, trader, proven>>

\* Fault: the old rows stay.
SaveBatchAppending(t, b) == t \o b

\* save_batch and its commit: the old rows go and the new ones come at once.
SaveBatch(t, b) == b

OptimizeSave ==
  /\ optimizer = "saving"
  /\ table' = SaveBatch(table, batch)
  /\ optimizer' = "idle" /\ batch' = <<>>
  /\ earned' = {e \in earned : e[1] = runs}
  /\ UNCHANGED <<runs, auditor, trader, proven>>

\* The process is killed, or raises, before the commit.
OptimizeKilled ==
  /\ optimizer = "saving"
  /\ optimizer' = "idle" /\ batch' = <<>>
  /\ earned' = {e \in earned : e[1] # runs}
  /\ UNCHANGED <<table, runs, auditor, trader, proven>>

-----------------------------------------------------------------------------
(* audit-approved *)

NoAudit == [pc |-> "idle", read |-> 0, strategy |-> NoParams,
            down |-> {}, left |-> {}, ids |-> {}]

\* Replay every approved row of one read.  A dataset whose candles fail the
\* quality checks is downgraded without a replay.
AuditVerdict(quality, d) ==
  IF quality THEN AuditCombination(TRUE, d) ELSE "downgraded"

AuditReplay ==
  /\ auditor.pc = "idle" /\ Approved(table) # {}
  /\ \E replay \in [Approved(table) -> Diagnostics],
        bad \in SUBSET Approved(table) :
       LET down == {table[i].key : i \in {j \in Approved(table) :
                      AuditVerdict(j \notin bad, replay[j]) = "downgraded"}}
           any == CHOOSE i \in Approved(table) : TRUE
       IN /\ down # {}
          /\ auditor' = [pc |-> "writing", read |-> table[any].run,
                         strategy |-> StrategyOf[table[any].params],
                         down |-> down, left |-> down, ids |-> {}]
  /\ UNCHANGED <<table, runs, batch, optimizer, trader, earned, proven>>

\* Fault: parameters compared with the name of a strategy.
MatchingParams(t, strategy, ks) ==
  {i \in Approved(t) : t[i].params = strategy /\ t[i].key \in ks}

\* The rows filter_by(strategy_name, symbol, interval, approved) finds now.
Matching(t, strategy, ks) ==
  {i \in Approved(t) : StrategyOf[t[i].params] = strategy /\ t[i].key \in ks}

\* Select the rows of one downgraded result.  Nothing is locked by a select:
\* the first row found is written only with the next statement.
AuditFind ==
  /\ auditor.pc = "writing" /\ auditor.ids = {}
  /\ IF auditor.left = {}
     THEN auditor' = NoAudit
     ELSE \E k \in auditor.left :
            auditor' = [auditor EXCEPT
              !.left = @ \ {k}, !.ids = Matching(table, auditor.strategy, {k})]
  /\ UNCHANGED <<table, runs, batch, optimizer, trader, earned, proven>>

\* UPDATE ... WHERE id = ?, for the rows selected before.
Withdraw(t, ids) == [i \in DOMAIN t |->
                       IF i \in ids THEN [t[i] EXCEPT !.approved = FALSE] ELSE t[i]]

\* The first update holds the write lock up to the commit, so the rest of the
\* results follow in the same step.  An id that is gone makes the flush raise,
\* and nothing is written.
AuditCommit ==
  /\ auditor.pc = "writing" /\ auditor.ids # {}
  /\ auditor' = NoAudit
  /\ table' = IF auditor.ids \subseteq DOMAIN table
              THEN Withdraw(table, auditor.ids
                     \cup Matching(table, auditor.strategy, auditor.left))
              ELSE table
  /\ UNCHANGED <<runs, batch, optimizer, trader, earned, proven>>

-----------------------------------------------------------------------------
(* paper-trade *)

NoTrade == [pc |-> "idle", sim |-> FALSE, user |-> FALSE, filter |-> Keys,
            gated |-> FALSE, params |-> NoParams, keys |-> {}]

\* _paper_readiness_gate_applies, without --strategy
GateApplies(sim, persist, user) == ~sim \/ persist \/ ~user

\* The approved rows the readiness report lets through; replaying no candle
\* (--readiness-replay-limit 0) lets every one through.
Ready(replayed, replay) ==
  {i \in Approved(table) : replayed => AuditCombination(TRUE, replay[i]) = "approved"}

PassGate(sim, user, ready) ==
  /\ proven' = {<<table[i].params, table[i].key>> : i \in ready}
  /\ trader' = [NoTrade EXCEPT !.pc = IF ready = {} THEN "cash" ELSE "gated",
                               !.sim = sim, !.user = user, !.gated = TRUE,
                               !.filter = {table[i].key : i \in ready}]

\* A replay of the user's own choice is not started without any approval.
SkipGate(sim, user) ==
  /\ proven' = {}
  /\ trader' = [NoTrade EXCEPT !.pc = IF Approved(table) = {} THEN "cash" ELSE "gated",
                               !.sim = sim, !.user = user]

TraderGate ==
  /\ trader.pc = "idle"
  /\ \E sim, persist, user, replayed \in BOOLEAN :
       /\ user => sim
       /\ persist => sim
       /\ IF GateApplies(sim, persist, user)
          THEN \E replay \in [Approved(table) -> Diagnostics] :
                 PassGate(sim, user, Ready(replayed, replay))
          ELSE SkipGate(sim, user)
  /\ UNCHANGED <<table, runs, batch, optimizer, auditor, earned>>

\* Faults: the flag not asked for again; the gate's keys not asked for.
ResolveRowsOfGate == {i \in DOMAIN table : table[i].key \in trader.filter}
ResolveRowsUngated == Approved(table)

\* Read the table again, keep the keys that passed the gate, take strategy and
\* parameters from the first row and the keys from all of them.
ResolveRows == {i \in Approved(table) : table[i].key \in trader.filter}

\* _sim_replay_route: the key a replay runs on, or none.
SimReplayRoute(keys, requested, user, k) ==
  IF requested \in keys THEN k = requested
  ELSE ~user /\ k \in keys

Route(params, keys) ==
  IF keys = {} THEN trader' = [trader EXCEPT !.pc = "cash"]
  ELSE trader' = [trader EXCEPT !.pc = "trading", !.params = params, !.keys = keys]

TraderResolve ==
  /\ trader.pc = "gated"
  /\ LET rows == ResolveRows
         keys == {table[i].key : i \in rows}
         best == {i \in rows : \A j \in rows :
                    Robustness[table[i].params] >= Robustness[table[j].params]}
     IN \/ rows = {} /\ Route(NoParams, {})
        \/ /\ ~trader.sim
           /\ \E i \in best : Route(table[i].params, keys \cap Configured)
        \/ /\ trader.sim
           /\ \E i \in best, requested \in Keys :
                \/ \E k \in keys :
                     /\ SimReplayRoute(keys, requested, trader.user, k)
                     /\ Route(table[i].params, {k})
                \/ /\ trader.user /\ requested \notin keys
                   /\ Route(NoParams, {})
  /\ UNCHANGED <<table, runs, batch, optimizer, auditor, earned, proven>>

\* The command ends or is stopped.
TraderStop ==
  /\ trader.pc \in {"cash", "trading"}
  /\ trader' = NoTrade /\ proven' = {}
  /\ UNCHANGED <<table, runs, batch, optimizer, auditor, earned>>

-----------------------------------------------------------------------------
Init ==
  /\ table = <<>> /\ runs = 0 /\ batch = <<>> /\ optimizer = "idle"
  /\ auditor = NoAudit /\ trader = NoTrade /\ earned = {} /\ proven = {}

Next ==
  \/ OptimizeEvaluate \/ OptimizeSave \/ OptimizeKilled
  \/ AuditReplay \/ AuditFind \/ AuditCommit
  \/ TraderGate \/ TraderResolve \/ TraderStop

Spec == Init /\ [][Next]_vars
-----------------------------------------------------------------------------
(* Properties *)

\* The shape of the tables and of the progress of the three processes.
TypeOK ==
  /\ table \in Seq(Row) /\ batch \in Seq(Row)
  /\ runs \in 0 .. MaxRuns /\ optimizer \in {"idle", "saving"}
  /\ auditor \in [pc : {"idle", "writing"}, read : 0 .. MaxRuns,
                  strategy : {StrategyOf[p] : p \in ParamSets} \cup {NoParams},
                  down : SUBSET Keys, left : SUBSET Keys, ids : SUBSET Nat]
  /\ trader \in [pc : {"idle", "gated", "cash", "trading"},
                 sim : BOOLEAN, user : BOOLEAN, gated : BOOLEAN,
                 filter : SUBSET Keys, keys : SUBSET Keys,
                 params : ParamSets \cup {NoParams}]
  /\ earned \subseteq (1 .. MaxRuns) \X Keys /\ proven \subseteq ParamSets \X Keys

\* The approvals all come from one run and one parameter set, with one row per
\* dataset.  paper-trade depends on it: it takes the parameters of the first
\* row for the datasets of all.
SingleSource ==
  \A i, j \in DOMAIN table :
    /\ table[i].run = table[j].run /\ table[i].params = table[j].params
    /\ table[i].key = table[j].key => i = j

\* An approved row passed every gate of the run that wrote it: qualified, its
\* dataset tradable, its parameter set over the pass-rate, its replay viable.
\* Whatever the audits of older batches write, they never approve.
ApprovedEarned ==
  \A i \in Approved(table) : <<table[i].run, table[i].key>> \in earned

\* What starts to trade has, at that moment, an approved row with the very
\* parameters it trades, on every dataset, however the batches and the audits
\* fell between the two reads; live, on configured datasets only.
RoutedApproved ==
  [][(trader.pc # "trading" /\ trader'.pc = "trading") =>
       /\ trader'.keys # {}
       /\ \A k \in trader'.keys : \E i \in Approved(table) :
            table[i].params = trader'.params /\ table[i].key = k
       /\ trader'.sim \/ trader'.keys \subseteq Configured]_vars

\* The key of what starts to trade behind the gate is one the gate let through,
\* although the approvals are read again after it.
GateRespected ==
  [][(trader.pc = "gated" /\ trader'.pc = "trading" /\ trader.gated) =>
       \A k \in trader'.keys : \E pr \in proven : pr[2] = k]_vars

\* An audit that ends while the batch it read is still in the table leaves none
\* of the datasets it downgraded approved.
DowngradeLands ==
  [][(/\ auditor.pc = "writing" /\ auditor'.pc = "idle"
      /\ \A i \in DOMAIN table : table[i].run = auditor.read) =>
        \A i \in Approved(table') : table'[i].key \notin auditor.down]_vars

\* The gate is said to be passed by what trades: parameters and dataset.
TradedWasReady ==
  (trader.pc = "trading" /\ trader.gated) =>
    \A k \in trader.keys : <<trader.params, k>> \in proven
=============================================================================
