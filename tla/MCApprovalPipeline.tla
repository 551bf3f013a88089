-------------------------- MODULE MCApprovalPipeline --------------------------
(* Two parameter sets of one strategy that tie on robustness, two datasets.  *)
EXTENDS ApprovalPipeline

MCStrategyOf == [p \in ParamSets |-> "grid"]
MCRobustness == [p \in ParamSets |-> 1]
MCAvgSharpe  == [p \in ParamSets |-> 1]

\* A profitable replay, one that loses, and a strategy that cannot be built.
Counts(l, t, p) == [loads |-> l, total |-> 100, buffering |-> 49, duplicates |-> 1, trades |-> t,
                    blocked |-> 1, rejected |-> 0, pnl |-> p, errors |-> 0]
MCDiagnostics == {Counts(TRUE, 1, 1), Counts(TRUE, 1, -1), Counts(FALSE, 0, 0)}
=============================================================================
