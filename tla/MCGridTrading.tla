---------------------------- MODULE MCGridTrading ----------------------------
(***************************************************************************)
(* Values for TLC: a base order of 25% of the equity and scale-ins of 25%  *)
(* and 30%, the last cut short by an allocation of 60%.                    *)
(***************************************************************************)
EXTENDS GridTrading

MCLevelPct == [l \in GridLevels |-> IF l = 2 THEN 30 ELSE 25]

=============================================================================
