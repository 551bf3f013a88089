------------------------------- MODULE RiskEngine -------------------------------
(***************************************************************************)
(* The risk engine of app/risk: the counters it keeps and the nine default *)
(* rules of rules.py.  A signal is approved when every rule approves it.   *)
(*                                                                         *)
(* equity and available_balance are parameters of the rules: the           *)
(* orchestrator assigns both from the broker right before it asks.         *)
(***************************************************************************)
EXTENDS Market

CONSTANTS MaxOpenPositions, MaxPositionSizePct, MaxDailyLossPct,
          MaxConsecutive, MaxErrors,
          Cooldown,          \* cooldown_seconds, in bars
          DisabledSymbols, IsLive

ASSUME RiskAssumption ==
  /\ MaxOpenPositions \in Nat
  /\ MaxPositionSizePct \in 0 .. 100
  /\ MaxDailyLossPct \in Nat \ {0}
  /\ MaxConsecutive \in Nat
  /\ MaxErrors \in Nat
  /\ Cooldown \in Nat
  /\ DisabledSymbols \subseteq Symbols
  /\ IsLive \in BOOLEAN

VARIABLES
  openPositions,      \* open_positions, a counter beside the orchestrator's own book
  dailyPnl,           \* daily_pnl
  consecutiveLosses,  \* consecutive_losses
  lastTradeTime,      \* symbol_last_trade_time; Never when the symbol has none
  errorCount,         \* error_count_today
  killSwitch          \* kill_switch_active

riskVars == <<openPositions, dailyPnl, consecutiveLosses, lastTradeTime, errorCount, killSwitch>>

Never == -1

RiskTypeOK ==
  /\ openPositions \in Nat
  /\ dailyPnl \in Int
  /\ consecutiveLosses \in Nat
  /\ lastTradeTime \in [Symbols -> Times \cup {Never}]
  /\ errorCount \in Nat
  /\ killSwitch \in BOOLEAN

\* The kill switch is set once, from ENABLE_KILL_SWITCH, before trading starts.
RiskInit ==
  /\ openPositions = 0
  /\ dailyPnl = 0
  /\ consecutiveLosses = 0
  /\ lastTradeTime = [s \in Symbols |-> Never]
  /\ errorCount = 0
  /\ killSwitch \in BOOLEAN

IsBuy(sig) == sig.type = "BUY"

KillSwitchRule == ~killSwitch

\* Mutant: one position too many.
MaxOpenPositionsRule_OffByOne(sig) ==
  \/ sig.action = "scale_in"
  \/ IsBuy(sig) => openPositions <= MaxOpenPositions

\* A scale_in adds to an open position, so the rule lets it pass.
MaxOpenPositionsRule(sig) ==
  \/ sig.action = "scale_in"
  \/ IsBuy(sig) => openPositions < MaxOpenPositions

\* daily_loss_pct is 0 while the equity is not positive.
MaxDailyLossRule(sig, equity) ==
  IsBuy(sig) /\ equity > 0 => -dailyPnl * 100 < MaxDailyLossPct * equity

MaxPositionSizeRule(sig, equity, available, notional) ==
  IsBuy(sig) =>
    /\ equity > 0
    /\ available > 0
    /\ equity * MaxPositionSizePct > 0
    /\ notional * 100 <= equity * MaxPositionSizePct

StopLossRequiredRule(sig) == IsLive /\ IsBuy(sig) => sig.stopLoss # 0

ConsecutiveLossCooldownRule(sig) == IsBuy(sig) => consecutiveLosses < MaxConsecutive

DisabledSymbolRule(s) == s \notin DisabledSymbols

\* Mutant: the halt comes one error late.
ErrorHaltRule_OffByOne == errorCount <= MaxErrors

ErrorHaltRule == errorCount < MaxErrors

SymbolCooldownRule(sig, s, now) ==
  IsBuy(sig) /\ lastTradeTime[s] # Never => now - lastTradeTime[s] >= Cooldown

\* is_approved for a signal on symbol s at time now.
Approved(sig, s, now, equity, available, notional) ==
  /\ KillSwitchRule
  /\ MaxOpenPositionsRule(sig)
  /\ MaxDailyLossRule(sig, equity)
  /\ MaxPositionSizeRule(sig, equity, available, notional)
  /\ StopLossRequiredRule(sig)
  /\ ConsecutiveLossCooldownRule(sig)
  /\ DisabledSymbolRule(s)
  /\ ErrorHaltRule
  /\ SymbolCooldownRule(sig, s, now)

\* Mutants: the symbol's cooldown is not started; a win takes back one loss.
RecordTradeResult_NoCooldown(pnl, s, now) ==
  /\ dailyPnl' = dailyPnl + pnl
  /\ consecutiveLosses' = IF pnl <= 0 THEN consecutiveLosses + 1 ELSE 0
  /\ UNCHANGED lastTradeTime

RecordTradeResult_TakesOneBack(pnl, s, now) ==
  /\ dailyPnl' = dailyPnl + pnl
  /\ lastTradeTime' = [lastTradeTime EXCEPT ![s] = now]
  /\ consecutiveLosses' = IF pnl <= 0 THEN consecutiveLosses + 1 ELSE consecutiveLosses - 1

RecordTradeResult(pnl, s, now) ==
  /\ dailyPnl' = dailyPnl + pnl
  /\ lastTradeTime' = [lastTradeTime EXCEPT ![s] = now]
  /\ consecutiveLosses' = IF pnl <= 0 THEN consecutiveLosses + 1 ELSE 0

RecordError == errorCount' = errorCount + 1

\* Mutant: the counter is left behind.
PositionClosed_Forgotten == UNCHANGED openPositions

\* The counter follows a closed position, never below zero.
PositionClosed == openPositions' = IF openPositions > 0 THEN openPositions - 1 ELSE 0

=============================================================================
