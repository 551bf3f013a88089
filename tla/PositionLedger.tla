----------------------------- MODULE PositionLedger -----------------------------
(***************************************************************************)
(* What paper trading promises about money, whatever the strategy does:    *)
(* cash leaves the balance only to be invested in a symbol, and comes back *)
(* only when all that is invested in a symbol is realised, with the profit *)
(* or loss booked in the same step.                                        *)
(***************************************************************************)
EXTENDS Integers

CONSTANTS Symbols, InitialBalance

VARIABLES
  cash,      \* the quote balance
  invested,  \* what was paid, fees included, for the position of each symbol
  realised   \* the sum of the results of the closed positions

ledgerVars == <<cash, invested, realised>>

Init ==
  /\ cash = InitialBalance
  /\ invested = [s \in Symbols |-> 0]
  /\ realised = 0

\* Some cash, never more than there is, is invested in s.
Enter(s) ==
  /\ cash' \in 0 .. cash
  /\ invested' = [invested EXCEPT ![s] = @ + (cash - cash')]
  /\ UNCHANGED realised

\* The whole investment in s is turned into cash.
Exit(s) ==
  /\ cash' >= cash
  /\ realised' = realised + (cash' - cash) - invested[s]
  /\ invested' = [invested EXCEPT ![s] = 0]

Next == \E s \in Symbols : Enter(s) \/ Exit(s)

Spec == Init /\ [][Next]_ledgerVars

=============================================================================
