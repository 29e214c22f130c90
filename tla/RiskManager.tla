---------------------------- MODULE RiskManager ----------------------------
(***************************************************************************)
(* pyea/risk/risk_manager.py: the only place where a strategy's signal     *)
(* becomes an order.  The manager keeps no state, so the module is a set   *)
(* of operators, used by LiveEngine.                                       *)
(*                                                                         *)
(* Abstractions.  A side and a size are one signed quantity (positive buys)*)
(* and the stop and the target an entry carries are left out: no property  *)
(* tells two pairs of barriers apart.  Prices and equities are integers.   *)
(* An account without equity (the code's None) is the record NoAccount.    *)
(***************************************************************************)
EXTENDS Integers, FiniteSets

CONSTANTS
  MaxPositionSize,          \* risk.max_position_size
  MaxPositionsPerSymbol,    \* risk.max_positions_per_symbol
  MaxOpenPositions,         \* risk.max_open_positions
  MaxDailyLossPct           \* risk.max_daily_loss_pct, 0 switches the limit off

ASSUME LimitsAssumption ==
  /\ MaxPositionSize \in Nat \ {0}
  /\ MaxPositionsPerSymbol \in Nat \ {0}
  /\ MaxOpenPositions \in Nat \ {0}
  /\ MaxDailyLossPct \in Nat

Entries == {"ENTER_LONG", "ENTER_SHORT"}
Actions == Entries \cup {"EXIT"}            \* HOLD never gets past on_tick

NoAccount == [equity |-> 0, start |-> 0]

\* AccountState.day_loss_pct against the limit, cross-multiplied: the loss in
\* per cent of the equity the day started with.  No reading, no limit.
DailyLossReached(account) ==
  /\ account # NoAccount
  /\ MaxDailyLossPct > 0
  /\ account.start # 0
  /\ (account.start - account.equity) * 100 >= MaxDailyLossPct * account.start

OnSymbol(symbol, positions) == {p \in positions : p.symbol = symbol}

\* Is there room, on the symbol AND on the account?
OneTooMany(symbol, positions) ==              \* mutant: the limit itself passes
  /\ Cardinality(OnSymbol(symbol, positions)) <= MaxPositionsPerSymbol
  /\ Cardinality(positions) <= MaxOpenPositions

PositionRoom(symbol, positions) ==
  /\ Cardinality(OnSymbol(symbol, positions)) < MaxPositionsPerSymbol
  /\ Cardinality(positions) < MaxOpenPositions

\* The orders evaluate may answer a signal with: none when it rejects the
\* signal, one per position it may find first when it closes, one otherwise.
\* Only entries meet the limits; the loss limit comes before the room.
Evaluate(symbol, action, positions, account) ==
  IF action = "EXIT"
  THEN {[symbol |-> symbol, quantity |-> -p.quantity] : p \in OnSymbol(symbol, positions)}
  ELSE IF DailyLossReached(account) \/ ~PositionRoom(symbol, positions)
       THEN {}
       ELSE {[symbol |-> symbol,
              quantity |-> IF action = "ENTER_LONG" THEN MaxPositionSize
                                                    ELSE -MaxPositionSize]}
=============================================================================
