\* Cash for a first entry, not always for the next ones; exits anywhere but on the bars that close a week.
CONSTANTS
  MaxPositionSize = 1
  MaxPositionsPerSymbol = 1
  MaxOpenPositions = 1
  MaxDailyLossPct = 0
  InitialCapital = 8
  Leverage = 2
  Cost = 1
  MaxHold = 2
  Symbol = EURUSD
  Bars = 4
  Prices <- MCPrices
  Signals <- MCSignals
  ClosingBarExits = FALSE
SPECIFICATION Spec
INVARIANTS TypeOK MoneyConserved BarriersGuardPosition CarriedOnlyFromTheLastBar TradeIsExplained LabelIsOutcome
PROPERTY NoSilentEntry
