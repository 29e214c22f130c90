\* One MetaTrader symbol: lost answers, lost reports, outages, restarts, stops.
SPECIFICATION Spec
CONSTANTS
  eurusd = eurusd
  gbpusd = gbpusd
  eurDotUsd = eurDotUsd
  gbpDotUsd = gbpDotUsd
  w1 = w1
  w2 = w2
  Symbols = {eurusd}
  Workers = {w1}
  Gateway = "metatrader5"
  LocalName <- SameName
  Equities = {0}
  MaxPositionSize = 1
  MaxPositionsPerSymbol = 1
  MaxOpenPositions = 1
  MaxDailyLossPct = 2
  MaxOrders = 3
  MaxDay = 0
  Faults = {"outage", "lostAck", "lostReport", "restart", "stops"}
INVARIANTS TypeOK OneLiveOrder NoForgottenOrder SlotInv SymbolCap
PROPERTIES ImplementsSlots
