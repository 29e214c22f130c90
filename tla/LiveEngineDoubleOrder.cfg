\* Two ticks of one Interactive Brokers symbol in progress at once.
SPECIFICATION Spec
CONSTANTS
  eurusd = eurusd
  gbpusd = gbpusd
  eurDotUsd = eurDotUsd
  gbpDotUsd = gbpDotUsd
  w1 = w1
  w2 = w2
  Symbols = {eurusd}
  Workers = {w1, w2}
  Gateway = "interactive_brokers"
  LocalName <- SameName
  Equities = {0}
  MaxPositionSize = 1
  MaxPositionsPerSymbol = 1
  MaxOpenPositions = 1
  MaxDailyLossPct = 2
  MaxOrders = 2
  MaxDay = 0
  Faults = {}
INVARIANTS OneLiveOrder
