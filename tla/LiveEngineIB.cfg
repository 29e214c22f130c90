\* One Interactive Brokers symbol, two ticks in progress at once, over a midnight
\* and restarts; orders may be cancelled or refused.
SPECIFICATION Spec
CONSTANTS
  eurusd = eurusd
  gbpusd = gbpusd
  eurDotUsd = eurDotUsd
  gbpDotUsd = gbpDotUsd
  w1 = w1
  w2 = w2
  Symbols = {eurusd}
  Workers = {w1, w2}
  Gateway = "interactive_brokers"
  LocalName <- SameName
  Equities = {97, 100}
  MaxPositionSize = 1
  MaxPositionsPerSymbol = 1
  MaxOpenPositions = 1
  MaxDailyLossPct = 2
  MaxOrders = 1
  MaxDay = 1
  Faults = {"lostWrite", "restart"}
INVARIANTS JournalIsReal
PROPERTIES OneReference
