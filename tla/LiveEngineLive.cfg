\* One MetaTrader symbol whose reports overtake registrations or are lost, under fairness.
SPECIFICATION FairSpec
CONSTANTS
  eurusd = eurusd
  gbpusd = gbpusd
  eurDotUsd = eurDotUsd
  gbpDotUsd = gbpDotUsd
  w1 = w1
  w2 = w2
  Symbols = {eurusd}
  Workers = {w1}
  Gateway = "metatrader5"
  LocalName <- SameName
  Equities = {0}
  MaxPositionSize = 1
  MaxPositionsPerSymbol = 1
  MaxOpenPositions = 1
  MaxDailyLossPct = 2
  MaxOrders = 2
  MaxDay = 0
  Faults = {"disarm", "outage", "muteRead", "lostReport", "stops"}
PROPERTIES PairUnfrozen ExecutionsJournalled
CHECK_DEADLOCK FALSE
