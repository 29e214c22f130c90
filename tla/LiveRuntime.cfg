\* Two requests, overlapping or not, on either gateway, with losses of the terminal or of TWS.
SPECIFICATION Spec
CONSTANTS
  eurusd = eurusd
  gbpusd = gbpusd
  r1 = r1
  r2 = r2
  Requests = {r1, r2}
  Instruments <- TwoPairs
  Gateways = {"metatrader5", "interactive_brokers"}
  MaxStarts = 3
  MaxSessions = 3
INVARIANTS TypeOK NothingRunsDetached TerminalFlowAlive OneStream
CHECK_DEADLOCK FALSE
