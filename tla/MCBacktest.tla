----------------------------- MODULE MCBacktest -----------------------------
(***************************************************************************)
(* Instances of the backtest: one symbol, one unit, four prices, so that a *)
(* bar may gap over a barrier or reach both, two distances of the          *)
(* barriers, and an exit.                                                  *)
(***************************************************************************)
EXTENDS StrategyBridge

MCPrices == 4 .. 7
MCSignals == [action : Entries, distance : {1, 2}]
               \cup {[action |-> "EXIT", distance |-> 0]}
=============================================================================
