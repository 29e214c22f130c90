---------------------------- MODULE MCLiveEngine ----------------------------
(***************************************************************************)
(* Instances of LiveEngine for TLC: at most two symbols, two lanes, three  *)
(* orders and two days.                                                    *)
(***************************************************************************)
EXTENDS LiveEngineSlots

CONSTANTS eurusd, gbpusd, eurDotUsd, gbpDotUsd, w1, w2

\* MetaTrader names a forex pair the way PyEA does.
SameName == [s \in Symbols |-> s]

\* Interactive Brokers' localSymbol of a forex pair: EUR.USD for EURUSD.
BrokerName == [s \in Symbols |-> IF s = eurusd THEN eurDotUsd ELSE gbpDotUsd]
=============================================================================
