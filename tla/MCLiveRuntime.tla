--------------------------- MODULE MCLiveRuntime ---------------------------
(***************************************************************************)
(* Instances of LiveRuntime for TLC: two instruments, one or two           *)
(* requests.                                                               *)
(***************************************************************************)
EXTENDS LiveRuntime

CONSTANTS eurusd, gbpusd, r1, r2

OnePair  == <<eurusd>>
TwoPairs == <<eurusd, gbpusd>>
=============================================================================
