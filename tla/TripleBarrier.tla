--------------------------- MODULE TripleBarrier ---------------------------
(***************************************************************************)
(* strategy_couleuvre_labeling.triple_barrier_labels: the target the       *)
(* Couleuvre models learn.  A bar is labelled by the first of two prices   *)
(* that a later bar reaches, the upper one (1) or the lower one (0), or by *)
(* the sign of the return when the horizon comes first.                    *)
(*                                                                         *)
(* Abstractions.  The scan by chunks of 64 bars is a scan bar by bar, one  *)
(* Scan per bar.  The horizon, days in the code, is a number of bars, and  *)
(* the distance, a multiple of the ATR, an integer.  A bar whose horizon   *)
(* lies beyond the frame gets no label: its scan is not compared.          *)
(***************************************************************************)
EXTENDS Integers

CONSTANT MaxHold        \* MAX_HOLD_DAYS, in bars

ASSUME HoldAssumption == MaxHold \in Nat \ {0}

NaN == -1                                  \* the label of a bar without label
Labels == {NaN, 0, 1}
BarrierKinds == {"none", "open", "tp", "sl", "time"}

ScanType == [close : Nat, upper : Nat, lower : Int, left : Int, label : Labels,
             barrier : BarrierKinds]

\* The scan of a bar before its first step, and the scan of no bar.
Barriers(close, distance) ==
  [close |-> close, upper |-> close + distance, lower |-> close - distance,
   left |-> MaxHold, label |-> NaN, barrier |-> "open"]
NoScan == [Barriers(0, 0) EXCEPT !.barrier = "none"]

Answer(scan, label, barrier) == [scan EXCEPT !.label = label, !.barrier = barrier]

OptimisticScan(scan, bar) ==               \* mutant: the tie goes to the upper one
  LET next == [scan EXCEPT !.left = @ - 1]
  IN IF scan.barrier # "open" THEN scan
     ELSE IF bar.high >= scan.upper THEN Answer(next, 1, "tp")
     ELSE IF bar.low <= scan.lower THEN Answer(next, 0, "sl")
     ELSE next

\* One bar of the window: both reached in the same bar is a 0.
Scan(scan, bar) ==
  LET next == [scan EXCEPT !.left = @ - 1]
  IN IF scan.barrier # "open" THEN scan
     ELSE IF bar.low <= scan.lower THEN Answer(next, 0, "sl")
     ELSE IF bar.high >= scan.upper THEN Answer(next, 1, "tp")
     ELSE IF scan.left > 1 THEN next
     ELSE Answer(next, IF bar.close >= scan.close THEN 1 ELSE 0, "time")
=============================================================================
