--------------------------- MODULE MCTrainingJobs ---------------------------
(***************************************************************************)
(* Instances of TrainingJobs for TLC: assets as model values.              *)
(***************************************************************************)
EXTENDS TrainingJobs

CONSTANTS eurusd, gbpusd, usdjpy
=============================================================================
