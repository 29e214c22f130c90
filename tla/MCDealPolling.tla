--------------------------- MODULE MCDealPolling ---------------------------
(***************************************************************************)
(* Instances of DealPolling for TLC: the .cfg files give the bounds and    *)
(* the faults of each.                                                     *)
(***************************************************************************)
EXTENDS DealPolling
=============================================================================
