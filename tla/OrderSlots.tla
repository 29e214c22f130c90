----------------------------- MODULE OrderSlots -----------------------------
(***************************************************************************)
(* What the in-flight registry of live_engine.py promises, without the     *)
(* ticks, the reads, the timeouts and the reports that make it come true:  *)
(* each symbol is a slot that holds at most one live order; an order leaves*)
(* its slot once and for all, and its id never comes back.  LiveEngine     *)
(* implements this specification when a symbol's ticks are processed one   *)
(* after the other.                                                        *)
(***************************************************************************)
EXTENDS Integers

CONSTANTS Symbols, OrderIds

VARIABLES
  live,   \* symbol -> the ids of its live orders
  used    \* ids handed out so far

slotVars == <<live, used>>

Init ==
  /\ live = [s \in Symbols |-> {}]
  /\ used = {}

\* A symbol without a live order gets one, under a new id.
Submit(s, i) ==
  /\ live[s] = {}
  /\ i \notin used
  /\ live' = [live EXCEPT ![s] = {i}]
  /\ used' = used \cup {i}

\* The broker takes an order the engine never learns of.
SubmitUnknown(i) ==
  /\ i \notin used
  /\ used' = used \cup {i}
  /\ UNCHANGED live

\* A report, a timeout or a restart ends orders.
Release(ids) ==
  /\ live' = [s \in Symbols |-> live[s] \ ids]
  /\ UNCHANGED used

Next ==
  \/ \E s \in Symbols, i \in OrderIds : Submit(s, i)
  \/ \E i \in OrderIds : SubmitUnknown(i)
  \/ \E ids \in SUBSET OrderIds : Release(ids)

Spec == Init /\ [][Next]_slotVars
=============================================================================
