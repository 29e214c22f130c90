----------------------------- MODULE MCOffline -----------------------------
(* Two years of three days, and three symbols: all in the range of the     *)
(* first; the last two of different epochs, the first over both; the first *)
(* before the other two; with gaps; the last two over a range of a day.    *)
EXTENDS Offline

SomeCoverages ==
  {<<1..6, 1..6, 4..6>>, <<1..6, 1..3, 4..6>>, <<1..3, 4..6, 4..5>>,
   <<{1, 2, 4, 6}, {2, 3, 5}, 1..6>>, <<1..6, 1..4, 4..6>>}
SomeDates == {3, 6}
=============================================================================
