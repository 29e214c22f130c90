---------------------------- MODULE WalkForward ----------------------------
(***************************************************************************)
(* training_walkforward.split_walkforward and _split_frames: how the       *)
(* histories of one or more symbols become folds, each a block to train on *)
(* and a block, after it, to test on; and the bars of a training block     *)
(* that strategy_couleuvre_labeling.triple_barrier_labels labels.          *)
(*                                                                         *)
(* Abstractions.  A frame is the set of the moments it has a bar at.       *)
(* Symbols are numbers, in the order of the request, which settles which   *)
(* of two symbols max and min return.  The timeline is a set too: its      *)
(* moments are told apart by their positions in it, which is how a single  *)
(* frame is cut (iloc), and compares them as their timestamps do.          *)
(***************************************************************************)
EXTENDS Integers, FiniteSets, FiniteSetsExt

CONSTANTS
  Horizon,     \* MAX_HOLD_DAYS
  MinPerFold   \* bars a symbol must have per fold: 20 in the code

ASSUME WalkForwardAssumption ==
  /\ Horizon \in Nat \ {0}
  /\ MinPerFold \in Nat \ {0}

Start(frame) == Min(frame)
End(frame)   == Max(frame)

\* The range every symbol of the pool covers.
CommonStart(frames, pool) == Max({Start(frames[s]) : s \in pool})
CommonEnd(frames, pool)   == Min({End(frames[s]) : s \in pool})
Overlap(frames, pool)     == CommonStart(frames, pool) < CommonEnd(frames, pool)

\* The symbol put aside when the pool has no common range: the one that starts
\* last if the others then have one, otherwise the one that ends first.
LatestStart(frames, pool) ==
  Min({s \in pool : \A t \in pool : Start(frames[t]) <= Start(frames[s])})
EarliestEnd(frames, pool) ==
  Min({s \in pool : \A t \in pool : End(frames[s]) <= End(frames[t])})
Dropout(frames, pool) ==
  IF Overlap(frames, pool \ {LatestStart(frames, pool)})
  THEN LatestStart(frames, pool)
  ELSE EarliestEnd(frames, pool)

Pool(frames) ==
  LET kept[pool \in SUBSET DOMAIN frames] ==
        IF Cardinality(pool) <= 1 \/ Overlap(frames, pool) THEN pool
        ELSE kept[pool \ {Dropout(frames, pool)}]
  IN kept[DOMAIN frames]

\* The frames cut to the common range; a symbol with fewer than two bars in it
\* is put aside as well.
Slice(frames, s) ==
  {t \in frames[s] : /\ t >= CommonStart(frames, Pool(frames))
                     /\ t <= CommonEnd(frames, Pool(frames))}
Trimmed(frames) ==
  [s \in {p \in DOMAIN frames \cap Pool(frames) : Cardinality(Slice(frames, p)) >= 2} |->
     Slice(frames, s)]

\* The moments of the trimmed frames, and the position of each, from 0.
Timeline(frames) == UNION {frames[s] : s \in DOMAIN frames}
Position(timeline, t) == Cardinality({u \in timeline : u < t})

FirstTest(n)         == n \div 2                  \* initial_train_fraction
TestSpan(n, folds)   == (n - FirstTest(n)) \div folds
TooShort(n, folds)   == FirstTest(n) = 0 \/ TestSpan(n, folds) = 0
\* The position fold i's test block starts at.
TestStart(n, folds, i) == FirstTest(n) + (i - 1) * TestSpan(n, folds)

\* The bars of a frame that fold i trains on, and those it tests on: the last
\* fold takes what the division leaves.
UpToTest(frame, timeline, start) ==          \* mutant: the first test bar too
  {t \in frame : Position(timeline, t) <= start}
TrainPart(frame, timeline, start) == {t \in frame : Position(timeline, t) < start}

EvenPart(frame, timeline, i, folds) ==       \* mutant: the remainder is tested by no fold
  LET n == Cardinality(timeline)
  IN {t \in frame : /\ Position(timeline, t) >= TestStart(n, folds, i)
                    /\ Position(timeline, t) < TestStart(n, folds, i + 1)}
TestPart(frame, timeline, i, folds) ==
  LET n == Cardinality(timeline)
  IN {t \in frame : /\ Position(timeline, t) >= TestStart(n, folds, i)
                    /\ i < folds => Position(timeline, t) < TestStart(n, folds, i + 1)}

\* The folds: a symbol without a bar in a block is absent from it.
Present(parts) == [s \in {p \in DOMAIN parts : parts[p] # {}} |-> parts[s]]
TrainParts(frames, i, folds) ==
  LET timeline == Timeline(frames)
      start == TestStart(Cardinality(timeline), folds, i)
  IN Present([s \in DOMAIN frames |-> TrainPart(frames[s], timeline, start)])
TestParts(frames, i, folds) ==
  Present([s \in DOMAIN frames |-> TestPart(frames[s], Timeline(frames), i, folds)])
Fold(frames, i, folds) ==
  [train |-> TrainParts(frames, i, folds), test |-> TestParts(frames, i, folds)]

\* _split_frames, <<>> when it raises.
SplitFrames(frames, folds) ==
  LET trimmed == Trimmed(frames)
      n == Cardinality(Timeline(trimmed))
  IN IF DOMAIN trimmed = {} \/ TooShort(n, folds) THEN <<>>
     ELSE [i \in 1..folds |-> Fold(trimmed, i, folds)]

Retained(folds) ==
  UNION {DOMAIN folds[i].train \cup DOMAIN folds[i].test : i \in DOMAIN folds}

\* The bars the label of bar t reads, none when its window is empty or goes
\* past the end of the frame, and so bar t has no label.
CutWindow(frame, t) == {u \in frame : u > t /\ u <= t + Horizon}   \* mutant: cut labels
LabelWindow(frame, t) ==
  IF t + Horizon > End(frame) THEN {} ELSE {u \in frame : u > t /\ u <= t + Horizon}
=============================================================================
