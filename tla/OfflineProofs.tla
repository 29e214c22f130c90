--------------------------- MODULE OfflineProofs ---------------------------
(***************************************************************************)
(* Theorems of Offline: the files the script writes, for any number of     *)
(* symbols, years, attempts and faults; and the folds a training cuts, for *)
(* any frames and any number of folds.                                     *)
(***************************************************************************)
EXTENDS Offline, TLAPS, WellFoundedInduction, FiniteSetTheorems

-----------------------------------------------------------------------------
(* The cut of the frames *)

\* A set of naturals that is not empty has a least element, which Min chooses.
LEMMA MinExists ==
  ASSUME NEW S \in SUBSET Nat, S # {}
  PROVE  Min(S) \in S /\ \A y \in S : Min(S) <= y
<1>1. PICK x \in S : \A y \in S : <<y, x>> \notin OpToRel(<, Nat)
  BY WFMin, NatLessThanWellFounded
<1>2. \A y \in S : x <= y
  <2>1. TAKE y \in S
  <2>2. ~(y < x)
    BY <1>1 DEF OpToRel
  <2>3. QED BY <2>2
<1>3. QED BY <1>2 DEF Min

\* A later moment has no lower position.
LEMMA PositionGrows ==
  ASSUME NEW T \in SUBSET Int, IsFiniteSet(T), NEW t \in Int, NEW u \in Int, t <= u
  PROVE  Position(T, t) \in Nat /\ Position(T, u) \in Nat /\ Position(T, t) <= Position(T, u)
<1>1. /\ {w \in T : w < t} \subseteq {w \in T : w < u}
      /\ {w \in T : w < t} \subseteq T /\ {w \in T : w < u} \subseteq T
  <2>1. \A w \in T : w \in Int /\ (w < t => w < u)
    OBVIOUS
  <2>2. QED BY <2>1
<1>2. IsFiniteSet({w \in T : w < u})
  BY <1>1, FS_Subset
<1>3. /\ IsFiniteSet({w \in T : w < t})
      /\ Cardinality({w \in T : w < t}) <= Cardinality({w \in T : w < u})
  BY <1>1, <1>2, FS_Subset
<1>4. QED BY <1>2, <1>3, FS_CardinalityType DEF Position

LEMMA Products ==
  ASSUME NEW a \in Int, NEW b \in Int, NEW c \in Nat, a <= b
  PROVE  a * c <= b * c /\ a * c \in Int
OBVIOUS

\* The test blocks start one after the other, the first after what it trains on.
LEMMA StartsGrow ==
  ASSUME NEW n \in Nat, NEW k \in Nat \ {0}
  PROVE  /\ FirstTest(n) \in Nat /\ TestSpan(n, k) \in Nat
         /\ TestStart(n, k, 1) = FirstTest(n)
         /\ \A i, j \in Int : /\ TestStart(n, k, i) \in Int
                              /\ i <= j => TestStart(n, k, i) <= TestStart(n, k, j)
<1>1. FirstTest(n) \in Nat /\ n - FirstTest(n) \in Nat
  BY DEF FirstTest
<1>2. TestSpan(n, k) \in Nat
  <2>1. \A x \in Nat : x \div k \in Nat
    OBVIOUS
  <2>2. QED BY <1>1, <2>1 DEF TestSpan
<1>3. TestStart(n, k, 1) = FirstTest(n)
  <2>1. (1 - 1) * TestSpan(n, k) = 0
    BY <1>2
  <2>2. QED BY <1>1, <2>1 DEF TestStart
<1>4. ASSUME NEW i \in Int, NEW j \in Int
      PROVE  /\ TestStart(n, k, i) \in Int
             /\ i <= j => TestStart(n, k, i) <= TestStart(n, k, j)
  <2>1. i <= j => (i - 1) * TestSpan(n, k) <= (j - 1) * TestSpan(n, k)
    BY <1>2, Products
  <2>2. (i - 1) * TestSpan(n, k) \in Int /\ (j - 1) * TestSpan(n, k) \in Int
    BY <1>2
  <2>3. QED BY <1>1, <2>1, <2>2 DEF TestStart
<1>5. QED BY <1>1, <1>2, <1>3, <1>4

\* A bar is of the first training block or of some test block.
LEMMA EveryPositionHasABlock ==
  ASSUME NEW n \in Nat, NEW k \in Nat \ {0}, NEW p \in Nat
  PROVE  \/ p < TestStart(n, k, 1)
         \/ \E i \in 1..k : /\ p >= TestStart(n, k, i)
                            /\ i < k => p < TestStart(n, k, i + 1)
<1> SUFFICES ASSUME ~(p < TestStart(n, k, 1))
             PROVE  \E i \in 1..k : /\ p >= TestStart(n, k, i)
                                    /\ i < k => p < TestStart(n, k, i + 1)
  OBVIOUS
<1>1. \A i \in Int : TestStart(n, k, i) \in Int
  BY StartsGrow
<1> DEFINE S == {i \in 1..k : i = k \/ p < TestStart(n, k, i + 1)}
<1>2. S \in SUBSET Nat /\ k \in S
  OBVIOUS
<1>3. Min(S) \in S /\ \A y \in S : Min(S) <= y
  <2> HIDE DEF S
  <2>1. QED BY <1>2, MinExists
<1>4. PICK i \in S : \A y \in S : i <= y
  BY <1>3
<1>5. i \in 1..k /\ (i < k => p < TestStart(n, k, i + 1))
  OBVIOUS
<1>6. p >= TestStart(n, k, i)
  <2>1. CASE i = 1
    BY <1>1, <2>1
  <2>2. CASE i # 1
    <3>1. i - 1 \in 1..k /\ i - 1 < i /\ i - 1 # k /\ (i - 1) + 1 = i
      BY <1>5, <2>2
    <3>2. i - 1 \notin S
      <4> HIDE DEF S
      <4>1. QED BY <1>2, <1>4, <3>1
    <3>3. ~(p < TestStart(n, k, i))
      BY <3>1, <3>2
    <3>4. QED BY <1>1, <1>5, <3>3
  <2>3. QED BY <2>1, <2>2
<1>7. QED BY <1>5, <1>6

-----------------------------------------------------------------------------
(* The folds of some frames *)

\* Frames: sets of days, for some symbols.
Frames(frames) == \A s \in DOMAIN frames : frames[s] \subseteq Days

LEMMA DaysFinite == Days \subseteq Nat /\ IsFiniteSet(Days)
<1>1. NumYears * DaysPerYear \in Nat
  BY DownloadAssumption
<1>2. Days = 1..(NumYears * DaysPerYear)
  BY DEF Days
<1> HIDE DEF Days
<1>3. QED BY <1>1, <1>2, FS_Interval

LEMMA TrimmedIs ==
  ASSUME NEW frames, Frames(frames)
  PROVE  /\ DOMAIN Trimmed(frames) \subseteq DOMAIN frames
         /\ \A s \in DOMAIN Trimmed(frames) :
              Trimmed(frames)[s] = Slice(frames, s) /\ Trimmed(frames)[s] \subseteq Days
         /\ Timeline(Trimmed(frames)) \subseteq Days /\ IsFiniteSet(Timeline(Trimmed(frames)))
         /\ Cardinality(Timeline(Trimmed(frames))) \in Nat
<1>1. \A s \in DOMAIN frames : Slice(frames, s) \subseteq Days
  BY DEF Slice, Frames
<1>2. /\ DOMAIN Trimmed(frames) \subseteq DOMAIN frames
      /\ \A s \in DOMAIN Trimmed(frames) : Trimmed(frames)[s] = Slice(frames, s)
  BY DEF Trimmed
<1>3. Timeline(Trimmed(frames)) \subseteq Days
  BY <1>1, <1>2 DEF Timeline
<1>4. IsFiniteSet(Timeline(Trimmed(frames)))
  BY <1>3, DaysFinite, FS_Subset
<1>5. QED BY <1>1, <1>2, <1>3, <1>4, FS_CardinalityType

LEMMA PresentIs ==
  ASSUME NEW parts
  PROVE  /\ DOMAIN Present(parts) = {s \in DOMAIN parts : parts[s] # {}}
         /\ \A s \in DOMAIN Present(parts) : Present(parts)[s] = parts[s]
BY DEF Present

LEMMA TrainPartsIs ==
  ASSUME NEW frames, NEW i, NEW k
  PROVE  LET T == Timeline(frames)
             train(s) == TrainPart(frames[s], T, TestStart(Cardinality(T), k, i))
         IN /\ \A s : s \in DOMAIN TrainParts(frames, i, k) <=> s \in DOMAIN frames /\ train(s) # {}
            /\ \A s \in DOMAIN TrainParts(frames, i, k) : TrainParts(frames, i, k)[s] = train(s)
<1> DEFINE T == Timeline(frames)
           parts == [s \in DOMAIN frames |->
                       TrainPart(frames[s], T, TestStart(Cardinality(T), k, i))]
<1>1. TrainParts(frames, i, k) = Present(parts)
  BY DEF TrainParts
<1>2. /\ DOMAIN parts = DOMAIN frames
      /\ \A s \in DOMAIN frames :
           parts[s] = TrainPart(frames[s], T, TestStart(Cardinality(T), k, i))
  OBVIOUS
<1> HIDE DEF parts
<1>3. /\ DOMAIN Present(parts) = {s \in DOMAIN frames : parts[s] # {}}
      /\ \A s \in DOMAIN Present(parts) : Present(parts)[s] = parts[s]
  BY <1>2, PresentIs
<1>4. {s \in DOMAIN frames : parts[s] # {}} =
        {s \in DOMAIN frames : TrainPart(frames[s], T, TestStart(Cardinality(T), k, i)) # {}}
  BY <1>2
<1>5. QED BY <1>1, <1>2, <1>3, <1>4

LEMMA TestPartsIs ==
  ASSUME NEW frames, NEW i, NEW k
  PROVE  LET test(s) == TestPart(frames[s], Timeline(frames), i, k)
         IN /\ \A s : s \in DOMAIN TestParts(frames, i, k) <=> s \in DOMAIN frames /\ test(s) # {}
            /\ \A s \in DOMAIN TestParts(frames, i, k) : TestParts(frames, i, k)[s] = test(s)
<1> DEFINE parts == [s \in DOMAIN frames |-> TestPart(frames[s], Timeline(frames), i, k)]
<1>1. TestParts(frames, i, k) = Present(parts)
  BY DEF TestParts
<1>2. /\ DOMAIN parts = DOMAIN frames
      /\ \A s \in DOMAIN frames : parts[s] = TestPart(frames[s], Timeline(frames), i, k)
  OBVIOUS
<1> HIDE DEF parts
<1>3. /\ DOMAIN Present(parts) = {s \in DOMAIN frames : parts[s] # {}}
      /\ \A s \in DOMAIN Present(parts) : Present(parts)[s] = parts[s]
  BY <1>2, PresentIs
<1>4. {s \in DOMAIN frames : parts[s] # {}} =
        {s \in DOMAIN frames : TestPart(frames[s], Timeline(frames), i, k) # {}}
  BY <1>2
<1>5. QED BY <1>1, <1>2, <1>3, <1>4

\* The folds are the parts of the trimmed frames, one after the other.
LEMMA FoldIs ==
  ASSUME NEW frames, NEW k \in Nat \ {0}, SplitFrames(frames, k) # <<>>
  PROVE  /\ DOMAIN SplitFrames(frames, k) = 1..k
         /\ \A i \in 1..k :
              /\ SplitFrames(frames, k)[i].train = TrainParts(Trimmed(frames), i, k)
              /\ SplitFrames(frames, k)[i].test = TestParts(Trimmed(frames), i, k)
<1>1. SplitFrames(frames, k) = [i \in 1..k |-> Fold(Trimmed(frames), i, k)]
  BY DEF SplitFrames
<1>2. QED BY <1>1 DEF Fold

\* The timestamps settle which block a bar is in.
LEMMA TrainBeforeTest ==
  ASSUME NEW T \in SUBSET Days, NEW t \in Days, NEW u \in Days, NEW start \in Int,
         Position(T, t) < start, Position(T, u) >= start
  PROVE  t < u
<1>0. IsFiniteSet(T)
  BY DaysFinite, FS_Subset
<1>1. T \in SUBSET Int /\ t \in Int /\ u \in Int
  BY DaysFinite
<1> SUFFICES ASSUME u <= t PROVE FALSE
  BY <1>1
<1>2. /\ Position(T, u) \in Nat /\ Position(T, t) \in Nat
      /\ Position(T, u) <= Position(T, t)
  BY <1>0, <1>1, PositionGrows
<1>3. QED BY <1>2

\* Whatever the frames and the number of folds: every bar of the training block of
\* a fold is before every bar of its test block, of any symbol.
THEOREM FoldsInOrder ==
  ASSUME NEW frames, Frames(frames), NEW k \in Nat \ {0}, SplitFrames(frames, k) # <<>>
  PROVE  LET folds == SplitFrames(frames, k)
         IN \A i \in DOMAIN folds :
              \A s \in DOMAIN folds[i].train, r \in DOMAIN folds[i].test :
                \A t \in folds[i].train[s], v \in folds[i].test[r] : t < v
<1> DEFINE folds == SplitFrames(frames, k)
           trimmed == Trimmed(frames)
           T == Timeline(trimmed)
           n == Cardinality(T)
<1>1. T \in SUBSET Days /\ n \in Nat
  BY TrimmedIs
<1>2. SUFFICES ASSUME NEW i \in DOMAIN folds,
                      NEW s \in DOMAIN folds[i].train, NEW r \in DOMAIN folds[i].test,
                      NEW t \in folds[i].train[s], NEW v \in folds[i].test[r]
               PROVE  t < v
  OBVIOUS
<1>3. i \in 1..k
  BY FoldIs
<1>4. s \in DOMAIN trimmed /\ t \in TrainPart(trimmed[s], T, TestStart(n, k, i))
  <2>1. folds[i].train = TrainParts(trimmed, i, k)
    BY <1>3, FoldIs
  <2> HIDE DEF folds, trimmed
  <2>2. s \in DOMAIN TrainParts(trimmed, i, k) /\ t \in TrainParts(trimmed, i, k)[s]
    BY <1>2, <2>1
  <2>3. \A p \in DOMAIN TrainParts(trimmed, i, k) :
          /\ p \in DOMAIN trimmed
          /\ TrainParts(trimmed, i, k)[p] = TrainPart(trimmed[p], Timeline(trimmed), TestStart(Cardinality(Timeline(trimmed)), k, i))
    BY TrainPartsIs
  <2>4. QED BY <2>2, <2>3
<1>5. r \in DOMAIN trimmed /\ v \in TestPart(trimmed[r], T, i, k)
  <2>1. folds[i].test = TestParts(trimmed, i, k)
    BY <1>3, FoldIs
  <2> HIDE DEF folds, trimmed
  <2>2. r \in DOMAIN TestParts(trimmed, i, k) /\ v \in TestParts(trimmed, i, k)[r]
    BY <1>2, <2>1
  <2>3. \A p \in DOMAIN TestParts(trimmed, i, k) :
          /\ p \in DOMAIN trimmed
          /\ TestParts(trimmed, i, k)[p] = TestPart(trimmed[p], Timeline(trimmed), i, k)
    BY TestPartsIs
  <2>4. QED BY <2>2, <2>3
<1>6. t \in Days /\ v \in Days
  BY <1>4, <1>5, TrimmedIs DEF TrainPart, TestPart
<1>7. Position(T, t) < TestStart(n, k, i) /\ Position(T, v) >= TestStart(n, k, i)
  BY <1>4, <1>5 DEF TrainPart, TestPart
<1>8. TestStart(n, k, i) \in Int
  <2>1. i \in Int
    BY <1>3
  <2> HIDE DEF n
  <2>2. QED BY <1>1, <2>1, StartsGrow
<1> HIDE DEF T, n
<1>9. QED BY <1>1, <1>6, <1>7, <1>8, TrainBeforeTest

\* The bars of a symbol in a block, none when it is absent from it.
Bars(parts, s) == IF s \in DOMAIN parts THEN parts[s] ELSE {}

LEMMA BarsAre ==
  ASSUME NEW frames, NEW k \in Nat \ {0}, SplitFrames(frames, k) # <<>>,
         NEW i \in 1..k, NEW s
  PROVE  LET folds == SplitFrames(frames, k)
             trimmed == Trimmed(frames)
             T == Timeline(trimmed)
         IN /\ s \in DOMAIN folds[i].train \/ s \in DOMAIN folds[i].test => s \in DOMAIN trimmed
            /\ s \in DOMAIN trimmed =>
                 /\ Bars(folds[i].train, s) =
                      TrainPart(trimmed[s], T, TestStart(Cardinality(T), k, i))
                 /\ Bars(folds[i].test, s) = TestPart(trimmed[s], T, i, k)
<1> DEFINE folds == SplitFrames(frames, k)
           trimmed == Trimmed(frames)
<1>1. folds[i].train = TrainParts(trimmed, i, k) /\ folds[i].test = TestParts(trimmed, i, k)
  BY FoldIs
<1> HIDE DEF folds, trimmed
<1>2. s \in DOMAIN folds[i].train \/ s \in DOMAIN folds[i].test => s \in DOMAIN trimmed
  BY <1>1, TrainPartsIs, TestPartsIs
<1>3. ASSUME s \in DOMAIN trimmed
      PROVE  /\ Bars(folds[i].train, s) =
                  TrainPart(trimmed[s], Timeline(trimmed),
                            TestStart(Cardinality(Timeline(trimmed)), k, i))
             /\ Bars(folds[i].test, s) = TestPart(trimmed[s], Timeline(trimmed), i, k)
  <2> DEFINE train == TrainPart(trimmed[s], Timeline(trimmed),
                                TestStart(Cardinality(Timeline(trimmed)), k, i))
             test == TestPart(trimmed[s], Timeline(trimmed), i, k)
  <2>1. /\ s \in DOMAIN TrainParts(trimmed, i, k) <=> train # {}
        /\ s \in DOMAIN TrainParts(trimmed, i, k) => TrainParts(trimmed, i, k)[s] = train
    BY <1>3, TrainPartsIs
  <2>2. /\ s \in DOMAIN TestParts(trimmed, i, k) <=> test # {}
        /\ s \in DOMAIN TestParts(trimmed, i, k) => TestParts(trimmed, i, k)[s] = test
    BY <1>3, TestPartsIs
  <2> HIDE DEF train, test
  <2>3. Bars(folds[i].train, s) = train /\ Bars(folds[i].test, s) = test
    BY <1>1, <2>1, <2>2 DEF Bars
  <2>4. QED BY <2>3 DEF train, test
<1>4. QED BY <1>2, <1>3 DEF folds, trimmed

\* Whatever the frames and the number of folds: the test blocks of a symbol are
\* disjoint, and with the first training block they are the whole of its history in
\* the range that the pool shares.
THEOREM FoldsCoverOnce ==
  ASSUME NEW frames, Frames(frames), NEW k \in Nat \ {0}, SplitFrames(frames, k) # <<>>,
         NEW s \in Retained(SplitFrames(frames, k))
  PROVE  LET folds == SplitFrames(frames, k)
         IN /\ \A i, j \in DOMAIN folds : i # j =>
                 \A t \in Bars(folds[i].test, s) : t \notin Bars(folds[j].test, s)
            /\ \A t \in Slice(frames, s) :
                 \/ t \in Bars(folds[1].train, s)
                 \/ \E i \in DOMAIN folds : t \in Bars(folds[i].test, s)
<1> DEFINE folds == SplitFrames(frames, k)
           trimmed == Trimmed(frames)
           T == Timeline(trimmed)
           n == Cardinality(T)
<1>1. DOMAIN folds = 1..k
  BY FoldIs
<1>2. s \in DOMAIN trimmed
  <2>1. PICK i \in 1..k : s \in DOMAIN folds[i].train \/ s \in DOMAIN folds[i].test
    BY <1>1 DEF Retained
  <2>2. QED BY <2>1, BarsAre
<1>3. trimmed[s] = Slice(frames, s) /\ trimmed[s] \subseteq Days
  BY <1>2, TrimmedIs
<1>4. T \in SUBSET Days /\ n \in Nat
  BY TrimmedIs
<1>5. \A i \in 1..k : /\ Bars(folds[i].train, s) = TrainPart(trimmed[s], T, TestStart(n, k, i))
                       /\ Bars(folds[i].test, s) = TestPart(trimmed[s], T, i, k)
  BY <1>2, BarsAre
<1> HIDE DEF folds, trimmed
<1>6. \A t \in trimmed[s] : Position(T, t) \in Nat
  <2>1. IsFiniteSet(T)
    BY <1>4, DaysFinite, FS_Subset
  <2> HIDE DEF T
  <2>2. T \in SUBSET Int /\ trimmed[s] \subseteq Int
    <3>1. \A x \in Days : x \in Int
      BY DaysFinite
    <3>2. T \subseteq Days /\ trimmed[s] \subseteq Days
      BY <1>3, <1>4
    <3>3. QED BY <3>1, <3>2
  <2>3. QED BY <2>1, <2>2, PositionGrows
<1> HIDE DEF n
<1>7. \A i \in Int : TestStart(n, k, i) \in Int
  BY <1>4, StartsGrow
<1>8. \A i \in 1..k, t \in trimmed[s] :
        t \in Bars(folds[i].test, s) <=>
          /\ Position(T, t) >= TestStart(n, k, i)
          /\ i < k => Position(T, t) < TestStart(n, k, i + 1)
  BY <1>5 DEF TestPart, n
<1>9. \A i \in 1..k : Bars(folds[i].test, s) \subseteq trimmed[s]
  BY <1>5 DEF TestPart
<1>10. ASSUME NEW i \in 1..k, NEW j \in 1..k, i < j,
              NEW t \in Bars(folds[i].test, s), t \in Bars(folds[j].test, s)
       PROVE  FALSE
  <2>1. t \in trimmed[s]
    BY <1>9
  <2>2. /\ i + 1 <= j /\ i + 1 \in Int /\ j \in Int /\ i < k
    BY <1>10
  <2>3. TestStart(n, k, i + 1) <= TestStart(n, k, j)
    BY <1>4, <2>2, StartsGrow
  <2>4. /\ Position(T, t) < TestStart(n, k, i + 1)
        /\ Position(T, t) >= TestStart(n, k, j)
    BY <1>8, <1>10, <2>1, <2>2
  <2>5. /\ Position(T, t) \in Int /\ TestStart(n, k, i + 1) \in Int
        /\ TestStart(n, k, j) \in Int
    <3>1. Position(T, t) \in Nat
      BY <1>6, <2>1
    <3>2. TestStart(n, k, i + 1) \in Int /\ TestStart(n, k, j) \in Int
      BY <1>7, <2>2
    <3>3. QED BY <3>1, <3>2
  <2>6. QED BY <2>3, <2>4, <2>5
<1>11. ASSUME NEW i \in 1..k, NEW j \in 1..k, i # j
       PROVE  \A t \in Bars(folds[i].test, s) : t \notin Bars(folds[j].test, s)
  <2>1. i < j \/ j < i
    BY <1>11
  <2>2. QED BY <1>10, <2>1
<1>12. ASSUME NEW t \in trimmed[s]
       PROVE  t \in Bars(folds[1].train, s) \/ \E i \in 1..k : t \in Bars(folds[i].test, s)
  <2>1. 1 \in 1..k
    OBVIOUS
  <2>2. Position(T, t) < TestStart(n, k, 1) => t \in Bars(folds[1].train, s)
    BY <1>5, <2>1 DEF TrainPart, n
  <2>3. Position(T, t) \in Nat
    BY <1>6
  <2>4. \/ Position(T, t) < TestStart(n, k, 1)
        \/ \E i \in 1..k : /\ Position(T, t) >= TestStart(n, k, i)
                           /\ i < k => Position(T, t) < TestStart(n, k, i + 1)
    BY <1>4, <2>3, EveryPositionHasABlock
  <2>5. QED BY <1>8, <2>2, <2>4
<1>13. QED BY <1>1, <1>3, <1>11, <1>12 DEF folds

-----------------------------------------------------------------------------
(* The files and the script *)

Script ==
  [pc : {"none", "year", "fetch", "write"}, force : BOOLEAN, current : Int,
   symbol : Symbols, year : Years, asOf : Dates \cup {0}, days : SUBSET Days,
   attempt : Nat, got : SUBSET Days]

\* What the script has of the year it fetches: the days it no longer awaits.
Fetched(s) ==
  {d \in published[s.symbol] \cap DaysOf(s.year) : d < s.asOf} \ s.days

Downloading ==
  /\ today \in Dates
  /\ published \in [Symbols -> SUBSET Days]
  /\ files \in [Symbols -> [Years -> File]]
  /\ script \in Script
  /\ script.pc = "year" => script.got = {}
  /\ script.pc \in {"fetch", "write"} => script.got = Fetched(script)
  /\ script.pc = "fetch" => \A d \in script.days : d \in DaysOf(script.year) /\ d < script.asOf
  /\ script.pc = "write" => script.days = {}

LEMMA ScriptFacts ==
  /\ NoScript \in Script /\ NoScript.pc = "none" /\ NoScript.got = {}
  /\ \A s \in Script : /\ Advance(s) \in Script /\ Advance(s).pc \in {"none", "year"}
                        /\ Advance(s).got = {}
<1>1. NumSymbols \in Nat \ {0} /\ NumYears \in Nat \ {0}
  BY DownloadAssumption
<1>2. 1 \in Symbols /\ 1 \in Years
  BY <1>1 DEF Symbols, Years
<1>3. NoScript \in Script /\ NoScript.pc = "none" /\ NoScript.got = {}
  BY <1>2 DEF NoScript, Script
<1>4. ASSUME NEW s \in Script
      PROVE  Advance(s) \in Script /\ Advance(s).pc \in {"none", "year"} /\ Advance(s).got = {}
  <2> DEFINE next == [NoScript EXCEPT !.pc = "year", !.force = s.force, !.current = s.current,
                                      !.symbol = s.symbol, !.year = s.year]
  <2>1. /\ next \in Script /\ next.pc = "year"
        /\ next.year = s.year /\ next.symbol = s.symbol /\ next.got = {}
    BY <1>3 DEF Script, NoScript
  <2>2. s.year < NumYears => s.year + 1 \in Years
    BY <1>1 DEF Script, Years
  <2>3. s.symbol < NumSymbols => s.symbol + 1 \in Symbols
    BY <1>1 DEF Script, Symbols
  <2>4. Advance(s) = IF s.year < NumYears THEN [next EXCEPT !.year = @ + 1]
                     ELSE IF s.symbol < NumSymbols THEN [next EXCEPT !.year = 1, !.symbol = @ + 1]
                     ELSE NoScript
    BY DEF Advance
  <2> HIDE DEF next
  <2>5. CASE s.year < NumYears
    <3>1. [next EXCEPT !.year = @ + 1] \in Script /\ [next EXCEPT !.year = @ + 1].pc = "year"
          /\ [next EXCEPT !.year = @ + 1].got = {}
      BY <2>1, <2>2, <2>5 DEF Script
    <3>2. QED BY <2>4, <2>5, <3>1
  <2>6. CASE ~(s.year < NumYears) /\ s.symbol < NumSymbols
    <3>1. /\ [next EXCEPT !.year = 1, !.symbol = @ + 1] \in Script
          /\ [next EXCEPT !.year = 1, !.symbol = @ + 1].pc = "year"
          /\ [next EXCEPT !.year = 1, !.symbol = @ + 1].got = {}
      BY <1>2, <2>1, <2>3, <2>6 DEF Script
    <3>2. QED BY <2>4, <2>6, <3>1
  <2>7. CASE ~(s.year < NumYears) /\ ~(s.symbol < NumSymbols)
    BY <1>3, <2>4, <2>7
  <2>8. QED BY <2>5, <2>6, <2>7
<1>5. QED BY <1>3, <1>4

LEMMA DateFacts ==
  /\ Dates \subseteq Int
  /\ \A day \in Dates : YearOf(day) \in Int
<1>1. NumYears * DaysPerYear \in Nat /\ DaysPerYear \in Nat \ {0}
  BY DownloadAssumption
<1>2. Dates \subseteq Int
  BY <1>1, DownloadAssumption, DaysFinite
<1>3. ASSUME NEW day \in Int PROVE YearOf(day) \in Int
  BY <1>1 DEF YearOf
<1>4. QED BY <1>2, <1>3

\* A file that is rewritten.
LEMMA SetFile ==
  ASSUME Downloading, NEW s \in Symbols, NEW y \in Years, NEW f \in File,
         files' = [files EXCEPT ![s][y] = f]
  PROVE  /\ files' \in [Symbols -> [Years -> File]]
         /\ \A p \in Symbols, z \in Years :
              files'[p][z] = IF p = s /\ z = y THEN f ELSE files[p][z]
BY DEF Downloading

\* A day is awaited: what the script has grows by that day, when it has candles.
LEMMA AnsweredIs ==
  ASSUME Downloading, script.pc = "fetch", NEW d \in script.days,
         script' = Answered(script, d), UNCHANGED <<today, published, files>>
  PROVE  Downloading'
<1>1. script \in Script /\ d \in Days /\ d \in DaysOf(script.year) /\ d < script.asOf
  BY DEF Downloading, Script
<1>2. /\ script'.pc = "fetch" /\ script'.days = script.days \ {d}
      /\ script'.got = IF d \in published[script.symbol] THEN script.got \cup {d} ELSE script.got
      /\ script'.symbol = script.symbol /\ script'.year = script.year /\ script'.asOf = script.asOf
      /\ script' \in Script
  BY <1>1 DEF Answered, Done, Script
<1>3. script'.got = Fetched(script)'
  BY <1>1, <1>2 DEF Downloading, Fetched
<1>4. QED BY <1>2, <1>3 DEF Downloading

LEMMA DownloadKeeps ==
  Downloading /\ [DownloadNext]_downloadVars => Downloading'
<1> SUFFICES ASSUME Downloading, [DownloadNext]_downloadVars PROVE Downloading'
  OBVIOUS
<1>0. script \in Script /\ today \in Dates
  BY DEF Downloading
<1>1. CASE Time
  BY <1>1 DEF Time, Downloading, Fetched
<1>2. ASSUME NEW force \in BOOLEAN, Launch(force) PROVE Downloading'
  <2>1. YearOf(today) \in Int
    BY <1>0, DateFacts
  <2>2. script' \in Script /\ script'.pc = "year" /\ script'.got = {}
    BY <1>2, <2>1, ScriptFacts DEF Launch, Script
  <2>3. QED BY <1>2, <2>2 DEF Launch, Downloading
<1>3. CASE Skip
  BY <1>0, <1>3, ScriptFacts DEF Skip, Downloading
<1>4. CASE DownloadYear
  <2>1. script' = [script EXCEPT !.pc = "fetch", !.asOf = today,
                                 !.days = {d \in DaysOf(script.year) : d < today}]
    BY <1>4 DEF DownloadYear
  <2>2. {d \in DaysOf(script.year) : d < today} \in SUBSET Days
    BY DEF DaysOf
  <2>3. /\ script' \in Script /\ script'.pc = "fetch" /\ script'.asOf = today
        /\ script'.days = {d \in DaysOf(script.year) : d < today}
        /\ script'.symbol = script.symbol /\ script'.year = script.year
        /\ script'.got = script.got
    BY <1>0, <2>1, <2>2 DEF Script
  <2>4. script.got = {}
    BY <1>4 DEF DownloadYear, Downloading
  <2>5. QED BY <1>4, <2>3, <2>4 DEF DownloadYear, Downloading, Fetched
<1>5. CASE Answer
  <2>1. script.days \in SUBSET Nat /\ script.days # {} /\ script.pc = "fetch"
    BY <1>0, <1>5, DaysFinite DEF Answer, Awaiting, Script
  <2>2. Min(script.days) \in script.days
    BY <2>1, MinExists
  <2>3. QED BY <1>5, <2>1, <2>2, AnsweredIs DEF Answer
<1>6. CASE Retry
  <2>1. /\ script' \in Script /\ script'.pc = script.pc /\ script'.asOf = script.asOf
        /\ script'.days = script.days /\ script'.got = script.got
        /\ script'.symbol = script.symbol /\ script'.year = script.year
    BY <1>0, <1>6 DEF Retry, Script
  <2>2. QED BY <1>6, <2>1 DEF Retry, Downloading, Fetched
<1>7. CASE GiveUp
  BY <1>0, <1>7, ScriptFacts DEF GiveUp, GivenUp, Downloading
<1>8. CASE OpenFile
  <2>1. CASE script' = Advance(script) /\ UNCHANGED files
    BY <1>0, <1>8, <2>1, ScriptFacts DEF OpenFile, Downloading
  <2>2. CASE /\ script' = [script EXCEPT !.pc = "write"]
             /\ files' = [files EXCEPT ![script.symbol][script.year] = Unreadable]
    <3>1. Unreadable \in File
      BY DEF Unreadable, File
    <3>2. files' \in [Symbols -> [Years -> File]]
      BY <1>0, <2>2, <3>1, SetFile DEF Script
    <3>3. /\ script' \in Script /\ script'.pc = "write" /\ script'.asOf = script.asOf
          /\ script'.days = script.days /\ script'.got = script.got
          /\ script'.symbol = script.symbol /\ script'.year = script.year
      BY <1>0, <2>2 DEF Script
    <3>4. QED BY <1>8, <3>2, <3>3 DEF OpenFile, Downloading, Fetched
  <2>3. QED BY <1>8, <2>1, <2>2 DEF OpenFile
<1>9. CASE CloseFile
  <2>1. Written(script.got, script.asOf) \in File
    BY <1>0 DEF Script, Written, File
  <2>2. files' \in [Symbols -> [Years -> File]]
    BY <1>0, <1>9, <2>1, SetFile DEF CloseFile, Script
  <2>3. QED BY <1>0, <1>9, <2>2, ScriptFacts DEF CloseFile, Downloading
<1>10. CASE Crash
  BY <1>10, ScriptFacts DEF Crash, Downloading
<1>11. ASSUME NEW s \in Symbols, NEW y \in Years, DeleteFile(s, y) PROVE Downloading'
  <2>1. Absent \in File
    BY DEF Absent, File
  <2>2. files' \in [Symbols -> [Years -> File]]
    BY <1>11, <2>1, SetFile DEF DeleteFile
  <2>3. QED BY <1>11, <2>2 DEF DeleteFile, Downloading, Fetched
<1>12. CASE UNCHANGED downloadVars
  BY <1>12 DEF downloadVars, Downloading, Fetched
<1>13. QED
  BY <1>1, <1>2, <1>3, <1>4, <1>5, <1>6, <1>7, <1>8, <1>9, <1>10, <1>11, <1>12 DEF DownloadNext

LEMMA DownloadInitially == DownloadInit => Downloading
<1>1. Absent \in File
  BY DEF Absent, File
<1>2. \A c \in Coverages : c \in [Symbols -> SUBSET Days]
  BY DownloadAssumption
<1>3. QED BY <1>1, <1>2, ScriptFacts DEF DownloadInit, Downloading

LEMMA NoHolesNext ==
  Downloading /\ NoHoles /\ [DownloadNext]_downloadVars => NoHoles'
<1> SUFFICES ASSUME Downloading, NoHoles, [DownloadNext]_downloadVars PROVE NoHoles'
  OBVIOUS
<1>0. script \in Script
  BY DEF Downloading
<1>1. CASE OpenFile /\ files' = [files EXCEPT ![script.symbol][script.year] = Unreadable]
  <2>1. Unreadable \in File /\ Unreadable.state # "written"
    BY DEF Unreadable, File
  <2>2. \A p \in Symbols, z \in Years :
          files'[p][z] = IF p = script.symbol /\ z = script.year THEN Unreadable ELSE files[p][z]
    BY <1>0, <1>1, <2>1, SetFile DEF Script
  <2>3. QED BY <1>1, <2>1, <2>2 DEF OpenFile, NoHoles
<1>2. CASE CloseFile
  <2> DEFINE new == Written(script.got, script.asOf)
  <2>1. new \in File /\ new.days = script.got /\ new.asOf = script.asOf
    BY <1>0 DEF Script, Written, File
  <2>2. files' = [files EXCEPT ![script.symbol][script.year] = new] /\ UNCHANGED published
    BY <1>2 DEF CloseFile
  <2> HIDE DEF new
  <2>3. \A p \in Symbols, z \in Years :
          files'[p][z] = IF p = script.symbol /\ z = script.year THEN new ELSE files[p][z]
    BY <1>0, <2>1, <2>2, SetFile DEF Script
  <2>4. new.days = {d \in published[script.symbol] \cap DaysOf(script.year) : d < new.asOf}
    BY <1>2, <2>1 DEF CloseFile, Downloading, Fetched
  <2>5. QED BY <2>2, <2>3, <2>4 DEF NoHoles
<1>3. ASSUME NEW s \in Symbols, NEW y \in Years, DeleteFile(s, y) PROVE NoHoles'
  <2>1. Absent \in File /\ Absent.state # "written"
    BY DEF Absent, File
  <2>2. \A p \in Symbols, z \in Years :
          files'[p][z] = IF p = s /\ z = y THEN Absent ELSE files[p][z]
    BY <1>3, <2>1, SetFile DEF DeleteFile
  <2>3. QED BY <1>3, <2>1, <2>2 DEF DeleteFile, NoHoles
<1>4. CASE UNCHANGED <<published, files>>
  BY <1>4 DEF NoHoles
<1>5. QED
  BY <1>1, <1>2, <1>3, <1>4
     DEF DownloadNext, downloadVars, Time, Launch, Skip, DownloadYear, Answer, Retry, GiveUp,
         OpenFile, Crash

LEMMA DownloadSteps == [Next]_vars => [DownloadNext]_downloadVars
BY DEF Next, Request, Load, Split, Finish, vars, downloadVars

LEMMA DownloadingHolds == Spec => []Downloading
<1>1. Init => Downloading
  BY DownloadInitially DEF Init
<1>2. Downloading /\ [Next]_vars => Downloading'
  BY DownloadKeeps, DownloadSteps
<1>3. QED BY <1>1, <1>2, PTL DEF Spec

\* No file has a hole in the days it claims, however many attempts fail, wherever the
\* script is interrupted and however often it is launched again.
THEOREM NoHolesHolds == Spec => []NoHoles
<1>1. Init => NoHoles
  BY DEF Init, DownloadInit, Absent, NoHoles
<1>2. Downloading /\ NoHoles /\ [Next]_vars => NoHoles'
  BY NoHolesNext, DownloadSteps
<1>3. QED BY <1>1, <1>2, DownloadingHolds, PTL DEF Spec

-----------------------------------------------------------------------------
(* The training *)

\* What a training has loaded is days, and its folds are the cut of it.
Cut ==
  /\ job = [phase |-> job.phase, count |-> job.count, pooled |-> job.pooled,
            left |-> job.left, frames |-> job.frames, folds |-> job.folds]
  /\ job.count \in Nat \ {0}
  /\ job.left \subseteq Symbols
  /\ Frames(job.frames)
  /\ job.phase = "load" => job.folds = <<>>
  /\ job.folds = <<>> \/ job.folds = SplitFrames(job.frames, job.count)

LEMMA CutNext == Cut /\ Downloading /\ [Next]_vars => Cut'
<1> SUFFICES ASSUME Cut, Downloading, [Next]_vars PROVE Cut'
  OBVIOUS
<1>0. DOMAIN <<>> = {}
  OBVIOUS
<1>1. ASSUME NEW phase, NEW count \in Nat \ {0}, NEW pooled, NEW left \in SUBSET Symbols,
             job' = [NoJob EXCEPT !.phase = phase, !.count = count, !.pooled = pooled,
                                  !.left = left]
      PROVE  Cut'
  <2>1. job' = [phase |-> phase, count |-> count, pooled |-> pooled, left |-> left,
                frames |-> <<>>, folds |-> <<>>]
    BY <1>1 DEF NoJob
  <2>2. QED BY <1>0, <2>1 DEF Cut, Frames
<1>2. CASE job' = NoJob \/ job' = Failed
  <2>1. PICK phase : job' = [phase |-> phase, count |-> 1, pooled |-> FALSE, left |-> {},
                             frames |-> <<>>, folds |-> <<>>]
    BY <1>2 DEF NoJob, Failed
  <2>2. QED BY <1>0, <2>1 DEF Cut, Frames
<1>3. ASSUME NEW symbols \in SUBSET Symbols, NEW count \in FoldCounts, NEW pooled \in BOOLEAN,
             Request(symbols, count, pooled)
      PROVE  Cut'
  <2>1. count \in Nat \ {0}
    BY OfflineAssumption
  <2>2. QED BY <1>1, <1>3, <2>1 DEF Request
<1>4. CASE Load
  <2> DEFINE s == Min(job.left)
             frames == [p \in DOMAIN job.frames \cup {s} |->
                          IF p = s THEN LoadHistory(s) ELSE job.frames[p]]
  <2>1. s \in Symbols
    <3>1. job.left \in SUBSET Nat /\ job.left # {}
      BY <1>4, DownloadAssumption DEF Load, Cut, Symbols
    <3>2. QED BY <3>1, MinExists DEF Cut
  <2> HIDE DEF s
  <2>2. LoadHistory(s) \subseteq Days
    BY <2>1 DEF LoadHistory, Downloading, File
  <2>3. Frames(frames)
    BY <2>2 DEF Frames, Cut
  <2>4. job' = Failed \/ job' = [job EXCEPT !.left = @ \ {s}, !.frames = frames]
    BY <1>4 DEF Load, s
  <2> HIDE DEF frames
  <2>5. CASE job' = [job EXCEPT !.left = @ \ {s}, !.frames = frames]
    <3>1. job' = [phase |-> job.phase, count |-> job.count, pooled |-> job.pooled,
                  left |-> job.left \ {s}, frames |-> frames, folds |-> job.folds]
      BY <2>5 DEF Cut
    <3>2. job.folds = <<>>
      BY <1>4 DEF Load, Cut
    <3>3. QED BY <2>3, <3>1, <3>2 DEF Cut
  <2>6. QED BY <1>2, <2>4, <2>5
<1>5. CASE Split
  <2> DEFINE folds == SplitFrames(job.frames, job.count)
  <2>1. job' = Failed \/ job' = [job EXCEPT !.phase = "split", !.folds = folds]
    BY <1>5 DEF Split
  <2>2. CASE job' = [job EXCEPT !.phase = "split", !.folds = folds]
    <3> HIDE DEF folds
    <3>1. job' = [phase |-> "split", count |-> job.count, pooled |-> job.pooled,
                  left |-> job.left, frames |-> job.frames, folds |-> folds]
      BY <2>2 DEF Cut
    <3>2. QED BY <3>1 DEF Cut, folds
  <2>3. QED BY <1>2, <2>1, <2>2
<1>6. CASE UNCHANGED job
  BY <1>6 DEF Cut
<1>7. QED BY <1>2, <1>3, <1>4, <1>5, <1>6 DEF Next, Finish, vars

LEMMA CutHolds == Spec => []Cut
<1>1. Init => Cut
  <2>1. DOMAIN <<>> = {}
    OBVIOUS
  <2>2. QED BY <2>1 DEF Init, NoJob, Cut, Frames
<1>2. QED BY <1>1, CutNext, DownloadingHolds, PTL DEF Spec

\* No fold learns from its own test block or a later one: every bar it trains on is
\* before every bar of the test block, of any symbol (_split_frames).
THEOREM NothingFromTheFutureHolds == Spec => []NothingFromTheFuture
<1>1. Cut => NothingFromTheFuture
  <2>1. ASSUME Cut, NEW i \in DOMAIN job.folds, NEW s \in DOMAIN job.folds[i].train,
               NEW t \in job.folds[i].train[s],
               NEW r \in DOMAIN job.folds[i].test, NEW v \in job.folds[i].test[r]
        PROVE  t < v
    <3>1. job.folds # <<>>
      <4>1. DOMAIN <<>> = {}
        OBVIOUS
      <4>2. QED BY <4>1
    <3>2. /\ Frames(job.frames) /\ job.count \in Nat \ {0}
          /\ job.folds = SplitFrames(job.frames, job.count)
      BY <2>1, <3>1 DEF Cut
    <3>3. QED BY <3>1, <3>2, FoldsInOrder
  <2>2. QED BY <2>1 DEF NothingFromTheFuture
<1>2. QED BY <1>1, CutHolds, PTL

\* The test blocks of a symbol are disjoint, and with the first training block they
\* are the whole of its history in the range its pool shares.
THEOREM TestedOnceHolds == Spec => []TestedOnce
<1>1. Cut => TestedOnce
  <2> SUFFICES ASSUME Cut, job.folds # <<>>, NEW s \in Retained(job.folds)
               PROVE  /\ \A i, j \in DOMAIN job.folds :
                           i # j => Bars(job.folds[i].test, s) \cap Bars(job.folds[j].test, s) = {}
                      /\ Slice(job.frames, s) \subseteq
                           Bars(job.folds[1].train, s) \cup
                             UNION {Bars(job.folds[i].test, s) : i \in DOMAIN job.folds}
    BY DEF TestedOnce, Bars, Slice
  <2>1. /\ Frames(job.frames) /\ job.count \in Nat \ {0}
        /\ job.folds = SplitFrames(job.frames, job.count)
    BY DEF Cut
  <2> DEFINE folds == SplitFrames(job.frames, job.count)
  <2>2. folds # <<>> /\ s \in Retained(folds)
    BY <2>1
  <2>3. /\ \A i, j \in DOMAIN folds : i # j =>
             \A t \in Bars(folds[i].test, s) : t \notin Bars(folds[j].test, s)
        /\ \A t \in Slice(job.frames, s) :
             \/ t \in Bars(folds[1].train, s)
             \/ \E i \in DOMAIN folds : t \in Bars(folds[i].test, s)
    BY <2>1, <2>2, FoldsCoverOnce
  <2>4. job.folds = folds
    BY <2>1
  <2> HIDE DEF folds
  <2>5. \A i, j \in DOMAIN folds :
          i # j => Bars(folds[i].test, s) \cap Bars(folds[j].test, s) = {}
    BY <2>3
  <2>6. Slice(job.frames, s) \subseteq
          Bars(folds[1].train, s) \cup UNION {Bars(folds[i].test, s) : i \in DOMAIN folds}
    BY <2>3
  <2>7. QED BY <2>4, <2>5, <2>6
<1>2. QED BY <1>1, CutHolds, PTL
=============================================================================
