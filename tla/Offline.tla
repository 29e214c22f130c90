------------------------------ MODULE Offline ------------------------------
(***************************************************************************)
(* From the history on disk to the folds of a training: the script of      *)
(* data_history_downloader, a process of its own, writes the files while a *)
(* training of the server (api_training.start_training's target, in a      *)
(* thread) loads those of its symbols one after the other and              *)
(* training_walkforward._run cuts them into folds.                         *)
(*                                                                         *)
(* Abstractions.  The timeframe is D1, so a day with candles is a bar.  A  *)
(* request names no period.  What becomes of the folds is TrainingJobs.    *)
(***************************************************************************)
EXTENDS HistoryDownload, WalkForward

CONSTANTS
  FoldCounts,  \* numbers of folds a request may ask for
  MaxJobs      \* bound: trainings requested

ASSUME OfflineAssumption ==
  /\ FoldCounts \subseteq Nat \ {0}
  /\ MaxJobs \in Nat

VARIABLES
  job,         \* the training: its request, the frames it has, its folds
  requested    \* trainings requested

vars == <<today, published, files, script, launched, faults, job, requested>>

NoJob == [phase |-> "none", count |-> 1, pooled |-> FALSE, left |-> {},
          frames |-> <<>>, folds |-> <<>>]

Init == DownloadInit /\ job = NoJob /\ requested = 0

\* start_training: the symbols of the request that have a file.
Request(symbols, count, pooled) ==
  /\ job.phase = "none"
  /\ requested < MaxJobs
  /\ \A s \in symbols : \E y \in Years : files[s][y].state # "absent"
  /\ IF pooled THEN Cardinality(symbols) >= 2 ELSE Cardinality(symbols) = 1
  /\ requested' = requested + 1
  /\ job' = [NoJob EXCEPT !.phase = "load", !.count = count, !.pooled = pooled,
                          !.left = symbols]
  /\ UNCHANGED downloadVars

Failed == [NoJob EXCEPT !.phase = "failed"]

\* The next symbol: an unreadable file, or none, fails the training.
Load ==
  /\ job.phase = "load" /\ job.left # {}
  /\ LET s == Min(job.left)
     IN job' = IF ~Loadable(s) THEN Failed
               ELSE [job EXCEPT !.left = @ \ {s},
                       !.frames = [p \in DOMAIN @ \cup {s} |->
                                     IF p = s THEN LoadHistory(s) ELSE @[p]]]
  /\ UNCHANGED <<today, published, files, script, launched, faults, requested>>

\* All of them loaded: a symbol with too few bars for the folds fails the
\* training, and so does a pool of which one symbol is left.
Split ==
  /\ job.phase = "load" /\ job.left = {}
  /\ LET short == {s \in DOMAIN job.frames :
                     Cardinality(job.frames[s]) < job.count * MinPerFold}
         folds == SplitFrames(job.frames, job.count)
     IN job' = IF short # {} \/ folds = <<>> THEN Failed
               ELSE IF job.pooled /\ Cardinality(Retained(folds)) < 2 THEN Failed
               ELSE [job EXCEPT !.phase = "split", !.folds = folds]
  /\ UNCHANGED <<today, published, files, script, launched, faults, requested>>

Finish ==
  /\ job.phase \in {"split", "failed"}
  /\ job' = NoJob
  /\ UNCHANGED <<today, published, files, script, launched, faults, requested>>

Next ==
  \/ DownloadNext /\ UNCHANGED <<job, requested>>
  \/ \E symbols \in SUBSET Symbols, count \in FoldCounts, pooled \in BOOLEAN :
       Request(symbols, count, pooled)
  \/ Load
  \/ Split
  \/ Finish

Spec == Init /\ [][Next]_vars

-----------------------------------------------------------------------------
\* A fold never learns from its own test block, nor from a later one: every bar a
\* model is trained on comes before every bar of the test block, of any symbol of
\* the pool.
NothingFromTheFuture ==
  \A i \in DOMAIN job.folds :
    LET fold == job.folds[i]
        tests == UNION {fold.test[s] : s \in DOMAIN fold.test}
    IN \A s \in DOMAIN fold.train : \A t \in fold.train[s], v \in tests : t < v

\* The bars that settle in the history what an entry at bar t earns.
Ahead(frame, t) == {u \in frame : u > t /\ u <= t + Horizon}

\* What a fold learns of a bar is what became of it in the whole history, and it was
\* settled before the test block begins: a bar whose outcome the end of its block
\* cuts, or the end of the range the pool shares, has no label.
LabelsAreWhole ==
  \A i \in DOMAIN job.folds : LET train == job.folds[i].train IN
    \A s \in DOMAIN train : \A t \in train[s] :
      LabelWindow(train[s], t) \in {{}, Ahead(job.frames[s], t)}

\* What the report adds up over the folds is each bar once: the test blocks of a
\* symbol are disjoint, and with what the first fold trains on they are the whole of
\* its history in the range that the pool shares, the symbols included that have
\* too few bars in it.
TestedOnce ==
  LET folds == job.folds
      lo == CommonStart(job.frames, Pool(job.frames))
      hi == CommonEnd(job.frames, Pool(job.frames))
      Bars(parts, s) == IF s \in DOMAIN parts THEN parts[s] ELSE {}
  IN folds # <<>> =>
       \A s \in Retained(folds) :
         /\ \A i, j \in DOMAIN folds :
              i # j => Bars(folds[i].test, s) \cap Bars(folds[j].test, s) = {}
         /\ {t \in job.frames[s] : t >= lo /\ t <= hi} \subseteq
              Bars(folds[1].train, s) \cup
                UNION {Bars(folds[i].test, s) : i \in DOMAIN folds}

\* A pooled training only fails for want of a common range when no two of its
\* symbols have one ("put aside rather than sacrificing the whole run"). The code
\* does not keep it: symbols are put aside one at a time.
PoolWhenPossible ==
  (job.phase = "load" /\ job.left = {} /\ Cardinality(DOMAIN job.frames) >= 2) =>
    ((\E p, q \in DOMAIN job.frames : p # q /\ Overlap(job.frames, {p, q})) =>
       Cardinality(Pool(job.frames)) >= 2)
=============================================================================
