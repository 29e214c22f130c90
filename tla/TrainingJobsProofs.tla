------------------------- MODULE TrainingJobsProofs -------------------------
(***************************************************************************)
(* Theorems of TrainingJobs, for every set of assets, any number of runs   *)
(* and of folds, pooled or not, and every set of faults.                   *)
(***************************************************************************)
EXTENDS TrainingJobs, TLAPS, FiniteSetTheorems

\* The row of a run is open until finish_run; its folds are there from the cut of
\* the history to the report.
Open   == Thread \ {"close"}
Folded == {"check", "train", "recheck", "test", "report"}

Completed(r) == At(r, "finish") /\ job[r].outcome = "completed"

\* The job and the row of a run go together.
RowAndJob(r) ==
  /\ job[r].status = "running" <=> Working(r)
  /\ row[r].status = "none" => row[r] = NoRow
  /\ job[r] = NoJob => row[r] = NoRow /\ models[r] = NoModels /\ metadata[r] = {}
  /\ deleting = r => row[r] = NoRow
  /\ job[r].at \in Open => row[r].status = "running"
  /\ row[r].status = "running" /\ r \notin broken => job[r].at \in Open

\* A verdict is earned before it is written, and the job keeps it.
Earned(r) ==
  /\ Completed(r) \/ row[r].status = "completed" => metadata[r] # {}
  /\ At(r, "finish") /\ job[r].outcome = "cancelled" => job[r].cancel
  /\ row[r].status = "cancelled" /\ job[r].status # "none" => job[r].cancel
  /\ row[r] # NoRow /\ r \notin broken =>
       /\ At(r, "close") => row[r].status = job[r].outcome
       /\ job[r].status \in Verdicts => row[r].status = job[r].status

\* Files without a row are those being deleted, or left by a deletion that stopped.
Owned(r) ==
  r \notin cut /\ row[r] = NoRow /\ deleting # r => models[r] = NoModels /\ metadata[r] = {}

\* The models of a run come from the assets it kept, which its report and then its
\* row name.
Seen(r) ==
  /\ job[r].at \in Open => IF Pooled THEN row[r].symbol = All
                                     ELSE job[r].asked = {row[r].symbol}
  /\ At(r, "load") => models[r] = NoModels
  /\ job[r].at \in Folded \/ Completed(r) =>
       /\ job[r].kept \in Requests /\ job[r].kept \subseteq job[r].asked
       /\ \A k \in Folds : models[r][k] \subseteq job[r].kept
  /\ Completed(r) => metadata[r] = job[r].kept
  /\ row[r].status = "completed" =>
       /\ row[r].symbol \in Symbols => row[r].trained = {row[r].symbol}
       /\ metadata[r] = row[r].trained
       /\ \A k \in Folds : models[r][k] \subseteq row[r].trained

RunInv(r) == RowAndJob(r) /\ Earned(r) /\ Owned(r) /\ Seen(r)

RunsInv == \A r \in Runs : RunInv(r)

-----------------------------------------------------------------------------
(* Types *)

\* Past the check of the loop there is a fold to work on.
FoldInRange == \A r \in Runs : job[r].at \in {"train", "recheck", "test"} => job[r].fold <= NFolds

LEMMA FieldTypes ==
  ASSUME TypeOK
  PROVE  \A r \in Runs : row[r] \in Row /\ job[r] \in Job /\ models[r] \in [Folds -> SUBSET Symbols]
                        /\ metadata[r] \in SUBSET Symbols
BY DEF TypeOK

LEMMA NoneTypes ==
  /\ NoRow \in Row
  /\ NoJob \in Job
  /\ NoModels \in [Folds -> SUBSET Symbols]
BY TrainingAssumption DEF NoRow, NoJob, NoModels, Row, Job, Verdicts, Folds

\* A request names assets, one of them if the strategy is not pooled.
LEMMA RequestTypes ==
  ASSUME NEW a \in Requests
  PROVE  a \subseteq Symbols /\ a # {} /\ (~Pooled => \E s \in Symbols : a = {s})
<1>1. a \subseteq Symbols
  BY DEF Requests
<1>2. ASSUME ~Pooled PROVE \E s \in Symbols : a = {s}
  <2>1. Cardinality(a) = 1
    BY <1>2 DEF Requests
  <2>2. IsFiniteSet(a)
    BY <1>1, FS_Subset, TrainingAssumption
  <2>3. QED BY <1>1, <2>1, <2>2, FS_Singleton
<1>3. a # {}
  <2>1. Cardinality({}) = 0
    BY FS_EmptySet
  <2>2. QED BY <2>1 DEF Requests
<1>4. QED BY <1>1, <1>2, <1>3

LEMMA AskedType ==
  ASSUME NEW a \in Requests
  PROVE  (IF Pooled THEN All ELSE CHOOSE s \in a : TRUE) \in Symbols \cup {All}
<1>1. CASE Pooled
  BY <1>1
<1>2. CASE ~Pooled
  BY <1>2, RequestTypes
<1>3. QED BY <1>1, <1>2

LEMMA GoType ==
  ASSUME TypeOK, NEW r \in Runs, NEW j \in Job, Go(r, j)
  PROVE  job' \in [Runs -> Job]
BY DEF Go, TypeOK

LEMMA TypeNext == TypeOK /\ FoldInRange /\ [Next]_vars => TypeOK'
<1> SUFFICES ASSUME TypeOK, FoldInRange, [Next]_vars PROVE TypeOK'
  OBVIOUS
<1> USE TrainingAssumption
<1>0. \A r \in Runs : row[r] \in Row /\ job[r] \in Job
  BY FieldTypes
<1>1. ASSUME NEW asked \in Requests, Start(asked) PROVE TypeOK'
  <2>1. PICK r \in Runs :
          /\ row' = [row EXCEPT ![r] =
               [status |-> "running", trained |-> {},
                symbol |-> IF Pooled THEN All ELSE CHOOSE s \in asked : TRUE]]
          /\ Go(r, [NoJob EXCEPT !.at = "load", !.status = "running", !.asked = asked])
    BY <1>1 DEF Start
  <2>2. row' \in [Runs -> Row]
    <3>1. [status |-> "running", trained |-> {},
           symbol |-> IF Pooled THEN All ELSE CHOOSE s \in asked : TRUE] \in Row
      BY AskedType DEF Row
    <3>2. QED BY <2>1, <3>1 DEF TypeOK
  <2>3. [NoJob EXCEPT !.at = "load", !.status = "running", !.asked = asked] \in Job
    BY NoneTypes, RequestTypes DEF Job, Thread
  <2>4. job' \in [Runs -> Job]
    BY <2>1, <2>3, GoType
  <2>5. QED BY <1>1, <2>2, <2>4 DEF Start, TypeOK, Disk, history
<1>2. ASSUME NEW r \in Runs, ThreadStep(r) \/ Cancel(r) PROVE job' \in [Runs -> Job]
  <2>j. ASSUME NEW label \in Thread \cup {"over"}, Jump(r, label) PROVE job' \in [Runs -> Job]
    <3>1. [job[r] EXCEPT !.at = label] \in Job
      BY <1>0 DEF Job
    <3>2. QED BY <2>j, <3>1, GoType DEF Jump
  <2>s. ASSUME Stop(r) PROVE job' \in [Runs -> Job]
    <3>1. [job[r] EXCEPT !.at = "finish", !.outcome = "cancelled"] \in Job
      BY <1>0 DEF Job, Thread, Verdicts
    <3>2. QED BY <2>s, <3>1, GoType DEF Stop
  <2>1. CASE Cancel(r)
    <3>1. [job[r] EXCEPT !.cancel = TRUE] \in Job
      BY <1>0 DEF Job
    <3>2. QED BY <2>1, <3>1, GoType DEF Cancel
  <2>2. CASE Load(r)
    <3>1. PICK kept \in Requests : Go(r, [job[r] EXCEPT !.at = "check", !.kept = kept])
      BY <2>2 DEF Load
    <3>k. kept \in SUBSET Symbols
      BY RequestTypes
    <3>2. [job[r] EXCEPT !.at = "check", !.kept = kept] \in Job
      BY <1>0, <3>k DEF Job, Thread
    <3>3. QED BY <3>1, <3>2, GoType
  <2>3. CASE Check(r) \/ Train(r) \/ Recheck(r) \/ FinishRun(r)
    <3>1. Stop(r) \/ \E label \in Thread : Jump(r, label)
      BY <2>3 DEF Check, Train, Recheck, FinishRun, Thread
    <3>2. QED BY <2>j, <2>s, <3>1
  <2>4. CASE Test(r)
    <3>1. job[r].fold \in 1..NFolds
      BY <1>0, <2>4 DEF Job, FoldInRange, Test, At
    <3>f. job[r].fold + 1 \in 1..(NFolds + 1)
      BY <3>1
    <3>2. [job[r] EXCEPT !.at = "check", !.fold = @ + 1] \in Job
      BY <1>0, <3>f DEF Job, Thread
    <3>3. QED BY <2>4, <3>2, GoType DEF Test
  <2>5. CASE Report(r) \/ Raises(r)
    <3>1. ASSUME NEW v \in Verdicts PROVE [job[r] EXCEPT !.at = "finish", !.outcome = v] \in Job
      BY <1>0 DEF Job, Thread
    <3>2. "completed" \in Verdicts /\ "failed" \in Verdicts
      BY DEF Verdicts
    <3>3. QED BY <2>5, <3>1, <3>2, GoType DEF Report, Raises
  <2>6. CASE FinishRaises(r)
    <3>1. [job[r] EXCEPT !.at = "close", !.outcome = "failed"] \in Job
      BY <1>0 DEF Job, Thread, Verdicts
    <3>2. QED BY <2>6, <3>1, GoType DEF FinishRaises
  <2>7. CASE Close(r)
    <3>1. [NoJob EXCEPT !.at = "over", !.status = Status(r), !.cancel = job[r].cancel] \in Job
      BY <1>0, NoneTypes DEF Job, Status
    <3>2. QED BY <2>7, <3>1, GoType DEF Close
  <2>8. QED BY <1>2, <2>1, <2>2, <2>3, <2>4, <2>5, <2>6, <2>7 DEF ThreadStep
<1>3. ASSUME NEW r \in Runs, Train(r) PROVE models' \in [Runs -> [Folds -> SUBSET Symbols]]
  <2>1. PICK seen \in SUBSET job[r].kept : models' = [models EXCEPT ![r][job[r].fold] = seen]
    BY <1>3 DEF Train
  <2>2. models[r] \in [Folds -> SUBSET Symbols] /\ seen \in SUBSET Symbols
    BY <1>0, FieldTypes DEF Job
  <2>3. [models[r] EXCEPT ![job[r].fold] = seen] \in [Folds -> SUBSET Symbols]
    BY <2>2
  <2>4. models' = [models EXCEPT ![r] = [models[r] EXCEPT ![job[r].fold] = seen]]
    BY <2>1
  <2>5. QED BY <2>3, <2>4 DEF TypeOK
<1>4. ASSUME NEW r \in Runs, FinishRun(r) PROVE row' \in [Runs -> Row]
  <2>1. Finished(r) \in Row
    BY <1>0 DEF Finished, Trained, Row, Job, Verdicts
  <2>2. QED BY <1>4, <2>1 DEF FinishRun, TypeOK
<1>5. ASSUME NEW r \in Runs, ThreadStep(r) PROVE TypeOK'
  <2>1. job' \in [Runs -> Job]
    BY <1>2, <1>5
  <2>2. CASE Train(r)
    BY <1>3, <2>1, <2>2 DEF Train, TypeOK, history
  <2>3. CASE FinishRun(r)
    BY <1>4, <2>1, <2>3 DEF FinishRun, TypeOK, Disk, history
  <2>4. CASE Report(r)
    <3>1. job[r].kept \in SUBSET Symbols
      BY <1>0 DEF Job
    <3>2. QED BY <2>1, <2>4, <3>1 DEF Report, TypeOK, history
  <2>5. CASE FinishRaises(r)
    BY <2>1, <2>5 DEF FinishRaises, TypeOK, Disk, history
  <2>6. CASE Load(r) \/ Check(r) \/ Recheck(r) \/ Test(r) \/ Raises(r) \/ Close(r)
    BY <2>1, <2>6 DEF Load, Check, Recheck, Test, Raises, Close, TypeOK, Disk, history
  <2>7. QED BY <1>5, <2>2, <2>3, <2>4, <2>5, <2>6 DEF ThreadStep
<1>6. ASSUME NEW r \in Runs, Cancel(r) PROVE TypeOK'
  BY <1>2, <1>6 DEF Cancel, TypeOK, Disk, history
<1>7. ASSUME NEW r \in Runs, DeleteRow(r) PROVE TypeOK'
  BY <1>7, NoneTypes DEF DeleteRow, TypeOK, Disk, history
<1>8. CASE RemoveFiles
  BY <1>8, NoneTypes DEF RemoveFiles, TypeOK, history
<1>r. CASE RemoveRaises
  <2>1. deleting \in Runs
    BY <1>r DEF RemoveRaises, TypeOK
  <2>2. PICK stuck \in SUBSET Folds :
          models' = [models EXCEPT ![deleting] =
                       [k \in Folds |-> IF k \in stuck THEN @[k] ELSE {}]]
    BY <1>r DEF RemoveRaises
  <2>3. models[deleting] \in [Folds -> SUBSET Symbols]
    BY <2>1, FieldTypes
  <2>4. models' \in [Runs -> [Folds -> SUBSET Symbols]]
    BY <2>2, <2>3 DEF TypeOK
  <2>5. metadata' \in [Runs -> SUBSET Symbols]
    BY <1>r, <2>1, FieldTypes DEF RemoveRaises, TypeOK
  <2>6. QED BY <1>r, <2>1, <2>4, <2>5 DEF RemoveRaises, TypeOK
<1>9. CASE Crash
  <2>1. row' \in [Runs -> Row]
    <3>1. \A r \in Runs : [row[r] EXCEPT !.status = "failed"] \in Row
      BY <1>0 DEF Row, Verdicts
    <3>2. QED BY <1>0, <1>9, <3>1 DEF Crash, FailOrphans
  <2>2. job' \in [Runs -> Job]
    <3>1. [NoJob EXCEPT !.at = "over"] \in Job
      BY NoneTypes DEF Job
    <3>2. QED BY <1>9, <3>1, NoneTypes DEF Crash
  <2>3. QED BY <1>9, <2>1, <2>2 DEF Crash, TypeOK, Disk
<1>10. CASE UNCHANGED vars
  BY <1>10 DEF vars, TypeOK
<1>11. QED BY <1>1, <1>5, <1>6, <1>7, <1>8, <1>r, <1>9, <1>10 DEF Next

\* A thread moves one job; what it becomes is all that changes of the jobs.
LEMMA OneJob ==
  ASSUME TypeOK, NEW r \in Runs, NEW j, Go(r, j)
  PROVE  job'[r] = j /\ \A q \in Runs \ {r} : job'[q] = job[q]
BY DEF Go, TypeOK

LEMMA FoldNext ==
  ASSUME TypeOK, FoldInRange, [Next]_vars
  PROVE  FoldInRange'
<1>0. \A r \in Runs : job[r] \in Job
  BY FieldTypes
<1>1. ASSUME NEW r \in Runs, NEW j, Go(r, j),
             j.at \in {"train", "recheck", "test"} => j.fold <= NFolds
      PROVE  FoldInRange'
  BY <1>1, OneJob DEF FoldInRange
<1>2. ASSUME NEW r \in Runs, NEW label, Jump(r, label),
             label \in {"train", "recheck", "test"} => job[r].fold <= NFolds
      PROVE  FoldInRange'
  <2>1. /\ [job[r] EXCEPT !.at = label].at = label
        /\ [job[r] EXCEPT !.at = label].fold = job[r].fold
    BY <1>0 DEF Job
  <2>2. QED BY <1>1, <1>2, <2>1 DEF Jump
<1>3. ASSUME NEW r \in Runs, NEW o, Go(r, [job[r] EXCEPT !.at = "finish", !.outcome = o])
      PROVE  FoldInRange'
  <2>1. [job[r] EXCEPT !.at = "finish", !.outcome = o].at = "finish"
    BY <1>0 DEF Job
  <2>2. QED BY <1>1, <1>3, <2>1
<1>4. ASSUME NEW r \in Runs, ThreadStep(r) PROVE FoldInRange'
  <2>1. CASE Load(r)
    <3>1. \A kept : [job[r] EXCEPT !.at = "check", !.kept = kept].at = "check"
      BY <1>0 DEF Job
    <3>2. QED BY <1>1, <2>1, <3>1 DEF Load
  <2>2. CASE Check(r) \/ Recheck(r)
    <3>1. CASE Stop(r)
      BY <1>3, <3>1 DEF Stop
    <3>2. CASE Check(r) /\ ~Stop(r)
      BY <1>2, <3>2 DEF Check
    <3>3. CASE Recheck(r) /\ ~Stop(r)
      BY <1>2, <3>3 DEF Recheck, At, FoldInRange
    <3>4. QED BY <2>2, <3>1, <3>2, <3>3
  <2>3. CASE Train(r)
    BY <1>2, <2>3 DEF Train, At, FoldInRange
  <2>4. CASE Test(r)
    <3>1. [job[r] EXCEPT !.at = "check", !.fold = @ + 1].at = "check"
      BY <1>0 DEF Job
    <3>2. QED BY <1>1, <2>4, <3>1 DEF Test
  <2>5. CASE Report(r) \/ Raises(r)
    BY <1>3, <2>5 DEF Report, Raises
  <2>6. CASE FinishRun(r)
    BY <1>2, <2>6 DEF FinishRun
  <2>7. CASE FinishRaises(r)
    <3>1. [job[r] EXCEPT !.at = "close", !.outcome = "failed"].at = "close"
      BY <1>0 DEF Job
    <3>2. QED BY <1>1, <2>7, <3>1 DEF FinishRaises
  <2>8. CASE Close(r)
    <3>1. [NoJob EXCEPT !.at = "over", !.status = Status(r), !.cancel = job[r].cancel].at = "over"
      BY DEF NoJob
    <3>2. QED BY <1>1, <2>8, <3>1 DEF Close
  <2>9. QED BY <1>4, <2>1, <2>2, <2>3, <2>4, <2>5, <2>6, <2>7, <2>8 DEF ThreadStep
<1>5. ASSUME NEW r \in Runs, Cancel(r) PROVE FoldInRange'
  <2>1. /\ [job[r] EXCEPT !.cancel = TRUE].at = job[r].at
        /\ [job[r] EXCEPT !.cancel = TRUE].fold = job[r].fold
    BY <1>0 DEF Job
  <2>2. QED BY <1>1, <1>5, <2>1 DEF Cancel, FoldInRange
<1>6. ASSUME NEW asked, Start(asked) PROVE FoldInRange'
  <2>1. [NoJob EXCEPT !.at = "load", !.status = "running", !.asked = asked].at = "load"
    BY DEF NoJob
  <2>2. QED BY <1>1, <1>6, <2>1 DEF Start
<1>7. CASE Crash
  BY <1>7 DEF Crash, FoldInRange, NoJob
<1>8. ASSUME job' = job PROVE FoldInRange'
  BY <1>8 DEF FoldInRange
<1>9. CASE RemoveFiles \/ RemoveRaises \/ UNCHANGED vars \/ \E r \in Runs : DeleteRow(r)
  BY <1>8, <1>9 DEF RemoveFiles, RemoveRaises, DeleteRow, vars
<1>10. QED BY <1>4, <1>5, <1>6, <1>7, <1>9 DEF Next

\* Every variable keeps its type, whatever fails or dies.
THEOREM TypeCorrect == Spec => [](TypeOK /\ FoldInRange)
<1>1. Init => TypeOK /\ FoldInRange
  BY NoneTypes DEF Init, TypeOK, FoldInRange, NoJob
<1>2. QED BY <1>1, TypeNext, FoldNext, PTL DEF Spec

-----------------------------------------------------------------------------
(* A run at a time *)

\* The runs a step does not touch stay as they are.
LEMMA OtherRuns ==
  ASSUME NEW q, RunInv(q),
         row'[q] = row[q], job'[q] = job[q], models'[q] = models[q],
         metadata'[q] = metadata[q],
         deleting' = q <=> deleting = q,
         q \in broken' <=> q \in broken, q \in cut' <=> q \in cut
  PROVE  RunInv(q)'
BY DEF RunInv, RowAndJob, Earned, Owned, Seen, At, Completed, Working

\* Where a run is, and what it holds there, says what it may become.
LEMMA Labels ==
  /\ NoRow.status = "none" /\ NoJob.at = "none" /\ NoJob.status = "none"
  /\ Folded \subseteq Open /\ Open \subseteq Thread
  /\ "load" \in Open \ Folded /\ "finish" \in Open \ Folded
  /\ "close" \in Thread \ Open
  /\ {"none", "over"} \cap Thread = {}
  /\ {"none", "running"} \cap Verdicts = {}
  /\ \A k \in Folds : NoModels[k] = {}
BY DEF NoRow, NoJob, Folded, Open, Thread, Verdicts, NoModels

\* A thread at work that goes on at work, its row still open.
LEMMA GoesOn ==
  ASSUME NEW r \in Runs, RunInv(r), job[r].at \in Open, job'[r].at \in Open \ {"load"},
         UNCHANGED <<row, deleting, history>>,
         job'[r].status = job[r].status, job'[r].asked = job[r].asked,
         Completed(r)' => metadata'[r] = job'[r].kept,
         At(r, "finish")' /\ job'[r].outcome = "cancelled" => job'[r].cancel,
         job[r].cancel => job'[r].cancel,
         job'[r].at \in Folded \/ Completed(r)' =>
           /\ job'[r].kept \in Requests /\ job'[r].kept \subseteq job[r].asked
           /\ \A k \in Folds : models'[r][k] \subseteq job'[r].kept
  PROVE  RunInv(r)'
<1> USE Labels
<1>1. /\ row[r].status = "running" /\ job[r].status = "running"
      /\ row'[r] = row[r] /\ row[r] # NoRow
  BY DEF RunInv, RowAndJob, Working
<1>2. RowAndJob(r)'
  BY <1>1 DEF RunInv, RowAndJob, Working, history
<1>3. Earned(r)'
  BY <1>1, RequestTypes DEF RunInv, Earned, Completed, At, history
<1>4. Owned(r)'
  BY <1>1 DEF Owned
<1>5. Seen(r)'
  BY <1>1 DEF RunInv, Seen, Completed, At
<1>6. QED BY <1>2, <1>3, <1>4, <1>5 DEF RunInv

\* What a change of label, alone or with a verdict, leaves of a job.
LEMMA JobFields ==
  ASSUME NEW j \in Job, NEW label, NEW v
  PROVE  /\ LET l == [j EXCEPT !.at = label]
            IN  /\ l.at = label /\ l.status = j.status /\ l.cancel = j.cancel
                /\ l.outcome = j.outcome /\ l.asked = j.asked /\ l.kept = j.kept
         /\ LET l == [j EXCEPT !.at = label, !.outcome = v]
            IN  /\ l.at = label /\ l.status = j.status /\ l.cancel = j.cancel
                /\ l.outcome = v /\ l.asked = j.asked /\ l.kept = j.kept
BY DEF Job

LEMMA TrainingKeeps ==
  ASSUME TypeOK, NEW r \in Runs, RunInv(r),
         \/ Load(r) \/ Check(r) \/ Train(r) \/ Recheck(r) \/ Test(r) \/ Report(r)
         \/ Raises(r)
  PROVE  RunInv(r)'
<1>0. job[r] \in Job
  BY FieldTypes
<1>o. /\ "check" \in Folded /\ "train" \in Folded /\ "recheck" \in Folded
      /\ "test" \in Folded /\ "report" \in Folded
      /\ Open = {"load", "finish"} \cup Folded
      /\ "load" \notin Folded /\ "finish" \notin Folded
  BY DEF Folded, Open, Thread
<1>k. job[r].at \in Folded =>
        /\ job[r].kept \in Requests /\ job[r].kept \subseteq job[r].asked
        /\ \A k \in Folds : models[r][k] \subseteq job[r].kept
  BY DEF RunInv, Seen
<1>a. ASSUME NEW label, job'[r] = [job[r] EXCEPT !.at = label]
      PROVE  /\ job'[r].at = label /\ job'[r].status = job[r].status
             /\ job'[r].cancel = job[r].cancel /\ job'[r].outcome = job[r].outcome
             /\ job'[r].asked = job[r].asked /\ job'[r].kept = job[r].kept
  BY <1>0, <1>a, JobFields
<1>b. ASSUME NEW label, NEW v, job'[r] = [job[r] EXCEPT !.at = label, !.outcome = v]
      PROVE  /\ job'[r].at = label /\ job'[r].status = job[r].status
             /\ job'[r].cancel = job[r].cancel /\ job'[r].outcome = v
             /\ job'[r].asked = job[r].asked /\ job'[r].kept = job[r].kept
  BY <1>0, <1>b, JobFields
<1>1. ASSUME NEW label \in Folded, Jump(r, label), job[r].at \in Folded,
             UNCHANGED <<row, models, deleting, history, metadata>>
      PROVE  RunInv(r)'
  <2>1. job'[r] = [job[r] EXCEPT !.at = label]
    BY <1>1, OneJob DEF Jump
  <2>2. /\ job'[r].at = label /\ job'[r].status = job[r].status
        /\ job'[r].cancel = job[r].cancel /\ job'[r].asked = job[r].asked
        /\ job'[r].kept = job[r].kept
    BY <1>a, <2>1
  <2>3. ~Completed(r)' /\ ~At(r, "finish")'
    BY <1>1, <1>o, <2>2 DEF Completed, At
  <2>4. QED BY <1>1, <1>k, <1>o, <2>2, <2>3, GoesOn
<1>2. ASSUME Stop(r), job[r].cancel, job[r].at \in Open,
             UNCHANGED <<row, models, deleting, history, metadata>>
      PROVE  RunInv(r)'
  <2>1. job'[r] = [job[r] EXCEPT !.at = "finish", !.outcome = "cancelled"]
    BY <1>2, OneJob DEF Stop
  <2>2. /\ job'[r].at = "finish" /\ job'[r].outcome = "cancelled"
        /\ job'[r].status = job[r].status /\ job'[r].cancel = job[r].cancel
        /\ job'[r].asked = job[r].asked /\ job'[r].kept = job[r].kept
    BY <1>b, <2>1
  <2>3. ~Completed(r)'
    BY <2>2 DEF Completed
  <2>4. QED BY <1>2, <1>o, <2>2, <2>3, GoesOn
<1>3. CASE Load(r)
  <2>1. PICK kept \in Requests :
          kept \subseteq job[r].asked /\ Go(r, [job[r] EXCEPT !.at = "check", !.kept = kept])
    BY <1>3 DEF Load
  <2>2. job'[r] = [job[r] EXCEPT !.at = "check", !.kept = kept]
    BY <2>1, OneJob
  <2>3. /\ job'[r].at = "check" /\ job'[r].status = job[r].status
        /\ job'[r].asked = job[r].asked /\ job'[r].kept = kept
        /\ job'[r].cancel = job[r].cancel
    BY <1>0, <2>2 DEF Job
  <2>4. \A k \in Folds : models[r][k] = {}
    BY <1>3, Labels DEF Load, RunInv, Seen
  <2>5. job[r].at \in Open /\ UNCHANGED <<row, models, metadata, deleting, history>>
    BY <1>3, <1>o DEF Load, At, Disk
  <2>6. ~Completed(r)' /\ ~At(r, "finish")'
    BY <2>3 DEF Completed, At
  <2>7. QED BY <1>o, <2>1, <2>3, <2>4, <2>5, <2>6, GoesOn
<1>4. CASE Check(r) \/ Recheck(r)
  <2>1. job[r].at \in Folded /\ UNCHANGED <<row, models, deleting, history, metadata>>
    BY <1>4, <1>o DEF Check, Recheck, At, Disk
  <2>2. (Stop(r) /\ job[r].cancel) \/ \E label \in Folded : Jump(r, label)
    BY <1>4, <1>o DEF Check, Recheck
  <2>3. QED BY <1>1, <1>2, <1>o, <2>1, <2>2
<1>5. CASE Train(r)
  <2>1. PICK seen \in SUBSET job[r].kept : models' = [models EXCEPT ![r][job[r].fold] = seen]
    BY <1>5 DEF Train
  <2>2. job'[r] = [job[r] EXCEPT !.at = "recheck"]
    BY <1>5, OneJob DEF Train, Jump
  <2>3. job[r].at \in Folded /\ UNCHANGED <<row, deleting, history, metadata>>
    BY <1>5, <1>o DEF Train, At
  <2>4. \A k \in Folds : models'[r][k] \subseteq job[r].kept
    <3>1. models \in [Runs -> [Folds -> SUBSET Symbols]]
      BY DEF TypeOK
    <3>2. \A k \in Folds : models'[r][k] = IF k = job[r].fold THEN seen ELSE models[r][k]
      BY <2>1, <3>1
    <3>3. QED BY <1>k, <2>3, <3>2
  <2>5. ~Completed(r)' /\ ~At(r, "finish")'
    BY <1>a, <2>2 DEF Completed, At
  <2>6. /\ job'[r].at = "recheck" /\ job'[r].status = job[r].status
        /\ job'[r].cancel = job[r].cancel /\ job'[r].asked = job[r].asked
        /\ job'[r].kept = job[r].kept
    BY <1>a, <2>2
  <2>7. QED BY <1>k, <1>o, <2>3, <2>4, <2>5, <2>6, GoesOn
<1>6. CASE Test(r)
  <2>1. job'[r] = [job[r] EXCEPT !.at = "check", !.fold = @ + 1]
    BY <1>6, OneJob DEF Test
  <2>2. /\ job'[r].at = "check" /\ job'[r].status = job[r].status
        /\ job'[r].asked = job[r].asked /\ job'[r].kept = job[r].kept
        /\ job'[r].cancel = job[r].cancel
    BY <1>0, <2>1 DEF Job
  <2>3. job[r].at \in Folded /\ UNCHANGED <<row, models, deleting, history, metadata>>
    BY <1>6, <1>o DEF Test, At, Disk
  <2>4. ~Completed(r)' /\ ~At(r, "finish")'
    BY <2>2 DEF Completed, At
  <2>5. QED BY <1>k, <1>o, <2>2, <2>3, <2>4, GoesOn
<1>7. CASE Report(r)
  <2>1. job'[r] = [job[r] EXCEPT !.at = "finish", !.outcome = "completed"]
    BY <1>7, OneJob DEF Report
  <2>2. job[r].at \in Folded /\ UNCHANGED <<row, models, deleting, history>>
        /\ metadata'[r] = job[r].kept
    BY <1>7, <1>o DEF Report, At, TypeOK
  <2>3. /\ job'[r].at = "finish" /\ job'[r].outcome = "completed"
        /\ job'[r].status = job[r].status /\ job'[r].cancel = job[r].cancel
        /\ job'[r].asked = job[r].asked /\ job'[r].kept = job[r].kept
    BY <1>b, <2>1
  <2>4. QED BY <1>k, <1>o, <2>2, <2>3, GoesOn
<1>8. CASE Raises(r)
  <2>1. job'[r] = [job[r] EXCEPT !.at = "finish", !.outcome = "failed"]
    BY <1>8, OneJob DEF Raises
  <2>2. job[r].at \in Open /\ UNCHANGED <<row, models, deleting, history, metadata>>
    BY <1>8, <1>o DEF Raises, At, Disk
  <2>3. /\ job'[r].at = "finish" /\ job'[r].outcome = "failed"
        /\ job'[r].status = job[r].status /\ job'[r].cancel = job[r].cancel
        /\ job'[r].asked = job[r].asked /\ job'[r].kept = job[r].kept
    BY <1>b, <2>1
  <2>4. ~Completed(r)'
    BY <2>3 DEF Completed
  <2>5. QED BY <1>o, <2>2, <2>3, <2>4, GoesOn
<1>9. QED BY <1>3, <1>4, <1>5, <1>6, <1>7, <1>8

\* The end of a run: its row, then its job.
LEMMA EndKeeps ==
  ASSUME TypeOK, NEW r \in Runs, RunInv(r),
         FinishRun(r) \/ FinishRaises(r) \/ Close(r)
  PROVE  RunInv(r)'
<1> USE Labels
<1>0. job[r] \in Job /\ row[r] \in Row /\ job[r].outcome \in Verdicts
  BY FieldTypes DEF Job
<1>c. "close" \notin Open /\ "close" \notin Folded /\ "finish" \in Open /\ "over" \notin Open
  BY DEF Open, Thread, Folded
<1>1. CASE FinishRun(r)
  <2>1. /\ job'[r] = [job[r] EXCEPT !.at = "close"] /\ At(r, "finish")
        /\ UNCHANGED <<models, metadata, deleting, history>>
    BY <1>1, OneJob DEF FinishRun, Jump, Disk
  <2>2. row[r].status = "running" /\ job[r].status = "running" /\ deleting # r
    BY <1>c, <2>1 DEF RunInv, RowAndJob, Working, At
  <2>3. row'[r] = Finished(r)
    BY <1>1, <2>2 DEF FinishRun, TypeOK
  <2>4. /\ row'[r].status = job[r].outcome /\ row'[r].symbol = row[r].symbol
        /\ row'[r].trained = Trained(r)
    BY <1>0, <2>3 DEF Finished, Row
  <2>5. row'[r] # NoRow /\ row'[r].status \in Verdicts
    BY <1>0, <2>4
  <2>6. /\ job'[r].at = "close" /\ job'[r].status = "running" /\ job'[r].cancel = job[r].cancel
        /\ job'[r].outcome = job[r].outcome
    BY <1>0, <2>1, <2>2, JobFields
  <2>7. RowAndJob(r)'
    BY <1>c, <2>1, <2>2, <2>5, <2>6 DEF RunInv, RowAndJob, Working
  <2>8. Earned(r)'
    BY <2>1, <2>4, <2>6 DEF RunInv, Earned, Completed, At
  <2>9. Owned(r)'
    BY <2>5 DEF Owned
  <2>10. Seen(r)'
    <3>1. ASSUME job[r].outcome = "completed"
          PROVE  /\ row[r].symbol \in Symbols => job[r].kept = {row[r].symbol}
                 /\ metadata[r] = job[r].kept
                 /\ \A k \in Folds : models[r][k] \subseteq job[r].kept
      <4>1. /\ job[r].kept \in Requests /\ job[r].kept \subseteq job[r].asked
            /\ metadata[r] = job[r].kept
            /\ \A k \in Folds : models[r][k] \subseteq job[r].kept
            /\ IF Pooled THEN row[r].symbol = All ELSE job[r].asked = {row[r].symbol}
        BY <1>c, <2>1, <3>1 DEF RunInv, Seen, Completed, At
      <4>2. CASE Pooled
        BY <4>1, <4>2, TrainingAssumption
      <4>3. CASE ~Pooled
        <5>1. PICK s : job[r].kept = {s}
          BY <4>1, <4>3, RequestTypes
        <5>2. s = row[r].symbol
          BY <4>1, <4>3, <5>1
        <5>3. QED BY <4>1, <5>1, <5>2
      <4>4. QED BY <4>1, <4>2, <4>3
    <3>2. job[r].outcome = "completed" => Trained(r) = job[r].kept
      BY DEF Trained
    <3>3. QED BY <1>c, <2>1, <2>4, <2>6, <3>1, <3>2 DEF Seen, Completed, At
  <2>11. QED BY <2>7, <2>8, <2>9, <2>10 DEF RunInv
<1>2. CASE FinishRaises(r)
  <2>1. /\ job'[r] = [job[r] EXCEPT !.at = "close", !.outcome = "failed"] /\ At(r, "finish")
        /\ UNCHANGED <<row, models, metadata, deleting, cut>> /\ r \in broken'
    BY <1>2, OneJob DEF FinishRaises, Disk
  <2>2. row[r].status = "running" /\ job[r].status = "running"
    BY <1>c, <2>1 DEF RunInv, RowAndJob, Working, At
  <2>3. job'[r].at = "close" /\ job'[r].status = "running"
    BY <1>0, <2>1, <2>2, JobFields
  <2>4. QED
    BY <1>c, <2>1, <2>2, <2>3 DEF RunInv, RowAndJob, Earned, Owned, Seen, Completed, At,
                                  Working
<1>3. CASE Close(r)
  <2>1. /\ job'[r] = [NoJob EXCEPT !.at = "over", !.status = job[r].outcome,
                                !.cancel = job[r].cancel]
        /\ At(r, "close")
        /\ UNCHANGED <<row, models, metadata, deleting, history>>
    BY <1>3, OneJob DEF Close, Disk, Status
  <2>2. /\ job'[r].at = "over" /\ job'[r].status = job[r].outcome
        /\ job'[r].cancel = job[r].cancel
    BY <2>1 DEF NoJob
  <2>3. job[r].status = "running"
    BY <2>1 DEF RunInv, RowAndJob, Working, At
  <2>4. RowAndJob(r)'
    BY <1>0, <1>c, <2>1, <2>2 DEF RunInv, RowAndJob, Working, At, history
  <2>5. Earned(r)'
    BY <2>1, <2>2, <2>3 DEF RunInv, Earned, Completed, At, history
  <2>6. QED
    BY <1>c, <2>1, <2>2, <2>4, <2>5 DEF RunInv, Owned, Seen, Completed, At, history
<1>4. QED BY <1>1, <1>2, <1>3

-----------------------------------------------------------------------------
(* The steps *)

LEMMA ThreadKeeps ==
  ASSUME TypeOK, RunsInv, NEW r \in Runs, ThreadStep(r)
  PROVE  RunsInv'
<1>1. RunInv(r)'
  BY TrainingKeeps, EndKeeps DEF RunsInv, ThreadStep
<1>2. ASSUME NEW q \in Runs, q # r PROVE RunInv(q)'
  <2>1. \E j : Go(r, j)
    BY DEF ThreadStep, Load, Check, Train, Recheck, Test, Report, Raises, FinishRun,
           FinishRaises, Close, Jump, Stop
  <2>2. job'[q] = job[q]
    BY <1>2, <2>1, OneJob
  <2>3. row'[q] = row[q]
    <3>1. row' = row \/ row' = [row EXCEPT ![r] = Finished(r)]
      BY DEF ThreadStep, Load, Check, Train, Recheck, Test, Report, Raises, FinishRun,
             FinishRaises, Close
    <3>2. QED BY <1>2, <3>1 DEF TypeOK
  <2>4. models'[q] = models[q]
    <3>1. models' = models \/ \E seen : models' = [models EXCEPT ![r][job[r].fold] = seen]
      BY DEF ThreadStep, Load, Check, Train, Recheck, Test, Report, Raises, FinishRun,
             FinishRaises, Close, Disk
    <3>2. QED BY <1>2, <3>1 DEF TypeOK
  <2>5. /\ metadata' = metadata \/ metadata' = [metadata EXCEPT ![r] = job[r].kept]
        /\ broken' = broken \/ broken' = broken \cup {r}
        /\ cut' = cut
        /\ deleting' = deleting
    BY DEF ThreadStep, Load, Check, Train, Recheck, Test, Report, Raises, FinishRun,
           FinishRaises, Close, Disk, history
  <2>6. RunInv(q)
    BY DEF RunsInv
  <2>7. /\ metadata'[q] = metadata[q]
        /\ deleting' = q <=> deleting = q
        /\ q \in broken' <=> q \in broken
        /\ q \in cut' <=> q \in cut
    BY <1>2, <2>5 DEF TypeOK
  <2>8. QED BY <2>2, <2>3, <2>4, <2>6, <2>7, OtherRuns
<1>3. QED BY <1>1, <1>2 DEF RunsInv

\* A request and the end of the server.
LEMMA StartKeeps ==
  ASSUME TypeOK, RunsInv, NEW asked \in Requests, Start(asked)
  PROVE  RunsInv'
<1> USE Labels
<1>1. PICK r \in Runs :
        /\ job[r] = NoJob
        /\ row' = [row EXCEPT ![r] =
             [status |-> "running", trained |-> {},
              symbol |-> IF Pooled THEN All ELSE CHOOSE s \in asked : TRUE]]
        /\ Go(r, [NoJob EXCEPT !.at = "load", !.status = "running", !.asked = asked])
  BY DEF Start
<1>2. UNCHANGED <<models, metadata, deleting, broken, cut>> /\ deleting = 0
  BY DEF Start, Disk, LoopFree, history
<1>3. ASSUME NEW q \in Runs, q # r PROVE RunInv(q)'
  <2>1. RunInv(q) /\ row'[q] = row[q] /\ job'[q] = job[q]
    BY <1>1, <1>3, OneJob DEF RunsInv, TypeOK
  <2>2. QED BY <1>2, <2>1, OtherRuns
<1>4. RunInv(r)'
  <2>1. job'[r] = [NoJob EXCEPT !.at = "load", !.status = "running", !.asked = asked]
    BY <1>1, OneJob
  <2>2. job'[r].at = "load" /\ job'[r].status = "running" /\ job'[r].asked = asked
    BY <2>1 DEF NoJob
  <2>3. /\ row'[r].status = "running"
        /\ row'[r].symbol = IF Pooled THEN All ELSE CHOOSE s \in asked : TRUE
    BY <1>1 DEF TypeOK
  <2>4. models[r] = NoModels
    BY <1>1 DEF RunsInv, RunInv, RowAndJob
  <2>5. ~Pooled => asked = {row'[r].symbol}
    BY <2>3, RequestTypes
  <2>6. RowAndJob(r)'
    <3>1. r # 0
      BY DEF Runs
    <3>2. job'[r] # NoJob
      BY <2>2
    <3>3. QED BY <1>2, <2>2, <2>3, <3>1, <3>2 DEF RowAndJob, Working
  <2>7. Earned(r)' /\ Owned(r)'
    BY <2>2, <2>3 DEF Earned, Owned, Completed, At
  <2>8. Seen(r)'
    BY <1>2, <2>2, <2>3, <2>4, <2>5 DEF Seen, Completed, At
  <2>9. QED BY <2>6, <2>7, <2>8 DEF RunInv
<1>5. QED BY <1>3, <1>4 DEF RunsInv

LEMMA CancelKeeps ==
  ASSUME TypeOK, RunsInv, NEW r \in Runs, Cancel(r)
  PROVE  RunsInv'
<1> USE Labels
<1>0. job[r] \in Job
  BY FieldTypes
<1>1. job'[r] = [job[r] EXCEPT !.cancel = TRUE] /\ \A q \in Runs \ {r} : job'[q] = job[q]
  BY OneJob DEF Cancel
<1>2. UNCHANGED <<row, models, metadata, deleting, broken, cut>>
  BY DEF Cancel, Disk, history
<1>3. /\ job'[r].at = job[r].at /\ job'[r].status = job[r].status
      /\ job'[r].outcome = job[r].outcome /\ job'[r].asked = job[r].asked
      /\ job'[r].kept = job[r].kept /\ job'[r].cancel
  BY <1>0, <1>1 DEF Job
<1>4. job'[r] # NoJob
  BY <1>3 DEF Cancel
<1>5. RunInv(r)'
  BY <1>2, <1>3, <1>4 DEF RunsInv, RunInv, RowAndJob, Earned, Owned, Seen, Completed, At,
                          Working
<1>6. ASSUME NEW q \in Runs, q # r PROVE RunInv(q)'
  BY <1>1, <1>2, <1>6, OtherRuns DEF RunsInv
<1>7. QED BY <1>5, <1>6 DEF RunsInv

LEMMA DeleteKeeps ==
  ASSUME TypeOK, RunsInv, (\E r \in Runs : DeleteRow(r)) \/ RemoveFiles \/ RemoveRaises
  PROVE  RunsInv'
<1> USE Labels
<1>1. ASSUME NEW r \in Runs, DeleteRow(r) PROVE RunsInv'
  <2>1. /\ deleting = 0 /\ deleting' = r /\ row' = [row EXCEPT ![r] = NoRow]
        /\ row[r].status \notin {"none", "running"}
        /\ UNCHANGED <<job, models, metadata, broken, cut>>
    BY <1>1 DEF DeleteRow, LoopFree, Deletable, Disk, history
  <2>2. r # 0
    BY DEF Runs
  <2>3. RunInv(r)'
    <3>1. row'[r] = NoRow
      BY <2>1 DEF TypeOK
    <3>2. job[r] # NoJob /\ job[r].at \notin Open
      BY <2>1 DEF RunsInv, RunInv, RowAndJob
    <3>3. job[r].at # "finish"
      BY <3>2
    <3>4. QED
      BY <2>1, <3>1, <3>2, <3>3 DEF RunsInv, RunInv, RowAndJob, Earned, Owned, Seen,
                                    Completed, At, Working
  <2>4. ASSUME NEW q \in Runs, q # r PROVE RunInv(q)'
    <3>1. RunInv(q) /\ row'[q] = row[q] /\ q # 0
      BY <2>1, <2>4 DEF RunsInv, TypeOK, Runs
    <3>2. QED BY <2>1, <2>4, <3>1, OtherRuns
  <2>5. QED BY <2>3, <2>4 DEF RunsInv
<1>2. CASE RemoveFiles \/ RemoveRaises
  <2>1. /\ deleting # 0 /\ deleting' = 0 /\ UNCHANGED <<row, job, broken>>
        /\ \E rest : models' = [models EXCEPT ![deleting] = rest]
        /\ \E left : metadata' = [metadata EXCEPT ![deleting] = left]
        /\ cut' = cut \/ cut' = cut \cup {deleting}
    BY <1>2 DEF RemoveFiles, RemoveRaises, history
  <2>2. PICK r \in Runs : r = deleting
    BY <2>1 DEF TypeOK
  <2>3. RunInv(r)'
    <3>1. row[r] = NoRow /\ RunInv(r)
      BY <2>2 DEF RunsInv, RunInv, RowAndJob
    <3>3. job[r].at \notin Open
      BY <3>1 DEF RunInv, RowAndJob
    <3>4. CASE RemoveFiles
      <4>1. models'[r] = NoModels /\ metadata'[r] = {}
        BY <2>2, <3>4 DEF RemoveFiles, TypeOK
      <4>2. QED
        BY <2>1, <3>1, <3>3, <4>1 DEF RunInv, RowAndJob, Earned, Owned, Seen,
                                      Completed, At, Working
    <3>5. CASE RemoveRaises
      <4>1. r \in cut'
        BY <2>2, <3>5 DEF RemoveRaises
      <4>2. job[r] = NoJob => models'[r] = NoModels /\ metadata'[r] = {}
        <5>1. /\ \E stuck \in SUBSET Folds :
                   models'[r] = [k \in Folds |-> IF k \in stuck THEN models[r][k] ELSE {}]
              /\ \E left \in {{}, metadata[r]} : metadata'[r] = left
          <6>1. PICK stuck \in SUBSET Folds :
                  models' = [models EXCEPT ![deleting] =
                               [k \in Folds |-> IF k \in stuck THEN @[k] ELSE {}]]
            BY <3>5 DEF RemoveRaises
          <6>2. models'[r] = [k \in Folds |-> IF k \in stuck THEN models[r][k] ELSE {}]
            BY <2>2, <6>1 DEF TypeOK
          <6>3. \E left \in {{}, metadata[r]} : metadata'[r] = left
            BY <2>2, <3>5 DEF RemoveRaises, TypeOK
          <6>4. QED BY <6>2, <6>3
        <5>2. models[r] = NoModels => models'[r] = NoModels
          BY <5>1 DEF NoModels
        <5>3. QED BY <3>1, <5>1, <5>2 DEF RunInv, RowAndJob
      <4>3. QED
        BY <2>1, <3>1, <3>3, <4>1, <4>2 DEF RunInv, RowAndJob, Earned, Owned, Seen,
                                            Completed, At, Working
    <3>6. QED BY <1>2, <3>4, <3>5
  <2>4. ASSUME NEW q \in Runs, q # r PROVE RunInv(q)'
    <3>1. RunInv(q) /\ models'[q] = models[q] /\ metadata'[q] = metadata[q] /\ q # 0
      BY <2>1, <2>2, <2>4 DEF RunsInv, TypeOK, Runs
    <3>2. QED BY <2>1, <2>2, <2>4, <3>1, OtherRuns
  <2>5. QED BY <2>3, <2>4 DEF RunsInv
<1>3. QED BY <1>1, <1>2

LEMMA CrashKeeps ==
  ASSUME TypeOK, RunsInv, Crash
  PROVE  RunsInv'
<1> USE Labels
<1>1. /\ deleting' = 0 /\ cut' = cut \cup ({deleting} \ {0})
      /\ UNCHANGED <<models, metadata, broken>>
      /\ row' = FailOrphans
      /\ job' = [r \in Runs |-> IF job[r] = NoJob THEN NoJob ELSE [NoJob EXCEPT !.at = "over"]]
  BY DEF Crash, Disk
<1>2. SUFFICES ASSUME NEW r \in Runs PROVE RunInv(r)'
  BY DEF RunsInv, Runs
<1>3. RunInv(r) /\ row[r] \in Row /\ r # 0
  BY FieldTypes DEF RunsInv, Runs
<1>4. /\ job'[r].at \in {"none", "over"} /\ job'[r].status = "none"
      /\ job[r] # NoJob => job'[r] # NoJob
  BY <1>1 DEF NoJob
<1>5. job'[r] = NoJob => job[r] = NoJob
  BY <1>4
<1>6. /\ row[r].status = "running" => row'[r].status = "failed" /\ row'[r] # NoRow
      /\ row[r].status # "running" => row'[r] = row[r]
  BY <1>1, <1>3 DEF FailOrphans, Row
<1>7. job'[r].at \notin Thread /\ job'[r].at # "finish" /\ job'[r].at # "close"
  BY <1>4 DEF Thread
<1>8. RowAndJob(r)'
  <2>1. row[r].status = "running" => row[r] # NoRow
    OBVIOUS
  <2>2. QED BY <1>1, <1>3, <1>4, <1>5, <1>6, <1>7, <2>1 DEF RunInv, RowAndJob, Working
<1>9. Earned(r)'
  BY <1>1, <1>3, <1>4, <1>6, <1>7 DEF RunInv, Earned, Completed, At
<1>10. Owned(r)'
  BY <1>1, <1>3, <1>6 DEF RunInv, Owned
<1>11. Seen(r)'
  BY <1>1, <1>3, <1>6, <1>7 DEF RunInv, Seen, Completed, At
<1>12. QED BY <1>8, <1>9, <1>10, <1>11 DEF RunInv

LEMMA RunsInductive ==
  ASSUME TypeOK, RunsInv, [Next]_vars
  PROVE  RunsInv'
<1>1. CASE UNCHANGED vars
  <2>1. UNCHANGED <<row, job, models, metadata, deleting, broken, cut>>
    BY <1>1 DEF vars
  <2>2. QED BY <2>1, OtherRuns DEF RunsInv
<1>2. QED
  BY <1>1, ThreadKeeps, StartKeeps, CancelKeeps, DeleteKeeps, CrashKeeps DEF Next

-----------------------------------------------------------------------------
(* The model of a symbol *)

\* A set of naturals up to n has a greatest element, and Max is it.
LEMMA MaxIs ==
  ASSUME NEW n \in Nat, NEW S \in SUBSET (0..n), S # {}
  PROVE  Max(S) \in S /\ \A y \in S : Max(S) >= y
<1> DEFINE Gaps == {g \in Nat : \E x \in S : g = n - x}
<1>1. Gaps \subseteq Nat /\ Gaps # {}
  <2>1. PICK x \in S : TRUE
    OBVIOUS
  <2>2. n - x \in Gaps
    OBVIOUS
  <2>3. QED BY <2>2
<1>2. PICK g \in Gaps : \A h \in Gaps : <<h, g>> \notin OpToRel(<, Nat)
  <2> HIDE DEF Gaps
  <2>1. QED BY <1>1, WFMin, NatLessThanWellFounded
<1>3. PICK x \in S : g = n - x
  BY <1>2
<1>4. \A y \in S : x >= y
  <2>1. TAKE y \in S
  <2>2. n - y \in Gaps
    OBVIOUS
  <2>3. ~(n - y < g)
    BY <1>1, <1>2, <2>2 DEF OpToRel
  <2>4. QED BY <1>3, <2>3
<1>5. QED BY <1>4 DEF Max

\* One more element is the greatest, or changes nothing; one less changes nothing
\* unless it was the greatest.
LEMMA MaxWith ==
  ASSUME NEW n \in Nat, NEW S \in SUBSET (0..n), S # {}, NEW e \in 0..n
  PROVE  /\ Max(S \cup {e}) \in {Max(S), e}
         /\ S \ {e} # {} /\ Max(S) # e => Max(S \ {e}) = Max(S)
<1>1. /\ Max(S) \in S /\ \A y \in S : Max(S) >= y
      /\ Max(S) \in 0..n
  BY MaxIs
<1>2. S \cup {e} \in SUBSET (0..n) /\ S \cup {e} # {} /\ S \ {e} \in SUBSET (0..n)
  OBVIOUS
<1>3. Max(S \cup {e}) \in S \cup {e} /\ \A y \in S \cup {e} : Max(S \cup {e}) >= y
  BY <1>2, MaxIs
<1>4. ASSUME Max(S \cup {e}) # e PROVE Max(S \cup {e}) = Max(S)
  <2>1. /\ Max(S \cup {e}) \in S /\ Max(S \cup {e}) \in 0..n
        /\ Max(S \cup {e}) >= Max(S) /\ Max(S) >= Max(S \cup {e})
    BY <1>1, <1>3, <1>4
  <2>2. QED BY <1>1, <2>1
<1>5. ASSUME S \ {e} # {}, Max(S) # e PROVE Max(S \ {e}) = Max(S)
  <2>1. Max(S \ {e}) \in S \ {e} /\ \A y \in S \ {e} : Max(S \ {e}) >= y
    BY <1>2, <1>5, MaxIs
  <2>2. /\ Max(S \ {e}) \in 0..n
        /\ Max(S \ {e}) >= Max(S) /\ Max(S) >= Max(S \ {e})
    BY <1>1, <1>5, <2>1
  <2>3. QED BY <1>1, <2>2
<1>6. QED BY <1>4, <1>5

\* The completed runs of an asset, under 0.
Finishes(symbol) ==
  {0} \cup {r \in Runs : row[r].status = "completed" /\ row[r].symbol = symbol}

LEMMA FinishesAre ==
  ASSUME NEW symbol
  PROVE  /\ Finishes(symbol) \in SUBSET (0..MaxRuns) /\ 0 \in Finishes(symbol)
         /\ LatestCompleted(symbol) = Max(Finishes(symbol))
         /\ MaxRuns \in Nat
BY TrainingAssumption DEF Finishes, LatestCompleted, Runs

\* The newest completed run of an asset is one.
LEMMA LatestIsCompleted ==
  ASSUME NEW symbol, LatestCompleted(symbol) # 0
  PROVE  /\ LatestCompleted(symbol) \in Runs
         /\ row[LatestCompleted(symbol)].status = "completed"
         /\ row[LatestCompleted(symbol)].symbol = symbol
<1>1. Max(Finishes(symbol)) \in Finishes(symbol)
  BY FinishesAre, MaxIs
<1>2. QED BY <1>1, FinishesAre DEF Finishes

\* The model a symbol gets is of a completed run, that of the symbol or a pooled one.
LEMMA ResolvedIs ==
  ASSUME NEW s \in Symbols, Resolve(s) # 0
  PROVE  /\ Resolve(s) \in Runs /\ row[Resolve(s)].status = "completed"
         /\ models[Resolve(s)] # NoModels
         /\ \/ row[Resolve(s)].symbol = s
            \/ row[Resolve(s)].symbol = All /\ s \in row[Resolve(s)].trained
<1> DEFINE r == Resolve(s)
<1>1. /\ models[r] # NoModels
      /\ \/ r = LatestCompleted(s)
         \/ r = LatestCompleted(All) /\ s \in row[r].trained
  BY DEF Resolve
<1> HIDE DEF r
<1>2. r # 0
  BY DEF r
<1>3. QED BY <1>1, <1>2, LatestIsCompleted DEF r

\* It kept the symbol, and learned from nothing it dropped.
LEMMA KeptByTheServed ==
  ASSUME TypeOK, RunsInv
  PROVE  ServedWasKept
<1> SUFFICES ASSUME NEW s \in Symbols, NEW r, r = Resolve(s), r # 0
             PROVE  s \in metadata[r] /\ Served(r) \subseteq metadata[r]
  BY DEF ServedWasKept
<1>1. /\ r \in Runs /\ row[r].status = "completed" /\ models[r] # NoModels
      /\ row[r].symbol = s \/ s \in row[r].trained
  BY ResolvedIs
<1>2. /\ row[r].symbol \in Symbols => row[r].trained = {row[r].symbol}
      /\ metadata[r] = row[r].trained
      /\ \A k \in Folds : models[r][k] \subseteq row[r].trained
  BY <1>1 DEF RunsInv, RunInv, Seen
<1> DEFINE S == {k \in Folds : models[r][k] # {}}
<1>3. S \in SUBSET (0..NFolds) /\ S # {} /\ NFolds \in Nat
  <2>1. S # {}
    <3>1. models[r] \in [Folds -> SUBSET Symbols]
      BY <1>1, FieldTypes
    <3>2. QED BY <1>1, <3>1 DEF NoModels
  <2>2. QED BY <2>1, TrainingAssumption DEF Folds
<1>4. Max(S) \in Folds
  <2> HIDE DEF S
  <2>1. Max(S) \in S
    BY <1>3, MaxIs
  <2>2. QED BY <2>1 DEF S
<1>5. QED BY <1>1, <1>2, <1>4 DEF Served

\* A completed run keeps its row and its models as long as it stays completed.
LEMMA CompletedKept ==
  ASSUME TypeOK, RunsInv, [Next]_vars, NEW r \in Runs,
         row[r].status = "completed", row'[r].status = "completed"
  PROVE  row'[r] = row[r] /\ models'[r] = models[r]
<1>0. "completed" \notin {"none", "running"} /\ row[r].status # "running" /\ row[r] \in Row
  BY FieldTypes
<1>1. job[r].at \notin Open /\ job[r] # NoJob /\ deleting # r
  BY <1>0, Labels DEF RunsInv, RunInv, RowAndJob
<1>2. ASSUME NEW q \in Runs, ThreadStep(q) PROVE row'[r] = row[r] /\ models'[r] = models[r]
  <2>1. row' = row \/ (At(q, "finish") /\ row' = [row EXCEPT ![q] = Finished(q)])
    BY <1>2 DEF ThreadStep, Load, Check, Train, Recheck, Test, Report, Raises, FinishRun,
                FinishRaises, Close
  <2>2. \/ models' = models
        \/ At(q, "train") /\ \E seen : models' = [models EXCEPT ![q][job[q].fold] = seen]
    BY <1>2 DEF ThreadStep, Load, Check, Train, Recheck, Test, Report, Raises, FinishRun,
                FinishRaises, Close, Disk
  <2>3. ~At(r, "finish") /\ ~At(r, "train")
    BY <1>1 DEF At, Open, Thread
  <2>4. QED BY <2>1, <2>2, <2>3 DEF TypeOK
<1>3. ASSUME NEW asked \in Requests, Start(asked) PROVE row'[r] = row[r] /\ models'[r] = models[r]
  BY <1>1, <1>3 DEF Start, TypeOK, Disk, history
<1>4. ASSUME NEW q \in Runs, Cancel(q) PROVE row'[r] = row[r] /\ models'[r] = models[r]
  BY <1>4 DEF Cancel, Disk
<1>5. ASSUME NEW q \in Runs, DeleteRow(q) PROVE row'[r] = row[r] /\ models'[r] = models[r]
  BY <1>5, Labels DEF DeleteRow, TypeOK, Disk
<1>6. CASE RemoveFiles \/ RemoveRaises
  BY <1>1, <1>6 DEF RemoveFiles, RemoveRaises, TypeOK
<1>7. CASE Crash
  BY <1>0, <1>7 DEF Crash, FailOrphans, Disk
<1>8. CASE UNCHANGED vars
  BY <1>8 DEF vars
<1>9. QED BY <1>2, <1>3, <1>4, <1>5, <1>6, <1>7, <1>8 DEF Next

\* A step completes or deletes one run at most, and what it completes it does
\* not delete.
LEMMA OneRunEnds ==
  ASSUME TypeOK, RunsInv, [Next]_vars
  PROVE  \/ \A r \in Runs : (row[r].status = "completed") = (row'[r].status = "completed")
         \/ \E q \in Runs : /\ Completes(q) \/ Deletes(q)
                            /\ \A r \in Runs \ {q} : row'[r] = row[r]
<1>1. ASSUME NEW q \in Runs, NEW entry, row' = [row EXCEPT ![q] = entry]
      PROVE  \/ \A r \in Runs : (row[r].status = "completed") = (row'[r].status = "completed")
             \/ /\ Completes(q) \/ Deletes(q)
                /\ \A r \in Runs \ {q} : row'[r] = row[r]
  BY <1>1 DEF TypeOK, Completes, Deletes
<1>2. row' = row \/ Crash \/ \E q \in Runs : \E entry : row' = [row EXCEPT ![q] = entry]
  <2>1. ASSUME NEW asked \in Requests, Start(asked)
        PROVE  \E q \in Runs : \E entry : row' = [row EXCEPT ![q] = entry]
    BY <2>1 DEF Start
  <2>2. ASSUME NEW q \in Runs, ThreadStep(q)
        PROVE  row' = row \/ \E entry : row' = [row EXCEPT ![q] = entry]
    BY <2>2 DEF ThreadStep, Load, Check, Train, Recheck, Test, Report, Raises, FinishRun,
                FinishRaises, Close
  <2>3. ASSUME NEW q \in Runs, Cancel(q) \/ DeleteRow(q)
        PROVE  row' = row \/ \E entry : row' = [row EXCEPT ![q] = entry]
    BY <2>3 DEF Cancel, DeleteRow
  <2>4. CASE RemoveFiles \/ RemoveRaises \/ UNCHANGED vars
    BY <2>4 DEF RemoveFiles, RemoveRaises, vars
  <2>5. QED BY <2>1, <2>2, <2>3, <2>4 DEF Next
<1>3. CASE Crash
  <2>1. \A r \in Runs : row[r] \in Row
    BY FieldTypes
  <2>2. QED BY <1>3, <2>1 DEF Crash, FailOrphans, Row
<1>4. QED BY <1>1, <1>2, <1>3

\* What the end of run q makes of the newest completed run of an asset.
LEMMA LatestMoves ==
  ASSUME TypeOK, RunsInv, [Next]_vars, NEW q \in Runs,
         Completes(q) \/ Deletes(q), \A r \in Runs \ {q} : row'[r] = row[r], NEW symbol
  PROVE  /\ Completes(q) => LatestCompleted(symbol)' \in {LatestCompleted(symbol), q}
         /\ Deletes(q) /\ LatestCompleted(symbol) # q =>
              LatestCompleted(symbol)' = LatestCompleted(symbol)
<1> DEFINE S == Finishes(symbol)
<1>1. /\ S \in SUBSET (0..MaxRuns) /\ S # {} /\ 0 \in S /\ MaxRuns \in Nat
      /\ LatestCompleted(symbol) = Max(S)
      /\ q \in 0..MaxRuns /\ q # 0
  BY FinishesAre DEF Runs
<1>2. LatestCompleted(symbol)' = Max(S')
  BY DEF Finishes, LatestCompleted
<1>3. ASSUME Completes(q) PROVE S' = S \/ S' = S \cup {q}
  BY <1>3 DEF Finishes, Completes
<1>4. ASSUME Deletes(q) PROVE S' = S \/ S' = S \ {q}
  BY <1>1, <1>4 DEF Finishes, Deletes
<1> HIDE DEF S
<1>5. ASSUME Completes(q) PROVE LatestCompleted(symbol)' \in {LatestCompleted(symbol), q}
  <2>1. Max(S \cup {q}) \in {Max(S), q}
    BY <1>1, MaxWith
  <2>2. QED BY <1>1, <1>2, <1>3, <1>5, <2>1
<1>6. ASSUME Deletes(q), LatestCompleted(symbol) # q
      PROVE  LatestCompleted(symbol)' = LatestCompleted(symbol)
  <2>1. 0 \in S \ {q}
    BY <1>1
  <2>2. QED BY <1>1, <1>2, <1>4, <1>6, <2>1, MaxWith
<1>7. QED BY <1>5, <1>6

\* The choice of the model of a symbol, across a step.
LEMMA ModelKeptStep ==
  ASSUME TypeOK, RunsInv, [Next]_vars, NEW s \in Symbols, Resolve(s)' # Resolve(s)
  PROVE  \E r \in Runs : \/ (Completes(r) /\ Resolve(s)' \in {0, r})
                         \/ (Deletes(r) /\ Resolve(s) \in {0, r})
<1> DEFINE own    == LatestCompleted(s)
           pooled == LatestCompleted(All)
\* What has served goes on serving while the run is the one chosen.
<1>1. ASSUME NEW p \in Runs, row[p].status = "completed", row'[p] = row[p]
      PROVE  models'[p] = models[p]
  BY <1>1, CompletedKept
<1>2. \A p \in {own, pooled} : p # 0 => p \in Runs /\ row[p].status = "completed"
  BY LatestIsCompleted
<1>3. CASE \A r \in Runs : (row[r].status = "completed") = (row'[r].status = "completed")
  <2>1. \A r \in Runs : row[r].status = "completed" =>
          row'[r] = row[r] /\ models'[r] = models[r]
    BY <1>3, CompletedKept
  <2>2. \A symbol : Finishes(symbol)' = Finishes(symbol)
    BY <1>3, <2>1 DEF Finishes
  <2>3. own' = own /\ pooled' = pooled
    BY <2>2 DEF LatestCompleted, Finishes
  <2>4. \A p \in {own, pooled} : p # 0 => row'[p] = row[p] /\ models'[p] = models[p]
    BY <1>2, <2>1
  <2> HIDE DEF own, pooled
  <2>5. Resolve(s)' = Resolve(s)
    BY <2>3, <2>4 DEF Resolve, own, pooled
  <2>6. QED BY <2>5
<1>4. CASE \E q \in Runs : /\ Completes(q) \/ Deletes(q)
                           /\ \A r \in Runs \ {q} : row'[r] = row[r]
  <2>1. PICK q \in Runs : /\ Completes(q) \/ Deletes(q)
                          /\ \A r \in Runs \ {q} : row'[r] = row[r]
    BY <1>4
  <2>2. q # 0
    BY DEF Runs
  <2>3. /\ Completes(q) => own' \in {own, q} /\ pooled' \in {pooled, q}
        /\ Deletes(q) /\ own # q => own' = own
        /\ Deletes(q) /\ pooled # q => pooled' = pooled
    BY <2>1, LatestMoves
  <2>4. \A p \in {own, pooled} : p # 0 /\ p # q => row'[p] = row[p] /\ models'[p] = models[p]
    BY <1>1, <1>2, <2>1
  <2>5. /\ Resolve(s) = LET c == IF own # 0 THEN own
                                 ELSE IF pooled # 0 /\ s \in row[pooled].trained THEN pooled ELSE 0
                        IN  IF c # 0 /\ models[c] # NoModels THEN c ELSE 0
        /\ Resolve(s)' = LET c == IF own' # 0 THEN own'
                                  ELSE IF pooled' # 0 /\ s \in row'[pooled'].trained THEN pooled' ELSE 0
                         IN  IF c # 0 /\ models'[c] # NoModels THEN c ELSE 0
    BY DEF Resolve
  <2> HIDE DEF own, pooled
  <2>6. Completes(q) => Resolve(s)' \in {0, q, Resolve(s)}
    BY <2>2, <2>3, <2>4, <2>5
  <2>7. Deletes(q) => Resolve(s) \in {0, q, Resolve(s)'}
    BY <2>2, <2>3, <2>4, <2>5
  <2>8. QED BY <2>1, <2>6, <2>7
<1>5. QED BY <1>3, <1>4, OneRunEnds

-----------------------------------------------------------------------------
(* The theorems *)

\* What holds of every run in every state.
LEMMA RunsInvariant == Spec => [](TypeOK /\ RunsInv)
<1>1. Init => RunsInv
  BY Labels DEF Init, RunsInv, RunInv, RowAndJob, Earned, Owned, Seen, Completed, At,
                Working, Runs
<1>2. TypeOK /\ RunsInv /\ [Next]_vars => RunsInv'
  BY RunsInductive
<1>3. QED BY <1>1, <1>2, TypeCorrect, PTL DEF Spec

\* A run that says "running" has a thread and a job to cancel, whatever is
\* cancelled, deleted, interrupted or restarted around it.
THEOREM RowHasJobHolds == Spec => []RowHasJob
<1>1. TypeOK /\ RunsInv => RowHasJob
  BY Labels DEF RunsInv, RunInv, RowAndJob, RowHasJob, Working
<1>2. QED BY <1>1, RunsInvariant, PTL

\* The verdict of a row (finish_run) is the one its thread earned, and its job's.
THEOREM VerdictEarnedHolds == Spec => []VerdictEarned
<1>1. TypeOK /\ RunsInv => VerdictEarned
  BY DEF RunsInv, RunInv, Earned, VerdictEarned
<1>2. QED BY <1>1, RunsInvariant, PTL

\* No file without a row but those of runs whose deletion stopped half-way: the
\* server died after delete_run, or rmtree raised.
THEOREM NoOrphanFilesHolds == Spec => []NoOrphanFiles
<1>1. TypeOK /\ RunsInv => NoOrphanFiles
  BY DEF RunsInv, RunInv, Owned, NoOrphanFiles
<1>2. QED BY <1>1, RunsInvariant, PTL

\* resolve_live_model serves an asset the model of a run whose cut kept it, and
\* which learned from nothing that the cut dropped.
THEOREM ServedWasKeptHolds == Spec => []ServedWasKept
BY KeptByTheServed, RunsInvariant, PTL

\* The model of a symbol changes only when a run completes, to that run's or to
\* none, or when a completed run is deleted, and then it was that run's or none.
THEOREM ModelKeptHolds == Spec => ModelKept
<1>1. TypeOK /\ RunsInv /\ [Next]_vars =>
        [\A s \in Symbols : Resolve(s)' # Resolve(s) =>
           \E r \in Runs : \/ (Completes(r) /\ Resolve(s)' \in {0, r})
                          \/ (Deletes(r) /\ Resolve(s) \in {0, r})]_vars
  BY ModelKeptStep
<1>2. QED BY <1>1, RunsInvariant, PTL DEF Spec, ModelKept
=============================================================================
