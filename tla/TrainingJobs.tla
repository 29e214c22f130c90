---------------------------- MODULE TrainingJobs ----------------------------
(***************************************************************************)
(* Trainings: the request that starts one (api/api_training.py), the       *)
(* thread that runs it (training/training_jobs.py and the walk-forward     *)
(* loop of training/training_walkforward.py), its row in training_runs     *)
(* (storage/storage_training_runs.py), the models it leaves on disk, and   *)
(* the choice of the model the live engine loads (live/live_models.py).    *)
(*                                                                         *)
(* The event loop runs a request from start to end; the thread of the job  *)
(* interleaves with it everywhere.                                         *)
(*                                                                         *)
(*   load       history is read and cut into folds                         *)
(*   check      top of the fold loop: was the job cancelled?               *)
(*   train      strategy.train, which may leave a model                    *)
(*   recheck    cancelled while the fold was training?                     *)
(*   test       out-of-sample backtest of the fold                         *)
(*   report     metadata.json is written                                   *)
(*   finish     finish_run                                                 *)
(*   close      the job gets its status                                    *)
(*                                                                         *)
(* Abstractions.  One strategy.  Run ids grow; two starts in one second    *)
(* have the same id, and the second fails on the primary key before        *)
(* anything else happens.  Statistics are left out.                        *)
(***************************************************************************)
EXTENDS Integers, FiniteSets, FiniteSetsExt

CONSTANTS
  Symbols,      \* assets with a history
  All,          \* POOLED_RUN_SYMBOL
  Pooled,       \* does the strategy train one model on several assets?
  MaxRuns,      \* bound: trainings started
  NFolds,       \* folds of a training
  Faults        \* what may go wrong in a run

Runs       == 1..MaxRuns
Folds      == 1..NFolds
FaultKinds == {"training", "lostWrite", "crash", "stuckFiles"}

ASSUME TrainingAssumption ==
  /\ IsFiniteSet(Symbols)
  /\ All \notin Symbols
  /\ Pooled \in BOOLEAN
  /\ MaxRuns \in Nat
  /\ NFolds \in Nat \ {0}
  /\ Faults \subseteq FaultKinds

VARIABLES
  row,        \* table training_runs
  job,        \* TrainingJobManager._jobs, with the local variables of the threads
  models,     \* disk: assets seen by the model of each fold, {} when no model.txt
  metadata,   \* disk: assets named by each run's metadata.json, {} when it has none
  deleting,   \* the run whose row is deleted and whose files are not, 0 when none
  broken,     \* history: runs whose end could not be written
  cut         \* history: runs whose deletion stopped before its files were gone

vars == <<row, job, models, metadata, deleting, broken, cut>>
history == <<broken, cut>>

Verdicts == {"completed", "failed", "cancelled"}
NoRow == [status |-> "none", symbol |-> All, trained |-> {}]
NoJob == [at |-> "none", status |-> "none", cancel |-> FALSE, fold |-> 1,
          asked |-> {}, kept |-> {}, outcome |-> "failed"]
NoModels == [k \in Folds |-> {}]

Thread == {"load", "check", "train", "recheck", "test", "report", "finish", "close"}
Row == [status : {"none", "running"} \cup Verdicts, symbol : Symbols \cup {All},
        trained : SUBSET Symbols]
Job == [at : {"none", "over"} \cup Thread, status : {"none", "running"} \cup Verdicts,
        cancel : BOOLEAN, fold : 1..(NFolds + 1), asked : SUBSET Symbols,
        kept : SUBSET Symbols, outcome : Verdicts]

Init ==
  /\ row = [r \in Runs |-> NoRow]
  /\ job = [r \in Runs |-> NoJob]
  /\ models = [r \in Runs |-> NoModels]
  /\ metadata = [r \in Runs |-> {}]
  /\ deleting = 0
  /\ broken = {}
  /\ cut = {}

At(r, label) == job[r].at = label
Go(r, j)     == job' = [job EXCEPT ![r] = j]
Jump(r, label) == Go(r, [job[r] EXCEPT !.at = label])
Disk == <<models, metadata>>

\* The event loop is free when no deletion is half done.
LoopFree == deleting = 0

-----------------------------------------------------------------------------
(* Requests *)

NoJobIsRunning == \A r \in Runs : job[r].status # "running"

\* What may be asked: one asset, or for a pooled strategy at least two.
Requests == {a \in SUBSET Symbols : IF Pooled THEN Cardinality(a) >= 2
                                    ELSE Cardinality(a) = 1}

\* The run is registered under the next id and its thread started.
Start(asked) ==
  /\ LoopFree
  /\ NoJobIsRunning
  /\ \E r \in Runs :
       /\ job[r] = NoJob
       /\ \A q \in 1..(r - 1) : job[q] # NoJob
       /\ row' = [row EXCEPT ![r] =
            [status |-> "running", trained |-> {},
             symbol |-> IF Pooled THEN All ELSE CHOOSE s \in asked : TRUE]]
       /\ Go(r, [NoJob EXCEPT !.at = "load", !.status = "running", !.asked = asked])
  /\ UNCHANGED <<Disk, deleting, history>>

Cancel(r) ==
  /\ LoopFree
  /\ job[r].status = "running"
  /\ Go(r, [job[r] EXCEPT !.cancel = TRUE])
  /\ UNCHANGED <<row, Disk, deleting, history>>

\* delete_run: the row of a run that is over goes,
AnyRow(r)    == row[r].status # "none"        \* mutant: a running row goes as well
Deletable(r) == row[r].status \notin {"none", "running"}

DeleteRow(r) ==
  /\ LoopFree
  /\ Deletable(r)
  /\ row' = [row EXCEPT ![r] = NoRow]
  /\ deleting' = r
  /\ UNCHANGED <<job, Disk, history>>

\* and then its directory.
RemoveFiles ==
  /\ deleting # 0
  /\ models' = [models EXCEPT ![deleting] = NoModels]
  /\ metadata' = [metadata EXCEPT ![deleting] = {}]
  /\ deleting' = 0
  /\ UNCHANGED <<row, job, history>>

\* rmtree raises on a file it cannot remove: those before it are gone, the others
\* stay, and asking again answers 404, the row being gone.
RemoveRaises ==
  /\ "stuckFiles" \in Faults
  /\ deleting # 0
  /\ \E stuck \in SUBSET Folds :
       models' = [models EXCEPT ![deleting] =
                    [k \in Folds |-> IF k \in stuck THEN @[k] ELSE {}]]
  /\ \E left \in {{}, metadata[deleting]} :
       metadata' = [metadata EXCEPT ![deleting] = left]
  /\ deleting' = 0
  /\ cut' = cut \cup {deleting}
  /\ UNCHANGED <<row, job, broken>>

\* The server dies and starts again: threads and jobs are gone, fail_orphan_runs
\* closes the rows they leave.  (A spent id keeps a job that is over.)
LeaveOrphans == row                           \* mutant
FailOrphans  ==
  [r \in Runs |-> IF row[r].status = "running"
                  THEN [row[r] EXCEPT !.status = "failed"] ELSE row[r]]

Crash ==
  /\ "crash" \in Faults
  /\ row' = FailOrphans
  /\ job' = [r \in Runs |-> IF job[r] = NoJob THEN NoJob
                            ELSE [NoJob EXCEPT !.at = "over"]]
  /\ deleting' = 0
  /\ cut' = cut \cup ({deleting} \ {0})
  /\ UNCHANGED <<Disk, broken>>

-----------------------------------------------------------------------------
(* The thread of a job *)

Raises(r) ==
  /\ "training" \in Faults
  /\ \E label \in {"load", "train", "test", "report"} : At(r, label)
  /\ Go(r, [job[r] EXCEPT !.at = "finish", !.outcome = "failed"])
  /\ UNCHANGED <<row, Disk, deleting, history>>

\* The folds keep the assets that cover the common period: all those asked for,
\* or fewer when the strategy is pooled and two are left.
Load(r) ==
  /\ At(r, "load")
  /\ \E kept \in Requests :
       /\ kept \subseteq job[r].asked
       /\ Go(r, [job[r] EXCEPT !.at = "check", !.kept = kept])
  /\ UNCHANGED <<row, Disk, deleting, history>>

Stop(r) == Go(r, [job[r] EXCEPT !.at = "finish", !.outcome = "cancelled"])

Check(r) ==
  /\ At(r, "check")
  /\ \/ /\ job[r].fold > NFolds
        /\ Jump(r, "report")
     \/ /\ job[r].fold <= NFolds
        /\ IF job[r].cancel THEN Stop(r) ELSE Jump(r, "train")
  /\ UNCHANGED <<row, Disk, deleting, history>>

\* A fold learns from the assets it kept that have labelled bars before its test
\* block: all of them, some (the cut counts the test blocks too), or none, and then
\* it leaves no model.
Train(r) ==
  /\ At(r, "train")
  /\ Jump(r, "recheck")
  /\ \E seen \in SUBSET job[r].kept :
       models' = [models EXCEPT ![r][job[r].fold] = seen]
  /\ UNCHANGED <<row, metadata, deleting, history>>

Recheck(r) ==
  /\ At(r, "recheck")
  /\ IF job[r].cancel THEN Stop(r) ELSE Jump(r, "test")
  /\ UNCHANGED <<row, Disk, deleting, history>>

Test(r) ==
  /\ At(r, "test")
  /\ Go(r, [job[r] EXCEPT !.at = "check", !.fold = @ + 1])
  /\ UNCHANGED <<row, Disk, deleting, history>>

Report(r) ==
  /\ At(r, "report")
  /\ metadata' = [metadata EXCEPT ![r] = job[r].kept]
  /\ Go(r, [job[r] EXCEPT !.at = "finish", !.outcome = "completed"])
  /\ UNCHANGED <<row, models, deleting, history>>

\* The assets a run is recorded to have seen: the report of a cancelled one
\* does not name them, and the request's are taken.
AskedFor(r) == IF job[r].outcome = "failed" THEN {} ELSE job[r].asked  \* mutant
Trained(r)  == CASE job[r].outcome = "completed" -> job[r].kept
                 [] job[r].outcome = "cancelled" -> job[r].asked
                 [] job[r].outcome = "failed"    -> {}

\* finish_run, which leaves a deleted row alone.
KeepRunning(r) ==                             \* mutant: a failure is not recorded
  IF job[r].outcome = "failed" THEN row[r]
  ELSE [row[r] EXCEPT !.status = job[r].outcome, !.trained = Trained(r)]
Finished(r) == [row[r] EXCEPT !.status = job[r].outcome, !.trained = Trained(r)]

FinishRun(r) ==
  /\ At(r, "finish")
  /\ row' = IF row[r].status = "none" THEN row ELSE [row EXCEPT ![r] = Finished(r)]
  /\ Jump(r, "close")
  /\ UNCHANGED <<Disk, deleting, history>>

\* finish_run raises: the job fails, the row stays as it was.
FinishRaises(r) ==
  /\ "lostWrite" \in Faults
  /\ At(r, "finish")
  /\ Go(r, [job[r] EXCEPT !.at = "close", !.outcome = "failed"])
  /\ broken' = broken \cup {r}
  /\ UNCHANGED <<row, Disk, deleting, cut>>

\* runner: the status of the job, from the result of its target.  Of the rest nothing
\* is read again but whether it was cancelled.
NewStatus(r)       == "done"                  \* mutant: a status nobody knows
AlwaysCompleted(r) == "completed"             \* mutant: a cancelled result is a success
Status(r)          == job[r].outcome

Close(r) ==
  /\ At(r, "close")
  /\ Go(r, [NoJob EXCEPT !.at = "over", !.status = Status(r), !.cancel = job[r].cancel])
  /\ UNCHANGED <<row, Disk, deleting, history>>

ThreadStep(r) ==
  \/ Load(r) \/ Check(r) \/ Train(r) \/ Recheck(r) \/ Test(r) \/ Report(r)
  \/ Raises(r) \/ FinishRun(r) \/ FinishRaises(r) \/ Close(r)

-----------------------------------------------------------------------------
(* The model of a symbol *)

\* latest_completed_run: the newest, 0 when there is none.
AnyStatus(symbol) ==                          \* mutant: whatever its status
  Max({0} \cup {r \in Runs : row[r].status # "none" /\ row[r].symbol = symbol})
LatestCompleted(symbol) ==
  Max({0} \cup {r \in Runs : row[r].status = "completed" /\ row[r].symbol = symbol})

\* resolve_live_model: the symbol's own run, or a pooled run that has seen it,
\* and none if that run left no model.
Resolve(s) ==
  LET own    == LatestCompleted(s)
      pooled == LatestCompleted(All)
      chosen == IF own # 0 THEN own
                ELSE IF pooled # 0 /\ s \in row[pooled].trained THEN pooled ELSE 0
  IN IF chosen # 0 /\ models[chosen] # NoModels THEN chosen ELSE 0

Next ==
  \/ \E asked \in Requests : Start(asked)
  \/ \E r \in Runs : Cancel(r) \/ DeleteRow(r) \/ ThreadStep(r)
  \/ RemoveFiles
  \/ RemoveRaises
  \/ Crash

Spec == Init /\ [][Next]_vars

\* The thread of a job goes on.
FairSpec == Spec /\ \A r \in Runs : WF_vars(ThreadStep(r))

-----------------------------------------------------------------------------
(* Properties *)

\* Type invariant.
TypeOK ==
  /\ row \in [Runs -> Row]
  /\ job \in [Runs -> Job]
  /\ models \in [Runs -> [Folds -> SUBSET Symbols]]
  /\ metadata \in [Runs -> SUBSET Symbols]
  /\ deleting \in Runs \cup {0}
  /\ broken \subseteq Runs
  /\ cut \subseteq Runs

Working(r) == job[r].at \in Thread

\* A row that says "running" has a thread at work and a job that can still be
\* cancelled: otherwise the run could neither be cancelled nor deleted.  The one
\* exception in the code is a finish_run that raised.
RowHasJob == \A r \in Runs \ broken :
  row[r].status = "running" => Working(r) /\ job[r].status = "running"

\* The verdict of a row is earned, and the job tells the same unless finish_run
\* raised: a completed run went through every fold and wrote its report, a
\* cancelled one was cancelled.
VerdictEarned ==
  \A r \in Runs :
    /\ row[r].status = "completed" => metadata[r] # {}
    /\ job[r].status \in Verdicts /\ row[r] # NoRow /\ r \notin broken
         => row[r].status = job[r].status
    /\ row[r].status = "cancelled" /\ job[r].status # "none" => job[r].cancel

\* The model a run serves: that of its last fold that left one.
Served(r) == models[r][Max({k \in Folds : models[r][k] # {}})]

\* An asset gets the model of a run whose cut kept it, and which learned from
\* nothing that the cut dropped: what latest_completed_run answers and what the
\* folds and the report left on the disk agree.
ServedWasKept ==
  \A s \in Symbols : LET r == Resolve(s) IN
    r # 0 => s \in metadata[r] /\ Served(r) \subseteq metadata[r]

\* A model is served only to assets it has seen (resolve_live_model: "Un modele
\* mutualise ne couvre que les actifs qu'il a vus").
ServedHasSeen ==
  \A s \in Symbols : Resolve(s) # 0 => s \in Served(Resolve(s))

Completes(r) == row[r].status # "completed" /\ row'[r].status = "completed"
Deletes(r)   == row[r].status = "completed" /\ row'[r].status # "completed"

\* A training in progress, failed, cancelled or interrupted changes nothing to
\* the model a symbol gets.  A run that completes may give it its own model, or
\* none; a deletion takes away no model but the deleted run's.
ModelKept ==
  [][\A s \in Symbols : Resolve(s)' # Resolve(s) =>
       \E r \in Runs : \/ (Completes(r) /\ Resolve(s)' \in {0, r})
                      \/ (Deletes(r) /\ Resolve(s) \in {0, r})]_vars

\* Files on disk belong to a run in the table, or to one being deleted, unless
\* that deletion stopped between the row and the last file: the server died, or
\* rmtree raised.
NoOrphanFiles ==
  \A r \in Runs \ cut : row[r] = NoRow /\ deleting # r =>
    models[r] = NoModels /\ metadata[r] = {}

\* A run does not stay "running" for ever, unless finish_run raised.
RunsEnd ==
  \A r \in Runs : row[r].status = "running" ~> row[r].status # "running" \/ r \in broken
=============================================================================
