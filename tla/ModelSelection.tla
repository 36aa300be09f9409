--------------------------- MODULE ModelSelection ---------------------------
(***************************************************************************)
(* How a model is chosen and tested (modeling/walk_forward.py,               *)
(* experiment.py, frozen.py, pretest_review.py and their commands): folds    *)
(* and purged splits over filings whose labels mature later, the selection   *)
(* and its out-of-fold archive in a directory that runs share, the review of *)
(* them, and the one opening of the locked test.  A model is the labels that *)
(* its fitting read; the numbers are left out.                               *)
(***************************************************************************)
EXTENDS Integers, FiniteSets, FiniteSetsExt

CONSTANTS Rows,             \* of the dataset, which is in the order of acceptance
          Moments, Lags,    \* when one is accepted, and how long its label takes
          YearLength,       \* evaluation periods are years
          Configs,          \* [years, testYear]: research configurations
          Development, Validation,   \* the split of run-study, in years: ..d, v
          AsOf,             \* the dataset's date
          HoldoutShare,     \* one in HoldoutShare rows stops the training
          Families,         \* families of the champion
          Runs,             \* processes of the commands
          None

VARIABLES accepted, horizon,     \* the dataset: filing -> moment
          pc, job, seen,         \* run -> stage, its work, what the operator confirmed
          archive, selection,    \* oof-predictions.npz, walk-forward-selection.json
          review,                \* pretest-review.json
          locked                 \* the frozen study's directory

dataVars == <<accepted, horizon>>
runVars == <<pc, job, seen>>
fileVars == <<archive, selection, review, locked>>
vars == <<dataVars, runVars, fileVars>>

Jobs    == [config : Configs, family : Families]
Saved   == [of : Jobs, archive : Jobs]
Studies == [of : Jobs, train : SUBSET (1..Rows), test : SUBSET (1..Rows)]

SelectionAssumption ==
  /\ Rows \in Nat /\ Moments \cup Lags \cup {AsOf, Development, Validation} \subseteq Int
  /\ HoldoutShare \in Nat \ {0} /\ YearLength \in Nat \ {0}
  /\ \A c \in Configs :
       /\ c.years # {} /\ c.testYear \in Int
       /\ \A y \in c.years : y \in Int /\ y < c.testYear
  /\ Development < Validation
  /\ None \notin Jobs \cup Saved \cup Studies

Filings == 1..Rows

Init ==
  /\ accepted \in [Filings -> Moments]
  /\ \A f \in Filings : f > 1 => accepted[f - 1] <= accepted[f]
  /\ horizon \in {[f \in Filings |-> accepted[f] + lag[f]] : lag \in [Filings -> Lags]}
  /\ pc = [r \in Runs |-> "idle"]
  /\ job = [r \in Runs |-> None] /\ seen = [r \in Runs |-> None]
  /\ archive = None /\ selection = None /\ review = None /\ locked = None

-----------------------------------------------------------------------------
(* Splits                                                                    *)

Start(year) == year * YearLength
(* A label is in the dataset once its horizon is past.                       *)
Labelled == {f \in Filings : horizon[f] <= AsOf}

(* Mutant: the labels of a boundary are not purged.                          *)
MaturedAccepted(start) == {f \in Labelled : accepted[f] < start}
(* Rows that were accepted and matured before a boundary.                    *)
Matured(start) == {f \in Labelled : accepted[f] < start /\ horizon[f] < start}

(* make_walk_forward_folds: an expanding window before each year.            *)
TrainRows(year)      == Matured(Start(year))
ValidationRows(year) == {f \in Matured(Start(year + 1)) : accepted[f] >= Start(year)}
FoldsExist(c) == \A y \in c.years : TrainRows(y) # {} /\ ValidationRows(y) # {}

(* _early_stopping_split: the latest share of a fold's rows, with its ties,  *)
(* and the rows that had matured before it.                                  *)
HoldoutCount(rows) == (Cardinality(rows) + HoldoutShare - 1) \div HoldoutShare
HoldoutStart(rows) ==
  Max({t \in {accepted[f] : f \in rows} :
         Cardinality({f \in rows : accepted[f] >= t}) >= HoldoutCount(rows)})
Holdout(rows) == {f \in rows : accepted[f] >= HoldoutStart(rows)}
Inner(rows)   == {f \in rows : horizon[f] < HoldoutStart(rows)}
Splits(c) == \A y \in c.years : Inner(TrainRows(y)) # {}

(* train_moe takes its gradients from one set of rows and stops, or keeps    *)
(* its best epoch, by another; train_comparisons fits on one.                *)
TrainingReads(train, stop) == train \cup stop
ComparisonReads(train)     == train

(* run_walk_forward_study: _prepare_fold scales by the window of the fold.   *)
FoldReads(year) ==
  LET rows == TrainRows(year)
  IN TrainingReads(Inner(rows), Holdout(rows)) \cup ComparisonReads(rows)
OutOfFold(c) == UNION {ValidationRows(y) : y \in c.years}

(* make_research_split; run-study stops and chooses by the validation.       *)
DevelopmentRows == Matured(Start(Development + 1))
StudyRows       == {f \in Matured(Start(Validation + 1)) : accepted[f] >= Start(Validation)}
StudyReads      == TrainingReads(DevelopmentRows, StudyRows) \cup ComparisonReads(DevelopmentRows)

(* _make_frozen_split; the refit runs the median of the folds' epochs, with  *)
(* its own rows to watch.                                                    *)
FrozenTrain(c) == Matured(Start(c.testYear))
FrozenTest(c)  == {f \in Labelled : accepted[f] >= Start(c.testYear)}
FrozenReads(c) == TrainingReads(FrozenTrain(c), FrozenTrain(c)) \cup ComparisonReads(FrozenTrain(c))

-----------------------------------------------------------------------------
(* walk-forward-study                                                        *)

Select(r, c, family) ==
  /\ pc[r] = "idle" /\ FoldsExist(c) /\ Splits(c)
  /\ pc' = [pc EXCEPT ![r] = "selected"]
  /\ job' = [job EXCEPT ![r] = [config |-> c, family |-> family]]
  /\ UNCHANGED <<dataVars, seen, fileVars>>

(* save_walk_forward_artifacts: the archive is replaced first, and the hash  *)
(* that the selection records is of the file that is there then.             *)
SaveArchive(r) ==
  /\ pc[r] = "selected"
  /\ pc' = [pc EXCEPT ![r] = "archived"]
  /\ archive' = job[r]
  /\ UNCHANGED <<dataVars, job, seen, selection, review, locked>>

SaveSelection(r) ==
  /\ pc[r] = "archived"
  /\ pc' = [pc EXCEPT ![r] = "done"]
  /\ selection' = [of |-> job[r], archive |-> archive]
  /\ UNCHANGED <<dataVars, job, seen, archive, review, locked>>

(* review_v2_pretest: the hashes hold, the folds are the dataset's, and the  *)
(* saved metrics are those of the archive's scores.                          *)
Reproduces == selection.of = archive
Review(r) ==
  /\ pc[r] = "idle" /\ selection # None /\ review = None
  /\ selection.archive = archive /\ Reproduces
  /\ review' = [of |-> selection.of, events |-> OutOfFold(selection.of.config)]
  /\ pc' = [pc EXCEPT ![r] = "done"]
  /\ UNCHANGED <<dataVars, job, seen, archive, selection, locked>>

-----------------------------------------------------------------------------
(* open-frozen-test                                                          *)

(* The operator confirms the hash of a selection that they read.             *)
Confirm(r) ==
  /\ pc[r] = "idle" /\ selection # None /\ locked = None
  /\ seen' = [seen EXCEPT ![r] = selection]
  /\ pc' = [pc EXCEPT ![r] = "confirmed"]
  /\ UNCHANGED <<dataVars, job, fileVars>>

(* verify_frozen_selection                                                   *)
Verifies(r) == selection = seen[r] /\ selection.archive = archive

(* evaluate_frozen_selection refits the champion and scores the locked       *)
(* period.                                                                   *)
Evaluate(r) ==
  LET c == selection.of.config
  IN /\ pc[r] = "confirmed"
     /\ IF Verifies(r) /\ FrozenTrain(c) # {} /\ FrozenTest(c) # {}
        THEN /\ pc' = [pc EXCEPT ![r] = "evaluated"]
             /\ job' = [job EXCEPT ![r] = [of |-> selection.of, train |-> FrozenTrain(c),
                                           test |-> FrozenTest(c)]]
        ELSE pc' = [pc EXCEPT ![r] = "failed"] /\ UNCHANGED job
     /\ UNCHANGED <<dataVars, seen, fileVars>>

(* save_frozen_evaluation: the staged directory is renamed, which fails on   *)
(* one that is there.                                                        *)
Publish(r) ==
  /\ pc[r] = "evaluated"
  /\ IF locked = None
     THEN locked' = job[r] /\ pc' = [pc EXCEPT ![r] = "opened"]
     ELSE pc' = [pc EXCEPT ![r] = "failed"] /\ UNCHANGED locked
  /\ UNCHANGED <<dataVars, job, seen, archive, selection, review>>

(* A process dies; what it staged is no directory of a study.                *)
Crash(r) ==
  /\ pc[r] \notin {"idle", "done", "opened", "failed"}
  /\ pc' = [pc EXCEPT ![r] = "failed"]
  /\ UNCHANGED <<dataVars, job, seen, fileVars>>

Next ==
  \E r \in Runs :
    \/ \E c \in Configs, family \in Families : Select(r, c, family)
    \/ SaveArchive(r) \/ SaveSelection(r) \/ Review(r)
    \/ Confirm(r) \/ Evaluate(r) \/ Publish(r) \/ Crash(r)

Spec == Init /\ [][Next]_vars

-----------------------------------------------------------------------------
(* Properties                                                                *)

(* A set of labels was public when each of the filings was accepted.         *)
PublicTo(labels, scored) == \A l \in labels, f \in scored : horizon[l] < accepted[f]

(* No label that a score depends on was still to come when the filing it     *)
(* scores was accepted: in a fold, between its inner rows and the holdout    *)
(* that stops them, and in the locked period, for which the choice of the    *)
(* champion counts too.                                                      *)
NoScoreLooksAhead ==
  /\ \A c \in Configs :
       /\ FoldsExist(c) => \A y \in c.years :
            /\ PublicTo(FoldReads(y), ValidationRows(y))
            /\ PublicTo(Inner(TrainRows(y)), Holdout(TrainRows(y)))
       /\ PublicTo(FrozenReads(c) \cup OutOfFold(c), FrozenTest(c))
       /\ Validation < c.testYear => PublicTo(StudyReads, FrozenTest(c))
  /\ PublicTo(ComparisonReads(DevelopmentRows), StudyRows)

(* The locked test opens once, for the selection that its operator confirmed; *)
(* what it tested had no part in what was reviewed.                          *)
OpenedOnce ==
  /\ Cardinality({r \in Runs : pc[r] = "opened"}) <= 1
  /\ \A r \in Runs : pc[r] = "opened" => locked = job[r] /\ locked.of = seen[r].of
  /\ review # None /\ locked # None /\ review.of = locked.of
       => review.events \subseteq locked.train /\ review.events \cap locked.test = {}
=============================================================================
