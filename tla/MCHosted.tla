------------------------------ MODULE MCHosted ------------------------------
(* What runs on hosted services: the Worker with its workflow runs and their  *)
(* closeout, the stages of its deployment, and status() over the runs that    *)
(* the cycles record.  They share no state, so `focus` picks the one that     *)
(* moves in a behaviour; the two instances of ForwardStatus share their       *)
(* variables and differ in their bounds.                                      *)
EXTENDS Hosted, TLC, Integers

CONSTANTS
  d1, d2, d3,  \* model values: identities of dataset and model
  Datasets, ReadDatasets, Results, Expected, DayLength, StaleAfter,
  MaxRuns, PairingTime, ReadTime  \* bounds of the status

VARIABLES focus, statusNow, runs, ends, reader, moments

workerVars == <<code, trigger, secrets, boundary, todo, stage, outcome, jobs, keyWrites>>
statusVars == <<statusNow, runs, ends, reader, moments>>

\* Runs of two identities over two days.
Pairing == INSTANCE ForwardStatus WITH
  now <- statusNow, Types <- {"forecast", "settlement"}, Reading <- FALSE,
  LastFinish <- PairingTime, MaxTime <- PairingTime

\* Runs of one identity and a reader between any two of their steps.
Reads == INSTANCE ForwardStatus WITH
  now <- statusNow, Types <- {"forecast", "settlement"}, Reading <- TRUE,
  Datasets <- ReadDatasets, LastFinish <- ReadTime, MaxTime <- ReadTime

ASSUME StatusesAssumption == Pairing!StatusAssumption /\ Reads!StatusAssumption

\* The warnings that a forecast and a settlement may find.
Warns == [forecast |-> {("margin" :> "warning")}, settlement |-> {("matched" :> "warning")}]

MCInit ==
  /\ Init /\ Worker!Init /\ Pairing!Init
  /\ focus \in {"slots", "worker", "pairing", "reads"}

MCNext ==
  /\ \/ focus = "slots" /\ Next /\ UNCHANGED <<workerVars, statusVars>>
     \/ focus = "worker" /\ Worker!Next /\ UNCHANGED <<vars, statusVars>>
     \/ focus = "pairing" /\ Pairing!Next /\ UNCHANGED <<vars, workerVars>>
     \/ focus = "reads" /\ Reads!Next /\ UNCHANGED <<vars, workerVars>>
  /\ UNCHANGED focus

MCSpec == MCInit /\ [][MCNext]_<<vars, workerVars, statusVars, focus>>

Symmetry == Permutations(Events) \cup Permutations(Runs) \cup Permutations({d1, d2})

-----------------------------------------------------------------------------
(* Properties                                                                *)

\* A settlement keeps the warnings of the forecast of its day and identity, and no
\* other day's; no alert is raised only when all is well or every warning is expected;
\* and status(), whose queries see different registries, never says that all is well
\* when at no moment of its read all was.
StatusIsTrue ==
  /\ Pairing!CycleWarningsSurvive /\ Pairing!NoCarryOver
  /\ focus = "reads" => Reads!NoFalseHealth /\ Reads!SilenceIsHealthy
=============================================================================
