--------------------------- MODULE ForwardWorkflow ---------------------------
(***************************************************************************)
(* forward/workflow.py: the forecast and the settle command, each one a    *)
(* sequence of registry calls and artifact writes that no transaction      *)
(* spans.                                                                  *)
(*                                                                         *)
(* A command is one execution of the CLI; the uuid of the run it starts is *)
(* the command itself.  pc[c] is the call it is making.  A registry call   *)
(* is the two steps of ForwardRegistry, and may be refused, fail, commit   *)
(* without the client hearing of it, or be cut off with the process.  The  *)
(* artifact store is MirroredArtifactStore: a local primary, then R2.      *)
(***************************************************************************)
EXTENDS Naturals, FiniteSets

CONSTANTS
  Commands,     \* command executions
  Forecasting,  \* the commands that run forecast(); the others run settle()
  None,
  Training,     \* the frozen training dataset: [id, manifest]
  Model,        \* the frozen model: [id, training, identity]
  Bundles,      \* processed datasets: [id, manifest, opens, closes, sound, events, targets]
  Moments,      \* the as-of values that commands are given
  Tolerance,    \* the recording-clock tolerance (15 minutes)
  MaxTime,      \* bound: the clock stops there
  MaxFaults,    \* bound: failures of the environment
  Ephemeral     \* TRUE: the disk under the primary store dies with its host

ASSUME WorkflowAssumption == Forecasting \subseteq Commands

VARIABLES
  datasets, models, runs, forecasts, labels, checks, artifacts, audit, tx,
  now,      \* the recording clock
  pc,       \* the call each command is making
  job,      \* the arguments of each command: [bundle, as_of]
  work,     \* what each command is to record: [rows, checks]
  primary,  \* objects in the local store: "model", or the run of an evidence batch
  mirror,   \* objects in R2
  faults,   \* environment failures so far
  hurt      \* the calls of each command that the environment failed

registry == <<datasets, models, runs, forecasts, labels, checks, artifacts, audit, tx>>
stores   == <<primary, mirror>>
vars     == <<registry, now, pc, job, work, stores, faults, hurt>>

Settling == Commands \ Forecasting

DatasetOf(b) == [id |-> b.id, manifest |-> b.manifest]

\* A label is drafted from the outcome the settlement dataset has for the event.
LabelOf(b, f, target) ==
  [forecast |-> f, dataset |-> b.id, value |-> target.value, matured |-> target.horizon]

Drafts == UNION {b.events : b \in Bundles}

LabelDrafts ==
  UNION {{LabelOf(b, <<Model.id, x, t>>, b.targets[x]) : x \in DOMAIN b.targets, t \in Moments} :
         b \in Bundles}

CheckDrafts == [name : {"availability", "match_rate"}, status : {"passed", "warning", "failed"}]

Reg == INSTANCE ForwardRegistry WITH
  Sessions         <- Commands,
  Runs             <- Commands,
  DatasetRequests  <- {DatasetOf(b) : b \in Bundles} \cup {Training},
  ModelRequests    <- {Model},
  RunRequests      <- [type : {"forecast", "settlement"}, as_of : Moments,
                       dataset : {b.id : b \in Bundles}, model : {Model.id}, parent : {None}],
  ForecastBatches  <- SUBSET Drafts,
  LabelBatches     <- SUBSET LabelDrafts,
  CheckBatches     <- SUBSET CheckDrafts,
  ArtifactRequests <- [kind : {"forecast_batch", "settlement_batch"}, sha : Commands,
                       uri : {"local"}]

-----------------------------------------------------------------------------
(* The order of the calls                                                  *)

After ==
  [training |-> "dataset", dataset |-> "put_model", put_model |-> "mirror_model",
   mirror_model |-> "model", model |-> "start", start |-> "prepare",
   prepare |-> "checks", checks |-> "append", append |-> "put", put |-> "mirror",
   mirror |-> "artifact", artifact |-> "complete", complete |-> "done",
   failing_checks |-> "failing", partial |-> "failing", failing |-> "raised"]

InTry      == {"prepare", "checks", "append", "put", "artifact", "complete"}
BestEffort == {"failing_checks", "partial"}  \* records whose own failure is swallowed

OnErrorGeneric ==  \* mutant: ArtifactWriteError has no handler of its own
  [p \in DOMAIN After |->
     CASE p \in InTry \cup BestEffort \cup {"mirror"} -> "failing"
       [] OTHER                                      -> "raised"]

OnErrorRetried ==  \* mutant: fail_run is retried until it succeeds
  [p \in DOMAIN After |->
     CASE p = "mirror"                               -> "partial"
       [] p \in InTry \cup BestEffort \cup {"failing"} -> "failing"
       [] OTHER                                      -> "raised"]

\* Where an exception in a call leads: the try block begins after start_run.
OnError ==
  [p \in DOMAIN After |->
     CASE p = "mirror"                -> "partial"
       [] p \in InTry \cup BestEffort -> "failing"
       [] OTHER                       -> "raised"]

RegistryCalls ==
  DOMAIN After \ {"put_model", "mirror_model", "prepare", "put", "mirror"}
Stopped == {"done", "raised", "crashed"}
Phases  == DOMAIN After \cup Stopped \cup {"idle"}

Continue(c) == pc' = [pc EXCEPT ![c] = After[pc[c]]]
Throw(c)    == pc' = [pc EXCEPT ![c] = OnError[pc[c]]]

NoWork == [rows |-> {}, checks |-> {}]

Init ==
  /\ Reg!Init
  /\ now = 0
  /\ pc = [c \in Commands |-> "idle"]
  /\ job = [c \in Commands |-> None]
  /\ work = [c \in Commands |-> NoWork]
  /\ primary = {} /\ mirror = {}
  /\ faults = 0
  /\ hurt = [c \in Commands |-> {}]

Tick ==
  /\ now < MaxTime
  /\ now' = now + 1
  /\ UNCHANGED <<registry, pc, job, work, stores, faults, hurt>>

\* _require_near_now for a forecast, _require_not_future for a settlement.
Timely(c, as_of) ==
  /\ as_of <= now + Tolerance
  /\ c \in Forecasting => now <= as_of + Tolerance

Launch(c, b, as_of) ==
  /\ pc[c] = "idle"
  /\ Timely(c, as_of)
  /\ b.opens <= as_of
  /\ pc' = [pc EXCEPT ![c] = IF Reg!Registered(datasets, Training.id)
                             THEN "dataset" ELSE "training"]
  /\ job' = [job EXCEPT ![c] = [bundle |-> b, as_of |-> as_of]]
  /\ UNCHANGED <<registry, now, work, stores, faults, hurt>>

-----------------------------------------------------------------------------
(* Registry calls                                                          *)

RequestOf(c) ==
  [type |-> IF c \in Forecasting THEN "forecast" ELSE "settlement",
   as_of |-> job[c].as_of, dataset |-> job[c].bundle.id, model |-> Model.id, parent |-> None]

ArtifactOf(c) ==
  [kind |-> IF c \in Forecasting THEN "forecast_batch" ELSE "settlement_batch",
   sha |-> c, uri |-> "local"]

Opening(c) ==
  \/ pc[c] = "training" /\ Reg!RegisterDataset(c, Training)
  \/ pc[c] = "dataset" /\ Reg!RegisterDataset(c, DatasetOf(job[c].bundle))
  \/ pc[c] = "model" /\ Reg!RegisterModel(c, Model)
  \/ pc[c] = "start" /\ Reg!StartRun(c, c, RequestOf(c))
  \/ pc[c] \in {"checks", "failing_checks"} /\ Reg!AddQualityChecks(c, c, work[c].checks)
  \/ pc[c] = "append" /\ c \in Forecasting /\ Reg!AppendForecasts(c, c, work[c].rows)
  \/ pc[c] = "append" /\ c \in Settling /\ Reg!SettleLabels(c, c, work[c].rows)
  \/ pc[c] \in {"artifact", "partial"} /\ Reg!RegisterArtifact(c, c, ArtifactOf(c))
  \/ pc[c] = "complete" /\ Reg!CompleteRun(c, c)
  \/ pc[c] = "failing" /\ Reg!FailRun(c, c)

\* What the method requires of the registry.
Permitted(c) ==
  CASE pc[c] = "training" -> Reg!Admitted(datasets, Training)
    [] pc[c] = "dataset"  -> Reg!Admitted(datasets, DatasetOf(job[c].bundle))
    [] pc[c] = "model"    -> Reg!Registered(datasets, Model.training) /\ Reg!Admitted(models, Model)
    [] pc[c] = "start"    -> Reg!MayStart(c, RequestOf(c))
    [] pc[c] \in {"checks", "failing_checks"}       -> Reg!MayCheck(c, work[c].checks)
    [] pc[c] = "append" /\ c \in Forecasting        -> Reg!MayAppend(c, work[c].rows)
    [] pc[c] = "append" /\ c \in Settling           -> Reg!MaySettle(c, work[c].rows)
    [] pc[c] \in {"artifact", "partial"}            -> Reg!MayReference(c, ArtifactOf(c))
    [] pc[c] \in {"complete", "failing"}            -> Reg!Running(c)

Call(c) ==
  /\ Opening(c)
  /\ UNCHANGED <<now, pc, job, work, stores, faults, hurt>>

\* The method raises before it writes.
Refused(c) ==
  /\ pc[c] \in RegistryCalls /\ tx[c] = Reg!Idle
  /\ ~Permitted(c)
  /\ Throw(c)
  /\ UNCHANGED <<registry, now, job, work, stores, faults, hurt>>

Return(c) ==
  /\ Reg!Commit(c)
  /\ Continue(c)
  /\ UNCHANGED <<now, job, work, stores, faults, hurt>>

\* A constraint or a trigger refuses the commit: another command was first.
Collided(c) ==
  /\ tx[c] # Reg!Idle
  /\ ~Reg!Fits(c)
  /\ Reg!Rollback(c)
  /\ Throw(c)
  /\ UNCHANGED <<now, job, work, stores, faults, hurt>>

Hurt(c) ==
  /\ faults < MaxFaults
  /\ faults' = faults + 1
  /\ hurt' = [hurt EXCEPT ![c] = @ \cup {pc[c]}]

\* The database is unreachable: nothing is written.
Outage(c) ==
  /\ tx[c] # Reg!Idle
  /\ Reg!Rollback(c)
  /\ Throw(c)
  /\ Hurt(c)
  /\ UNCHANGED <<now, job, work, stores>>

\* The transaction commits and the connection drops before the client knows.
LostReply(c) ==
  /\ Reg!Commit(c)
  /\ Throw(c)
  /\ Hurt(c)
  /\ UNCHANGED <<now, job, work, stores>>

\* The process is killed or interrupted: no handler runs (only Exception is
\* caught), the server rolls back, and the disk of its host may be lost.
Crash(c) ==
  /\ pc[c] \notin Stopped \cup {"idle"}
  /\ Hurt(c)
  /\ pc' = [pc EXCEPT ![c] = "crashed"]
  /\ tx' = [tx EXCEPT ![c] = Reg!Idle]
  /\ UNCHANGED <<datasets, models, runs, forecasts, labels, checks, artifacts, audit>>
  /\ UNCHANGED <<now, job, work, stores>>

-----------------------------------------------------------------------------
(* Inference and the pending query                                         *)

\* _candidate_indices: known to the dataset and public, and not yet tradable.
Candidates(b, as_of) ==
  {e \in b.events : /\ e.accepted <= as_of /\ e.accepted <= b.closes
                    /\ e.entry > as_of
                    /\ e.horizon > e.entry}

\* FrozenPredictor.forecast: a failed availability audit carries its checks.
Score(c) ==
  LET b == job[c].bundle
  IN  /\ pc[c] = "prepare" /\ c \in Forecasting
      /\ work' = [work EXCEPT ![c] =
           [rows   |-> IF b.sound THEN Candidates(b, job[c].as_of) ELSE {},
            checks |-> {[name |-> "availability",
                         status |-> IF b.sound THEN "passed" ELSE "failed"]}]]
      /\ pc' = [pc EXCEPT ![c] = IF b.sound THEN "checks" ELSE "failing_checks"]
      /\ UNCHANGED <<registry, now, job, stores, faults, hurt>>

\* pending_forecasts: due and unlabelled in the database as it is now.
Pending(as_of) ==
  {f \in forecasts : /\ f.draft.horizon <= as_of /\ f.model = Model.id
                     /\ \A l \in labels : l.draft.forecast # Reg!ForecastId(f)}

\* The labels that settle() drafts: matched, finite, and mature in the dataset.
Match(c) ==
  LET b == job[c].bundle
      due == Pending(job[c].as_of)
      matched == {f \in due : f.draft.event \in DOMAIN b.targets}
      target(f) == b.targets[f.draft.event]
  IN  /\ pc[c] = "prepare" /\ c \in Settling
      /\ work' = [work EXCEPT ![c] =
           [rows   |-> {LabelOf(b, Reg!ForecastId(f), target(f)) :
                          f \in {g \in matched : target(g).horizon <= job[c].as_of}},
            checks |-> {[name |-> "match_rate",
                         status |-> IF matched = due THEN "passed" ELSE "warning"]}]]
      /\ Continue(c)
      /\ UNCHANGED <<registry, now, job, stores, faults, hurt>>

-----------------------------------------------------------------------------
(* Artifact writes: put_file for the model, put_bytes for the evidence     *)

Object(c) == IF pc[c] \in {"put_model", "mirror_model"} THEN "model" ELSE c

PutPrimary(c) ==
  /\ pc[c] \in {"put_model", "put"}
  /\ primary' = primary \cup {Object(c)}
  /\ Continue(c)
  /\ UNCHANGED <<registry, now, job, work, mirror, faults, hurt>>

PutMirrorAtBest(c) ==  \* mutant: a failed mirror write is only logged
  /\ pc[c] \in {"mirror_model", "mirror"}
  /\ mirror' \in {mirror, mirror \cup {Object(c)}}
  /\ Continue(c)
  /\ UNCHANGED <<registry, now, job, work, primary, faults, hurt>>

PutMirror(c) ==
  /\ pc[c] \in {"mirror_model", "mirror"}
  /\ mirror' = mirror \cup {Object(c)}
  /\ Continue(c)
  /\ UNCHANGED <<registry, now, job, work, primary, faults, hurt>>

\* The scorer, the local disk or R2 raises; an upload whose reply is lost has
\* written the object.
Failed(c) ==
  /\ pc[c] \in {"prepare", "put_model", "put", "mirror_model", "mirror"}
  /\ mirror' \in {mirror} \cup (IF pc[c] \in {"mirror_model", "mirror"}
                               THEN {mirror \cup {Object(c)}} ELSE {})
  /\ Throw(c)
  /\ Hurt(c)
  /\ UNCHANGED <<registry, now, job, work, primary>>

\* A hosted runner keeps no local store once its commands have stopped.
Teardown ==
  /\ Ephemeral /\ primary # {}
  /\ \A c \in Commands : pc[c] \in Stopped \cup {"idle"}
  /\ primary' = {}
  /\ UNCHANGED <<registry, now, pc, job, work, mirror, faults, hurt>>

Step(c) ==
  \/ Call(c) \/ Refused(c) \/ Return(c) \/ Collided(c)
  \/ Score(c) \/ Match(c) \/ PutPrimary(c) \/ PutMirror(c)

Fault(c) == Outage(c) \/ LostReply(c) \/ Crash(c) \/ Failed(c)

Next ==
  \/ \E c \in Commands :
       \/ \E b \in Bundles, t \in Moments : Launch(c, b, t)
       \/ Step(c)
       \/ Fault(c)
  \/ Tick \/ Teardown

\* A launched command runs on; nothing makes anyone launch one.
Spec == Init /\ [][Next]_vars /\ \A c \in Commands : WF_vars(Step(c))

-----------------------------------------------------------------------------
(* Properties                                                              *)

Objects == Commands \cup {"model"}

\* Each command is in a phase of the workflow, with arguments once it is
\* launched, and the stores hold objects that a command writes.
TypeOK ==
  /\ now \in 0 .. MaxTime
  /\ pc \in [Commands -> Phases]
  /\ \A c \in Commands :
       IF pc[c] = "idle" THEN job[c] = None
       ELSE job[c].bundle \in Bundles /\ job[c].as_of \in Moments
  /\ \A c \in Commands : work[c].rows \subseteq Drafts \cup LabelDrafts
  /\ \A c \in Commands : work[c].checks \subseteq CheckDrafts
  /\ primary \subseteq Objects /\ mirror \subseteq Objects
  /\ faults \in 0 .. MaxFaults
  /\ hurt \in [Commands -> SUBSET DOMAIN After]

Succeeded(c) == runs[c].status = "succeeded"

\* A run is reported succeeded only when its evidence batch is referenced in the
\* registry and its bytes are in the durable mirror, whatever failed before.
SuccessIsEvidenced ==
  \A c \in Commands : Succeeded(c) =>
    /\ \E a \in artifacts : a.run = c /\ a.sha = c
    /\ c \in mirror

\* What the forecast evidence of a successful run lists is what the registry
\* holds, even for the rows an earlier attempt wrote; and it omits no row of its
\* own run.
ForecastEvidenceAgrees ==
  \A c \in Forecasting : Succeeded(c) =>
    /\ \A d \in work[c].rows : \E f \in forecasts :
         /\ f.draft = d /\ f.dataset = job[c].bundle.id
         /\ Reg!ForecastId(f) = <<Model.id, d.event, job[c].as_of>>
    /\ \A f \in forecasts : f.run = c => f.draft \in work[c].rows

\* The same for settlements: of two that read the same pending forecast from
\* different datasets, the later one never publishes an outcome the registry
\* does not hold.
SettlementEvidenceAgrees ==
  \A c \in Settling : Succeeded(c) =>
    /\ \A d \in work[c].rows : \E l \in labels : l.draft = d
    /\ \A l \in labels : l.run = c => l.draft \in work[c].rows

EvidenceAgrees == ForecastEvidenceAgrees /\ SettlementEvidenceAgrees

\* A command that returns has a succeeded run; one that raises leaves a run
\* behind as running or succeeded only if the environment failed the very call
\* that would have told: start_run or fail_run, or complete_run.
ExitTellsOutcome ==
  \A c \in Commands :
    /\ pc[c] = "done" => Succeeded(c)
    /\ pc[c] = "raised" =>
         /\ Reg!Running(c) => hurt[c] \cap {"start", "failing"} # {}
         /\ Succeeded(c) => "complete" \in hurt[c]

\* After a failed mirror write the run is marked failed only once the primary
\* reference is recorded for the reconciler, unless recording it failed too.
PartialIsReferenced ==
  \A c \in Commands :
    runs[c].status = "failed" /\ "mirror" \in hurt[c] /\ "partial" \notin hurt[c] =>
      \E a \in artifacts : a.run = c /\ a.sha = c

\* The exit code of a command tells the outcome that the registry recorded, whatever
\* failed in its handlers, and evidence that is stored only in part stays referenced.
OutcomesAreTold == ExitTellsOutcome /\ PartialIsReferenced

RowsOf(table, c) == {x \in table : x.run = c}

\* Once a run has its outcome, none of its evidence rows is added any more: the
\* registry allows it to a racing transaction, the order of the calls does not.
OutcomeSealsRun ==
  [][\A c \in Commands : runs[c].status \in {"succeeded", "failed"} =>
       /\ RowsOf(forecasts', c) = RowsOf(forecasts, c)
       /\ RowsOf(labels', c) = RowsOf(labels, c)
       /\ RowsOf(checks', c) = RowsOf(checks, c)
       /\ RowsOf(artifacts', c) = RowsOf(artifacts, c)]_vars

\* Every launched command stops, through whatever handler.
CommandsStop ==
  \A c \in Commands : pc[c] # "idle" ~> pc[c] \in Stopped

\* docs/forward-testing.md: "every forecast is recorded before its entry time".
RecordedBeforeEntry ==
  [][\A f \in forecasts' \ forecasts : now < f.draft.entry]_vars

=============================================================================
