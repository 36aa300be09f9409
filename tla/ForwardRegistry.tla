--------------------------- MODULE ForwardRegistry ---------------------------
(***************************************************************************)
(* The prospective-evidence registry: the tables of forward/models.py and  *)
(* the methods of forward/registry.py that write them.                     *)
(*                                                                         *)
(* Every method of ForwardRegistry is one database transaction             *)
(* (RegistryDatabase.session).  It first reads what it needs to decide,    *)
(* raises without writing when a rule is broken, and otherwise inserts     *)
(* rows that become visible when the transaction commits.  Nothing locks   *)
(* what was read, so another session may commit between the two halves.    *)
(* A call is therefore two steps here: an opening step, which takes the    *)
(* decisions and stages the rows in tx[s], and a commit step, where only   *)
(* the database's own constraints and triggers can still refuse.           *)
(*                                                                         *)
(* Hashes are the values they identify: two payloads have the same hash    *)
(* exactly when they are equal, and a content-derived key is its content.  *)
(***************************************************************************)
EXTENDS Naturals, FiniteSets

CONSTANTS
  Sessions,         \* database sessions that may be open at the same time
  Runs,             \* run ids
  None,             \* the SQL NULL of an optional reference
  DatasetRequests,  \* DatasetRegistration values: [id, manifest]
  ModelRequests,    \* ModelRegistration values: [id, training, identity]
  RunRequests,      \* RunRegistration values: [type, as_of, dataset, model, parent]
  ForecastBatches,  \* sets of ForecastDraft values: [event, accepted, entry, horizon, score]
  LabelBatches,     \* sets of LabelDraft values: [forecast, dataset, value, matured]
  CheckBatches,     \* sets of QualityCheckDraft values: [name, status]
  ArtifactRequests  \* [kind, sha, uri]

VARIABLES
  datasets,   \* forward_datasets: rows [id, manifest]
  models,     \* forward_models: rows [id, training, identity]
  runs,       \* forward_runs: a row per registered id, Absent for the others
  forecasts,  \* forward_forecasts: rows [run, model, dataset, as_of, draft]
  labels,     \* forward_labels: rows [run, draft]
  checks,     \* forward_data_quality_checks: rows [run, draft]
  artifacts,  \* forward_artifacts: rows [run, kind, sha, uri]
  audit,      \* forward_audit_events: <<action, entity>>
  tx          \* the transaction each session has open

tables == <<datasets, models, runs, forecasts, labels, checks, artifacts, audit>>
vars   == <<datasets, models, runs, forecasts, labels, checks, artifacts, audit, tx>>

-----------------------------------------------------------------------------
(* Rows and keys                                                           *)

RunTypes    == {"forecast", "settlement", "backfill", "verification"}
RunStatuses == {"running", "succeeded", "failed"}

DatasetIds == {d.id : d \in DatasetRequests}
ModelIds   == {m.id : m \in ModelRequests}

ForecastDrafts == UNION ForecastBatches
LabelDrafts    == UNION LabelBatches
CheckDrafts    == UNION CheckBatches

Absent  == [status |-> "absent"]
RunRows == [request : RunRequests, status : RunStatuses]

\* The stable id of a forecast: _stable_id("forecast", model, event, as_of).
ForecastId(f) == <<f.model, f.draft.event, f.as_of>>

ForecastPayloadScored(f) == f.draft  \* mutant: the hash leaves out the dataset

\* What the payload hash of a forecast covers beyond its id: the run is left out.
ForecastPayload(f) == <<f.dataset, f.draft>>

ForecastRows ==
  [run : Runs, model : ModelIds, dataset : DatasetIds,
   as_of : {q.as_of : q \in RunRequests}, draft : ForecastDrafts]
LabelRows    == [run : Runs, draft : LabelDrafts]
CheckRows    == [run : Runs, draft : CheckDrafts]
ArtifactRows == [run : Runs, kind : {a.kind : a \in ArtifactRequests},
                 sha : {a.sha : a \in ArtifactRequests},
                 uri : {a.uri : a \in ArtifactRequests}]

Idle == [op |-> "none", run |-> None, rows |-> {}]

RegistryAssumption ==
  /\ None \notin Runs \cup DatasetIds \cup ModelIds
  /\ \A m \in ModelRequests : m.training \in DatasetIds
  /\ RunRequests \subseteq
       [type : RunTypes, as_of : Nat, dataset : DatasetIds \cup {None},
        model : ModelIds \cup {None}, parent : Runs \cup {None}]
  /\ \A d \in ForecastDrafts : d.accepted \in Nat /\ d.entry \in Nat /\ d.horizon \in Nat
  /\ \A l \in LabelDrafts : l.matured \in Nat

ASSUME RegistryAssumption

Init ==
  /\ datasets = {} /\ models = {} /\ forecasts = {} /\ labels = {}
  /\ checks = {} /\ artifacts = {} /\ audit = {}
  /\ runs = [r \in Runs |-> Absent]
  /\ tx = [s \in Sessions |-> Idle]

-----------------------------------------------------------------------------
(* Opening steps: the reads and decisions of each method                   *)

Registered(table, id) == \E row \in table : row.id = id

\* _require_optional_reference for a dataset or a model.
OptionalReference(table, id) == id \in {None} \cup {row.id : row \in table}

\* _require_running_run without and with an expected type.
Running(r) == runs[r].status = "running"
RunningAs(r, type) == Running(r) /\ runs[r].request.type = type

Open(s, op, r, rows) ==
  /\ tx[s] = Idle
  /\ tx' = [tx EXCEPT ![s] = [op |-> op, run |-> r, rows |-> rows]]
  /\ UNCHANGED tables

\* Registration is idempotent on an equal payload and refuses any other one.
Admitted(table, row) == \A x \in table : x.id = row.id => x = row

RegisterDataset(s, d) ==
  /\ Admitted(datasets, d)
  /\ Open(s, "dataset", None, {d} \ datasets)

RegisterModel(s, m) ==
  /\ Registered(datasets, m.training)
  /\ Admitted(models, m)
  /\ Open(s, "model", None, {m} \ models)

MayStart(r, q) ==
  /\ runs[r] = Absent
  /\ OptionalReference(datasets, q.dataset)
  /\ OptionalReference(models, q.model)
  /\ q.parent \in {None} \cup {p \in Runs : runs[p] # Absent}

StartRun(s, r, q) == MayStart(r, q) /\ Open(s, "start", r, {q})

CompleteRun(s, r) == Running(r) /\ Open(s, "succeeded", r, {})

FailRun(s, r) == Running(r) /\ Open(s, "failed", r, {})

ProspectiveAtEntry(d, as_of) ==  \* mutant: the entry may be the as-of itself
  d.accepted <= as_of /\ d.entry >= as_of /\ d.horizon > as_of

\* The three refusals of append_forecasts, on the run's own as-of.
Prospective(d, as_of) ==
  /\ d.accepted <= as_of
  /\ d.entry > as_of
  /\ d.horizon > as_of

ForecastRow(r, d) ==
  LET q == runs[r].request
  IN  [run |-> r, model |-> q.model, dataset |-> q.dataset, as_of |-> q.as_of, draft |-> d]

\* No two different payloads for one key, in the table or inside the batch.
Consistent(rows, table, Key(_), Payload(_)) ==
  \A x \in rows : \A y \in rows \cup table : Key(x) = Key(y) => Payload(x) = Payload(y)

Fresh(rows, table, Key(_)) == {x \in rows : \A y \in table : Key(y) # Key(x)}

ForecastBatch(r, batch) == {ForecastRow(r, d) : d \in batch}

MayAppend(r, batch) ==
  /\ RunningAs(r, "forecast")
  /\ runs[r].request.model # None /\ runs[r].request.dataset # None
  /\ \A d \in batch : Prospective(d, runs[r].request.as_of)
  /\ Consistent(ForecastBatch(r, batch), forecasts, ForecastId, ForecastPayload)

AppendForecasts(s, r, batch) ==
  /\ MayAppend(r, batch)
  /\ Open(s, "forecasts", r, Fresh(ForecastBatch(r, batch), forecasts, ForecastId))

LabelKey(l) == l.draft.forecast

LabelPayload(l) == l.draft

SettlesEarly(l, as_of) ==  \* mutant: the forecast's own horizon is not compared
  /\ \E f \in forecasts : ForecastId(f) = l.forecast
  /\ l.matured <= as_of
  /\ Registered(datasets, l.dataset)

\* The refusals of settle_labels for one draft.
Settles(l, as_of) ==
  /\ \E f \in forecasts : ForecastId(f) = l.forecast /\ f.draft.horizon <= as_of
  /\ l.matured <= as_of
  /\ Registered(datasets, l.dataset)

\* The rows of a run for drafts that say everything else.
Drafted(r, batch) == {[run |-> r, draft |-> d] : d \in batch}

MaySettle(r, batch) ==
  /\ RunningAs(r, "settlement")
  /\ \A l \in batch : Settles(l, runs[r].request.as_of)
  /\ Consistent(Drafted(r, batch), labels, LabelKey, LabelPayload)

SettleLabels(s, r, batch) ==
  MaySettle(r, batch) /\ Open(s, "labels", r, Fresh(Drafted(r, batch), labels, LabelKey))

CheckKey(c)     == <<c.run, c.draft.name>>
CheckPayload(c) == c.draft

MayCheck(r, batch) ==
  Running(r) /\ Consistent(Drafted(r, batch), checks, CheckKey, CheckPayload)

AddQualityChecks(s, r, batch) ==
  MayCheck(r, batch) /\ Open(s, "checks", r, Fresh(Drafted(r, batch), checks, CheckKey))

\* The content-derived artifact_id: the location is payload, not identity.
ArtifactKey(a) == <<a.run, a.kind, a.sha>>
ArtifactUri(a) == a.uri

Reference(r, a) == [run |-> r, kind |-> a.kind, sha |-> a.sha, uri |-> a.uri]

\* Only the run's existence is required: a failed run may still gain a reference.
MayReference(r, a) ==
  runs[r] # Absent /\ Consistent({Reference(r, a)}, artifacts, ArtifactKey, ArtifactUri)

RegisterArtifact(s, r, a) ==
  MayReference(r, a) /\ Open(s, "artifact", r, Fresh({Reference(r, a)}, artifacts, ArtifactKey))

-----------------------------------------------------------------------------
(* Commit steps: constraints, triggers and the audit event of the method   *)

Close(s) == tx' = [tx EXCEPT ![s] = Idle]

Staged(s, op) == tx[s].op = op

\* A UNIQUE or PRIMARY KEY constraint over Key.
Unique(rows, table, Key(_)) == \A x \in rows, y \in table : Key(x) # Key(y)

DatasetKey(d)      == d.id
DatasetManifest(d) == d.manifest
ModelKey(m)        == m.id
ModelIdentity(m)   == m.identity

\* The constraints of the tables, and the trigger forward_protect_run: an outcome is
\* recorded once, on a running row.
Fits(s) ==
  LET rows == tx[s].rows
  IN  CASE Staged(s, "dataset")   -> /\ Unique(rows, datasets, DatasetKey)
                                     /\ Unique(rows, datasets, DatasetManifest)
        [] Staged(s, "model")     -> /\ Unique(rows, models, ModelKey)
                                     /\ Unique(rows, models, ModelIdentity)
        [] Staged(s, "start")     -> runs[tx[s].run] = Absent
        [] Staged(s, "succeeded") \/ Staged(s, "failed") -> Running(tx[s].run)
        [] Staged(s, "forecasts") -> Unique(rows, forecasts, ForecastId)
        [] Staged(s, "labels")    -> Unique(rows, labels, LabelKey)
        [] Staged(s, "checks")    -> Unique(rows, checks, CheckKey)
        [] Staged(s, "artifact")  -> Unique(rows, artifacts, ArtifactKey)

CommitDataset(s) ==
  /\ Staged(s, "dataset") /\ Fits(s)
  /\ datasets' = datasets \cup tx[s].rows
  /\ audit' = audit \cup {<<"dataset.registered", d.id>> : d \in tx[s].rows}
  /\ Close(s)
  /\ UNCHANGED <<models, runs, forecasts, labels, checks, artifacts>>

CommitModel(s) ==
  /\ Staged(s, "model") /\ Fits(s)
  /\ models' = models \cup tx[s].rows
  /\ audit' = audit \cup {<<"model.registered", m.id>> : m \in tx[s].rows}
  /\ Close(s)
  /\ UNCHANGED <<datasets, runs, forecasts, labels, checks, artifacts>>

CommitStartUnaudited(s) ==  \* mutant: the audit event is left to a later transaction
  /\ Staged(s, "start")
  /\ runs[tx[s].run] = Absent
  /\ \E q \in tx[s].rows :
       runs' = [runs EXCEPT ![tx[s].run] = [request |-> q, status |-> "running"]]
  /\ Close(s)
  /\ UNCHANGED <<datasets, models, forecasts, labels, checks, artifacts, audit>>

CommitStart(s) ==
  LET r == tx[s].run
  IN  /\ Staged(s, "start") /\ Fits(s)
      /\ \E q \in tx[s].rows :
           runs' = [runs EXCEPT ![r] = [request |-> q, status |-> "running"]]
      /\ audit' = audit \cup {<<"run.started", r>>}
      /\ Close(s)
      /\ UNCHANGED <<datasets, models, forecasts, labels, checks, artifacts>>

CommitOutcomeAgain(s) ==  \* mutant: without the trigger the second outcome wins
  /\ tx[s].op \in {"succeeded", "failed"}
  /\ runs' = [runs EXCEPT ![tx[s].run].status = tx[s].op]
  /\ audit' = audit \cup {<<tx[s].op, tx[s].run>>}
  /\ Close(s)
  /\ UNCHANGED <<datasets, models, forecasts, labels, checks, artifacts>>

CommitOutcome(s) ==
  LET r == tx[s].run
  IN  /\ tx[s].op \in {"succeeded", "failed"} /\ Fits(s)
      /\ runs' = [runs EXCEPT ![r].status = tx[s].op]
      /\ audit' = audit \cup {<<tx[s].op, r>>}
      /\ Close(s)
      /\ UNCHANGED <<datasets, models, forecasts, labels, checks, artifacts>>

CommitForecastsUnconstrained(s) ==  \* mutant: no uq_forward_forecast_observation
  /\ Staged(s, "forecasts")
  /\ forecasts' = forecasts \cup tx[s].rows
  /\ audit' = audit \cup {<<"forecast.batch_appended", tx[s].run>>}
  /\ Close(s)
  /\ UNCHANGED <<datasets, models, runs, labels, checks, artifacts>>

CommitForecasts(s) ==
  /\ Staged(s, "forecasts") /\ Fits(s)
  /\ forecasts' = forecasts \cup tx[s].rows
  /\ audit' = audit \cup {<<"forecast.batch_appended", tx[s].run>>}
  /\ Close(s)
  /\ UNCHANGED <<datasets, models, runs, labels, checks, artifacts>>

CommitLabelsUnconstrained(s) ==  \* mutant: forecast_id is not unique
  /\ Staged(s, "labels")
  /\ labels' = labels \cup tx[s].rows
  /\ audit' = audit \cup {<<"label.batch_appended", tx[s].run>>}
  /\ Close(s)
  /\ UNCHANGED <<datasets, models, runs, forecasts, checks, artifacts>>

CommitLabels(s) ==
  /\ Staged(s, "labels") /\ Fits(s)
  /\ labels' = labels \cup tx[s].rows
  /\ audit' = audit \cup {<<"label.batch_appended", tx[s].run>>}
  /\ Close(s)
  /\ UNCHANGED <<datasets, models, runs, forecasts, checks, artifacts>>

CommitChecks(s) ==
  /\ Staged(s, "checks") /\ Fits(s)
  /\ checks' = checks \cup tx[s].rows
  /\ audit' = audit \cup {<<"quality.batch_appended", tx[s].run>>}
  /\ Close(s)
  /\ UNCHANGED <<datasets, models, runs, forecasts, labels, artifacts>>

CommitArtifact(s) ==
  /\ Staged(s, "artifact") /\ Fits(s)
  /\ artifacts' = artifacts \cup tx[s].rows
  /\ audit' = audit \cup {<<"artifact.registered", a>> : a \in tx[s].rows}
  /\ Close(s)
  /\ UNCHANGED <<datasets, models, runs, forecasts, labels, checks>>

\* RegistryDatabase.session on any exception: a broken constraint, a trigger,
\* a lost connection or the death of the client.
Rollback(s) ==
  /\ tx[s] # Idle
  /\ Close(s)
  /\ UNCHANGED tables

Commit(s) ==
  \/ CommitDataset(s)   \/ CommitModel(s)
  \/ CommitStart(s)     \/ CommitOutcome(s)
  \/ CommitForecasts(s) \/ CommitLabels(s)
  \/ CommitChecks(s)    \/ CommitArtifact(s)

OpenAny(s) ==
  \/ \E d \in DatasetRequests : RegisterDataset(s, d)
  \/ \E m \in ModelRequests : RegisterModel(s, m)
  \/ \E r \in Runs :
       \/ \E q \in RunRequests : StartRun(s, r, q)
       \/ CompleteRun(s, r)
       \/ FailRun(s, r)
       \/ \E batch \in ForecastBatches : AppendForecasts(s, r, batch)
       \/ \E batch \in LabelBatches : SettleLabels(s, r, batch)
       \/ \E batch \in CheckBatches : AddQualityChecks(s, r, batch)
       \/ \E a \in ArtifactRequests : RegisterArtifact(s, r, a)

Next == \E s \in Sessions : OpenAny(s) \/ Commit(s) \/ Rollback(s)

Spec == Init /\ [][Next]_vars
-----------------------------------------------------------------------------
(* Properties                                                              *)

StagedRows(op) ==
  CASE op = "dataset"   -> DatasetRequests
    [] op = "model"     -> ModelRequests
    [] op = "start"     -> RunRequests
    [] op = "forecasts" -> ForecastRows
    [] op = "labels"    -> LabelRows
    [] op = "checks"    -> CheckRows
    [] op = "artifact"  -> ArtifactRows
    [] OTHER            -> {}

RunOps == {"start", "succeeded", "failed", "forecasts", "labels", "checks", "artifact"}
Ops    == {"none", "dataset", "model"} \cup RunOps

TablesOK ==
  /\ datasets \subseteq DatasetRequests
  /\ models \subseteq ModelRequests
  /\ runs \in [Runs -> RunRows \cup {Absent}]
  /\ forecasts \subseteq ForecastRows
  /\ labels \subseteq LabelRows
  /\ checks \subseteq CheckRows
  /\ artifacts \subseteq ArtifactRows

TransactionOK(t) ==
  /\ t.op \in Ops
  /\ t.run \in (IF t.op \in RunOps THEN Runs ELSE {None})
  /\ t.rows \subseteq StagedRows(t.op)
  /\ t = [op |-> t.op, run |-> t.run, rows |-> t.rows]

\* The tables hold rows of their type, and every open transaction has staged
\* rows of the table it writes (models.py).
TypeOK ==
  /\ TablesOK
  /\ DOMAIN tx = Sessions
  /\ \A s \in Sessions : TransactionOK(tx[s])

\* Whatever sessions race, an identity has one row: the reads of the methods do
\* not lock, so this rests on the staged batch and the constraints together.
OneRowPer(table, Key(_)) == \A x, y \in table : Key(x) = Key(y) => x = y

OneForecastOneLabel == OneRowPer(forecasts, ForecastId) /\ OneRowPer(labels, LabelKey)

\* The same for the registered identities and for the checks and the artifact
\* references of a run.
OneRegistration ==
  /\ OneRowPer(datasets, DatasetKey) /\ OneRowPer(datasets, DatasetManifest)
  /\ OneRowPer(models, ModelKey) /\ OneRowPer(models, ModelIdentity)
  /\ OneRowPer(checks, CheckKey) /\ OneRowPer(artifacts, ArtifactKey)

\* A stored forecast belongs to a forecast run that names the same model,
\* dataset and as-of, and was scored after the filing was public and before its
\* entry and its horizon: the integrity rule start_run writes down.
ProspectiveRow(f) ==
  /\ runs[f.run] # Absent
  /\ LET q == runs[f.run].request
     IN  /\ q.type = "forecast"
         /\ <<q.model, q.dataset, q.as_of>> = <<f.model, f.dataset, f.as_of>>
  /\ f.draft.accepted <= f.as_of
  /\ f.as_of < f.draft.entry
  /\ f.as_of < f.draft.horizon

PointInTime == \A f \in forecasts : ProspectiveRow(f)

\* A label settles a stored forecast from a registered dataset, and the
\* settlement's as-of is not before the forecast's horizon or the label's own
\* maturity.  With PointInTime the settlement is later than the forecast.
MaturedRow(l) ==
  /\ runs[l.run] # Absent
  /\ LET q == runs[l.run].request
     IN  /\ q.type = "settlement"
         /\ l.draft.matured <= q.as_of
         /\ \E f \in forecasts :
              /\ ForecastId(f) = l.draft.forecast
              /\ f.draft.horizon <= q.as_of
              /\ f.as_of < q.as_of
  /\ Registered(datasets, l.draft.dataset)

LabelsMature == \A l \in labels : MaturedRow(l)

\* Every evidence row and every run transition has its audit event: the event is
\* written by the same transaction, never before or after it.
AuditTrail ==
  /\ \A d \in datasets : <<"dataset.registered", d.id>> \in audit
  /\ \A m \in models : <<"model.registered", m.id>> \in audit
  /\ \A r \in Runs :
       /\ (runs[r] # Absent) <=> (<<"run.started", r>> \in audit)
       /\ \A outcome \in {"succeeded", "failed"} :
            (runs[r].status = outcome) <=> (<<outcome, r>> \in audit)
  /\ \A f \in forecasts : <<"forecast.batch_appended", f.run>> \in audit
  /\ \A l \in labels : <<"label.batch_appended", l.run>> \in audit
  /\ \A c \in checks : <<"quality.batch_appended", c.run>> \in audit
  /\ \A a \in artifacts : <<"artifact.registered", a>> \in audit

Appends ==
  /\ datasets \subseteq datasets' /\ models \subseteq models'
  /\ forecasts \subseteq forecasts' /\ labels \subseteq labels'
  /\ checks \subseteq checks' /\ artifacts \subseteq artifacts'
  /\ audit \subseteq audit'
  /\ \A r \in Runs :
       /\ runs[r] # Absent => runs'[r] # Absent /\ runs'[r].request = runs[r].request
       /\ runs[r].status \in {"succeeded", "failed"} => runs'[r] = runs[r]

\* No committed row is ever changed or removed, a run keeps what it was started
\* with, and its outcome is recorded once (ADR 0016, immutability.py).
AppendOnly == [][Appends]_vars

Predictions ==
  {[id |-> ForecastId(f), made |-> f.as_of, horizon |-> f.draft.horizon,
    claim |-> ForecastPayload(f)] : f \in forecasts}

Outcomes ==
  {[id |-> LabelKey(l), at |-> runs[l.run].request.as_of, value |-> LabelPayload(l)] :
   l \in labels}

Ledger == INSTANCE ProspectiveLedger WITH predictions <- Predictions, outcomes <- Outcomes

\* The forecast and label tables implement the prospective ledger.
ImplementsLedger == Ledger!Spec
=============================================================================
