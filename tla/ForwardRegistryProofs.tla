------------------------ MODULE ForwardRegistryProofs ------------------------
(***************************************************************************)
(* Proofs about ForwardRegistry, for every set of sessions, runs, requests *)
(* and batches.                                                            *)
(***************************************************************************)
EXTENDS ForwardRegistry, TLAPS

-----------------------------------------------------------------------------
(* Type correctness                                                        *)

LEMMA IdleTyped == TransactionOK(Idle)
BY DEF TransactionOK, Idle, Ops, RunOps

\* A transaction that stages rows of the table it writes keeps the types.
LEMMA OpenTyped ==
  ASSUME TypeOK, NEW s \in Sessions, NEW op \in Ops,
         NEW r \in (IF op \in RunOps THEN Runs ELSE {None}),
         NEW rows \in SUBSET StagedRows(op), Open(s, op, r, rows)
  PROVE  TypeOK'
<1>1. TablesOK'
  BY DEF TypeOK, TablesOK, Open, tables
<1>2. DOMAIN tx' = Sessions /\ \A x \in Sessions \ {s} : tx'[x] = tx[x]
  BY DEF TypeOK, Open
<1>3. tx'[s] = [op |-> op, run |-> r, rows |-> rows]
  BY DEF TypeOK, Open
<1>4. TransactionOK(tx'[s])
  BY <1>3 DEF TransactionOK
<1>5. \A x \in Sessions : TransactionOK(tx'[x])
  BY <1>2, <1>4 DEF TypeOK
<1>6. (\A x \in Sessions : TransactionOK(tx[x]))'
  BY <1>5 DEF TransactionOK, StagedRows
<1> QED
  BY <1>1, <1>2, <1>6 DEF TypeOK

LEMMA CloseTyped ==
  ASSUME TypeOK, NEW s \in Sessions, Close(s)
  PROVE  DOMAIN tx' = Sessions /\ (\A x \in Sessions : TransactionOK(tx[x]))'
<1>1. DOMAIN tx' = Sessions /\ \A x \in Sessions : tx'[x] \in {Idle, tx[x]}
  BY DEF TypeOK, Close
<1>2. \A x \in Sessions : TransactionOK(tx'[x])
  BY <1>1, IdleTyped DEF TypeOK
<1> QED
  BY <1>1, <1>2 DEF TransactionOK, StagedRows

\* What the opening steps stage, by table.
LEMMA StagedCases ==
  /\ StagedRows("none") = {} /\ StagedRows("succeeded") = {} /\ StagedRows("failed") = {}
  /\ StagedRows("dataset") = DatasetRequests
  /\ StagedRows("model") = ModelRequests
  /\ StagedRows("start") = RunRequests
  /\ StagedRows("forecasts") = ForecastRows
  /\ StagedRows("labels") = LabelRows
  /\ StagedRows("checks") = CheckRows
  /\ StagedRows("artifact") = ArtifactRows
BY DEF StagedRows

\* What the constraints and the trigger ask of a commit, by table.
LEMMA FitsCases ==
  ASSUME NEW s, Fits(s)
  PROVE  /\ Staged(s, "dataset") => /\ Unique(tx[s].rows, datasets, DatasetKey)
                                    /\ Unique(tx[s].rows, datasets, DatasetManifest)
         /\ Staged(s, "model") => /\ Unique(tx[s].rows, models, ModelKey)
                                  /\ Unique(tx[s].rows, models, ModelIdentity)
         /\ Staged(s, "start") => runs[tx[s].run] = Absent
         /\ tx[s].op \in {"succeeded", "failed"} => Running(tx[s].run)
         /\ Staged(s, "forecasts") => Unique(tx[s].rows, forecasts, ForecastId)
         /\ Staged(s, "labels") => Unique(tx[s].rows, labels, LabelKey)
         /\ Staged(s, "checks") => Unique(tx[s].rows, checks, CheckKey)
         /\ Staged(s, "artifact") => Unique(tx[s].rows, artifacts, ArtifactKey)
BY DEF Fits, Staged

LEMMA ForecastRowTyped ==
  ASSUME TypeOK, NEW r \in Runs, RunningAs(r, "forecast"),
         runs[r].request.model # None, runs[r].request.dataset # None,
         NEW d \in ForecastDrafts
  PROVE  ForecastRow(r, d) \in ForecastRows
<1>1. runs[r] \in RunRows
  BY DEF TypeOK, TablesOK, RunningAs, Running, Absent
<1>2. runs[r].request \in RunRequests
  BY <1>1 DEF RunRows
<1>3. runs[r].request.model \in ModelIds /\ runs[r].request.dataset \in DatasetIds
  BY <1>2, RegistryAssumption DEF RegistryAssumption
<1> QED
  BY <1>2, <1>3 DEF ForecastRow, ForecastRows

LEMMA OpenAnyTyped ==
  ASSUME TypeOK, NEW s \in Sessions, OpenAny(s)
  PROVE  TypeOK'
<1>1. ASSUME NEW d \in DatasetRequests, RegisterDataset(s, d) PROVE TypeOK'
  BY <1>1, OpenTyped, StagedCases DEF RegisterDataset, Ops, RunOps
<1>2. ASSUME NEW m \in ModelRequests, RegisterModel(s, m) PROVE TypeOK'
  BY <1>2, OpenTyped, StagedCases DEF RegisterModel, Ops, RunOps
<1> SUFFICES ASSUME NEW r \in Runs,
      \/ \E q \in RunRequests : StartRun(s, r, q)
      \/ CompleteRun(s, r)
      \/ FailRun(s, r)
      \/ \E batch \in ForecastBatches : AppendForecasts(s, r, batch)
      \/ \E batch \in LabelBatches : SettleLabels(s, r, batch)
      \/ \E batch \in CheckBatches : AddQualityChecks(s, r, batch)
      \/ \E a \in ArtifactRequests : RegisterArtifact(s, r, a)
    PROVE TypeOK'
  BY <1>1, <1>2 DEF OpenAny
<1>3. ASSUME NEW q \in RunRequests, StartRun(s, r, q) PROVE TypeOK'
  BY <1>3, OpenTyped, StagedCases DEF StartRun, Ops, RunOps
<1>4. CASE CompleteRun(s, r)
  BY <1>4, OpenTyped, StagedCases DEF CompleteRun, Ops, RunOps
<1>5. CASE FailRun(s, r)
  BY <1>5, OpenTyped, StagedCases DEF FailRun, Ops, RunOps
<1>6. ASSUME NEW batch \in ForecastBatches, AppendForecasts(s, r, batch) PROVE TypeOK'
  <2> DEFINE rows == {ForecastRow(r, d) : d \in batch}
  <2>1. batch \subseteq ForecastDrafts
    BY DEF ForecastDrafts
  <2>2. rows \subseteq ForecastRows
    BY <1>6, <2>1, ForecastRowTyped DEF AppendForecasts, MayAppend
  <2>3. Fresh(rows, forecasts, ForecastId) \subseteq StagedRows("forecasts")
    BY <2>2, StagedCases DEF Fresh
  <2>4. Open(s, "forecasts", r, Fresh(rows, forecasts, ForecastId))
    BY <1>6 DEF AppendForecasts, ForecastBatch
  <2> QED
    BY <2>3, <2>4, OpenTyped DEF Ops, RunOps
<1>7. ASSUME NEW batch \in LabelBatches, SettleLabels(s, r, batch) PROVE TypeOK'
  <2> DEFINE rows == {[run |-> r, draft |-> l] : l \in batch}
  <2>1. rows \subseteq LabelRows
    BY DEF LabelRows, LabelDrafts
  <2>2. Fresh(rows, labels, LabelKey) \subseteq StagedRows("labels")
    BY <2>1, StagedCases DEF Fresh
  <2>3. Open(s, "labels", r, Fresh(rows, labels, LabelKey))
    BY <1>7 DEF SettleLabels, Drafted
  <2> QED
    BY <2>2, <2>3, OpenTyped DEF Ops, RunOps
<1>8. ASSUME NEW batch \in CheckBatches, AddQualityChecks(s, r, batch) PROVE TypeOK'
  <2> DEFINE rows == {[run |-> r, draft |-> c] : c \in batch}
  <2>1. rows \subseteq CheckRows
    BY DEF CheckRows, CheckDrafts
  <2>2. Fresh(rows, checks, CheckKey) \subseteq StagedRows("checks")
    BY <2>1, StagedCases DEF Fresh
  <2>3. Open(s, "checks", r, Fresh(rows, checks, CheckKey))
    BY <1>8 DEF AddQualityChecks, Drafted
  <2> QED
    BY <2>2, <2>3, OpenTyped DEF Ops, RunOps
<1>9. ASSUME NEW a \in ArtifactRequests, RegisterArtifact(s, r, a) PROVE TypeOK'
  <2> DEFINE rows == {[run |-> r, kind |-> a.kind, sha |-> a.sha, uri |-> a.uri]}
  <2>1. rows \subseteq ArtifactRows
    BY DEF ArtifactRows
  <2>2. Fresh(rows, artifacts, ArtifactKey) \subseteq StagedRows("artifact")
    BY <2>1, StagedCases DEF Fresh
  <2>3. Open(s, "artifact", r, Fresh(rows, artifacts, ArtifactKey))
    BY <1>9 DEF RegisterArtifact, Reference
  <2> QED
    BY <2>2, <2>3, OpenTyped DEF Ops, RunOps
<1> QED
  BY <1>3, <1>4, <1>5, <1>6, <1>7, <1>8, <1>9

LEMMA CommitTyped ==
  ASSUME TypeOK, NEW s \in Sessions, Commit(s) \/ Rollback(s)
  PROVE  TypeOK'
<1> SUFFICES TablesOK'
  BY CloseTyped DEF TypeOK, Commit, Rollback, CommitDataset, CommitModel, CommitStart,
     CommitOutcome, CommitForecasts, CommitLabels, CommitChecks, CommitArtifact
<1>1. TransactionOK(tx[s])
  BY DEF TypeOK
<1> USE <1>1, StagedCases DEF TypeOK, TablesOK, TransactionOK, Staged
<1>2. CASE CommitDataset(s)   BY <1>2 DEF CommitDataset
<1>3. CASE CommitModel(s)     BY <1>3 DEF CommitModel
<1>4. CASE CommitStart(s)
  <2>1. tx[s].run \in Runs /\ tx[s].rows \subseteq RunRequests
    BY <1>4 DEF CommitStart, RunOps
  <2> QED
    BY <1>4, <2>1 DEF CommitStart, RunRows, RunStatuses
<1>5. CASE CommitOutcome(s)
  <2>1. tx[s].run \in Runs /\ runs[tx[s].run] \in RunRows
    BY <1>5, FitsCases DEF CommitOutcome, RunOps, Running, Absent
  <2> QED
    BY <1>5, <2>1 DEF CommitOutcome, RunRows, RunStatuses
<1>6. CASE CommitForecasts(s) BY <1>6 DEF CommitForecasts
<1>7. CASE CommitLabels(s)    BY <1>7 DEF CommitLabels
<1>8. CASE CommitChecks(s)    BY <1>8 DEF CommitChecks
<1>9. CASE CommitArtifact(s)  BY <1>9 DEF CommitArtifact
<1>10. CASE Rollback(s)       BY <1>10 DEF Rollback, tables
<1> QED
  BY <1>2, <1>3, <1>4, <1>5, <1>6, <1>7, <1>8, <1>9, <1>10 DEF Commit

LEMMA StepTyped == TypeOK /\ [Next]_vars => TypeOK'
<1> SUFFICES ASSUME TypeOK, [Next]_vars PROVE TypeOK'
  OBVIOUS
<1>1. ASSUME NEW s \in Sessions, OpenAny(s) \/ Commit(s) \/ Rollback(s) PROVE TypeOK'
  BY <1>1, OpenAnyTyped, CommitTyped
<1>2. CASE UNCHANGED vars
  BY <1>2 DEF vars, TypeOK, TablesOK, TransactionOK, StagedRows
<1> QED
  BY <1>1, <1>2 DEF Next

LEMMA InitTyped == Init => TypeOK
<1> SUFFICES ASSUME Init PROVE TypeOK
  OBVIOUS
<1>1. TablesOK
  BY DEF Init, TablesOK
<1>2. \A s \in Sessions : tx[s] = Idle
  BY DEF Init
<1>3. \A s \in Sessions : TransactionOK(tx[s])
  BY <1>2, IdleTyped
<1> QED
  BY <1>1, <1>3 DEF Init, TypeOK

\* The tables and every open transaction keep the types of models.py.
THEOREM TypeCorrect == Spec => []TypeOK
BY InitTyped, StepTyped, PTL DEF Spec

-----------------------------------------------------------------------------
(* Append-only tables                                                      *)

LEMMA OpenAppends ==
  ASSUME NEW s \in Sessions, OpenAny(s)
  PROVE  UNCHANGED tables
BY DEF OpenAny, RegisterDataset, RegisterModel, StartRun, CompleteRun, FailRun,
   AppendForecasts, SettleLabels, AddQualityChecks, RegisterArtifact, Open

LEMMA StepAppends ==
  ASSUME TypeOK, [Next]_vars
  PROVE  Appends
<1>1. CASE UNCHANGED tables
  BY <1>1 DEF tables, Appends
<1>2. ASSUME NEW s \in Sessions, Commit(s) PROVE Appends
  <2> USE DEF Appends
  <2>1. CASE CommitDataset(s)   BY <2>1 DEF CommitDataset
  <2>2. CASE CommitModel(s)     BY <2>2 DEF CommitModel
  <2>3. CASE CommitStart(s)
    <3>1. \A r \in Runs : r # tx[s].run => runs'[r] = runs[r]
      BY <2>3 DEF CommitStart, TypeOK, TablesOK
    <3>2. runs[tx[s].run] = Absent
      BY <2>3, FitsCases DEF CommitStart
    <3> QED
      BY <2>3, <3>1, <3>2 DEF CommitStart, Absent
  <2>4. CASE CommitOutcome(s)
    <3>1. tx[s].run \in Runs /\ Running(tx[s].run)
      BY <2>4, FitsCases DEF CommitOutcome, TypeOK, TransactionOK, RunOps
    <3>2. runs[tx[s].run] \in RunRows
      BY <3>1 DEF TypeOK, TablesOK, Running, Absent
    <3>3. /\ runs'[tx[s].run].request = runs[tx[s].run].request
          /\ runs'[tx[s].run].status = tx[s].op
      BY <2>4, <3>1, <3>2 DEF CommitOutcome, TypeOK, TablesOK, RunRows
    <3>4. \A r \in Runs : r # tx[s].run => runs'[r] = runs[r]
      BY <2>4 DEF CommitOutcome, TypeOK, TablesOK
    <3> QED
      BY <2>4, <3>1, <3>3, <3>4 DEF CommitOutcome, Running, Absent
  <2>5. CASE CommitForecasts(s) BY <2>5 DEF CommitForecasts
  <2>6. CASE CommitLabels(s)    BY <2>6 DEF CommitLabels
  <2>7. CASE CommitChecks(s)    BY <2>7 DEF CommitChecks
  <2>8. CASE CommitArtifact(s)  BY <2>8 DEF CommitArtifact
  <2> QED
    BY <1>2, <2>1, <2>2, <2>3, <2>4, <2>5, <2>6, <2>7, <2>8 DEF Commit
<1>3. CASE UNCHANGED vars
  BY <1>1, <1>3 DEF vars, tables
<1> QED
  BY <1>1, <1>2, <1>3, OpenAppends DEF Next, Rollback

\* No committed row changes, and a run's outcome is recorded once.
THEOREM AppendOnlyHolds == Spec => AppendOnly
<1>1. TypeOK /\ [Next]_vars => [Appends]_vars
  BY StepAppends
<1> QED
  BY <1>1, TypeCorrect, PTL DEF Spec, AppendOnly

-----------------------------------------------------------------------------
(* Point-in-time evidence                                                  *)
(*                                                                         *)
(* The three evidence invariants are not inductive: a commit writes what   *)
(* its opening step decided on an earlier state of the tables.  The        *)
(* strengthening says that every staged row still satisfies the rule it    *)
(* was admitted by, which holds because the tables only grow and a run     *)
(* keeps its request.                                                      *)

StagedEvidence(t) ==
  /\ t.op = "forecasts" =>
       /\ \A f \in t.rows : f.run = t.run /\ ProspectiveRow(f)
       /\ OneRowPer(t.rows, ForecastId)
  /\ t.op = "labels" =>
       /\ \A l \in t.rows : l.run = t.run /\ MaturedRow(l)
       /\ OneRowPer(t.rows, LabelKey)
  /\ t.op = "checks" => \A c \in t.rows : c.run = t.run

EvidenceInv ==
  /\ TypeOK
  /\ PointInTime
  /\ LabelsMature
  /\ OneForecastOneLabel
  /\ \A s \in Sessions : StagedEvidence(tx[s])

LEMMA ProspectiveStable ==
  ASSUME TypeOK, Appends, NEW f \in ForecastRows, ProspectiveRow(f)
  PROVE  ProspectiveRow(f)'
BY DEF Appends, ProspectiveRow, ForecastRows

LEMMA MaturedStable ==
  ASSUME TypeOK, Appends, NEW l \in LabelRows, MaturedRow(l)
  PROVE  MaturedRow(l)'
<1>1. l.run \in Runs
  BY DEF LabelRows
<1>2. runs'[l.run] # Absent /\ runs'[l.run].request = runs[l.run].request
  BY <1>1 DEF Appends, MaturedRow
<1>3. forecasts \subseteq forecasts' /\ datasets \subseteq datasets'
  BY DEF Appends
<1> QED
  BY <1>2, <1>3 DEF MaturedRow, Registered, ForecastId

LEMMA StagedStable ==
  ASSUME TypeOK, Appends, NEW s \in Sessions, StagedEvidence(tx[s])
  PROVE  StagedEvidence(tx[s])'
         \/ tx'[s] # tx[s]
<1> SUFFICES ASSUME tx'[s] = tx[s] PROVE StagedEvidence(tx[s])'
  OBVIOUS
<1>1. tx[s].op = "forecasts" => tx[s].rows \subseteq ForecastRows
  BY StagedCases DEF TypeOK, TransactionOK
<1>2. tx[s].op = "labels" => tx[s].rows \subseteq LabelRows
  BY StagedCases DEF TypeOK, TransactionOK
<1>3. tx[s].op = "forecasts" => \A f \in tx[s].rows : ProspectiveRow(f)'
  BY <1>1, ProspectiveStable DEF StagedEvidence
<1>4. tx[s].op = "labels" => \A l \in tx[s].rows : MaturedRow(l)'
  BY <1>2, MaturedStable DEF StagedEvidence
<1>5. tx[s].op = "forecasts" => OneRowPer(tx[s].rows, ForecastId)'
  BY DEF StagedEvidence, OneRowPer, ForecastId
<1>6. tx[s].op = "labels" => OneRowPer(tx[s].rows, LabelKey)'
  BY DEF StagedEvidence, OneRowPer, LabelKey
<1> QED
  BY <1>3, <1>4, <1>5, <1>6 DEF StagedEvidence

\* What an opening step leaves in tx.
LEMMA OpenEffect ==
  ASSUME TypeOK, NEW s \in Sessions, NEW op, NEW r, NEW rows, Open(s, op, r, rows)
  PROVE  /\ tx'[s] = [op |-> op, run |-> r, rows |-> rows]
         /\ \A x \in Sessions \ {s} : tx'[x] = tx[x]
         /\ UNCHANGED tables
BY DEF TypeOK, Open

LEMMA StageForecasts ==
  ASSUME EvidenceInv, NEW s \in Sessions, NEW r \in Runs,
         NEW batch \in ForecastBatches, AppendForecasts(s, r, batch)
  PROVE  StagedEvidence(tx[s])'
<1> DEFINE rows == {ForecastRow(r, d) : d \in batch}
           fresh == Fresh(rows, forecasts, ForecastId)
<1>1. Open(s, "forecasts", r, fresh)
  BY DEF AppendForecasts, ForecastBatch
<1>2. tx'[s] = [op |-> "forecasts", run |-> r, rows |-> fresh] /\ UNCHANGED tables
  BY <1>1, OpenEffect DEF EvidenceInv
<1>3. fresh \subseteq rows
  BY DEF Fresh
<1>4. batch \subseteq ForecastDrafts
  BY DEF ForecastDrafts
<1>5. runs[r] # Absent /\ runs[r].request.type = "forecast" /\ runs[r].request \in RunRequests
  BY DEF AppendForecasts, MayAppend, RunningAs, Running, Absent, EvidenceInv, TypeOK, TablesOK, RunRows
<1>6. runs[r].request.as_of \in Nat
  BY <1>5, RegistryAssumption DEF RegistryAssumption
<1>7. ASSUME NEW f \in rows PROVE f.run = r /\ ProspectiveRow(f)
  <2>1. PICK d \in batch : f = ForecastRow(r, d)
    OBVIOUS
  <2>2. Prospective(d, runs[r].request.as_of)
    BY DEF AppendForecasts, MayAppend
  <2>3. d.accepted \in Nat /\ d.entry \in Nat /\ d.horizon \in Nat
    BY <1>4, RegistryAssumption DEF RegistryAssumption
  <2> QED
    BY <1>5, <1>6, <2>1, <2>2, <2>3 DEF ForecastRow, Prospective, ProspectiveRow
<1>8. OneRowPer(rows, ForecastId)
  <2> SUFFICES ASSUME NEW x \in rows, NEW y \in rows, ForecastId(x) = ForecastId(y)
               PROVE  x = y
    BY DEF OneRowPer
  <2>1. ForecastPayload(x) = ForecastPayload(y)
    BY DEF AppendForecasts, MayAppend, ForecastBatch, Consistent
  <2>2. PICK d \in batch : x = ForecastRow(r, d)
    OBVIOUS
  <2>3. PICK e \in batch : y = ForecastRow(r, e)
    OBVIOUS
  <2> QED
    BY <2>1, <2>2, <2>3 DEF ForecastPayload, ForecastRow
<1>9. \A f \in fresh : f.run = r /\ ProspectiveRow(f)'
  BY <1>2, <1>3, <1>7 DEF ProspectiveRow, tables
<1>10. OneRowPer(fresh, ForecastId)
  BY <1>3, <1>8 DEF OneRowPer
<1> HIDE DEF fresh
<1> QED
  BY <1>2, <1>9, <1>10 DEF StagedEvidence, OneRowPer, ForecastId

LEMMA StageLabels ==
  ASSUME EvidenceInv, NEW s \in Sessions, NEW r \in Runs,
         NEW batch \in LabelBatches, SettleLabels(s, r, batch)
  PROVE  StagedEvidence(tx[s])'
<1> DEFINE rows == {[run |-> r, draft |-> l] : l \in batch}
           fresh == Fresh(rows, labels, LabelKey)
<1>1. Open(s, "labels", r, fresh)
  BY DEF SettleLabels, Drafted
<1>2. tx'[s] = [op |-> "labels", run |-> r, rows |-> fresh] /\ UNCHANGED tables
  BY <1>1, OpenEffect DEF EvidenceInv
<1>3. fresh \subseteq rows
  BY DEF Fresh
<1>4. runs[r] # Absent /\ runs[r].request.type = "settlement" /\ runs[r].request \in RunRequests
  BY DEF SettleLabels, MaySettle, RunningAs, Running, Absent, EvidenceInv, TypeOK, TablesOK, RunRows
<1>5. runs[r].request.as_of \in Nat
  BY <1>4, RegistryAssumption DEF RegistryAssumption
<1>6. ASSUME NEW l \in rows PROVE l.run = r /\ MaturedRow(l)
  <2>1. PICK d \in batch : l = [run |-> r, draft |-> d]
    OBVIOUS
  <2>2. Settles(d, runs[r].request.as_of)
    BY DEF SettleLabels, MaySettle
  <2>3. PICK f \in forecasts : ForecastId(f) = d.forecast /\ f.draft.horizon <= runs[r].request.as_of
    BY <2>2 DEF Settles
  <2>4. f.as_of < f.draft.horizon
    BY DEF EvidenceInv, PointInTime, ProspectiveRow
  <2>5. f \in ForecastRows
    BY DEF EvidenceInv, TypeOK, TablesOK
  <2>6. f.as_of \in Nat /\ f.draft.horizon \in Nat
    BY <2>5, RegistryAssumption DEF RegistryAssumption, ForecastRows
  <2>7. f.as_of < runs[r].request.as_of
    BY <1>5, <2>3, <2>4, <2>6
  <2> QED
    BY <1>4, <2>1, <2>2, <2>3, <2>7 DEF Settles, MaturedRow
<1>7. OneRowPer(rows, LabelKey)
  BY DEF SettleLabels, MaySettle, Drafted, Consistent, OneRowPer, LabelKey, LabelPayload
<1>8. \A l \in fresh : l.run = r /\ MaturedRow(l)'
  BY <1>2, <1>3, <1>6 DEF MaturedRow, tables, Registered, ForecastId
<1>9. OneRowPer(fresh, LabelKey)
  BY <1>3, <1>7 DEF OneRowPer
<1> HIDE DEF fresh
<1> QED
  BY <1>2, <1>8, <1>9 DEF StagedEvidence, OneRowPer, LabelKey

LEMMA StageChecks ==
  ASSUME EvidenceInv, NEW s \in Sessions, NEW r \in Runs,
         NEW batch \in CheckBatches, AddQualityChecks(s, r, batch)
  PROVE  StagedEvidence(tx[s])'
<1> DEFINE rows == {[run |-> r, draft |-> c] : c \in batch}
           fresh == Fresh(rows, checks, CheckKey)
<1>1. Open(s, "checks", r, fresh)
  BY DEF AddQualityChecks, Drafted
<1>2. tx'[s] = [op |-> "checks", run |-> r, rows |-> fresh]
  BY <1>1, OpenEffect DEF EvidenceInv
<1>3. \A c \in fresh : c.run = r
  BY DEF Fresh
<1> HIDE DEF fresh
<1> QED
  BY <1>2, <1>3 DEF StagedEvidence

LEMMA OpenStages ==
  ASSUME EvidenceInv, NEW s \in Sessions, OpenAny(s)
  PROVE  \A x \in Sessions : StagedEvidence(tx[x])' \/ tx'[x] = tx[x]
<1>1. \A x \in Sessions \ {s} : tx'[x] = tx[x]
  BY DEF EvidenceInv, TypeOK, OpenAny, RegisterDataset, RegisterModel, StartRun, CompleteRun,
     FailRun, AppendForecasts, SettleLabels, AddQualityChecks, RegisterArtifact, Open
<1>2. ASSUME NEW op \in Ops \ {"forecasts", "labels", "checks"}, NEW r, NEW rows,
             Open(s, op, r, rows)
      PROVE  StagedEvidence(tx[s])'
  <2>1. tx'[s].op = op
    BY <1>2 DEF Open, EvidenceInv, TypeOK
  <2> QED
    BY <2>1 DEF StagedEvidence
<1>3. ASSUME NEW d \in DatasetRequests, RegisterDataset(s, d) PROVE StagedEvidence(tx[s])'
  BY <1>2, <1>3 DEF RegisterDataset, Ops, RunOps
<1>4. ASSUME NEW m \in ModelRequests, RegisterModel(s, m) PROVE StagedEvidence(tx[s])'
  BY <1>2, <1>4 DEF RegisterModel, Ops, RunOps
<1>5. ASSUME NEW r \in Runs,
             \/ \E q \in RunRequests : StartRun(s, r, q)
             \/ CompleteRun(s, r)
             \/ FailRun(s, r)
             \/ \E a \in ArtifactRequests : RegisterArtifact(s, r, a)
      PROVE  StagedEvidence(tx[s])'
  BY <1>2, <1>5 DEF StartRun, CompleteRun, FailRun, RegisterArtifact, Ops, RunOps
<1> QED
  BY <1>1, <1>3, <1>4, <1>5, StageForecasts, StageLabels, StageChecks DEF OpenAny

LEMMA CloseStages ==
  ASSUME EvidenceInv, NEW s \in Sessions, Commit(s) \/ Rollback(s)
  PROVE  \A x \in Sessions : StagedEvidence(tx[x])' \/ tx'[x] = tx[x]
<1>1. Close(s)
  BY DEF Commit, Rollback, CommitDataset, CommitModel, CommitStart, CommitOutcome,
     CommitForecasts, CommitLabels, CommitChecks, CommitArtifact
<1>2. \A x \in Sessions : tx'[x].op = "none" \/ tx'[x] = tx[x]
  BY <1>1 DEF Close, Idle, EvidenceInv, TypeOK
<1> QED
  BY <1>2 DEF StagedEvidence

\* The part of the invariant about open transactions is kept by every step.
LEMMA StagedKept ==
  ASSUME EvidenceInv, [Next]_vars
  PROVE  \A x \in Sessions : StagedEvidence(tx[x])'
<1>1. \A x \in Sessions : StagedEvidence(tx[x])' \/ tx'[x] = tx[x]
  <2>1. CASE UNCHANGED vars
    BY <2>1 DEF vars
  <2> QED
    BY <2>1, OpenStages, CloseStages DEF Next
<1> QED
  BY <1>1, StagedStable, StepAppends DEF EvidenceInv

LEMMA ForecastsKept ==
  ASSUME EvidenceInv, [Next]_vars
  PROVE  /\ PointInTime'
         /\ OneRowPer(forecasts, ForecastId)'
<1>1. TypeOK' /\ Appends
  BY StepTyped, StepAppends DEF EvidenceInv
<1>2. \A f \in forecasts : ProspectiveRow(f)'
  BY <1>1, ProspectiveStable DEF EvidenceInv, PointInTime, TypeOK, TablesOK
<1>3. CASE forecasts' = forecasts
  BY <1>2, <1>3 DEF PointInTime, EvidenceInv, OneForecastOneLabel, OneRowPer, ForecastId
<1>4. ASSUME NEW s \in Sessions, CommitForecasts(s)
      PROVE  PointInTime' /\ OneRowPer(forecasts, ForecastId)'
  <2>1. forecasts' = forecasts \cup tx[s].rows /\ Unique(tx[s].rows, forecasts, ForecastId)
    BY <1>4, FitsCases DEF CommitForecasts
  <2>2. /\ \A f \in tx[s].rows : ProspectiveRow(f)
        /\ OneRowPer(tx[s].rows, ForecastId)
    BY <1>4 DEF CommitForecasts, Staged, EvidenceInv, StagedEvidence
  <2>3. tx[s].rows \subseteq ForecastRows
    BY <1>4, StagedCases DEF CommitForecasts, Staged, EvidenceInv, TypeOK, TransactionOK
  <2>4. \A f \in tx[s].rows : ProspectiveRow(f)'
    BY <1>1, <2>2, <2>3, ProspectiveStable DEF EvidenceInv
  <2>5. OneRowPer(forecasts \cup tx[s].rows, ForecastId)
    BY <2>1, <2>2 DEF OneRowPer, Unique, EvidenceInv, OneForecastOneLabel
  <2>6. PointInTime'
    BY <1>2, <2>1, <2>4 DEF PointInTime
  <2>7. OneRowPer(forecasts, ForecastId)'
    BY <2>1, <2>5 DEF OneRowPer, ForecastId
  <2> QED
    BY <2>6, <2>7
<1>5. forecasts' = forecasts \/ \E s \in Sessions : CommitForecasts(s)
  BY OpenAppends DEF Next, vars, tables, Commit, Rollback, CommitDataset, CommitModel,
     CommitStart, CommitOutcome, CommitLabels, CommitChecks, CommitArtifact
<1> QED
  BY <1>3, <1>4, <1>5

LEMMA LabelsKept ==
  ASSUME EvidenceInv, [Next]_vars
  PROVE  /\ LabelsMature'
         /\ OneRowPer(labels, LabelKey)'
<1>1. TypeOK' /\ Appends
  BY StepTyped, StepAppends DEF EvidenceInv
<1>2. \A l \in labels : MaturedRow(l)'
  BY <1>1, MaturedStable DEF EvidenceInv, LabelsMature, TypeOK, TablesOK
<1>3. CASE labels' = labels
  BY <1>2, <1>3 DEF LabelsMature, EvidenceInv, OneForecastOneLabel, OneRowPer, LabelKey
<1>4. ASSUME NEW s \in Sessions, CommitLabels(s)
      PROVE  LabelsMature' /\ OneRowPer(labels, LabelKey)'
  <2>1. labels' = labels \cup tx[s].rows /\ Unique(tx[s].rows, labels, LabelKey)
    BY <1>4, FitsCases DEF CommitLabels
  <2>2. /\ \A l \in tx[s].rows : MaturedRow(l)
        /\ OneRowPer(tx[s].rows, LabelKey)
    BY <1>4 DEF CommitLabels, Staged, EvidenceInv, StagedEvidence
  <2>3. tx[s].rows \subseteq LabelRows
    BY <1>4, StagedCases DEF CommitLabels, Staged, EvidenceInv, TypeOK, TransactionOK
  <2>4. \A l \in tx[s].rows : MaturedRow(l)'
    BY <1>1, <2>2, <2>3, MaturedStable DEF EvidenceInv
  <2>5. OneRowPer(labels \cup tx[s].rows, LabelKey)
    BY <2>1, <2>2 DEF OneRowPer, Unique, EvidenceInv, OneForecastOneLabel
  <2>6. LabelsMature'
    BY <1>2, <2>1, <2>4 DEF LabelsMature
  <2>7. OneRowPer(labels, LabelKey)'
    BY <2>1, <2>5 DEF OneRowPer, LabelKey
  <2> QED
    BY <2>6, <2>7
<1>5. labels' = labels \/ \E s \in Sessions : CommitLabels(s)
  BY OpenAppends DEF Next, vars, tables, Commit, Rollback, CommitDataset, CommitModel,
     CommitStart, CommitOutcome, CommitForecasts, CommitChecks, CommitArtifact
<1> QED
  BY <1>3, <1>4, <1>5

LEMMA EvidenceInductive ==
  /\ Init => EvidenceInv
  /\ EvidenceInv /\ [Next]_vars => EvidenceInv'
<1>1. ASSUME Init PROVE EvidenceInv
  <2>1. TypeOK
    BY <1>1, InitTyped
  <2> QED
    BY <1>1, <2>1 DEF Init, EvidenceInv, PointInTime, LabelsMature, OneForecastOneLabel,
       OneRowPer, StagedEvidence, Idle
<1>2. ASSUME EvidenceInv, [Next]_vars PROVE EvidenceInv'
  BY <1>2, StepTyped, StagedKept, ForecastsKept, LabelsKept DEF EvidenceInv, OneForecastOneLabel
<1> QED
  BY <1>1, <1>2

LEMMA EvidenceHolds == Spec => []EvidenceInv
BY EvidenceInductive, PTL DEF Spec

\* Whatever sessions race, a forecast identity and its label have one row each.
THEOREM OneForecastOneLabelHolds == Spec => []OneForecastOneLabel
<1>1. EvidenceInv => OneForecastOneLabel
  BY DEF EvidenceInv
<1> QED
  BY <1>1, EvidenceHolds, PTL

\* Every stored forecast was made after its filing and before its entry and
\* horizon, under a forecast run with its model, dataset and as-of.
THEOREM PointInTimeHolds == Spec => []PointInTime
<1>1. EvidenceInv => PointInTime
  BY DEF EvidenceInv
<1> QED
  BY <1>1, EvidenceHolds, PTL

\* Every label settles a stored forecast, from a registered dataset, at an
\* as-of that is after the forecast's and not before its horizon.
THEOREM LabelsMatureHolds == Spec => []LabelsMature
<1>1. EvidenceInv => LabelsMature
  BY DEF EvidenceInv
<1> QED
  BY <1>1, EvidenceHolds, PTL

-----------------------------------------------------------------------------
(* Identities, checks and references                                       *)
(*                                                                         *)
(* Here too the opening step makes sure of the rows of its own batch, and  *)
(* the constraints of those that others committed meanwhile.               *)

StagedRegistration(t) ==
  /\ t.op \in {"dataset", "model", "artifact"} => \A x, y \in t.rows : x = y
  /\ t.op = "checks" => OneRowPer(t.rows, CheckKey)

RegistrationInv ==
  /\ TypeOK
  /\ OneRegistration
  /\ \A s \in Sessions : StagedRegistration(tx[s])

\* A batch of checks holds one draft of a name.
LEMMA StageOneCheck ==
  ASSUME TypeOK, NEW s \in Sessions, NEW r \in Runs, NEW batch,
         AddQualityChecks(s, r, batch)
  PROVE  StagedRegistration(tx[s])'
<1> DEFINE rows == Drafted(r, batch)
           fresh == Fresh(rows, checks, CheckKey)
<1>1. tx'[s] = [op |-> "checks", run |-> r, rows |-> fresh]
  BY OpenEffect DEF AddQualityChecks
<1>2. \A x, y \in rows : CheckKey(x) = CheckKey(y) => x.draft = y.draft
  BY DEF AddQualityChecks, MayCheck, Consistent, CheckPayload
<1>3. \A x, y \in rows : x.draft = y.draft => x = y
  BY DEF Drafted
<1>4. OneRowPer(fresh, CheckKey)
  BY <1>2, <1>3 DEF Fresh, OneRowPer
<1> HIDE DEF fresh
<1>5. OneRowPer(tx'[s].rows, CheckKey) /\ tx'[s].op = "checks"
  BY <1>1, <1>4
<1> QED
  BY <1>5 DEF StagedRegistration, OneRowPer, CheckKey

LEMMA OpenRegisters ==
  ASSUME TypeOK, NEW s \in Sessions, OpenAny(s)
  PROVE  \A x \in Sessions : StagedRegistration(tx[x])' \/ tx'[x] = tx[x]
<1>1. \A x \in Sessions \ {s} : tx'[x] = tx[x]
  BY DEF TypeOK, OpenAny, RegisterDataset, RegisterModel, StartRun, CompleteRun,
     FailRun, AppendForecasts, SettleLabels, AddQualityChecks, RegisterArtifact, Open
<1>2. ASSUME NEW op \in Ops \ {"checks"}, NEW r, NEW rows, Open(s, op, r, rows),
             op \in {"dataset", "model", "artifact"} => \A x, y \in rows : x = y
      PROVE  StagedRegistration(tx[s])'
  <2>1. tx'[s].op = op /\ tx'[s].rows = rows
    BY <1>2 DEF Open, TypeOK
  <2> QED
    BY <1>2, <2>1 DEF StagedRegistration
<1>3. ASSUME NEW d \in DatasetRequests, RegisterDataset(s, d) PROVE StagedRegistration(tx[s])'
  BY <1>2, <1>3 DEF RegisterDataset, Ops, RunOps
<1>4. ASSUME NEW m \in ModelRequests, RegisterModel(s, m) PROVE StagedRegistration(tx[s])'
  BY <1>2, <1>4 DEF RegisterModel, Ops, RunOps
<1>5. ASSUME NEW r \in Runs,
             \/ \E q \in RunRequests : StartRun(s, r, q)
             \/ CompleteRun(s, r)
             \/ FailRun(s, r)
             \/ \E batch \in ForecastBatches : AppendForecasts(s, r, batch)
             \/ \E batch \in LabelBatches : SettleLabels(s, r, batch)
      PROVE  StagedRegistration(tx[s])'
  BY <1>2, <1>5 DEF StartRun, CompleteRun, FailRun, AppendForecasts, SettleLabels, Ops, RunOps
<1>6. ASSUME NEW r \in Runs, NEW a \in ArtifactRequests, RegisterArtifact(s, r, a)
      PROVE  StagedRegistration(tx[s])'
  <2>1. \A x, y \in Fresh({Reference(r, a)}, artifacts, ArtifactKey) : x = y
    BY DEF Fresh
  <2> QED
    BY <1>2, <1>6, <2>1 DEF RegisterArtifact, Ops, RunOps
<1> QED
  BY <1>1, <1>3, <1>4, <1>5, <1>6, StageOneCheck DEF OpenAny

LEMMA CloseRegisters ==
  ASSUME TypeOK, NEW s \in Sessions, Commit(s) \/ Rollback(s)
  PROVE  \A x \in Sessions : StagedRegistration(tx[x])' \/ tx'[x] = tx[x]
<1>1. Close(s)
  BY DEF Commit, Rollback, CommitDataset, CommitModel, CommitStart, CommitOutcome,
     CommitForecasts, CommitLabels, CommitChecks, CommitArtifact
<1>2. \A x \in Sessions : tx'[x].op = "none" \/ tx'[x] = tx[x]
  BY <1>1 DEF Close, Idle, TypeOK
<1> QED
  BY <1>2 DEF StagedRegistration

LEMMA CommitRegisters ==
  ASSUME RegistrationInv, NEW s \in Sessions, Commit(s)
  PROVE  OneRegistration'
<1> USE DEF RegistrationInv, OneRegistration, OneRowPer,
        DatasetKey, DatasetManifest, ModelKey, ModelIdentity, CheckKey, ArtifactKey
<1>1. CASE CommitDataset(s)
  <2>1. /\ datasets' = datasets \cup tx[s].rows
        /\ UNCHANGED <<models, checks, artifacts>>
        /\ \A x, y \in tx[s].rows : x = y
        /\ \A x \in tx[s].rows, y \in datasets : x.id # y.id /\ x.manifest # y.manifest
    BY <1>1, FitsCases DEF CommitDataset, Staged, StagedRegistration, Unique
  <2> QED BY <2>1
<1>2. CASE CommitModel(s)
  <2>1. /\ models' = models \cup tx[s].rows
        /\ UNCHANGED <<datasets, checks, artifacts>>
        /\ \A x, y \in tx[s].rows : x = y
        /\ \A x \in tx[s].rows, y \in models : x.id # y.id /\ x.identity # y.identity
    BY <1>2, FitsCases DEF CommitModel, Staged, StagedRegistration, Unique
  <2> QED BY <2>1
<1>3. CASE CommitChecks(s)
  <2>1. /\ checks' = checks \cup tx[s].rows
        /\ UNCHANGED <<datasets, models, artifacts>>
        /\ \A x, y \in tx[s].rows : CheckKey(x) = CheckKey(y) => x = y
        /\ \A x \in tx[s].rows, y \in checks : CheckKey(x) # CheckKey(y)
    BY <1>3, FitsCases DEF CommitChecks, Staged, StagedRegistration, Unique
  <2> QED BY <2>1
<1>4. CASE CommitArtifact(s)
  <2>1. /\ artifacts' = artifacts \cup tx[s].rows
        /\ UNCHANGED <<datasets, models, checks>>
        /\ \A x, y \in tx[s].rows : x = y
        /\ \A x \in tx[s].rows, y \in artifacts : ArtifactKey(x) # ArtifactKey(y)
    BY <1>4, FitsCases DEF CommitArtifact, Staged, StagedRegistration, Unique
  <2> QED BY <2>1
<1>5. CASE UNCHANGED <<datasets, models, checks, artifacts>>
  BY <1>5
<1> QED
  BY <1>1, <1>2, <1>3, <1>4, <1>5 DEF Commit, CommitStart, CommitOutcome, CommitForecasts,
     CommitLabels

LEMMA RegistrationInductive ==
  /\ Init => RegistrationInv
  /\ RegistrationInv /\ [Next]_vars => RegistrationInv'
<1>1. ASSUME Init PROVE RegistrationInv
  <2>1. TypeOK
    BY <1>1, InitTyped
  <2> QED
    BY <1>1, <2>1 DEF Init, RegistrationInv, OneRegistration, OneRowPer, StagedRegistration, Idle
<1>2. ASSUME RegistrationInv, [Next]_vars PROVE RegistrationInv'
  <2>1. TypeOK'
    BY <1>2, StepTyped DEF RegistrationInv
  <2>2. \A x \in Sessions : StagedRegistration(tx[x])' \/ tx'[x] = tx[x]
    BY <1>2, OpenRegisters, CloseRegisters DEF RegistrationInv, Next, vars
  <2>3. \A x \in Sessions : StagedRegistration(tx[x])'
    BY <1>2, <2>2 DEF RegistrationInv, StagedRegistration, OneRowPer, CheckKey
  <2>4. UNCHANGED tables => OneRegistration'
    BY <1>2 DEF tables, RegistrationInv, OneRegistration, OneRowPer, DatasetKey,
       DatasetManifest, ModelKey, ModelIdentity, CheckKey, ArtifactKey
  <2>5. OneRegistration'
    BY <1>2, <2>4, CommitRegisters, OpenAppends DEF RegistrationInv, Next, Rollback, vars, tables
  <2> QED
    BY <2>1, <2>3, <2>5 DEF RegistrationInv
<1> QED
  BY <1>1, <1>2

\* Whatever sessions race, a dataset, a model, a check of a run and an artifact of a
\* run have one row each, and no manifest or model identity has two names.
THEOREM OneRegistrationHolds == Spec => []OneRegistration
<1>1. RegistrationInv => OneRegistration
  BY DEF RegistrationInv
<1> QED
  BY <1>1, RegistrationInductive, PTL DEF Spec

-----------------------------------------------------------------------------
(* The audit trail                                                         *)

LEMMA AuditInitially == Init => AuditTrail
BY DEF Init, AuditTrail, Absent

LEMMA AuditKept ==
  ASSUME EvidenceInv, AuditTrail, [Next]_vars
  PROVE  AuditTrail'
<1>1. CASE UNCHANGED tables
  BY <1>1 DEF tables, AuditTrail
<1>2. ASSUME NEW s \in Sessions, Commit(s) PROVE AuditTrail'
  <2>1. CASE CommitDataset(s)   BY <2>1 DEF CommitDataset, AuditTrail
  <2>2. CASE CommitModel(s)     BY <2>2 DEF CommitModel, AuditTrail
  <2>3. CASE CommitStart(s)
    <3>1. PICK q \in tx[s].rows :
            runs' = [runs EXCEPT ![tx[s].run] = [request |-> q, status |-> "running"]]
      BY <2>3 DEF CommitStart
    <3>2. /\ tx[s].run \in Runs /\ runs[tx[s].run] = Absent
          /\ audit' = audit \cup {<<"run.started", tx[s].run>>}
      BY <2>3, FitsCases DEF CommitStart, Staged, EvidenceInv, TypeOK, TransactionOK, RunOps
    <3>3. /\ runs'[tx[s].run] = [request |-> q, status |-> "running"]
          /\ \A r \in Runs \ {tx[s].run} : runs'[r] = runs[r]
      BY <3>1, <3>2 DEF EvidenceInv, TypeOK, TablesOK
    <3>4. runs'[tx[s].run] # Absent /\ runs'[tx[s].run].status = "running"
      BY <3>3 DEF Absent
    <3>5. Absent.status = "absent"
      BY DEF Absent
    <3> QED
      BY <2>3, <3>2, <3>3, <3>4, <3>5 DEF CommitStart, AuditTrail
  <2>4. CASE CommitOutcome(s)
    <3>1. /\ tx[s].run \in Runs /\ Running(tx[s].run)
          /\ tx[s].op \in {"succeeded", "failed"}
          /\ audit' = audit \cup {<<tx[s].op, tx[s].run>>}
      BY <2>4, FitsCases DEF CommitOutcome, EvidenceInv, TypeOK, TransactionOK, RunOps
    <3>2. runs[tx[s].run] \in RunRows
      BY <3>1 DEF EvidenceInv, TypeOK, TablesOK, Running, Absent
    <3>3. /\ runs'[tx[s].run].status = tx[s].op
          /\ \A r \in Runs \ {tx[s].run} : runs'[r] = runs[r]
      BY <2>4, <3>1, <3>2 DEF CommitOutcome, EvidenceInv, TypeOK, TablesOK, RunRows
    <3>4. runs[tx[s].run] # Absent /\ runs'[tx[s].run] # Absent
      BY <3>1, <3>3 DEF Running, Absent
    <3> QED
      BY <2>4, <3>1, <3>3, <3>4 DEF CommitOutcome, AuditTrail, Running
  <2>5. CASE CommitForecasts(s)
    BY <2>5 DEF CommitForecasts, Staged, EvidenceInv, StagedEvidence, AuditTrail
  <2>6. CASE CommitLabels(s)
    BY <2>6 DEF CommitLabels, Staged, EvidenceInv, StagedEvidence, AuditTrail
  <2>7. CASE CommitChecks(s)
    BY <2>7 DEF CommitChecks, Staged, EvidenceInv, StagedEvidence, AuditTrail
  <2>8. CASE CommitArtifact(s)  BY <2>8 DEF CommitArtifact, AuditTrail
  <2> QED
    BY <1>2, <2>1, <2>2, <2>3, <2>4, <2>5, <2>6, <2>7, <2>8 DEF Commit
<1>3. CASE UNCHANGED vars
  BY <1>1, <1>3 DEF vars, tables
<1> QED
  BY <1>1, <1>2, <1>3, OpenAppends DEF Next, Rollback

\* Every row and every run transition has its audit event, and no outcome
\* event exists without the transition.
THEOREM AuditTrailHolds == Spec => []AuditTrail
BY AuditInitially, AuditKept, EvidenceHolds, PTL DEF Spec

-----------------------------------------------------------------------------
(* The registry implements the prospective ledger                          *)

LEMMA OutcomesStable ==
  ASSUME EvidenceInv, [Next]_vars, labels' = labels
  PROVE  Outcomes' = Outcomes
<1>1. \A l \in labels : runs'[l.run].request.as_of = runs[l.run].request.as_of
  BY StepAppends DEF Appends, EvidenceInv, LabelsMature, MaturedRow, TypeOK, TablesOK, LabelRows
<1> QED
  BY <1>1 DEF Outcomes, LabelKey, LabelPayload

LEMMA CommitPredicts ==
  ASSUME EvidenceInv, EvidenceInv', [Next]_vars, NEW s \in Sessions, CommitForecasts(s)
  PROVE  Ledger!Predict
<1>1. forecasts \subseteq forecasts' /\ Outcomes' = Outcomes
  BY OutcomesStable DEF CommitForecasts
<1>2. Predictions \subseteq Predictions'
  BY <1>1 DEF Predictions, ForecastId, ForecastPayload
<1>3. ASSUME NEW p \in Predictions'
      PROVE  p.made < p.horizon /\ \A q \in Predictions' : q.id = p.id => q = p
  <2>1. PICK f \in forecasts' :
          p = [id |-> ForecastId(f), made |-> f.as_of, horizon |-> f.draft.horizon,
               claim |-> ForecastPayload(f)]
    BY DEF Predictions, ForecastId, ForecastPayload
  <2>2. f.as_of < f.draft.horizon
    BY DEF EvidenceInv, PointInTime, ProspectiveRow
  <2>3. ASSUME NEW q \in Predictions', q.id = p.id PROVE q = p
    <3>1. PICK g \in forecasts' :
            q = [id |-> ForecastId(g), made |-> g.as_of, horizon |-> g.draft.horizon,
                 claim |-> ForecastPayload(g)]
      BY DEF Predictions, ForecastId, ForecastPayload
    <3>2. f = g
      BY <2>1, <2>3, <3>1 DEF EvidenceInv, OneForecastOneLabel, OneRowPer, ForecastId
    <3> QED
      BY <2>1, <3>1, <3>2
  <2> QED
    BY <2>1, <2>2, <2>3
<1> QED
  BY <1>1, <1>2, <1>3 DEF Ledger!Predict, Ledger!NewPrediction

LEMMA CommitSettles ==
  ASSUME EvidenceInv, EvidenceInv', [Next]_vars, NEW s \in Sessions, CommitLabels(s)
  PROVE  Ledger!Settle
<1>1. /\ labels' = labels \cup tx[s].rows
      /\ forecasts' = forecasts /\ runs' = runs
  BY DEF CommitLabels
<1>2. Predictions' = Predictions /\ Outcomes \subseteq Outcomes'
  BY <1>1 DEF Predictions, Outcomes, ForecastId, ForecastPayload, LabelKey, LabelPayload
<1>3. ASSUME NEW o \in Outcomes' \ Outcomes
      PROVE  /\ \E p \in Predictions : p.id = o.id /\ p.horizon <= o.at
             /\ \A q \in Outcomes' : q.id = o.id => q = o
  <2>1. PICK l \in labels' :
          o = [id |-> LabelKey(l), at |-> runs[l.run].request.as_of, value |-> LabelPayload(l)]
    BY <1>1 DEF Outcomes, LabelKey, LabelPayload
  <2>2. MaturedRow(l)'
    BY DEF EvidenceInv, LabelsMature
  <2>3. PICK f \in forecasts : /\ ForecastId(f) = l.draft.forecast
                               /\ f.draft.horizon <= runs[l.run].request.as_of
    BY <1>1, <2>2 DEF MaturedRow, ForecastId
  <2>4. \E p \in Predictions : p.id = o.id /\ p.horizon <= o.at
    <3> DEFINE p == [id |-> ForecastId(f), made |-> f.as_of, horizon |-> f.draft.horizon,
                     claim |-> ForecastPayload(f)]
    <3>1. p \in Predictions
      BY DEF Predictions
    <3>2. p.id = o.id /\ p.horizon <= o.at
      BY <2>1, <2>3 DEF LabelKey
    <3> HIDE DEF p
    <3> QED
      BY <3>1, <3>2
  <2>5. ASSUME NEW q \in Outcomes', q.id = o.id PROVE q = o
    <3>1. PICK m \in labels' :
            q = [id |-> LabelKey(m), at |-> runs[m.run].request.as_of, value |-> LabelPayload(m)]
      BY <1>1 DEF Outcomes, LabelKey, LabelPayload
    <3>2. l = m
      BY <2>1, <2>5, <3>1 DEF EvidenceInv, OneForecastOneLabel, OneRowPer, LabelKey
    <3> QED
      BY <2>1, <3>1, <3>2
  <2> QED
    BY <2>4, <2>5
<1> QED
  BY <1>2, <1>3 DEF Ledger!Settle, Ledger!NewOutcome

LEMMA LedgerStep ==
  ASSUME EvidenceInv, EvidenceInv', [Next]_vars
  PROVE  [Ledger!Next]_<<Predictions, Outcomes>>
<1>1. CASE forecasts' = forecasts /\ labels' = labels
  BY <1>1, OutcomesStable DEF Predictions, ForecastId, ForecastPayload
<1>2. \/ forecasts' = forecasts /\ labels' = labels
      \/ \E s \in Sessions : CommitForecasts(s) \/ CommitLabels(s)
  BY OpenAppends DEF Next, vars, tables, Commit, Rollback, CommitDataset, CommitModel,
     CommitStart, CommitOutcome, CommitChecks, CommitArtifact
<1> QED
  BY <1>1, <1>2, CommitPredicts, CommitSettles DEF Ledger!Next

\* The registry implements the prospective ledger: a prediction is written once
\* and before its horizon, and gets at most one outcome, not before it.
THEOREM LedgerImplemented == Spec => ImplementsLedger
<1>1. Init => Ledger!Init
  BY DEF Init, Ledger!Init, Predictions, Outcomes
<1>2. EvidenceInv /\ EvidenceInv' /\ [Next]_vars => [Ledger!Next]_<<Predictions, Outcomes>>
  BY LedgerStep
<1> QED
  BY <1>1, <1>2, EvidenceHolds, PTL DEF Spec, ImplementsLedger, Ledger!Spec
=============================================================================
