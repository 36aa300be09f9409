------------------------ MODULE ForwardWorkflowProofs ------------------------
(***************************************************************************)
(* Proofs about the forecast and the settle command, for any set of        *)
(* commands, bundles and moments, and any number of failures.              *)
(*                                                                         *)
(* Commands share the registry and the stores and nothing else, and what a *)
(* command says of itself depends on its own phase, its own run and the    *)
(* rows of its run.  The invariant is therefore a conjunction over the     *)
(* commands; a step of another command only adds rows of another run       *)
(* (Beside), and what is left is what a command's own steps do to it.      *)
(***************************************************************************)
EXTENDS ForwardWorkflow, TLAPS

Before == {"idle", "training", "dataset", "put_model", "mirror_model", "model", "start"}
Within == {"prepare", "checks", "append", "put", "mirror", "artifact", "complete",
           "failing_checks", "partial"}
Late   == {"put", "mirror", "artifact", "complete", "partial", "done"}

Shape ==
  /\ pc \in [Commands -> Phases]
  /\ DOMAIN tx = Commands /\ DOMAIN runs = Commands
  /\ DOMAIN job = Commands /\ DOMAIN work = Commands
  /\ hurt \in [Commands -> SUBSET Phases]

\* The run of a command follows its phase: it exists from start_run on, runs until one of
\* its last two calls, and when that call fails after its commit, `hurt` says which.
RunFollows(c) ==
  /\ \/ runs[c] = Reg!Absent
     \/ \E s \in Reg!RunStatuses : runs[c] = [request |-> RequestOf(c), status |-> s]
  /\ pc[c] \in Before => runs[c] = Reg!Absent
  /\ pc[c] \in Within => Reg!Running(c)
  /\ pc[c] = "failing" => Reg!Running(c) \/ (Succeeded(c) /\ "complete" \in hurt[c])
  /\ pc[c] = "done" => Succeeded(c)
  /\ pc[c] = "raised" /\ Reg!Running(c) => hurt[c] \cap {"start", "failing"} # {}
  /\ pc[c] = "raised" /\ Succeeded(c) => "complete" \in hurt[c]
  /\ runs[c].status = "failed" => pc[c] = "raised"

ForecastListed(c, table) ==
  \A d \in work[c].rows : \E f \in table :
    /\ f.draft = d /\ f.dataset = job[c].bundle.id
    /\ Reg!ForecastId(f) = <<Model.id, d.event, job[c].as_of>>

LabelListed(c, table) == \A d \in work[c].rows : \E l \in table : l.draft = d

Referenced(c, table) == \E a \in table : a.run = c /\ a.sha = c

\* What a command has open is the transaction of the call it is making, on its own run,
\* and with the rows of the table it stands for what the call is to leave there.
Stages(c, op, phases) == pc[c] \in phases /\ tx[c].op = op

StagesRun(c, op, phases) == Stages(c, op, phases) /\ tx[c].run = c /\ \A x \in tx[c].rows : x.run = c

OpenFor(c) ==
  \/ tx[c] = Reg!Idle
  \/ Stages(c, "dataset", {"training", "dataset"})
  \/ Stages(c, "model", {"model"})
  \/ Stages(c, "start", {"start"}) /\ tx[c].run = c /\ tx[c].rows = {RequestOf(c)}
  \/ StagesRun(c, "checks", {"checks", "failing_checks"})
  \/ /\ StagesRun(c, "forecasts", {"append"}) /\ c \in Forecasting
     /\ \A f \in tx[c].rows : f.draft \in work[c].rows
     /\ ForecastListed(c, tx[c].rows \cup forecasts)
  \/ /\ StagesRun(c, "labels", {"append"}) /\ c \notin Forecasting
     /\ \A l \in tx[c].rows : l.draft \in work[c].rows
     /\ LabelListed(c, tx[c].rows \cup labels)
  \/ /\ StagesRun(c, "artifact", {"artifact", "partial"})
     /\ Referenced(c, tx[c].rows \cup artifacts)
     /\ \A x \in tx[c].rows : x.uri = "local" /\ \A a \in artifacts : Reg!ArtifactKey(a) # Reg!ArtifactKey(x)
  \/ StagesRun(c, "succeeded", {"complete"})
  \/ StagesRun(c, "failed", {"failing"})

\* What the registry holds for the run of a command, by phase.
RowsAgree(c) ==
  /\ \A f \in forecasts : f.run = c => f.draft \in work[c].rows /\ pc[c] \notin Before \cup {"prepare"}
  /\ \A l \in labels : l.run = c => l.draft \in work[c].rows /\ pc[c] \notin Before \cup {"prepare"}
  /\ pc[c] \in Late \/ Succeeded(c) =>
       IF c \in Forecasting THEN ForecastListed(c, forecasts) ELSE LabelListed(c, labels)

\* Where the evidence of a command is, by phase and by what failed.
EvidenceKept(c) ==
  /\ \A a \in artifacts : a.run = c => a.uri = "local"
  /\ pc[c] \in {"artifact", "complete", "done"} \/ Succeeded(c) => c \in mirror
  /\ pc[c] \in {"complete", "done"} \/ Succeeded(c) => Referenced(c, artifacts)
  /\ "mirror" \in hurt[c] =>
       /\ pc[c] \in {"partial", "failing", "raised", "crashed"}
       /\ pc[c] \in {"failing", "raised"} /\ "partial" \notin hurt[c] => Referenced(c, artifacts)

CommandInv(c) == RunFollows(c) /\ OpenFor(c) /\ RowsAgree(c) /\ EvidenceKept(c)

WorkflowInv == Shape /\ \A c \in Commands : CommandInv(c)

-----------------------------------------------------------------------------
(* The order of the calls, as values                                       *)

LEMMA Calls ==
  DOMAIN After = {"training", "dataset", "put_model", "mirror_model", "model", "start", "prepare",
                  "checks", "append", "put", "mirror", "artifact", "complete", "failing_checks",
                  "partial", "failing"}
BY DEF After

LEMMA NextCall ==
  /\ After["training"] = "dataset" /\ After["dataset"] = "put_model"
  /\ After["put_model"] = "mirror_model" /\ After["mirror_model"] = "model"
  /\ After["model"] = "start" /\ After["start"] = "prepare" /\ After["prepare"] = "checks"
  /\ After["checks"] = "append" /\ After["append"] = "put" /\ After["put"] = "mirror"
  /\ After["mirror"] = "artifact" /\ After["artifact"] = "complete" /\ After["complete"] = "done"
  /\ After["failing_checks"] = "failing" /\ After["partial"] = "failing"
  /\ After["failing"] = "raised"
BY DEF After

LEMMA Handler ==
  /\ OnError["mirror"] = "partial"
  /\ \A p \in {"prepare", "checks", "append", "put", "artifact", "complete", "failing_checks",
               "partial"} : OnError[p] = "failing"
  /\ \A p \in {"training", "dataset", "put_model", "mirror_model", "model", "start", "failing"} :
       OnError[p] = "raised"
BY Calls DEF OnError, InTry, BestEffort

-----------------------------------------------------------------------------
(* Steps of other commands                                                 *)

\* A table gains rows of other runs only.
GrowsBeside(c, old, new) == old \subseteq new /\ \A x \in new \ old : x.run # c

RegistryBeside(c) ==
  /\ tx'[c] = tx[c] /\ runs'[c] = runs[c]
  /\ GrowsBeside(c, forecasts, forecasts')
  /\ GrowsBeside(c, labels, labels')
  /\ GrowsBeside(c, artifacts, artifacts')

Beside(c) ==
  /\ RegistryBeside(c)
  /\ pc'[c] = pc[c] /\ job'[c] = job[c] /\ work'[c] = work[c] /\ hurt'[c] = hurt[c]
  /\ mirror \subseteq mirror'

LEMMA BesideOpen ==
  ASSUME NEW c \in Commands, OpenFor(c), Beside(c)
  PROVE  OpenFor(c)'
<1> USE DEF Beside, RegistryBeside, GrowsBeside, Stages, StagesRun
<1>1. CASE tx[c] = Reg!Idle
  BY <1>1 DEF OpenFor, Reg!Idle
<1>2. CASE Stages(c, "dataset", {"training", "dataset"}) \/ Stages(c, "model", {"model"})
  BY <1>2 DEF OpenFor
<1>3. CASE Stages(c, "start", {"start"}) /\ tx[c].run = c /\ tx[c].rows = {RequestOf(c)}
  BY <1>3 DEF OpenFor, RequestOf
<1>4. CASE \/ StagesRun(c, "checks", {"checks", "failing_checks"})
           \/ StagesRun(c, "succeeded", {"complete"})
           \/ StagesRun(c, "failed", {"failing"})
  BY <1>4 DEF OpenFor
<1>5. CASE /\ StagesRun(c, "forecasts", {"append"}) /\ c \in Forecasting
           /\ \A f \in tx[c].rows : f.draft \in work[c].rows
           /\ ForecastListed(c, tx[c].rows \cup forecasts)
  <2>1. ForecastListed(c, tx[c].rows \cup forecasts)'
    BY <1>5 DEF ForecastListed, Reg!ForecastId
  <2> QED
    BY <1>5, <2>1 DEF OpenFor
<1>6. CASE /\ StagesRun(c, "labels", {"append"}) /\ c \notin Forecasting
           /\ \A l \in tx[c].rows : l.draft \in work[c].rows
           /\ LabelListed(c, tx[c].rows \cup labels)
  <2>1. LabelListed(c, tx[c].rows \cup labels)'
    BY <1>6 DEF LabelListed
  <2> QED
    BY <1>6, <2>1 DEF OpenFor
<1>7. CASE /\ StagesRun(c, "artifact", {"artifact", "partial"})
           /\ Referenced(c, tx[c].rows \cup artifacts)
           /\ \A x \in tx[c].rows : x.uri = "local" /\ \A a \in artifacts : Reg!ArtifactKey(a) # Reg!ArtifactKey(x)
  <2>1. Referenced(c, tx[c].rows \cup artifacts)'
    BY <1>7 DEF Referenced
  <2>2. \A x \in tx'[c].rows : \A a \in artifacts' : Reg!ArtifactKey(a) # Reg!ArtifactKey(x)
    BY <1>7 DEF Reg!ArtifactKey
  <2> QED
    BY <1>7, <2>1, <2>2 DEF OpenFor, Reg!ArtifactKey
<1> QED
  BY <1>1, <1>2, <1>3, <1>4, <1>5, <1>6, <1>7 DEF OpenFor

LEMMA BesideKeeps ==
  ASSUME NEW c \in Commands, CommandInv(c), Beside(c)
  PROVE  CommandInv(c)'
<1>1. RunFollows(c)'
  BY DEF CommandInv, RunFollows, Beside, RegistryBeside, RequestOf, Succeeded, Reg!Running,
     Reg!Absent, Reg!RunStatuses
<1>2. OpenFor(c)'
  BY BesideOpen DEF CommandInv
<1>3. RowsAgree(c)'
  <2> USE DEF CommandInv, RowsAgree, Beside, RegistryBeside, GrowsBeside
  <2>1. ForecastListed(c, forecasts) => ForecastListed(c, forecasts)'
    BY DEF ForecastListed, Reg!ForecastId
  <2>2. LabelListed(c, labels) => LabelListed(c, labels)'
    BY DEF LabelListed
  <2> QED
    BY <2>1, <2>2 DEF Succeeded
<1>4. EvidenceKept(c)'
  BY DEF CommandInv, EvidenceKept, Beside, RegistryBeside, GrowsBeside, Succeeded, Referenced
<1> QED
  BY <1>1, <1>2, <1>3, <1>4 DEF CommandInv

-----------------------------------------------------------------------------
(* Commits and calls                                                       *)

\* A commit of a command writes its own run, or rows of its own run.
CommitEffect(c) ==
  \/ tx[c].op \in {"dataset", "model", "checks"} /\ UNCHANGED <<runs, forecasts, labels, artifacts>>
  \/ /\ tx[c].op = "start" /\ UNCHANGED <<forecasts, labels, artifacts>>
     /\ runs' = [runs EXCEPT ![c] = [request |-> RequestOf(c), status |-> "running"]]
  \/ /\ tx[c].op \in {"succeeded", "failed"} /\ UNCHANGED <<forecasts, labels, artifacts>>
     /\ runs' = [runs EXCEPT ![c].status = tx[c].op]
  \/ /\ tx[c].op = "forecasts" /\ UNCHANGED <<runs, labels, artifacts>>
     /\ forecasts' = forecasts \cup tx[c].rows
  \/ /\ tx[c].op = "labels" /\ UNCHANGED <<runs, forecasts, artifacts>>
     /\ labels' = labels \cup tx[c].rows
  \/ /\ tx[c].op = "artifact" /\ UNCHANGED <<runs, forecasts, labels>>
     /\ artifacts' = artifacts \cup tx[c].rows

LEMMA CommitIs ==
  ASSUME NEW c \in Commands, OpenFor(c), Reg!Commit(c)
  PROVE  tx[c] # Reg!Idle /\ tx' = [tx EXCEPT ![c] = Reg!Idle] /\ CommitEffect(c)
<1> USE DEF Reg!Staged, Reg!Close
<1>1. CASE Reg!CommitDataset(c)
  BY <1>1 DEF Reg!CommitDataset, CommitEffect, Reg!Idle
<1>2. CASE Reg!CommitModel(c)
  BY <1>2 DEF Reg!CommitModel, CommitEffect, Reg!Idle
<1>3. CASE Reg!CommitStart(c)
  <2>1. tx[c].op = "start"
    BY <1>3 DEF Reg!CommitStart
  <2>2. tx[c].run = c /\ tx[c].rows = {RequestOf(c)}
    BY <2>1 DEF OpenFor, Stages, StagesRun, Reg!Idle
  <2> QED
    BY <1>3, <2>1, <2>2 DEF Reg!CommitStart, CommitEffect, Reg!Idle
<1>4. CASE Reg!CommitOutcome(c)
  <2>1. tx[c].op \in {"succeeded", "failed"}
    BY <1>4 DEF Reg!CommitOutcome
  <2>2. tx[c].run = c
    BY <2>1 DEF OpenFor, Stages, StagesRun, Reg!Idle
  <2> QED
    BY <1>4, <2>1, <2>2 DEF Reg!CommitOutcome, CommitEffect, Reg!Idle
<1>5. CASE Reg!CommitForecasts(c)
  BY <1>5 DEF Reg!CommitForecasts, CommitEffect, Reg!Idle
<1>6. CASE Reg!CommitLabels(c)
  BY <1>6 DEF Reg!CommitLabels, CommitEffect, Reg!Idle
<1>7. CASE Reg!CommitChecks(c)
  BY <1>7 DEF Reg!CommitChecks, CommitEffect, Reg!Idle
<1>8. CASE Reg!CommitArtifact(c)
  BY <1>8 DEF Reg!CommitArtifact, CommitEffect, Reg!Idle
<1> QED
  BY <1>1, <1>2, <1>3, <1>4, <1>5, <1>6, <1>7, <1>8 DEF Reg!Commit

LEMMA CommitBeside ==
  ASSUME Shape, NEW c \in Commands, OpenFor(c), Reg!Commit(c), NEW d \in Commands \ {c}
  PROVE  RegistryBeside(d)
<1>1. tx' = [tx EXCEPT ![c] = Reg!Idle] /\ CommitEffect(c)
  BY CommitIs
<1>2. tx[c].op \in {"forecasts", "labels", "artifact"} => \A x \in tx[c].rows : x.run = c
  BY DEF OpenFor, Stages, StagesRun, Reg!Idle
<1>3. tx'[d] = tx[d] /\ runs'[d] = runs[d]
  BY <1>1 DEF CommitEffect, Shape
<1> QED
  BY <1>1, <1>2, <1>3 DEF RegistryBeside, GrowsBeside, CommitEffect

\* A call opens the transaction of its phase and leaves the tables alone.
LEMMA OpeningTx ==
  ASSUME Shape, NEW c \in Commands, Opening(c)
  PROVE  /\ UNCHANGED Reg!tables
         /\ \A d \in Commands \ {c} : tx'[d] = tx[d]
BY DEF Opening, Shape, Reg!RegisterDataset, Reg!RegisterModel, Reg!StartRun, Reg!AddQualityChecks,
   Reg!AppendForecasts, Reg!SettleLabels, Reg!RegisterArtifact, Reg!CompleteRun, Reg!FailRun,
   Reg!Open

LEMMA OpenedTx ==
  ASSUME Shape, NEW c \in Commands, NEW op, NEW r, NEW rows, Reg!Open(c, op, r, rows)
  PROVE  tx'[c] = [op |-> op, run |-> r, rows |-> rows] /\ UNCHANGED Reg!tables
BY DEF Reg!Open, Shape

LEMMA StagedForecasts ==
  ASSUME Shape, NEW c \in Forecasting, c \in Commands, pc[c] = "append", pc'[c] = pc[c],
         job'[c] = job[c], work'[c] = work[c], RunFollows(c),
         Reg!AppendForecasts(c, c, work[c].rows)
  PROVE  OpenFor(c)'
<1> DEFINE batch == Reg!ForecastBatch(c, work[c].rows)
           fresh == Reg!Fresh(batch, forecasts, Reg!ForecastId)
<1>1. tx'[c] = [op |-> "forecasts", run |-> c, rows |-> fresh] /\ UNCHANGED Reg!tables
  BY OpenedTx DEF Reg!AppendForecasts
<1>2. \A x \in fresh : x \in batch
  BY DEF Reg!Fresh
<1>3. runs[c].request = RequestOf(c)
  <2>1. runs[c].status = "running"
    BY DEF Reg!AppendForecasts, Reg!MayAppend, Reg!RunningAs, Reg!Running
  <2>2. \/ runs[c] = Reg!Absent
        \/ \E s \in Reg!RunStatuses : runs[c] = [request |-> RequestOf(c), status |-> s]
    BY DEF RunFollows
  <2>3. runs[c] # Reg!Absent
    BY <2>1 DEF Reg!Absent
  <2>4. PICK s \in Reg!RunStatuses : runs[c] = [request |-> RequestOf(c), status |-> s]
    BY <2>2, <2>3
  <2>5. runs[c].request = [request |-> RequestOf(c), status |-> s].request
    BY <2>4
  <2> QED
    BY <2>5
<1>4. \A x \in batch : x.run = c /\ x.draft \in work[c].rows
  BY DEF Reg!ForecastBatch, Reg!ForecastRow
<1>5. ForecastListed(c, fresh \cup forecasts)
  <2> SUFFICES ASSUME NEW d \in work[c].rows
               PROVE  \E f \in fresh \cup forecasts :
                        /\ f.draft = d /\ f.dataset = job[c].bundle.id
                        /\ Reg!ForecastId(f) = <<Model.id, d.event, job[c].as_of>>
    BY DEF ForecastListed
  <2> DEFINE x == Reg!ForecastRow(c, d)
  <2>1. x \in batch
    BY DEF Reg!ForecastBatch
  <2>2. /\ x.draft = d /\ x.dataset = job[c].bundle.id
        /\ Reg!ForecastId(x) = <<Model.id, d.event, job[c].as_of>>
    BY <1>3 DEF Reg!ForecastRow, RequestOf, Reg!ForecastId
  <2>3. CASE x \in fresh
    BY <2>2, <2>3
  <2>4. CASE x \notin fresh
    <3>1. PICK y \in forecasts : Reg!ForecastId(y) = Reg!ForecastId(x)
      BY <2>1, <2>4 DEF Reg!Fresh
    <3>2. Reg!ForecastPayload(x) = Reg!ForecastPayload(y)
      BY <2>1, <3>1 DEF Reg!AppendForecasts, Reg!MayAppend, Reg!Consistent
    <3>3. y.draft = d /\ y.dataset = job[c].bundle.id
      BY <2>2, <3>2 DEF Reg!ForecastPayload
    <3> QED
      BY <2>2, <3>1, <3>3
  <2> QED
    BY <2>3, <2>4
<1> HIDE DEF batch, fresh
<1>6. ForecastListed(c, tx[c].rows \cup forecasts)'
  BY <1>1, <1>5 DEF ForecastListed, Reg!tables, Reg!ForecastId
<1> QED
  BY <1>1, <1>2, <1>4, <1>6 DEF OpenFor, Stages, StagesRun

LEMMA StagedLabels ==
  ASSUME Shape, NEW c \in Settling, pc[c] = "append", pc'[c] = pc[c], work'[c] = work[c],
         Reg!SettleLabels(c, c, work[c].rows)
  PROVE  OpenFor(c)'
<1> DEFINE batch == Reg!Drafted(c, work[c].rows)
           fresh == Reg!Fresh(batch, labels, Reg!LabelKey)
<1>1. tx'[c] = [op |-> "labels", run |-> c, rows |-> fresh] /\ UNCHANGED Reg!tables
  BY OpenedTx DEF Reg!SettleLabels, Settling
<1>2. \A x \in fresh : x \in batch
  BY DEF Reg!Fresh
<1>3. \A x \in batch : x.run = c /\ x.draft \in work[c].rows
  BY DEF Reg!Drafted
<1>4. LabelListed(c, fresh \cup labels)
  <2> SUFFICES ASSUME NEW d \in work[c].rows
               PROVE  \E l \in fresh \cup labels : l.draft = d
    BY DEF LabelListed
  <2> DEFINE x == [run |-> c, draft |-> d]
  <2>1. x \in batch
    BY DEF Reg!Drafted
  <2>2. CASE x \in fresh
    BY <2>2
  <2>3. CASE x \notin fresh
    <3>1. PICK y \in labels : Reg!LabelKey(y) = Reg!LabelKey(x)
      BY <2>1, <2>3 DEF Reg!Fresh
    <3>2. Reg!LabelPayload(x) = Reg!LabelPayload(y)
      BY <2>1, <3>1 DEF Reg!SettleLabels, Reg!MaySettle, Reg!Consistent
    <3> QED
      BY <3>2 DEF Reg!LabelPayload
  <2> QED
    BY <2>2, <2>3
<1> HIDE DEF batch, fresh
<1>5. LabelListed(c, tx[c].rows \cup labels)'
  BY <1>1, <1>4 DEF LabelListed, Reg!tables
<1> QED
  BY <1>1, <1>2, <1>3, <1>5 DEF OpenFor, Stages, StagesRun, Settling

LEMMA StagedArtifact ==
  ASSUME Shape, NEW c \in Commands, pc[c] \in {"artifact", "partial"}, pc'[c] = pc[c],
         Reg!RegisterArtifact(c, c, ArtifactOf(c))
  PROVE  OpenFor(c)'
<1> DEFINE x == Reg!Reference(c, ArtifactOf(c))
           fresh == Reg!Fresh({x}, artifacts, Reg!ArtifactKey)
<1>1. tx'[c] = [op |-> "artifact", run |-> c, rows |-> fresh] /\ UNCHANGED Reg!tables
  BY OpenedTx DEF Reg!RegisterArtifact
<1>2. x.run = c /\ x.sha = c /\ x.uri = "local"
  BY DEF Reg!Reference, ArtifactOf
<1>3. \A y \in fresh : y = x /\ \A a \in artifacts : Reg!ArtifactKey(a) # Reg!ArtifactKey(y)
  BY DEF Reg!Fresh
<1>4. Referenced(c, fresh \cup artifacts)
  <2>1. CASE x \in fresh
    BY <1>2, <2>1 DEF Referenced
  <2>2. CASE x \notin fresh
    <3>1. PICK y \in artifacts : Reg!ArtifactKey(y) = Reg!ArtifactKey(x)
      BY <2>2 DEF Reg!Fresh
    <3> QED
      BY <1>2, <3>1 DEF Reg!ArtifactKey, Referenced
  <2> QED
    BY <2>1, <2>2
<1> HIDE DEF x, fresh
<1>5. Referenced(c, tx[c].rows \cup artifacts)'
  BY <1>1, <1>4 DEF Referenced, Reg!tables
<1>6. \A y \in tx'[c].rows : y.run = c /\ y.uri = "local" /\ \A a \in artifacts' : Reg!ArtifactKey(a) # Reg!ArtifactKey(y)
  BY <1>1, <1>2, <1>3 DEF Reg!tables
<1> QED
  BY <1>1, <1>5, <1>6 DEF OpenFor, Stages, StagesRun, Reg!ArtifactKey

\* Opening a transaction keeps what the command says.
LEMMA CallKeeps ==
  ASSUME WorkflowInv, NEW c \in Commands, Call(c)
  PROVE  \A d \in Commands : CommandInv(d)'
<1> USE DEF WorkflowInv
<1>1. /\ UNCHANGED <<pc, job, work, hurt, mirror>> /\ Opening(c)
      /\ UNCHANGED <<runs, forecasts, labels, artifacts>>
      /\ \A d \in Commands \ {c} : tx'[d] = tx[d]
  BY OpeningTx DEF Call, stores, Reg!tables
<1>2. ASSUME NEW d \in Commands \ {c} PROVE CommandInv(d)'
  BY <1>1, BesideKeeps DEF Beside, RegistryBeside, GrowsBeside
<1>3. OpenFor(c)'
  <2> USE <1>1 DEF Stages, StagesRun
  <2>1. CASE \E d : pc[c] \in {"training", "dataset"} /\ Reg!RegisterDataset(c, d)
    <3>1. PICK d : pc[c] \in {"training", "dataset"} /\ Reg!RegisterDataset(c, d)
      BY <2>1
    <3>2. tx'[c] = [op |-> "dataset", run |-> None, rows |-> {d} \ datasets]
      BY <3>1, OpenedTx DEF Reg!RegisterDataset
    <3> QED
      BY <3>1, <3>2 DEF OpenFor
  <2>2. CASE pc[c] = "model" /\ Reg!RegisterModel(c, Model)
    <3>1. tx'[c] = [op |-> "model", run |-> None, rows |-> {Model} \ models]
      BY <2>2, OpenedTx DEF Reg!RegisterModel
    <3> QED
      BY <2>2, <3>1 DEF OpenFor
  <2>3. CASE pc[c] = "start" /\ Reg!StartRun(c, c, RequestOf(c))
    <3>1. tx'[c] = [op |-> "start", run |-> c, rows |-> {RequestOf(c)}]
      BY <2>3, OpenedTx DEF Reg!StartRun
    <3>2. RequestOf(c)' = RequestOf(c)
      BY DEF RequestOf
    <3> QED
      BY <2>3, <3>1, <3>2 DEF OpenFor
  <2>4. CASE pc[c] \in {"checks", "failing_checks"} /\ Reg!AddQualityChecks(c, c, work[c].checks)
    <3> DEFINE fresh == Reg!Fresh(Reg!Drafted(c, work[c].checks), checks, Reg!CheckKey)
    <3>1. tx'[c] = [op |-> "checks", run |-> c, rows |-> fresh]
      BY <2>4, OpenedTx DEF Reg!AddQualityChecks
    <3>2. \A x \in fresh : x.run = c
      BY DEF Reg!Fresh, Reg!Drafted
    <3> HIDE DEF fresh
    <3> QED
      BY <2>4, <3>1, <3>2 DEF OpenFor
  <2>5. CASE pc[c] = "append" /\ c \in Forecasting /\ Reg!AppendForecasts(c, c, work[c].rows)
    BY <2>5, StagedForecasts DEF CommandInv
  <2>6. CASE pc[c] = "append" /\ c \in Settling /\ Reg!SettleLabels(c, c, work[c].rows)
    BY <2>6, StagedLabels
  <2>7. CASE pc[c] \in {"artifact", "partial"} /\ Reg!RegisterArtifact(c, c, ArtifactOf(c))
    BY <2>7, StagedArtifact
  <2>8. CASE pc[c] = "complete" /\ Reg!CompleteRun(c, c)
    <3>1. tx'[c] = [op |-> "succeeded", run |-> c, rows |-> {}]
      BY <2>8, OpenedTx DEF Reg!CompleteRun
    <3> QED
      BY <2>8, <3>1 DEF OpenFor
  <2>9. CASE pc[c] = "failing" /\ Reg!FailRun(c, c)
    <3>1. tx'[c] = [op |-> "failed", run |-> c, rows |-> {}]
      BY <2>9, OpenedTx DEF Reg!FailRun
    <3> QED
      BY <2>9, <3>1 DEF OpenFor
  <2> QED
    BY <2>1, <2>2, <2>3, <2>4, <2>5, <2>6, <2>7, <2>8, <2>9 DEF Opening
<1>4. (RunFollows(c) /\ RowsAgree(c) /\ EvidenceKept(c))'
  BY <1>1 DEF CommandInv, RunFollows, RowsAgree, EvidenceKept, RequestOf, Succeeded, Reg!Running,
     Reg!Absent, Reg!RunStatuses, ForecastListed, LabelListed, Reg!ForecastId, Referenced
<1> QED
  BY <1>2, <1>3, <1>4 DEF CommandInv

-----------------------------------------------------------------------------
(* Exceptions that leave the registry as it is                             *)

\* What an exception leaves of the command's own state.
Unwound(c) ==
  /\ tx'[c] = Reg!Idle /\ runs'[c] = runs[c]
  /\ GrowsBeside(c, forecasts, forecasts')
  /\ GrowsBeside(c, labels, labels')
  /\ GrowsBeside(c, artifacts, artifacts')
  /\ job'[c] = job[c] /\ work'[c] = work[c] /\ mirror \subseteq mirror'

LEMMA UnwoundRows ==
  ASSUME NEW c \in Commands, CommandInv(c), Unwound(c),
         pc'[c] \notin Before \cup {"prepare"} \/ (pc[c] \in Before \cup {"prepare"} /\ pc'[c] \notin Late),
         pc'[c] \in Late => pc[c] \in Late
  PROVE  RowsAgree(c)'
<1> USE DEF CommandInv, RowsAgree, Unwound, GrowsBeside
<1>1. ForecastListed(c, forecasts) => ForecastListed(c, forecasts)'
  BY DEF ForecastListed, Reg!ForecastId
<1>2. LabelListed(c, labels) => LabelListed(c, labels)'
  BY DEF LabelListed
<1> QED
  BY <1>1, <1>2 DEF Succeeded

LEMMA ThrownKeeps ==
  ASSUME NEW c \in Commands, CommandInv(c), Unwound(c),
         pc[c] \in DOMAIN After, pc'[c] = OnError[pc[c]],
         \/ hurt'[c] = hurt[c] \cup {pc[c]}
         \/ /\ hurt'[c] = hurt[c] /\ pc[c] \notin {"mirror", "partial"}
            /\ pc[c] = "failing" => ~Reg!Running(c)
  PROVE  CommandInv(c)'
<1>0. \/ pc[c] = "mirror" /\ pc'[c] = "partial"
      \/ /\ pc[c] \in {"prepare", "checks", "append", "put", "artifact", "complete",
                       "failing_checks", "partial"}
         /\ pc'[c] = "failing"
      \/ /\ pc[c] \in {"training", "dataset", "put_model", "mirror_model", "model", "start", "failing"}
         /\ pc'[c] = "raised"
  BY Calls, Handler
<1>1. RunFollows(c)'
  <2>1. \/ runs'[c] = Reg!Absent'
        \/ \E s \in Reg!RunStatuses' : runs'[c] = [request |-> RequestOf(c), status |-> s]'
    BY DEF CommandInv, RunFollows, Unwound, RequestOf, Reg!Absent, Reg!RunStatuses
  <2>2. (Reg!Running(c) <=> Reg!Running(c)') /\ (Succeeded(c) <=> Succeeded(c)')
    BY DEF Unwound, Reg!Running, Succeeded
  <2>3. (Reg!Running(c) => ~Succeeded(c)) /\ (runs[c] = Reg!Absent => ~Succeeded(c) /\ ~Reg!Running(c))
    BY DEF Reg!Running, Succeeded, Reg!Absent
  <2>4. runs[c].status = "failed" => pc[c] = "raised"
    BY DEF CommandInv, RunFollows
  <2>5. CASE pc[c] \in Before
    BY <1>0, <2>1, <2>2, <2>3, <2>4, <2>5 DEF CommandInv, RunFollows, Unwound, Before, Within
  <2>6. CASE pc[c] \in Within
    BY <1>0, <2>1, <2>2, <2>3, <2>4, <2>6 DEF CommandInv, RunFollows, Unwound, Before, Within
  <2>7. CASE pc[c] = "failing"
    BY <1>0, <2>1, <2>2, <2>3, <2>4, <2>7 DEF CommandInv, RunFollows, Unwound, Before, Within
  <2> QED
    BY <1>0, <2>5, <2>6, <2>7 DEF Before, Within
<1>2. OpenFor(c)'
  BY DEF Unwound, OpenFor, Reg!Idle
<1>3. RowsAgree(c)'
  BY <1>0, UnwoundRows DEF Before, Late
<1>4. EvidenceKept(c)'
  BY <1>0 DEF CommandInv, EvidenceKept, Unwound, GrowsBeside, Succeeded, Referenced
<1> QED
  BY <1>1, <1>2, <1>3, <1>4 DEF CommandInv

\* The artifact of a batch can always be referenced again: its location is the local one.
LEMMA MayReferenceOwn ==
  ASSUME NEW c \in Commands, CommandInv(c), pc[c] = "partial"
  PROVE  Reg!MayReference(c, ArtifactOf(c))
<1> DEFINE x == Reg!Reference(c, ArtifactOf(c))
<1>1. runs[c] # Reg!Absent
  BY DEF CommandInv, RunFollows, Within, Reg!Running, Reg!Absent
<1>2. x.run = c /\ x.uri = "local"
  BY DEF Reg!Reference, ArtifactOf
<1>3. \A y \in {x} \cup artifacts : Reg!ArtifactKey(x) = Reg!ArtifactKey(y) => y.uri = "local"
  BY <1>2 DEF CommandInv, EvidenceKept, Reg!ArtifactKey
<1> QED
  BY <1>1, <1>2, <1>3 DEF Reg!MayReference, Reg!Consistent, Reg!ArtifactUri

LEMMA RefusedKeeps ==
  ASSUME WorkflowInv, NEW c \in Commands, Refused(c)
  PROVE  \A d \in Commands : CommandInv(d)'
<1> USE DEF WorkflowInv
<1>1. /\ UNCHANGED <<runs, forecasts, labels, artifacts, tx, job, work, hurt, mirror>>
      /\ pc' = [pc EXCEPT ![c] = OnError[pc[c]]] /\ pc[c] \in RegistryCalls /\ tx[c] = Reg!Idle
  BY DEF Refused, registry, stores, Throw
<1>2. ASSUME NEW d \in Commands \ {c} PROVE CommandInv(d)'
  BY <1>1, BesideKeeps DEF Beside, RegistryBeside, GrowsBeside, Shape
<1>3. pc[c] # "partial"
  BY MayReferenceOwn DEF Refused, Permitted
<1>4. pc[c] = "failing" => ~Reg!Running(c)
  BY DEF Refused, Permitted
<1>5. Unwound(c) /\ hurt'[c] = hurt[c]
  BY <1>1 DEF Unwound, GrowsBeside
<1>6. pc[c] \in DOMAIN After /\ pc[c] # "mirror" /\ pc'[c] = OnError[pc[c]]
  BY <1>1 DEF RegistryCalls, Shape
<1>7. CommandInv(c)'
  BY <1>3, <1>4, <1>5, <1>6, ThrownKeeps
<1> QED
  BY <1>2, <1>7

LEMMA OpenPhases ==
  ASSUME NEW c \in Commands, OpenFor(c), tx[c] # Reg!Idle
  PROVE  /\ pc[c] \in DOMAIN After /\ pc[c] \notin {"prepare", "put_model", "put", "mirror_model", "mirror"}
         /\ pc[c] = "partial" => tx[c].op = "artifact" /\ Reg!Unique(tx[c].rows, artifacts, Reg!ArtifactKey)
         /\ pc[c] = "failing" => tx[c].op = "failed" /\ tx[c].run = c
<1>1. pc[c] = "partial" => Reg!Unique(tx[c].rows, artifacts, Reg!ArtifactKey)
  BY DEF OpenFor, Stages, StagesRun, Reg!Unique
<1> QED
  BY <1>1, Calls DEF OpenFor, Stages, StagesRun

LEMMA RollbackUnwinds ==
  ASSUME Shape, NEW c \in Commands, Reg!Rollback(c), UNCHANGED <<job, work, mirror>>
  PROVE  /\ Unwound(c)
         /\ \A d \in Commands \ {c} : RegistryBeside(d)
BY DEF Reg!Rollback, Reg!Close, Reg!tables, Unwound, GrowsBeside, RegistryBeside, Shape

LEMMA CollidedKeeps ==
  ASSUME WorkflowInv, NEW c \in Commands, Collided(c)
  PROVE  \A d \in Commands : CommandInv(d)'
<1> USE DEF WorkflowInv
<1>1. /\ UNCHANGED <<job, work, hurt, mirror>> /\ Reg!Rollback(c) /\ tx[c] # Reg!Idle
      /\ pc' = [pc EXCEPT ![c] = OnError[pc[c]]] /\ ~Reg!Fits(c)
  BY DEF Collided, stores, Throw
<1>2. ASSUME NEW d \in Commands \ {c} PROVE CommandInv(d)'
  BY <1>1, RollbackUnwinds, BesideKeeps DEF Beside, Shape
<1>3. pc[c] # "partial" /\ (pc[c] = "failing" => ~Reg!Running(c))
  BY <1>1, OpenPhases DEF CommandInv, Reg!Fits, Reg!Staged
<1>4. CommandInv(c)'
  BY <1>1, <1>3, RollbackUnwinds, OpenPhases, ThrownKeeps DEF CommandInv, Shape
<1> QED
  BY <1>2, <1>4

LEMMA OutageKeeps ==
  ASSUME WorkflowInv, NEW c \in Commands, Outage(c)
  PROVE  \A d \in Commands : CommandInv(d)'
<1> USE DEF WorkflowInv
<1>1. /\ UNCHANGED <<job, work, mirror>> /\ Reg!Rollback(c) /\ tx[c] # Reg!Idle
      /\ pc' = [pc EXCEPT ![c] = OnError[pc[c]]]
      /\ hurt' = [hurt EXCEPT ![c] = @ \cup {pc[c]}]
  BY DEF Outage, stores, Throw, Hurt
<1>2. ASSUME NEW d \in Commands \ {c} PROVE CommandInv(d)'
  BY <1>1, RollbackUnwinds, BesideKeeps DEF Beside, Shape
<1>3. CommandInv(c)'
  BY <1>1, RollbackUnwinds, OpenPhases, ThrownKeeps DEF CommandInv, Shape
<1> QED
  BY <1>2, <1>3

LEMMA FailedKeeps ==
  ASSUME WorkflowInv, NEW c \in Commands, Failed(c)
  PROVE  \A d \in Commands : CommandInv(d)'
<1> USE DEF WorkflowInv
<1>1. /\ UNCHANGED <<job, work, runs, forecasts, labels, artifacts, tx>> /\ mirror \subseteq mirror'
      /\ pc' = [pc EXCEPT ![c] = OnError[pc[c]]]
      /\ hurt' = [hurt EXCEPT ![c] = @ \cup {pc[c]}]
      /\ pc[c] \in {"prepare", "put_model", "put", "mirror_model", "mirror"}
  BY DEF Failed, registry, Throw, Hurt
<1>2. ASSUME NEW d \in Commands \ {c} PROVE CommandInv(d)'
  BY <1>1, BesideKeeps DEF Beside, RegistryBeside, GrowsBeside, Shape
<1>3. tx[c] = Reg!Idle
  BY <1>1, OpenPhases DEF CommandInv
<1>4. Unwound(c)
  BY <1>1, <1>3 DEF Unwound, GrowsBeside
<1>5. pc[c] \in DOMAIN After /\ pc'[c] = OnError[pc[c]] /\ hurt'[c] = hurt[c] \cup {pc[c]}
  BY <1>1, Calls DEF Shape
<1>6. CommandInv(c)'
  BY <1>4, <1>5, ThrownKeeps
<1> QED
  BY <1>2, <1>6

-----------------------------------------------------------------------------
(* Commits, heard of or not                                                *)

Quiet == {"training", "dataset", "model", "checks", "failing_checks"}

\* What the commit of each call leaves.
LEMMA Committed ==
  ASSUME Shape, NEW c \in Commands, CommandInv(c), Reg!Commit(c), UNCHANGED <<job, work>>
  PROVE  /\ tx'[c] = Reg!Idle
         /\ \/ /\ pc[c] \in Quiet
               /\ UNCHANGED <<runs, forecasts, labels, artifacts>>
            \/ /\ pc[c] = "start" /\ UNCHANGED <<forecasts, labels, artifacts>>
               /\ runs'[c] = [request |-> RequestOf(c), status |-> "running"]
            \/ /\ pc[c] = "append" /\ UNCHANGED <<runs, artifacts>>
               /\ \A f \in forecasts' \ forecasts : f.draft \in work[c].rows
               /\ \A l \in labels' \ labels : l.draft \in work[c].rows
               /\ IF c \in Forecasting THEN ForecastListed(c, forecasts') ELSE LabelListed(c, labels')
            \/ /\ pc[c] \in {"artifact", "partial"} /\ UNCHANGED <<runs, forecasts, labels>>
               /\ Referenced(c, artifacts') /\ artifacts \subseteq artifacts'
               /\ \A a \in artifacts' \ artifacts : a.uri = "local"
            \/ /\ pc[c] = "complete" /\ UNCHANGED <<forecasts, labels, artifacts>>
               /\ runs'[c] = [runs[c] EXCEPT !.status = "succeeded"]
            \/ /\ pc[c] = "failing" /\ UNCHANGED <<forecasts, labels, artifacts>>
               /\ runs'[c] = [runs[c] EXCEPT !.status = "failed"]
<1>1. tx[c] # Reg!Idle /\ tx' = [tx EXCEPT ![c] = Reg!Idle] /\ CommitEffect(c)
  BY CommitIs DEF CommandInv
<1>2. tx'[c] = Reg!Idle
  BY <1>1 DEF Shape
<1> USE DEF Stages, StagesRun, CommitEffect, Shape
<1>3. CASE Stages(c, "dataset", {"training", "dataset"}) \/ Stages(c, "model", {"model"})
  BY <1>1, <1>2, <1>3 DEF Quiet
<1>4. CASE Stages(c, "start", {"start"}) /\ tx[c].run = c /\ tx[c].rows = {RequestOf(c)}
  BY <1>1, <1>2, <1>4
<1>5. CASE StagesRun(c, "checks", {"checks", "failing_checks"})
  BY <1>1, <1>2, <1>5 DEF Quiet
<1>6. CASE /\ StagesRun(c, "forecasts", {"append"}) /\ c \in Forecasting
           /\ \A f \in tx[c].rows : f.draft \in work[c].rows
           /\ ForecastListed(c, tx[c].rows \cup forecasts)
  <2>1. UNCHANGED <<runs, labels, artifacts>> /\ forecasts' = forecasts \cup tx[c].rows
    BY <1>1, <1>6
  <2>2. tx[c].rows \cup forecasts = forecasts'
    BY <2>1
  <2>3. ForecastListed(c, forecasts')
    BY <1>6, <2>2
  <2>4. \A f \in forecasts' \ forecasts : f.draft \in work[c].rows
    BY <1>6, <2>1
  <2> QED
    BY <1>2, <1>6, <2>1, <2>3, <2>4
<1>7. CASE /\ StagesRun(c, "labels", {"append"}) /\ c \notin Forecasting
           /\ \A l \in tx[c].rows : l.draft \in work[c].rows
           /\ LabelListed(c, tx[c].rows \cup labels)
  <2>1. UNCHANGED <<runs, forecasts, artifacts>> /\ labels' = labels \cup tx[c].rows
    BY <1>1, <1>7
  <2>2. tx[c].rows \cup labels = labels'
    BY <2>1
  <2>3. LabelListed(c, labels')
    BY <1>7, <2>2
  <2>4. \A l \in labels' \ labels : l.draft \in work[c].rows
    BY <1>7, <2>1
  <2> QED
    BY <1>2, <1>7, <2>1, <2>3, <2>4
<1>8. CASE /\ StagesRun(c, "artifact", {"artifact", "partial"})
           /\ Referenced(c, tx[c].rows \cup artifacts)
           /\ \A x \in tx[c].rows : x.uri = "local" /\ \A a \in artifacts : Reg!ArtifactKey(a) # Reg!ArtifactKey(x)
  <2>1. UNCHANGED <<runs, forecasts, labels>> /\ artifacts' = artifacts \cup tx[c].rows
    BY <1>1, <1>8
  <2>2. tx[c].rows \cup artifacts = artifacts'
    BY <2>1
  <2>3. Referenced(c, artifacts')
    BY <1>8, <2>2
  <2>4. artifacts \subseteq artifacts' /\ \A a \in artifacts' \ artifacts : a.uri = "local"
    BY <1>8, <2>1
  <2> QED
    BY <1>2, <1>8, <2>1, <2>3, <2>4
<1>9. CASE StagesRun(c, "succeeded", {"complete"})
  BY <1>1, <1>2, <1>9
<1>10. CASE StagesRun(c, "failed", {"failing"})
  BY <1>1, <1>2, <1>10
<1> QED
  BY <1>1, <1>3, <1>4, <1>5, <1>6, <1>7, <1>8, <1>9, <1>10 DEF CommandInv, OpenFor

\* After a commit the command is in the next call, or in the handler of a lost reply.
Heard(c)   == pc'[c] = After[pc[c]] /\ hurt'[c] = hurt[c]
Unheard(c) == pc'[c] = OnError[pc[c]] /\ hurt'[c] = hurt[c] \cup {pc[c]}

LEMMA CommitNext ==
  ASSUME NEW c \in Commands, Heard(c) \/ Unheard(c),
         pc[c] \in Quiet \cup {"start", "append", "artifact", "partial", "complete", "failing"}
  PROVE  /\ Unheard(c) => pc[c] \in hurt'[c]
         /\ hurt[c] \subseteq hurt'[c] /\ hurt'[c] \subseteq hurt[c] \cup {pc[c]}
         /\ \/ pc[c] \in {"training", "dataset"} /\ pc'[c] \in {"dataset", "put_model", "raised"}
            \/ pc[c] = "model" /\ pc'[c] \in {"start", "raised"}
            \/ pc[c] = "checks" /\ pc'[c] \in {"append", "failing"}
            \/ pc[c] = "failing_checks" /\ pc'[c] = "failing"
            \/ pc[c] = "start" /\ (pc'[c] = "prepare" \/ (pc'[c] = "raised" /\ "start" \in hurt'[c]))
            \/ pc[c] = "append" /\ pc'[c] \in {"put", "failing"}
            \/ pc[c] = "artifact" /\ pc'[c] \in {"complete", "failing"}
            \/ pc[c] = "partial" /\ pc'[c] = "failing"
            \/ pc[c] = "complete" /\ (pc'[c] = "done" \/ (pc'[c] = "failing" /\ "complete" \in hurt'[c]))
            \/ pc[c] = "failing" /\ pc'[c] = "raised"
<1>0. Unheard(c) => pc[c] \in hurt'[c]
  BY DEF Unheard
<1>1. CASE Heard(c)
  <2>1. hurt'[c] = hurt[c] /\ pc'[c] = After[pc[c]]
    BY <1>1 DEF Heard
  <2>2. /\ pc[c] = "training" => pc'[c] = "dataset"
        /\ pc[c] = "dataset" => pc'[c] = "put_model"
        /\ pc[c] = "model" => pc'[c] = "start"
        /\ pc[c] = "checks" => pc'[c] = "append"
        /\ pc[c] = "start" => pc'[c] = "prepare"
        /\ pc[c] = "append" => pc'[c] = "put"
        /\ pc[c] = "artifact" => pc'[c] = "complete"
        /\ pc[c] = "complete" => pc'[c] = "done"
        /\ pc[c] \in {"failing_checks", "partial"} => pc'[c] = "failing"
        /\ pc[c] = "failing" => pc'[c] = "raised"
    BY <2>1, NextCall
  <2>3. hurt[c] \subseteq hurt'[c] /\ hurt'[c] \subseteq hurt[c] \cup {pc[c]}
    BY <2>1
  <2> HIDE <2>1
  <2> QED
    BY <1>0, <2>2, <2>3 DEF Quiet
<1>2. CASE Unheard(c)
  <2>1. pc[c] \in hurt'[c] /\ hurt[c] \subseteq hurt'[c] /\ hurt'[c] \subseteq hurt[c] \cup {pc[c]}
    BY <1>2 DEF Unheard
  <2>2. /\ pc[c] \in {"training", "dataset", "model", "start", "failing"} => pc'[c] = "raised"
        /\ pc[c] \in {"checks", "failing_checks", "append", "artifact", "partial", "complete"} =>
             pc'[c] = "failing"
    BY <1>2, Handler DEF Unheard
  <2> QED
    BY <2>1, <2>2 DEF Quiet
<1> QED
  BY <1>1, <1>2

\* An outcome changes the status of the run and nothing else.
LEMMA OutcomeIs ==
  ASSUME NEW c \in Commands, RunFollows(c), pc[c] \in {"complete", "failing"}, NEW o
  PROVE  [runs[c] EXCEPT !.status = o] = [request |-> RequestOf(c), status |-> o]
<1>1. runs[c] # Reg!Absent
  BY DEF RunFollows, Within, Reg!Running, Succeeded, Reg!Absent
<1>2. PICK s \in Reg!RunStatuses : runs[c] = [request |-> RequestOf(c), status |-> s]
  BY <1>1 DEF RunFollows
<1> QED
  BY <1>2

\* A commit makes no run succeeded but in complete_run.
LEMMA CommitSucceeds ==
  ASSUME Shape, NEW c \in Commands, CommandInv(c), Reg!Commit(c), UNCHANGED <<job, work>>,
         Succeeded(c)'
  PROVE  Succeeded(c) \/ pc[c] = "complete"
<1>1. CASE pc[c] = "failing" /\ runs'[c] = [runs[c] EXCEPT !.status = "failed"]
  <2>1. runs'[c] = [request |-> RequestOf(c), status |-> "failed"]
    BY <1>1, OutcomeIs DEF CommandInv
  <2>2. runs'[c].status = "failed"
    BY <2>1
  <2> QED
    BY <2>2 DEF Succeeded
<1>2. CASE pc[c] = "start" /\ runs'[c] = [request |-> RequestOf(c), status |-> "running"]
  <2>1. runs'[c].status = "running"
    BY <1>2
  <2> QED
    BY <2>1 DEF Succeeded
<1> QED
  BY <1>1, <1>2, Committed DEF Succeeded

LEMMA CommitRun ==
  ASSUME Shape, NEW c \in Commands, CommandInv(c), Reg!Commit(c), UNCHANGED <<job, work>>,
         Heard(c) \/ Unheard(c)
  PROVE  RunFollows(c)'
<1> DEFINE known == \/ runs[c] = Reg!Absent
                    \/ \E s \in Reg!RunStatuses : runs[c] = [request |-> RequestOf(c), status |-> s]
<1>1. known /\ RunFollows(c)
  BY DEF CommandInv, RunFollows
<1>2. RequestOf(c)' = RequestOf(c) /\ Reg!Absent' = Reg!Absent
  BY DEF RequestOf, Reg!Absent
<1>3. CASE runs'[c] = runs[c] /\ pc[c] \in Quiet \cup {"append", "artifact", "partial"}
  BY <1>1, <1>2, <1>3, CommitNext DEF RunFollows, Reg!Running, Succeeded, Before, Within, Quiet, Reg!Absent,
     Reg!RunStatuses
<1>4. CASE pc[c] = "start" /\ runs'[c] = [request |-> RequestOf(c), status |-> "running"]
  <2>1. runs'[c].status = "running"
    BY <1>4
  <2>2. pc'[c] = "prepare" \/ (pc'[c] = "raised" /\ "start" \in hurt'[c])
    BY <1>4, CommitNext
  <2> QED
    BY <1>2, <1>4, <2>1, <2>2 DEF RunFollows, Reg!Running, Succeeded, Before, Within, Reg!RunStatuses
<1>5. CASE pc[c] = "complete" /\ runs'[c] = [runs[c] EXCEPT !.status = "succeeded"]
  <2>3. runs'[c] = [request |-> RequestOf(c), status |-> "succeeded"]
    BY <1>1, <1>5, OutcomeIs
  <2>4. runs'[c].status = "succeeded"
    BY <2>3
  <2>5. pc'[c] = "done" \/ (pc'[c] = "failing" /\ "complete" \in hurt'[c])
    BY <1>5, CommitNext
  <2> QED
    BY <1>2, <2>3, <2>4, <2>5 DEF RunFollows, Reg!Running, Succeeded, Before, Within, Reg!RunStatuses
<1>6. CASE pc[c] = "failing" /\ runs'[c] = [runs[c] EXCEPT !.status = "failed"]
  <2>3. runs'[c] = [request |-> RequestOf(c), status |-> "failed"]
    BY <1>1, <1>6, OutcomeIs
  <2>4. runs'[c].status = "failed"
    BY <2>3
  <2>5. pc'[c] = "raised"
    BY <1>6, CommitNext
  <2> QED
    BY <1>2, <2>3, <2>4, <2>5 DEF RunFollows, Reg!Running, Succeeded, Before, Within, Reg!RunStatuses
<1> QED
  BY <1>3, <1>4, <1>5, <1>6, Committed

LEMMA CommitRows ==
  ASSUME Shape, NEW c \in Commands, CommandInv(c), Reg!Commit(c), UNCHANGED <<job, work>>,
         Heard(c) \/ Unheard(c)
  PROVE  RowsAgree(c)'
<1> USE DEF RowsAgree
<1>1. RowsAgree(c)
  BY DEF CommandInv
<1>2. CASE pc[c] = "append" /\ UNCHANGED <<runs, artifacts>>
  <2>1. pc'[c] \in {"put", "failing"}
    BY <1>2, CommitNext
  <2>0. IF c \in Forecasting THEN ForecastListed(c, forecasts') ELSE LabelListed(c, labels')
    BY <1>2, Committed DEF Quiet
  <2>2. (IF c \in Forecasting THEN ForecastListed(c, forecasts) ELSE LabelListed(c, labels))'
    BY <2>0 DEF ForecastListed, LabelListed, Reg!ForecastId
  <2>3. /\ \A f \in forecasts' \ forecasts : f.draft \in work[c].rows
        /\ \A l \in labels' \ labels : l.draft \in work[c].rows
    BY <1>2, Committed DEF Quiet
  <2> QED
    BY <1>1, <2>1, <2>2, <2>3 DEF Before
<1>3. CASE pc[c] # "append" /\ UNCHANGED <<forecasts, labels>>
  <2>1. /\ ForecastListed(c, forecasts)' <=> ForecastListed(c, forecasts)
        /\ LabelListed(c, labels)' <=> LabelListed(c, labels)
    BY <1>3 DEF ForecastListed, LabelListed, Reg!ForecastId
  <2>2. pc[c] \in Quiet \cup {"start", "append", "artifact", "partial", "complete", "failing"}
    BY Committed
  <2>3. pc'[c] \in Before \cup {"prepare"} => pc[c] \in Before \cup {"prepare"}
    BY <1>3, <2>2, CommitNext DEF Before
  <2>4. pc'[c] \in Late \/ Succeeded(c)' => pc[c] \in Late \/ Succeeded(c)
    <3>1. pc'[c] \in Late => pc[c] \in Late
      BY <1>3, <2>2, CommitNext DEF Late
    <3>2. Succeeded(c)' => Succeeded(c) \/ pc[c] = "complete"
      BY CommitSucceeds
    <3> QED
      BY <3>1, <3>2 DEF Late
  <2> QED
    BY <1>1, <1>3, <2>1, <2>3, <2>4
<1> QED
  BY <1>2, <1>3, Committed DEF Quiet

LEMMA CommitEvidence ==
  ASSUME Shape, NEW c \in Commands, CommandInv(c), Reg!Commit(c), UNCHANGED <<job, work, mirror>>,
         Heard(c) \/ Unheard(c)
  PROVE  EvidenceKept(c)'
<1> USE DEF EvidenceKept
<1>1. EvidenceKept(c)
  BY DEF CommandInv
<1>2. pc[c] \in Quiet \cup {"start", "append", "artifact", "partial", "complete", "failing"}
  BY Committed
<1>3. Succeeded(c)' => Succeeded(c) \/ pc[c] = "complete"
  BY CommitSucceeds
<1>4. CASE pc[c] \in {"artifact", "partial"} /\ UNCHANGED <<runs, forecasts, labels>>
  <2>1. /\ Referenced(c, artifacts') /\ artifacts \subseteq artifacts'
        /\ \A a \in artifacts' \ artifacts : a.uri = "local"
    BY <1>4, Committed DEF Quiet
  <2>2. Referenced(c, artifacts)'
    BY <2>1 DEF Referenced
  <2> QED
    BY <1>1, <1>2, <1>3, <1>4, <2>1, <2>2, CommitNext
<1>5. CASE pc[c] \notin {"artifact", "partial"} /\ UNCHANGED artifacts
  <2>1. Referenced(c, artifacts)' <=> Referenced(c, artifacts)
    BY <1>5 DEF Referenced
  <2> QED
    BY <1>1, <1>2, <1>3, <1>5, <2>1, CommitNext DEF Quiet
<1> QED
  BY <1>4, <1>5, Committed DEF Quiet

LEMMA CommitKeeps ==
  ASSUME WorkflowInv, NEW c \in Commands, Return(c) \/ LostReply(c)
  PROVE  \A d \in Commands : CommandInv(d)'
<1> USE DEF WorkflowInv
<1>1. UNCHANGED <<job, work, mirror>> /\ Reg!Commit(c)
  BY DEF Return, LostReply, stores
<1>2. /\ Heard(c) \/ Unheard(c)
      /\ \A d \in Commands \ {c} : pc'[d] = pc[d] /\ hurt'[d] = hurt[d]
  BY DEF Return, LostReply, Continue, Throw, Hurt, Heard, Unheard, Shape
<1>3. ASSUME NEW d \in Commands \ {c} PROVE CommandInv(d)'
  BY <1>1, <1>2, CommitBeside, BesideKeeps DEF Beside, CommandInv
<1>4. OpenFor(c)'
  BY <1>1, Committed DEF OpenFor, Reg!Idle
<1>5. CommandInv(c)'
  BY <1>1, <1>2, <1>4, CommitRun, CommitRows, CommitEvidence DEF CommandInv
<1> QED
  BY <1>3, <1>5

-----------------------------------------------------------------------------
(* Steps that leave the registry alone                                     *)

LEMMA CrashKeeps ==
  ASSUME WorkflowInv, NEW c \in Commands, Crash(c)
  PROVE  \A d \in Commands : CommandInv(d)'
<1> USE DEF WorkflowInv
<1>1. /\ UNCHANGED <<runs, forecasts, labels, artifacts, job, work, mirror>>
      /\ pc[c] \notin Stopped \cup {"idle"}
      /\ pc' = [pc EXCEPT ![c] = "crashed"] /\ tx' = [tx EXCEPT ![c] = Reg!Idle]
      /\ hurt' = [hurt EXCEPT ![c] = @ \cup {pc[c]}]
  BY DEF Crash, Hurt, stores
<1>2. ASSUME NEW d \in Commands \ {c} PROVE CommandInv(d)'
  BY <1>1, BesideKeeps DEF Beside, RegistryBeside, GrowsBeside, Shape
<1>3. Unwound(c) /\ pc'[c] = "crashed"
  BY <1>1 DEF Unwound, GrowsBeside, Shape
<1>4. RunFollows(c)'
  BY <1>1, <1>3 DEF Stopped, CommandInv, RunFollows, Unwound, RequestOf, Succeeded, Reg!Running,
     Reg!Absent, Reg!RunStatuses, Before, Within
<1>5. OpenFor(c)'
  BY <1>3 DEF Unwound, OpenFor, Reg!Idle
<1>6. RowsAgree(c)'
  BY <1>3, UnwoundRows DEF Before, Late
<1>7. EvidenceKept(c)'
  BY <1>3 DEF CommandInv, EvidenceKept, Unwound, GrowsBeside, Succeeded, Referenced
<1> QED
  BY <1>2, <1>4, <1>5, <1>6, <1>7 DEF CommandInv

LEMMA LaunchKeeps ==
  ASSUME WorkflowInv, NEW c \in Commands, NEW b, NEW t, Launch(c, b, t)
  PROVE  \A d \in Commands : CommandInv(d)'
<1> USE DEF WorkflowInv
<1>1. /\ UNCHANGED <<runs, forecasts, labels, artifacts, tx, work, mirror, hurt>>
      /\ pc[c] = "idle" /\ pc'[c] \in {"training", "dataset"}
      /\ \A d \in Commands \ {c} : pc'[d] = pc[d] /\ job'[d] = job[d]
  BY DEF Launch, registry, stores, Shape
<1>2. ASSUME NEW d \in Commands \ {c} PROVE CommandInv(d)'
  BY <1>1, BesideKeeps DEF Beside, RegistryBeside, GrowsBeside
<1>3. runs[c] = Reg!Absent
  BY <1>1 DEF CommandInv, RunFollows, Before
<1>4. RunFollows(c)'
  BY <1>1, <1>3 DEF RunFollows, Reg!Absent, Reg!Running, Before, Within
<1>5. OpenFor(c)'
  BY <1>1 DEF CommandInv, OpenFor, Stages, StagesRun, Reg!Idle
<1>6. RowsAgree(c)'
  BY <1>1, <1>3 DEF CommandInv, RowsAgree, Before, Late, Succeeded, Reg!Absent
<1>7. EvidenceKept(c)'
  BY <1>1, <1>3 DEF CommandInv, EvidenceKept, Succeeded, Reg!Absent
<1> QED
  BY <1>2, <1>4, <1>5, <1>6, <1>7 DEF CommandInv

\* What a command is to record is computed before any of its rows exists.
LEMMA PrepareKeeps ==
  ASSUME WorkflowInv, NEW c \in Commands, Score(c) \/ Match(c)
  PROVE  \A d \in Commands : CommandInv(d)'
<1> USE DEF WorkflowInv
<1>1. /\ UNCHANGED <<runs, forecasts, labels, artifacts, tx, job, mirror, hurt>>
      /\ pc[c] = "prepare" /\ pc'[c] \in {"checks", "failing_checks"}
      /\ \A d \in Commands \ {c} : pc'[d] = pc[d] /\ work'[d] = work[d]
  <2>1. CASE Score(c)
    BY <2>1 DEF Score, registry, stores, Shape
  <2>2. CASE Match(c)
    BY <2>2, NextCall DEF Match, Continue, registry, stores, Shape
  <2> QED
    BY <2>1, <2>2
<1>2. ASSUME NEW d \in Commands \ {c} PROVE CommandInv(d)'
  BY <1>1, BesideKeeps DEF Beside, RegistryBeside, GrowsBeside
<1>3. Reg!Running(c)
  BY <1>1 DEF CommandInv, RunFollows, Within
<1>4. RunFollows(c)'
  BY <1>1, <1>3 DEF CommandInv, RunFollows, RequestOf, Reg!Absent, Reg!Running, Reg!RunStatuses, Before, Within
<1>5. OpenFor(c)'
  BY <1>1 DEF CommandInv, OpenFor, Stages, StagesRun, Reg!Idle
<1>6. RowsAgree(c)'
  BY <1>1, <1>3 DEF CommandInv, RowsAgree, Before, Late, Succeeded, Reg!Running
<1>7. EvidenceKept(c)'
  BY <1>1, <1>3 DEF CommandInv, EvidenceKept, Succeeded, Reg!Running
<1> QED
  BY <1>2, <1>4, <1>5, <1>6, <1>7 DEF CommandInv

LEMMA PutKeeps ==
  ASSUME WorkflowInv, NEW c \in Commands, PutPrimary(c) \/ PutMirror(c)
  PROVE  \A d \in Commands : CommandInv(d)'
<1> USE DEF WorkflowInv
<1>1. /\ UNCHANGED <<runs, forecasts, labels, artifacts, tx, job, work, hurt>> /\ mirror \subseteq mirror'
      /\ pc' = [pc EXCEPT ![c] = After[pc[c]]]
      /\ pc[c] \in {"put_model", "mirror_model", "put", "mirror"}
      /\ pc[c] = "mirror" => c \in mirror'
  BY DEF PutPrimary, PutMirror, Continue, registry, Object
<1>2. ASSUME NEW d \in Commands \ {c} PROVE CommandInv(d)'
  BY <1>1, BesideKeeps DEF Beside, RegistryBeside, GrowsBeside, Shape
<1>3. \/ pc[c] = "put_model" /\ pc'[c] = "mirror_model"
      \/ pc[c] = "mirror_model" /\ pc'[c] = "model"
      \/ pc[c] = "put" /\ pc'[c] = "mirror"
      \/ pc[c] = "mirror" /\ pc'[c] = "artifact"
  BY <1>1, NextCall DEF Shape
<1>4. RunFollows(c)'
  BY <1>1, <1>3 DEF CommandInv, RunFollows, RequestOf, Succeeded, Reg!Absent, Reg!Running, Reg!RunStatuses,
     Before, Within
<1>5. OpenFor(c)'
  BY <1>1, <1>3 DEF CommandInv, OpenFor, Stages, StagesRun, Reg!Idle
<1>6. RowsAgree(c)'
  BY <1>1, <1>3 DEF CommandInv, RowsAgree, Before, Late, Succeeded, ForecastListed, LabelListed,
     Reg!ForecastId
<1>7. EvidenceKept(c)'
  BY <1>1, <1>3 DEF CommandInv, EvidenceKept, Succeeded, Referenced
<1> QED
  BY <1>2, <1>4, <1>5, <1>6, <1>7 DEF CommandInv

LEMMA OtherwiseKeeps ==
  ASSUME WorkflowInv, Tick \/ Teardown \/ UNCHANGED vars
  PROVE  \A d \in Commands : CommandInv(d)'
<1>1. UNCHANGED <<runs, forecasts, labels, artifacts, tx, pc, job, work, hurt, mirror>>
  BY DEF Tick, Teardown, vars, registry, stores
<1> QED
  BY <1>1, BesideKeeps DEF WorkflowInv, Beside, RegistryBeside, GrowsBeside

-----------------------------------------------------------------------------
(* The invariant                                                           *)

LEMMA PhasesFollow == \A p \in DOMAIN After : After[p] \in Phases /\ OnError[p] \in Phases
BY Calls, NextCall, Handler DEF Phases, Stopped

LEMMA CallsShape ==
  ASSUME Shape, NEW c \in Commands, Opening(c) \/ Reg!Commit(c) \/ Reg!Rollback(c)
  PROVE  DOMAIN tx' = Commands /\ DOMAIN runs' = Commands
<1>1. CASE Opening(c)
  <2>1. UNCHANGED runs
    BY <1>1, OpeningTx DEF Reg!tables
  <2> QED
    BY <1>1, <2>1 DEF Shape, Opening, Reg!RegisterDataset, Reg!RegisterModel, Reg!StartRun,
       Reg!AddQualityChecks, Reg!AppendForecasts, Reg!SettleLabels, Reg!RegisterArtifact,
       Reg!CompleteRun, Reg!FailRun, Reg!Open
<1>2. CASE Reg!Commit(c)
  BY <1>2 DEF Shape, Reg!Commit, Reg!CommitDataset, Reg!CommitModel, Reg!CommitStart, Reg!CommitOutcome,
     Reg!CommitForecasts, Reg!CommitLabels, Reg!CommitChecks, Reg!CommitArtifact, Reg!Close
<1>3. CASE Reg!Rollback(c)
  BY <1>3 DEF Shape, Reg!Rollback, Reg!Close, Reg!tables
<1> QED
  BY <1>1, <1>2, <1>3

LEMMA ShapeKept ==
  ASSUME WorkflowInv, [Next]_vars
  PROVE  Shape'
<1> USE DEF Shape, WorkflowInv
<1>1. ASSUME NEW c \in Commands,
             Return(c) \/ LostReply(c) \/ Collided(c) \/ Outage(c)
      PROVE  Shape'
  <2>1. DOMAIN tx' = Commands /\ DOMAIN runs' = Commands
    BY <1>1, CallsShape DEF Return, LostReply, Collided, Outage
  <2>2. pc[c] \in DOMAIN After
    <3>1. tx[c] # Reg!Idle
      BY <1>1, CommitIs DEF Return, LostReply, Collided, Outage, CommandInv
    <3> QED
      BY <3>1, OpenPhases DEF CommandInv
  <2>3. pc' \in [Commands -> Phases] /\ hurt' \in [Commands -> SUBSET Phases]
    BY <1>1, <2>2, PhasesFollow DEF Return, LostReply, Collided, Outage, Continue, Throw, Hurt
  <2> QED
    BY <1>1, <2>1, <2>3 DEF Return, LostReply, Collided, Outage
<1>2. ASSUME NEW c \in Commands, Call(c) PROVE Shape'
  BY <1>2, CallsShape DEF Call
<1>3. ASSUME NEW c \in Commands, Refused(c) \/ Failed(c) \/ PutPrimary(c) \/ PutMirror(c) PROVE Shape'
  <2>1. pc[c] \in DOMAIN After
    BY <1>3, Calls DEF Refused, RegistryCalls, Failed, PutPrimary, PutMirror
  <2> QED
    BY <1>3, <2>1, PhasesFollow DEF Refused, Failed, PutPrimary, PutMirror, Continue, Throw, Hurt, registry
<1>4. ASSUME NEW c \in Commands, Crash(c) PROVE Shape'
  BY <1>4 DEF Crash, Hurt, Phases, Stopped
<1>5. ASSUME NEW c \in Commands, Score(c) \/ Match(c) PROVE Shape'
  <2>1. /\ UNCHANGED <<runs, tx, job, hurt>> /\ DOMAIN work' = Commands
        /\ pc[c] = "prepare"
        /\ \E p \in {"checks", "failing_checks", After["prepare"]} : pc' = [pc EXCEPT ![c] = p]
    <3>1. CASE Score(c)
      BY <1>5, <3>1 DEF Score, registry
    <3>2. CASE Match(c)
      BY <1>5, <3>2 DEF Match, Continue, registry
    <3> QED
      BY <1>5, <3>1, <3>2
  <2>2. {"checks", "failing_checks", After["prepare"]} \subseteq Phases
    BY Calls, NextCall DEF Phases
  <2> QED
    BY <2>1, <2>2
<1>6. ASSUME NEW c \in Commands, NEW b, NEW t, Launch(c, b, t) PROVE Shape'
  <2>1. /\ UNCHANGED <<runs, tx, work, hurt>> /\ DOMAIN job' = Commands
        /\ \E p \in {"training", "dataset"} : pc' = [pc EXCEPT ![c] = p]
    BY <1>6 DEF Launch, registry
  <2>2. {"training", "dataset"} \subseteq Phases
    BY Calls DEF Phases
  <2> QED
    BY <2>1, <2>2
<1>7. CASE Tick \/ Teardown \/ UNCHANGED vars
  BY <1>7 DEF Tick, Teardown, vars, registry
<1> QED
  BY <1>1, <1>2, <1>3, <1>4, <1>5, <1>6, <1>7 DEF Next, Step, Fault

LEMMA WorkflowStep == WorkflowInv /\ [Next]_vars => WorkflowInv'
<1> SUFFICES ASSUME WorkflowInv, [Next]_vars PROVE WorkflowInv'
  OBVIOUS
<1>1. ASSUME NEW c \in Commands, Step(c) \/ Fault(c) PROVE \A d \in Commands : CommandInv(d)'
  BY <1>1, CallKeeps, RefusedKeeps, CommitKeeps, CollidedKeeps, PrepareKeeps, PutKeeps, OutageKeeps,
     CrashKeeps, FailedKeeps DEF Step, Fault
<1>2. \A d \in Commands : CommandInv(d)'
  BY <1>1, LaunchKeeps, OtherwiseKeeps DEF Next
<1> QED
  BY <1>2, ShapeKept DEF WorkflowInv

LEMMA WorkflowInit == Init => WorkflowInv
<1> SUFFICES ASSUME Init PROVE WorkflowInv
  OBVIOUS
<1>1. Shape
  BY DEF Init, Reg!Init, Shape, Phases
<1>2. ASSUME NEW c \in Commands PROVE CommandInv(c)
  <2>1. pc[c] = "idle" /\ runs[c] = Reg!Absent /\ tx[c] = Reg!Idle /\ hurt[c] = {}
    BY DEF Init, Reg!Init
  <2>2. forecasts = {} /\ labels = {} /\ artifacts = {}
    BY DEF Init, Reg!Init
  <2>3. RunFollows(c)
    BY <2>1 DEF RunFollows, Before, Within, Reg!Absent, Reg!Running
  <2>4. OpenFor(c)
    BY <2>1 DEF OpenFor
  <2>5. RowsAgree(c) /\ EvidenceKept(c)
    BY <2>1, <2>2 DEF RowsAgree, EvidenceKept, Late, Succeeded, Reg!Absent
  <2> QED
    BY <2>3, <2>4, <2>5 DEF CommandInv
<1> QED
  BY <1>1, <1>2 DEF WorkflowInv

THEOREM WorkflowInvariant == Spec => []WorkflowInv
BY WorkflowInit, WorkflowStep, PTL DEF Spec

-----------------------------------------------------------------------------
(* What the commands promise                                               *)

\* forecast() and settle(): a run that the registry reports succeeded has its evidence
\* batch referenced there and its bytes in the mirror, whatever failed on the way.
THEOREM SuccessEvidenced == Spec => []SuccessIsEvidenced
<1>1. WorkflowInv => SuccessIsEvidenced
  BY DEF WorkflowInv, CommandInv, EvidenceKept, SuccessIsEvidenced, Referenced
<1> QED
  BY <1>1, WorkflowInvariant, PTL

\* The evidence file of a succeeded run lists what the registry holds, also for the rows
\* that another run had recorded first, and omits no row of its own run.
THEOREM EvidenceAgreed == Spec => []EvidenceAgrees
<1>1. WorkflowInv => ForecastEvidenceAgrees
  BY WorkflowAssumption DEF WorkflowInv, CommandInv, RowsAgree, ForecastEvidenceAgrees, ForecastListed
<1>2. WorkflowInv => SettlementEvidenceAgrees
  BY DEF WorkflowInv, CommandInv, RowsAgree, SettlementEvidenceAgrees, LabelListed, Settling
<1> QED
  BY <1>1, <1>2, WorkflowInvariant, PTL DEF EvidenceAgrees

\* A command that returns has a succeeded run; one that raises leaves another outcome
\* behind only when the call that would have told it was itself cut off; and a run failed
\* by the mirror keeps the reference that the reconciler repairs from.
THEOREM OutcomesTold == Spec => []OutcomesAreTold
<1>1. WorkflowInv => ExitTellsOutcome
  BY DEF WorkflowInv, CommandInv, RunFollows, ExitTellsOutcome
<1>2. WorkflowInv => PartialIsReferenced
  BY DEF WorkflowInv, CommandInv, RunFollows, EvidenceKept, PartialIsReferenced, Referenced
<1> QED
  BY <1>1, <1>2, WorkflowInvariant, PTL DEF OutcomesAreTold

\* A run that has its outcome gains no evidence row any more.  append_forecasts and the
\* others check the status before they commit, not when they do; that the order of a
\* command's calls leaves nothing open by then is what rules out the late row.
Sealed(c) ==
  /\ RowsOf(forecasts', c) = RowsOf(forecasts, c)
  /\ RowsOf(labels', c) = RowsOf(labels, c)
  /\ RowsOf(checks', c) = RowsOf(checks, c)
  /\ RowsOf(artifacts', c) = RowsOf(artifacts, c)

LEMMA CommitSeals ==
  ASSUME WorkflowInv, NEW c \in Commands, Reg!Commit(c),
         NEW d \in Commands, runs[d].status \in {"succeeded", "failed"}
  PROVE  Sealed(d)
<1> DEFINE Adds(old, new) == new = old \/ new = old \cup tx[c].rows
<1>1. /\ Adds(forecasts, forecasts') /\ Adds(labels, labels')
      /\ Adds(checks, checks') /\ Adds(artifacts, artifacts')
      /\ tx[c].op \notin {"forecasts", "labels", "checks", "artifact"} =>
           UNCHANGED <<forecasts, labels, checks, artifacts>>
  <2>1. CASE Reg!CommitDataset(c) \/ Reg!CommitModel(c) \/ Reg!CommitStart(c) \/ Reg!CommitOutcome(c)
    BY <2>1 DEF Reg!CommitDataset, Reg!CommitModel, Reg!CommitStart, Reg!CommitOutcome
  <2>2. CASE Reg!CommitForecasts(c) \/ Reg!CommitLabels(c)
    BY <2>2 DEF Reg!CommitForecasts, Reg!CommitLabels, Reg!Staged
  <2>3. CASE Reg!CommitChecks(c) \/ Reg!CommitArtifact(c)
    BY <2>3 DEF Reg!CommitChecks, Reg!CommitArtifact, Reg!Staged
  <2> QED
    BY <2>1, <2>2, <2>3 DEF Reg!Commit
<1>2. CASE tx[c].op \in {"forecasts", "labels", "checks", "artifact"}
  <2>0. OpenFor(c)
    BY DEF WorkflowInv, CommandInv
  <2>1. pc[c] \in Within /\ \A x \in tx[c].rows : x.run = c
    BY <1>2, <2>0 DEF OpenFor, Stages, StagesRun, Reg!Idle, Within
  <2>2. c # d
    BY <2>1 DEF WorkflowInv, CommandInv, RunFollows, Reg!Running
  <2> QED
    BY <1>1, <2>1, <2>2 DEF Sealed, RowsOf
<1>3. CASE tx[c].op \notin {"forecasts", "labels", "checks", "artifact"}
  BY <1>1, <1>3 DEF Sealed, RowsOf
<1> QED
  BY <1>2, <1>3

THEOREM OutcomeSeals == Spec => OutcomeSealsRun
<1>1. ASSUME WorkflowInv, [Next]_vars, NEW d \in Commands, runs[d].status \in {"succeeded", "failed"}
      PROVE  Sealed(d)
  <2>1. ASSUME NEW c \in Commands, Return(c) \/ LostReply(c) PROVE Sealed(d)
    BY <1>1, <2>1, CommitSeals DEF Return, LostReply
  <2>2. ASSUME NEW c \in Commands, Call(c) PROVE Sealed(d)
    BY <1>1, <2>2, OpeningTx DEF Call, Reg!tables, Sealed, WorkflowInv
  <2>3. ASSUME NEW c \in Commands,
               \/ Refused(c) \/ Collided(c) \/ Score(c) \/ Match(c) \/ PutPrimary(c) \/ PutMirror(c)
               \/ Outage(c) \/ Crash(c) \/ Failed(c) \/ \E b \in Bundles, t \in Moments : Launch(c, b, t)
        PROVE  Sealed(d)
    <3>1. CASE Refused(c) \/ Failed(c) \/ PutPrimary(c) \/ PutMirror(c) \/ Score(c)
      BY <3>1 DEF Refused, Failed, PutPrimary, PutMirror, Score, registry, Sealed
    <3>2. CASE Collided(c) \/ Outage(c) \/ Crash(c)
      BY <3>2 DEF Collided, Outage, Crash, Reg!Rollback, Reg!tables, Sealed
    <3>3. CASE Match(c)
      BY <3>3 DEF Match, registry, Sealed
    <3>4. CASE \E b \in Bundles, t \in Moments : Launch(c, b, t)
      BY <3>4 DEF Launch, registry, Sealed
    <3> QED
      BY <2>3, <3>1, <3>2, <3>3, <3>4
  <2>4. CASE Tick \/ Teardown \/ UNCHANGED vars
    BY <2>4 DEF Tick, Teardown, vars, registry, Sealed
  <2> QED
    BY <1>1, <2>1, <2>2, <2>3, <2>4 DEF Next, Step, Fault
<1>2. WorkflowInv /\ [Next]_vars =>
        [\A c \in Commands : runs[c].status \in {"succeeded", "failed"} => Sealed(c)]_vars
  BY <1>1
<1> QED
  BY <1>2, WorkflowInvariant, PTL DEF Spec, OutcomeSealsRun, Sealed
=============================================================================
