---------------------------- MODULE DriftEvidence ----------------------------
(***************************************************************************)
(* Research drift.  research-drift compares the frozen training dataset    *)
(* with a later one, column by column; research-drift-history orders such  *)
(* reports and summarises them; research-drift-readiness decides whether   *)
(* the history may go to a human review.  Each writes a file that replaces *)
(* the one before it.  A report stands for its hash.                       *)
(***************************************************************************)
EXTENDS Integers, FiniteSets, SequencesExt

CONSTANTS
  Datasets,     \* [id, asOf, policy, features, components] of what can be compared
  Frozen,       \* the training dataset of the frozen model, one of Datasets
  Models,       \* identities of the frozen model: model_id .. frozen_at
  Paths,        \* report files
  Rows,         \* rows of a column
  MissingDelta, \* threshold of the missing rate, in rows
  Minima,       \* values of --minimum-reports
  NotSupplied   \* components of a caller that has no predictor

Columns(d) == (UNION {m.columns : m \in d.features}) \cup d.components

\* What an instance must satisfy; the MC modules assume it.
DriftAssumption ==
  /\ Frozen \in Datasets /\ Rows \in Nat \ {0} /\ MissingDelta \in Nat /\ Minima \subseteq Nat \ {0}
  /\ \A d, e \in Datasets : d.id = e.id => d = e
  /\ \A d \in Datasets : \A c \in Columns(d) : c.b \in 0 .. Rows /\ c.p \in 0 .. Rows

VARIABLES
  file,       \* the report at each path, or Missing
  history,    \* the history file, or Missing
  readiness   \* the readiness file, or Missing

vars == <<file, history, readiness>>

Missing == [status |-> "missing"]

-----------------------------------------------------------------------------
(* One comparison                                                          *)

\* _compare_vector: b and p finite values, and whether a moment or the stability index
\* of those left their bounds
ColumnStatus(c) ==
  IF c.shifted \/ c.b - c.p > MissingDelta \/ c.p - c.b > MissingDelta THEN "warning"
  ELSE IF 0 \in {c.b, c.p} THEN "insufficient_data" ELSE "stable"

SectionStatus(statuses) ==
  IF statuses \cap {"error", "dimension_mismatch"} # {} THEN "error"
  ELSE IF "warning" \in statuses THEN "warning"
  ELSE IF statuses = {"insufficient_data"} THEN "insufficient_data" ELSE "stable"

\* _compare_matrix
MatrixStatus(m) ==
  IF ~m.dims \/ ~m.names THEN "error" ELSE SectionStatus({ColumnStatus(c) : c \in m.columns})

ComponentStatus(columns) ==
  IF columns = NotSupplied THEN "not_supplied" ELSE SectionStatus({ColumnStatus(c) : c \in columns})

Overall(d) ==
  LET features   == SectionStatus({MatrixStatus(m) : m \in d.features})
      components == ComponentStatus(d.components)
  IN  IF \E m \in d.features : ~m.dims THEN "error"
      ELSE IF "warning" \in {features, components} THEN "warning"
      ELSE IF components = "not_supplied" THEN "incomplete"
      ELSE IF "error" \in {features, components} THEN "error" ELSE "stable"

-----------------------------------------------------------------------------
(* A history of reports                                                    *)

Before(r, s) ==
  \/ r.dataset.asOf < s.dataset.asOf
  \/ r.dataset.asOf = s.dataset.asOf /\ r.dataset.id < s.dataset.id

\* The reports in order of as-of and id.
Orderings(reports) ==
  {s \in [DOMAIN reports -> Range(reports)] :
     /\ Range(s) = Range(reports)
     /\ \A i, j \in DOMAIN s : i < j => ~Before(s[j], s[i])}

HistoryStatus(statuses, min) ==
  IF "error" \in Range(statuses) THEN "error"
  ELSE IF "incomplete" \in Range(statuses) THEN "incomplete"
  ELSE IF "warning" \in Range(statuses) THEN "warning"
  ELSE IF Len(statuses) < min THEN "insufficient_history" ELSE "stable"

WarningStreak(statuses) ==
  Max({n \in 0 .. Len(statuses) : \A i \in 1 .. n : statuses[Len(statuses) + 1 - i] = "warning"})

\* verify_research_drift_history, of what a forged file could get wrong
Verifies(h) ==
  LET statuses == [i \in DOMAIN h.reports |-> h.reports[i].status]
  IN  /\ \A i, j \in DOMAIN h.reports :
           i < j => Before(h.reports[i], h.reports[j]) /\ h.reports[i].dataset.id # h.reports[j].dataset.id
      /\ h.status = HistoryStatus(statuses, h.min) /\ h.streak = WarningStreak(statuses)

\* build_research_drift_history
BuildHistory(inOrder, min) ==
  LET statuses == [i \in DOMAIN inOrder |-> inOrder[i].status]
  IN  [status |-> HistoryStatus(statuses, min), min |-> min,
       streak |-> WarningStreak(statuses), reports |-> inOrder]

-----------------------------------------------------------------------------
(* The commands                                                            *)

Init == file = [p \in Paths |-> Missing] /\ history = Missing /\ readiness = Missing

\* research_drift: the baseline is the model's own training dataset.
Drift(d, m, p) ==
  /\ d.asOf >= Frozen.asOf /\ d.policy = Frozen.policy
  /\ file' = [file EXCEPT ![p] = [status |-> Overall(d), dataset |-> d, model |-> m]]
  /\ UNCHANGED <<history, readiness>>

\* research_drift_history, which verifies what it built
Aggregate(ps, min) ==
  LET reports == [i \in DOMAIN ps |-> file[ps[i]]]
  IN  /\ Missing \notin Range(reports)
      /\ Cardinality({r.model : r \in Range(reports)}) = 1
      /\ Cardinality({r.dataset.id : r \in Range(reports)}) = Len(reports)
      /\ \E inOrder \in Orderings(reports) : /\ history' = BuildHistory(inOrder, min)
                                             /\ Verifies(history')
      /\ UNCHANGED <<file, readiness>>

FailedChecks(h, min) ==
  {c \in {"minimum_observations", "history_contract_minimum", "history_status", "warning_streak"} :
     \/ c = "minimum_observations" /\ Len(h.reports) < min
     \/ c = "history_contract_minimum" /\ Len(h.reports) < h.min
     \/ c = "history_status" /\ h.status # "stable"
     \/ c = "warning_streak" /\ h.streak # 0}

\* research_drift_readiness, which exits 0 for "ready" only
Decide(min) ==
  /\ history # Missing /\ Verifies(history)
  /\ readiness' =
       [history |-> history, min |-> min,
        status |-> IF FailedChecks(history, min) = {} THEN "ready"
                   ELSE IF \/ Len(history.reports) < min
                           \/ history.status \in {"insufficient_history", "error", "incomplete"}
                        THEN "blocked" ELSE "review_required"]
  /\ UNCHANGED <<file, history>>

Listings == {ps \in UNION {[1 .. n -> Paths] : n \in 1 .. Cardinality(Paths)} : IsInjective(ps)}

Next ==
  \/ \E d \in Datasets, m \in Models, p \in Paths : Drift(d, m, p)
  \/ \E ps \in Listings, min \in Minima : Aggregate(ps, min)
  \/ \E min \in Minima : Decide(min)

Spec == Init /\ [][Next]_vars

-----------------------------------------------------------------------------
(* Properties                                                              *)

\* A decision that exits 0 rests on enough different datasets of one model, in none of
\* which a column moved, was lost or could not be compared.
ReadyIsClean ==
  (readiness # Missing /\ readiness.status = "ready") =>
    LET seen == Range(readiness.history.reports)
    IN  /\ Cardinality({r.dataset.id : r \in seen}) >= readiness.min
        /\ Cardinality({r.model : r \in seen}) = 1
        /\ \A r \in seen :
             /\ r.dataset.components # NotSupplied
             /\ \A m \in r.dataset.features : m.dims /\ m.names
             /\ \A c \in Columns(r.dataset) :
                  ~c.shifted /\ c.p - c.b <= MissingDelta /\ c.b - c.p <= MissingDelta

=============================================================================
