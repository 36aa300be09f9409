-------------------------- MODULE DiagnosticHistory --------------------------
(***************************************************************************)
(* Short-horizon diagnostics.  forward-diagnostic evaluates the registry's *)
(* forecasts from a later dataset before their official horizon; several   *)
(* reports make a history, and a reviewer attests to one history in a file *)
(* that is never replaced.  A report stands for its bytes and its digest.  *)
(***************************************************************************)
EXTENDS Integers, SequencesExt

CONSTANTS
  Forecasts,   \* [id, event, model, asOf, entry, meta] of what may be registered
  Returns,     \* [first, last, gaps, spy]: sessions whose returns a dataset holds
  Official,    \* sessions to the official horizon, 20
  Horizons,    \* values of --horizon-sessions
  Minima,      \* values of --minimum-reports
  Reviewers,
  MaxDay,      \* bound: the clock stops there
  MaxReports   \* bound on reports made

\* What an instance must satisfy; the MC modules assume it.
DiagnosticAssumption ==
  /\ Official \in Nat /\ \A h \in Horizons : h \in 2 .. Official - 1
  /\ \A f \in Forecasts : {f.id, f.asOf, f.entry} \subseteq Int
  /\ \A f, g \in Forecasts : f.id = g.id => f = g
  /\ Minima \subseteq Nat \ {0}

VARIABLES
  day,
  registry,   \* forecasts recorded, append-only
  reports,    \* diagnostic reports made, private artifacts
  history,    \* the history file, or Missing
  reviewer,   \* [pc, review] of each reviewer
  review      \* the review record, or Missing

vars == <<day, registry, reports, history, reviewer, review>>

Missing == [status |-> "missing"]

-----------------------------------------------------------------------------
(* One report                                                              *)

LatestPerEvent(forecasts) ==  \* mutant: the last forecast of an event is its freshest
  {f \in forecasts : \A g \in forecasts : g.event = f.event /\ g.model = f.model =>
     f.asOf > g.asOf \/ (f.asOf = g.asOf /\ f.id >= g.id)}

\* _first_event_forecasts
FirstPerEvent(forecasts) ==
  {f \in forecasts : \A g \in forecasts : g.event = f.event /\ g.model = f.model =>
     f.asOf < g.asOf \/ (f.asOf = g.asOf /\ f.id <= g.id)}

\* _schedule: from the first return to the last, or to an official horizon beyond it
Schedule(data, forecasts) ==
  data.first .. Max({data.last} \cup {f.entry + Official - 1 : f \in forecasts})

Outcome(f, data, sessions, asOf, h) ==
  LET horizon == f.entry + h - 1
  IN  IF ~f.meta /\ f.entry < data.first THEN "missing_event_metadata"
      ELSE IF ~({f.entry, horizon} \subseteq sessions) THEN "missing_trading_calendar"
      ELSE IF horizon > asOf THEN "pending"
      ELSE IF ~data.spy THEN "missing_benchmark_returns"
      ELSE IF ~(f.entry .. horizon \subseteq (data.first .. data.last) \ data.gaps)
        THEN "missing_or_invalid_horizon_returns"
      ELSE "matured"

\* _diagnostic_report
Evaluation(data, forecasts, asOf, h) ==
  LET of(outcome) == {f \in forecasts : Outcome(f, data, Schedule(data, forecasts), asOf, h) = outcome}
      unmatched   == forecasts \ (of("matured") \cup of("pending"))
  IN  [matured |-> of("matured"), pending |-> of("pending"), unmatched |-> unmatched,
       status |-> IF of("matured") # {} THEN "ready"
                  ELSE IF unmatched = {} /\ of("pending") # {} THEN "awaiting_maturity"
                  ELSE "insufficient_coverage"]

\* diagnostic_report: of every forecast, and of one per model and event
Report(data, forecasts, asOf, h) ==
  [asOf |-> asOf, h |-> h, all |-> Evaluation(data, forecasts, asOf, h),
   unique |-> Evaluation(data, FirstPerEvent(forecasts), asOf, h)]

-----------------------------------------------------------------------------
(* A history, and its review                                               *)

Counts(e) ==
  [forecast |-> Cardinality(e.matured \cup e.pending \cup e.unmatched),
   matched |-> Cardinality(e.matured \cup e.pending), matured |-> Cardinality(e.matured),
   pending |-> Cardinality(e.pending), unmatched |-> Cardinality(e.unmatched)]

ValidCounts(c) ==
  c.matched <= c.forecast /\ c.matured + c.pending <= c.matched /\ c.unmatched <= c.forecast

\* read_forward_diagnostic_summary keeps counts, times and a digest; a unique-event
\* evaluation must be of the report's own moment and horizon (_normalize_summary).
Summary(r) ==
  [source |-> r, asOf |-> r.asOf, h |-> r.h, status |-> r.all.status,
   counts |-> Counts(r.all), unique |-> Counts(r.unique)]

ValidSummary(s) == ValidCounts(s.counts) /\ ValidCounts(s.unique) /\ s.h \in 2 .. Official - 1

InTimeOrder(rs) == \A i, j \in DOMAIN rs : i < j => rs[i].asOf <= rs[j].asOf

ValidSequenceTies(rs) ==  \* mutant: two reports of one moment count as two
  \A i, j \in DOMAIN rs : i < j => rs[i].source # rs[j].source /\ rs[i].asOf <= rs[j].asOf

\* _validate_sequence: no source and no moment twice, in time order
ValidSequence(rs) ==
  \A i, j \in DOMAIN rs : i < j => rs[i].source # rs[j].source /\ rs[i].asOf < rs[j].asOf

HistoryStatus(rs, min) ==
  IF Len(rs) < min THEN "insufficient_history"
  ELSE IF \A i \in DOMAIN rs : rs[i].status = "ready" THEN "ready" ELSE "review_required"

\* _verify_observation
ValidObservation(s, h) == ValidSummary(s) /\ s.h = h

\* verify_forward_diagnostic_history
Verifies(h) ==
  /\ \A i \in DOMAIN h.reports : ValidObservation(h.reports[i], h.reports[1].h)
  /\ ValidSequence(h.reports) /\ h.status = HistoryStatus(h.reports, h.min)

\* build_forward_diagnostic_history, of summaries in the order it sorts them into
BuildHistory(summaries, min) ==
  [reports |-> summaries, min |-> min, status |-> HistoryStatus(summaries, min)]

\* verify_forward_diagnostic_history_review
ReviewVerifies(r) == r.status = "acknowledged" => r.history.status = "ready"

Init ==
  /\ day = 0 /\ registry = {} /\ reports = {} /\ history = Missing
  /\ reviewer = [w \in Reviewers |-> [pc |-> "idle"]] /\ review = Missing

\* the forward cycle records a forecast before its entry, some time after its cutoff
Record(f) ==
  /\ day >= f.asOf /\ day < f.entry /\ registry' = registry \cup {f}
  /\ UNCHANGED <<day, reports, history, reviewer, review>>

Tick == day < MaxDay /\ day' = day + 1 /\ UNCHANGED <<registry, reports, history, reviewer, review>>

\* forward_diagnostic, with --as-of
Diagnose(data, asOf, h) ==
  /\ data.last <= day /\ Cardinality(reports) < MaxReports
  /\ reports' = reports \cup {Report(data, registry, asOf, h)}
  /\ UNCHANGED <<day, registry, history, reviewer, review>>

\* forward_diagnostic_history, which sorts its reports and verifies what it built
Collect(listed, min) ==
  LET summaries == [i \in DOMAIN listed |-> Summary(listed[i])]
  IN  /\ InTimeOrder(summaries)
      /\ \A i \in DOMAIN listed : ValidSummary(summaries[i])
      /\ Verifies(BuildHistory(summaries, min))
      /\ history' = BuildHistory(summaries, min)
      /\ UNCHANGED <<day, registry, reports, reviewer, review>>

\* forward_diagnostic_history_review, of the history file as it is now
Review(w, decision) ==
  LET record == [status |-> decision, history |-> history, by |-> w]
  IN  /\ reviewer[w].pc = "idle" /\ history # Missing
      /\ Verifies(history) /\ ReviewVerifies(record)
      /\ reviewer' = [reviewer EXCEPT ![w] = [pc |-> "write", review |-> record]]
      /\ UNCHANGED <<day, registry, reports, history, review>>

\* write_forward_diagnostic_history_review: os.link refuses an existing path.
Write(w) ==
  /\ reviewer[w].pc = "write"
  /\ review' = IF review = Missing THEN reviewer[w].review ELSE review
  /\ reviewer' = [reviewer EXCEPT ![w] = [pc |-> "idle"]]
  /\ UNCHANGED <<day, registry, reports, history>>

Next ==
  \/ Tick
  \/ \E f \in Forecasts : Record(f)
  \/ \E data \in Returns, asOf \in 0 .. MaxDay, h \in Horizons : Diagnose(data, asOf, h)
  \/ \E set \in (SUBSET reports) \ {{}}, min \in Minima :
       \E listed \in SetToSeqs(set) : Collect(listed, min)
  \/ \E w \in Reviewers :
       Write(w) \/ \E decision \in {"acknowledged", "follow_up_required"} : Review(w, decision)

Spec == Init /\ [][Next]_vars

-----------------------------------------------------------------------------
(* Properties                                                              *)

\* An acknowledged review is of enough reports, of one horizon and of different moments,
\* each of which evaluated a forecast whose horizon had passed at its moment.
AcknowledgedIsEvidence ==
  (review # Missing /\ review.status = "acknowledged") =>
    LET rs == Range(review.history.reports)
    IN  /\ Cardinality({r.asOf : r \in rs}) >= review.history.min
        /\ Cardinality({r.h : r \in rs}) = 1
        /\ \A r \in rs : \E f \in r.source.all.matured : f.entry + r.h - 1 <= r.asOf

\* "selecting the earliest `forecast_as_of` for each `(model_id, event_id)` before looking
\* at outcome availability": what is recorded later never speaks for an event that an
\* earlier forecast spoke for.
FirstForecastStays ==
  [][\A f \in FirstPerEvent(registry), g \in FirstPerEvent(registry') :
       (f.event = g.event /\ f.model = g.model) => g = f \/ g.asOf <= f.asOf]_registry

\* The strict reader accepts what the diagnostic wrote, whatever was missing or pending.
WrittenIsReadable == \A r \in reports : ValidSummary(Summary(r))

\* Neither report loses a forecast: each is evaluated, pending or reported as unmatched.
NoForecastLost ==
  \A r \in reports : \A e \in {r.all, r.unique} :
    /\ {f.event : f \in e.matured \cup e.pending \cup e.unmatched}
         = {f.event : f \in r.all.matured \cup r.all.pending \cup r.all.unmatched}
    /\ e.matured \cap e.unmatched = {} /\ e.pending \cap (e.matured \cup e.unmatched) = {}
=============================================================================
