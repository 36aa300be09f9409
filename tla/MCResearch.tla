----------------------------- MODULE MCResearch -----------------------------
(* What the research evaluation computes: the block bootstrap of rank         *)
(* statistics, the diagnostic reports with their history and review, the      *)
(* datasets that are built while the world goes on publishing, and how a      *)
(* model is selected and tested on one.                                       *)
(* They share no state, so `focus` picks the one that moves in a behaviour.   *)
EXTENDS ModelSelection, TLC

CONSTANTS w1, w2, symbolA, symbolB,      \* model values
          Items, Values, Span, BlockMonths, MinimumMonths,                 \* RankStatistics
          Forecasts, Returns, Official, Horizons, Minima, Reviewers,       \* DiagnosticHistory
          MaxDay, MaxReports,
          Symbols, Sessions, MonthLength, Horizon, MinHistory,             \* DatasetBuild
          UniverseSize, MaxAge, Spans, Ages, Usable, Days, MaxFilings,
          MaxReleases, MaxDatasets

VARIABLES
  focus,
  score, month, status, chosen, remaining,
  day, registry, reports, history, reviewer, attested,
  time, bars, filings, releases, datasets, taken

rankVars == <<score, month, status, chosen, remaining>>
diagnosticVars == <<day, registry, reports, history, reviewer, attested>>
datasetVars == <<time, bars, filings, releases, datasets, taken>>

Rank == INSTANCE RankStatistics
Diagnostic == INSTANCE DiagnosticHistory WITH review <- attested
Dataset == INSTANCE DatasetBuild

\* Three forecasts of one filing and one of another, datasets with gaps.
Forecast(id, event, asOf, entry, meta) ==
  [id |-> id, event |-> event, model |-> "v1", asOf |-> asOf, entry |-> entry, meta |-> meta]
MCForecasts ==
  {Forecast(1, "e1", 0, 2, TRUE), Forecast(2, "e1", 1, 2, TRUE),
   Forecast(4, "e1", 1, 2, TRUE), Forecast(3, "e2", 1, 3, FALSE)}
MCReturns == {[first |-> 1, last |-> 3, gaps |-> {}, spy |-> TRUE],
              [first |-> 4, last |-> 4, gaps |-> {}, spy |-> TRUE],
              [first |-> 1, last |-> 4, gaps |-> {2}, spy |-> TRUE],
              [first |-> 1, last |-> 3, gaps |-> {}, spy |-> FALSE]}

\* Two securities that take turns to be the most liquid.
TakeTurns == {(symbolA :> 1) @@ (symbolB :> 2), (symbolA :> 2) @@ (symbolB :> 1)}

\* Development, one or two validation years, and the locked one.
TwoConfigs == {[years |-> {1}, testYear |-> 3], [years |-> {1, 2}, testYear |-> 3]}

ASSUME ResearchAssumption ==
  /\ Rank!BlocksFit /\ Diagnostic!DiagnosticAssumption
  /\ Dataset!DatasetAssumption /\ SelectionAssumption

\* A component that does not move starts in one state.
MCInit ==
  /\ focus \in {"rank", "diagnostic", "dataset", "selection"}
  /\ IF focus = "rank" THEN TRUE
     ELSE score = [i \in Items |-> 0] /\ month = [i \in Items |-> IF i = 1 THEN 1 ELSE Span]
  /\ IF focus = "selection" THEN TRUE
     ELSE accepted = [f \in Filings |-> 0] /\ horizon = [f \in Filings |-> 1]
  /\ Rank!Init /\ Diagnostic!Init /\ Dataset!Init /\ Init

MCNext ==
  /\ \/ focus = "rank" /\ Rank!Next /\ UNCHANGED <<diagnosticVars, datasetVars, vars>>
     \/ focus = "diagnostic" /\ Diagnostic!Next /\ UNCHANGED <<rankVars, datasetVars, vars>>
     \/ focus = "dataset" /\ Dataset!Next /\ UNCHANGED <<rankVars, diagnosticVars, vars>>
     \/ focus = "selection" /\ Next /\ UNCHANGED <<rankVars, diagnosticVars, datasetVars>>
  /\ UNCHANGED focus

MCSpec == MCInit /\ [][MCNext]_<<rankVars, diagnosticVars, datasetVars, vars, focus>>

Symmetry == Permutations({w1, w2})

-----------------------------------------------------------------------------
(* Properties                                                                *)

\* The weighted ranks are the ranks of the sample that was drawn, ties included, with the
\* mean that the correlation takes for granted: the shortcut that sorts each vector once
\* changes no bootstrap statistic.  Filings of a month move together, and a draw has
\* exactly as many months as the span, the empty ones included.
BootstrapIsExact ==
  focus = "rank" =>
  /\ Rank!WeightedIsExpanded /\ Rank!RanksHaveTheirMean
  /\ Rank!MonthsMoveTogether /\ Rank!DrawSpansMonths

\* An acknowledged review is of enough matured reports of one horizon at different
\* moments; no report loses a forecast, and the strict reader accepts what was written.
AcknowledgedIsEvidence ==
  Diagnostic!AcknowledgedIsEvidence /\ Diagnostic!NoForecastLost /\ Diagnostic!WrittenIsReadable

\* "selecting the earliest `forecast_as_of` ... before looking at outcome availability":
\* what is recorded later never speaks for an event that an earlier forecast spoke for.
FirstForecastStays == Diagnostic!FirstForecastStays

\* No feature, label or settled universe of a dataset depends on what was published after
\* the filing it describes, however the same history is built again later.
NothingLooksAhead == Dataset!NothingLooksAhead

\* "Select a stable champion using pre-test expanding-window predictions only": no score
\* depends on a label that was still to come when the filing it scores was accepted, and
\* the locked test opens once, for the selection that was confirmed.
SelectionIsSealed == focus = "selection" => NoScoreLooksAhead /\ OpenedOnce
=============================================================================
