---------------------------- MODULE ForwardStatus ----------------------------
(***************************************************************************)
(* ForwardRegistry.status() and the alert that is raised from it.  The     *)
(* scheduled cycle records a forecast run and then a settlement run; other *)
(* operators start runs of their own in between.  status() picks the runs  *)
(* that speak for the latest cycle, in several queries at READ COMMITTED,  *)
(* while runs start, collect quality checks and end.                       *)
(***************************************************************************)
EXTENDS Naturals, Sequences, FiniteSetsExt

CONSTANTS
  Types,       \* run types
  Datasets,    \* identities of dataset and model
  Results,     \* results of the quality checks of a run of each type: functions from names
  Expected,    \* _EXPECTED_QUALITY_WARNINGS
  DayLength,   \* ticks of the clock in a day
  StaleAfter,
  Reading,     \* whether somebody reads the status in this instance
  MaxRuns,     \* bound: runs
  LastFinish,  \* bound: no run ends after this tick
  MaxTime      \* bound: the clock stops there

\* What an instance must satisfy; the MC modules assume it.
\* Forecasts and settlements name their checks differently.
StatusAssumption ==
  /\ {DayLength, StaleAfter, MaxRuns, LastFinish, MaxTime} \subseteq Nat \ {0}
  /\ \A s, t \in Types : s # t =>
       \A x \in Results[s], y \in Results[t] : DOMAIN x \cap DOMAIN y = {}

VARIABLES
  now,
  runs,     \* rows in order of started_at, then run_id
  ends,     \* the runs that have ended, in order of finished_at
  reader,   \* status(): what its queries have returned so far
  moments   \* history: what status() would have said at each moment of the read

vars == <<now, runs, ends, reader, moments>>

NoChecks == [n \in {} |-> "passed"]
Absent   == 0
Ids      == 1 .. Len(runs)
DateOf(t) == t \div DayLength
Unread   == [pc |-> "idle", at |-> 0, latest |-> Absent, newest |-> Absent, paired |-> Absent,
             failed |-> FALSE, checks |-> NoChecks]

Init ==
  /\ now = 1 /\ runs = <<>> /\ ends = <<>>
  /\ reader = Unread /\ moments = {}

-----------------------------------------------------------------------------
(* What status() reads                                                     *)

Succeeded == {k \in DOMAIN ends : runs[ends[k]].status = "succeeded"}
LatestSuccess == IF Succeeded = {} THEN Absent ELSE ends[Max(Succeeded)]
LatestRun == Len(runs)

Candidates(r) ==
  {i \in 1 .. r : /\ runs[i].type = "forecast"
                  /\ runs[i].dataset = runs[r].dataset
                  /\ DateOf(runs[i].as_of) = DateOf(runs[r].as_of)}

CycleForecastAny(r) ==  \* mutant: the first forecast of the day, not the last before it
  IF r = Absent THEN Absent
  ELSE IF runs[r].type = "forecast" THEN r
  ELSE IF runs[r].type # "settlement" \/ Candidates(r) = {} THEN Absent
  ELSE Min(Candidates(r))

\* _latest_cycle_forecast
CycleForecast(r) ==
  IF r = Absent THEN Absent
  ELSE IF runs[r].type = "forecast" THEN r
  ELSE IF runs[r].type # "settlement" \/ Candidates(r) = {} THEN Absent
  ELSE Max(Candidates(r))

ChecksOf(r) == IF r = Absent THEN NoChecks ELSE runs[r].checks

\* Checks by name; the later run's result is authoritative.
Quality(old, new) ==
  [n \in DOMAIN old \cup DOMAIN new |-> IF n \in DOMAIN new THEN new[n] ELSE old[n]]

Named(quality, result) == {n \in DOMAIN quality : quality[n] = result}

Stale(latest, at) == latest # Absent /\ at > runs[latest].finished + StaleAfter
Failed(r) == r # Absent /\ runs[r].status = "failed"

\* health_status
Health(latest, failed, quality, at) ==
  IF latest = Absent \/ failed \/ Named(quality, "failed") # {} \/ Stale(latest, at) THEN "degraded"
  ELSE IF Named(quality, "warning") # {} THEN "warning" ELSE "ok"

\* What one look at the registry gives.
FailedNow  == Failed(LatestRun) \/ Failed(CycleForecast(LatestRun))
QualityNow == Quality(ChecksOf(CycleForecast(LatestRun)), ChecksOf(LatestRun))
HealthNow(at) == Health(LatestSuccess, FailedNow, QualityNow, at)

KindWithoutAge ==  \* mutant: the age of the last success is not compared
  CASE FailedNow                                                -> "failed_run"
    [] Named(QualityNow, "failed") # {}                         -> "quality_failure"
    [] LatestSuccess = Absent                                   -> "stale_runner"
    [] ~(Named(QualityNow, "warning") \subseteq Expected)       -> "quality_warning"
    [] OTHER                                                    -> "none"

\* classify_forward_status, of the status payload
Kind ==
  CASE FailedNow                                                -> "failed_run"
    [] Named(QualityNow, "failed") # {}                         -> "quality_failure"
    [] Stale(LatestSuccess, now)                                -> "stale_runner"
    [] ~(Named(QualityNow, "warning") \subseteq Expected)       -> "quality_warning"
    [] HealthNow(now) = "degraded"                              -> "stale_runner"
    [] OTHER                                                    -> "none"

-----------------------------------------------------------------------------
(* Runs                                                                    *)

Observe == moments' = IF reader.pc = "idle" THEN {} ELSE moments \cup {HealthNow(reader.at)'}

StartRun(type, dataset) ==
  /\ Len(runs) < MaxRuns /\ now <= LastFinish
  /\ runs' = Append(runs, [type |-> type, dataset |-> dataset, as_of |-> now,
                           status |-> "running", checks |-> NoChecks, finished |-> 0])
  /\ UNCHANGED <<now, ends, reader>> /\ Observe

AddQualityChecks(i, results) ==
  /\ runs[i].status = "running" /\ runs[i].checks = NoChecks
  /\ runs' = [runs EXCEPT ![i].checks = results]
  /\ UNCHANGED <<now, ends, reader>> /\ Observe

EndRun(i, status) ==
  /\ runs[i].status = "running" /\ now <= LastFinish
  /\ runs' = [runs EXCEPT ![i].status = status, ![i].finished = now]
  /\ ends' = Append(ends, i)
  /\ UNCHANGED <<now, reader>> /\ Observe

Tick == now < MaxTime /\ now' = now + 1 /\ UNCHANGED <<runs, ends, reader, moments>>

-----------------------------------------------------------------------------
(* status(), query by query                                                *)

ReadLatest ==
  /\ Reading /\ reader.pc = "idle"
  /\ reader' = [Unread EXCEPT !.pc = "newest", !.at = now, !.latest = LatestSuccess]
  /\ moments' = {HealthNow(now)}
  /\ UNCHANGED <<now, runs, ends>>

\* A row keeps the status that the query which loaded it saw.
ReadNewest ==
  /\ reader.pc = "newest"
  /\ reader' = [reader EXCEPT !.pc = "paired", !.newest = LatestRun, !.failed = Failed(LatestRun)]
  /\ UNCHANGED <<now, runs, ends, moments>>

ReadPaired ==
  LET p == CycleForecast(reader.newest)
  IN  /\ reader.pc = "paired"
      /\ reader' = [reader EXCEPT !.pc = "checks", !.paired = p,
                                  !.failed = @ \/ (p # reader.newest /\ Failed(p))]
      /\ UNCHANGED <<now, runs, ends, moments>>

\* The checks of the forecast, and then those of the newest run if it is another one.
ReadChecks ==
  /\ reader.pc = "checks"
  /\ reader' = [reader EXCEPT !.pc = "own", !.checks = ChecksOf(reader.paired)]
  /\ UNCHANGED <<now, runs, ends, moments>>

\* What is returned, with the checks that the last query sees.
Answer ==
  LET own == IF reader.newest = reader.paired THEN NoChecks ELSE ChecksOf(reader.newest)
  IN  Health(reader.latest, reader.failed, Quality(reader.checks, own), reader.at)

Return ==
  /\ reader.pc = "own"
  /\ reader' = Unread /\ moments' = {}
  /\ UNCHANGED <<now, runs, ends>>

Next ==
  \/ \E t \in Types, d \in Datasets : StartRun(t, d)
  \/ \E i \in Ids : \/ \E c \in Results[runs[i].type] : AddQualityChecks(i, c)
                    \/ \E s \in {"succeeded", "failed"} : EndRun(i, s)
  \/ Tick \/ ReadLatest \/ ReadNewest \/ ReadPaired \/ ReadChecks \/ Return

Spec == Init /\ [][Next]_vars /\ WF_now(Tick)

-----------------------------------------------------------------------------
(* Properties                                                              *)

\* Rows are of their types; the runs that ended are listed once.
TypeOK ==
  /\ now \in 1 .. MaxTime
  /\ \A i \in Ids : /\ runs[i].type \in Types /\ runs[i].dataset \in Datasets
                    /\ runs[i].status \in {"running", "succeeded", "failed"}
                    /\ runs[i].checks \in Results[runs[i].type] \cup {NoChecks}
                    /\ (runs[i].status # "running") <=> \E k \in DOMAIN ends : ends[k] = i
  /\ reader.pc \in {"idle", "newest", "paired", "checks", "own"} /\ reader.newest \in {Absent} \cup Ids

\* A settlement does not erase the warnings of the forecast it follows on its day: if
\* no other forecast of the same identity started in between, what the forecast found
\* and the settlement did not find again still counts.
CycleWarningsSurvive ==
  \A f \in Ids, s \in Ids :
    /\ s = LatestRun /\ f < s
    /\ runs[f].type = "forecast" /\ runs[s].type = "settlement"
    /\ runs[f].dataset = runs[s].dataset /\ DateOf(runs[f].as_of) = DateOf(runs[s].as_of)
    /\ \A i \in (f + 1) .. s : ~(runs[i].type = "forecast" /\ runs[i].dataset = runs[f].dataset)
    => \A n \in DOMAIN runs[f].checks \ DOMAIN runs[s].checks :
         n \in DOMAIN QualityNow /\ QualityNow[n] = runs[f].checks[n]

\* A warning of an earlier day does not carry over into a new cycle.
NoCarryOver ==
  LET p == CycleForecast(LatestRun)
  IN  p # Absent => DateOf(runs[p].as_of) = DateOf(runs[LatestRun].as_of)

\* The queries of one status() see different states of the registry, and runs overlap;
\* it may answer with what a run became after another had started, but it never says
\* that all is well when at no moment of its read all was.
NoFalseHealth == reader.pc = "own" /\ Answer = "ok" => "ok" \in moments

\* No alert is raised only when the status is ok, or every warning is an expected one.
SilenceIsHealthy ==
  Kind = "none" =>
    HealthNow(now) # "degraded" /\ Named(QualityNow, "warning") \subseteq Expected

\* When runs stop, for whatever reason and in whatever state, an alert is due and stays.
SilenceSurfaces == <>[](Kind # "none")
=============================================================================
