------------------------------ MODULE ReadStudy ------------------------------
(***************************************************************************)
(* The bounded hosted read study: the hourly observer workflow              *)
(* (.github/workflows/observe-private-read-study.yml) that runs             *)
(* observe_private_read_study.py between two captures of the database's     *)
(* endpoint state, and the finalizer workflow that collects the retained    *)
(* receipts once the window has ended.  Hour 0 precedes the window, hours   *)
(* 1..Hours are its slots, Hours + 1 is the five minute grace, and the      *)
(* finalizer reports from Hours + 2 on.                                     *)
(***************************************************************************)
EXTENDS Naturals, Sequences, FiniteSets

CONSTANTS Hours,          \* slots of the window (168 in the code)
          MaxRuns,        \* bound: observer runs GitHub ever creates
          MaxDispatches,  \* bound: those of them that were dispatched by hand
          NoJob           \* no observer job is running

VARIABLES now,            \* the hour
          runs,           \* the observer's workflow runs, in creation order
          job,            \* the observer job in progress, or NoJob
          observing,      \* observe-private-read-study.yml is enabled
          finalizing,     \* finalize-private-read-study.yml is enabled
          packet,         \* the final report of this run, before its upload
          retained        \* the final reports uploaded so far

vars == <<now, runs, job, observing, finalizing, packet, retained>>

Events   == {"schedule", "workflow_dispatch"}
Absent   == [scope |-> "absent"]
Refused  == [scope |-> "refusal"]   \* of the probe or of the correlation
Observation(s, n) == [scope |-> "observation", slot |-> s, samples |-> n]
Receipts == {Absent, Refused} \cup
            [scope : {"observation"}, slot : 1..Hours, samples : 1..2]
Incomplete == [status |-> "incomplete"]
Complete   == [status |-> "coverage_complete"]
NoPacket   == [status |-> "none"]

(* What a run retained: no archive, or the files of one, of which the       *)
(* finalizer reads the correlated observation where there is one.           *)
NoArchive == [kept |-> FALSE, observed |-> FALSE, receipt |-> Absent]
Archive(observation, correlated) ==
  [kept |-> TRUE, observed |-> observation # Absent,
   receipt |-> IF correlated # Absent THEN correlated ELSE observation]
Archives == [kept : BOOLEAN, observed : BOOLEAN, receipt : Receipts]

RunRecord == [event : Events, created : 0..(Hours + 2),
              state : {"queued", "running", "done"},
              archive : Archives]
Steps == {"before", "probe", "pair", "paired", "trace", "after",
          "correlate", "receipt", "end", "stop"}
JobRecord == [run : 1..MaxRuns, began : 0..(Hours + 2), step : Steps,
              slot : 0..Hours, samples : 0..2, readsOk : BOOLEAN,
              failed : BOOLEAN, observation : Receipts, correlated : Receipts]

StudyAssumption == Hours \in Nat /\ MaxRuns \in Nat /\ NoJob \notin JobRecord

StudyTypeOK ==
  /\ now \in 0..(Hours + 2)
  /\ runs \in Seq(RunRecord) /\ Len(runs) <= MaxRuns
  /\ job \in JobRecord \cup {NoJob}
  /\ observing \in BOOLEAN /\ finalizing \in BOOLEAN
  /\ packet \in {NoPacket, Incomplete, Complete}
  /\ retained \in SUBSET {Incomplete, Complete}

Init ==
  /\ now = 0 /\ runs = <<>> /\ job = NoJob
  /\ observing = TRUE /\ finalizing = TRUE
  /\ packet = NoPacket /\ retained = {}

Queued == {i \in DOMAIN runs : runs[i].state = "queued"}

(* The concurrency group keeps one running and one pending run; a newer     *)
(* pending run cancels the older one.                                       *)
Trigger(e) ==
  /\ observing /\ Len(runs) < MaxRuns
  /\ e = "workflow_dispatch" =>
       Cardinality({i \in DOMAIN runs : runs[i].event = e}) < MaxDispatches
  /\ now <= Hours + 1          \* bound: a later run reads nothing and is never listed
  /\ LET kept == [i \in DOMAIN runs |->
                   IF i \in Queued THEN [runs[i] EXCEPT !.state = "done"]
                   ELSE runs[i]]
     IN runs' = Append(kept, [event |-> e, created |-> now,
                              state |-> "queued", archive |-> NoArchive])
  /\ UNCHANGED <<now, job, observing, finalizing, packet, retained>>

Start ==
  /\ job = NoJob
  /\ \E i \in Queued :
       /\ runs' = [runs EXCEPT ![i].state = "running"]
       /\ job' = [run |-> i, began |-> now, step |-> "before", slot |-> 0,
                  samples |-> 0, readsOk |-> TRUE, failed |-> FALSE,
                  observation |-> Absent, correlated |-> Absent]
  /\ UNCHANGED <<now, observing, finalizing, packet, retained>>

Running(s) == job # NoJob /\ job.step = s
JobOnly    == UNCHANGED <<now, runs, observing, finalizing, packet, retained>>

(* The endpoint state before the reads; when it is refused the probe, which *)
(* has no always() condition, is skipped.                                   *)
CaptureBefore(ok) ==
  /\ Running("before")
  /\ job' = [job EXCEPT !.failed = ~ok, !.step = IF ok THEN "probe" ELSE "after"]
  /\ JobOnly

InWindow == now \in 1..Hours

(* observe(): the slot and its route are fixed by the hour it starts in; a  *)
(* configuration or trace session that is refused makes no read.            *)
ProbeRefused ==
  /\ Running("probe")
  /\ job' = [job EXCEPT !.observation = Refused, !.failed = TRUE, !.step = "after"]
  /\ JobOnly

(* request(): one HTTP read, never repeated whatever its answer; only the  *)
(* first read that passed is followed by another.                           *)
FirstRead(ok) ==
  /\ Running("probe") /\ InWindow
  /\ job' = [job EXCEPT !.slot = now, !.samples = 1, !.readsOk = ok,
                        !.step = IF ok THEN "pair" ELSE "trace"]
  /\ JobOnly

PairedRead(ok) ==
  /\ Running("paired")
  /\ job' = [job EXCEPT !.samples = @ + 1, !.readsOk = ok, !.step = "trace"]
  /\ JobOnly

(* Thirty seconds later the paired read follows, unless the window ended.   *)
Pair ==
  /\ Running("pair")
  /\ job' = [job EXCEPT !.step = IF now <= Hours THEN "paired" ELSE "trace"]
  /\ JobOnly

(* The provider's traces are read back (their metadata only is retried),    *)
(* and the observation is written.                                          *)
Trace(ok) ==
  /\ Running("trace")
  /\ LET passed == ok /\ job.readsOk /\ job.samples = 2
     IN job' = [job EXCEPT !.observation = Observation(job.slot, job.samples),
                           !.failed = ~passed,
                           !.slot = 0, !.samples = 0, !.readsOk = TRUE, !.step = "after"]
  /\ JobOnly

CaptureAfter(ok) ==
  /\ Running("after")
  /\ job' = [job EXCEPT !.failed = @ \/ ~ok, !.step = IF ok THEN "correlate" ELSE "receipt"]
  /\ JobOnly

(* annotate() copies the probe's report beside both states; a report or a   *)
(* state it cannot read is written as the correlation's own refusal.        *)
Correlate ==
  /\ Running("correlate")
  /\ LET good == job.observation # Absent    \* the probe ran, so the first state was read
     IN job' = [job EXCEPT !.correlated = IF good THEN job.observation ELSE Refused,
                           !.failed = @ \/ ~good, !.step = "receipt"]
  /\ JobOnly

(* Redaction, hashing and the upload run always(); they may fail.           *)
Retain(ok) ==
  /\ Running("receipt")
  /\ runs' = IF ok THEN [runs EXCEPT ![job.run].archive =
                          Archive(job.observation, job.correlated)]
             ELSE runs
  /\ job' = [job EXCEPT !.failed = @ \/ ~ok, !.observation = Absent,
                        !.correlated = Absent, !.step = "end"]
  /\ UNCHANGED <<now, observing, finalizing, packet, retained>>

(* The probe's failure was tolerated so far; now it fails the run, and a    *)
(* failed run is followed by the job that disables the observer.            *)
Conclude ==
  /\ Running("end")
  /\ runs' = [runs EXCEPT ![job.run].state = "done"]
  /\ job' = IF job.failed THEN [job EXCEPT !.step = "stop"] ELSE NoJob
  /\ UNCHANGED <<now, observing, finalizing, packet, retained>>

StopFailedStudy(ok) ==
  /\ Running("stop")
  /\ job' = NoJob
  /\ observing' = IF ok THEN FALSE ELSE observing
  /\ UNCHANGED <<now, runs, finalizing, packet, retained>>

(* The runner dies: the run ends without an archive and without a stop.     *)
RunnerLost ==
  /\ job # NoJob /\ job.step # "stop"
  /\ runs' = [runs EXCEPT ![job.run].state = "done"]
  /\ job' = NoJob
  /\ UNCHANGED <<now, observing, finalizing, packet, retained>>

(* A job lasts five minutes at most, so it ends in its hour or the next.    *)
Tick ==
  /\ now < Hours + 2
  /\ job # NoJob => job.began = now
  /\ now' = now + 1
  /\ UNCHANGED <<runs, job, observing, finalizing, packet, retained>>

-----------------------------------------------------------------------------
(* collect(): the scheduled runs created inside the window, on this branch. *)
Listed == {i \in DOMAIN runs : runs[i].event = "schedule" /\ runs[i].created \in 1..Hours}

(* files.get("correlated-observation.json", files["observation.json"])      *)
(* evaluates both: an archive without an observation raises.                *)
Unreadable == {i \in Listed : runs[i].archive.kept /\ ~runs[i].archive.observed}

Receipt(i) == runs[i].archive.receipt

Admitted == {i \in Listed : Receipt(i).scope = "observation"}

InSlot(s) == {i \in Admitted : Receipt(i).slot = s}

SampleCount == Cardinality({x \in Admitted \X (1..2) : x[2] <= Receipt(x[1]).samples})

(* Mutant: the slots that were observed are the ones expected.               *)
SummaryOfObserved ==
  IF /\ \A s \in 1..Hours : Cardinality(InSlot(s)) <= 1
     /\ SampleCount = 2 * Cardinality({s \in 1..Hours : InSlot(s) # {}})
     /\ Listed = Admitted
  THEN Complete ELSE Incomplete

Summary ==
  IF /\ \A s \in 1..Hours : Cardinality(InSlot(s)) = 1
     /\ SampleCount = 2 * Hours
     /\ Listed = Admitted
  THEN Complete ELSE Incomplete

(* Before the grace has passed the finalizer only says it is collecting; a  *)
(* refused collection leaves nothing and is tried again in an hour.         *)
Finalize ==
  /\ finalizing /\ packet = NoPacket
  /\ now = Hours + 2
  /\ Unreadable = {}
  /\ packet' = Summary
  /\ UNCHANGED <<now, runs, job, observing, finalizing, retained>>

(* The packet is redacted, hashed and uploaded, or the run fails here.      *)
UploadReport(ok) ==
  /\ packet \in {Incomplete, Complete} \ retained
  /\ retained' = IF ok THEN retained \cup {packet} ELSE retained
  /\ packet' = IF ok THEN packet ELSE NoPacket
  /\ UNCHANGED <<now, runs, job, observing, finalizing>>

(* Only after the upload does a separate job disable both workflows; when   *)
(* it fails, the next hour reports again.                                   *)
StopFinishedStudy(ok) ==
  /\ packet \in retained /\ finalizing
  /\ packet' = NoPacket
  /\ observing' = IF ok THEN FALSE ELSE observing
  /\ finalizing' = ~ok
  /\ UNCHANGED <<now, runs, job, retained>>

Observer ==
  \/ Start \/ ProbeRefused \/ Pair \/ Correlate \/ Conclude
  \/ \E ok \in BOOLEAN :
       \/ CaptureBefore(ok) \/ FirstRead(ok) \/ PairedRead(ok)
       \/ Trace(ok) \/ CaptureAfter(ok) \/ Retain(ok) \/ StopFailedStudy(ok)
  \/ RunnerLost

Finalizer ==
  \/ Finalize
  \/ \E ok \in BOOLEAN : UploadReport(ok) \/ StopFinishedStudy(ok)

Next == Tick \/ (\E e \in Events : Trigger(e)) \/ Observer \/ Finalizer

Spec == Init /\ [][Next]_vars

-----------------------------------------------------------------------------
(* A report says coverage_complete only when every hour of the window was   *)
(* observed by exactly one scheduled run, each of which sent its two reads  *)
(* and no scheduled run of the window came to nothing; and both workflows   *)
(* are stopped for good only once a report is retained.                     *)
CoverageIsEarned ==
  /\ Complete \in retained =>
       LET Scheduled == {i \in DOMAIN runs :
                           runs[i].event = "schedule" /\ runs[i].created \in 1..Hours}
           Observes(i, s) == Receipt(i).scope = "observation" /\ Receipt(i).slot = s
       IN /\ \A i \in Scheduled : runs[i].archive.kept /\ Receipt(i).samples = 2
          /\ \A s \in 1..Hours : \E i \in Scheduled :
               /\ Observes(i, s)
               /\ \A j \in Scheduled \ {i} : ~Observes(j, s)
  /\ ~finalizing => retained # {}

(* "Failures before the end retain their receipts and stop the observer;    *)
(* the final report still records incomplete coverage without backfilling   *)
(* it" (ops/private-read-study/README.md:273): once the window has ended,   *)
(* its grace has passed and no run is left, a final report is retained.     *)
FailuresAreReported ==
  (now = Hours + 2 /\ job = NoJob /\ Queued = {}) ~> (retained # {})
=============================================================================
