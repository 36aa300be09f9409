------------------------------ MODULE Studies ------------------------------
(***************************************************************************)
(* The studies and the evidence they collect, side by side: the processes    *)
(* of the hosted study's application and its two workflows, the paired XBRL  *)
(* policies, and the captures of identity evidence and of prospective        *)
(* cohorts.  They share no state; each is an instance of its own module.     *)
(***************************************************************************)
EXTENDS Naturals, FiniteSets, Sequences

CONSTANTS Processes, NoBody, None,
          Approved, Changed, Ends, MaxReads,                    \* StudyReader
          Datasets, Configs, MaxSelections, MaxInputs, MaxOutcomes,   \* PolicyEvidence
          Sources, Pinned, Directories, Opens, Closes,          \* CohortCommitment
          MaxClock, MaxComments, Over,
          Hours, MaxRuns, MaxDispatches, NoJob,                 \* ReadStudy
          Members, Lists, Rows, Docs, Leads, Retained, Oversized,   \* IdentityCapture
          MaxStarts, PeriodicLimit, Latest, PerSeries, OwnershipLimit,
          MaxRequests, CircuitLimit

VARIABLES clock, fixture, sessions, proc, admitted, stopped, served,
          built, selections, selected, inputs, outcomes, audit,
          wall, capture, directory, comments, attestation, reports,
          now, runs, job, observing, finalizing, packet, retained,
          binding, bodies, metas, results, run, starts

Reader == INSTANCE StudyReader
Policy == INSTANCE PolicyEvidence WITH Contents <- Datasets
Cohort == INSTANCE CohortCommitment WITH Contents <- Sources, clock <- wall
Study  == INSTANCE ReadStudy
Identity == INSTANCE IdentityCapture WITH Runs <- Processes, None <- NoJob

ASSUME StudiesAssumption ==
  /\ Reader!ReaderAssumption /\ Policy!PolicyAssumption
  /\ Cohort!CommitmentAssumption /\ Study!StudyAssumption
  /\ Identity!CaptureAssumption

\* A process that reads holds the only session of the reader role.
ReadsAreAlone == Reader!ReadsAreAlone

\* What the saved-evidence audit binds is one comparison of two datasets that differ in
\* their facts alone, with the outcome that was computed from them.
BoundIsOneComparison == Policy!BoundIsOneComparison

\* What an attestation reports was published while the window was open.
AttestedWasPublished == Cohort!AttestedWasPublished

\* A report that calls the window covered has one scheduled pair of reads for each hour.
CoverageIsEarned == Study!CoverageIsEarned

\* A result of the identity capture replays, and a failing source changes no identity.
ResultsHold == Identity!ResultsHold
=============================================================================
