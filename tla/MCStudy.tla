------------------------------ MODULE MCStudy ------------------------------
(* Studies and what they collect: the bounded hosted reads (the observer and *)
(* finalizer workflows, the application's processes), the paired XBRL        *)
(* policies, the capture of identity evidence and of prospective cohorts.    *)
(* `focus` picks the system that moves; the others stay in their initial     *)
(* states, so the reachable states are the union of the systems'.            *)
EXTENDS Studies, TLC

CONSTANTS p1, p2, d1, d2, page, q1, q2, q3, o1, o2, o3, early

VARIABLE focus

\* One legacy and one revised dataset, and what else may carry their identities or go
\* with them: other inputs, other rows, another source, another runtime.
Dataset(policy, source, runtime, rows, data, facts) ==
  [policy |-> policy, source |-> source, runtime |-> runtime, rows |-> rows,
   inputs |-> data, facts |-> facts]
MCDatasets == {Dataset("legacy_v1", 1, 1, 1, 1, 1), Dataset("legacy_v1", 1, 1, 1, 2, 1),
               Dataset("duration_aware_v2", 1, 1, 1, 1, 2),
               Dataset("duration_aware_v2", 1, 1, 2, 1, 2),
               Dataset("duration_aware_v2", 2, 1, 1, 1, 2),
               Dataset("duration_aware_v2", 1, 2, 1, 1, 1)}

\* Two answers of the index, and the one that the roster policy pins.
Content(filers) == [filers |-> filers, wellFormed |-> TRUE]
MCSources == {Content({1}), Content({1, 2})}
MCPinned  == Content({1})

\* Two classes of one issuer: the newest periodic filing (its cover repeats a symbol in
\* two classes) names one of them, a retained one the other; an ownership filing too large,
\* and others that are too recent, of another series, or found only in a second pass.
Filing(source, kind, age, series) ==
  [source |-> source, kind |-> kind, age |-> age, series |-> series]
Fact(symbol, class, row) == [issuer |-> 1, symbol |-> symbol, class |-> class, row |-> row]
Statement(cusip, class)  == [subject |-> 1, cusips |-> {cusip}, class |-> class]
MCMembers == <<[issuer |-> 1, symbol |-> "A"], [issuer |-> 1, symbol |-> "B"]>>
MCLists == 1 :> {page}
MCRows == page :> {Filing(early, "ownership", 3, 1),
                   Filing(q1, "periodic", 20, NoJob), Filing(q2, "periodic", 90, NoJob),
                   Filing(q3, "periodic", 800, NoJob), Filing(o1, "ownership", 30, 1),
                   Filing(o2, "ownership", 40, 1), Filing(o3, "ownership", 50, 2)}
MCDocs == (q1 :> [cover |-> {Fact("A", "class A", TRUE), Fact("A", "common", FALSE)}]
        @@ q2 :> [cover |-> {Fact("A", "common", TRUE), Fact("B", "class B", TRUE)}]
        @@ q3 :> [cover |-> {Fact("B", "common", TRUE)}]
        @@ o1 :> Statement(1, "class A") @@ o2 :> Statement(2, "class B")
        @@ o3 :> Statement(1, "class A") @@ early :> Statement(3, "class A"))
MCLeads ==
  1 :> [periodic |-> <<Filing(q1, "periodic", 20, NoJob), Filing(q2, "periodic", 90, NoJob)>>,
        ownership |-> <<Filing(o1, "ownership", 30, 1), Filing(o3, "ownership", 50, 2),
                        Filing(o2, "ownership", 40, 1)>>]

studyVars  == <<now, runs, job, observing, finalizing, packet, retained>>
readerVars == <<clock, fixture, sessions, proc, admitted, stopped, served>>
policyVars == <<built, selections, selected, inputs, outcomes, audit>>
identityVars == <<binding, bodies, metas, results, run, starts>>
cohortVars == <<wall, capture, directory, comments, attestation, reports>>
vars       == <<focus, studyVars, readerVars, policyVars, identityVars, cohortVars>>

MCInit ==
  /\ focus \in {"study", "reader", "policy", "identity", "cohort"}
  /\ Study!Init /\ Reader!Init /\ Policy!Init /\ Identity!Init /\ Cohort!Init

MCNext ==
  /\ \/ focus = "study" /\ Study!Next
        /\ UNCHANGED <<readerVars, policyVars, identityVars, cohortVars>>
     \/ focus = "reader" /\ Reader!Next
        /\ UNCHANGED <<studyVars, policyVars, identityVars, cohortVars>>
     \/ focus = "policy" /\ Policy!Next
        /\ UNCHANGED <<studyVars, readerVars, identityVars, cohortVars>>
     \/ focus = "identity" /\ Identity!Next
        /\ UNCHANGED <<studyVars, readerVars, policyVars, cohortVars>>
     \/ focus = "cohort" /\ Cohort!Next
        /\ UNCHANGED <<studyVars, readerVars, policyVars, identityVars>>
  /\ UNCHANGED focus

MCSpec == MCInit /\ [][MCNext]_vars

(* The violation run: the workflows alone.  The hour passes, a started job  *)
(* goes on, and the hourly finalizer reaches GitHub again: its upload       *)
(* succeeds if it is tried again and again.                                 *)
FairStudySpec ==
  /\ MCInit /\ focus = "study"
  /\ [][MCNext]_vars
  /\ WF_studyVars(Study!Tick) /\ WF_studyVars(Study!Observer)
  /\ WF_studyVars(Study!Finalize) /\ SF_studyVars(Study!UploadReport(TRUE))

TypeOK == Study!StudyTypeOK /\ Reader!StudyReaderTypeOK

\* A failed hourly run ends in a final report that shows it.
FailuresAreReported == Study!FailuresAreReported
=============================================================================
