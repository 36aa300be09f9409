---------------------------- MODULE StudyProofs ----------------------------
(***************************************************************************)
(* What the studies' modules keep for every set of processes, datasets,      *)
(* sources and directories and for every window.                             *)
(***************************************************************************)
EXTENDS Studies, FiniteSetTheorems, SequenceTheorems, WellFoundedInduction, TLAPS

\* The instances' cardinality is the library's.
LEMMA SameCardinality ==
  ASSUME NEW S
  PROVE  /\ Reader!Cardinality(S) = Cardinality(S)
         /\ Study!Cardinality(S) = Cardinality(S)
BY DEF Reader!Cardinality, Study!Cardinality, Cardinality

-----------------------------------------------------------------------------
(* StudyReader: the sessions a read holds.  A process has its observer's      *)
(* session from the first query to the last; a process past the first count  *)
(* is the only one there, since the count saw no session but its own.        *)

Observed == {"alone", "connect", "present", "begin", "check", "service", "postcheck",
             "rollback", "dispose", "absence", "close"}
Busy     == Observed \ {"alone"}
Checked  == {"service", "postcheck", "rollback", "dispose", "absence", "close"}
Answered == Checked \ {"service"}

ReaderTyped ==
  /\ IsFiniteSet(sessions)
  /\ proc \in [Processes -> Reader!Process]
ReadersHoldSessions ==
  \A p \in Processes : proc[p].stage \in Observed => <<p, "observer">> \in sessions
OneIsBusy ==
  \A p, q \in Processes : proc[p].stage \in Busy /\ proc[q].stage \in Busy => p = q
ReadsAreApproved ==
  /\ \A p \in Processes :
       /\ proc[p].stage \in Checked  => proc[p].snapshot = Approved
       /\ proc[p].stage \in Answered => proc[p].body = Approved
  /\ \A r \in served : r.body = Approved

ReaderInv == ReaderTyped /\ ReadersHoldSessions /\ OneIsBusy /\ ReadsAreApproved

\* A count of zero: no session but the asking observer's.
LEMMA NoOtherSession ==
  ASSUME ReaderTyped, NEW p \in Processes, Reader!OtherSessions(p) = 0
  PROVE  sessions \subseteq {<<p, "observer">>}
<1>1. IsFiniteSet(sessions \ {<<p, "observer">>})
  BY FS_Subset, sessions \ {<<p, "observer">>} \subseteq sessions DEF ReaderTyped
<1>2. sessions \ {<<p, "observer">>} = {}
  BY <1>1, FS_EmptySet, SameCardinality DEF Reader!OtherSessions
<1> QED BY <1>2

\* A process record with another stage, and the fresh one, are process records.
LEMMA ProcessTyped ==
  ASSUME ReaderTyped, NEW p \in Processes, NEW s \in Reader!Stages
  PROVE  /\ [proc EXCEPT ![p].stage = s] \in [Processes -> Reader!Process]
         /\ Reader!Fresh \in Reader!Process
BY DEF ReaderTyped, Reader!Process, Reader!Fresh, Reader!Stages

LEMMA ReaderInit == Reader!Init => ReaderInv
<1> SUFFICES ASSUME Reader!Init PROVE ReaderInv
  OBVIOUS
<1> USE DEF Reader!Init
<1>1. ReaderTyped
  BY FS_EmptySet DEF ReaderTyped, Reader!Process, Reader!Fresh, Reader!Stages
<1>2. ReadersHoldSessions /\ OneIsBusy /\ ReadsAreApproved
  BY DEF ReadersHoldSessions, OneIsBusy, ReadsAreApproved, Reader!Fresh,
         Observed, Busy, Checked, Answered
<1> QED BY <1>1, <1>2 DEF ReaderInv

\* A step from one stage to the next that leaves the sessions alone.
LEMMA StageStep ==
  ASSUME ReaderInv, NEW p \in Processes, NEW here \in Reader!Stages, NEW there \in Reader!Stages,
         Reader!At(p, here), Reader!Go(p, there), UNCHANGED <<sessions, served>>,
         there \in Observed => here \in Observed,
         there \in Busy => here \in Busy \/ sessions \subseteq {<<p, "observer">>},
         there \in Checked => here \in Checked,
         there \in Answered => here \in Answered
  PROVE  ReaderInv'
<1> USE DEF Reader!At, Reader!Go, ReaderInv
<1>1. ReaderTyped'
  BY ProcessTyped DEF ReaderTyped
<1>2. \A q \in Processes : q # p => proc'[q] = proc[q]
  BY DEF ReaderTyped
<1>3. /\ proc'[p].stage = there
      /\ proc'[p].snapshot = proc[p].snapshot /\ proc'[p].body = proc[p].body
  BY DEF ReaderTyped, Reader!Process
<1>4. ReadersHoldSessions'
  BY <1>2, <1>3 DEF ReadersHoldSessions
<1>5. OneIsBusy'
  <2> SUFFICES ASSUME NEW q \in Processes, q # p, there \in Busy, proc[q].stage \in Busy
               PROVE  FALSE
    BY <1>2, <1>3 DEF OneIsBusy
  <2>1. CASE here \in Busy
    BY <2>1 DEF OneIsBusy
  <2>2. CASE sessions \subseteq {<<p, "observer">>}
    <3>1. <<q, "observer">> \in sessions
      BY DEF ReadersHoldSessions, Busy
    <3> QED BY <2>2, <3>1
  <2> QED BY <2>1, <2>2
<1>6. ReadsAreApproved'
  BY <1>2, <1>3 DEF ReadsAreApproved
<1> QED BY <1>1, <1>4, <1>5, <1>6

\* A process that goes back to the fresh state and gives up no session but its own.
LEMMA FreshStep ==
  ASSUME ReaderInv, NEW p \in Processes, proc' = [proc EXCEPT ![p] = Reader!Fresh],
         IsFiniteSet(sessions'), UNCHANGED served,
         \A q \in Processes \ {p} : <<q, "observer">> \in sessions => <<q, "observer">> \in sessions'
  PROVE  ReaderInv'
<1> USE DEF ReaderInv
<1>1. ReaderTyped'
  BY ProcessTyped DEF ReaderTyped, Reader!Stages
<1>2. (\A q \in Processes \ {p} : proc'[q] = proc[q]) /\ proc'[p].stage = "idle"
  BY DEF ReaderTyped, Reader!Fresh
<1>3. ReadersHoldSessions' /\ OneIsBusy' /\ ReadsAreApproved'
  BY <1>2 DEF ReadersHoldSessions, OneIsBusy, ReadsAreApproved, Observed, Busy, Checked, Answered
<1> QED BY <1>1, <1>3

\* What is left of a finite set of sessions is finite.
LEMMA FewerSessions ==
  ASSUME ReaderTyped, NEW S, S \subseteq sessions
  PROVE  IsFiniteSet(S)
BY FS_Subset DEF ReaderTyped

LEMMA ReaderStep == ReaderInv /\ [Reader!Next]_(Reader!vars) => ReaderInv'
<1> SUFFICES ASSUME ReaderInv, [Reader!Next]_(Reader!vars) PROVE ReaderInv'
  OBVIOUS
<1> USE DEF Reader!ReadOnly
<1>1. ASSUME NEW p \in Processes, NEW performance \in BOOLEAN, Reader!Admit(p, performance)
      PROVE  ReaderInv'
  <2>1. proc'[p].stage \in {"prepare", "observe"} /\ proc'[p] \in Reader!Process
    BY <1>1 DEF Reader!Admit, ReaderInv, ReaderTyped, Reader!Process, Reader!Fresh, Reader!Stages
  <2>2. /\ proc' \in [Processes -> Reader!Process]
        /\ \A q \in Processes : q # p => proc'[q] = proc[q]
    BY <1>1, <2>1 DEF Reader!Admit, ReaderInv, ReaderTyped
  <2>3. sessions' = sessions /\ served' = served
    BY <1>1 DEF Reader!Admit
  <2> QED BY <2>1, <2>2, <2>3 DEF ReaderInv, ReaderTyped, ReadersHoldSessions, OneIsBusy,
             ReadsAreApproved, Observed, Busy, Checked, Answered
<1>2. ASSUME NEW p \in Processes,
             \/ Reader!Prepare(p) \/ Reader!Alone(p) \/ Reader!Present(p)
             \/ Reader!PostCheck(p) \/ Reader!Rollback(p) \/ Reader!Dispose(p) \/ Reader!Absent(p)
      PROVE  ReaderInv'
  <2> USE StageStep DEF Observed, Busy, Checked, Answered, Reader!Stages
  <2>1. CASE Reader!Prepare(p)   BY <2>1 DEF Reader!Prepare
  <2>2. CASE Reader!Alone(p)     BY <2>2, NoOtherSession DEF Reader!Alone, ReaderInv
  <2>3. CASE Reader!Present(p)   BY <2>3 DEF Reader!Present
  <2>4. CASE Reader!PostCheck(p) BY <2>4 DEF Reader!PostCheck
  <2>5. CASE Reader!Rollback(p)  BY <2>5 DEF Reader!Rollback
  <2>6. CASE Reader!Dispose(p)   BY <2>6 DEF Reader!Dispose
  <2>7. CASE Reader!Absent(p)    BY <2>7 DEF Reader!Absent
  <2> QED BY <1>2, <2>1, <2>2, <2>3, <2>4, <2>5, <2>6, <2>7
<1>3. ASSUME NEW p \in Processes, Reader!Observe(p) \/ Reader!Connect(p) PROVE ReaderInv'
  <2>1. /\ IsFiniteSet(sessions') /\ sessions \subseteq sessions'
        /\ served' = served
    BY <1>3, FS_AddElement DEF Reader!Observe, Reader!Connect, ReaderInv, ReaderTyped
  <2>2. /\ proc' \in [Processes -> Reader!Process]
        /\ \A q \in Processes : q # p => proc'[q] = proc[q]
    <3>1. \E s \in {"alone", "present"} : proc' = [proc EXCEPT ![p].stage = s]
      BY <1>3 DEF Reader!Observe, Reader!Connect, Reader!Go
    <3>2. {"alone", "present"} \subseteq Reader!Stages
      BY DEF Reader!Stages
    <3> QED BY <3>1, <3>2, ProcessTyped DEF ReaderInv, ReaderTyped
  <2>3. \/ proc'[p].stage = "alone" /\ <<p, "observer">> \in sessions'
        \/ proc'[p].stage = "present" /\ proc[p].stage = "connect"
    BY <1>3 DEF Reader!Observe, Reader!Connect, Reader!Go, Reader!At, ReaderInv, ReaderTyped, Reader!Process
  <2> QED BY <2>1, <2>2, <2>3 DEF ReaderInv, ReaderTyped, ReadersHoldSessions, OneIsBusy,
             ReadsAreApproved, Observed, Busy, Checked, Answered
<1>4. ASSUME NEW p \in Processes,
             Reader!Begin(p) \/ Reader!CheckFixture(p) \/ Reader!Service(p)
      PROVE  ReaderInv'
  <2> USE DEF Reader!Begin, Reader!CheckFixture, Reader!Service, Reader!At, ReaderInv, ReaderTyped
  <2>1. proc' \in [Processes -> Reader!Process]
    BY <1>4 DEF Reader!Process, Reader!Stages
  <2>2. \A q \in Processes : q # p => proc'[q] = proc[q]
    BY <1>4
  <2>3. /\ {proc[p].stage, proc'[p].stage} \subseteq Busy
        /\ proc'[p].stage \in Checked  => proc'[p].snapshot = Approved
        /\ proc'[p].stage \in Answered => proc'[p].body = Approved
    BY <1>4 DEF Reader!Process, ReadsAreApproved, Busy, Observed, Checked, Answered
  <2>4. sessions' = sessions /\ served' = served
    BY <1>4
  <2> QED BY <2>1, <2>2, <2>3, <2>4 DEF ReadersHoldSessions, OneIsBusy, ReadsAreApproved, Busy
<1>5. ASSUME NEW p \in Processes, Reader!BackendEnds(p) \/ Reader!ObserverEnds(p) PROVE ReaderInv'
  <2>1. IsFiniteSet(sessions') /\ UNCHANGED <<proc, served>>
    BY <1>5, FewerSessions DEF Reader!BackendEnds, Reader!ObserverEnds, ReaderInv
  <2>2. \A q \in Processes : proc[q].stage \in Observed =>
          (<<q, "observer">> \in sessions => <<q, "observer">> \in sessions')
    BY <1>5 DEF Reader!BackendEnds, Reader!ObserverEnds, Reader!At, Observed
  <2> QED BY <2>1, <2>2 DEF ReaderInv, ReaderTyped, ReadersHoldSessions, OneIsBusy, ReadsAreApproved
<1>6. ASSUME NEW p \in Processes, Reader!Refuse(p) \/ Reader!Recycle(p) PROVE ReaderInv'
  <2>1. IsFiniteSet(sessions')
    BY <1>6, FewerSessions DEF Reader!Refuse, Reader!Recycle, ReaderInv, ReaderTyped
  <2> QED BY <1>6, <2>1, FreshStep DEF Reader!Refuse, Reader!Recycle
<1>7. ASSUME NEW p \in Processes, Reader!Close(p) PROVE ReaderInv'
  <2>1. IsFiniteSet(sessions')
    BY <1>7, FewerSessions DEF Reader!Close, ReaderInv
  <2>2. \A r \in served' : r.body = Approved
    <3>1. proc[p].body = Approved
      BY <1>7 DEF Reader!Close, Reader!At, ReaderInv, ReadsAreApproved, Answered, Checked
    <3>2. served' = served \cup {[body |-> proc[p].body, by |-> p]}
      BY <1>7 DEF Reader!Close
    <3> QED BY <3>1, <3>2 DEF ReaderInv, ReadsAreApproved
  <2>3. /\ proc' = [proc EXCEPT ![p] = Reader!Fresh]
        /\ \A q \in Processes \ {p} : <<q, "observer">> \in sessions => <<q, "observer">> \in sessions'
    BY <1>7 DEF Reader!Close
  <2>4. (\A q \in Processes \ {p} : proc'[q] = proc[q]) /\ proc'[p].stage = "idle"
    BY <2>3 DEF ReaderInv, ReaderTyped, Reader!Fresh
  <2>5. ReaderTyped'
    BY <2>1, <2>3, ProcessTyped DEF ReaderInv, ReaderTyped, Reader!Stages
  <2> QED BY <2>2, <2>3, <2>4, <2>5 DEF ReaderInv, ReadersHoldSessions, OneIsBusy, ReadsAreApproved,
             Observed, Busy, Checked, Answered
<1>8. ASSUME Reader!OwnerWrites \/ Reader!Tick \/ UNCHANGED Reader!vars PROVE ReaderInv'
  <2>1. UNCHANGED <<sessions, proc, served>>
    BY <1>8 DEF Reader!OwnerWrites, Reader!Tick, Reader!vars
  <2> QED BY <2>1 DEF ReaderInv, ReaderTyped, ReadersHoldSessions, OneIsBusy, ReadsAreApproved
<1> QED BY <1>1, <1>2, <1>3, <1>4, <1>5, <1>6, <1>7, <1>8 DEF Reader!Next

\* Two processes are never inside their snapshots together, though nothing but the count
\* of the role's sessions keeps them apart, and what was served is the approved fixture.
THEOREM ReadsAloneHolds == Reader!Spec => []ReadsAreAlone
<1>1. ReaderInv => ReadsAreAlone
  BY DEF ReaderInv, OneIsBusy, ReadsAreApproved, ReadsAreAlone, Reader!ReadsAreAlone,
         Reader!Reading, Busy, Observed
<1> QED BY <1>1, ReaderInit, ReaderStep, PTL DEF Reader!Spec

-----------------------------------------------------------------------------
(* PolicyEvidence: what the audit binds.  A report keeps what it was computed *)
(* from; the audit refuses what does not link, so a verdict carries the       *)
(* conditions of the input report and of the outcome over to its files.       *)

OutcomesReview ==
  \A o \in outcomes :
    /\ Policy!Loads(o.baseline, o.selections[1]) /\ Policy!Loads(o.candidate, o.selections[2])
    /\ o.selections[1].config = o.selections[2].config
    /\ o.status = Policy!Controls(o.selections[1], o.selections[2])
AuditLinks ==
  audit # None =>
    /\ audit = [files |-> audit.files, status |-> audit.status]
    /\ {audit.files.baseline, audit.files.candidate} \subseteq Datasets
    /\ audit.files.outcome \in outcomes
    /\ audit.status # "blocked" => Policy!Metadata(audit.files)

PolicyInv == built \subseteq Datasets /\ OutcomesReview /\ AuditLinks

\* A pair whose status is isolated differs in its facts and in nothing else but the policy.
LEMMA IsolatedDiffers ==
  ASSUME NEW b \in Datasets, NEW c \in Datasets, Policy!Status(b, c) = "isolated_policy_change"
  PROVE  b.source = c.source /\ b.rows = c.rows /\ b.runtime = c.runtime /\ b.inputs = c.inputs
         /\ b.facts # c.facts
<1> DEFINE comparable == b.source = c.source /\ b.rows = c.rows
           unchanged  == b.runtime = c.runtime /\ b.inputs = c.inputs
<1>1. CASE ~comparable
  <2>1. Policy!Status(b, c) = "not_comparable"
    BY <1>1 DEF Policy!Status
  <2> QED BY <2>1
<1>2. CASE comparable /\ ~unchanged
  <2>1. Policy!Status(b, c) = "confounded"
    BY <1>2 DEF Policy!Status
  <2> QED BY <2>1
<1>3. CASE comparable /\ unchanged /\ b.facts = c.facts
  <2>1. Policy!Status(b, c) = "no_observed_fundamental_change"
    BY <1>3 DEF Policy!Status
  <2> QED BY <2>1
<1> QED BY <1>1, <1>2, <1>3

\* A dataset with another policy and other facts.
LEMMA OnlyFactsDiffer ==
  ASSUME NEW b, NEW c,
         b = [policy |-> b.policy, source |-> b.source, runtime |-> b.runtime,
              rows |-> b.rows, inputs |-> b.inputs, facts |-> b.facts],
         c = [policy |-> Policy!Revised, source |-> b.source, runtime |-> b.runtime,
              rows |-> b.rows, inputs |-> b.inputs, facts |-> c.facts]
  PROVE  c = [b EXCEPT !.policy = Policy!Revised, !.facts = c.facts]
<1> DEFINE d == [b EXCEPT !.policy = Policy!Revised]
<1>1. d = [policy |-> Policy!Revised, source |-> b.source, runtime |-> b.runtime,
           rows |-> b.rows, inputs |-> b.inputs, facts |-> b.facts]
  OBVIOUS
<1>2. [b EXCEPT !.policy = Policy!Revised, !.facts = c.facts] = [d EXCEPT !.facts = c.facts]
  BY Zenon
<1> HIDE DEF d
<1> QED BY <1>1, <1>2

LEMMA PolicyInit == Policy!Init => PolicyInv
BY DEF Policy!Init, PolicyInv, OutcomesReview, AuditLinks

LEMMA PolicyStep == PolicyInv /\ [Policy!Next]_(Policy!vars) => PolicyInv'
<1> SUFFICES ASSUME PolicyInv, [Policy!Next]_(Policy!vars) PROVE PolicyInv'
  OBVIOUS
<1>1. ASSUME UNCHANGED <<outcomes, audit>>, built' \subseteq Datasets PROVE PolicyInv'
  BY <1>1 DEF PolicyInv, OutcomesReview, AuditLinks
<1>2. ASSUME NEW d \in Datasets, Policy!Build(d) PROVE PolicyInv'
  BY <1>1, <1>2 DEF Policy!Build, PolicyInv
<1>3. ASSUME NEW d \in Datasets, NEW config \in Configs, Policy!Select(d, config) PROVE PolicyInv'
  BY <1>1, <1>3 DEF Policy!Select, PolicyInv
<1>4. ASSUME NEW b \in Datasets, NEW c \in Datasets, Policy!Compare(b, c) PROVE PolicyInv'
  BY <1>1, <1>4 DEF Policy!Compare, PolicyInv
<1>5. ASSUME NEW b \in Datasets, NEW c \in Datasets, NEW i \in inputs, NEW intervals,
             Policy!Review(b, c, i, intervals)
      PROVE  PolicyInv'
  <2> DEFINE s == selections[Policy!Identity(b)]
             t == selections[Policy!Identity(c)]
             o == [input |-> i, baseline |-> b, candidate |-> c, selections |-> <<s, t>>,
                   intervals |-> intervals, status |-> Policy!Controls(s, t)]
  <2>1. /\ outcomes' = outcomes \cup {o} /\ UNCHANGED <<built, audit>>
        /\ Policy!Loads(b, s) /\ Policy!Loads(c, t) /\ s.config = t.config
    BY <1>5 DEF Policy!Review
  <2>2. /\ o.baseline = b /\ o.candidate = c /\ o.selections[1] = s /\ o.selections[2] = t
        /\ o.status = Policy!Controls(s, t)
    OBVIOUS
  <2> HIDE DEF o, s, t
  <2>3. OutcomesReview'
    BY <2>1, <2>2 DEF PolicyInv, OutcomesReview, Policy!Loads, Policy!Controls
  <2>4. AuditLinks'
    BY <2>1 DEF PolicyInv, AuditLinks
  <2> QED BY <2>1, <2>3, <2>4 DEF PolicyInv
<1>6. ASSUME NEW b \in Datasets, NEW c \in Datasets, NEW i \in inputs, NEW o \in outcomes,
             Policy!AuditReads(b, c, i, o)
      PROVE  PolicyInv'
  <2> DEFINE f == [baseline |-> b, candidate |-> c, input |-> i, outcome |-> o,
                   selections |-> <<selections[Policy!Identity(b)], selections[Policy!Identity(c)]>>]
  <2>1. /\ audit' = [files |-> f, status |-> IF Policy!Metadata(f) THEN "metadata" ELSE "blocked"]
        /\ UNCHANGED <<built, outcomes>>
    BY <1>6 DEF Policy!AuditReads
  <2>2. f.baseline = b /\ f.candidate = c /\ f.outcome = o
    OBVIOUS
  <2> HIDE DEF f
  <2>3. /\ audit' = [files |-> audit'.files, status |-> audit'.status] /\ audit'.files = f
        /\ audit'.status # "blocked" => Policy!Metadata(f)
    BY <2>1
  <2>4. AuditLinks'
    BY <2>1, <2>2, <2>3 DEF AuditLinks, Policy!Metadata
  <2>5. OutcomesReview'
    BY <2>1 DEF PolicyInv, OutcomesReview
  <2> QED BY <2>1, <2>4, <2>5 DEF PolicyInv
<1>7. ASSUME Policy!AuditHashes PROVE PolicyInv'
  <2>1. /\ audit # None /\ audit.status = "metadata" /\ UNCHANGED <<built, outcomes>>
        /\ \E s \in {"content_bound_only", "blocked"} : audit' = [audit EXCEPT !.status = s]
    BY <1>7 DEF Policy!AuditHashes
  <2>2. /\ audit = [files |-> audit.files, status |-> audit.status]
        /\ {audit.files.baseline, audit.files.candidate} \subseteq Datasets
        /\ audit.files.outcome \in outcomes
        /\ Policy!Metadata(audit.files)
    BY <2>1 DEF PolicyInv, AuditLinks
  <2>3. /\ audit'.files = audit.files
        /\ audit' = [files |-> audit'.files, status |-> audit'.status]
    BY <2>1, <2>2
  <2>4. AuditLinks'
    BY <2>1, <2>2, <2>3 DEF AuditLinks, Policy!Metadata
  <2>5. OutcomesReview'
    BY <2>1 DEF PolicyInv, OutcomesReview
  <2> QED BY <2>1, <2>4, <2>5 DEF PolicyInv
<1>8. CASE UNCHANGED Policy!vars
  BY <1>1, <1>8 DEF Policy!vars, PolicyInv
<1> QED BY <1>2, <1>3, <1>4, <1>5, <1>6, <1>7, <1>8 DEF Policy!Next

\* Content that is bound is of one comparison: two datasets that differ in their policy and
\* their facts alone, and the outcome of the selections that were hashed.
THEOREM OneComparisonBound == Policy!Spec => []BoundIsOneComparison
<1>1. PolicyInv => BoundIsOneComparison
  <2> SUFFICES ASSUME PolicyInv, audit # None, audit.status = "content_bound_only"
               PROVE  BoundIsOneComparison
    BY DEF BoundIsOneComparison, Policy!BoundIsOneComparison
  <2> DEFINE f == audit.files
             b == f.baseline
             c == f.candidate
  <2>1. /\ b \in Datasets /\ c \in Datasets /\ f.outcome \in outcomes
        /\ Policy!Metadata(f)
    BY DEF PolicyInv, AuditLinks
  <2>2. /\ Policy!Status(b, c) = "isolated_policy_change"
        /\ f.outcome.baseline = b /\ f.outcome.candidate = c
        /\ b.policy = "legacy_v1" /\ c.policy = "duration_aware_v2"
        /\ f.outcome.selections = f.selections
    BY <2>1 DEF Policy!Metadata, Policy!InputAccepted, Policy!Linked, Policy!Legacy, Policy!Revised
  <2> HIDE DEF f
  <2>3. /\ b.source = c.source /\ b.rows = c.rows /\ b.runtime = c.runtime /\ b.inputs = c.inputs
        /\ b.facts # c.facts
    BY <2>1, <2>2, IsolatedDiffers
  <2>4. /\ Policy!Loads(b, f.selections[1]) /\ Policy!Loads(c, f.selections[2])
        /\ f.selections[1].config = f.selections[2].config
        /\ f.outcome.status = Policy!Controls(f.selections[1], f.selections[2])
    BY <2>1, <2>2 DEF PolicyInv, OutcomesReview
  <2>5. /\ f.selections[1].scores[1].rows = b.rows /\ f.selections[2].scores[1].rows = b.rows
        /\ f.outcome.status = "pretest_development_only" =>
             f.selections[1].scores[1].inputs = f.selections[2].scores[1].inputs
    BY <2>3, <2>4 DEF Policy!Loads, Policy!Controls
  <2>6. c = [b EXCEPT !.policy = Policy!Revised, !.facts = c.facts]
    <3>1. \A d \in Datasets :
            d = [policy |-> d.policy, source |-> d.source, runtime |-> d.runtime,
                 rows |-> d.rows, inputs |-> d.inputs, facts |-> d.facts]
      BY StudiesAssumption DEF Policy!PolicyAssumption
    <3>2. /\ b = [policy |-> b.policy, source |-> b.source, runtime |-> b.runtime,
                  rows |-> b.rows, inputs |-> b.inputs, facts |-> b.facts]
          /\ c = [policy |-> Policy!Revised, source |-> b.source, runtime |-> b.runtime,
                  rows |-> b.rows, inputs |-> b.inputs, facts |-> c.facts]
      BY <2>1, <2>2, <2>3, <3>1 DEF Policy!Revised
    <3> HIDE DEF b, c
    <3> QED BY <3>2, OnlyFactsDiffer
  <2> QED BY <2>2, <2>3, <2>4, <2>5, <2>6 DEF BoundIsOneComparison, Policy!BoundIsOneComparison, f
<1> QED BY <1>1, PolicyInit, PolicyStep, PTL DEF Policy!Spec

-----------------------------------------------------------------------------
(* CohortCommitment: what is attested.  One capture writes a directory, so a  *)
(* directory with its three files is never written again; a comment that was  *)
(* never edited has its body from the second it was created in.               *)

Committed(c, moment) ==
  \E policy \in Cohort!Policies, content \in Sources, t \in 0..moment :
    c = Cohort!Commitment(policy, content, t) /\ Cohort!Commits(policy, content, t)
Writes(p) == Cohort!Running(p) /\ capture[p].made

CohortTyped ==
  /\ wall \in 0..MaxClock
  /\ directory \in [Directories -> {None} \cup Cohort!Captured]
  /\ capture \in [Processes -> {None, Over} \cup
       [policy : Cohort!Policies, to : Directories, holds : {None} \cup Cohort!Commitments, made : BOOLEAN]]
DirectoriesCommit ==
  \A d \in Directories : directory[d] # None => Committed(directory[d].commitment, wall)
CapturesCommit ==
  \A p \in Processes : Cohort!Running(p) /\ capture[p].holds # None => Committed(capture[p].holds, wall)
OneWriter ==
  /\ \A p \in Processes : Writes(p) =>
       directory[capture[p].to] # None /\ directory[capture[p].to].written \in 0..2
  /\ \A p, q \in Processes : Writes(p) /\ Writes(q) /\ capture[p].to = capture[q].to => p = q
CommentsDated ==
  \A c \in comments :
    /\ c = [author |-> c.author, created |-> c.created, updated |-> c.updated,
            body |-> c.body, history |-> c.history]
    /\ \E t \in 0..wall : /\ <<c.body, t>> \in c.history
                         /\ c.updated = Cohort!Second(t) /\ c.body.at <= t
AttestationVerified ==
  attestation # None => attestation \in Directories /\ Cohort!Verifies(attestation)
ReportsBacked ==
  \A r \in reports :
    /\ r.directory \in Directories /\ Cohort!Verifies(r.directory)
    /\ directory[r.directory].commitment = r.commitment
    /\ \E h \in r.history :
         h[1] = r.commitment /\ Cohort!InWindow(h[2]) /\ r.commitment.at <= h[2]

CohortInv == /\ CohortTyped /\ DirectoriesCommit /\ CapturesCommit /\ OneWriter
             /\ CommentsDated /\ AttestationVerified /\ ReportsBacked

LEMMA WindowInNat == {Opens, Closes, MaxClock} \subseteq Nat /\ None \notin Cohort!Captured
BY StudiesAssumption DEF Cohort!CommitmentAssumption, Cohort!Captured, Cohort!Commitments

\* A commitment has the fields it was made of, and is one of the typed ones.
LEMMA CommitmentFields ==
  ASSUME NEW c, Committed(c, wall), wall \in 0..MaxClock
  PROVE  /\ c \in Cohort!Commitments
         /\ c.at \in 0..wall /\ c.roster = Cohort!Roster(c.index)
         /\ Cohort!Commits(c.policy, c.index, c.at)
<1>1. PICK policy \in Cohort!Policies, content \in Sources, t \in 0..wall :
        c = Cohort!Commitment(policy, content, t) /\ Cohort!Commits(policy, content, t)
  BY DEF Committed
<1>2. c.policy = policy /\ c.index = content /\ c.at = t /\ c.roster = Cohort!Roster(content)
  BY <1>1 DEF Cohort!Commitment
<1>3. t \in 0..MaxClock
  BY WindowInNat
<1>4. c \in Cohort!Commitments
  BY <1>1, <1>3 DEF Cohort!Commitments
<1> QED BY <1>1, <1>2, <1>4

\* As time passes a commitment stays one.
LEMMA CommitmentStays ==
  ASSUME NEW c, Committed(c, wall), wall \in Nat, wall' \in Nat, wall <= wall'
  PROVE  Committed(c, wall')
<1>1. 0..wall \subseteq 0..wall'
  OBVIOUS
<1> QED BY <1>1 DEF Committed, Cohort!Commitment, Cohort!Commits, Cohort!InWindow, Cohort!Second,
                    Cohort!IsPinned, Cohort!Roster, Cohort!Policies

\* What a step that leaves the directories with their files alone keeps.
LEMMA PublishedStays ==
  ASSUME CohortInv, UNCHANGED reports,
         \A d \in Directories : Cohort!Verifies(d) => directory'[d] = directory[d]
  PROVE  /\ \A d \in Directories : Cohort!Verifies(d) => Cohort!Verifies(d)'
         /\ ReportsBacked'
         /\ attestation' = attestation => AttestationVerified'
<1>1. \A d \in Directories : Cohort!Verifies(d) => Cohort!Verifies(d)'
  BY DEF Cohort!Verifies, Cohort!Commits, Cohort!InWindow, Cohort!IsPinned, Cohort!Roster, Cohort!Second
<1>2. ReportsBacked'
  BY <1>1 DEF CohortInv, ReportsBacked, Cohort!InWindow, Cohort!Second
<1>3. attestation' = attestation => AttestationVerified'
  BY <1>1 DEF CohortInv, AttestationVerified
<1> QED BY <1>1, <1>2, <1>3

LEMMA CommentsStay ==
  ASSUME CohortInv, UNCHANGED comments, wall' \in Nat, wall <= wall'
  PROVE  CommentsDated'
<1>1. 0..wall \subseteq 0..wall'
  BY WindowInNat DEF CohortInv, CohortTyped
<1> QED BY <1>1 DEF CohortInv, CommentsDated, Cohort!Second

LEMMA CohortInit == Cohort!Init => CohortInv
<1> SUFFICES ASSUME Cohort!Init PROVE CohortInv
  OBVIOUS
<1>1. CohortTyped
  BY WindowInNat DEF Cohort!Init, CohortTyped
<1>2. DirectoriesCommit /\ CapturesCommit /\ OneWriter
  BY DEF Cohort!Init, DirectoriesCommit, CapturesCommit, OneWriter, Writes, Cohort!Running
<1>3. CommentsDated /\ AttestationVerified /\ ReportsBacked
  BY DEF Cohort!Init, CommentsDated, AttestationVerified, ReportsBacked
<1> QED BY <1>1, <1>2, <1>3 DEF CohortInv

\* A capture that goes on or ends without touching its directory.
LEMMA CaptureStep ==
  ASSUME CohortInv, NEW p \in Processes,
         NEW r \in {None, Over} \cup [policy : Cohort!Policies, to : Directories,
                                     holds : {None} \cup Cohort!Commitments, made : BOOLEAN],
         capture' = [capture EXCEPT ![p] = r],
         UNCHANGED <<wall, directory, comments, attestation, reports>>,
         r \notin {None, Over} /\ r.holds # None => Committed(r.holds, wall),
         r \notin {None, Over} /\ r.made => Writes(p) /\ r.to = capture[p].to
  PROVE  CohortInv'
<1>1. \A q \in Processes : capture'[q] = IF q = p THEN r ELSE capture[q]
  BY DEF CohortInv, CohortTyped
<1>2. CohortTyped'
  BY DEF CohortInv, CohortTyped
<1>3. \A c : Committed(c, wall) => Committed(c, wall')
  BY CommitmentStays, WindowInNat DEF CohortInv, CohortTyped
<1>4. DirectoriesCommit'
  BY <1>3 DEF CohortInv, DirectoriesCommit
<1>5. CapturesCommit'
  <2> SUFFICES ASSUME NEW q \in Processes, Cohort!Running(q)', capture'[q].holds # None
               PROVE  Committed(capture'[q].holds, wall')
    BY DEF CapturesCommit
  <2>1. CASE q = p
    BY <1>1, <1>3, <2>1 DEF Cohort!Running
  <2>2. CASE q # p
    BY <1>1, <1>3, <2>2 DEF CohortInv, CapturesCommit, Cohort!Running
  <2> QED BY <2>1, <2>2
<1>6. \A q \in Processes : Writes(q)' => Writes(q) /\ capture'[q].to = capture[q].to
  <2> SUFFICES ASSUME NEW q \in Processes, Writes(q)'
               PROVE  Writes(q) /\ capture'[q].to = capture[q].to
    OBVIOUS
  <2>1. capture'[q] \notin {None, Over} /\ capture'[q].made
    BY DEF Writes, Cohort!Running
  <2>2. CASE q = p
    <3>1. capture'[q] = r
      BY <1>1, <2>2
    <3>2. r \notin {None, Over} /\ r.made
      BY <2>1, <3>1
    <3> QED BY <2>2, <3>1, <3>2, Zenon
  <2>3. CASE q # p
    BY <1>1, <2>1, <2>3 DEF Writes, Cohort!Running
  <2> QED BY <2>2, <2>3
<1>7. OneWriter'
  BY <1>6 DEF CohortInv, OneWriter
<1>8. CommentsDated' /\ ReportsBacked' /\ AttestationVerified'
  BY CommentsStay, PublishedStays, WindowInNat DEF CohortInv, CohortTyped
<1> QED BY <1>2, <1>4, <1>5, <1>7, <1>8 DEF CohortInv

LEMMA CohortStep == CohortInv /\ [Cohort!Next]_(Cohort!vars) => CohortInv'
<1> SUFFICES ASSUME CohortInv, [Cohort!Next]_(Cohort!vars) PROVE CohortInv'
  OBVIOUS
<1>0. /\ wall \in Nat /\ wall \in 0..MaxClock
      /\ \A p \in Processes : Cohort!Running(p) =>
           capture[p] \in [policy : Cohort!Policies, to : Directories,
                          holds : {None} \cup Cohort!Commitments, made : BOOLEAN]
  BY WindowInNat DEF CohortInv, CohortTyped, Cohort!Running
<1>1. ASSUME Cohort!Tick \/ UNCHANGED Cohort!vars PROVE CohortInv'
  <2>1. /\ UNCHANGED <<capture, directory, comments, attestation, reports>>
        /\ wall' \in 0..MaxClock /\ wall' \in Nat /\ wall <= wall'
    BY <1>0, <1>1, WindowInNat DEF Cohort!Tick, Cohort!vars
  <2>2. \A c : Committed(c, wall) => Committed(c, wall')
    BY <1>0, <2>1, CommitmentStays
  <2>3. CohortTyped'
    BY <2>1 DEF CohortInv, CohortTyped
  <2>4. DirectoriesCommit' /\ CapturesCommit' /\ OneWriter'
    BY <2>1, <2>2 DEF CohortInv, DirectoriesCommit, CapturesCommit, OneWriter, Writes, Cohort!Running
  <2>5. CommentsDated' /\ ReportsBacked' /\ AttestationVerified'
    BY <2>1, CommentsStay, PublishedStays
  <2> QED BY <2>3, <2>4, <2>5 DEF CohortInv
<1>2. ASSUME NEW p \in Processes, NEW policy \in Cohort!Policies, NEW d \in Directories,
             Cohort!Begin(p, policy, d)
      PROVE  CohortInv'
  <2> DEFINE r == [policy |-> policy, to |-> d, holds |-> None, made |-> FALSE]
  <2>1. /\ capture' = [capture EXCEPT ![p] = r]
        /\ UNCHANGED <<wall, directory, comments, attestation, reports>>
    BY <1>2 DEF Cohort!Begin
  <2>2. r.holds = None /\ r.made = FALSE
        /\ r \in [policy : Cohort!Policies, to : Directories,
                  holds : {None} \cup Cohort!Commitments, made : BOOLEAN]
    OBVIOUS
  <2> HIDE DEF r
  <2> QED BY <2>1, <2>2, CaptureStep
<1>3. ASSUME NEW p \in Processes, NEW content \in Sources, Cohort!Receive(p, content)
      PROVE  CohortInv'
  <2> DEFINE policy == capture[p].policy
             h == Cohort!Commitment(policy, content, wall)
             r == [capture[p] EXCEPT !.holds = h]
  <2>1. /\ capture[p] \in [policy : Cohort!Policies, to : Directories,
                           holds : {None} \cup Cohort!Commitments, made : BOOLEAN]
        /\ Cohort!Running(p)
        /\ UNCHANGED <<wall, directory, comments, attestation, reports>>
    BY <1>0, <1>3 DEF Cohort!Receive
  <2>2. CASE Cohort!Commits(policy, content, wall)
    <3>1. Committed(h, wall) /\ h \in Cohort!Commitments
      BY <1>0, <2>1, <2>2 DEF Committed, Cohort!Commitments
    <3>2. capture' = [capture EXCEPT ![p] = r]
      BY <1>3, <2>2 DEF Cohort!Receive
    <3> HIDE DEF h
    <3>3. /\ r \in [policy : Cohort!Policies, to : Directories,
                    holds : {None} \cup Cohort!Commitments, made : BOOLEAN]
          /\ r.holds = h /\ r.made = capture[p].made /\ r.to = capture[p].to
      BY <2>1, <3>1
    <3> HIDE DEF r
    <3> QED BY <2>1, <3>1, <3>2, <3>3, CaptureStep DEF Writes
  <2>3. CASE ~Cohort!Commits(policy, content, wall)
    <3>1. capture' = [capture EXCEPT ![p] = Over]
      BY <1>3, <2>3 DEF Cohort!Receive
    <3> QED BY <2>1, <3>1, CaptureStep
  <2> QED BY <2>2, <2>3
<1>4. ASSUME NEW p \in Processes, Cohort!Stop(p) PROVE CohortInv'
  BY <1>4, CaptureStep DEF Cohort!Stop
<1>5. ASSUME NEW p \in Processes, Cohort!MakeDirectory(p) PROVE CohortInv'
  <2> DEFINE c == capture[p]
             r == [commitment |-> c.holds, written |-> 0]
  <2>1. /\ c \in [policy : Cohort!Policies, to : Directories,
                  holds : {None} \cup Cohort!Commitments, made : BOOLEAN]
        /\ Cohort!Running(p) /\ c.holds # None /\ UNCHANGED <<wall, comments, attestation, reports>>
    BY <1>0, <1>5 DEF Cohort!MakeDirectory
  <2>2. CASE directory[c.to] # None
    <3>1. capture' = [capture EXCEPT ![p] = Over] /\ directory' = directory
      BY <1>5, <2>2 DEF Cohort!MakeDirectory
    <3> QED BY <2>1, <3>1, CaptureStep
  <2>3. CASE directory[c.to] = None
    <3>1. /\ directory' = [directory EXCEPT ![c.to] = r]
          /\ capture' = [capture EXCEPT ![p].made = TRUE]
      BY <1>5, <2>3 DEF Cohort!MakeDirectory
    <3>2. Committed(c.holds, wall) /\ c.holds \in Cohort!Commitments
      BY <2>1 DEF CohortInv, CapturesCommit
    <3>3. r \in Cohort!Captured /\ r # None /\ r.commitment = c.holds /\ r.written = 0
      BY <3>2, WindowInNat DEF Cohort!Captured
    <3> HIDE DEF r
    <3>4. /\ \A d \in Directories : directory'[d] = IF d = c.to THEN r ELSE directory[d]
          /\ \A q \in Processes \ {p} : capture'[q] = capture[q]
          /\ capture'[p].to = c.to /\ capture'[p].holds = c.holds
      BY <2>1, <3>1 DEF CohortInv, CohortTyped
    <3>5. CohortTyped'
      BY <2>1, <3>1, <3>3 DEF CohortInv, CohortTyped
    <3>6. \A x : Committed(x, wall) => Committed(x, wall')
      BY <1>0, <2>1, CommitmentStays
    <3>7. DirectoriesCommit'
      BY <3>2, <3>3, <3>4, <3>6 DEF CohortInv, DirectoriesCommit
    <3>8. CapturesCommit'
      BY <3>2, <3>4, <3>6 DEF CohortInv, CapturesCommit, Cohort!Running
    <3>9. OneWriter'
      <4>1. \A q \in Processes \ {p} : Writes(q)' => Writes(q) /\ capture[q].to # c.to
        BY <2>3, <3>4 DEF CohortInv, OneWriter, Writes, Cohort!Running
      <4>2. \A q \in Processes \ {p} : Writes(q)' =>
              directory'[capture'[q].to] # None /\ directory'[capture'[q].to].written \in 0..2
        BY <1>0, <3>4, <4>1 DEF CohortInv, OneWriter, Writes
      <4>3. directory'[capture'[p].to] # None /\ directory'[capture'[p].to].written \in 0..2
        BY <2>1, <3>3, <3>4
      <4> QED BY <3>4, <4>1, <4>2, <4>3 DEF CohortInv, OneWriter
    <3>10. \A d \in Directories : Cohort!Verifies(d) => directory'[d] = directory[d]
      BY <2>3, <3>4 DEF Cohort!Verifies
    <3> QED BY <1>0, <2>1, <3>5, <3>7, <3>8, <3>9, <3>10, CommentsStay, PublishedStays DEF CohortInv
  <2> QED BY <2>2, <2>3
<1>6. ASSUME NEW p \in Processes, Cohort!WriteFile(p) PROVE CohortInv'
  <2> DEFINE d == capture[p].to
             w == directory[d].written
  <2>1. /\ capture[p] \in [policy : Cohort!Policies, to : Directories,
                           holds : {None} \cup Cohort!Commitments, made : BOOLEAN]
        /\ Writes(p) /\ UNCHANGED <<wall, comments, attestation, reports>>
        /\ directory' = [directory EXCEPT ![d].written = @ + 1]
        /\ capture' = [capture EXCEPT ![p] = IF w = 2 THEN Over ELSE @]
    BY <1>0, <1>6 DEF Cohort!WriteFile, Writes
  <2>2. directory[d] # None /\ w \in 0..2 /\ d \in Directories
    BY <2>1 DEF CohortInv, OneWriter
  <2>3. directory[d] \in Cohort!Captured
    BY <2>2 DEF CohortInv, CohortTyped
  <2> HIDE DEF d
  <2>4. /\ \A e \in Directories \ {d} : directory'[e] = directory[e]
        /\ directory'[d] = [directory[d] EXCEPT !.written = @ + 1]
    BY <2>1, <2>2 DEF CohortInv, CohortTyped
  <2>5. /\ directory'[d] \in Cohort!Captured
        /\ directory'[d].commitment = directory[d].commitment /\ directory'[d].written = w + 1
    BY <2>2, <2>3, <2>4 DEF Cohort!Captured
  <2>6. /\ \A q \in Processes \ {p} : capture'[q] = capture[q]
        /\ capture'[p] = IF w = 2 THEN Over ELSE capture[p]
    BY <2>1 DEF CohortInv, CohortTyped
  <2>7. CohortTyped'
    <3>1. directory' \in [Directories -> {None} \cup Cohort!Captured]
      BY <2>1, <2>4, <2>5 DEF CohortInv, CohortTyped
    <3> QED BY <2>1, <3>1 DEF CohortInv, CohortTyped
  <2>8. \A x : Committed(x, wall) => Committed(x, wall')
    BY <1>0, <2>1, CommitmentStays
  <2>9. DirectoriesCommit' /\ CapturesCommit'
    BY <2>2, <2>4, <2>5, <2>6, <2>8 DEF CohortInv, DirectoriesCommit, CapturesCommit, Cohort!Running
  <2>10. OneWriter'
    <3>1. \A q \in Processes : Writes(q)' => Writes(q) /\ capture'[q].to = capture[q].to
      BY <2>6 DEF Writes, Cohort!Running
    <3>2. \A q \in Processes \ {p} : Writes(q) => capture[q].to # d /\ capture[q].to \in Directories
      BY <1>0, <2>1 DEF CohortInv, OneWriter, Writes, d
    <3>3. directory'[d] # None
      BY <2>5, WindowInNat
    <3>4. Writes(p)' => w # 2
      BY <2>6 DEF Writes, Cohort!Running
    <3>5. \A q \in Processes : Writes(q)' =>
            directory'[capture'[q].to] # None /\ directory'[capture'[q].to].written \in 0..2
      <4> SUFFICES ASSUME NEW q \in Processes, Writes(q)'
                   PROVE  directory'[capture'[q].to] # None /\ directory'[capture'[q].to].written \in 0..2
        OBVIOUS
      <4>1. CASE q = p
        <5>1. capture'[q].to = d
          BY <3>1, <4>1 DEF d
        <5>2. w + 1 \in 0..2
          BY <2>2, <3>4, <4>1
        <5> QED BY <2>5, <3>3, <5>1, <5>2
      <4>2. CASE q # p
        BY <2>4, <3>1, <3>2, <4>2 DEF CohortInv, OneWriter
      <4> QED BY <4>1, <4>2
    <3> QED BY <3>1, <3>5 DEF CohortInv, OneWriter
  <2>11. \A e \in Directories : Cohort!Verifies(e) => directory'[e] = directory[e]
    BY <2>2, <2>4 DEF Cohort!Verifies
  <2> QED BY <1>0, <2>1, <2>7, <2>9, <2>10, <2>11, CommentsStay, PublishedStays DEF CohortInv
<1>7. ASSUME NEW body \in Cohort!Published, NEW x,
             x = [author |-> x.author, created |-> x.created, updated |-> x.updated,
                  body |-> x.body, history |-> x.history],
             x.body = body, x.updated = Cohort!Second(wall), <<body, wall>> \in x.history,
             comments' \subseteq comments \cup {x},
             UNCHANGED <<wall, capture, directory, attestation, reports>>
      PROVE  CohortInv'
  <2>1. body.at \in 0..wall
    <3>1. PICK d \in Directories : Cohort!Verifies(d) /\ body = directory[d].commitment
      BY DEF Cohort!Published
    <3>2. Committed(body, wall)
      BY <3>1 DEF Cohort!Verifies, CohortInv, DirectoriesCommit
    <3> QED BY <1>0, <3>2, CommitmentFields
  <2>2. \A c \in comments' : c \in comments \/ c = x
    BY <1>7
  <2>3. CommentsDated'
    <3> SUFFICES ASSUME NEW c \in comments'
                 PROVE  /\ c = [author |-> c.author, created |-> c.created, updated |-> c.updated,
                                body |-> c.body, history |-> c.history]
                        /\ \E t \in 0..wall : /\ <<c.body, t>> \in c.history
                                             /\ c.updated = Cohort!Second(t) /\ c.body.at <= t
      BY <1>7 DEF CommentsDated, Cohort!Second
    <3>1. CASE c \in comments
      BY <3>1 DEF CohortInv, CommentsDated
    <3>2. CASE c = x
      <4>1. wall \in 0..wall /\ x.body.at <= wall
        BY <1>0, <1>7, <2>1
      <4> QED BY <1>7, <3>2, <4>1
    <3> QED BY <2>2, <3>1, <3>2
  <2>4. \A c : Committed(c, wall) => Committed(c, wall')
    BY <1>0, <1>7, CommitmentStays
  <2>5. CohortTyped' /\ DirectoriesCommit' /\ CapturesCommit' /\ OneWriter'
    BY <1>7, <2>4 DEF CohortInv, CohortTyped, DirectoriesCommit, CapturesCommit, OneWriter,
                      Writes, Cohort!Running
  <2>6. ReportsBacked' /\ AttestationVerified'
    BY <1>7, PublishedStays
  <2> QED BY <2>3, <2>5, <2>6 DEF CohortInv
<1>8. ASSUME NEW body \in Cohort!Published, NEW author, Cohort!Post(author, body) PROVE CohortInv'
  <2> DEFINE x == [author |-> author, created |-> Cohort!Second(wall), updated |-> Cohort!Second(wall),
                   body |-> body, history |-> {<<body, wall>>}]
  <2>1. /\ comments' = comments \cup {x} /\ UNCHANGED <<wall, capture, directory, attestation, reports>>
    BY <1>8 DEF Cohort!Post
  <2>2. /\ x.author = author /\ x.created = Cohort!Second(wall) /\ x.updated = Cohort!Second(wall)
        /\ x.body = body /\ x.history = {<<body, wall>>}
    OBVIOUS
  <2>3. x = [author |-> x.author, created |-> x.created, updated |-> x.updated,
             body |-> x.body, history |-> x.history]
    OBVIOUS
  <2> HIDE DEF x
  <2> QED BY <1>7, <2>1, <2>2, <2>3
<1>9. ASSUME NEW body \in Cohort!Published, NEW comment \in comments, Cohort!Edit(comment, body)
      PROVE  CohortInv'
  <2> DEFINE x == [comment EXCEPT !.updated = Cohort!Second(wall), !.body = body,
                                  !.history = @ \cup {<<body, wall>>}]
  <2>1. /\ comments' = (comments \ {comment}) \cup {x}
        /\ UNCHANGED <<wall, capture, directory, attestation, reports>>
    BY <1>9 DEF Cohort!Edit
  <2>2. comment = [author |-> comment.author, created |-> comment.created, updated |-> comment.updated,
                   body |-> comment.body, history |-> comment.history]
    BY DEF CohortInv, CommentsDated
  <2>3. x = [author |-> comment.author, created |-> comment.created, updated |-> Cohort!Second(wall),
             body |-> body, history |-> comment.history \cup {<<body, wall>>}]
    <3> DEFINE y == [comment EXCEPT !.updated = Cohort!Second(wall)]
               z == [y EXCEPT !.body = body]
    <3>1. y = [author |-> comment.author, created |-> comment.created, updated |-> Cohort!Second(wall),
               body |-> comment.body, history |-> comment.history]
      BY <2>2
    <3> HIDE DEF y
    <3>2. z = [author |-> comment.author, created |-> comment.created, updated |-> Cohort!Second(wall),
               body |-> body, history |-> comment.history]
      BY <3>1
    <3>3. x = [z EXCEPT !.history = @ \cup {<<body, wall>>}]
      BY Zenon DEF y
    <3> HIDE DEF z
    <3> QED BY <3>2, <3>3
  <2> HIDE DEF x
  <2>4. /\ x.author = comment.author /\ x.created = comment.created
        /\ x.updated = Cohort!Second(wall) /\ x.body = body
        /\ x.history = comment.history \cup {<<body, wall>>}
    BY <2>3
  <2>5. x = [author |-> x.author, created |-> x.created, updated |-> x.updated,
             body |-> x.body, history |-> x.history]
    BY <2>3, <2>4, Zenon
  <2> QED BY <1>7, <2>1, <2>4, <2>5
<1>10. ASSUME NEW d \in Directories, Cohort!AttestVerify(d) PROVE CohortInv'
  <2>1. /\ attestation' = d /\ Cohort!Verifies(d)
        /\ UNCHANGED <<wall, capture, directory, comments, reports>>
    BY <1>10 DEF Cohort!AttestVerify
  <2>2. \A c : Committed(c, wall) => Committed(c, wall')
    BY <1>0, <2>1, CommitmentStays
  <2>3. CohortTyped' /\ DirectoriesCommit' /\ CapturesCommit' /\ OneWriter'
    BY <2>1, <2>2 DEF CohortInv, CohortTyped, DirectoriesCommit, CapturesCommit, OneWriter,
                      Writes, Cohort!Running
  <2>4. ReportsBacked' /\ CommentsDated' /\ Cohort!Verifies(d)'
    BY <1>0, <2>1, PublishedStays, CommentsStay
  <2>5. AttestationVerified'
    BY <2>1, <2>4 DEF AttestationVerified
  <2> QED BY <2>3, <2>4, <2>5 DEF CohortInv
<1>11. ASSUME NEW comment \in comments, Cohort!AttestFetch(comment) PROVE CohortInv'
  <2> DEFINE c == directory[attestation].commitment
             x == [directory |-> attestation, commitment |-> c, history |-> comment.history]
  <2>1. /\ attestation \in Directories /\ Cohort!Verifies(attestation)
        /\ attestation' = None /\ UNCHANGED <<wall, capture, directory, comments>>
        /\ reports' = IF Cohort!Accepted(comment, c, wall) THEN reports \cup {x} ELSE reports
    BY <1>11 DEF Cohort!AttestFetch, CohortInv, AttestationVerified
  <2>2. x.directory = attestation /\ x.commitment = c /\ x.history = comment.history
    OBVIOUS
  <2> HIDE DEF x
  <2>3. PICK t \in 0..wall : /\ <<comment.body, t>> \in comment.history
                            /\ comment.updated = Cohort!Second(t) /\ comment.body.at <= t
    BY DEF CohortInv, CommentsDated
  <2>4. Cohort!Accepted(comment, c, wall) =>
          comment.body = c /\ Cohort!InWindow(t)
    BY <2>3 DEF Cohort!Accepted, Cohort!InWindow
  <2>5. ASSUME Cohort!Accepted(comment, c, wall)
        PROVE  \E h \in x.history : h[1] = x.commitment /\ Cohort!InWindow(h[2]) /\ x.commitment.at <= h[2]
    <3> DEFINE h == <<comment.body, t>>
    <3>1. h \in x.history /\ h[1] = c /\ h[2] = t
      BY <2>2, <2>3, <2>4, <2>5
    <3> HIDE DEF h
    <3> QED BY <2>2, <2>3, <2>4, <2>5, <3>1
  <2>6. ReportsBacked'
    <3> SUFFICES ASSUME NEW r \in reports'
                 PROVE  /\ r.directory \in Directories /\ Cohort!Verifies(r.directory)
                        /\ directory[r.directory].commitment = r.commitment
                        /\ \E h \in r.history :
                             h[1] = r.commitment /\ Cohort!InWindow(h[2]) /\ r.commitment.at <= h[2]
      BY <2>1 DEF ReportsBacked, Cohort!Verifies, Cohort!Commits, Cohort!InWindow, Cohort!Second,
                  Cohort!IsPinned, Cohort!Roster
    <3>1. CASE r \in reports
      BY <3>1 DEF CohortInv, ReportsBacked
    <3>2. CASE r = x /\ Cohort!Accepted(comment, c, wall)
      BY <2>1, <2>2, <2>5, <3>2
    <3> QED BY <2>1, <3>1, <3>2
  <2>7. \A y : Committed(y, wall) => Committed(y, wall')
    BY <1>0, <2>1, CommitmentStays
  <2>8. CohortTyped' /\ DirectoriesCommit' /\ CapturesCommit' /\ OneWriter'
    BY <2>1, <2>7 DEF CohortInv, CohortTyped, DirectoriesCommit, CapturesCommit, OneWriter,
                      Writes, Cohort!Running
  <2>9. CommentsDated' /\ AttestationVerified'
    BY <1>0, <2>1, CommentsStay DEF AttestationVerified
  <2> QED BY <2>6, <2>8, <2>9 DEF CohortInv
<1> QED BY <1>1, <1>2, <1>3, <1>4, <1>5, <1>6, <1>8, <1>9, <1>10, <1>11 DEF Cohort!Next

\* What is attested was published inside the window, after its capture, and its bytes are
\* still there as committed; a roster that verifies is the pinned revision's.
THEOREM PublicationAttested == Cohort!Spec => []AttestedWasPublished
<1>1. CohortInv => AttestedWasPublished
  <2> SUFFICES ASSUME CohortInv PROVE Cohort!AttestedWasPublished
    BY DEF AttestedWasPublished
  <2>1. ASSUME NEW d \in Directories, Cohort!Verifies(d), directory[d].commitment.policy = "historical"
        PROVE  directory[d].commitment.roster = Cohort!Roster(Pinned)
    BY <2>1 DEF Cohort!Verifies, Cohort!Commits, Cohort!IsPinned
  <2> QED BY <2>1 DEF CohortInv, ReportsBacked, Cohort!AttestedWasPublished
<1> QED BY <1>1, CohortInit, CohortStep, PTL DEF Cohort!Spec

-----------------------------------------------------------------------------
(* ReadStudy: what a report of complete coverage says.  It is written after   *)
(* the grace, when no run is created any more; a run's archive is written     *)
(* once, so a run that the report counted keeps its receipt; and as many      *)
(* samples as two for each slot leave each receipt no choice but two.         *)

Covered ==
  /\ \A s \in 1..Hours : Study!Cardinality(Study!InSlot(s)) = 1
  /\ Study!SampleCount = 2 * Hours
  /\ Study!Listed = Study!Admitted

JobSound ==
  job # NoJob =>
    /\ job.run \in DOMAIN runs
    /\ job.step \in {"pair", "paired"} => job.slot \in 1..Hours /\ job.samples = 1
    /\ job.step = "trace" => job.slot \in 1..Hours /\ job.samples \in 1..2
    /\ job.step \notin {"end", "stop"} =>
         runs[job.run].archive = Study!NoArchive /\ runs[job.run].state = "running"
ArchivesSound ==
  \A i \in DOMAIN runs :
    /\ runs[i].state = "queued" => runs[i].archive = Study!NoArchive
    /\ runs[i].archive.receipt.scope = "observation" => runs[i].archive.kept
ReportsFrozen ==
  packet = Study!Complete \/ Study!Complete \in retained => now = Hours + 2 /\ Covered
StoppedAfterReport == ~finalizing => retained # {}

StudyInv == /\ Study!StudyTypeOK /\ JobSound /\ ArchivesSound
            /\ ReportsFrozen /\ StoppedAfterReport

LEMMA StudyBounds == Hours \in Nat /\ MaxRuns \in Nat /\ NoJob \notin Study!JobRecord
BY StudiesAssumption DEF Study!StudyAssumption

LEMMA ReportKinds ==
  /\ Study!Complete # Study!Incomplete /\ Study!Complete # Study!NoPacket
  /\ Study!NoPacket # Study!Incomplete
BY DEF Study!Complete, Study!Incomplete, Study!NoPacket

\* A run record is replaced by another.
LEMMA RunReplaced ==
  ASSUME Study!StudyTypeOK, NEW i \in DOMAIN runs, NEW r \in Study!RunRecord,
         runs' = [runs EXCEPT ![i] = r]
  PROVE  /\ runs' \in Seq(Study!RunRecord) /\ Len(runs') <= MaxRuns
         /\ DOMAIN runs' = DOMAIN runs
         /\ \A j \in DOMAIN runs : runs'[j] = IF j = i THEN r ELSE runs[j]
BY DEF Study!StudyTypeOK

LEMMA RunsTyped ==
  ASSUME Study!StudyTypeOK
  PROVE  \A i \in DOMAIN runs : runs[i] \in Study!RunRecord
BY DEF Study!StudyTypeOK

\* What a report counted stays as it was counted.
LEMMA CoverageStays ==
  ASSUME Covered, DOMAIN runs' = DOMAIN runs,
         \A i \in DOMAIN runs : /\ runs'[i].event = runs[i].event
                               /\ runs'[i].created = runs[i].created,
         \A i \in Study!Listed : runs'[i].archive = runs[i].archive
  PROVE  Covered'
<1>1. Study!Listed' = Study!Listed
  BY DEF Study!Listed
<1>2. Study!Admitted' = Study!Admitted
  BY <1>1 DEF Study!Admitted, Study!Receipt
<1>3. \A i \in Study!Admitted : runs'[i].archive.receipt = runs[i].archive.receipt
  BY DEF Study!Admitted
<1>4. \A s \in 1..Hours : Study!InSlot(s)' = Study!InSlot(s)
  BY <1>2, <1>3 DEF Study!InSlot, Study!Receipt
<1>5. Study!SampleCount' = Study!SampleCount
  <2>1. {x \in Study!Admitted' \X (1..2) : x[2] <= Study!Receipt(x[1])'.samples}
          = {x \in Study!Admitted \X (1..2) : x[2] <= Study!Receipt(x[1]).samples}
    BY <1>2, <1>3 DEF Study!Receipt
  <2> QED BY <2>1 DEF Study!SampleCount
<1> QED BY <1>1, <1>2, <1>4, <1>5 DEF Covered

LEMMA StudyInit == Study!Init => StudyInv
<1> SUFFICES ASSUME Study!Init PROVE StudyInv
  OBVIOUS
<1>1. Study!StudyTypeOK
  BY StudyBounds DEF Study!Init, Study!StudyTypeOK
<1>2. JobSound /\ ArchivesSound /\ ReportsFrozen /\ StoppedAfterReport
  BY ReportKinds DEF Study!Init, JobSound, ArchivesSound, ReportsFrozen, StoppedAfterReport
<1> QED BY <1>1, <1>2 DEF StudyInv

\* An admitted run's receipt is an observation of a slot of the window.
LEMMA AdmittedObserves ==
  ASSUME Study!StudyTypeOK, NEW i \in Study!Admitted
  PROVE  /\ i \in DOMAIN runs
         /\ Study!Receipt(i).slot \in 1..Hours /\ Study!Receipt(i).samples \in 1..2
<1>1. i \in DOMAIN runs /\ Study!Receipt(i).scope = "observation"
  BY DEF Study!Admitted, Study!Listed
<1>2. Study!Receipt(i) \in Study!Receipts
  BY <1>1, RunsTyped DEF Study!RunRecord, Study!Archives, Study!Receipt
<1>3. Study!Receipt(i) \in [scope : {"observation"}, slot : 1..Hours, samples : 1..2]
  BY <1>1, <1>2 DEF Study!Receipts, Study!Absent, Study!Refused
<1> QED BY <1>1, <1>3

\* One admitted run for each slot leaves at most as many as there are slots.
LEMMA AdmittedBounded ==
  ASSUME Study!StudyTypeOK, \A s \in 1..Hours : Study!Cardinality(Study!InSlot(s)) = 1
  PROVE  /\ IsFiniteSet(Study!Admitted) /\ Cardinality(Study!Admitted) <= Hours
         /\ \A s \in 1..Hours : \E i : Study!InSlot(s) = {i}
<1>1. IsFiniteSet(Study!Admitted)
  <2>1. Len(runs) \in Nat /\ DOMAIN runs = 1..Len(runs)
    BY DEF Study!StudyTypeOK
  <2>2. IsFiniteSet(1..Len(runs))
    BY <2>1, FS_Interval
  <2> QED BY <2>1, <2>2, FS_Subset DEF Study!Admitted, Study!Listed
<1>2. \A s \in 1..Hours : \E i : Study!InSlot(s) = {i}
  <2> SUFFICES ASSUME NEW s \in 1..Hours PROVE \E i : Study!InSlot(s) = {i}
    OBVIOUS
  <2>1. IsFiniteSet(Study!InSlot(s))
    BY <1>1, FS_Subset DEF Study!InSlot
  <2> QED BY <2>1, FS_Singleton, SameCardinality
<1> DEFINE slot == [i \in Study!Admitted |-> Study!Receipt(i).slot]
<1>3. slot \in Injection(Study!Admitted, 1..Hours)
  <2>1. slot \in [Study!Admitted -> 1..Hours]
    BY AdmittedObserves
  <2>2. ASSUME NEW i \in Study!Admitted, NEW j \in Study!Admitted, slot[i] = slot[j]
        PROVE  i = j
    <3>1. slot[i] \in 1..Hours
      BY <2>1
    <3>2. i \in Study!InSlot(slot[i]) /\ j \in Study!InSlot(slot[i])
      BY <2>2 DEF Study!InSlot
    <3> QED BY <1>2, <3>1, <3>2
  <2> QED BY <2>1, <2>2 DEF Injection, IsInjective
<1>4. IsFiniteSet(1..Hours) /\ Cardinality(1..Hours) = Hours
  BY FS_Interval, StudyBounds
<1>5. Cardinality(Study!Admitted) <= Hours
  BY <1>3, <1>4, FS_Injection
<1> QED BY <1>1, <1>2, <1>5

\* Two samples for each slot, from at most one run a slot: each run sent both.
LEMMA EachSentBoth ==
  ASSUME Study!StudyTypeOK, Covered
  PROVE  \A i \in Study!Admitted : Study!Receipt(i).samples = 2
<1> DEFINE pairs == Study!Admitted \X (1..2)
           sent  == {x \in pairs : x[2] <= Study!Receipt(x[1]).samples}
<1>1. /\ IsFiniteSet(Study!Admitted) /\ Cardinality(Study!Admitted) \in Nat
      /\ Cardinality(Study!Admitted) <= Hours
  BY AdmittedBounded, FS_CardinalityType DEF Covered
<1>2. IsFiniteSet(1..2) /\ Cardinality(1..2) = 2
  <2>1. 1..2 = {1} \cup {2}
    OBVIOUS
  <2>2. IsFiniteSet({1}) /\ Cardinality({1}) = 1
    BY FS_Singleton
  <2>3. /\ IsFiniteSet({1} \cup {2})
        /\ Cardinality({1} \cup {2}) = IF 2 \in {1} THEN Cardinality({1}) ELSE Cardinality({1}) + 1
    BY <2>2, FS_AddElement
  <2> QED BY <2>1, <2>2, <2>3
<1>3. IsFiniteSet(pairs) /\ Cardinality(pairs) = Cardinality(Study!Admitted) * 2
  BY <1>1, <1>2, FS_Product
<1>4. Cardinality(sent) = 2 * Hours
  <2> DEFINE counted == {x \in Study!Admitted \X (1..2) : x[2] <= Study!Receipt(x[1]).samples}
  <2>1. Study!SampleCount = Study!Cardinality(counted)
    BY Zenon DEF Study!SampleCount
  <2>2. counted = sent
    OBVIOUS
  <2> HIDE DEF counted, sent
  <2> QED BY <2>1, <2>2, SameCardinality DEF Covered
<1>5. sent \in SUBSET pairs
  OBVIOUS
<1> HIDE DEF sent, pairs
<1>6. Cardinality(sent) <= Cardinality(pairs) /\ (Cardinality(pairs) = Cardinality(sent) => pairs = sent)
  BY <1>3, <1>5, FS_Subset
<1>7. pairs = sent
  BY <1>1, <1>3, <1>4, <1>6, StudyBounds
<1> SUFFICES ASSUME NEW i \in Study!Admitted PROVE Study!Receipt(i).samples = 2
  OBVIOUS
<1>8. <<i, 2>> \in sent
  BY <1>7 DEF pairs
<1>9. 2 <= Study!Receipt(i).samples
  BY <1>8 DEF sent
<1> QED BY <1>9, AdmittedObserves

LEMMA CoveredIsEarned ==
  ASSUME StudyInv PROVE CoverageIsEarned
<1> USE DEF StudyInv
<1> DEFINE Scheduled == {i \in DOMAIN runs :
                           runs[i].event = "schedule" /\ runs[i].created \in 1..Hours}
           Observes(i, s) == Study!Receipt(i).scope = "observation" /\ Study!Receipt(i).slot = s
<1>1. ASSUME Study!Complete \in retained
      PROVE  /\ \A i \in Scheduled : runs[i].archive.kept /\ Study!Receipt(i).samples = 2
             /\ \A s \in 1..Hours : \E i \in Scheduled :
                  /\ Observes(i, s)
                  /\ \A j \in Scheduled \ {i} : ~Observes(j, s)
  <2>1. Covered
    BY <1>1 DEF ReportsFrozen
  <2>2. Scheduled = Study!Admitted
    BY <2>1 DEF Covered, Study!Listed
  <2> HIDE DEF Scheduled
  <2>3. \A i \in Study!Admitted : runs[i].archive.kept
    BY DEF Study!Admitted, Study!Listed, Study!Receipt, ArchivesSound
  <2>4. \A s \in 1..Hours : \E i : Study!InSlot(s) = {i}
    BY <2>1, AdmittedBounded DEF Covered
  <2>5. \A s \in 1..Hours : \E i \in Study!Admitted :
          Observes(i, s) /\ \A j \in Study!Admitted \ {i} : ~Observes(j, s)
    <3> SUFFICES ASSUME NEW s \in 1..Hours
                 PROVE  \E i \in Study!Admitted :
                          Observes(i, s) /\ \A j \in Study!Admitted \ {i} : ~Observes(j, s)
      OBVIOUS
    <3>1. PICK i : Study!InSlot(s) = {i}
      BY <2>4
    <3> QED BY <3>1 DEF Study!InSlot, Study!Admitted
  <2> QED BY <2>1, <2>2, <2>3, <2>5, EachSentBoth
<1> QED BY <1>1 DEF StoppedAfterReport, CoverageIsEarned, Study!CoverageIsEarned

\* A step of the observer that writes no run.
LEMMA JobStep ==
  ASSUME StudyInv, UNCHANGED <<now, runs, finalizing, packet, retained>>, observing' \in BOOLEAN,
         job' \in Study!JobRecord \cup {NoJob}, JobSound'
  PROVE  StudyInv'
<1>1. Study!StudyTypeOK'
  BY DEF StudyInv, Study!StudyTypeOK
<1>2. ArchivesSound' /\ StoppedAfterReport'
  BY DEF StudyInv, ArchivesSound, StoppedAfterReport
<1>3. ReportsFrozen'
  BY CoverageStays DEF StudyInv, ReportsFrozen
<1> QED BY <1>1, <1>2, <1>3 DEF StudyInv

\* A run is replaced by one that was created by the same event at the same hour; what a
\* report may have counted of it stays.
LEMMA RunStep ==
  ASSUME StudyInv, NEW i \in DOMAIN runs, NEW r \in Study!RunRecord,
         runs' = [runs EXCEPT ![i] = r], UNCHANGED <<now, finalizing, packet, retained>>,
         observing' \in BOOLEAN,
         job' \in Study!JobRecord \cup {NoJob}, JobSound',
         r.event = runs[i].event, r.created = runs[i].created,
         r.state = "queued" => r.archive = Study!NoArchive,
         r.archive.receipt.scope = "observation" => r.archive.kept,
         r.archive = runs[i].archive \/ runs[i].archive = Study!NoArchive
  PROVE  StudyInv'
<1>1. /\ runs' \in Seq(Study!RunRecord) /\ Len(runs') <= MaxRuns
      /\ DOMAIN runs' = DOMAIN runs
      /\ \A j \in DOMAIN runs : runs'[j] = IF j = i THEN r ELSE runs[j]
  BY RunReplaced DEF StudyInv
<1>2. Study!StudyTypeOK'
  BY <1>1 DEF StudyInv, Study!StudyTypeOK
<1>3. ArchivesSound' /\ StoppedAfterReport'
  BY <1>1 DEF StudyInv, ArchivesSound, StoppedAfterReport
<1>4. ASSUME Covered PROVE Covered'
  <2>1. \A j \in Study!Listed : runs'[j].archive = runs[j].archive
    <3> SUFFICES ASSUME NEW j \in Study!Listed, j = i, runs[i].archive = Study!NoArchive
                 PROVE  FALSE
      BY <1>1 DEF Study!Listed
    <3>1. Study!Receipt(i).scope = "absent"
      BY DEF Study!Receipt, Study!NoArchive, Study!Absent
    <3> QED BY <1>4, <3>1 DEF Covered, Study!Admitted
  <2> QED BY <1>1, <1>4, <2>1, CoverageStays
<1>5. ReportsFrozen'
  BY <1>4 DEF StudyInv, ReportsFrozen
<1> QED BY <1>2, <1>3, <1>5 DEF StudyInv

LEMMA StudyStep == StudyInv /\ [Study!Next]_(Study!vars) => StudyInv'
<1> SUFFICES ASSUME StudyInv, [Study!Next]_(Study!vars) PROVE StudyInv'
  OBVIOUS
<1>0. /\ now \in 0..(Hours + 2) /\ Hours \in Nat
      /\ \A i \in DOMAIN runs : runs[i] \in Study!RunRecord
      /\ job # NoJob => job \in Study!JobRecord
  BY StudyBounds, RunsTyped DEF StudyInv, Study!StudyTypeOK
<1>1. CASE UNCHANGED Study!vars
  <2>1. UNCHANGED <<now, runs, job, observing, finalizing, packet, retained>>
    BY <1>1 DEF Study!vars
  <2>2. JobSound'
    BY <2>1 DEF StudyInv, JobSound
  <2> QED BY <2>1, <2>2, JobStep DEF StudyInv, Study!StudyTypeOK
<1>2. ASSUME Study!Tick PROVE StudyInv'
  <2>1. /\ now < Hours + 2 /\ now' = now + 1
        /\ UNCHANGED <<runs, job, observing, finalizing, packet, retained>>
    BY <1>2 DEF Study!Tick
  <2>2. Study!StudyTypeOK'
    BY <1>0, <2>1 DEF StudyInv, Study!StudyTypeOK
  <2>3. JobSound' /\ ArchivesSound' /\ StoppedAfterReport'
    BY <2>1 DEF StudyInv, JobSound, ArchivesSound, StoppedAfterReport
  <2>4. ReportsFrozen'
    BY <1>0, <2>1 DEF StudyInv, ReportsFrozen
  <2> QED BY <2>2, <2>3, <2>4 DEF StudyInv
<1>3. ASSUME NEW e \in Study!Events, Study!Trigger(e) PROVE StudyInv'
  <2> DEFINE kept == [i \in DOMAIN runs |-> IF i \in Study!Queued
                       THEN [runs[i] EXCEPT !.state = "done"] ELSE runs[i]]
             r == [event |-> e, created |-> now, state |-> "queued", archive |-> Study!NoArchive]
  <2>1. /\ runs' = Append(kept, r) /\ Len(runs) < MaxRuns /\ now <= Hours + 1
        /\ UNCHANGED <<now, job, observing, finalizing, packet, retained>>
    BY <1>3 DEF Study!Trigger
  <2>2. r \in Study!RunRecord /\ r.archive = Study!NoArchive
    BY <1>0 DEF Study!RunRecord, Study!Archives, Study!NoArchive, Study!Receipts
  <2>3. Len(runs) \in Nat /\ DOMAIN runs = 1..Len(runs)
    BY DEF StudyInv, Study!StudyTypeOK
  <2>3a. \A i \in DOMAIN runs :
          /\ kept[i] \in Study!RunRecord /\ kept[i].archive = runs[i].archive
          /\ kept[i].state # "queued"
    BY <1>0 DEF Study!Queued, Study!RunRecord
  <2>3b. \A i \in DOMAIN runs : runs[i].state = "running" => kept[i].state = "running"
    BY DEF Study!Queued
  <2>4. kept \in Seq(Study!RunRecord) /\ Len(kept) = Len(runs)
    <3>1. kept = [i \in 1..Len(runs) |-> kept[i]]
      BY <2>3
    <3> HIDE DEF kept
    <3>2. kept \in [1..Len(runs) -> Study!RunRecord]
      BY <2>3, <2>3a, <3>1
    <3> QED BY <2>3, <3>2
  <2> HIDE DEF kept, r
  <2>5. /\ runs' \in Seq(Study!RunRecord) /\ Len(runs') = Len(runs) + 1
        /\ \A i \in DOMAIN runs : runs'[i] = kept[i]
        /\ runs'[Len(runs) + 1] = r
        /\ DOMAIN runs' = DOMAIN runs \cup {Len(runs) + 1}
    BY <2>1, <2>2, <2>3, <2>4
  <2>6. Study!StudyTypeOK'
    BY <2>1, <2>3, <2>5, StudyBounds DEF StudyInv, Study!StudyTypeOK
  <2>7. JobSound'
    BY <2>1, <2>3, <2>3a, <2>3b, <2>5 DEF StudyInv, JobSound
  <2>8. ArchivesSound'
    <3>1. Study!NoArchive.receipt.scope # "observation"
      BY DEF Study!NoArchive, Study!Absent
    <3>2. \A i \in DOMAIN runs : kept[i].archive.receipt.scope = "observation" => kept[i].archive.kept
      BY <2>3a DEF StudyInv, ArchivesSound
    <3> QED BY <2>2, <2>3, <2>3a, <2>5, <3>1, <3>2 DEF ArchivesSound
  <2>9. ReportsFrozen' /\ StoppedAfterReport'
    BY <1>0, <2>1 DEF StudyInv, ReportsFrozen, StoppedAfterReport
  <2> QED BY <2>6, <2>7, <2>8, <2>9 DEF StudyInv
<1>4. ASSUME Study!Start PROVE StudyInv'
  <2>1. PICK i \in Study!Queued :
          /\ runs' = [runs EXCEPT ![i].state = "running"]
          /\ job' = [run |-> i, began |-> now, step |-> "before", slot |-> 0,
                     samples |-> 0, readsOk |-> TRUE, failed |-> FALSE,
                     observation |-> Study!Absent, correlated |-> Study!Absent]
    BY <1>4 DEF Study!Start
  <2> DEFINE r == [runs[i] EXCEPT !.state = "running"]
  <2>2. /\ i \in DOMAIN runs /\ runs[i].state = "queued" /\ runs[i].archive = Study!NoArchive
        /\ UNCHANGED <<now, observing, finalizing, packet, retained>>
    BY <1>4 DEF Study!Start, Study!Queued, StudyInv, ArchivesSound
  <2>3. /\ r \in Study!RunRecord /\ r.event = runs[i].event /\ r.created = runs[i].created
        /\ r.state = "running" /\ r.archive = Study!NoArchive
    BY <1>0, <2>2 DEF Study!RunRecord
  <2>4. runs' = [runs EXCEPT ![i] = r]
    BY <2>1, <2>2 DEF StudyInv, Study!StudyTypeOK
  <2> HIDE DEF r
  <2>5. /\ job'.run = i /\ job'.step = "before" /\ job' \in Study!JobRecord
    <3>1. i \in 1..MaxRuns
      BY <2>2, StudyBounds DEF StudyInv, Study!StudyTypeOK
    <3>2. Study!Absent \in Study!Receipts
      BY DEF Study!Receipts
    <3> QED BY <1>0, <2>1, <3>1, <3>2 DEF Study!JobRecord, Study!Steps
  <2>6. JobSound'
    <3>1. i \in DOMAIN runs' /\ runs'[i] = r
      BY <2>2, <2>3, <2>4, RunReplaced DEF StudyInv
    <3> QED BY <2>3, <2>5, <3>1 DEF JobSound, Study!NoArchive
  <2>7. Study!NoArchive.receipt.scope # "observation"
    BY DEF Study!NoArchive, Study!Absent
  <2> QED BY <2>2, <2>3, <2>4, <2>5, <2>6, <2>7, RunStep DEF StudyInv, Study!StudyTypeOK
<1>5. ASSUME NEW ok \in BOOLEAN,
             \/ Study!CaptureBefore(ok) \/ Study!ProbeRefused \/ Study!FirstRead(ok)
             \/ Study!Pair \/ Study!PairedRead(ok) \/ Study!Trace(ok)
             \/ Study!CaptureAfter(ok) \/ Study!Correlate
      PROVE  StudyInv'
  <2>1. /\ job \in Study!JobRecord /\ job.run \in DOMAIN runs
        /\ job.step \notin {"end", "stop"} /\ runs[job.run].archive = Study!NoArchive
        /\ runs[job.run].state = "running"
        /\ UNCHANGED <<now, runs, observing, finalizing, packet, retained>>
    BY <1>0, <1>5 DEF Study!CaptureBefore, Study!ProbeRefused, Study!FirstRead, Study!Pair,
       Study!PairedRead, Study!Trace, Study!CaptureAfter, Study!Correlate, Study!Running,
       Study!JobOnly, StudyInv, JobSound
  <2>2. ASSUME job' \in Study!JobRecord, job'.run = job.run,
               job'.step \in {"pair", "paired"} => job'.slot \in 1..Hours /\ job'.samples = 1,
               job'.step = "trace" => job'.slot \in 1..Hours /\ job'.samples \in 1..2
        PROVE  StudyInv'
    BY <2>1, <2>2, JobStep DEF JobSound, StudyInv, Study!StudyTypeOK
  <2>3. CASE Study!CaptureBefore(ok)
    <3>1. job' = [job EXCEPT !.failed = ~ok, !.step = IF ok THEN "probe" ELSE "after"]
      BY <2>3 DEF Study!CaptureBefore
    <3> QED BY <2>1, <2>2, <3>1 DEF Study!JobRecord, Study!Steps
  <2>4. CASE Study!ProbeRefused
    <3>1. job' = [job EXCEPT !.observation = Study!Refused, !.failed = TRUE, !.step = "after"]
      BY <2>4 DEF Study!ProbeRefused
    <3> QED BY <2>1, <2>2, <3>1 DEF Study!JobRecord, Study!Steps, Study!Receipts
  <2>5. CASE Study!FirstRead(ok)
    <3>1. PICK step \in {"pair", "trace"} :
            job' = [job EXCEPT !.slot = now, !.samples = 1, !.readsOk = ok, !.step = step]
      BY <2>5 DEF Study!FirstRead
    <3>2. now \in 1..Hours /\ now \in 0..Hours /\ step \in Study!Steps
      BY <1>0, <2>5 DEF Study!FirstRead, Study!InWindow, Study!Steps
    <3>3. job' \in Study!JobRecord
      <4>1. 1 \in 0..2 /\ ok \in BOOLEAN
        OBVIOUS
      <4> QED BY <2>1, <3>1, <3>2, <4>1 DEF Study!JobRecord
    <3>4. job'.run = job.run /\ job'.slot = now /\ job'.samples = 1
      BY <2>1, <3>1 DEF Study!JobRecord
    <3> QED BY <2>1, <2>2, <3>2, <3>3, <3>4
  <2>6. CASE Study!Pair
    <3>1. /\ job' = [job EXCEPT !.step = IF now <= Hours THEN "paired" ELSE "trace"]
          /\ job.slot \in 1..Hours /\ job.samples = 1
      BY <2>1, <2>6 DEF Study!Pair, Study!Running, StudyInv, JobSound
    <3> QED BY <2>1, <2>2, <3>1 DEF Study!JobRecord, Study!Steps
  <2>7. CASE Study!PairedRead(ok)
    <3>1. job.slot \in 1..Hours /\ job.samples = 1
      BY <2>1, <2>7 DEF Study!PairedRead, Study!Running, StudyInv, JobSound
    <3>2. job' = [job EXCEPT !.samples = 2, !.readsOk = ok, !.step = "trace"]
      BY <2>7, <3>1 DEF Study!PairedRead
    <3>3. job' \in Study!JobRecord
      <4>1. 2 \in 0..2 /\ ok \in BOOLEAN /\ "trace" \in Study!Steps
        BY DEF Study!Steps
      <4> QED BY <2>1, <3>2, <4>1 DEF Study!JobRecord
    <3>4. job'.run = job.run /\ job'.slot = job.slot /\ job'.samples = 2 /\ job'.step = "trace"
      BY <2>1, <3>2 DEF Study!JobRecord
    <3> QED BY <2>1, <2>2, <3>1, <3>3, <3>4
  <2>8. CASE Study!Trace(ok)
    <3>1. PICK failed \in BOOLEAN :
            job' = [job EXCEPT !.observation = Study!Observation(job.slot, job.samples),
                               !.failed = failed, !.slot = 0, !.samples = 0, !.readsOk = TRUE,
                               !.step = "after"]
      BY <2>8 DEF Study!Trace
    <3>2. job.slot \in 1..Hours /\ job.samples \in 1..2
      BY <2>1, <2>8 DEF Study!Trace, Study!Running, StudyInv, JobSound
    <3>3. Study!Observation(job.slot, job.samples) \in Study!Receipts
      BY <3>2 DEF Study!Receipts, Study!Observation
    <3>4. 0 \in 0..Hours /\ 0 \in 0..2 /\ "after" \in Study!Steps
      BY <1>0 DEF Study!Steps
    <3> QED BY <2>1, <2>2, <3>1, <3>3, <3>4 DEF Study!JobRecord
  <2>9. CASE Study!CaptureAfter(ok)
    <3>1. PICK failed \in BOOLEAN, step \in {"correlate", "receipt"} :
            job' = [job EXCEPT !.failed = failed, !.step = step]
      BY <2>1, <2>9 DEF Study!CaptureAfter, Study!JobRecord
    <3> QED BY <2>1, <2>2, <3>1 DEF Study!JobRecord, Study!Steps
  <2>10. CASE Study!Correlate
    <3>1. PICK failed \in BOOLEAN, correlated \in Study!Receipts :
            job' = [job EXCEPT !.correlated = correlated, !.failed = failed, !.step = "receipt"]
      BY <2>1, <2>10 DEF Study!Correlate, Study!JobRecord, Study!Receipts
    <3> QED BY <2>1, <2>2, <3>1 DEF Study!JobRecord, Study!Steps
  <2> QED BY <1>5, <2>3, <2>4, <2>5, <2>6, <2>7, <2>8, <2>9, <2>10
<1>6. ASSUME NEW ok \in BOOLEAN, Study!StopFailedStudy(ok) PROVE StudyInv'
  <2>1. /\ job' = NoJob /\ observing' \in BOOLEAN
        /\ UNCHANGED <<now, runs, finalizing, packet, retained>>
    BY <1>6 DEF Study!StopFailedStudy, StudyInv, Study!StudyTypeOK
  <2> QED BY <2>1, JobStep DEF JobSound
<1>7. ASSUME NEW ok \in BOOLEAN, Study!Retain(ok) PROVE StudyInv'
  <2>1. /\ job \in Study!JobRecord /\ job.run \in DOMAIN runs
        /\ runs[job.run].archive = Study!NoArchive
        /\ runs[job.run].state = "running"
        /\ UNCHANGED <<now, observing, finalizing, packet, retained>>
    BY <1>0, <1>7 DEF Study!Retain, Study!Running, StudyInv, JobSound
  <2> DEFINE i == job.run
             a == Study!Archive(job.observation, job.correlated)
             r == [runs[i] EXCEPT !.archive = a]
  <2>2. /\ job' \in Study!JobRecord /\ job'.run = i /\ job'.step = "end"
    <3>1. PICK failed \in BOOLEAN :
            job' = [job EXCEPT !.failed = failed, !.observation = Study!Absent,
                               !.correlated = Study!Absent, !.step = "end"]
      BY <1>7, <2>1 DEF Study!Retain, Study!JobRecord
    <3>2. Study!Absent \in Study!Receipts /\ "end" \in Study!Steps
      BY DEF Study!Receipts, Study!Steps
    <3> QED BY <2>1, <3>1, <3>2 DEF Study!JobRecord
  <2>3. a \in Study!Archives /\ a.kept
    <3>1. job.observation \in Study!Receipts /\ job.correlated \in Study!Receipts
      BY <2>1 DEF Study!JobRecord
    <3> QED BY <3>1 DEF Study!Archive, Study!Archives
  <2> HIDE DEF a
  <2>4. /\ r \in Study!RunRecord /\ r.event = runs[i].event /\ r.created = runs[i].created
        /\ r.state = runs[i].state /\ r.archive = a
    BY <1>0, <2>1, <2>3 DEF Study!RunRecord
  <2>5. CASE ok
    <3>1. runs' = [runs EXCEPT ![i] = r]
      BY <1>7, <2>1, <2>5 DEF Study!Retain, a, StudyInv, Study!StudyTypeOK
    <3> HIDE DEF r
    <3>2. r.state # "queued"
      BY <2>1, <2>4
    <3>3. JobSound'
      BY <2>1, <2>2, <2>4, <3>1, RunReplaced DEF JobSound, StudyInv
    <3> HIDE DEF i
    <3> QED BY <2>1, <2>2, <2>3, <2>4, <3>1, <3>2, <3>3, RunStep DEF i, StudyInv, Study!StudyTypeOK
  <2>6. CASE ~ok
    <3>1. runs' = runs
      BY <1>7, <2>6 DEF Study!Retain
    <3>2. JobSound'
      BY <2>1, <2>2, <3>1 DEF JobSound
    <3> QED BY <2>1, <2>2, <3>1, <3>2, JobStep DEF StudyInv, Study!StudyTypeOK
  <2> QED BY <2>5, <2>6
<1>8. ASSUME Study!Conclude \/ Study!RunnerLost PROVE StudyInv'
  <2> DEFINE i == job.run
             r == [runs[i] EXCEPT !.state = "done"]
  <2>1. /\ job \in Study!JobRecord /\ i \in DOMAIN runs
        /\ UNCHANGED <<now, observing, finalizing, packet, retained>>
        /\ job' = NoJob \/ job' = [job EXCEPT !.step = "stop"]
    BY <1>0, <1>8 DEF Study!Conclude, Study!RunnerLost, Study!Running, StudyInv, JobSound
  <2>2. /\ r \in Study!RunRecord /\ r.event = runs[i].event /\ r.created = runs[i].created
        /\ r.state = "done" /\ r.archive = runs[i].archive
    BY <1>0, <2>1 DEF Study!RunRecord
  <2>3. runs' = [runs EXCEPT ![i] = r]
    BY <1>8, <2>1 DEF Study!Conclude, Study!RunnerLost, StudyInv, Study!StudyTypeOK
  <2> HIDE DEF r
  <2>4. DOMAIN runs' = DOMAIN runs
    BY <2>1, <2>2, <2>3, RunReplaced DEF StudyInv
  <2>5. /\ job' \in Study!JobRecord \cup {NoJob}
        /\ job' # NoJob => job'.run = i /\ job'.step = "stop"
    BY <2>1 DEF Study!JobRecord, Study!Steps
  <2>6. JobSound'
    BY <2>1, <2>4, <2>5 DEF JobSound
  <2>7. runs[i].archive.receipt.scope = "observation" => runs[i].archive.kept
    BY <2>1 DEF StudyInv, ArchivesSound
  <2> HIDE DEF i
  <2> QED BY <2>1, <2>2, <2>3, <2>5, <2>6, <2>7, RunStep DEF StudyInv, Study!StudyTypeOK
<1>9. ASSUME UNCHANGED <<now, runs, job>>, observing' \in BOOLEAN, finalizing' \in BOOLEAN,
             packet' \in {Study!NoPacket, Study!Incomplete, Study!Complete},
             retained' \in SUBSET {Study!Incomplete, Study!Complete},
             packet' = Study!Complete \/ Study!Complete \in retained' => now = Hours + 2 /\ Covered,
             StoppedAfterReport'
      PROVE  StudyInv'
  <2>1. Study!StudyTypeOK'
    BY <1>9 DEF StudyInv, Study!StudyTypeOK
  <2>2. JobSound' /\ ArchivesSound'
    BY <1>9 DEF StudyInv, JobSound, ArchivesSound
  <2>3. Covered => Covered'
    BY <1>9, CoverageStays
  <2>4. ReportsFrozen'
    BY <1>9, <2>3 DEF ReportsFrozen
  <2> QED BY <1>9, <2>1, <2>2, <2>4 DEF StudyInv
<1>10. ASSUME Study!Finalize PROVE StudyInv'
  <2>1. /\ now = Hours + 2 /\ packet' = Study!Summary
        /\ UNCHANGED <<now, runs, job, observing, finalizing, retained>>
    BY <1>10 DEF Study!Finalize
  <2>2. /\ Study!Summary \in {Study!Incomplete, Study!Complete}
        /\ Study!Summary = Study!Complete => Covered
    BY ReportKinds DEF Study!Summary, Covered
  <2>3. StoppedAfterReport'
    BY <2>1 DEF StudyInv, StoppedAfterReport
  <2> QED BY <1>9, <2>1, <2>2, <2>3 DEF StudyInv, Study!StudyTypeOK, ReportsFrozen
<1>11. ASSUME NEW ok \in BOOLEAN, Study!UploadReport(ok) PROVE StudyInv'
  <2>1. /\ packet \in {Study!Incomplete, Study!Complete}
        /\ retained \subseteq retained' /\ retained' \subseteq retained \cup {packet}
        /\ packet' \in {packet, Study!NoPacket}
        /\ UNCHANGED <<now, runs, job, observing, finalizing>>
    BY <1>11 DEF Study!UploadReport
  <2>2. StoppedAfterReport'
    BY <2>1 DEF StudyInv, StoppedAfterReport
  <2>3. packet' = Study!Complete \/ Study!Complete \in retained' =>
          packet = Study!Complete \/ Study!Complete \in retained
    BY <2>1, ReportKinds
  <2> QED BY <1>9, <2>1, <2>2, <2>3 DEF StudyInv, Study!StudyTypeOK, ReportsFrozen
<1>12. ASSUME NEW ok \in BOOLEAN, Study!StopFinishedStudy(ok) PROVE StudyInv'
  <2>1. /\ retained # {} /\ packet' = Study!NoPacket
        /\ observing' \in BOOLEAN /\ finalizing' \in BOOLEAN
        /\ UNCHANGED <<now, runs, job, retained>>
    BY <1>12 DEF Study!StopFinishedStudy, StudyInv, Study!StudyTypeOK
  <2>2. StoppedAfterReport'
    BY <2>1 DEF StoppedAfterReport
  <2> QED BY <1>9, <2>1, <2>2, ReportKinds DEF StudyInv, Study!StudyTypeOK, ReportsFrozen
<1> QED BY <1>1, <1>2, <1>3, <1>4, <1>5, <1>6, <1>7, <1>8, <1>10, <1>11, <1>12
        DEF Study!Next, Study!Observer, Study!Finalizer

\* A report of complete coverage is earned: every hour has one scheduled run, and each
\* scheduled run sent its two reads, whatever was cancelled, lost or late.
THEOREM CoverageEarned == Study!Spec => []CoverageIsEarned
BY CoveredIsEarned, StudyInit, StudyStep, PTL DEF Study!Spec

-----------------------------------------------------------------------------
(* IdentityCapture: the order in which filings are read.  The model names it  *)
(* by choice; it exists since a finite set in a strict order has a last       *)
(* member, and no two filings of a kind are of one age.                       *)

\* A finite set in a strict total order has a last element.
LEMMA LastExists ==
  ASSUME NEW S, IsFiniteSet(S), S # {}, NEW R,
         \A x, y \in S : x # y => <<x, y>> \in R \/ <<y, x>> \in R,
         \A x, y, z \in S : <<x, y>> \in R /\ <<y, z>> \in R => <<x, z>> \in R,
         \A x \in S : <<x, x>> \notin R
  PROVE  \E g \in S : \A y \in S : y # g => <<y, g>> \in R
<1> DEFINE Above(e) == {x \in S : <<e, x>> \in R}
           T == {Above(e) : e \in S}
<1>1. FiniteSubsetsOf(S) = SUBSET S
  BY FS_FiniteSubsetsOfFinite
<1>2. IsWellFoundedOn(StrictSubsetOrdering(S), SUBSET S)
  BY <1>1, FS_StrictSubsetOrderingWellFounded
<1>3. T \subseteq SUBSET S /\ T # {}
  <2>1. \A e \in S : Above(e) \in SUBSET S
    OBVIOUS
  <2> HIDE DEF Above
  <2> QED BY <2>1
<1>4. PICK t \in T : \A u \in T : <<u, t>> \notin StrictSubsetOrdering(S)
  <2> HIDE DEF T
  <2> QED BY <1>2, <1>3, WFMin
<1>5. PICK e \in S : t = Above(e)
  BY <1>4
<1>6. ASSUME NEW y \in S, <<e, y>> \in R PROVE FALSE
  <2>1. y \in t /\ y \notin Above(y) /\ Above(y) \in T
    BY <1>5, <1>6
  <2>2. Above(y) \subseteq t
    BY <1>5, <1>6
  <2>3. <<Above(y), t>> \in StrictSubsetOrdering(S)
    <3> HIDE DEF Above
    <3> QED BY <2>1, <2>2, <1>3, <1>4 DEF StrictSubsetOrdering
  <2> QED BY <1>4, <2>1, <2>3
<1> QED BY <1>5, <1>6

\* ... and its members can be put in that order.
LEMMA ArrangementExists ==
  ASSUME NEW S, IsFiniteSet(S), NEW R,
         \A x, y \in S : x # y => <<x, y>> \in R \/ <<y, x>> \in R,
         \A x, y, z \in S : <<x, y>> \in R /\ <<y, z>> \in R => <<x, z>> \in R,
         \A x \in S : <<x, x>> \notin R
  PROVE  \E s \in [1 .. Cardinality(S) -> S] :
           \A i, j \in 1 .. Cardinality(S) : i < j => <<s[i], s[j]>> \in R
<1> DEFINE Arranged(A) == \E s \in [1 .. Cardinality(A) -> A] :
                            \A i, j \in 1 .. Cardinality(A) : i < j => <<s[i], s[j]>> \in R
           T == {A \in SUBSET S : ~ Arranged(A)}
<1> SUFFICES ASSUME S \in T PROVE FALSE
  OBVIOUS
<1>0. \A A : A \in T <=> (A \in SUBSET S /\ ~ Arranged(A))
  OBVIOUS
<1> HIDE DEF T, Arranged
<1>1. FiniteSubsetsOf(S) = SUBSET S
  BY FS_FiniteSubsetsOfFinite
<1>2. IsWellFoundedOn(StrictSubsetOrdering(S), SUBSET S)
  BY <1>1, FS_StrictSubsetOrderingWellFounded
<1>3. T \subseteq SUBSET S /\ T # {}
  BY <1>0
<1>4. PICK A \in T : \A u \in T : <<u, A>> \notin StrictSubsetOrdering(S)
  BY <1>2, <1>3, WFMin
<1>5. A \subseteq S /\ IsFiniteSet(A) /\ ~ Arranged(A)
  BY <1>0, <1>4, FS_Subset
<1>6. CASE A = {}
  <2>1. Cardinality(A) = 0 /\ 1 .. 0 = {}
    BY <1>6, FS_EmptySet
  <2>2. [i \in 1 .. Cardinality(A) |-> i] \in [1 .. Cardinality(A) -> A]
    BY <2>1
  <2> QED BY <1>5, <2>1, <2>2 DEF Arranged
<1>7. CASE A # {}
  <2>1. PICK g \in A : \A y \in A : y # g => <<y, g>> \in R
    <3>1. /\ \A x, y \in A : x # y => <<x, y>> \in R \/ <<y, x>> \in R
          /\ \A x, y, z \in A : <<x, y>> \in R /\ <<y, z>> \in R => <<x, z>> \in R
          /\ \A x \in A : <<x, x>> \notin R
      BY <1>5
    <3> QED BY <3>1, <1>5, <1>7, LastExists
  <2> DEFINE B == A \ {g}  n == Cardinality(B)
  <2>2. IsFiniteSet(B) /\ n \in Nat /\ Cardinality(A) = n + 1
    <3>1. IsFiniteSet(B) /\ n = Cardinality(A) - 1
      BY <1>5, <2>1, FS_RemoveElement
    <3>2. n \in Nat /\ Cardinality(A) \in Nat
      BY <1>5, <3>1, FS_CardinalityType
    <3> HIDE DEF n
    <3> QED BY <3>1, <3>2
  <2>3. Arranged(B)
    <3>1. <<B, A>> \in StrictSubsetOrdering(S)
      BY <1>5, <2>1 DEF StrictSubsetOrdering
    <3> QED BY <1>0, <1>4, <1>5, <3>1
  <2>4. PICK s \in [1 .. n -> B] : \A i, j \in 1 .. n : i < j => <<s[i], s[j]>> \in R
    BY <2>3 DEF Arranged
  <2> DEFINE t == [i \in 1 .. (n + 1) |-> IF i = n + 1 THEN g ELSE s[i]]
  <2> HIDE DEF n, B
  <2>5. t \in [1 .. (n + 1) -> A]
    BY <2>1, <2>2, <2>4 DEF B
  <2>6. ASSUME NEW i \in 1 .. (n + 1), NEW j \in 1 .. (n + 1), i < j
        PROVE  <<t[i], t[j]>> \in R
    <3>1. i \in 1 .. n /\ t[i] = s[i] /\ s[i] \in A \ {g}
      BY <2>2, <2>4, <2>6 DEF B
    <3>2. CASE j = n + 1
      BY <3>1, <3>2, <2>1, <2>2
    <3>3. CASE j # n + 1
      BY <3>1, <3>3, <2>4, <2>2, <2>6
    <3> QED BY <3>2, <3>3
  <2>7. Arranged(A)
    BY <2>2, <2>5, <2>6 DEF Arranged
  <2> QED BY <2>7, <1>5
<1> QED BY <1>6, <1>7

\* Minima and maxima of two numbers, as the module computes them; its ranges.
LEMMA TwoNumbers ==
  ASSUME NEW a \in Nat, NEW b \in Nat
  PROVE  /\ Identity!Min({a, b}) = (IF a <= b THEN a ELSE b)
         /\ Identity!Max({a, b}) = (IF a >= b THEN a ELSE b)
<1>1. \E x \in {a, b} : \A y \in {a, b} : x <= y
  OBVIOUS
<1>2. \E x \in {a, b} : \A y \in {a, b} : x >= y
  OBVIOUS
<1>3. Identity!Min({a, b}) \in {a, b} /\ \A y \in {a, b} : Identity!Min({a, b}) <= y
  BY <1>1 DEF Identity!Min
<1>4. Identity!Max({a, b}) \in {a, b} /\ \A y \in {a, b} : Identity!Max({a, b}) >= y
  BY <1>2 DEF Identity!Max
<1>5. /\ Identity!Min({a, b}) <= a /\ Identity!Min({a, b}) <= b
      /\ Identity!Max({a, b}) >= a /\ Identity!Max({a, b}) >= b
  BY <1>3, <1>4
<1> QED BY <1>3, <1>4, <1>5

LEMMA RangeOf ==
  ASSUME NEW S, NEW s \in Seq(S)
  PROVE  Identity!Range(s) = {s[i] : i \in 1 .. Len(s)} /\ Identity!Range(s) \subseteq S
BY LenProperties DEF Identity!Range

\* The first k of a sequence, or all of it.
LEMMA Prefix ==
  ASSUME NEW S, NEW s \in Seq(S), NEW k \in Nat
  PROVE  /\ SubSeq(s, 1, Identity!Min({k, Len(s)})) \in Seq(S)
         /\ Len(SubSeq(s, 1, Identity!Min({k, Len(s)}))) <= Len(s)
<1> DEFINE n == Identity!Min({k, Len(s)})
<1>1. Len(s) \in Nat
  OBVIOUS
<1>2. n \in 0 .. Len(s)
  BY <1>1, TwoNumbers
<1> HIDE DEF n
<1>3. \A i \in 1 .. n : s[i] \in S
  BY <1>2, ElementOfSeq
<1>4. SubSeq(s, 1, n) \in Seq(S) /\ Len(SubSeq(s, 1, n)) = IF 1 <= n THEN n - 1 + 1 ELSE 0
  BY <1>2, <1>3, SubSeqProperties, n \in Int
<1>5. SubSeq(s, 1, n) \in Seq(S) /\ Len(SubSeq(s, 1, n)) <= Len(s)
  BY <1>1, <1>2, <1>4
<1> QED BY <1>5 DEF n

\* Filings of different ages, the newest first.
LEMMA NewestIs ==
  ASSUME NEW rows, IsFiniteSet(rows), \A x \in rows : x.age \in Nat,
         \A x, y \in rows : x.age = y.age => x = y
  PROVE  /\ Identity!Newest(rows) \in Seq(rows)
         /\ Len(Identity!Newest(rows)) = Cardinality(rows)
         /\ Identity!Range(Identity!Newest(rows)) = rows
<1> DEFINE R == {p \in rows \X rows : p[1].age < p[2].age}
           n == Cardinality(rows)
           Ordered(s) == \A i, j \in 1 .. n : i < j => s[i].age < s[j].age
           s == Identity!Newest(rows)
<1>1. n \in Nat /\ Identity!Cardinality(rows) = n
  BY FS_CardinalityType DEF Identity!Cardinality, Cardinality
<1>2. PICK t \in [1 .. n -> rows] : \A i, j \in 1 .. n : i < j => <<t[i], t[j]>> \in R
  <2>1. \A x, y \in rows : x # y => <<x, y>> \in R \/ <<y, x>> \in R
    <3>1. \A x, y \in rows : x # y => x.age < y.age \/ y.age < x.age
      OBVIOUS
    <3> QED BY <3>1
  <2>2. \A x, y, z \in rows : <<x, y>> \in R /\ <<y, z>> \in R => <<x, z>> \in R
    <3>1. \A x, y, z \in rows : x.age < y.age /\ y.age < z.age => x.age < z.age
      OBVIOUS
    <3> QED BY <3>1
  <2>3. \A x \in rows : <<x, x>> \notin R
    OBVIOUS
  <2> HIDE DEF R
  <2> QED BY <2>1, <2>2, <2>3, ArrangementExists
<1>3. \E u \in [1 .. n -> rows] : Ordered(u)
  BY <1>2
<1>4. s = CHOOSE u \in [1 .. n -> rows] : Ordered(u)
  BY <1>1 DEF Identity!Newest, Identity!Sorted
<1> HIDE DEF s, Ordered, n
<1>5. s \in [1 .. n -> rows] /\ Ordered(s)
  BY <1>3, <1>4
<1>6. s \in Seq(rows) /\ Len(s) = n
  BY <1>1, <1>5
<1>7. \A i, j \in 1 .. n : s[i] = s[j] => i = j
  <2> SUFFICES ASSUME NEW i \in 1 .. n, NEW j \in 1 .. n, s[i] = s[j], i < j
               PROVE  FALSE
    BY <1>1
  <2>1. s[i].age < s[j].age /\ s[i] \in rows
    BY <1>5 DEF Ordered
  <2> QED BY <2>1
<1>8. s \in Injection(1 .. n, rows)
  BY <1>5, <1>7 DEF Injection, IsInjective
<1>9. Cardinality(1 .. n) = n
  BY <1>1, FS_Interval, 1 \in Int, n \in Int
<1>10. s \in Surjection(1 .. n, rows)
  BY <1>8, <1>9, FS_Injection DEF n
<1>11. {s[i] : i \in 1 .. n} = rows
  BY <1>5, <1>10 DEF Surjection
<1> QED BY <1>6, <1>11, RangeOf DEF s, n

\* The filings of an issuer that may be read: finitely many, of different ages.
LEMMA EligibleRows ==
  ASSUME NEW i \in DOMAIN Lists, NEW kind
  PROVE  /\ IsFiniteSet(Identity!Eligible(Identity!RowsOf(i), kind))
         /\ Identity!Eligible(Identity!RowsOf(i), kind) \subseteq Identity!RowsOf(i)
         /\ \A x \in Identity!Eligible(Identity!RowsOf(i), kind) : x.age \in Nat
         /\ \A x, y \in Identity!Eligible(Identity!RowsOf(i), kind) : x.age = y.age => x = y
<1> DEFINE rows == Identity!RowsOf(i)
<1>1. /\ Identity!IsFiniteSet(rows) /\ \A x \in rows : x.age \in Nat
      /\ \A x, y \in rows : x.kind = y.kind /\ x.age = y.age => x = y
  BY StudiesAssumption DEF Identity!CaptureAssumption
<1>2. IsFiniteSet(rows)
  BY <1>1 DEF Identity!IsFiniteSet, IsFiniteSet
<1> HIDE DEF rows
<1>3. Identity!Eligible(rows, kind) \subseteq rows
  BY DEF Identity!Eligible
<1>4. IsFiniteSet(Identity!Eligible(rows, kind))
  BY <1>2, <1>3, FS_Subset
<1>5. \A x, y \in Identity!Eligible(rows, kind) : x.age = y.age => x = y
  BY <1>1 DEF Identity!Eligible
<1> QED BY <1>1, <1>3, <1>4, <1>5 DEF rows

\* Series, the frequent first: those of one frequency by the age of their newest filing.
LEMMA SeriesIs ==
  ASSUME NEW rows, IsFiniteSet(rows), \A x \in rows : x.age \in Nat,
         \A x, y \in rows : x.age = y.age => x = y,
         NEW others \in SUBSET rows, NEW count, \A x \in rows : count[x] \in Nat
  PROVE  /\ Identity!Cardinality(others) \in Nat
         /\ \E t \in [1 .. Identity!Cardinality(others) -> others] :
              \A i, j \in 1 .. Identity!Cardinality(others) :
                i < j => \/ count[t[i]] > count[t[j]]
                         \/ count[t[i]] = count[t[j]] /\ t[i].age < t[j].age
<1> DEFINE R == {p \in others \X others :
                   \/ count[p[1]] > count[p[2]]
                   \/ count[p[1]] = count[p[2]] /\ p[1].age < p[2].age}
           n == Cardinality(others)
           Ordered(t) == \A i, j \in 1 .. n :
                           i < j => \/ count[t[i]] > count[t[j]]
                                    \/ count[t[i]] = count[t[j]] /\ t[i].age < t[j].age
<1>1. IsFiniteSet(others) /\ n \in Nat /\ Identity!Cardinality(others) = n
  BY FS_Subset, FS_CardinalityType DEF Identity!Cardinality, Cardinality
<1>2. PICK t \in [1 .. n -> others] : \A i, j \in 1 .. n : i < j => <<t[i], t[j]>> \in R
  <2>0. \A x \in others : count[x] \in Nat /\ x.age \in Nat
    OBVIOUS
  <2>1. \A x, y \in others : x # y => <<x, y>> \in R \/ <<y, x>> \in R
    <3> SUFFICES ASSUME NEW x \in others, NEW y \in others, x # y
                 PROVE  <<x, y>> \in R \/ <<y, x>> \in R
      OBVIOUS
    <3>1. x.age < y.age \/ y.age < x.age
      BY <2>0
    <3> QED BY <3>1, <2>0
  <2>2. \A x, y, z \in others : <<x, y>> \in R /\ <<y, z>> \in R => <<x, z>> \in R
    <3> SUFFICES ASSUME NEW x \in others, NEW y \in others, NEW z \in others,
                        <<x, y>> \in R, <<y, z>> \in R
                 PROVE  <<x, z>> \in R
      OBVIOUS
    <3> QED BY <2>0
  <2>3. \A x \in others : <<x, x>> \notin R
    BY <2>0
  <2> HIDE DEF R, n
  <2> QED BY <1>1, <2>1, <2>2, <2>3, ArrangementExists DEF n
<1>3. \E u \in [1 .. n -> others] : Ordered(u)
  BY <1>2
<1> QED BY <1>1, <1>3

\* Both lists of an issuer are of its own filings.
LEMMA LeadsListed ==
  ASSUME NEW i \in DOMAIN Lists
  PROVE  /\ Leads[i].periodic \in Seq(Identity!RowsOf(i))
         /\ Leads[i].ownership \in Seq(Identity!RowsOf(i))
<1> DEFINE rows == Identity!RowsOf(i)
<1>1. /\ PeriodicLimit \in Nat /\ Latest \in Nat /\ PerSeries \in Nat
      /\ OwnershipLimit \in Nat
  BY StudiesAssumption DEF Identity!CaptureAssumption
<1>2. Leads[i] = [periodic |-> Identity!ChooseFilings(rows, "periodic", PeriodicLimit),
                           ownership |-> Identity!ChooseOwnership(rows)]
  BY StudiesAssumption DEF Identity!CaptureAssumption, Identity!LeadsOf
<1>3. Identity!ChooseFilings(rows, "periodic", PeriodicLimit) \in Seq(rows)
  <2> DEFINE all == Identity!Eligible(rows, "periodic")
             s == Identity!Newest(all)
  <2>1. s \in Seq(all) /\ all \subseteq rows
    BY EligibleRows, NewestIs
  <2> HIDE DEF s, all, rows
  <2>2. s \in Seq(rows)
    BY <2>1, SeqMonotonic
  <2>3. SubSeq(s, 1, Identity!Min({PeriodicLimit, Len(s)})) \in Seq(rows)
    BY <1>1, <2>2, Prefix
  <2> QED BY <2>3 DEF Identity!ChooseFilings, s, all
<1>4. Identity!ChooseOwnership(rows) \in Seq(rows)
  <2> DEFINE own == Identity!Eligible(rows, "ownership")
             all == Identity!Newest(own)
             latest == SubSeq(all, 1, Identity!Min({Latest, Len(all)}))
             count == [x \in Identity!Range(all) |-> Identity!Cardinality({r \in Identity!Range(all) : r.series = x.series})]
             others == {r \in Identity!Range(all) :
                          /\ r.series # NoJob
                          /\ r.series \notin {x.series : x \in Identity!Range(latest)}
                          /\ \A x \in Identity!Range(all) : x.series = r.series => x.age >= r.age}
             series == CHOOSE t \in [1 .. Identity!Cardinality(others) -> others] :
                         \A j, k \in 1 .. Identity!Cardinality(others) :
                           j < k => \/ count[t[j]] > count[t[k]]
                                    \/ count[t[j]] = count[t[k]] /\ t[j].age < t[k].age
             chosen == latest \o SubSeq(series, 1, Identity!Min({PerSeries, Len(series)}))
             rest == Identity!Newest(Identity!Range(all) \ Identity!Range(chosen))
             last == Identity!Max({Len(chosen), Identity!Min({OwnershipLimit, Len(all)})})
  <2>1. /\ IsFiniteSet(own) /\ own \subseteq rows /\ \A x \in own : x.age \in Nat
        /\ \A x, y \in own : x.age = y.age => x = y
    BY EligibleRows
  <2> HIDE DEF own, rows
  <2>2. all \in Seq(own) /\ Len(all) = Cardinality(own) /\ Identity!Range(all) = own
    BY <2>1, NewestIs
  <2> HIDE DEF all
  <2>3. latest \in Seq(own) /\ Len(latest) <= Len(all)
    BY <1>1, <2>2, Prefix
  <2>4. \A x \in own : count[x] \in Nat
    <3> SUFFICES ASSUME NEW x \in own
                 PROVE  Identity!Cardinality({r \in Identity!Range(all) : r.series = x.series}) \in Nat
      BY <2>2
    <3> DEFINE same == {r \in Identity!Range(all) : r.series = x.series}
    <3>1. IsFiniteSet(same)
      BY <2>1, <2>2, FS_Subset
    <3> HIDE DEF same
    <3>2. Identity!Cardinality(same) = Cardinality(same)
      BY DEF Identity!Cardinality, Cardinality
    <3> QED BY <3>1, <3>2, FS_CardinalityType DEF same
  <2>5. others \in SUBSET own
    BY <2>2
  <2> HIDE DEF latest, count, others
  <2>6. series \in Seq(own)
    <3> DEFINE n == Identity!Cardinality(others)
    <3>1. \A x \in own : x.age \in Nat
      BY <2>1
    <3>2. \A x, y \in own : x.age = y.age => x = y
      BY <2>1
    <3>3. IsFiniteSet(own)
      BY <2>1
    <3>4. /\ n \in Nat
          /\ \E t \in [1 .. n -> others] :
               \A j, k \in 1 .. n :
                 j < k => \/ count[t[j]] > count[t[k]]
                          \/ count[t[j]] = count[t[k]] /\ t[j].age < t[k].age
      BY <2>4, <2>5, <3>1, <3>2, <3>3, SeriesIs
    <3> HIDE DEF n
    <3>5. series \in [1 .. n -> others]
      BY <3>4 DEF n
    <3> HIDE DEF series
    <3>6. series \in Seq(others)
      BY <3>4, <3>5
    <3> QED BY <2>5, <3>6, SeqMonotonic
  <2> HIDE DEF series
  <2>7. SubSeq(series, 1, Identity!Min({PerSeries, Len(series)})) \in Seq(own)
    BY <1>1, <2>6, Prefix
  <2>8. chosen \in Seq(own)
    BY <2>3, <2>7, ConcatProperties
  <2> HIDE DEF chosen
  <2>9. Len(chosen) \in Nat /\ Identity!Range(chosen) \subseteq own
    BY <2>8, RangeOf, LenProperties
  <2> DEFINE left == own \ Identity!Range(chosen)
  <2>10. /\ rest \in Seq(left) /\ Len(rest) = Cardinality(left)
         /\ IsFiniteSet(left)
    <3>1. IsFiniteSet(left) /\ \A x, y \in left : x.age = y.age => x = y
      BY <2>1, FS_Difference
    <3>2. \A x \in left : x.age \in Nat
      BY <2>1
    <3> HIDE DEF left
    <3>3. rest = Identity!Newest(left)
      BY <2>2 DEF left
    <3> HIDE DEF rest
    <3> QED BY <3>1, <3>2, <3>3, NewestIs
  <2> HIDE DEF rest
  <2>11. Cardinality(own) <= Len(chosen) + Cardinality(left)
    <3> DEFINE seen == Identity!Range(chosen)
    <3>1. chosen \in Surjection(1 .. Len(chosen), seen)
      BY <2>8, RangeOf, LenProperties DEF Surjection
    <3>2. IsFiniteSet(1 .. Len(chosen)) /\ Cardinality(1 .. Len(chosen)) = Len(chosen)
      BY <2>9, FS_Interval, 1 \in Int, Len(chosen) \in Int, Len(chosen) - 1 + 1 = Len(chosen)
    <3>3. IsFiniteSet(seen) /\ Cardinality(seen) <= Len(chosen)
      <4> HIDE DEF seen
      <4> QED BY <3>1, <3>2, FS_Surjection
    <3>4. seen \cup left = own
      BY <2>9
    <3>5. Cardinality(seen \cup left) = Cardinality(seen) + Cardinality(left) - Cardinality(seen \cap left)
      <4> HIDE DEF seen, left
      <4> QED BY <2>10, <3>3, FS_Union
    <3>6. seen \cap left = {}
      OBVIOUS
    <3>7. Cardinality(seen \cap left) = 0
      BY <3>6, FS_EmptySet
    <3>8. Cardinality(seen) \in Nat /\ Cardinality(left) \in Nat
      <4> HIDE DEF seen, left
      <4> QED BY <2>10, <3>3, FS_CardinalityType
    <3> HIDE DEF seen, left
    <3>9. Cardinality(own) = Cardinality(seen) + Cardinality(left) - Cardinality(seen \cap left)
      BY <3>4, <3>5, Zenon
    <3> QED BY <3>3, <3>7, <3>8, <3>9, <2>9
  <2>12. /\ chosen \o rest \in Seq(own) /\ Len(chosen \o rest) = Len(chosen) + Len(rest)
    <3>1. rest \in Seq(own)
      BY <2>10, SeqMonotonic
    <3> QED BY <3>1, <2>8, ConcatProperties
  <2>13. last \in Nat /\ last <= Len(chosen \o rest)
    <3>1. Len(all) \in Nat /\ Len(rest) \in Nat
      BY <2>2, <2>10, LenProperties
    <3>2. Identity!Min({OwnershipLimit, Len(all)}) \in Nat /\ Identity!Min({OwnershipLimit, Len(all)}) <= Len(all)
      BY <1>1, <3>1, TwoNumbers
    <3>3. last = Len(chosen) \/ last = Identity!Min({OwnershipLimit, Len(all)})
      BY <2>9, <3>2, TwoNumbers
    <3> HIDE DEF last, left
    <3> QED BY <2>2, <2>9, <2>10, <2>11, <2>12, <3>1, <3>2, <3>3
  <2>14. SubSeq(chosen \o rest, 1, last) \in Seq(own)
    <3> HIDE DEF last
    <3>1. \A j \in 1 .. last : (chosen \o rest)[j] \in own
      BY <2>12, <2>13, ElementOfSeq
    <3> QED BY <2>13, <3>1, SubSeqProperties, last \in Int
  <2>15. Identity!ChooseOwnership(rows) = SubSeq(chosen \o rest, 1, last)
    BY DEF Identity!ChooseOwnership, Identity!Sorted, last, rest, chosen, series, others, count, latest, all, own
  <2> QED BY <2>1, <2>14, <2>15, SeqMonotonic
<1> QED BY <1>2, <1>3, <1>4

-----------------------------------------------------------------------------
(* IdentityCapture: the search of collect_member, over what its sources are   *)
(* to a run.  Each of its three stages ends at the first source where it      *)
(* stops, so it depends on nothing but the sources that it went through.      *)

\* Where a search over 1 .. n ends: at the first index where it stops, or at n.
Ends1(stop, n) == IF stop = {} THEN n ELSE Identity!Min(stop)

LEMMA SearchEnds ==
  ASSUME NEW n \in Nat, NEW stop \in SUBSET (1 .. n)
  PROVE  /\ Ends1(stop, n) \in 0 .. n
         /\ stop # {} => Ends1(stop, n) \in stop
         /\ \A i \in 1 .. n : i < Ends1(stop, n) => i \notin stop
<1>1. CASE stop = {}
  BY <1>1 DEF Ends1
<1>2. CASE stop # {}
  <2> DEFINE R == {p \in stop \X stop : p[1] > p[2]}
  <2>1. IsFiniteSet(stop)
    BY FS_Interval, FS_Subset, 1 \in Int, n \in Int
  <2>2. \A x \in stop : x \in Int
    OBVIOUS
  <2>3. \A x, y \in stop : x # y => <<x, y>> \in R \/ <<y, x>> \in R
    BY <2>2
  <2>4. \A x, y, z \in stop : <<x, y>> \in R /\ <<y, z>> \in R => <<x, z>> \in R
    <3> SUFFICES ASSUME NEW x \in stop, NEW y \in stop, NEW z \in stop,
                        <<x, y>> \in R, <<y, z>> \in R
                 PROVE  <<x, z>> \in R
      OBVIOUS
    <3> QED BY <2>2
  <2>5. \A x \in stop : <<x, x>> \notin R
    BY <2>2
  <2>6. PICK g \in stop : \A y \in stop : y # g => <<y, g>> \in R
    <3> HIDE DEF R
    <3> QED BY <1>2, <2>1, <2>3, <2>4, <2>5, LastExists
  <2>7. \A y \in stop : g <= y
    <3>1. \A y \in stop : y # g => y > g
      BY <2>6
    <3> QED BY <2>2, <3>1
  <2>8. Identity!Min(stop) \in stop /\ \A y \in stop : Identity!Min(stop) <= y
    BY <2>7 DEF Identity!Min
  <2>9. Ends1(stop, n) = Identity!Min(stop)
    BY <1>2 DEF Ends1
  <2>10. Ends1(stop, n) \in 1 .. n
    BY <2>8, <2>9
  <2>11. ASSUME NEW i \in 1 .. n, i < Ends1(stop, n) PROVE i \notin stop
    BY <2>8, <2>9, <2>10, <2>11
  <2> QED BY <2>8, <2>9, <2>10, <2>11
<1> QED BY <1>1, <1>2

\* Another search that stops at the same indices up to there ends there as well.
LEMMA SearchAgrees ==
  ASSUME NEW n \in Nat, NEW stop \in SUBSET (1 .. n), NEW other \in SUBSET (1 .. n),
         \A i \in 1 .. Ends1(stop, n) : i \in stop <=> i \in other
  PROVE  Ends1(other, n) = Ends1(stop, n) /\ (other = {} <=> stop = {})
<1>1. /\ Ends1(stop, n) \in 0 .. n /\ Ends1(other, n) \in 0 .. n
      /\ stop # {} => Ends1(stop, n) \in stop
      /\ other # {} => Ends1(other, n) \in other
      /\ \A i \in 1 .. n : i < Ends1(stop, n) => i \notin stop
      /\ \A i \in 1 .. n : i < Ends1(other, n) => i \notin other
  BY SearchEnds
<1>2. CASE stop = {}
  <2>1. Ends1(stop, n) = n
    BY <1>2 DEF Ends1
  <2>2. other = {}
    BY <1>2, <2>1
  <2> QED BY <1>2, <2>2
<1>3. CASE stop # {}
  <2>1. Ends1(stop, n) \in stop /\ Ends1(stop, n) \in 1 .. Ends1(stop, n)
    BY <1>1, <1>3
  <2>2. Ends1(stop, n) \in other
    BY <2>1
  <2>3. Ends1(other, n) \in other /\ Ends1(other, n) <= Ends1(stop, n)
    BY <1>1, <2>1, <2>2
  <2>4. Ends1(other, n) \in stop
    BY <1>1, <2>3
  <2> QED BY <1>1, <1>3, <2>1, <2>2, <2>3, <2>4
<1> QED BY <1>2, <1>3

-----------------------------------------------------------------------------
\* What a source can be to a run, and the reads of all sources.
Fates == {NoJob, "page", "large", "unavailable"}
Reads == [Identity!Urls -> Fates]

LEMMA SourcesAreUrls ==
  /\ NoJob \notin Identity!Urls /\ NoJob \notin Nat
  /\ NoJob # "page" /\ NoJob # "large" /\ NoJob # "unavailable"
  /\ \A i \in DOMAIN Lists : Lists[i] \subseteq Identity!Urls
  /\ \A i \in DOMAIN Lists : \A x \in Identity!RowsOf(i) : x.source \in Identity!Urls
<1>1. \A i \in DOMAIN Lists : Lists[i] \in Identity!Range(Lists)
  BY DEF Identity!Range
<1> QED BY <1>1, StudiesAssumption DEF Identity!CaptureAssumption, Identity!Urls

\* What a stage of collect_member keeps, asked of what came before it: it asks for a
\* source that is not there yet, and it is done with sources that all answered, but for
\* one that is unavailable, which decides the member.
Keeps(step, read) ==
  /\ step.asked \subseteq Identity!Urls
  /\ step.needs # NoJob => /\ step.needs \in step.asked /\ read[step.needs] = NoJob
                           /\ \A u \in step.asked \ {step.needs} : read[u] \in {"page", "large"}
  /\ step.needs = NoJob =>
       /\ \A u \in step.asked : read[u] # NoJob
       /\ \/ \A u \in step.asked : read[u] \in {"page", "large"}
          \/ step.of.status = "source_temporarily_unavailable"

Settling(step, other) ==
  /\ other.needs = NoJob /\ other.asked = step.asked
  /\ other.of.status = "source_temporarily_unavailable"

\* The sources of a search and the reads that stop it: what interrupts it, and the
\* pages that end it.
Halts(read, n, src, interrupts, ends) ==
  {i \in 1 .. n : read[src[i]] \in interrupts \/ (read[src[i]] = "page" /\ i \in ends)}
Halt(read, n, src, interrupts, ends) == Ends1(Halts(read, n, src, interrupts, ends), n)
Gone(read, n, src, interrupts, ends) ==
  {src[i] : i \in 1 .. Halt(read, n, src, interrupts, ends)}

\* Up to its end a search meets what answered; another read that differs in nothing it
\* went through, or in the refusal of the source where it ends, ends it there too.
Searches(read, n, src, interrupts, ends) ==
  LET halts(r) == Halts(r, n, src, interrupts, ends)
      l        == Halt(read, n, src, interrupts, ends)
      gone     == Gone(read, n, src, interrupts, ends)
  IN  /\ gone \subseteq Identity!Urls
      /\ halts(read) = {} => \A u \in gone : read[u] \in {"page", "large"}
      /\ halts(read) # {} => /\ l \in 1 .. n /\ src[l] \in gone
                             /\ read[src[l]] \in interrupts \cup {"page"}
                             /\ \A u \in gone \ {src[l]} : read[u] \in {"page", "large"}
      /\ \A other \in Reads :
           \/ \A u \in gone : other[u] = read[u]
           \/ /\ halts(read) # {} /\ read[src[l]] = NoJob
              /\ other = [read EXCEPT ![src[l]] = "unavailable"]
           => /\ Halt(other, n, src, interrupts, ends) = l
              /\ Gone(other, n, src, interrupts, ends) = gone
              /\ halts(other) = {} <=> halts(read) = {}

LEMMA Search ==
  ASSUME NEW n \in Nat, NEW src \in [1 .. n -> Identity!Urls], NEW ends,
         NEW interrupts \in SUBSET {NoJob, "unavailable", "large"},
         NoJob \in interrupts, "unavailable" \in interrupts, NEW read \in Reads
  PROVE  Searches(read, n, src, interrupts, ends)
<1> DEFINE halts(r) == Halts(r, n, src, interrupts, ends)
           l        == Halt(read, n, src, interrupts, ends)
           gone     == Gone(read, n, src, interrupts, ends)
<1>1. \A r : halts(r) \in SUBSET (1 .. n) /\ Halt(r, n, src, interrupts, ends) = Ends1(halts(r), n)
  BY DEF Halts, Halt
<1> HIDE DEF halts
<1>2. /\ l \in 0 .. n /\ l = Ends1(halts(read), n)
      /\ halts(read) # {} => l \in halts(read)
      /\ \A i \in 1 .. n : i < l => i \notin halts(read)
  BY <1>1, SearchEnds
<1>3. gone = {src[i] : i \in 1 .. l}
  BY DEF Gone
<1> HIDE DEF l, gone
<1>4. gone \subseteq Identity!Urls
  BY <1>2, <1>3
<1>5. \A i \in 1 .. n : i \notin halts(read) => read[src[i]] \in {"page", "large"}
  <2> SUFFICES ASSUME NEW i \in 1 .. n, i \notin halts(read)
               PROVE  read[src[i]] \in {"page", "large"}
    OBVIOUS
  <2>1. read[src[i]] \in Fates /\ read[src[i]] \notin interrupts
    BY DEF Reads, halts, Halts
  <2> QED BY <2>1 DEF Fates
<1>6. halts(read) = {} => \A u \in gone : read[u] \in {"page", "large"}
  BY <1>2, <1>3, <1>5
<1>7. ASSUME halts(read) # {}
      PROVE  /\ l \in 1 .. n /\ src[l] \in gone
             /\ read[src[l]] \in interrupts \cup {"page"}
             /\ \A u \in gone \ {src[l]} : read[u] \in {"page", "large"}
  <2>1. l \in halts(read) /\ l \in 1 .. n
    BY <1>1, <1>2, <1>7
  <2>2. read[src[l]] \in interrupts \cup {"page"}
    BY <2>1 DEF halts, Halts
  <2>3. ASSUME NEW i \in 1 .. l, src[i] # src[l] PROVE read[src[i]] \in {"page", "large"}
    BY <1>2, <1>5, <2>1, <2>3
  <2>4. src[l] \in gone
    BY <1>3, <2>1
  <2> QED BY <1>3, <2>1, <2>2, <2>3, <2>4
<1>8. ASSUME NEW other \in Reads,
             \/ \A u \in gone : other[u] = read[u]
             \/ /\ halts(read) # {} /\ read[src[l]] = NoJob
                /\ other = [read EXCEPT ![src[l]] = "unavailable"]
      PROVE  /\ Halt(other, n, src, interrupts, ends) = l
             /\ Gone(other, n, src, interrupts, ends) = gone
             /\ halts(other) = {} <=> halts(read) = {}
  <2>1. \A i \in 1 .. l : i \in halts(read) <=> i \in halts(other)
    <3> SUFFICES ASSUME NEW i \in 1 .. l PROVE i \in halts(read) <=> i \in halts(other)
      OBVIOUS
    <3>1. i \in 1 .. n /\ src[i] \in gone /\ src[i] \in Identity!Urls
      BY <1>2, <1>3
    <3>2. CASE other[src[i]] = read[src[i]]
      BY <3>1, <3>2 DEF halts, Halts
    <3>3. CASE other[src[i]] # read[src[i]]
      <4>1. /\ read[src[l]] = NoJob /\ other = [read EXCEPT ![src[l]] = "unavailable"]
        BY <1>8, <3>1, <3>3
      <4>2. src[i] = src[l] /\ other[src[i]] = "unavailable"
        BY <3>1, <3>3, <4>1 DEF Reads
      <4> QED BY <3>1, <4>1, <4>2 DEF halts, Halts
    <3> QED BY <3>2, <3>3
  <2>2. Ends1(halts(other), n) = Ends1(halts(read), n) /\ (halts(other) = {} <=> halts(read) = {})
    BY <1>1, <1>2, <2>1, SearchAgrees
  <2>3. Halt(other, n, src, interrupts, ends) = l
    BY <1>1, <1>2, <2>2
  <2> QED BY <1>3, <2>2, <2>3 DEF Gone
<1> QED BY <1>4, <1>6, <1>7, <1>8 DEF halts, l, gone, Searches

\* Asked twice: the same step if the reads agree on what it went through, and settled
\* if the source that it asks for is refused.
Follows(read, step, other, again) ==
  /\ (\A u \in step.asked : other[u] = read[u]) => again = step
  /\ (step.needs # NoJob /\ other = [read EXCEPT ![step.needs] = "unavailable"])
       => Settling(step, again)

\* An interrupted search, and how the refusal of its source settles it.
LEMMA InterruptedStep ==
  ASSUME NEW read \in Reads, NEW source \in Identity!Urls, NEW asked \in SUBSET Identity!Urls,
         source \in asked, read[source] \in {NoJob, "unavailable", "large"},
         \A u \in asked \ {source} : read[u] \in {"page", "large"}
  PROVE  /\ Keeps(Identity!Interrupted(read, source, asked), read)
         /\ Identity!Interrupted(read, source, asked).asked = asked
         /\ Identity!Interrupted(read, source, asked).needs # NoJob =>
              /\ Identity!Interrupted(read, source, asked).needs = source
              /\ read[source] = NoJob
         /\ \A other \in Reads :
              Follows(read, Identity!Interrupted(read, source, asked), other,
                      Identity!Interrupted(other, source, asked))
<1> DEFINE I(r) == Identity!Interrupted(r, source, asked)
<1>0. NoJob # "unavailable" /\ NoJob # "large" /\ NoJob # source /\ NoJob # "page"
  BY SourcesAreUrls
<1>1. \A r : /\ r[source] = NoJob => I(r) = [needs |-> source, asked |-> asked, of |-> NoJob]
             /\ r[source] = "unavailable" =>
                  I(r) = [needs |-> NoJob, asked |-> asked,
                          of |-> [status |-> "source_temporarily_unavailable",
                                  periodic |-> NoJob, ownership |-> NoJob]]
             /\ r[source] = "large" =>
                  I(r) = [needs |-> NoJob, asked |-> asked,
                          of |-> [status |-> "source_size_unresolved",
                                  periodic |-> NoJob, ownership |-> NoJob]]
  BY <1>0 DEF Identity!Interrupted, Identity!Step, Identity!Outcome
<1> HIDE DEF I
<1>2. CASE read[source] = NoJob
  <2>1. I(read) = [needs |-> source, asked |-> asked, of |-> NoJob]
    BY <1>1, <1>2
  <2>2. Keeps(I(read), read)
    BY <2>1, <1>0, <1>2 DEF Keeps
  <2>3. ASSUME NEW other \in Reads PROVE Follows(read, I(read), other, I(other))
    <3>1. ASSUME \A u \in I(read).asked : other[u] = read[u] PROVE I(other) = I(read)
      BY <2>1, <3>1, <1>1, <1>2
    <3>2. ASSUME other = [read EXCEPT ![source] = "unavailable"]
          PROVE  Settling(I(read), I(other))
      <4>1. other[source] = "unavailable"
        BY <3>2 DEF Reads
      <4> QED BY <4>1, <1>1, <2>1 DEF Settling
    <3> QED BY <2>1, <3>1, <3>2 DEF Follows
  <2> QED BY <1>2, <2>1, <2>2, <2>3 DEF I
<1>3. CASE read[source] # NoJob
  <2>1. I(read).needs = NoJob /\ I(read).asked = asked
    BY <1>1, <1>3
  <2>2. Keeps(I(read), read)
    <3>1. CASE read[source] = "unavailable"
      BY <3>1, <1>0, <1>1, <2>1 DEF Keeps
    <3>2. CASE read[source] = "large"
      BY <3>2, <1>0, <1>1, <2>1 DEF Keeps
    <3> QED BY <1>3, <3>1, <3>2
  <2>3. ASSUME NEW other \in Reads PROVE Follows(read, I(read), other, I(other))
    <3>1. ASSUME other[source] = read[source] PROVE I(other) = I(read)
      BY <1>1, <1>3, <3>1
    <3> QED BY <2>1, <3>1 DEF Follows
  <2> QED BY <2>1, <2>2, <2>3 DEF I
<1> QED BY <1>2, <1>3

\* A search that ends with what it went through answered.
LEMMA AnsweredStep ==
  ASSUME NEW read \in Reads, NEW asked \in SUBSET Identity!Urls, NEW of,
         \A u \in asked : read[u] \in {"page", "large"}
  PROVE  /\ Keeps(Identity!Step(NoJob, asked, of), read)
         /\ Identity!Step(NoJob, asked, of).asked = asked
         /\ Identity!Step(NoJob, asked, of).needs = NoJob
<1>0. NoJob # "large" /\ NoJob # "page"
  BY SourcesAreUrls
<1> QED BY <1>0 DEF Keeps, Identity!Step

LEMMA OwnershipStage ==
  ASSUME NEW m, m.issuer \in DOMAIN Lists, NEW periodic, NEW read \in Reads,
         NEW asked \in SUBSET Identity!Urls, \A u \in asked : read[u] \in {"page", "large"}
  PROVE  LET step == Identity!CollectOwnership(m, read, asked, periodic)
         IN  /\ Keeps(step, read) /\ asked \subseteq step.asked
             /\ \A other \in Reads :
                  Follows(read, step, other, Identity!CollectOwnership(m, other, asked, periodic))
<1> DEFINE seq == Leads[m.issuer].ownership
           n == Len(seq)
           src == [i \in 1 .. n |-> seq[i].source]
           class == Identity!PeriodicClass(m, Docs[periodic.source])
           ends == {i \in 1 .. n : Identity!Owns(m, Docs[src[i]], class)}
           interrupts == {NoJob, "unavailable"}
           halts(r) == Halts(r, n, src, interrupts, ends)
           l(r) == Halt(r, n, src, interrupts, ends)
           gone(r) == asked \cup Gone(r, n, src, interrupts, ends)
           Lost(r) == Identity!Step(NoJob, gone(r), Identity!Unresolved(r, gone(r), "ownership_identity_unresolved"))
           Won(r) == Identity!Step(NoJob, gone(r), Identity!Outcome("pre_cutoff_SEC_identity_anchored", periodic.source, src[l(r)]))
           Stage(r) == IF halts(r) = {} THEN Lost(r)
                       ELSE IF r[src[l(r)]] # "page" THEN Identity!Interrupted(r, src[l(r)], gone(r))
                       ELSE Won(r)
<1>1. /\ n \in Nat /\ DOMAIN seq = 1 .. n
      /\ \A i \in 1 .. n : seq[i].source \in Identity!Urls
  BY LeadsListed, SourcesAreUrls, LenProperties, ElementOfSeq
<1>2. src \in [1 .. n -> Identity!Urls]
  BY <1>1
<1>3. \A r : {i \in DOMAIN seq : Identity!Joins(m, seq[i], r, class)} = halts(r)
  BY <1>1 DEF Identity!Joins, Halts
<1>5. \A r : l(r) \in 0 .. n /\ (halts(r) # {} => l(r) \in 1 .. n)
  <2> SUFFICES ASSUME NEW r PROVE l(r) \in 0 .. n /\ (halts(r) # {} => l(r) \in 1 .. n)
    OBVIOUS
  <2>1. halts(r) \in SUBSET (1 .. n) /\ l(r) = Ends1(halts(r), n)
    BY DEF Halts, Halt
  <2> HIDE DEF halts, l, n
  <2> QED BY <1>1, <2>1, SearchEnds
<1>6. \A r : Identity!CollectOwnership(m, r, asked, periodic) = Stage(r)
  <2> SUFFICES ASSUME NEW r PROVE Identity!CollectOwnership(m, r, asked, periodic) = Stage(r)
    OBVIOUS
  <2>1. l(r) = IF halts(r) = {} THEN n ELSE Identity!Min(halts(r))
    BY DEF Halt, Ends1
  <2>2. {seq[i].source : i \in 1 .. l(r)} = Gone(r, n, src, interrupts, ends)
    <3>1. \A i \in 1 .. l(r) : seq[i].source = src[i]
      <4> HIDE DEF l, seq, n
      <4> QED BY <1>1, <1>5
    <3> QED BY <3>1 DEF Gone
  <2>3. halts(r) # {} => seq[l(r)].source = src[l(r)]
    BY <1>5
  <2> DEFINE stop == {i \in DOMAIN seq : Identity!Joins(m, seq[i], r, class)}
  <2>4. stop = halts(r)
    BY <1>3
  <2>5. Identity!CollectOwnership(m, r, asked, periodic) =
          (LET last == IF stop = {} THEN n ELSE Identity!Min(stop)
               g == asked \cup {seq[i].source : i \in 1 .. last}
           IN IF stop = {} THEN Identity!Step(NoJob, g, Identity!Unresolved(r, g, "ownership_identity_unresolved"))
              ELSE IF r[seq[last].source] # "page" THEN Identity!Interrupted(r, seq[last].source, g)
              ELSE Identity!Step(NoJob, g, Identity!Outcome("pre_cutoff_SEC_identity_anchored", periodic.source, seq[last].source)))
    BY DEF Identity!CollectOwnership
  <2> HIDE DEF stop, halts, l, n, seq, src, class, ends
  <2> QED BY <2>1, <2>2, <2>3, <2>4, <2>5
<1>7. /\ gone(read) \subseteq Identity!Urls
      /\ halts(read) = {} => \A u \in gone(read) : read[u] \in {"page", "large"}
      /\ halts(read) # {} => /\ src[l(read)] \in gone(read)
                             /\ read[src[l(read)]] \in {NoJob, "unavailable", "page"}
                             /\ \A u \in gone(read) \ {src[l(read)]} : read[u] \in {"page", "large"}
      /\ \A other \in Reads :
           \/ \A u \in gone(read) : other[u] = read[u]
           \/ /\ halts(read) # {} /\ read[src[l(read)]] = NoJob
              /\ other = [read EXCEPT ![src[l(read)]] = "unavailable"]
           => /\ l(other) = l(read) /\ gone(other) = gone(read)
              /\ halts(other) = {} <=> halts(read) = {}
  <2>1. interrupts \in SUBSET {NoJob, "unavailable", "large"} /\ NoJob \in interrupts /\ "unavailable" \in interrupts
    OBVIOUS
  <2>2. \A x \in interrupts \cup {"page"} : x \in {NoJob, "unavailable", "page"}
    OBVIOUS
  <2> DEFINE g(r) == Gone(r, n, src, interrupts, ends)
  <2>3. \A r : gone(r) = asked \cup g(r)
    OBVIOUS
  <2> HIDE DEF n, src, ends, interrupts, gone
  <2>4. /\ g(read) \subseteq Identity!Urls
        /\ halts(read) = {} => \A u \in g(read) : read[u] \in {"page", "large"}
        /\ halts(read) # {} => /\ src[l(read)] \in g(read)
                               /\ read[src[l(read)]] \in interrupts \cup {"page"}
                               /\ \A u \in g(read) \ {src[l(read)]} : read[u] \in {"page", "large"}
        /\ \A other \in Reads :
             \/ \A u \in g(read) : other[u] = read[u]
             \/ /\ halts(read) # {} /\ read[src[l(read)]] = NoJob
                /\ other = [read EXCEPT ![src[l(read)]] = "unavailable"]
             => /\ l(other) = l(read) /\ g(other) = g(read)
                /\ halts(other) = {} <=> halts(read) = {}
    <3>1. Searches(read, n, src, interrupts, ends)
      BY <1>1, <1>2, <2>1, Search
    <3> QED BY <3>1 DEF Searches
  <2> HIDE DEF halts, l, g
  <2> QED BY <2>2, <2>3, <2>4
<1> HIDE DEF halts, l, gone, src, n, seq, class, ends
<1>8. asked \subseteq gone(read)
  BY DEF gone
<1>9. CASE halts(read) = {}
  <2>1. Stage(read) = Lost(read)
    BY <1>9
  <2>2. Keeps(Stage(read), read) /\ Stage(read).asked = gone(read) /\ Stage(read).needs = NoJob
    BY <1>7, <1>9, <2>1, AnsweredStep
  <2>3. ASSUME NEW other \in Reads, \A u \in gone(read) : other[u] = read[u]
        PROVE  Stage(other) = Stage(read)
    <3>1. halts(other) = {} /\ gone(other) = gone(read)
      BY <1>7, <1>9, <2>3
    <3>2. Identity!Unresolved(other, gone(read), "ownership_identity_unresolved")
            = Identity!Unresolved(read, gone(read), "ownership_identity_unresolved")
      BY <2>3 DEF Identity!Unresolved
    <3> QED BY <2>1, <3>1, <3>2
  <2> HIDE DEF Stage
  <2> QED BY <1>6, <1>8, <2>2, <2>3 DEF Follows
<1>10. CASE halts(read) # {} /\ read[src[l(read)]] = "page"
  <2>1. Stage(read) = Won(read)
    BY <1>10
  <2>2. Keeps(Stage(read), read) /\ Stage(read).asked = gone(read) /\ Stage(read).needs = NoJob
    BY <1>7, <1>10, <2>1, AnsweredStep
  <2>3. ASSUME NEW other \in Reads, \A u \in gone(read) : other[u] = read[u]
        PROVE  Stage(other) = Stage(read)
    <3>1. /\ halts(other) # {} /\ gone(other) = gone(read) /\ l(other) = l(read)
          /\ other[src[l(read)]] = "page"
      BY <1>7, <1>10, <2>3
    <3> QED BY <2>1, <3>1
  <2> HIDE DEF Stage
  <2> QED BY <1>6, <1>8, <2>2, <2>3 DEF Follows
<1>11. CASE halts(read) # {} /\ read[src[l(read)]] # "page"
  <2> DEFINE u == src[l(read)]
  <2>1. Stage(read) = Identity!Interrupted(read, u, gone(read))
    BY <1>11
  <2>2. u \in gone(read) /\ u \in Identity!Urls /\ read[u] \in {NoJob, "unavailable", "large"}
    BY <1>7, <1>11
  <2>3. /\ Keeps(Stage(read), read) /\ Stage(read).asked = gone(read)
        /\ \A other \in Reads :
             Follows(read, Stage(read), other, Identity!Interrupted(other, u, gone(read)))
        /\ Stage(read).needs # NoJob => Stage(read).needs = u /\ read[u] = NoJob
    <3> HIDE DEF u, Stage
    <3> QED BY <1>7, <1>11, <2>1, <2>2, InterruptedStep DEF u
  <2>5. ASSUME NEW other \in Reads,
               \/ \A v \in gone(read) : other[v] = read[v]
               \/ read[u] = NoJob /\ other = [read EXCEPT ![u] = "unavailable"]
        PROVE  Stage(other) = Identity!Interrupted(other, u, gone(read))
    <3>1. halts(other) # {} /\ gone(other) = gone(read) /\ l(other) = l(read)
      BY <1>7, <1>11, <2>5
    <3>2. other[u] # "page"
      BY <2>2, <2>5, <1>11 DEF Reads
    <3> QED BY <3>1, <3>2
  <2> HIDE DEF Stage, u
  <2>6. ASSUME NEW other \in Reads PROVE Follows(read, Stage(read), other, Stage(other))
    BY <2>3, <2>5 DEF Follows
  <2> QED BY <1>6, <1>8, <2>3, <2>6
<1> QED BY <1>9, <1>10, <1>11

LEMMA PeriodicStage ==
  ASSUME NEW m, m.issuer \in DOMAIN Lists, NEW read \in Reads,
         NEW asked \in SUBSET Identity!Urls, \A u \in asked : read[u] \in {"page", "large"}
  PROVE  LET step == Identity!CollectPeriodic(m, read, asked)
         IN  /\ Keeps(step, read) /\ asked \subseteq step.asked
             /\ \A other \in Reads :
                  Follows(read, step, other, Identity!CollectPeriodic(m, other, asked))
<1> DEFINE seq == Leads[m.issuer].periodic
           n == Len(seq)
           src == [i \in 1 .. n |-> seq[i].source]
           ends == {i \in 1 .. n : Identity!PeriodicClass(m, Docs[src[i]]) # NoJob}
           interrupts == {NoJob, "unavailable"}
           halts(r) == Halts(r, n, src, interrupts, ends)
           l(r) == Halt(r, n, src, interrupts, ends)
           gone(r) == asked \cup Gone(r, n, src, interrupts, ends)
           Lost(r) == Identity!Step(NoJob, gone(r), Identity!Unresolved(r, gone(r), "periodic_anchor_unresolved"))
           Won(r) == Identity!CollectOwnership(m, r, gone(r), seq[l(r)])
           Stage(r) == IF halts(r) = {} THEN Lost(r)
                       ELSE IF r[src[l(r)]] # "page" THEN Identity!Interrupted(r, src[l(r)], gone(r))
                       ELSE Won(r)
<1>1. /\ n \in Nat /\ DOMAIN seq = 1 .. n
      /\ \A i \in 1 .. n : seq[i].source \in Identity!Urls
  BY LeadsListed, SourcesAreUrls, LenProperties, ElementOfSeq
<1>2. src \in [1 .. n -> Identity!Urls]
  BY <1>1
<1>3. \A r : {i \in DOMAIN seq : Identity!Stops(m, seq[i], r)} = halts(r)
  BY <1>1 DEF Identity!Stops, Halts
<1>5. \A r : l(r) \in 0 .. n /\ (halts(r) # {} => l(r) \in 1 .. n)
  <2> SUFFICES ASSUME NEW r PROVE l(r) \in 0 .. n /\ (halts(r) # {} => l(r) \in 1 .. n)
    OBVIOUS
  <2>1. halts(r) \in SUBSET (1 .. n) /\ l(r) = Ends1(halts(r), n)
    BY DEF Halts, Halt
  <2> HIDE DEF halts, l, n
  <2> QED BY <1>1, <2>1, SearchEnds
<1>6. \A r : Identity!CollectPeriodic(m, r, asked) = Stage(r)
  <2> SUFFICES ASSUME NEW r PROVE Identity!CollectPeriodic(m, r, asked) = Stage(r)
    OBVIOUS
  <2>1. l(r) = IF halts(r) = {} THEN n ELSE Identity!Min(halts(r))
    BY DEF Halt, Ends1
  <2>2. {seq[i].source : i \in 1 .. l(r)} = Gone(r, n, src, interrupts, ends)
    <3>1. \A i \in 1 .. l(r) : seq[i].source = src[i]
      <4> HIDE DEF l, seq, n
      <4> QED BY <1>1, <1>5
    <3> QED BY <3>1 DEF Gone
  <2>3. halts(r) # {} => seq[l(r)].source = src[l(r)]
    BY <1>5
  <2> DEFINE stop == {i \in DOMAIN seq : Identity!Stops(m, seq[i], r)}
  <2>4. stop = halts(r)
    BY <1>3
  <2>5. Identity!CollectPeriodic(m, r, asked) =
          (LET last == IF stop = {} THEN n ELSE Identity!Min(stop)
               g == asked \cup {seq[i].source : i \in 1 .. last}
           IN IF stop = {} THEN Identity!Step(NoJob, g, Identity!Unresolved(r, g, "periodic_anchor_unresolved"))
              ELSE IF r[seq[last].source] # "page" THEN Identity!Interrupted(r, seq[last].source, g)
              ELSE Identity!CollectOwnership(m, r, g, seq[last]))
    BY DEF Identity!CollectPeriodic
  <2> HIDE DEF stop, halts, l, n, seq, src, ends
  <2> QED BY <2>1, <2>2, <2>3, <2>4, <2>5
<1>7. /\ gone(read) \subseteq Identity!Urls
      /\ halts(read) = {} => \A u \in gone(read) : read[u] \in {"page", "large"}
      /\ halts(read) # {} => /\ src[l(read)] \in gone(read)
                             /\ read[src[l(read)]] \in {NoJob, "unavailable", "page"}
                             /\ \A u \in gone(read) \ {src[l(read)]} : read[u] \in {"page", "large"}
      /\ \A other \in Reads :
           \/ \A u \in gone(read) : other[u] = read[u]
           \/ /\ halts(read) # {} /\ read[src[l(read)]] = NoJob
              /\ other = [read EXCEPT ![src[l(read)]] = "unavailable"]
           => /\ l(other) = l(read) /\ gone(other) = gone(read)
              /\ halts(other) = {} <=> halts(read) = {}
  <2>1. interrupts \in SUBSET {NoJob, "unavailable", "large"} /\ NoJob \in interrupts /\ "unavailable" \in interrupts
    OBVIOUS
  <2>2. \A x \in interrupts \cup {"page"} : x \in {NoJob, "unavailable", "page"}
    OBVIOUS
  <2> DEFINE g(r) == Gone(r, n, src, interrupts, ends)
  <2>3. \A r : gone(r) = asked \cup g(r)
    OBVIOUS
  <2> HIDE DEF n, src, ends, interrupts, gone
  <2>4. /\ g(read) \subseteq Identity!Urls
        /\ halts(read) = {} => \A u \in g(read) : read[u] \in {"page", "large"}
        /\ halts(read) # {} => /\ src[l(read)] \in g(read)
                               /\ read[src[l(read)]] \in interrupts \cup {"page"}
                               /\ \A u \in g(read) \ {src[l(read)]} : read[u] \in {"page", "large"}
        /\ \A other \in Reads :
             \/ \A u \in g(read) : other[u] = read[u]
             \/ /\ halts(read) # {} /\ read[src[l(read)]] = NoJob
                /\ other = [read EXCEPT ![src[l(read)]] = "unavailable"]
             => /\ l(other) = l(read) /\ g(other) = g(read)
                /\ halts(other) = {} <=> halts(read) = {}
    <3>1. Searches(read, n, src, interrupts, ends)
      BY <1>1, <1>2, <2>1, Search
    <3> QED BY <3>1 DEF Searches
  <2> HIDE DEF halts, l, g
  <2> QED BY <2>2, <2>3, <2>4
<1> HIDE DEF halts, l, gone, src, n, seq, ends
<1>8. asked \subseteq gone(read)
  BY DEF gone
<1>9. CASE halts(read) = {}
  <2>1. Stage(read) = Lost(read)
    BY <1>9
  <2>2. Keeps(Stage(read), read) /\ Stage(read).asked = gone(read) /\ Stage(read).needs = NoJob
    BY <1>7, <1>9, <2>1, AnsweredStep
  <2>3. ASSUME NEW other \in Reads, \A u \in gone(read) : other[u] = read[u]
        PROVE  Stage(other) = Stage(read)
    <3>1. halts(other) = {} /\ gone(other) = gone(read)
      BY <1>7, <1>9, <2>3
    <3>2. Identity!Unresolved(other, gone(read), "periodic_anchor_unresolved")
            = Identity!Unresolved(read, gone(read), "periodic_anchor_unresolved")
      BY <2>3 DEF Identity!Unresolved
    <3> QED BY <2>1, <3>1, <3>2
  <2> HIDE DEF Stage
  <2> QED BY <1>6, <1>8, <2>2, <2>3 DEF Follows
<1>10. CASE halts(read) # {} /\ read[src[l(read)]] = "page"
  <2> DEFINE periodic == seq[l(read)]
             Own(r) == Identity!CollectOwnership(m, r, gone(read), periodic)
  <2>1. Stage(read) = Own(read)
    BY <1>10
  <2>2. \A u \in gone(read) : read[u] \in {"page", "large"}
    BY <1>7, <1>10
  <2>3. /\ Keeps(Own(read), read) /\ gone(read) \subseteq Own(read).asked
        /\ \A other \in Reads : Follows(read, Own(read), other, Own(other))
    BY <1>7, <2>2, OwnershipStage
  <2>4. ASSUME NEW other \in Reads, \A u \in gone(read) : other[u] = read[u]
        PROVE  Stage(other) = Own(other)
    <3>1. /\ halts(other) # {} /\ gone(other) = gone(read) /\ l(other) = l(read)
          /\ other[src[l(read)]] = "page"
      BY <1>7, <1>10, <2>4
    <3> QED BY <3>1
  <2> HIDE DEF Stage, Own
  <2>5. ASSUME NEW other \in Reads PROVE Follows(read, Own(read), other, Stage(other))
    <3>1. ASSUME \A u \in Own(read).asked : other[u] = read[u] PROVE Stage(other) = Own(read)
      BY <2>3, <2>4, <3>1 DEF Follows
    <3>2. ASSUME Own(read).needs # NoJob,
                 other = [read EXCEPT ![Own(read).needs] = "unavailable"]
          PROVE  Settling(Own(read), Stage(other))
      <4>1. read[Own(read).needs] = NoJob /\ Own(read).needs \notin gone(read)
        BY <2>2, <2>3, <3>2, SourcesAreUrls DEF Keeps
      <4>2. \A u \in gone(read) : other[u] = read[u]
        BY <1>7, <3>2, <4>1 DEF Reads
      <4> QED BY <2>3, <2>4, <3>2, <4>2 DEF Follows
    <3> QED BY <3>1, <3>2 DEF Follows
  <2> QED BY <1>6, <1>8, <2>1, <2>3, <2>5
<1>11. CASE halts(read) # {} /\ read[src[l(read)]] # "page"
  <2> DEFINE u == src[l(read)]
  <2>1. Stage(read) = Identity!Interrupted(read, u, gone(read))
    BY <1>11
  <2>2. u \in gone(read) /\ u \in Identity!Urls /\ read[u] \in {NoJob, "unavailable", "large"}
    BY <1>7, <1>11
  <2>3. /\ Keeps(Stage(read), read) /\ Stage(read).asked = gone(read)
        /\ \A other \in Reads :
             Follows(read, Stage(read), other, Identity!Interrupted(other, u, gone(read)))
        /\ Stage(read).needs # NoJob => Stage(read).needs = u /\ read[u] = NoJob
    <3> HIDE DEF u, Stage
    <3> QED BY <1>7, <1>11, <2>1, <2>2, InterruptedStep DEF u
  <2>5. ASSUME NEW other \in Reads,
               \/ \A v \in gone(read) : other[v] = read[v]
               \/ read[u] = NoJob /\ other = [read EXCEPT ![u] = "unavailable"]
        PROVE  Stage(other) = Identity!Interrupted(other, u, gone(read))
    <3>1. halts(other) # {} /\ gone(other) = gone(read) /\ l(other) = l(read)
      BY <1>7, <1>11, <2>5
    <3>2. other[u] # "page"
      BY <2>2, <2>5, <1>11 DEF Reads
    <3> QED BY <3>1, <3>2
  <2> HIDE DEF Stage, u
  <2>6. ASSUME NEW other \in Reads PROVE Follows(read, Stage(read), other, Stage(other))
    BY <2>3, <2>5 DEF Follows
  <2> QED BY <1>6, <1>8, <2>3, <2>6
<1> QED BY <1>9, <1>10, <1>11

\* An issuer's pages, each once.
LEMMA PagesListed ==
  ASSUME NEW i \in DOMAIN Lists
  PROVE  Identity!SetToSeq(Lists[i]) \in Seq(Lists[i])
<1> DEFINE S == Lists[i]  n == Cardinality(S)
<1>1. Identity!IsFiniteSet(S)
  BY StudiesAssumption DEF Identity!CaptureAssumption
<1>2. IsFiniteSet(S)
  BY <1>1 DEF Identity!IsFiniteSet, IsFiniteSet
<1> HIDE DEF S
<1>3. n \in Nat /\ ExistsBijection(1 .. n, S) /\ Identity!Cardinality(S) = n
  BY <1>2, FS_CardinalityType DEF Identity!Cardinality, Cardinality
<1> HIDE DEF n
<1>4. \E f \in [1 .. n -> S] : Identity!IsInjective(f)
  BY <1>3 DEF ExistsBijection, Bijection, Injection, IsInjective, Identity!IsInjective
<1>5. Identity!SetToSeq(S) = CHOOSE f \in [1 .. n -> S] : Identity!IsInjective(f)
  BY <1>3 DEF Identity!SetToSeq
<1>6. Identity!SetToSeq(S) \in [1 .. n -> S]
  BY <1>4, <1>5
<1>7. Identity!SetToSeq(S) \in Seq(S)
  BY <1>3, <1>6
<1> QED BY <1>7 DEF S

LEMMA CollectStage ==
  ASSUME NEW m, m.issuer \in DOMAIN Lists, NEW read \in Reads
  PROVE  /\ Keeps(Identity!Collect(m, read), read)
         /\ \A other \in Reads :
              Follows(read, Identity!Collect(m, read), other, Identity!Collect(m, other))
<1> DEFINE src == Identity!SetToSeq(Lists[m.issuer])
           n == Len(src)
           interrupts == {NoJob, "unavailable", "large"}
           halts(r) == Halts(r, n, src, interrupts, {})
           l(r) == Halt(r, n, src, interrupts, {})
           gone(r) == Gone(r, n, src, interrupts, {})
           Stage(r) == IF halts(r) # {} THEN Identity!Interrupted(r, src[l(r)], gone(r))
                       ELSE Identity!CollectPeriodic(m, r, gone(r))
<1>1. /\ n \in Nat /\ src \in [1 .. n -> Identity!Urls]
  <2>1. src \in Seq(Identity!Urls)
    BY PagesListed, SourcesAreUrls, SeqMonotonic
  <2> HIDE DEF src
  <2> QED BY <2>1, LenProperties
<1>2. ASSUME NEW r \in Reads
      PROVE  {i \in DOMAIN src : r[src[i]] # "page"} = halts(r)
  <2>1. \A i \in 1 .. n : r[src[i]] \in Fates
    BY <1>1 DEF Reads
  <2>2. DOMAIN src = 1 .. n
    BY <1>1
  <2>3. NoJob # "page"
    BY SourcesAreUrls
  <2> HIDE DEF src, n
  <2> QED BY <2>1, <2>2, <2>3 DEF Halts, Fates
<1>3. ASSUME NEW r \in Reads PROVE Identity!Collect(m, r) = Stage(r)
  <2>1. l(r) = IF halts(r) = {} THEN n ELSE Identity!Min(halts(r))
    BY DEF Halt, Ends1
  <2>2. {src[i] : i \in 1 .. l(r)} = gone(r)
    BY DEF Gone
  <2> DEFINE stop == {i \in DOMAIN src : r[src[i]] # "page"}
  <2>3. stop = halts(r)
    BY <1>2
  <2>4. Identity!Collect(m, r) =
          (LET last == IF stop = {} THEN n ELSE Identity!Min(stop)
               g == {src[i] : i \in 1 .. last}
           IN IF stop # {} THEN Identity!Interrupted(r, src[last], g)
              ELSE Identity!CollectPeriodic(m, r, g))
    BY DEF Identity!Collect
  <2> HIDE DEF stop, halts, l, n, src, gone
  <2> QED BY <2>1, <2>2, <2>3, <2>4
<1>4. /\ gone(read) \subseteq Identity!Urls
      /\ halts(read) = {} => \A u \in gone(read) : read[u] \in {"page", "large"}
      /\ halts(read) # {} => /\ src[l(read)] \in gone(read)
                             /\ read[src[l(read)]] \in interrupts
                             /\ \A u \in gone(read) \ {src[l(read)]} : read[u] \in {"page", "large"}
      /\ \A other \in Reads :
           \/ \A u \in gone(read) : other[u] = read[u]
           \/ /\ halts(read) # {} /\ read[src[l(read)]] = NoJob
              /\ other = [read EXCEPT ![src[l(read)]] = "unavailable"]
           => /\ l(other) = l(read) /\ gone(other) = gone(read)
              /\ halts(other) = {} <=> halts(read) = {}
  <2>1. Searches(read, n, src, interrupts, {})
    <3>1. interrupts \in SUBSET {NoJob, "unavailable", "large"} /\ NoJob \in interrupts /\ "unavailable" \in interrupts
      OBVIOUS
    <3> HIDE DEF n, src, interrupts
    <3> QED BY <1>1, <3>1, Search
  <2>2. halts(read) # {} => read[src[l(read)]] \in interrupts
    <3>1. halts(read) \in SUBSET (1 .. n) /\ l(read) = Ends1(halts(read), n)
      BY DEF Halts, Halt
    <3>2. halts(read) # {} => l(read) \in halts(read)
      <4> HIDE DEF halts, n, l
      <4> QED BY <1>1, <3>1, SearchEnds
    <3> HIDE DEF l
    <3> QED BY <3>2 DEF Halts
  <2> HIDE DEF n, src, interrupts
  <2> QED BY <2>1, <2>2 DEF Searches
<1> HIDE DEF halts, l, gone, src, n
<1>5. CASE halts(read) = {}
  <2> DEFINE Next1(r) == Identity!CollectPeriodic(m, r, gone(read))
  <2>1. Stage(read) = Next1(read)
    BY <1>5
  <2>2. /\ Keeps(Next1(read), read) /\ gone(read) \subseteq Next1(read).asked
        /\ \A other \in Reads : Follows(read, Next1(read), other, Next1(other))
    BY <1>4, <1>5, PeriodicStage
  <2>3. ASSUME NEW other \in Reads, \A u \in gone(read) : other[u] = read[u]
        PROVE  Stage(other) = Next1(other)
    <3>1. halts(other) = {} /\ gone(other) = gone(read)
      BY <1>4, <1>5, <2>3
    <3> QED BY <3>1
  <2> HIDE DEF Stage, Next1
  <2>4. ASSUME NEW other \in Reads PROVE Follows(read, Next1(read), other, Stage(other))
    <3>1. ASSUME \A u \in Next1(read).asked : other[u] = read[u] PROVE Stage(other) = Next1(read)
      BY <2>2, <2>3, <3>1 DEF Follows
    <3>2. ASSUME Next1(read).needs # NoJob,
                 other = [read EXCEPT ![Next1(read).needs] = "unavailable"]
          PROVE  Settling(Next1(read), Stage(other))
      <4>1. read[Next1(read).needs] = NoJob /\ Next1(read).needs \notin gone(read)
        BY <1>4, <1>5, <2>2, <3>2, SourcesAreUrls DEF Keeps
      <4>2. \A u \in gone(read) : other[u] = read[u]
        BY <1>4, <3>2, <4>1 DEF Reads
      <4> QED BY <2>2, <2>3, <3>2, <4>2 DEF Follows
    <3> QED BY <3>1, <3>2 DEF Follows
  <2> QED BY <1>3, <2>1, <2>2, <2>4
<1>6. CASE halts(read) # {}
  <2> DEFINE u == src[l(read)]
  <2>1. Stage(read) = Identity!Interrupted(read, u, gone(read))
    BY <1>6
  <2>2. u \in gone(read) /\ u \in Identity!Urls /\ read[u] \in {NoJob, "unavailable", "large"}
    BY <1>4, <1>6
  <2>3. /\ Keeps(Stage(read), read) /\ Stage(read).asked = gone(read)
        /\ \A other \in Reads :
             Follows(read, Stage(read), other, Identity!Interrupted(other, u, gone(read)))
        /\ Stage(read).needs # NoJob => Stage(read).needs = u /\ read[u] = NoJob
    <3> HIDE DEF u, Stage
    <3> QED BY <1>4, <1>6, <2>1, <2>2, InterruptedStep DEF u
  <2>4. ASSUME NEW other \in Reads,
               \/ \A v \in gone(read) : other[v] = read[v]
               \/ read[u] = NoJob /\ other = [read EXCEPT ![u] = "unavailable"]
        PROVE  Stage(other) = Identity!Interrupted(other, u, gone(read))
    <3>1. halts(other) # {} /\ gone(other) = gone(read) /\ l(other) = l(read)
      BY <1>4, <1>6, <2>4
    <3> QED BY <3>1
  <2> HIDE DEF Stage, u
  <2>5. ASSUME NEW other \in Reads PROVE Follows(read, Stage(read), other, Stage(other))
    BY <2>3, <2>4 DEF Follows
  <2> QED BY <1>3, <2>3, <2>5
<1> QED BY <1>5, <1>6

-----------------------------------------------------------------------------
(* IdentityCapture: the runs over one directory.  A run has done what it      *)
(* would do again over the cache, which only grows, with the failures it met; *)
(* these belong to members that they have settled.                            *)

\* What is settled stays settled while sources that were not there are added.
LEMMA StepPersists ==
  ASSUME NEW m, m.issuer \in DOMAIN Lists, NEW read \in Reads, NEW other \in Reads,
         \A u \in Identity!Urls : read[u] # NoJob => other[u] = read[u],
         Identity!Collect(m, read).needs = NoJob
  PROVE  Identity!Collect(m, other) = Identity!Collect(m, read)
<1> DEFINE step == Identity!Collect(m, read)
<1>1. Keeps(step, read) /\ Follows(read, step, other, Identity!Collect(m, other))
  BY CollectStage
<1> HIDE DEF step
<1>2. \A u \in step.asked : other[u] = read[u]
  BY <1>1 DEF Keeps, step
<1> QED BY <1>1, <1>2 DEF Follows, step

\* ... and is what it is when every source answers, unless one was unavailable.
LEMMA StepSettles ==
  ASSUME NEW m, m.issuer \in DOMAIN Lists, NEW read \in Reads,
         \A u \in Identity!Urls : /\ read[u] = "large" => u \in Oversized
                                  /\ read[u] = "page" => u \notin Oversized,
         Identity!Collect(m, read).needs = NoJob
  PROVE  \/ Identity!Collect(m, read).of = Identity!Settled(m)
         \/ Identity!Collect(m, read).of.status = "source_temporarily_unavailable"
<1> DEFINE step == Identity!Collect(m, read)
           full == [u \in Identity!Urls |-> IF u \in Oversized THEN "large" ELSE "page"]
<1>1. full \in Reads
  BY DEF Reads, Fates
<1>2. Identity!Settled(m) = Identity!Collect(m, full).of
  BY DEF Identity!Settled
<1> HIDE DEF full
<1>3. Keeps(step, read) /\ Follows(read, step, full, Identity!Collect(m, full))
  BY <1>1, CollectStage
<1> HIDE DEF step
<1>4. CASE \A u \in step.asked : read[u] \in {"page", "large"}
  <2>1. \A u \in step.asked : full[u] = read[u]
    BY <1>3, <1>4 DEF Keeps, full
  <2> QED BY <1>2, <1>3, <2>1 DEF Follows, step
<1>5. CASE step.of.status = "source_temporarily_unavailable"
  BY <1>5 DEF step
<1> QED BY <1>3, <1>4, <1>5 DEF Keeps, step

\* The cache: a pair is written body first, and only a document over the bound is
\* called too large.
CacheInv ==
  /\ bodies \subseteq Identity!Live
  /\ metas \in [Identity!Live -> {NoJob, "page", "large"}]
  /\ \A u \in Identity!Live : /\ metas[u] = "page" => u \in bodies \ Oversized
                              /\ metas[u] = "large" => u \in Oversized

\* A run's member i over the cache, with the failures d that the run met.
Member(i, d) == Identity!Collect(Members[i], Identity!Reading(d))

Outcomes == UNION {{Identity!Collect(Members[i], read).of : read \in Reads} : i \in DOMAIN Members}
CaptureRuns ==
  [phase : {"bind", "collect", "meta"}, limit : 1 .. Len(Members), done : Seq(Outcomes),
   requests : Nat, failures : Nat, deferred : SUBSET Identity!Live,
   used : SUBSET Identity!Live, source : Identity!Urls \cup {NoJob}]

\* What a run has done is what it would do again; every failure it met belongs to a
\* member that it has settled, or to the one it is about to.
Tracked(rec) ==
  /\ rec \in CaptureRuns /\ Len(rec.done) <= rec.limit
  /\ \A i \in 1 .. Len(rec.done) : /\ Member(i, rec.deferred).needs = NoJob
                                   /\ Member(i, rec.deferred).of = rec.done[i]
  /\ rec.used = UNION {Identity!Read(Member(i, rec.deferred).asked, rec.deferred) :
                         i \in 1 .. Len(rec.done)}
  /\ \A u \in rec.deferred :
       \/ \E i \in 1 .. Len(rec.done) : u \in Member(i, rec.deferred).asked
       \/ /\ Len(rec.done) < rec.limit
          /\ Member(Len(rec.done) + 1, rec.deferred).needs = NoJob
          /\ u \in Member(Len(rec.done) + 1, rec.deferred).asked

RunsInv ==
  /\ DOMAIN run = Processes
  /\ \A p \in Processes : \A rec \in {run[p]} \ {NoJob} :
       /\ Tracked(rec)
       /\ binding = IF rec.phase = "bind" THEN 0 ELSE rec.limit
       /\ rec.phase = "meta" => rec.source \in bodies \ Oversized
\* One process makes the directory, and it is alone until it is bound.
BindingInv ==
  /\ binding = NoJob => \A p \in Processes : run[p] = NoJob
  /\ binding = 0 => \A p, q \in Processes : run[p] # NoJob /\ run[q] # NoJob => p = q
ResultsInv ==
  \A result \in results :
    /\ result.results \in Seq(Outcomes) /\ Len(result.results) \in 1 .. Len(Members)
    /\ Identity!Replays(result)

CaptureInv == CacheInv /\ RunsInv /\ BindingInv /\ ResultsInv

LEMMA MembersListed ==
  /\ Len(Members) \in Nat
  /\ \A i \in 1 .. Len(Members) : i \in DOMAIN Members /\ Members[i].issuer \in DOMAIN Lists
<1>1. DOMAIN Members = 1 .. Len(Members) /\ Len(Members) \in Nat
  BY StudiesAssumption DEF Identity!CaptureAssumption
<1>2. \A m \in Identity!Range(Members) : m.issuer \in DOMAIN Lists
  BY StudiesAssumption DEF Identity!CaptureAssumption
<1>3. \A i \in 1 .. Len(Members) : Members[i] \in Identity!Range(Members)
  BY <1>1 DEF Identity!Range
<1> QED BY <1>1, <1>2, <1>3

\* What the cache says of the sources, with any failures.
LEMMA ReadingIs ==
  ASSUME CacheInv, NEW d
  PROVE  /\ Identity!Reading(d) \in Reads
         /\ \A u \in Identity!Urls : /\ Identity!Reading(d)[u] = "large" => u \in Oversized
                                     /\ Identity!Reading(d)[u] = "page" => u \notin Oversized
         /\ \A u \in Identity!Urls : Identity!Reading(d)[u] = NoJob
                                     => u \in Identity!Live /\ metas[u] = NoJob /\ u \notin d
         /\ \A u \in d : u \in Identity!Urls => Identity!Reading(d)[u] = "unavailable"
<1>1. NoJob # "page" /\ NoJob # "large" /\ NoJob # "unavailable"
  BY SourcesAreUrls
<1> DEFINE value(u) == IF u \in d THEN "unavailable" ELSE IF u \in Identity!Live THEN metas[u]
                       ELSE IF u \in Oversized THEN "large" ELSE "page"
<1>2. Identity!Reading(d) = [u \in Identity!Urls |-> value(u)]
  BY DEF Identity!Reading
<1>3. \A u \in Identity!Urls : value(u) \in Fates
  BY DEF CacheInv, Fates
<1>4. Identity!Reading(d) \in Reads
  <2> HIDE DEF value
  <2> QED BY <1>2, <1>3 DEF Reads
<1>5. \A u \in Identity!Urls : /\ value(u) = "large" => u \in Oversized
                               /\ value(u) = "page" => u \notin Oversized
  BY <1>1 DEF CacheInv
<1>6. \A u \in Identity!Urls : value(u) = NoJob => u \in Identity!Live /\ metas[u] = NoJob /\ u \notin d
  BY <1>1
<1>7. \A u \in d : value(u) = "unavailable"
  OBVIOUS
<1> HIDE DEF value
<1> QED BY <1>2, <1>4, <1>5, <1>6, <1>7

\* The cache only grows.
Grows == \A u \in Identity!Live : metas[u] # NoJob => metas'[u] = metas[u]

LEMMA MemberPersists ==
  ASSUME CacheInv, CacheInv', Grows, NEW i \in 1 .. Len(Members), NEW d,
         Member(i, d).needs = NoJob
  PROVE  Member(i, d)' = Member(i, d)
<1> DEFINE read == Identity!Reading(d)
           other == Identity!Reading(d)'
<1>1. read \in Reads
  BY ReadingIs
<1>2. other \in Reads
  <2>1. (Identity!Reading(d) \in Reads)'
    BY ReadingIs, PTL
  <2> QED BY <2>1 DEF Reads
<1>3. \A u \in Identity!Urls : read[u] # NoJob => other[u] = read[u]
  BY DEF Identity!Reading, Grows
<1>4. Member(i, d) = Identity!Collect(Members[i], read) /\ Member(i, d)' = Identity!Collect(Members[i], other)
  BY DEF Member
<1> HIDE DEF read, other
<1> QED BY <1>1, <1>2, <1>3, <1>4, MembersListed, StepPersists

LEMMA TrackedPersists ==
  ASSUME CacheInv, CacheInv', Grows, NEW rec, Tracked(rec)
  PROVE  Tracked(rec)'
<1>0. /\ rec \in CaptureRuns /\ Len(rec.done) \in Nat
      /\ rec.limit \in 1 .. Len(Members) /\ Len(rec.done) <= rec.limit
  BY LenProperties DEF Tracked, CaptureRuns
<1>1. ASSUME NEW i \in 1 .. Len(rec.done)
      PROVE  Member(i, rec.deferred)' = Member(i, rec.deferred)
  <2>1. i \in 1 .. Len(Members) /\ Member(i, rec.deferred).needs = NoJob
    BY <1>0, MembersListed DEF Tracked
  <2> QED BY <2>1, MemberPersists
<1>2. ASSUME Len(rec.done) < rec.limit, Member(Len(rec.done) + 1, rec.deferred).needs = NoJob
      PROVE  Member(Len(rec.done) + 1, rec.deferred)' = Member(Len(rec.done) + 1, rec.deferred)
  <2>1. Len(rec.done) + 1 \in 1 .. Len(Members)
    BY <1>0, <1>2, MembersListed
  <2> QED BY <1>2, <2>1, MemberPersists
<1>3. (rec \in CaptureRuns)'
  BY <1>0 DEF CaptureRuns, Outcomes
<1>4. \A i \in 1 .. Len(rec.done) : /\ Member(i, rec.deferred)'.needs = NoJob
                                    /\ Member(i, rec.deferred)'.of = rec.done[i]
  BY <1>1 DEF Tracked
<1>5. rec.used = UNION {Identity!Read(Member(i, rec.deferred)'.asked, rec.deferred) :
                          i \in 1 .. Len(rec.done)}
  <2>1. rec.used = UNION {Identity!Read(Member(i, rec.deferred).asked, rec.deferred) :
                            i \in 1 .. Len(rec.done)}
    BY DEF Tracked
  <2> QED BY <1>1, <2>1
<1>6. \A u \in rec.deferred :
        \/ \E i \in 1 .. Len(rec.done) : u \in Member(i, rec.deferred)'.asked
        \/ /\ Len(rec.done) < rec.limit
           /\ Member(Len(rec.done) + 1, rec.deferred)'.needs = NoJob
           /\ u \in Member(Len(rec.done) + 1, rec.deferred)'.asked
  BY <1>1, <1>2 DEF Tracked
<1> QED BY <1>0, <1>3, <1>4, <1>5, <1>6 DEF Tracked

\* A run that has not started a member.
LEMMA FreshTracked ==
  ASSUME NEW phase \in {"bind", "collect"}, NEW n \in 1 .. Len(Members)
  PROVE  /\ Tracked(Identity!Fresh(phase, n))
         /\ Identity!Fresh(phase, n).phase = phase /\ Identity!Fresh(phase, n).limit = n
<1> DEFINE rec == Identity!Fresh(phase, n)
<1>1. rec = [phase |-> phase, limit |-> n, done |-> <<>>, requests |-> 0, failures |-> 0,
             deferred |-> {}, used |-> {}, source |-> NoJob]
  BY DEF Identity!Fresh
<1> HIDE DEF rec
<1>2. rec \in CaptureRuns
  BY <1>1 DEF CaptureRuns
<1>3. Len(rec.done) = 0 /\ 1 .. 0 = {} /\ n >= 0
  BY <1>1
<1>4. rec.used = {} /\ rec.deferred = {} /\ rec.limit = n
  BY <1>1
<1>5. Tracked(rec)
  BY <1>2, <1>3, <1>4 DEF Tracked
<1> QED BY <1>1, <1>5 DEF rec

\* What a run did does not depend on its phase, its counts or what it writes.
LEMMA TrackedFields ==
  ASSUME NEW rec, Tracked(rec), NEW other \in CaptureRuns,
         other.limit = rec.limit, other.done = rec.done, other.deferred = rec.deferred,
         other.used = rec.used
  PROVE  Tracked(other)
BY DEF Tracked

LEMMA ResultsPersist ==
  ASSUME CacheInv, CacheInv', Grows, binding' = binding, bodies \subseteq bodies',
         NEW result, result.results \in Seq(Outcomes), Len(result.results) \in 1 .. Len(Members),
         Identity!Replays(result)
  PROVE  Identity!Replays(result)'
<1> DEFINE d == result.unavailable
           n == Len(result.results)
           steps == [i \in DOMAIN result.results |-> Member(i, d)]
           asked == UNION {steps[i].asked : i \in DOMAIN steps}
           later == [i \in DOMAIN result.results |-> Member(i, d)']
<1>1. DOMAIN result.results = 1 .. n /\ n \in Nat /\ n <= Len(Members)
  BY LenProperties
<1>2. /\ binding = n
      /\ \A i \in DOMAIN steps : steps[i].needs = NoJob /\ steps[i].of = result.results[i]
      /\ Identity!Read(asked, d) = result.used
      /\ asked \cap d = d
      /\ \A u \in result.used : metas[u] = "page" => u \in bodies
  BY DEF Identity!Replays, Member
<1>3. later = steps
  <2>1. ASSUME NEW i \in 1 .. n PROVE Member(i, d)' = Member(i, d)
    <3>1. Member(i, d).needs = NoJob
      BY <1>1, <1>2
    <3> QED BY <1>1, <3>1, MembersListed, MemberPersists
  <2> QED BY <1>1, <2>1
<1>4. \A u \in result.used : metas'[u] = "page" => u \in bodies'
  <2>1. result.used \subseteq Identity!Live
    BY <1>2 DEF Identity!Read
  <2> QED BY <2>1 DEF CacheInv
<1> HIDE DEF d, n
<1>5. (LET s == later
           a == UNION {s[i].asked : i \in DOMAIN s}
       IN  /\ binding' = n
           /\ \A i \in DOMAIN s : s[i].needs = NoJob /\ s[i].of = result.results[i]
           /\ Identity!Read(a, d) = result.used
           /\ a \cap d = d
           /\ \A u \in result.used : metas'[u] = "page" => u \in bodies')
  <2> HIDE DEF later, steps
  <2> QED BY <1>2, <1>3, <1>4
<1> QED BY <1>5 DEF Identity!Replays, Member, d, n, Identity!Read, Identity!Live

\* A step of a started run that does not bind; what it writes replays.
LEMMA StartedStep ==
  ASSUME CaptureInv, CacheInv', Grows, bodies \subseteq bodies', binding' = binding,
         \A result \in results' : \/ result \in results
                                  \/ /\ result.results \in Seq(Outcomes)
                                     /\ Len(result.results) \in 1 .. Len(Members)
                                     /\ Identity!Replays(result),
         NEW r \in Processes, run[r] # NoJob, NEW rec,
         run' = [run EXCEPT ![r] = rec],
         rec # NoJob => /\ Tracked(rec)'
                        /\ rec.limit = run[r].limit
                        /\ rec.phase = "bind" <=> run[r].phase = "bind"
                        /\ rec.phase = "meta" => rec.source \in bodies' \ Oversized
  PROVE  CaptureInv'
<1>1. DOMAIN run = Processes /\ DOMAIN run' = Processes
  BY DEF CaptureInv, RunsInv
<1>2. run'[r] = rec /\ \A p \in Processes : p # r => run'[p] = run[p]
  BY <1>1
<1>3. ASSUME NEW p \in Processes, NEW c, c = run'[p], c # NoJob
      PROVE  /\ Tracked(c)'
             /\ binding' = IF c.phase = "bind" THEN 0 ELSE c.limit
             /\ c.phase = "meta" => c.source \in bodies' \ Oversized
  <2>1. CASE p = r
    <3>1. binding = IF run[r].phase = "bind" THEN 0 ELSE run[r].limit
      BY DEF CaptureInv, RunsInv
    <3>2. c = rec
      BY <1>2, <1>3, <2>1
    <3> QED BY <1>3, <3>1, <3>2
  <2>2. CASE p # r
    <3>1. c = run[p]
      BY <1>2, <1>3, <2>2
    <3>2. /\ Tracked(c)
          /\ binding = IF c.phase = "bind" THEN 0 ELSE c.limit
          /\ c.phase = "meta" => c.source \in bodies \ Oversized
      BY <1>3, <3>1 DEF CaptureInv, RunsInv
    <3>3. Tracked(c)'
      BY <3>2, TrackedPersists DEF CaptureInv
    <3> QED BY <3>2, <3>3
  <2> QED BY <2>1, <2>2
<1>4. RunsInv'
  BY <1>1, <1>3 DEF RunsInv
<1>5. BindingInv'
  BY <1>2 DEF CaptureInv, BindingInv
<1>6. ResultsInv'
  <2> SUFFICES ASSUME NEW result \in results'
               PROVE  /\ (result.results \in Seq(Outcomes))' /\ Len(result.results) \in 1 .. Len(Members)
                      /\ Identity!Replays(result)'
    BY DEF ResultsInv
  <2>1. /\ result.results \in Seq(Outcomes) /\ Len(result.results) \in 1 .. Len(Members)
        /\ Identity!Replays(result)
    BY DEF CaptureInv, ResultsInv
  <2> QED BY <2>1, ResultsPersist DEF CaptureInv, Outcomes
<1> QED BY <1>4, <1>5, <1>6 DEF CaptureInv

\* Nothing but the runs changes.
LEMMA CacheKept ==
  ASSUME CacheInv, UNCHANGED <<bodies, metas>>
  PROVE  CacheInv' /\ Grows /\ bodies \subseteq bodies'
BY DEF CacheInv, Grows, Identity!Live

LEMMA CreateStep ==
  ASSUME CaptureInv, NEW r \in Processes, NEW n \in 1 .. Len(Members), Identity!Create(r, n)
  PROVE  CaptureInv'
<1> DEFINE rec == Identity!Fresh("bind", n)
<1>1. /\ binding = NoJob /\ binding' = 0 /\ run[r] = NoJob
      /\ run' = [run EXCEPT ![r] = rec] /\ UNCHANGED <<bodies, metas, results>>
  BY DEF Identity!Create, Identity!Start
<1> HIDE DEF rec
<1>2. CacheInv' /\ Grows
  BY <1>1, CacheKept DEF CaptureInv
<1>3. Tracked(rec) /\ rec.phase = "bind"
  BY FreshTracked DEF rec
<1>5. DOMAIN run' = Processes /\ \A p \in Processes : run'[p] = IF p = r THEN rec ELSE NoJob
  BY <1>1 DEF CaptureInv, RunsInv, BindingInv
<1>6. RunsInv'
  <2>1. ASSUME NEW p \in Processes, NEW c, c = run'[p], c # NoJob
        PROVE  Tracked(c)' /\ c.phase = "bind"
    <3>1. c = rec
      BY <1>5, <2>1
    <3> QED BY <1>2, <1>3, <3>1, TrackedPersists DEF CaptureInv
  <2> QED BY <1>1, <1>5, <2>1 DEF RunsInv
<1>7. BindingInv'
  BY <1>1, <1>5, SourcesAreUrls DEF BindingInv
<1>8. results = {}
  <2>1. ASSUME NEW result \in results PROVE FALSE
    <3>1. binding = Len(result.results) /\ Len(result.results) \in 1 .. Len(Members)
      BY DEF CaptureInv, ResultsInv, Identity!Replays
    <3> QED BY <1>1, <3>1, SourcesAreUrls, MembersListed
  <2> QED BY <2>1
<1>9. ResultsInv'
  BY <1>1, <1>8 DEF ResultsInv
<1> QED BY <1>2, <1>6, <1>7, <1>9 DEF CaptureInv

LEMMA ResumeStep ==
  ASSUME CaptureInv, NEW r \in Processes, NEW n \in 1 .. Len(Members), Identity!Resume(r, n)
  PROVE  CaptureInv'
<1> DEFINE rec == Identity!Fresh("collect", n)
<1>1. /\ binding = n /\ binding' = n /\ run[r] = NoJob
      /\ run' = [run EXCEPT ![r] = rec] /\ UNCHANGED <<bodies, metas, results>>
  BY DEF Identity!Resume, Identity!Start
<1> HIDE DEF rec
<1>2. CacheInv' /\ Grows /\ bodies \subseteq bodies'
  BY <1>1, CacheKept DEF CaptureInv
<1>3. Tracked(rec) /\ rec.phase = "collect" /\ rec.limit = n
  BY FreshTracked DEF rec
<1>4. ASSUME NEW p \in Processes, NEW c, c = run'[p], c # NoJob
      PROVE  /\ Tracked(c)'
             /\ binding' = IF c.phase = "bind" THEN 0 ELSE c.limit
             /\ c.phase = "meta" => c.source \in bodies' \ Oversized
  <2>1. /\ Tracked(c)
        /\ binding' = IF c.phase = "bind" THEN 0 ELSE c.limit
        /\ c.phase = "meta" => c.source \in bodies' \ Oversized
    <3>1. CASE p = r
      <4>1. c = rec
        BY <1>1, <1>4, <3>1 DEF CaptureInv, RunsInv
      <4> QED BY <1>1, <1>3, <4>1
    <3>2. CASE p # r
      <4>1. c = run[p]
        BY <1>1, <1>4, <3>2 DEF CaptureInv, RunsInv
      <4> QED BY <1>1, <1>4, <4>1 DEF CaptureInv, RunsInv
    <3> QED BY <3>1, <3>2
  <2>2. Tracked(c)'
    BY <1>2, <2>1, TrackedPersists DEF CaptureInv
  <2> QED BY <2>1, <2>2
<1>5. DOMAIN run' = Processes
  BY <1>1 DEF CaptureInv, RunsInv
<1>6. RunsInv'
  BY <1>4, <1>5 DEF RunsInv
<1>7. BindingInv'
  BY <1>1, SourcesAreUrls, MembersListed DEF BindingInv
<1>8. ResultsInv'
  <2> SUFFICES ASSUME NEW result \in results'
               PROVE  /\ (result.results \in Seq(Outcomes))' /\ Len(result.results) \in 1 .. Len(Members)
                      /\ Identity!Replays(result)'
    BY DEF ResultsInv
  <2>1. /\ result.results \in Seq(Outcomes) /\ Len(result.results) \in 1 .. Len(Members)
        /\ Identity!Replays(result)
    BY <1>1 DEF CaptureInv, ResultsInv
  <2> QED BY <1>1, <1>2, <2>1, ResultsPersist DEF CaptureInv, Outcomes
<1> QED BY <1>2, <1>6, <1>7, <1>8 DEF CaptureInv

LEMMA BindStep ==
  ASSUME CaptureInv, NEW r \in Processes, Identity!WriteBinding(r)
  PROVE  CaptureInv'
<1>1. PICK rec, old : old = run[r] /\ rec = [old EXCEPT !.phase = "collect"]
  OBVIOUS
<1>2. /\ old # NoJob /\ old.phase = "bind" /\ binding' = old.limit
      /\ run' = [run EXCEPT ![r] = rec] /\ UNCHANGED <<bodies, metas, results>>
  BY <1>1 DEF Identity!WriteBinding
<1>3. CacheInv' /\ Grows
  BY <1>2, CacheKept DEF CaptureInv
<1>4. Tracked(old) /\ binding = 0
  BY <1>1, <1>2 DEF CaptureInv, RunsInv
<1>5. old \in CaptureRuns
  BY <1>4 DEF Tracked
<1>6. /\ rec \in CaptureRuns /\ rec.phase = "collect" /\ rec.limit = old.limit
      /\ rec.done = old.done /\ rec.deferred = old.deferred /\ rec.used = old.used
  BY <1>1, <1>5 DEF CaptureRuns
<1>7. Tracked(rec)
  BY <1>4, <1>6, TrackedFields
<1>8. Tracked(rec)'
  BY <1>3, <1>7, TrackedPersists DEF CaptureInv
<1>9. DOMAIN run' = Processes /\ \A p \in Processes : run'[p] = IF p = r THEN rec ELSE NoJob
  <2>1. \A p \in Processes : p # r => run[p] = NoJob
    BY <1>1, <1>2, <1>4 DEF CaptureInv, BindingInv
  <2> QED BY <1>2, <2>1 DEF CaptureInv, RunsInv
<1>10. RunsInv'
  <2>1. ASSUME NEW p \in Processes, NEW c, c = run'[p], c # NoJob
        PROVE  /\ Tracked(c)'
               /\ c.phase = "collect" /\ c.limit = binding'
    <3>1. c = rec
      BY <1>9, <2>1
    <3> QED BY <1>2, <1>6, <1>8, <3>1
  <2> QED BY <1>9, <2>1 DEF RunsInv
<1>11. old.limit \in 1 .. Len(Members)
  BY <1>5 DEF CaptureRuns
<1>12. BindingInv'
  BY <1>2, <1>11, SourcesAreUrls, MembersListed DEF BindingInv
<1>13. results = {}
  <2>1. ASSUME NEW result \in results PROVE FALSE
    <3>1. binding = Len(result.results) /\ Len(result.results) \in 1 .. Len(Members)
      BY DEF CaptureInv, ResultsInv, Identity!Replays
    <3> QED BY <1>4, <3>1, MembersListed
  <2> QED BY <2>1
<1>14. ResultsInv'
  BY <1>2, <1>13 DEF ResultsInv
<1> QED BY <1>3, <1>10, <1>12, <1>14 DEF CaptureInv

\* A run that collects, the member that is next, and the source that it asks for.
LEMMA UpcomingIs ==
  ASSUME CaptureInv, NEW r \in Processes, Identity!Collecting(r), NEW old, old = run[r],
         NEW d, d = old.deferred, NEW k, k = Len(old.done) + 1
  PROVE  /\ old # NoJob /\ old.phase = "collect" /\ Tracked(old) /\ old \in CaptureRuns
         /\ Len(old.done) \in Nat /\ k \in 1 .. Len(Members) /\ k <= old.limit
         /\ Identity!Upcoming(r) = Member(k, d)
<1>1. old # NoJob /\ old.phase = "collect" /\ Len(old.done) < old.limit
  BY DEF Identity!Collecting
<1>2. Tracked(old)
  BY <1>1 DEF CaptureInv, RunsInv
<1>3. old \in CaptureRuns
  BY <1>2 DEF Tracked
<1>4. Len(old.done) \in Nat /\ old.limit \in 1 .. Len(Members)
  BY <1>3, LenProperties DEF CaptureRuns
<1>5. k \in 1 .. Len(Members) /\ k <= old.limit
  BY <1>1, <1>4, MembersListed
<1>6. Identity!Upcoming(r) = Member(k, d)
  BY DEF Identity!Upcoming, Member
<1> QED BY <1>1, <1>2, <1>3, <1>4, <1>5, <1>6

\* A member that asks, asks for a source of the cache that is not there; every failure
\* before it belongs to a settled member, which did not ask for that source.
LEMMA AskedFor ==
  ASSUME CacheInv, NEW k \in 1 .. Len(Members), NEW d, NEW u, u = Member(k, d).needs, u # NoJob
  PROVE  /\ u \in Identity!Live /\ metas[u] = NoJob /\ u \notin d /\ u \in Member(k, d).asked
         /\ Identity!Reading(d)[u] = NoJob
<1>1. Identity!Reading(d) \in Reads /\ Members[k].issuer \in DOMAIN Lists
  BY ReadingIs, MembersListed
<1>2. Keeps(Member(k, d), Identity!Reading(d))
  BY <1>1, CollectStage DEF Member
<1>3. u \in Identity!Urls /\ u \in Member(k, d).asked /\ Identity!Reading(d)[u] = NoJob
  BY <1>2 DEF Keeps
<1> QED BY <1>3, ReadingIs

\* One more failure changes no member that was settled without that source.
LEMMA MemberUnasked ==
  ASSUME CacheInv, NEW i \in 1 .. Len(Members), NEW d, NEW u \in Identity!Urls,
         Identity!Reading(d)[u] = NoJob, Member(i, d).needs = NoJob
  PROVE  Member(i, d \cup {u}) = Member(i, d) /\ u \notin Member(i, d).asked
<1> DEFINE read == Identity!Reading(d)
           other == Identity!Reading(d \cup {u})
<1>1. read \in Reads /\ other \in Reads /\ Members[i].issuer \in DOMAIN Lists
  BY ReadingIs, MembersListed
<1>2. \A v \in Identity!Urls : v # u => other[v] = read[v]
  BY DEF Identity!Reading
<1>3. read[u] = NoJob
  OBVIOUS
<1>4. Member(i, d) = Identity!Collect(Members[i], read) /\ Member(i, d \cup {u}) = Identity!Collect(Members[i], other)
  BY DEF Member
<1> HIDE DEF read, other
<1>5. Keeps(Member(i, d), read) /\ Follows(read, Member(i, d), other, Member(i, d \cup {u}))
  BY <1>1, <1>4, CollectStage
<1> QED BY <1>2, <1>3, <1>5 DEF Keeps, Follows

\* ... and settles the member that asked for it.
LEMMA MemberDeferred ==
  ASSUME CacheInv, NEW k \in 1 .. Len(Members), NEW d, NEW u \in Identity!Urls,
         u = Member(k, d).needs, u # NoJob
  PROVE  Member(k, d \cup {u}).needs = NoJob /\ u \in Member(k, d \cup {u}).asked
<1> DEFINE read == Identity!Reading(d)
           other == Identity!Reading(d \cup {u})
<1>1. read \in Reads /\ other \in Reads /\ Members[k].issuer \in DOMAIN Lists
  BY ReadingIs, MembersListed
<1>2. other = [read EXCEPT ![u] = "unavailable"]
  BY DEF Identity!Reading
<1>4. Member(k, d) = Identity!Collect(Members[k], read) /\ Member(k, d \cup {u}) = Identity!Collect(Members[k], other)
  BY DEF Member
<1> HIDE DEF read, other
<1>5. Keeps(Member(k, d), read) /\ Follows(read, Member(k, d), other, Member(k, d \cup {u}))
  BY <1>1, <1>4, CollectStage
<1> QED BY <1>2, <1>5 DEF Keeps, Follows, Settling

LEMMA AnsweredSourceStep ==
  ASSUME CaptureInv, NEW r \in Processes, Identity!Collecting(r), NEW u,
         u = Identity!Upcoming(r).needs, u # NoJob, Identity!Answered(r, u),
         UNCHANGED <<binding, results>>
  PROVE  CaptureInv'
<1>1. PICK old, d, k : old = run[r] /\ d = old.deferred /\ k = Len(old.done) + 1
  OBVIOUS
<1>2. /\ old # NoJob /\ old.phase = "collect" /\ Tracked(old) /\ old \in CaptureRuns
      /\ k \in 1 .. Len(Members) /\ u = Member(k, d).needs
  BY <1>1, UpcomingIs
<1>3. u \in Identity!Live /\ metas[u] = NoJob
  BY <1>2, AskedFor DEF CaptureInv
<1>4. u \in Identity!Urls
  BY <1>3 DEF Identity!Live
<1>5. CASE u \in Oversized
  <2>1. PICK rec : rec = [old EXCEPT !.requests = @ + 1]
    OBVIOUS
  <2>2. /\ metas' = [metas EXCEPT ![u] = "large"] /\ bodies' = bodies
        /\ run' = [run EXCEPT ![r] = rec]
    BY <1>1, <1>5, <2>1 DEF Identity!Answered
  <2>3. CacheInv' /\ Grows
    BY <1>3, <1>5, <2>2, SourcesAreUrls DEF CaptureInv, CacheInv, Grows, Identity!Live
  <2>4. /\ rec \in CaptureRuns /\ rec.phase = "collect" /\ rec.limit = old.limit
        /\ rec.done = old.done /\ rec.deferred = old.deferred /\ rec.used = old.used
    BY <1>2, <2>1 DEF CaptureRuns
  <2>5. Tracked(rec)
    BY <1>2, <2>4, TrackedFields
  <2>6. Tracked(rec)'
    BY <2>3, <2>5, TrackedPersists DEF CaptureInv
  <2>7. /\ binding' = binding /\ bodies \subseteq bodies' /\ run[r] # NoJob
        /\ \A result \in results' : result \in results
        /\ rec.limit = run[r].limit
        /\ rec.phase = "bind" <=> run[r].phase = "bind"
        /\ rec.phase = "meta" => rec.source \in bodies' \ Oversized
    BY <1>1, <1>2, <2>2, <2>4
  <2> QED BY <2>2, <2>3, <2>6, <2>7, StartedStep
<1>6. CASE u \notin Oversized
  <2>1. PICK rec : rec = [old EXCEPT !.requests = @ + 1, !.phase = "meta", !.source = u]
    OBVIOUS
  <2>2. /\ bodies' = bodies \cup {u} /\ metas' = metas
        /\ run' = [run EXCEPT ![r] = rec]
    BY <1>1, <1>6, <2>1 DEF Identity!Answered
  <2>3. CacheInv' /\ Grows
    BY <1>3, <2>2 DEF CaptureInv, CacheInv, Grows, Identity!Live
  <2>4. /\ rec \in CaptureRuns /\ rec.phase = "meta" /\ rec.limit = old.limit /\ rec.source = u
        /\ rec.done = old.done /\ rec.deferred = old.deferred /\ rec.used = old.used
    <3>1. old.requests + 1 \in Nat /\ u \in Identity!Urls \cup {NoJob}
      BY <1>2, <1>4 DEF CaptureRuns
    <3> DEFINE part == [old EXCEPT !.requests = old.requests + 1]
    <3>2. part \in CaptureRuns
      BY <1>2, <3>1 DEF CaptureRuns
    <3> DEFINE written == [part EXCEPT !.phase = "meta"]
    <3>3. written \in CaptureRuns
      BY <3>2 DEF CaptureRuns
    <3>4. rec = [written EXCEPT !.source = u]
      BY <1>2, <2>1 DEF CaptureRuns
    <3>5. rec \in CaptureRuns
      <4> HIDE DEF written
      <4> QED BY <3>1, <3>3, <3>4 DEF CaptureRuns
    <3> QED BY <1>2, <2>1, <3>5 DEF CaptureRuns
  <2>5. Tracked(rec)
    BY <1>2, <2>4, TrackedFields
  <2>6. Tracked(rec)'
    BY <2>3, <2>5, TrackedPersists DEF CaptureInv
  <2>7. /\ binding' = binding /\ bodies \subseteq bodies' /\ run[r] # NoJob
        /\ \A result \in results' : result \in results
        /\ rec.limit = run[r].limit
        /\ rec.phase = "bind" <=> run[r].phase = "bind"
        /\ rec.phase = "meta" => rec.source \in bodies' \ Oversized
    BY <1>1, <1>2, <1>6, <2>2, <2>4
  <2> QED BY <2>2, <2>3, <2>6, <2>7, StartedStep
<1> QED BY <1>5, <1>6

LEMMA DeferredStep ==
  ASSUME CaptureInv, NEW r \in Processes, Identity!Collecting(r), NEW u,
         u = Identity!Upcoming(r).needs, u # NoJob, NEW after \in BOOLEAN,
         Identity!Deferred(r, u, after), UNCHANGED <<binding, results>>
  PROVE  CaptureInv'
<1>1. PICK old, d, k : old = run[r] /\ d = old.deferred /\ k = Len(old.done) + 1
  OBVIOUS
<1>2. /\ old # NoJob /\ old.phase = "collect" /\ Tracked(old) /\ old \in CaptureRuns
      /\ Len(old.done) \in Nat
      /\ k \in 1 .. Len(Members) /\ k <= old.limit /\ u = Member(k, d).needs
  BY <1>1, UpcomingIs
<1>3. /\ u \in Identity!Live /\ Identity!Reading(d)[u] = NoJob /\ CacheInv
  BY <1>2, AskedFor DEF CaptureInv
<1>4. u \in Identity!Urls
  BY <1>3 DEF Identity!Live
<1>5. PICK rec : rec = [old EXCEPT !.requests = @ + 1, !.deferred = @ \cup {u},
                                   !.failures = IF after THEN CircuitLimit ELSE @ + 1]
  OBVIOUS
<1>6. UNCHANGED <<bodies, metas>> /\ run' = [run EXCEPT ![r] = rec]
  BY <1>1, <1>5 DEF Identity!Deferred
<1>7. CacheInv' /\ Grows /\ bodies \subseteq bodies'
  BY <1>3, <1>6, CacheKept
<1>8. CircuitLimit \in Nat
  BY StudiesAssumption DEF Identity!CaptureAssumption
<1>9. /\ rec.phase = "collect" /\ rec.limit = old.limit /\ rec.done = old.done
      /\ rec.used = old.used /\ rec.deferred = d \cup {u}
  BY <1>1, <1>2, <1>5 DEF CaptureRuns
<1>10. rec \in CaptureRuns
  <2>1. d \cup {u} \in SUBSET Identity!Live
    BY <1>1, <1>2, <1>3 DEF CaptureRuns
  <2>2. old.requests + 1 \in Nat /\ old.failures + 1 \in Nat
    BY <1>2 DEF CaptureRuns
  <2>3. PICK n \in Nat : n = IF after THEN CircuitLimit ELSE old.failures + 1
    BY <1>8, <2>2
  <2> DEFINE part == [old EXCEPT !.requests = old.requests + 1]
  <2>4. part \in CaptureRuns
    BY <1>2, <2>2 DEF CaptureRuns
  <2> DEFINE wider == [part EXCEPT !.deferred = d \cup {u}]
  <2>5. wider \in CaptureRuns
    <3> HIDE DEF part
    <3> QED BY <2>1, <2>4 DEF CaptureRuns
  <2>6. rec = [wider EXCEPT !.failures = n]
    BY <1>1, <1>2, <1>5, <2>3 DEF CaptureRuns
  <2> HIDE DEF wider
  <2> QED BY <2>3, <2>5, <2>6 DEF CaptureRuns
<1>11. ASSUME NEW i \in 1 .. Len(old.done)
       PROVE  /\ Member(i, d \cup {u}) = Member(i, d) /\ u \notin Member(i, d).asked
              /\ Member(i, d).needs = NoJob /\ Member(i, d).of = old.done[i]
  <2>1. Member(i, d).needs = NoJob /\ Member(i, d).of = old.done[i]
    BY <1>1, <1>2 DEF Tracked
  <2>2. i \in 1 .. Len(Members)
    BY <1>1, <1>2, MembersListed
  <2> QED BY <1>3, <1>4, <2>1, <2>2, MemberUnasked
<1>12. Member(k, d \cup {u}).needs = NoJob /\ u \in Member(k, d \cup {u}).asked
  BY <1>2, <1>3, <1>4, MemberDeferred
<1>13. rec.used = UNION {Identity!Read(Member(i, d \cup {u}).asked, d \cup {u}) :
                           i \in 1 .. Len(old.done)}
  <2>1. old.used = UNION {Identity!Read(Member(i, d).asked, d) : i \in 1 .. Len(old.done)}
    BY <1>1, <1>2 DEF Tracked
  <2>2. \A i \in 1 .. Len(old.done) :
          Identity!Read(Member(i, d \cup {u}).asked, d \cup {u}) = Identity!Read(Member(i, d).asked, d)
    BY <1>11 DEF Identity!Read
  <2>3. {Identity!Read(Member(i, d \cup {u}).asked, d \cup {u}) : i \in 1 .. Len(old.done)}
          = {Identity!Read(Member(i, d).asked, d) : i \in 1 .. Len(old.done)}
    BY <2>2
  <2> QED BY <1>9, <2>1, <2>3
<1>14. ASSUME NEW v \in d \cup {u}
       PROVE  \/ \E i \in 1 .. Len(old.done) : v \in Member(i, d \cup {u}).asked
              \/ /\ Len(old.done) < old.limit /\ Member(k, d \cup {u}).needs = NoJob
                 /\ v \in Member(k, d \cup {u}).asked
  <2>1. CASE v \in d
    <3>1. \E i \in 1 .. Len(old.done) : v \in Member(i, d).asked
      BY <1>1, <1>2, <2>1 DEF Tracked
    <3> QED BY <1>11, <3>1
  <2>2. CASE v = u
    <3>1. old.limit \in Nat
      BY <1>2, MembersListed DEF CaptureRuns
    <3> QED BY <1>1, <1>2, <1>12, <2>2, <3>1
  <2> QED BY <2>1, <2>2
<1>15. Tracked(rec)
  <2>1. Len(rec.done) <= rec.limit
    BY <1>2, <1>9 DEF Tracked
  <2>2. \A i \in 1 .. Len(rec.done) : /\ Member(i, rec.deferred).needs = NoJob
                                      /\ Member(i, rec.deferred).of = rec.done[i]
    BY <1>9, <1>11
  <2>3. \A v \in rec.deferred :
          \/ \E i \in 1 .. Len(rec.done) : v \in Member(i, rec.deferred).asked
          \/ /\ Len(rec.done) < rec.limit
             /\ Member(Len(rec.done) + 1, rec.deferred).needs = NoJob
             /\ v \in Member(Len(rec.done) + 1, rec.deferred).asked
    BY <1>1, <1>9, <1>14
  <2>4. rec.used = UNION {Identity!Read(Member(i, rec.deferred).asked, rec.deferred) :
                            i \in 1 .. Len(rec.done)}
    BY <1>9, <1>13
  <2> QED BY <1>10, <2>1, <2>2, <2>3, <2>4 DEF Tracked
<1>16. Tracked(rec)'
  BY <1>3, <1>7, <1>15, TrackedPersists
<1>17. /\ binding' = binding /\ bodies \subseteq bodies' /\ run[r] # NoJob
       /\ \A result \in results' : result \in results
       /\ rec.limit = run[r].limit
       /\ rec.phase = "bind" <=> run[r].phase = "bind"
       /\ rec.phase = "meta" => rec.source \in bodies' \ Oversized
  BY <1>1, <1>2, <1>7, <1>9
<1> QED BY <1>6, <1>7, <1>16, <1>17, StartedStep

LEMMA RequestStep ==
  ASSUME CaptureInv, NEW r \in Processes, Identity!Request(r)
  PROVE  CaptureInv'
<1>1. PICK u : u = Identity!Upcoming(r).needs
  OBVIOUS
<1>2. /\ Identity!Collecting(r) /\ u # NoJob /\ UNCHANGED <<binding, results>>
      /\ Identity!Answered(r, u) \/ \E after \in BOOLEAN : Identity!Deferred(r, u, after)
  BY <1>1 DEF Identity!Request, Identity!MayAsk
<1> QED BY <1>1, <1>2, AnsweredSourceStep, DeferredStep

LEMMA WriteMetaStep ==
  ASSUME CaptureInv, NEW r \in Processes, Identity!WriteMeta(r)
  PROVE  CaptureInv'
<1>1. PICK old, u : old = run[r] /\ u = old.source
  OBVIOUS
<1>2. PICK rec : rec = [old EXCEPT !.phase = "collect", !.source = NoJob, !.failures = 0]
  OBVIOUS
<1>3. /\ old # NoJob /\ old.phase = "meta" /\ metas' = [metas EXCEPT ![u] = "page"]
      /\ run' = [run EXCEPT ![r] = rec] /\ UNCHANGED <<binding, bodies, results>>
  BY <1>1, <1>2 DEF Identity!WriteMeta
<1>4. Tracked(old) /\ u \in bodies \ Oversized
  BY <1>1, <1>3 DEF CaptureInv, RunsInv
<1>5. old \in CaptureRuns
  BY <1>4 DEF Tracked
<1>6. CacheInv' /\ Grows /\ bodies \subseteq bodies'
  BY <1>3, <1>4 DEF CaptureInv, CacheInv, Grows, Identity!Live
<1>7. /\ rec \in CaptureRuns /\ rec.phase = "collect" /\ rec.limit = old.limit
      /\ rec.done = old.done /\ rec.deferred = old.deferred /\ rec.used = old.used
  BY <1>2, <1>5 DEF CaptureRuns
<1>8. Tracked(rec)
  BY <1>4, <1>7, TrackedFields
<1>9. Tracked(rec)'
  BY <1>6, <1>8, TrackedPersists DEF CaptureInv
<1>10. /\ binding' = binding /\ run[r] # NoJob
       /\ \A result \in results' : result \in results
       /\ rec.limit = run[r].limit
       /\ rec.phase = "bind" <=> run[r].phase = "bind"
       /\ rec.phase = "meta" => rec.source \in bodies' \ Oversized
  BY <1>1, <1>3, <1>7
<1> QED BY <1>3, <1>6, <1>9, <1>10, StartedStep

LEMMA FinishStep ==
  ASSUME CaptureInv, NEW r \in Processes, Identity!Finish(r)
  PROVE  CaptureInv'
<1>1. PICK old, d, k, step : /\ old = run[r] /\ d = old.deferred /\ k = Len(old.done) + 1
                             /\ step = Identity!Upcoming(r)
  OBVIOUS
<1>2. Identity!Collecting(r)
  BY DEF Identity!Finish
<1>3. /\ old # NoJob /\ old.phase = "collect" /\ Tracked(old) /\ old \in CaptureRuns
      /\ Len(old.done) \in Nat /\ k \in 1 .. Len(Members) /\ k <= old.limit
      /\ step = Member(k, d)
  BY <1>1, <1>2, UpcomingIs
<1>4. PICK more : more = [old EXCEPT !.done = Append(old.done, step.of),
                                     !.used = old.used \cup Identity!Read(step.asked, d)]
  OBVIOUS
<1>5. PICK rec : rec = IF old.failures >= CircuitLimit THEN NoJob ELSE more
  OBVIOUS
<1>6. /\ step.needs = NoJob /\ UNCHANGED <<binding, bodies, metas, results>>
      /\ run' = [run EXCEPT ![r] = rec]
  <2>1. /\ Identity!Upcoming(r).needs = NoJob /\ UNCHANGED <<binding, bodies, metas, results>>
        /\ run' = [run EXCEPT ![r] =
             IF run[r].failures >= CircuitLimit THEN NoJob
             ELSE [run[r] EXCEPT
                     !.done = Append(run[r].done, Identity!Upcoming(r).of),
                     !.used = run[r].used
                              \cup Identity!Read(Identity!Upcoming(r).asked, run[r].deferred)]]
    BY DEF Identity!Finish
  <2> QED BY <1>1, <1>4, <1>5, <2>1
<1>7. CacheInv /\ CacheInv' /\ Grows /\ bodies \subseteq bodies'
  BY <1>6, CacheKept DEF CaptureInv
<1>8. step.of \in Outcomes
  <2>1. Identity!Reading(d) \in Reads /\ k \in DOMAIN Members
    BY <1>3, <1>7, ReadingIs, MembersListed
  <2> QED BY <1>3, <2>1 DEF Outcomes, Member
<1>9. old.done \in Seq(Outcomes) /\ old.limit \in Nat
  BY <1>3, MembersListed DEF CaptureRuns
<1>10. /\ Append(old.done, step.of) \in Seq(Outcomes) /\ Len(Append(old.done, step.of)) = k
       /\ \A i \in 1 .. Len(old.done) : Append(old.done, step.of)[i] = old.done[i]
       /\ Append(old.done, step.of)[k] = step.of
  BY <1>1, <1>8, <1>9
<1>11. Identity!Read(step.asked, d) \in SUBSET Identity!Live
  BY DEF Identity!Read
<1>12. /\ more \in CaptureRuns /\ more.phase = "collect" /\ more.limit = old.limit
       /\ more.done = Append(old.done, step.of) /\ more.deferred = d
       /\ more.used = old.used \cup Identity!Read(step.asked, d)
  BY <1>1, <1>3, <1>4, <1>10, <1>11 DEF CaptureRuns
<1>13. \A i \in 1 .. k : i \in 1 .. Len(old.done) \/ i = k
  BY <1>1, <1>3
<1>14. \A i \in 1 .. k : /\ Member(i, d).needs = NoJob
                         /\ Member(i, d).of = Append(old.done, step.of)[i]
  BY <1>1, <1>3, <1>6, <1>10, <1>13 DEF Tracked
<1>15. more.used = UNION {Identity!Read(Member(i, d).asked, d) : i \in 1 .. k}
  <2>1. old.used = UNION {Identity!Read(Member(i, d).asked, d) : i \in 1 .. Len(old.done)}
    BY <1>1, <1>3 DEF Tracked
  <2>2. 1 .. k = 1 .. Len(old.done) \cup {k}
    BY <1>1, <1>3
  <2> QED BY <1>3, <1>12, <2>1, <2>2
<1>16. \A u \in d : \E i \in 1 .. k : u \in Member(i, d).asked
  <2>1. Len(old.done) \in Nat /\ 1 .. Len(old.done) \subseteq 1 .. k /\ k \in 1 .. k
    BY <1>1, <1>3
  <2> QED BY <1>1, <1>3, <2>1 DEF Tracked
<1>17. Tracked(more)
  <2>1. Len(more.done) = k /\ Len(more.done) <= more.limit
    BY <1>3, <1>10, <1>12
  <2>2. \A i \in 1 .. Len(more.done) : /\ Member(i, more.deferred).needs = NoJob
                                       /\ Member(i, more.deferred).of = more.done[i]
    BY <1>12, <1>14, <2>1
  <2>3. more.used = UNION {Identity!Read(Member(i, more.deferred).asked, more.deferred) :
                             i \in 1 .. Len(more.done)}
    BY <1>12, <1>15, <2>1
  <2>4. \A u \in more.deferred : \E i \in 1 .. Len(more.done) : u \in Member(i, more.deferred).asked
    BY <1>12, <1>16, <2>1
  <2> QED BY <1>12, <2>1, <2>2, <2>3, <2>4 DEF Tracked
<1>18. Tracked(more)'
  BY <1>7, <1>17, TrackedPersists
<1>19. /\ binding' = binding /\ run[r] # NoJob
       /\ \A result \in results' : result \in results
       /\ rec # NoJob => /\ Tracked(rec)'
                         /\ rec.limit = run[r].limit
                         /\ rec.phase = "bind" <=> run[r].phase = "bind"
                         /\ rec.phase = "meta" => rec.source \in bodies' \ Oversized
  <2>1. CASE rec = NoJob
    BY <1>1, <1>3, <1>6, <2>1
  <2>2. CASE rec # NoJob
    <3>1. rec = more
      BY <1>5, <2>2
    <3> QED BY <1>1, <1>3, <1>6, <1>12, <1>18, <3>1
  <2> QED BY <2>1, <2>2
<1> QED BY <1>6, <1>7, <1>19, StartedStep

LEMMA WriteResultStep ==
  ASSUME CaptureInv, NEW r \in Processes, Identity!WriteResult(r)
  PROVE  CaptureInv'
<1>1. PICK old, d, n : old = run[r] /\ d = old.deferred /\ n = Len(old.done)
  OBVIOUS
<1>2. PICK new : new = [results |-> old.done, used |-> old.used, unavailable |-> old.deferred]
  OBVIOUS
<1>3. /\ old # NoJob /\ old.phase = "collect" /\ n = old.limit
      /\ results' = results \cup {new} /\ run' = [run EXCEPT ![r] = NoJob]
      /\ UNCHANGED <<binding, bodies, metas>>
  BY <1>1, <1>2 DEF Identity!WriteResult
<1>4. Tracked(old) /\ binding = n
  BY <1>1, <1>3 DEF CaptureInv, RunsInv
<1>5. old \in CaptureRuns
  BY <1>4 DEF Tracked
<1>6. n \in 1 .. Len(Members) /\ old.done \in Seq(Outcomes) /\ DOMAIN old.done = 1 .. n
  BY <1>1, <1>3, <1>5, LenProperties DEF CaptureRuns
<1>7. CacheInv /\ CacheInv' /\ Grows /\ bodies \subseteq bodies'
  BY <1>3, CacheKept DEF CaptureInv
<1>8. \A i \in 1 .. n : Member(i, d).needs = NoJob /\ Member(i, d).of = old.done[i]
  BY <1>1, <1>4 DEF Tracked
<1> DEFINE asked == UNION {Member(i, d).asked : i \in 1 .. n}
<1>9. Identity!Read(asked, d) = old.used
  <2>1. old.used = UNION {Identity!Read(Member(i, d).asked, d) : i \in 1 .. n}
    BY <1>1, <1>4 DEF Tracked
  <2> QED BY <2>1 DEF Identity!Read
<1>10. asked \cap d = d
  <2>1. ~(n < old.limit)
    BY <1>3, <1>6, MembersListed
  <2> QED BY <1>1, <1>4, <2>1 DEF Tracked
<1>11. \A u \in old.used : metas[u] = "page" => u \in bodies
  BY <1>5, <1>7 DEF CaptureRuns, CacheInv
<1>12. Identity!Replays(new)
  <2> DEFINE steps == [i \in DOMAIN new.results |-> Identity!Collect(Members[i], Identity!Reading(new.unavailable))]
  <2>1. new.results = old.done /\ new.used = old.used /\ new.unavailable = d
    BY <1>1, <1>2
  <2>2. steps = [i \in 1 .. n |-> Member(i, d)]
    BY <1>6, <2>1 DEF Member
  <2>3. UNION {steps[i].asked : i \in DOMAIN steps} = asked
    BY <2>2
  <2>4. \A i \in DOMAIN steps : steps[i].needs = NoJob /\ steps[i].of = new.results[i]
    BY <1>8, <2>1, <2>2
  <2>5. binding = Len(new.results)
    BY <1>1, <1>4, <2>1
  <2> HIDE DEF asked
  <2> QED BY <1>9, <1>10, <1>11, <2>1, <2>3, <2>4, <2>5 DEF Identity!Replays
<1>13. /\ new.results \in Seq(Outcomes) /\ Len(new.results) \in 1 .. Len(Members)
  BY <1>1, <1>2, <1>6
<1> QED BY <1>1, <1>3, <1>7, <1>12, <1>13, StartedStep

LEMMA StopStep ==
  ASSUME CaptureInv, NEW r \in Processes, Identity!Stop(r)
  PROVE  CaptureInv'
<1>1. /\ run[r] # NoJob /\ run' = [run EXCEPT ![r] = NoJob]
      /\ UNCHANGED <<binding, bodies, metas, results>>
  BY DEF Identity!Stop
<1>2. CacheInv' /\ Grows /\ bodies \subseteq bodies'
  BY <1>1, CacheKept DEF CaptureInv
<1> QED BY <1>1, <1>2, StartedStep

LEMMA IdentityInit == Identity!Init => CaptureInv
<1> SUFFICES ASSUME Identity!Init PROVE CaptureInv
  OBVIOUS
<1>1. /\ binding = NoJob /\ bodies = {} /\ metas = [u \in Identity!Live |-> NoJob]
      /\ results = {} /\ run = [p \in Processes |-> NoJob]
  BY DEF Identity!Init
<1>2. CacheInv
  BY <1>1, SourcesAreUrls DEF CacheInv
<1>3. RunsInv
  BY <1>1 DEF RunsInv
<1>4. BindingInv
  BY <1>1 DEF BindingInv
<1>5. ResultsInv
  BY <1>1 DEF ResultsInv
<1> QED BY <1>2, <1>3, <1>4, <1>5 DEF CaptureInv

LEMMA IdentityStutter ==
  ASSUME CaptureInv, UNCHANGED Identity!vars
  PROVE  CaptureInv'
<1>1. UNCHANGED <<binding, bodies, metas, results, run>>
  BY DEF Identity!vars
<1>2. CacheInv' /\ Grows /\ bodies \subseteq bodies'
  BY <1>1, CacheKept DEF CaptureInv
<1>3. RunsInv'
  <2>1. ASSUME NEW p \in Processes, NEW c, c = run'[p], c # NoJob
        PROVE  /\ Tracked(c)'
               /\ binding' = IF c.phase = "bind" THEN 0 ELSE c.limit
               /\ c.phase = "meta" => c.source \in bodies' \ Oversized
    <3>1. c = run[p]
      BY <1>1, <2>1
    <3>2. /\ Tracked(c)
          /\ binding = IF c.phase = "bind" THEN 0 ELSE c.limit
          /\ c.phase = "meta" => c.source \in bodies \ Oversized
      BY <2>1, <3>1 DEF CaptureInv, RunsInv
    <3> QED BY <1>1, <1>2, <3>2, TrackedPersists DEF CaptureInv
  <2>2. DOMAIN run' = Processes
    BY <1>1 DEF CaptureInv, RunsInv
  <2> QED BY <2>1, <2>2 DEF RunsInv
<1>4. BindingInv'
  BY <1>1 DEF CaptureInv, BindingInv
<1>5. ResultsInv'
  <2> SUFFICES ASSUME NEW result \in results'
               PROVE  /\ (result.results \in Seq(Outcomes))' /\ Len(result.results) \in 1 .. Len(Members)
                      /\ Identity!Replays(result)'
    BY DEF ResultsInv
  <2>1. /\ result.results \in Seq(Outcomes) /\ Len(result.results) \in 1 .. Len(Members)
        /\ Identity!Replays(result)
    BY <1>1 DEF CaptureInv, ResultsInv
  <2> QED BY <1>1, <1>2, <2>1, ResultsPersist DEF CaptureInv, Outcomes
<1> QED BY <1>2, <1>3, <1>4, <1>5 DEF CaptureInv

LEMMA IdentityStep == CaptureInv /\ [Identity!Next]_(Identity!vars) => CaptureInv'
<1> SUFFICES ASSUME CaptureInv, [Identity!Next]_(Identity!vars) PROVE CaptureInv'
  OBVIOUS
<1>1. CASE UNCHANGED Identity!vars
  BY <1>1, IdentityStutter
<1>2. CASE Identity!Next
  <2>1. PICK r \in Processes :
          \/ \E n \in 1 .. Len(Members) : Identity!Create(r, n) \/ Identity!Resume(r, n)
          \/ Identity!WriteBinding(r) \/ Identity!Request(r) \/ Identity!WriteMeta(r)
          \/ Identity!Finish(r) \/ Identity!WriteResult(r) \/ Identity!Stop(r)
    BY <1>2 DEF Identity!Next
  <2>2. CASE \E n \in 1 .. Len(Members) : Identity!Create(r, n)
    BY <2>2, CreateStep
  <2>3. CASE \E n \in 1 .. Len(Members) : Identity!Resume(r, n)
    BY <2>3, ResumeStep
  <2>4. CASE Identity!WriteBinding(r)
    BY <2>4, BindStep
  <2>5. CASE Identity!Request(r)
    BY <2>5, RequestStep
  <2>6. CASE Identity!WriteMeta(r)
    BY <2>6, WriteMetaStep
  <2>7. CASE Identity!Finish(r)
    BY <2>7, FinishStep
  <2>8. CASE Identity!WriteResult(r)
    BY <2>8, WriteResultStep
  <2>9. CASE Identity!Stop(r)
    BY <2>9, StopStep
  <2> QED BY <2>1, <2>2, <2>3, <2>4, <2>5, <2>6, <2>7, <2>8, <2>9
<1> QED BY <1>1, <1>2

\* What a result says of a member is what its sources say, or that one was unavailable.
LEMMA ResultSettles == CaptureInv => ResultsHold
<1> SUFFICES ASSUME CaptureInv, NEW result \in results
             PROVE  /\ Identity!Replays(result)
                    /\ \A i \in DOMAIN result.results :
                         \/ result.results[i] = Identity!Settled(Members[i])
                         \/ result.results[i].status = "source_temporarily_unavailable"
  BY DEF ResultsHold, Identity!ResultsHold
<1>1. /\ result.results \in Seq(Outcomes) /\ Len(result.results) \in 1 .. Len(Members)
      /\ Identity!Replays(result) /\ CacheInv
  BY DEF CaptureInv, ResultsInv
<1>2. ASSUME NEW i \in DOMAIN result.results
      PROVE  \/ result.results[i] = Identity!Settled(Members[i])
             \/ result.results[i].status = "source_temporarily_unavailable"
  <2>1. PICK read : read = Identity!Reading(result.unavailable)
    OBVIOUS
  <2>2. /\ Identity!Collect(Members[i], read).needs = NoJob
        /\ Identity!Collect(Members[i], read).of = result.results[i]
    BY <1>1, <2>1 DEF Identity!Replays
  <2>3. Members[i].issuer \in DOMAIN Lists
    <3>1. i \in 1 .. Len(Members)
      BY <1>1, LenProperties, MembersListed
    <3> QED BY <3>1, MembersListed
  <2>4. /\ read \in Reads
        /\ \A u \in Identity!Urls : /\ read[u] = "large" => u \in Oversized
                                    /\ read[u] = "page" => u \notin Oversized
    BY <1>1, <2>1, ReadingIs
  <2> QED BY <2>2, <2>3, <2>4, StepSettles
<1> QED BY <1>1, <1>2

\* Whatever was interrupted, deferred, resumed or run beside it, a written result of
\* resolve_historical_security_identity replays from its directory, and no failure of a
\* source gives a member another identity.
THEOREM CapturesHold == Identity!Spec => []ResultsHold
<1>1. Identity!Init => CaptureInv
  BY IdentityInit
<1>2. CaptureInv /\ [Identity!Next]_(Identity!vars) => CaptureInv'
  BY IdentityStep
<1>3. CaptureInv => ResultsHold
  BY ResultSettles
<1> QED BY <1>1, <1>2, <1>3, PTL DEF Identity!Spec
=============================================================================
