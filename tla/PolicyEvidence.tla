--------------------------- MODULE PolicyEvidence ---------------------------
(***************************************************************************)
(* The paired XBRL study: two datasets of one source that should differ by   *)
(* the fact policy alone, the input audit that compares them (policy_delta), *)
(* the review of the selections made on them (policy_outcome), and the audit *)
(* of the saved files (policy_evidence).  Datasets and reports are created   *)
(* once; a selection directory is rewritten in place.  A digest is the       *)
(* content it is of, an identity is what the code puts into it.              *)
(***************************************************************************)
EXTENDS Naturals, FiniteSets

CONSTANTS Contents,         \* datasets that may be built: [policy, source, runtime, rows, inputs, facts]
          Configs,          \* research configurations but for the policy
          MaxSelections, MaxInputs, MaxOutcomes,   \* bounds
          None

VARIABLES built,            \* dataset directories
          selections,       \* dataset identity -> walk-forward-selection.json with its archive
          selected,         \* selections made
          inputs, outcomes, \* policy-delta and policy-outcome reports
          audit             \* the audit's files, its phase and its verdict

vars == <<built, selections, selected, inputs, outcomes, audit>>

Legacy  == "legacy_v1"
Revised == "duration_aware_v2"

(* dataset_id: the source manifest, the configuration and the runtimes; not  *)
(* the rows that were built.                                                 *)
Identity(d) == <<d.policy, d.source, d.runtime>>
Identities  == {Identity(d) : d \in Contents}

PolicyAssumption ==
  \A d \in Contents :
    /\ d = [policy |-> d.policy, source |-> d.source, runtime |-> d.runtime,
            rows |-> d.rows, inputs |-> d.inputs, facts |-> d.facts]
    /\ d.policy \in {Legacy, Revised}

Init ==
  /\ built = {}
  /\ selections = [i \in Identities |-> None] /\ selected = 0
  /\ inputs = {} /\ outcomes = {}
  /\ audit = None

Build(d) ==
  /\ d \notin built
  /\ built' = built \cup {d}
  /\ UNCHANGED <<selections, selected, inputs, outcomes, audit>>

(* walk-forward-study on a dataset: the directory is named by its identity.  *)
Select(d, config) ==
  /\ d \in built /\ selected < MaxSelections
  /\ selected' = selected + 1
  /\ selections' = [selections EXCEPT ![Identity(d)] =
                      [of |-> Identity(d), config |-> config, scores |-> <<d, config>>]]
  /\ UNCHANGED <<built, inputs, outcomes, audit>>

-----------------------------------------------------------------------------
(* compare_feature_policies: the status of a pair.                           *)
Status(b, c) ==
  LET comparable == b.source = c.source /\ b.rows = c.rows
      unchanged  == b.runtime = c.runtime /\ b.inputs = c.inputs
  IN CASE ~comparable -> "not_comparable"
       [] comparable /\ unchanged /\ b.facts # c.facts -> "isolated_policy_change"
       [] comparable /\ unchanged /\ b.facts = c.facts -> "no_observed_fundamental_change"
       [] comparable /\ ~unchanged -> "confounded"

(* verify_feature_policy_report: the status is the one its flags imply.      *)
InputAccepted(i) == i.status = Status(i.baseline, i.candidate)

Compare(b, c) ==
  /\ {b, c} \subseteq built /\ Identity(b) # Identity(c)
  /\ b.policy = Legacy /\ c.policy = Revised
  /\ Cardinality(inputs) < MaxInputs
  /\ inputs' = inputs \cup {[baseline |-> b, candidate |-> c, status |-> Status(b, c)]}
  /\ UNCHANGED <<built, selections, selected, outcomes, audit>>

(* _load_selection: the identity, the archive and its metrics; the metrics   *)
(* follow from the scores and the labels, so the inputs do not tell.         *)
Loads(d, s) == s # None /\ s.of = Identity(d) /\ s.scores[1].rows = d.rows

(* verify_policy_outcome_report: two identities, and an interval for each    *)
(* model, which a short calendar does not give.                              *)
OutcomeAccepted(o) == Identity(o.baseline) # Identity(o.candidate) /\ o.intervals = "ready"

(* Text and market experts see no facts: their scores must be the same.      *)
Controls(s, t) ==
  IF s.scores[1].inputs = t.scores[1].inputs
  THEN "pretest_development_only" ELSE "runtime_control_mismatch"

(* review_policy_outcomes, which writes only what its verifier accepts.      *)
Review(b, c, i, intervals) ==
  LET s == selections[Identity(b)] t == selections[Identity(c)]
      o == [input |-> i, baseline |-> b, candidate |-> c, selections |-> <<s, t>>,
            intervals |-> intervals, status |-> Controls(s, t)]
  IN /\ {b, c} \subseteq built /\ i \in inputs /\ Cardinality(outcomes) < MaxOutcomes
     /\ InputAccepted(i) /\ i.status = "isolated_policy_change"
     /\ i.baseline = b /\ i.candidate = c
     /\ Loads(b, s) /\ Loads(c, t) /\ s.config = t.config
     /\ OutcomeAccepted(o)
     /\ outcomes' = outcomes \cup {o}
     /\ UNCHANGED <<built, selections, selected, inputs, audit>>

-----------------------------------------------------------------------------
(* audit_saved_policy_evidence                                               *)

(* Mutant: a dataset is linked by its identity.                              *)
LinkedByIdentity(b, c, i, o) ==
  /\ Identity(i.baseline) = Identity(b) /\ Identity(o.baseline) = Identity(b)
  /\ Identity(i.candidate) = Identity(c) /\ Identity(o.candidate) = Identity(c)
(* baseline_manifest_links, candidate_manifest_links                         *)
Linked(b, c, i, o) ==
  /\ i.baseline = b /\ o.baseline = b
  /\ i.candidate = c /\ o.candidate = c

(* The metadata: each report by its contract and hash, shared source and     *)
(* runtimes, policies, and the selections that the outcome reports.          *)
Metadata(f) ==
  /\ InputAccepted(f.input) /\ OutcomeAccepted(f.outcome)
  /\ f.input.status = "isolated_policy_change" /\ f.outcome.input = f.input
  /\ Linked(f.baseline, f.candidate, f.input, f.outcome)
  /\ f.baseline.source = f.candidate.source /\ f.baseline.runtime = f.candidate.runtime
  /\ f.baseline.policy = Legacy /\ f.candidate.policy = Revised
  /\ f.selections = f.outcome.selections
  /\ f.selections[1].config = f.selections[2].config

(* The operator names the files; the JSON files are read first.              *)
AuditReads(b, c, i, o) ==
  LET f == [baseline |-> b, candidate |-> c, input |-> i, outcome |-> o,
            selections |-> <<selections[Identity(b)], selections[Identity(c)]>>]
  IN /\ {b, c} \subseteq built /\ i \in inputs /\ o \in outcomes
     /\ audit = None /\ None \notin {f.selections[1], f.selections[2]}
     /\ audit' = [files |-> f, status |-> IF Metadata(f) THEN "metadata" ELSE "blocked"]
     /\ UNCHANGED <<built, selections, selected, inputs, outcomes>>

(* The arrays are hashed only after that; a selection may be another by then. *)
AuditHashes ==
  LET f == audit.files
      archive(d) == selections[Identity(d)].scores
  IN /\ audit # None /\ audit.status = "metadata"
     /\ audit' = [audit EXCEPT !.status =
          IF /\ archive(f.baseline) = f.selections[1].scores
             /\ archive(f.candidate) = f.selections[2].scores
          THEN "content_bound_only" ELSE "blocked"]
     /\ UNCHANGED <<built, selections, selected, inputs, outcomes>>

Next ==
  \/ \E d \in Contents : Build(d) \/ \E config \in Configs : Select(d, config)
  \/ \E b, c \in Contents :
       \/ Compare(b, c)
       \/ \E i \in inputs, intervals \in {"ready", "insufficient_calendar_months"} :
            Review(b, c, i, intervals)
       \/ \E i \in inputs, o \in outcomes : AuditReads(b, c, i, o)
  \/ AuditHashes

Spec == Init /\ [][Next]_vars

-----------------------------------------------------------------------------
(* Bound content is of one comparison: the two datasets that the audit was   *)
(* given, of one source and one runtime, differ in their facts alone, and    *)
(* the outcome it binds was computed from them and from these selections, of *)
(* one configuration, whose labels are theirs; when its controls agree, they *)
(* saw the same inputs too.                                                  *)
BoundIsOneComparison ==
  audit # None /\ audit.status = "content_bound_only" =>
    LET f == audit.files
    IN /\ f.candidate = [f.baseline EXCEPT !.policy = Revised, !.facts = f.candidate.facts]
       /\ f.candidate.facts # f.baseline.facts
       /\ f.outcome.baseline = f.baseline /\ f.outcome.candidate = f.candidate
       /\ f.outcome.selections = f.selections
       /\ \A s \in {f.selections[1], f.selections[2]} :
            /\ s.config = f.selections[1].config
            /\ s.scores[1].rows = f.baseline.rows
       /\ f.outcome.status = "pretest_development_only" =>
            f.selections[1].scores[1].inputs = f.selections[2].scores[1].inputs
=============================================================================
