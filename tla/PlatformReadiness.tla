-------------------------- MODULE PlatformReadiness --------------------------
(***************************************************************************)
(* The readiness gates and their composition.  An operator runs provider   *)
(* controls and seals a packet of their results; the operator gate decides *)
(* from the packet and the clock, the release gate from the bundle and its *)
(* provenance; build_platform_readiness composes them with the copilot's   *)
(* and the drift gate's reports into one file that is never replaced.      *)
(* A report stands for its hash.                                           *)
(***************************************************************************)
EXTENDS Integers, FiniteSets

CONSTANTS
  Checks,     \* identifiers of the provider checks
  Required,   \* PROVIDER_EVIDENCE_PROFILES of the selected profile
  Manifests,  \* what data-provenance.json may hold
  Outcomes,   \* what the other two gates may report
  Builders,   \* processes that build the platform report
  Second,     \* ticks in a second: a timestamp is finer than an age
  MaxAge,     \* seconds
  Skew,       \* ticks by which a provider's clock may be ahead
  MaxTime     \* bound: the clock stops there

\* What an instance must satisfy; the MC modules assume it.
ReadinessAssumption ==
  /\ Required \subseteq Checks /\ Second \in Nat \ {0} /\ {MaxAge, Skew, MaxTime} \subseteq Nat
  /\ Outcomes \subseteq {"ready", "review_required", "blocked", "stale", "missing"}

VARIABLES
  now,
  packet,    \* the sealed packet, or Missing
  operator,  \* the operator gate's report, or Missing
  manifest,  \* [status, legal, reviewed, sources]: sources holds their statuses
  release,   \* the release gate's report, or Missing
  others,    \* status of the copilot's and of the drift gate's report
  builder,   \* [pc, report] of each builder
  file       \* the platform report, or Missing

vars == <<now, packet, operator, manifest, release, others, builder, file>>
gates == <<packet, operator, manifest, release, others>>

Missing == [status |-> "missing"]
OTHERS  == {"research_copilot", "prospective_drift"}

-----------------------------------------------------------------------------
(* The operator gate                                                       *)

\* age_seconds: int() of a time difference cuts its fraction.
Age(check, at) == IF at >= check.at THEN (at - check.at) \div Second
                                    ELSE 0 - ((check.at - at) \div Second)

FreshFuture(check, at) ==  \* mutant: an observation from the future is fresh
  at - check.at <= MaxAge * Second

Fresh(check, at) == at >= check.at /\ at - check.at <= MaxAge * Second

\* operator_readiness, for one required check
Verdict(p, c, at) ==
  IF c \notin DOMAIN p.checks THEN "blocked"
  ELSE IF p.checks[c].status # "passed" \/ Age(p.checks[c], at) < 0 THEN "blocked"
  ELSE IF ~Fresh(p.checks[c], at) THEN "stale" ELSE "ready"

\* blocked before stale before ready (review_required for the other gates)
Worst(verdicts) == IF verdicts \cap {"blocked", "stale", "missing"} # {} THEN
                     IF verdicts \cap {"blocked", "missing"} # {} THEN "blocked" ELSE "stale"
                   ELSE IF "review_required" \in verdicts THEN "review_required" ELSE "ready"

OperatorReport(p, at) ==
  [status |-> Worst({Verdict(p, c, at) : c \in Required}), at |-> at, packet |-> p]

\* verify_operator_readiness_report, which sees ages in whole seconds only
OperatorVerifies(p, at) ==
  /\ at >= p.captured
  /\ \A c \in Required \cap DOMAIN p.checks :
       Fresh(p.checks[c], at) <=> Age(p.checks[c], at) \in 0 .. MaxAge

-----------------------------------------------------------------------------
(* The release gate                                                        *)

\* validate_public_bundle, of the review
BundleErrors(m) ==
  {e \in {"approval", "pending", "sources"} :
     \/ e = "approval" /\ m.status = "approved" /\ ~(m.legal /\ m.reviewed)
     \/ e = "pending" /\ m.status = "operator_review_required" /\ m.legal
     \/ e = "sources" /\ m.sources = {}}

\* _review_state
Approved(m) == m.status = "approved" /\ m.legal /\ m.reviewed /\ m.sources = {"approved"}

ReviewReasons(m) ==
  IF Approved(m) THEN {}
  ELSE {r \in {"redistribution_review_pending", "source_terms_review_pending"} :
          \/ r = "redistribution_review_pending" /\ m.status # "approved"
          \/ r = "source_terms_review_pending" /\ m.sources \ {"approved"} # {}}

ReleaseReport(m) ==
  [manifest |-> m,
   status |-> IF BundleErrors(m) # {} THEN "blocked"
              ELSE IF ReviewReasons(m) # {} THEN "review_required" ELSE "ready"]

\* verify_public_release_readiness: the status against the reasons the report gives
ReleaseVerifies(r) ==
  /\ r.status = "blocked" <=> BundleErrors(r.manifest) # {}
  /\ r.status = "review_required" => ReviewReasons(r.manifest) # {}
  /\ r.status = "ready" => ReviewReasons(r.manifest) = {}

-----------------------------------------------------------------------------
(* The composition                                                         *)

\* build_platform_readiness
Platform(o, r, s) ==
  [status |-> IF Worst({o.status, r.status} \cup {s[k] : k \in OTHERS}) = "stale" THEN "blocked"
              ELSE Worst({o.status, r.status} \cup {s[k] : k \in OTHERS}),
   operator |-> o, release |-> r, others |-> s]

\* verify_platform_readiness derives the status again from those of the controls.
PlatformVerifies(report) ==
  LET controls == {report.operator.status, report.release.status} \cup {report.others[k] : k \in OTHERS}
      blocking == controls \cap {"missing", "blocked", "stale"}
  IN  /\ report.status = "blocked" <=> blocking # {}
      /\ report.status = "review_required" <=> blocking = {} /\ "review_required" \in controls

Init ==
  /\ now = 1 /\ packet = Missing /\ operator = Missing
  /\ manifest \in Manifests /\ release = Missing /\ others = [k \in OTHERS |-> "missing"]
  /\ builder = [b \in Builders |-> [pc |-> "idle"]] /\ file = Missing

\* prepare_operator_evidence_packet, of a draft that covers its scope
Seal(checks) ==
  /\ DOMAIN checks # {}
  /\ packet' = [status |-> "sealed", checks |-> checks, captured |-> now]
  /\ UNCHANGED <<now, operator, manifest, release, others, builder, file>>

\* build_operator_readiness_report: it raises when the report does not verify.
Evaluate ==
  /\ packet # Missing /\ OperatorVerifies(packet, now)
  /\ operator' = OperatorReport(packet, now)
  /\ UNCHANGED <<now, packet, manifest, release, others, builder, file>>

EditManifest(m) ==
  /\ manifest' = m
  /\ UNCHANGED <<now, packet, operator, release, others, builder, file>>

\* build_public_release_readiness, which raises in the same way
Release ==
  /\ ReleaseVerifies(ReleaseReport(manifest))
  /\ release' = ReleaseReport(manifest)
  /\ UNCHANGED <<now, packet, operator, manifest, others, builder, file>>

OtherGate(k, status) ==
  /\ others' = [others EXCEPT ![k] = status]
  /\ UNCHANGED <<now, packet, operator, manifest, release, builder, file>>

\* build_from_paths verifies each report it loads and the one it builds; then the first
\* look at the output.
Compose(b) ==
  /\ builder[b].pc = "idle" /\ file = Missing
  /\ operator # Missing => OperatorVerifies(operator.packet, operator.at)
  /\ release # Missing => ReleaseVerifies(release)
  /\ PlatformVerifies(Platform(operator, release, others))
  /\ builder' = [builder EXCEPT ![b] = [pc |-> "link", report |-> Platform(operator, release, others)]]
  /\ UNCHANGED <<now, gates, file>>

\* _write_immutable: os.link fails when the output exists.
Publish(b) ==
  /\ builder[b].pc = "link"
  /\ file' = IF file = Missing THEN builder[b].report ELSE file
  /\ builder' = [builder EXCEPT ![b] = [pc |-> "idle"]]
  /\ UNCHANGED <<now, gates>>

Tick == now < MaxTime /\ now' = now + 1 /\ UNCHANGED <<gates, builder, file>>

Next ==
  \/ \E scope \in SUBSET Checks :
       \E checks \in [scope -> [status : {"passed", "failed"}, at : 1 .. now + Skew]] : Seal(checks)
  \/ Evaluate \/ Release \/ Tick
  \/ \E m \in Manifests : EditManifest(m)
  \/ \E k \in OTHERS, s \in Outcomes : OtherGate(k, s)
  \/ \E b \in Builders : Compose(b) \/ Publish(b)

Spec == Init /\ [][Next]_vars

-----------------------------------------------------------------------------
(* Properties                                                              *)

\* Reports are made of what their gates read, and carry a status of theirs.
TypeOK ==
  /\ now \in 1 .. MaxTime
  /\ packet = Missing \/ packet.captured <= now
  /\ operator = Missing \/ (operator.status \in {"ready", "stale", "blocked"} /\ operator.at <= now)
  /\ release = Missing \/ release.status \in {"ready", "review_required", "blocked"}
  /\ file.status \in {"missing", "ready", "review_required", "blocked"}

\* A platform that is ready had every gate ready; each required provider check had
\* passed, not after the moment it was judged at and not longer before it than allowed;
\* and the release was approved by every source and by the review.
ReadyIsBacked ==
  file.status = "ready" =>
    /\ \A k \in OTHERS : file.others[k] = "ready"
    /\ file.operator.status = "ready" /\ file.release.status = "ready"
    /\ \A c \in Required :
         /\ c \in DOMAIN file.operator.packet.checks
         /\ LET check == file.operator.packet.checks[c]
            IN  check.status = "passed" /\ file.operator.at - check.at \in 0 .. MaxAge * Second

\* The release gate looks at approval in two validators, neither of which is enough: what
\* it calls ready is approved by the review, dated, legally approved, source by source.
ReleaseIsApproved == release.status = "ready" => Approved(release.manifest)

\* "old otherwise passed evidence returns `stale`"; an evaluation of a sealed packet
\* always reports.
StaleIsReported == packet # Missing => OperatorVerifies(packet, now)
=============================================================================
