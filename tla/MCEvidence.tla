----------------------------- MODULE MCEvidence -----------------------------
(* Evidence after it is written: the checkpoint of RefreshCheckpoint, a       *)
(* repair of the mirror by two hosts, an audit of the mirror, the platform    *)
(* gates and the research drift gate.  They share no state, so `focus` picks  *)
(* the one that moves in a behaviour.  Two downloads of a filing differ in    *)
(* their bytes but not in their size, a legacy body may differ in both.       *)
EXTENDS RefreshCheckpoint, TLC

CONSTANTS
  q1, q2, b1, b2, old, small,  \* model values
  Runs, Hosts, NoHost, StaleAfter, FailedRunWindow,
  EvidenceTime, MaxFaults, MaxRot, MaxRepairs, MaxAudits,    \* bounds of the repair
  Checks, Required, Manifests, Outcomes, Builders, Second, MaxAge, Skew,
  PlatformTime,                                              \* bound of the gates
  Datasets, Frozen, Models, Paths, Rows, MissingDelta, Minima, NotSupplied

VARIABLES
  focus,
  evidenceNow, status, started, step, at, direct, local, mirror, refs, rec, aud, faults, faulty, passes,
  now, packet, operator, provenance, release, others, builder, output,
  file, history, readiness

evidenceVars == <<evidenceNow, status, started, step, at, direct, local, mirror, refs, rec, aud, faults,
                  faulty, passes>>
platformVars == <<now, packet, operator, provenance, release, others, builder, output>>
driftVars == <<file, history, readiness>>

MCFetched == {b1, b2}
MCLegacy == {old, small}
MCSizeOf == [b \in {b1, b2, old, small, Damaged} |-> IF b = small THEN 1 ELSE 2]

-----------------------------------------------------------------------------
(* Two runs that write evidence, the second perhaps without a local store     *)

Evidence == INSTANCE EvidenceRepair WITH
  now <- evidenceNow, rotten <- faulty, MaxTime <- EvidenceTime

\* One repair on two hosts, of local references; or one audit at a time when runs are
\* stale, failed lately or failed long ago, the second run without a local store.
Repairing == passes.aud = 0 /\ evidenceNow = 0 /\ direct = {}
Auditing  == /\ passes.rec = 0 /\ faults <= 1
             /\ \A r \in Runs : at[r] # "h2" /\ (at[r] = "h1" => (r \in direct <=> r = "r2"))

-----------------------------------------------------------------------------
(* Half seconds: one required check before, at and after its age, from a      *)
(* clock that may be ahead                                                    *)

Approved == [status |-> "approved", legal |-> TRUE, reviewed |-> TRUE, sources |-> {"approved"}]

Platform == INSTANCE PlatformReadiness WITH
  manifest <- provenance, file <- output, MaxTime <- PlatformTime

\* Manifests that miss one part of an approval.
SomeManifests ==
  {Approved, [Approved EXCEPT !.reviewed = FALSE], [Approved EXCEPT !.legal = FALSE],
   [Approved EXCEPT !.sources = {}],
   [Approved EXCEPT !.sources = @ \cup {"operator_review_required"}],
   [Approved EXCEPT !.status = "operator_review_required"]}

\* The gates as time passes, or every manifest at one moment.
Ageing    == provenance = Approved
Releasing == now = 1 /\ \A c \in Checks : packet # Platform!Missing /\ c \in DOMAIN packet.checks => packet.checks[c].at = 1

-----------------------------------------------------------------------------
(* The frozen dataset and later ones that differ in each way                  *)

Same    == [b |-> 2, p |-> 2, shifted |-> FALSE]
Shifted == [b |-> 2, p |-> 2, shifted |-> TRUE]
Lost    == [b |-> 2, p |-> 0, shifted |-> FALSE]
Never   == [b |-> 0, p |-> 0, shifted |-> FALSE]

Matrix(columns, names) == [columns |-> columns, dims |-> TRUE, names |-> names]

Dataset(id, asOf, features, components) ==
  [id |-> id, asOf |-> asOf, policy |-> "filed", features |-> features, components |-> components]

FrozenSet == Dataset(1, 1, {Matrix({Same}, TRUE)}, {Same})

LaterSets ==
  {Dataset(2, 2, {Matrix({Lost, Never}, TRUE)}, {Same}),
   Dataset(3, 3, {Matrix({Same}, FALSE)}, {Same}),
   Dataset(4, 4, {Matrix({Same, Never}, TRUE)}, {}),
   Dataset(5, 0, {Matrix({Same}, TRUE)}, {Same}),
   [Dataset(6, 3, {Matrix({Same}, TRUE)}, {Same}) EXCEPT !.policy = "original"],
   Dataset(7, 4, {[Matrix({Same, Shifted}, TRUE) EXCEPT !.dims = FALSE]}, {Same})}

AllSets == {FrozenSet} \cup LaterSets
Nothing == {}

Drift == INSTANCE DriftEvidence

ASSUME EvidenceAssumption ==
  Evidence!RepairAssumption /\ Platform!ReadinessAssumption /\ Drift!DriftAssumption

-----------------------------------------------------------------------------
(* The composition                                                            *)

MCInit ==
  /\ Init /\ Evidence!Init /\ Platform!Init /\ Drift!Init
  /\ focus \in {"refresh", "mirror", "audit", "platform", "release", "drift"}
  /\ focus # "release" => Ageing
  /\ focus # "refresh" => \A d \in Docs : cache[d] = None

MCNext ==
  /\ \/ focus = "refresh" /\ Next /\ UNCHANGED <<evidenceVars, platformVars, driftVars>>
     \/ focus = "mirror" /\ Evidence!Next /\ Repairing' /\ UNCHANGED <<vars, platformVars, driftVars>>
     \/ focus = "audit" /\ Evidence!Next /\ Auditing' /\ UNCHANGED <<vars, platformVars, driftVars>>
     \/ focus = "platform" /\ Platform!Next /\ Ageing' /\ UNCHANGED <<vars, evidenceVars, driftVars>>
     \/ focus = "release" /\ Platform!Next /\ Releasing' /\ UNCHANGED <<vars, evidenceVars, driftVars>>
     \/ focus = "drift" /\ Drift!Next /\ UNCHANGED <<vars, evidenceVars, platformVars>>
  /\ UNCHANGED focus

MCSpec == MCInit /\ [][MCNext]_<<vars, evidenceVars, platformVars, driftVars, focus>>

\* The platform gates alone.
StaleSpec ==
  /\ MCInit /\ focus = "platform"
  /\ [][MCNext]_<<vars, evidenceVars, platformVars, driftVars, focus>>

Symmetry == Permutations({q1, q2})

\* A platform report is looked at when it is written; what follows adds nothing.
UntilPublished == output = Platform!Missing

-----------------------------------------------------------------------------
(* Properties                                                                 *)

\* A repair that reports "passed" has every reference it listed in the mirror, right,
\* unless the mirror lost it afterwards, and fails only for a reason outside the programs;
\* an audit passes only if each run of its snapshot that has an outcome has its evidence
\* in the mirror, right, and races the writers without a false alarm.
MirrorIsTold ==
  /\ Evidence!PassedRepairMirrors /\ Evidence!RepairFailsForCause
  /\ Evidence!PassedAuditIsTrue /\ Evidence!SucceededRunsAuditClean

\* A platform report that is ready rests on gates that were ready and on provider checks
\* that had passed and were of the allowed age, and its release was approved by every
\* source and by the review; a drift decision that exits 0 rests on enough datasets of
\* one model, in none of which a column moved, was lost or could not be compared.
ReadyIsEarned ==
  /\ Platform!ReadyIsBacked /\ Platform!ReleaseIsApproved
  /\ Drift!ReadyIsClean

\* "old otherwise passed evidence returns `stale`": a check that grows old between two
\* whole seconds still yields a report.
StaleIsReported == Platform!StaleIsReported
=============================================================================
