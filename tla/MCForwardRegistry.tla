-------------------------- MODULE MCForwardRegistry --------------------------
(* Two instances of the registry over the same sessions: one forecast as-of,  *)
(* at time 1, and one settlement as-of, at time 3, with their evidence; and   *)
(* rival registrations, checks and references.  `focus` is the instance of a  *)
(* behaviour.                                                                 *)
EXTENDS ForwardRegistry, TLC

CONSTANTS s1, s2, r1, r2

VARIABLE focus

SessionSymmetry == Permutations(Sessions)

\* d1 and d1bis are one id with two manifests, d2 repeats the manifest of d1.
DatasetOf(id, manifest) == [id |-> id, manifest |-> manifest]
OneDataset    == {DatasetOf("d1", "h1")}
RivalDatasets == {DatasetOf("d1", "h1"), DatasetOf("d1", "h2"), DatasetOf("d2", "h1")}

ModelOf(id, identity) == [id |-> id, training |-> "d1", identity |-> identity]
OneModel    == {ModelOf("m1", "v1")}
RivalModels == {ModelOf("m1", "v1"), ModelOf("m1", "v2"), ModelOf("m2", "v1")}

RunOf(type, as_of, parent) ==
  [type |-> type, as_of |-> as_of, dataset |-> "d1", model |-> "m1", parent |-> parent]
ForecastThenSettle ==
  {RunOf("forecast", 1, None), RunOf("settlement", 3, None),
   [RunOf("forecast", 1, r1) EXCEPT !.model = None]}
BareRuns ==
  {[type |-> "verification", as_of |-> 1, dataset |-> None, model |-> None, parent |-> None]}

Draft(event, accepted, entry, horizon, score) ==
  [event |-> event, accepted |-> accepted, entry |-> entry, horizon |-> horizon, score |-> score]

\* e1 with two scores, e2 with a horizon after the settlement; unknown was not
\* public at the as-of, open was no longer tradable, mature had its outcome.
e1low   == Draft("e1", 1, 2, 3, "low")
e1high  == Draft("e1", 1, 2, 3, "high")
e2late  == Draft("e2", 0, 2, 4, "low")
unknown == Draft("e3", 2, 3, 4, "low")
open    == Draft("e3", 0, 1, 4, "low")
mature  == Draft("e3", 0, 2, 1, "low")

MCForecasts == {{e1low}, {e1high, e2late}, {e1low, e2late}, {unknown}, {open}, {mature}}

Outcome(event, value, matured) ==
  [forecast |-> <<"m1", event, 1>>, dataset |-> "d1", value |-> value, matured |-> matured]

MCLabels == {{Outcome("e1", "up", 3)}, {Outcome("e1", "down", 3)},
             {Outcome("e1", "up", 4)}, {Outcome("e1", "up", 3), Outcome("e2", "up", 3)}}

CheckOf(name, status) == [name |-> name, status |-> status]
MCChecks == {{CheckOf("freshness", "passed"), CheckOf("audit", "failed")}, {CheckOf("freshness", "warning")}}

MCArtifacts == [kind : {"forecast_batch"}, sha : {"b1"}, uri : {"file", "s3"}]

NoBatch == {{}}

Identity == INSTANCE ForwardRegistry WITH
  Runs <- {r1}, DatasetRequests <- RivalDatasets, ModelRequests <- RivalModels,
  RunRequests <- BareRuns, ForecastBatches <- NoBatch, LabelBatches <- NoBatch,
  CheckBatches <- MCChecks, ArtifactRequests <- MCArtifacts

MCInit == Init /\ focus \in {"evidence", "identity"}

MCNext ==
  /\ \/ focus = "evidence" /\ Next
     \/ focus = "identity" /\ Identity!Next
  /\ UNCHANGED focus

MCSpec == MCInit /\ [][MCNext]_<<vars, focus>>
=============================================================================
