-------------------------- MODULE MCForwardWorkflow --------------------------
(* Three instances of the workflow.  A filing is accepted at 1, may be       *)
(* entered at 2 and matures at 3; forecasts are asked for as of 1,           *)
(* settlements as of 1 or 3.  `focus` is the instance of a behaviour; its    *)
(* Commands are those of all three, and only its own are launched.           *)
EXTENDS ForwardWorkflow, TLC

CONSTANTS f1, f2, s1, t1, t2

VARIABLE focus

SettlementSymmetry == Permutations({t1, t2})

MCTraining == [id |-> "d0", manifest |-> "h0"]
MCModel    == [id |-> "m1", training |-> "d0", identity |-> "v1"]

Filing(event, accepted, entry, horizon) ==
  [event |-> event, accepted |-> accepted, entry |-> entry, horizon |-> horizon, score |-> "low"]

\* e1 is scored; e2 is accepted after the as-of; e3 has no outcome when it matures.
e1 == Filing("e1", 1, 2, 3)
e2 == Filing("e2", 2, 3, 4)
e3 == Filing("e3", 0, 2, 3)

Bundle(id, manifest, day, sound, events, targets) ==
  [id |-> id, manifest |-> manifest, opens |-> day, closes |-> day + 1, sound |-> sound,
   events |-> events, targets |-> targets]

NoTarget == [e \in {} |-> {}]
Realized(value) == "e1" :> [value |-> value, horizon |-> 3]

today    == Bundle("d1", "h1", 1, TRUE, {e1, e2, e3}, NoTarget)
unsound  == Bundle("d2", "h2", 1, FALSE, {e1}, NoTarget)
today2   == Bundle("d5", "h5", 1, TRUE, {e1}, NoTarget)
matured  == Bundle("d3", "h3", 3, TRUE, {e1, e3}, Realized("up"))
revised  == Bundle("d4", "h4", 3, TRUE, {e1, e3}, Realized("down"))

FaultBundles  == {today, unsound, matured}
RaceBundles   == {today, matured, revised}
ScoreBundles  == {today, today2}

\* One forecast and one settlement under failures of the environment, on a host
\* that may go away.
Faults == INSTANCE ForwardWorkflow WITH
  Commands <- {f1, s1}, Forecasting <- {f1}, Bundles <- FaultBundles

\* Two settlements of one forecast from different dataset vintages.
Race == INSTANCE ForwardWorkflow WITH
  Commands <- {f1, t1, t2}, Forecasting <- {f1}, Bundles <- RaceBundles,
  MaxFaults <- 0, Ephemeral <- FALSE

\* Two forecasts of one as-of, racing or one after the crash of the other.
Retry == INSTANCE ForwardWorkflow WITH
  Commands <- {f1, f2}, Forecasting <- {f1, f2}, Bundles <- ScoreBundles,
  Moments <- {1}, MaxTime <- 1, Ephemeral <- FALSE

MCInit == Init /\ focus \in {"faults", "race", "retry"}

MCNext ==
  /\ \/ focus = "faults" /\ Faults!Next
     \/ focus = "race" /\ Race!Next
     \/ focus = "retry" /\ Retry!Next
  /\ UNCHANGED focus

MCSpec == MCInit /\ [][MCNext]_<<vars, focus>>

\* One forecast without failures, while the clock passes its entry.
LateSpec == Init /\ focus = "late" /\ [][Next /\ UNCHANGED focus]_<<vars, focus>>

\* Bound of the race: settlements as of 3, once there are forecasts to settle.
SettleRecorded ==
  \A c \in {t1, t2} : pc[c] # "idle" => job[c].as_of = 3 /\ forecasts # {}
=============================================================================
