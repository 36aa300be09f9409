------------------------------ MODULE MCProgress ------------------------------
(* What four components do in the end: the retried commands of               *)
(* MCForwardWorkflow, the status reader over two runs that may stop for good, *)
(* the private scheduler with one slot, its second delivery and its second   *)
(* run, and two admitted reads.  They share no state, so `focus` picks the    *)
(* one that moves in a behaviour.                                             *)
EXTENDS MCForwardWorkflow, Integers

VARIABLES
  statusNow, statusRuns, ends, reader, moments,
  slotNow, event, run, claim, recorded, status, archive, receipt, report, issue, cron, worked,
  stored, lastSeen, requests, daily, active, stopped,
  callPc, callId, sequence, reason, answer, backend

statusVars == <<statusNow, statusRuns, ends, reader, moments>>
slotVars == <<slotNow, event, run, claim, recorded, status, archive, receipt, report, issue,
              cron, worked>>
callVars == <<stored, lastSeen, requests, daily, active, stopped, callPc, callId, sequence,
              reason, answer, backend>>

\* The last success has time to grow stale.
Silence == INSTANCE ForwardStatus WITH
  now <- statusNow, runs <- statusRuns,
  Types <- {"forecast", "settlement"}, Datasets <- {"d1"},
  Results <- [forecast |-> {("candidates" :> "warning"), ("margin" :> "warning"),
                            ("candidates" :> "warning") @@ ("margin" :> "warning"),
                            ("margin" :> "failed"), ("candidates" :> "passed")},
              settlement |-> {("matched" :> "warning"), ("matched" :> "passed")}],
  Expected <- {"candidates"}, DayLength <- 2, StaleAfter <- 1, Reading <- FALSE,
  MaxRuns <- 2, LastFinish <- 2, MaxTime <- 4

Missed == INSTANCE PrivateScheduler WITH
  now <- slotNow, Slots <- {0}, Events <- {"e1", "e2"}, Runs <- {"r1", "r2"},
  Fresh <- 1, Late <- 2, Day <- 3, MaxTime <- 4

Admission == INSTANCE AdmissionExecutor WITH
  pc <- callPc, Ids <- {"i1", "i2"}, Runs <- {"c1", "c2"}, Times <- 1 .. 6, Days <- 0 .. 3,
  DayOf <- [t \in 1 .. 6 |-> t \div 2], StartsAt <- 2, ExpiresAt <- 6,
  TotalLimit <- 2, DailyLimit <- 2

ASSUME Silence!StatusAssumption /\ Missed!SlotAssumption

ProgressInit ==
  /\ Init /\ Silence!Init /\ Missed!Init /\ Admission!Init
  /\ focus \in {"retry", "silence", "missed", "admission"}
  /\ focus # "admission" => \A c \in {"c1", "c2"} : callId[c] = "i1"

ProgressNext ==
  /\ \/ focus = "retry" /\ Retry!Next /\ UNCHANGED <<statusVars, slotVars, callVars>>
     \/ focus = "silence" /\ Silence!Next /\ UNCHANGED <<vars, slotVars, callVars>>
     \/ focus = "missed" /\ Missed!Next /\ UNCHANGED <<vars, statusVars, callVars>>
     \/ focus = "admission" /\ Admission!Next /\ UNCHANGED <<vars, statusVars, slotVars>>
  /\ UNCHANGED focus

\* The fairness of each specification, for the behaviours in which it moves.
ProgressSpec ==
  /\ ProgressInit /\ [][ProgressNext]_<<vars, statusVars, slotVars, callVars, focus>>
  /\ \A c \in {f1, f2} : WF_vars(focus = "retry" /\ Retry!Step(c))
  /\ WF_statusNow(focus = "silence" /\ Silence!Tick)
  /\ WF_slotVars(focus = "missed" /\ Missed!Evaluate)
  /\ WF_slotVars(focus = "missed" /\ Missed!StopScope)
  /\ WF_slotVars(focus = "missed" /\ Missed!Tick)
  /\ \A r \in {"r1", "r2"} : WF_slotVars(focus = "missed" /\ Missed!Work(r))
  /\ \A c \in {"c1", "c2"} : WF_callVars(focus = "admission" /\ Admission!Advance(c))

\* When runs stop, for whatever reason and in whatever state, an alert is due and stays.
SilenceSurfaces == focus = "silence" => Silence!SilenceSurfaces

\* A slot that passes without a receipt makes the closeout job fail.
MissedSlotSurfaces == Missed!MissedSlotSurfaces

\* An admitted call is answered, even if the reader never settles, unless its
\* process dies.
AdmittedIsAnswered == Admission!AdmittedIsAnswered
=============================================================================
