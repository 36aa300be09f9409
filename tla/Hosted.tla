-------------------------------- MODULE Hosted --------------------------------
(* The schedule and the deployment of the Worker that serves it, side by side.  *)
(* The trigger is modelled in both: the schedule starts after an ACTIVATE that  *)
(* passed and ends with a STOP, and the deployment says what a trigger that is  *)
(* on may rely on.                                                              *)
EXTENDS PrivateScheduler

CONSTANT MaxJobs  \* bound: jobs of the deployment

VARIABLES code, trigger, secrets, boundary, todo, stage, outcome, jobs, keyWrites

Worker == INSTANCE WorkerDeployment WITH cron <- trigger

\* At whatever request a job stopped and whatever was tried after it, the trigger is on
\* only for the signed code with both secrets, the key is written once, and a stage that
\* passed left the trigger as it asks.
StagesHold == Worker!TriggerRunsSignedCode /\ Worker!KeyInstalledOnce /\ Worker!PassedStageHolds
=============================================================================
