-------------------------- MODULE WorkerDeployment --------------------------
(***************************************************************************)
(* The manual workflows that prepare, activate and stop the Worker: a few  *)
(* scripts over Cloudflare's API, one job at a time.  Every write is a     *)
(* request of its own that may fail, or be done with its answer lost, and  *)
(* the operator then tries a stage again.                                  *)
(***************************************************************************)
EXTENDS Naturals, Sequences

CONSTANT MaxJobs  \* bound: jobs the operator starts

VARIABLES
  code,      \* the code of the Worker: "none", "adapter" or "private"
  cron,      \* its list of schedules: "off" or "on"
  secrets,   \* the names of its secrets
  boundary,  \* its URLs, logs and tail consumers are off
  todo,      \* the steps the job has left
  stage,     \* the stage of the job
  outcome,   \* of the last job: "running", "passed" or "failed"
  jobs,
  keyWrites  \* history: how often the signing key was written

worker == <<code, cron, secrets, boundary, keyWrites>>
job    == <<todo, stage, outcome, jobs>>
vars   == <<worker, job>>

Both == {"dispatch", "key"}

\* The steps of each stage, as the workflows run them.
Steps(s) ==
  CASE s = "BOOTSTRAP"       -> <<"dormant", "wrangler", "prepared">>
    [] s = "PREPARE"         -> <<"before_prepare", "key", "bindings", "code", "cron_off", "disabled">>
    [] s = "RESUME_PREPARE"  -> <<"before_activate", "bindings", "code", "cron_off", "disabled">>
    [] s = "ACTIVATE"        -> <<"before_activate", "bindings", "code", "cron_on", "active">>
    [] s = "STOP"            -> <<"active", "active", "cron_off", "disabled">>
    [] s = "VERIFY_DISABLED" -> <<"disabled">>
    [] s = "VERIFY_ACTIVE"   -> <<"active">>
Stages == {"BOOTSTRAP", "PREPARE", "RESUME_PREPARE", "ACTIVATE", "STOP",
           "VERIFY_DISABLED", "VERIFY_ACTIVE"}

\* verify-dormant-credentials and verify-prepared-scheduler
Dormant  == boundary /\ code = "none"
Prepared == boundary /\ code # "none" /\ cron = "off" /\ secrets \subseteq {"dispatch"}

\* What each check needs; the phases of manage-private-scheduler read the same state.
Holds(check) ==
  CASE check = "dormant"        -> Dormant
    [] check = "prepared"       -> Prepared
    [] check = "before_prepare" -> boundary /\ cron = "off" /\ "dispatch" \in secrets
    [] check = "key"            -> boundary /\ cron = "off" /\ secrets = {"dispatch"}
    [] check = "active"         -> boundary /\ cron = "on"  /\ secrets = Both
    [] OTHER                    -> boundary /\ cron = "off" /\ secrets = Both

Init ==
  /\ code = "none" /\ cron = "off" /\ secrets = {} /\ boundary = TRUE /\ keyWrites = 0
  /\ todo = <<>> /\ stage = "none" /\ outcome = "passed" /\ jobs = 0

\* The concurrency group lets one job run.
StartJob(s) ==
  /\ outcome # "running" /\ jobs < MaxJobs
  /\ stage' = s /\ todo' = Steps(s) /\ outcome' = "running" /\ jobs' = jobs + 1
  /\ UNCHANGED worker

Advance ==
  /\ todo' = Tail(todo)
  /\ outcome' = IF Len(todo) = 1 THEN "passed" ELSE "running"
  /\ UNCHANGED <<stage, jobs>>

Stopped == outcome' = "failed" /\ todo' = <<>> /\ UNCHANGED <<stage, jobs>>

At(step) == outcome = "running" /\ Head(todo) = step

\* A read-only check: it passes, or it refuses, or a request of it fails.
Check(step) ==
  /\ step \in {"dormant", "prepared", "before_prepare", "before_activate", "disabled", "active"}
  /\ At(step)
  /\ (Holds(step) /\ Advance) \/ Stopped
  /\ UNCHANGED worker

\* A write: refused before it is sent, done, or done with its answer lost.
Write(step, allowed, done) ==
  /\ At(step)
  /\ \/ Stopped /\ UNCHANGED worker
     \/ allowed /\ done /\ (Advance \/ Stopped)

\* INSTALL_KEY
InstallKey == Write("key", Holds("key"),
  /\ secrets' = secrets \cup {"key"} /\ keyWrites' = keyWrites + 1
  /\ UNCHANGED <<code, cron, boundary>>)

\* wrangler deploy: the adapter without schedules.
Wrangler == Write("wrangler", TRUE,
  code' = "adapter" /\ cron' = "off" /\ UNCHANGED <<secrets, boundary, keyWrites>>)

\* uploadPrivateWorker: its own precondition, then the bindings the Worker has.
Bindings ==
  /\ At("bindings")
  /\ (Holds("before_activate") /\ code # "none" /\ Advance) \/ Stopped
  /\ UNCHANGED worker

UploadCodeOptional == Write("code", TRUE,  \* mutant: an upload that fails is passed over
  code' \in {code, "private"} /\ UNCHANGED <<cron, secrets, boundary, keyWrites>>)

\* bindings_inherit=strict: an upload needs both secrets to inherit.
UploadCode == Write("code", secrets = Both,
  code' = "private" /\ UNCHANGED <<cron, secrets, boundary, keyWrites>>)

SetCron == \E s \in {"off", "on"} : Write(IF s = "on" THEN "cron_on" ELSE "cron_off", TRUE,
  cron' = s /\ UNCHANGED <<code, secrets, boundary, keyWrites>>)

\* The owner installs the dispatch token, or changes a setting in the dashboard.
Dashboard ==
  /\ \/ secrets' = secrets \cup {"dispatch"} /\ code # "none" /\ UNCHANGED boundary
     \/ boundary' = ~boundary /\ UNCHANGED secrets
  /\ UNCHANGED <<code, cron, keyWrites, job>>

Next ==
  \/ \E s \in Stages : StartJob(s)
  \/ \E c \in {"dormant", "prepared", "before_prepare", "before_activate", "disabled", "active"} : Check(c)
  \/ InstallKey \/ Wrangler \/ Bindings \/ UploadCode \/ SetCron \/ Dashboard

Spec == Init /\ [][Next]_vars

-----------------------------------------------------------------------------
(* Properties                                                              *)

\* The Worker has a code, a trigger and known secrets; a job that runs has steps left.
TypeOK ==
  /\ code \in {"none", "adapter", "private"} /\ cron \in {"off", "on"}
  /\ secrets \subseteq Both /\ boundary \in BOOLEAN /\ jobs \in 0 .. MaxJobs
  /\ outcome \in {"running", "passed", "failed"} /\ (outcome = "running" <=> todo # <<>>)

\* The trigger is on only for the signed code with both of its secrets, at whatever
\* request a job stopped and whatever was tried after it.
TriggerRunsSignedCode == cron = "on" => code = "private" /\ secrets = Both

\* The signing key is written once: a stage that is repeated never replaces it.
KeyInstalledOnce == keyWrites <= 1

\* A job that passed left the trigger as its stage asks.
PassedStageHolds ==
  outcome = "passed" /\ stage # "none" => (cron = "on" <=> stage \in {"ACTIVATE", "VERIFY_ACTIVE"})
=============================================================================
