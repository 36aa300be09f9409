-------------------------- MODULE PrivateScheduler --------------------------
(***************************************************************************)
(* The finite private schedule: a Cloudflare Worker dispatches a GitHub    *)
(* workflow in each of a few slots, the run claims its slot in R2 and      *)
(* records forecasts, and a separate workflow evaluates the receipts,      *)
(* closes the issue and stops the Worker.  Nothing locks the three         *)
(* together: the Worker looks for an active run before it dispatches, the  *)
(* concurrency group serialises runs, and the claim is what keeps a slot   *)
(* to one run.                                                             *)
(***************************************************************************)
EXTENDS Naturals, FiniteSets

CONSTANTS
  Slots,   \* the nominal instants, DATES at 07:17 UTC
  Events,  \* deliveries of the cron event by the provider
  Runs,    \* workflow runs
  Fresh,   \* 90 minutes: a dispatch older than this is stale
  Late,    \* 3 hours: no forecast after this
  Day,     \* 1 day
  MaxTime, \* bound: the clock stops there
  None

\* The slots are a list of dates in the source; None is no run and no time.
SlotAssumption ==
  /\ Slots \subseteq Nat /\ \E s \in Slots : \A t \in Slots : t <= s
  /\ {Fresh, Late, Day, MaxTime} \subseteq Nat
  /\ None \notin Runs \cup Nat

ASSUME SlotAssumption

VARIABLES
  now,
  event,    \* deliveries: [pc, slot]
  run,      \* workflow runs: [pc, slot, created]
  claim,    \* the run named by the claim object of each slot
  recorded, \* when each run recorded forecasts, and None while it has none
  status,   \* the status each run will report
  archive,  \* runs whose evidence archive is in the store
  receipt,  \* runs whose receipt was uploaded
  report,   \* the outputs of the last evaluation
  issue,
  cron,
  worked    \* history: runs that went past the claim, to registry and providers

cycle    == <<claim, recorded, status, archive, receipt, worked>>
closeout == <<report, issue, cron>>
vars     == <<now, event, run, cycle, closeout>>

Executing == {"claiming", "preparing", "refreshing", "admitting", "recording",
              "settling", "archiving", "reporting"}
NoReport  == [refused |-> FALSE, eligible |-> FALSE, finished |-> FALSE, attention |-> FALSE]

Init ==
  /\ now = 0
  /\ event = [e \in Events |-> [pc |-> "new", slot |-> None]]
  /\ run = [r \in Runs |-> [pc |-> "none", slot |-> None, created |-> 0]]
  /\ claim = [s \in Slots |-> None]
  /\ recorded = [r \in Runs |-> None]
  /\ status = [r \in Runs |-> "failed"]
  /\ archive = {} /\ receipt = {} /\ worked = {}
  /\ report = NoReport /\ issue = "open" /\ cron = "on"

-----------------------------------------------------------------------------
(* The Worker                                                              *)

\* scheduled(): outside the slots or the freshness boundary nothing is dispatched.
Deliver(e, s) ==
  /\ cron = "on" /\ event[e].pc = "new"
  /\ s <= now /\ now - s <= Fresh
  /\ event' = [event EXCEPT ![e] = [pc |-> "looking", slot |-> s]]
  /\ UNCHANGED <<now, run, cycle, closeout>>

Active == \E r \in Runs : run[r].pc \in {"queued"} \cup Executing

\* findActiveRun: an active run, or a lookup that fails, ends the event.
LookUp(e) ==
  /\ event[e].pc = "looking"
  /\ event' = [event EXCEPT ![e].pc = IF Active THEN "ended" ELSE "dispatching"]
  /\ UNCHANGED <<now, run, cycle, closeout>>

\* dispatchWorkflow: GitHub accepts it, whether or not the answer arrives in time.
\* A run that is still queued in the concurrency group gives way to the new one.
Dispatch(e) ==
  /\ event[e].pc = "dispatching"
  /\ event' = [event EXCEPT ![e].pc = "ended"]
  /\ \E r \in Runs :
       /\ run[r].pc = "none"
       /\ run' = [q \in Runs |->
                    IF q = r THEN [pc |-> "queued", slot |-> event[e].slot, created |-> now]
                    ELSE IF run[q].pc = "queued" THEN [run[q] EXCEPT !.pc = "ended"]
                    ELSE run[q]]
  /\ UNCHANGED <<now, cycle, closeout>>

\* The lookup or the dispatch fails before GitHub acts on it.
Miss(e) ==
  /\ event[e].pc \in {"looking", "dispatching"}
  /\ event' = [event EXCEPT ![e].pc = "ended"]
  /\ UNCHANGED <<now, run, cycle, closeout>>

-----------------------------------------------------------------------------
(* The cycle                                                               *)

Goto(r, here, there) == run[r].pc = here /\ run' = [run EXCEPT ![r].pc = there]
Fails(r)  == status' = [status EXCEPT ![r] = "failed"]
SlotOf(r) == run[r].slot

\* The concurrency group lets one run execute; admit() refuses a stale signature.
Start(r) ==
  /\ run[r].pc = "queued" /\ \A q \in Runs : run[q].pc \notin Executing
  /\ Goto(r, "queued", IF now - SlotOf(r) <= Fresh THEN "claiming" ELSE "ended")
  /\ UNCHANGED <<now, event, cycle, closeout>>

ClaimBlindly(r) ==  \* mutant: the claim is put without IfNoneMatch
  /\ Goto(r, "claiming", "preparing")
  /\ claim' = [claim EXCEPT ![SlotOf(r)] = r]
  /\ worked' = worked \cup {r}
  /\ UNCHANGED <<now, event, recorded, status, archive, receipt, closeout>>

\* put_object(IfNoneMatch="*"): a slot that is taken, or an answer that is lost, ends
\* the run with a failed receipt and no evidence.
Claim(r) ==
  /\ run[r].pc = "claiming"
  /\ LET won == [claim EXCEPT ![SlotOf(r)] = r]
         free == claim[SlotOf(r)] = None
     IN  \/ /\ free /\ claim' = won
            /\ Goto(r, "claiming", "preparing") /\ worked' = worked \cup {r}
         \/ /\ claim' \in {claim} \cup (IF free THEN {won} ELSE {})
            /\ Goto(r, "claiming", "reporting") /\ UNCHANGED worked
  /\ UNCHANGED <<now, event, recorded, status, archive, receipt, closeout>>

\* Any step after the claim may raise; the evidence is archived all the same.
Raise(r) ==
  /\ run[r].pc \in {"preparing", "refreshing", "admitting", "recording", "settling"}
  /\ run' = [run EXCEPT ![r].pc = "archiving"]
  /\ Fails(r)
  /\ UNCHANGED <<now, event, claim, recorded, archive, receipt, worked, closeout>>

\* The snapshot of the registry and the private seed, which must verify.
Prepare(r) ==
  /\ Goto(r, "preparing", "refreshing")
  /\ UNCHANGED <<now, event, cycle, closeout>>

\* The providers, as long as the cutoff date of the slot is still today's.
Refresh(r) ==
  /\ Goto(r, "refreshing", "admitting") /\ now < SlotOf(r) + Day
  /\ UNCHANGED <<now, event, cycle, closeout>>

\* The dataset, then pre_open_admission.
AdmitForecast(r) ==
  /\ Goto(r, "admitting", "recording") /\ now - SlotOf(r) <= Late
  /\ UNCHANGED <<now, event, cycle, closeout>>

\* workflow.forecast: recorded_at is the instant after the scoring.
Record(r) ==
  /\ Goto(r, "recording", "settling")
  /\ recorded' \in {recorded, [recorded EXCEPT ![r] = now]}
  /\ UNCHANGED <<now, event, claim, status, archive, receipt, worked, closeout>>

\* Settlement, and the comparison with the snapshot before.
Settle(r) ==
  /\ Goto(r, "settling", "archiving")
  /\ status' = [status EXCEPT ![r] = IF recorded[r] = None THEN "no_eligible_forecasts"
                                                          ELSE "recorded"]
  /\ UNCHANGED <<now, event, claim, recorded, archive, receipt, worked, closeout>>

\* An archive above the budget, or an upload that fails, ends the run unreported.
Archive(r) ==
  /\ \/ Goto(r, "archiving", "reporting") /\ archive' = archive \cup {r}
     \/ Goto(r, "archiving", "ended") /\ UNCHANGED archive
  /\ UNCHANGED <<now, event, claim, recorded, status, receipt, worked, closeout>>

Report(r) ==
  /\ Goto(r, "reporting", "ended")
  /\ receipt' = receipt \cup {r}
  /\ UNCHANGED <<now, event, claim, recorded, status, archive, worked, closeout>>

\* The runner disappears, or the job is killed at its time limit.
Kill(r) ==
  /\ run[r].pc \in Executing
  /\ run' = [run EXCEPT ![r].pc = "ended"]
  /\ UNCHANGED <<now, event, cycle, closeout>>

-----------------------------------------------------------------------------
(* The closeout                                                            *)

\* The artifact of a completed first attempt holds one receipt with its digest.
Accepted == {r \in receipt : run[r].pc = "ended"}
Rows(s) == {r \in Accepted : SlotOf(r) = s}
Positive(r) == status[r] = "recorded" /\ r \in archive
Timely(r) == run[r].created <= recorded[r] /\ recorded[r] <= SlotOf(r) + Late

\* Exactly one receipt for the slot, and a positive one.
Qualifies(s) == Cardinality(Rows(s)) = 1 /\ \A r \in Rows(s) : Positive(r)
Overdue(s) == now > s + Late
LastSlot == CHOOSE s \in Slots : \A t \in Slots : t <= s

Expired == now >= LastSlot + Day

EvaluateClockless ==  \* mutant: the clocks of a positive receipt are not compared
  /\ cron = "on"
  /\ report' = [refused   |-> FALSE,
                eligible  |-> \A s \in Slots : Qualifies(s),
                finished  |-> Expired \/ \A s \in Slots : Rows(s) # {},
                attention |-> \E s \in Slots : IF Rows(s) = {} THEN Overdue(s)
                                                               ELSE ~Qualifies(s)]
  /\ UNCHANGED <<now, event, run, cycle, issue, cron>>

EvaluateReceived ==  \* mutant: only slots with a receipt ask for attention
  /\ cron = "on"
  /\ report' = [NoReport EXCEPT
                !.eligible  = \A s \in Slots : Qualifies(s),
                !.finished  = \A s \in Slots : Rows(s) # {},
                !.attention = \E s \in Slots : Rows(s) # {} /\ ~Qualifies(s)]
  /\ UNCHANGED <<now, event, run, cycle, issue, cron>>

\* main: a positive receipt whose clocks disagree refuses the whole evaluation.
Evaluate ==
  /\ cron = "on"
  /\ report' = IF \E r \in Accepted : Positive(r) /\ ~Timely(r)
               THEN [NoReport EXCEPT !.refused = TRUE]
               ELSE [refused   |-> FALSE,
                     eligible  |-> \A s \in Slots : Qualifies(s),
                     finished  |-> Expired \/ \A s \in Slots : Rows(s) # {},
                     attention |-> \E s \in Slots : IF Rows(s) = {} THEN Overdue(s)
                                                                    ELSE ~Qualifies(s)]
  /\ UNCHANGED <<now, event, run, cycle, issue, cron>>

\* close-verified-issue: only after a report job that succeeded.
CloseIssue ==
  /\ report.eligible /\ ~report.attention /\ issue = "open"
  /\ issue' = "closed"
  /\ UNCHANGED <<now, event, run, cycle, report, cron>>

\* stop-finished-scope: STOP, and the closeout workflow is disabled.
StopScope ==
  /\ report.finished /\ cron = "on"
  /\ cron' = "off"
  /\ UNCHANGED <<now, event, run, cycle, report, issue>>

Tick ==
  /\ now < MaxTime /\ now' = now + 1
  /\ UNCHANGED <<event, run, cycle, closeout>>

Work(r) ==
  \/ Start(r) \/ Claim(r) \/ Raise(r) \/ Prepare(r) \/ Refresh(r) \/ AdmitForecast(r)
  \/ Record(r) \/ Settle(r) \/ Archive(r) \/ Report(r) \/ Kill(r)

Next ==
  \/ \E e \in Events : \/ LookUp(e) \/ Dispatch(e) \/ Miss(e)
                       \/ \E s \in Slots : Deliver(e, s)
  \/ \E r \in Runs : Work(r)
  \/ Evaluate \/ CloseIssue \/ StopScope \/ Tick

\* The closeout runs daily; time passes; a job that is ready to run is run.
Spec == Init /\ [][Next]_vars /\ WF_vars(Evaluate) /\ WF_vars(StopScope) /\ WF_vars(Tick)
             /\ \A r \in Runs : WF_vars(Work(r))

-----------------------------------------------------------------------------
(* Properties                                                              *)

\* Records have their fields, and a run that was dispatched has a slot.
TypeOK ==
  /\ now \in 0 .. MaxTime
  /\ event \in [Events -> [pc : {"new", "looking", "dispatching", "ended"},
                           slot : Slots \cup {None}]]
  /\ run \in [Runs -> [pc : {"none", "queued", "ended"} \cup Executing,
                       slot : Slots \cup {None}, created : 0 .. MaxTime]]
  /\ \A r \in Runs : run[r].pc # "none" => run[r].slot \in Slots
  /\ claim \in [Slots -> Runs \cup {None}]
  /\ recorded \in [Runs -> (0 .. MaxTime) \cup {None}]
  /\ status \in [Runs -> {"failed", "no_eligible_forecasts", "recorded"}]
  /\ archive \subseteq Runs /\ receipt \subseteq Runs /\ worked \subseteq Runs
  /\ report \in [refused : BOOLEAN, eligible : BOOLEAN, finished : BOOLEAN,
                 attention : BOOLEAN]
  /\ issue \in {"open", "closed"} /\ cron \in {"on", "off"}

ClaimedOnce == \A r \in worked : claim[SlotOf(r)] = r

RecordedUnderClaim ==
  \A r \in Runs : recorded[r] # None => r \in worked /\ run[r].created - SlotOf(r) <= Fresh

\* Whatever the provider delivers twice and GitHub accepts twice, one run of a slot
\* reaches the registry and the providers, the one the claim names, and forecasts are
\* recorded by it alone, for a dispatch that reached GitHub within the freshness
\* window, however long it then waited in the queue.
SlotRunsOnce == ClaimedOnce /\ RecordedUnderClaim

ClosedOnEvidence ==
  issue = "closed" => \A s \in Slots :
    claim[s] # None /\ claim[s] \in archive /\ recorded[claim[s]] \in s .. s + Late

ReceiptIsBacked ==
  \A r \in receipt : status[r] # "failed" => r \in archive /\ r \in worked

StopLosesNoSlot ==
  cron = "off" => (now >= LastSlot + Day \/ \A s \in Slots : Rows(s) # {})

\* The issue is closed only on one archived cycle per slot, recorded within three
\* hours of it: a duplicate, a late recording or a lost archive keeps it open.  A
\* receipt that reports a cycle has its evidence in the store, and STOP never cuts off
\* a slot that was not observed and can still be.
ClosedIsEarned == ClosedOnEvidence /\ ReceiptIsBacked /\ StopLosesNoSlot

\* A slot that passes without a receipt makes the closeout job fail.
MissedSlotSurfaces ==
  \A s \in Slots : (Overdue(s) /\ Rows(s) = {}) ~>
    (report.attention \/ report.refused \/ Rows(s) # {} \/ cron = "off")
=============================================================================
