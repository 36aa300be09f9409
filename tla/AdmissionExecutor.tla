-------------------------- MODULE AdmissionExecutor --------------------------
(* The trusted executor of the private read pilot                             *)
(* (ops/private-read-admission/executor.mjs) over its persistent ledger.      *)
(* Calls run in any number of processes that share one SQLite file            *)
(* (executor-process.test.mjs), so calls interleave between any two ledger    *)
(* transactions and a process may die between them; the database read it      *)
(* opened outlives it.                                                        *)
EXTENDS AdmissionLedger

CONSTANT Runs       \* calls of run(), each made by one process

VARIABLES
    pc,             \* where a call stands
    callId,         \* its requestId
    sequence,       \* the admission it was granted, 0 before
    reason,         \* the stop reason on its way to the ledger and the caller
    answer,         \* what the caller was told
    backend         \* external: the database read the call opened

runVars == <<pc, callId, sequence, reason, answer, backend>>
vars == <<ledgerVars, runVars>>

NoAnswer == "pending"

Init ==
    /\ LedgerInit
    /\ pc = [r \in Runs |-> "idle"]
    /\ callId \in [Runs -> Ids]
    /\ sequence = [r \in Runs |-> 0]
    /\ reason = [r \in Runs |-> "none"]
    /\ answer = [r \in Runs |-> NoAnswer]
    /\ backend = [r \in Runs |-> "none"]

Goto(r, label) == pc' = [pc EXCEPT ![r] = label]

Answer(r, told) == Goto(r, "done") /\ answer' = [answer EXCEPT ![r] = told]

FailWith(r, label, why) == Goto(r, label) /\ reason' = [reason EXCEPT ![r] = why]

-----------------------------------------------------------------------------
(* Authorization is awaited, and nothing of the ledger is touched before it.  *)

Call(r) ==
    /\ pc[r] = "idle"
    /\ Goto(r, "authorizing")
    /\ UNCHANGED <<ledgerVars, callId, sequence, reason, answer, backend>>

Authorized(r) ==
    /\ pc[r] = "authorizing"
    /\ Goto(r, "admitting")
    /\ UNCHANGED <<ledgerVars, callId, sequence, reason, answer, backend>>

Unauthorized(r) ==
    /\ pc[r] = "authorizing"
    /\ Answer(r, "unauthorized")
    /\ UNCHANGED <<ledgerVars, callId, sequence, reason, backend>>

Admitted(r) ==
    /\ pc[r] = "admitting"
    /\ \E now \in Times : admitGranted(callId[r], now)
    /\ sequence' = [sequence EXCEPT ![r] = Len(requests) + 1]
    /\ Goto(r, "admitted")
    /\ UNCHANGED <<callId, reason, answer, backend>>

Refused(r) ==
    /\ pc[r] = "admitting"
    /\ \E now \in Times, why \in Refusals :
          admitRefused(callId[r], now, why) /\ Answer(r, why)
    /\ UNCHANGED <<callId, sequence, reason, backend>>

(* The transaction rolled back, or the clock or the measure threw.            *)
AdmissionUnavailable(r) ==
    /\ pc[r] = "admitting"
    /\ \E why \in {"storage_unavailable", "control_unavailable"} : Answer(r, why)
    /\ UNCHANGED <<ledgerVars, callId, sequence, reason, backend>>

-----------------------------------------------------------------------------
(* The read.  A reader that throws may or may not have opened the database.   *)

UntimedAdmission(r) ==
    /\ pc[r] = "admitted"
    /\ FailWith(r, "halting", "timing_unavailable")
    /\ UNCHANGED <<ledgerVars, callId, sequence, answer, backend>>

StartRead(r) ==
    /\ pc[r] = "admitted"
    /\ backend' = [backend EXCEPT ![r] = "open"]
    /\ Goto(r, "reading")
    /\ UNCHANGED <<ledgerVars, callId, sequence, reason, answer>>

StartReadThrows(r) ==
    /\ pc[r] = "admitted"
    /\ backend' \in {backend, [backend EXCEPT ![r] = "open"]}
    /\ FailWith(r, "abandoning", "read_start_failed")
    /\ UNCHANGED <<ledgerVars, callId, sequence, answer>>

BackendCloses(r) ==
    /\ backend[r] = "open"
    /\ backend' = [backend EXCEPT ![r] = "closed"]
    /\ UNCHANGED <<ledgerVars, pc, callId, sequence, reason, answer>>

(* A mutant: the deadline is armed only once the database read is over.       *)
TimeoutAfterClose(r) ==
    /\ pc[r] = "reading" /\ backend[r] = "closed"
    /\ FailWith(r, "abandoning", "read_timeout")
    /\ UNCHANGED <<ledgerVars, callId, sequence, answer, backend>>

(* The deadline won the race; a later settlement is ignored.                  *)
Timeout(r) ==
    /\ pc[r] = "reading"
    /\ FailWith(r, "abandoning", "read_timeout")
    /\ UNCHANGED <<ledgerVars, callId, sequence, answer, backend>>

(* The other three: both promises settled.  By the reader's contract "closed" *)
(* resolves to true only when the database read is over; nothing is known     *)
(* when it does not.                                                          *)
ClosureUnconfirmed(r) ==
    /\ pc[r] = "reading"
    /\ FailWith(r, "abandoning", "closure_unconfirmed")
    /\ UNCHANGED <<ledgerVars, callId, sequence, answer, backend>>

ReadFailed(r) ==
    /\ pc[r] = "reading" /\ backend[r] = "closed"
    /\ \E why \in {"read_failed", "timing_unavailable"} : FailWith(r, "halting", why)
    /\ UNCHANGED <<ledgerVars, callId, sequence, answer, backend>>

ReadSucceeded(r) ==
    /\ pc[r] = "reading" /\ backend[r] = "closed"
    /\ Goto(r, "confirming")
    /\ UNCHANGED <<ledgerVars, callId, sequence, reason, answer, backend>>

-----------------------------------------------------------------------------
(* Ending.  A ledger call that does not succeed leaves the row as it was.     *)

(* A mutant: the slot is a lease that a failed call gives back.               *)
AbandonReleases(r) ==
    /\ pc[r] = "abandoning"
    /\ confirmClosed(callId[r], sequence[r])
    /\ Answer(r, reason[r])
    /\ UNCHANGED <<callId, sequence, reason, backend>>

(* Closure unknown: stop the pilot, keep the slot, ignore what stop answers.  *)
Abandon(r) ==
    /\ pc[r] = "abandoning"
    /\ stop(callId[r], sequence[r], reason[r]) \/ UNCHANGED ledgerVars
    /\ Answer(r, reason[r])
    /\ UNCHANGED <<callId, sequence, reason, backend>>

(* Nothing is open: stop the pilot, then give the slot back.                  *)
Halt(r) ==
    /\ pc[r] = "halting"
    /\ stop(callId[r], sequence[r], reason[r])
    /\ Goto(r, "releasing")
    /\ UNCHANGED <<callId, sequence, reason, answer, backend>>

(* A mutant: the answer of stop is ignored before the slot is given back.     *)
HaltRegardless(r) ==
    /\ pc[r] = "halting"
    /\ Goto(r, "releasing")
    /\ UNCHANGED <<ledgerVars, callId, sequence, reason, answer, backend>>

HaltUnavailable(r) ==
    /\ pc[r] = "halting"
    /\ Answer(r, IF reason[r] = "read_failed" THEN "completion_unconfirmed"
                                              ELSE "control_unavailable")
    /\ UNCHANGED <<ledgerVars, callId, sequence, reason, backend>>

Confirm(r) ==
    /\ pc[r] \in {"releasing", "confirming"}
    /\ confirmClosed(callId[r], sequence[r])
    /\ Answer(r, IF pc[r] = "releasing" THEN reason[r] ELSE "completed")
    /\ UNCHANGED <<callId, sequence, reason, backend>>

ConfirmUnavailable(r) ==
    /\ pc[r] \in {"releasing", "confirming"}
    /\ Answer(r, "completion_unconfirmed")
    /\ UNCHANGED <<ledgerVars, callId, sequence, reason, backend>>

(* The process dies; the row and the database read do not.                    *)
Crash(r) ==
    /\ pc[r] \notin {"idle", "done", "lost"}
    /\ Goto(r, "lost")
    /\ UNCHANGED <<ledgerVars, callId, sequence, reason, answer, backend>>

-----------------------------------------------------------------------------
Bootstrap == initializeOfflineFixture /\ UNCHANGED runVars

(* The steps the event loop of a live process takes by itself.                *)
Advance(r) ==
    \/ Admitted(r) \/ Refused(r) \/ AdmissionUnavailable(r)
    \/ UntimedAdmission(r) \/ StartRead(r) \/ StartReadThrows(r) \/ Timeout(r)
    \/ Abandon(r) \/ Halt(r) \/ HaltUnavailable(r)
    \/ Confirm(r) \/ ConfirmUnavailable(r)

(* The steps the authorizer, the reader and the database take when they like. *)
Environment(r) ==
    \/ Authorized(r) \/ Unauthorized(r)
    \/ ClosureUnconfirmed(r) \/ ReadFailed(r) \/ ReadSucceeded(r)
    \/ BackendCloses(r) \/ Crash(r)

Next ==
    \/ Bootstrap
    \/ \E r \in Runs : Call(r) \/ Advance(r) \/ Environment(r)

Spec == Init /\ [][Next]_vars

-----------------------------------------------------------------------------
(* Types of the executor's state and of the row it shares.                    *)
Labels == {"idle", "authorizing", "admitting", "admitted", "reading",
           "abandoning", "halting", "releasing", "confirming", "done", "lost"}

Answers == StopReasons \cup Refusals \cup
           {NoAnswer, "unauthorized", "storage_unavailable",
            "control_unavailable", "completed"}

ExecutorTypeOK ==
    /\ LedgerTypeOK
    /\ pc \in [Runs -> Labels]
    /\ callId \in [Runs -> Ids]
    /\ sequence \in [Runs -> Nat]
    /\ reason \in [Runs -> StopReasons \cup {"none"}]
    /\ answer \in [Runs -> Answers]
    /\ backend \in [Runs -> {"none", "open", "closed"}]

(* An open database read holds the slot, whatever became of the call that     *)
(* opened it: a timeout, an unconfirmed closure or the death of the process   *)
(* never hands the slot to another caller while the first read may still run  *)
(* (executor.mjs:102, "No automatic slot release, lease expiry, restart").    *)
OpenHoldsSlot ==
    \A r \in Runs : backend[r] = "open" => active # 0 /\ active = sequence[r]

(* A call that was admitted and did not complete: refused, failed or killed.  *)
Failed(r) ==
    /\ sequence[r] # 0
    /\ pc[r] = "lost" \/ (pc[r] = "done" /\ answer[r] # "completed")

(* Failure latches.  After an admitted call has ended in anything but         *)
(* success, in this process or in another, and even if the ledger was         *)
(* unavailable when the stop was recorded, no read is ever admitted again.    *)
NoAdmissionAfterFailure ==
    [][(\E r \in Runs : Failed(r)) => Len(requests') = Len(requests)]_vars

(* An admitted call is answered, even if the reader never settles, unless its *)
(* process dies: the deadline bounds the wait and no ledger outcome blocks.   *)
AdmittedIsAnswered ==
    \A r \in Runs : sequence[r] # 0 ~> pc[r] \in {"done", "lost"}

(* The executor over its ledger implements the budget of ReadBudget.tla: one  *)
(* read at a time, each identity at most once, never more than the limit,     *)
(* across processes, crashes and clock rollbacks.                             *)
AdmittedIds == {requests[i].id : i \in DOMAIN requests}
SlotIds == IF active = 0 THEN {} ELSE {requests[active].id}
ReadingIds == {callId[r] : r \in {q \in Runs : backend[q] = "open"}}
BegunIds == {callId[r] : r \in {q \in Runs : backend[q] # "none"}}

Budget == INSTANCE ReadBudget WITH
    Limit <- TotalLimit, spent <- AdmittedIds, slot <- SlotIds,
    reading <- ReadingIds, begun <- BegunIds

KeepsBudget == Budget!BudgetSpec

=============================================================================
