--------------------------- MODULE AdmissionLedger ---------------------------
(* The persistent admission record of the private read pilot                  *)
(* (ops/private-read-admission/ledger.mjs over sqlite-store.mjs).  Every      *)
(* operation is one synchronous transaction: it reads the single row, decides *)
(* and either writes the whole row back or leaves it alone, so an action here *)
(* is one transaction.  A transaction that throws rolls back and answers      *)
(* "storage_unavailable"; the executor of AdmissionExecutor.tla sees that.    *)
EXTENDS Integers, Sequences, FiniteSets

CONSTANTS
    Ids,            \* request identities (64 hex digits in the code)
    Times,          \* readings of the controller's clock, in any order
    Days,           \* UTC dates
    DayOf,          \* the UTC date of a reading
    StartsAt,       \* policy.startsAtMs
    ExpiresAt,      \* policy.expiresAtMs
    TotalLimit,     \* LIMITS.total
    DailyLimit      \* LIMITS.daily

ASSUME ClockAssumption == /\ Times \subseteq Nat
                          /\ DayOf \in [Times -> Days]
                          /\ StartsAt \in Nat /\ ExpiresAt \in Nat

ASSUME LimitAssumption == TotalLimit \in Nat /\ DailyLimit \in Nat

VARIABLES
    stored,         \* the row exists
    lastSeen,       \* lastSeenMs, the clock's high-water mark
    requests,       \* admissions, in order; also the replay tombstones
    daily,          \* admissions per UTC date
    active,         \* sequence number holding the only slot, 0 when null
    stopped         \* why the pilot was stopped, "none" when null

ledgerVars == <<stored, lastSeen, requests, daily, active, stopped>>

StopReasons == {"read_timeout", "read_start_failed", "read_failed",
                "closure_unconfirmed", "clock_invalid", "pilot_expired",
                "timing_unavailable"}

Entry == [id : Ids, at : Times, closed : BOOLEAN]

LedgerTypeOK ==
    /\ stored \in BOOLEAN
    /\ lastSeen \in Nat
    /\ requests \in Seq(Entry)
    /\ daily \in [Days -> Nat]
    /\ active \in Nat
    /\ stopped \in StopReasons \cup {"none"}

LedgerInit ==
    /\ stored = FALSE
    /\ lastSeen = StartsAt
    /\ requests = <<>>
    /\ daily = [d \in Days |-> 0]
    /\ active = 0
    /\ stopped = "none"

(* The explicit bootstrap; ordinary operations never create the row.          *)
initializeOfflineFixture ==
    /\ ~stored
    /\ stored' = TRUE
    /\ UNCHANGED <<lastSeen, requests, daily, active, stopped>>

-----------------------------------------------------------------------------
(* admit: the refusals, in the order the code tries them.                     *)

Refusals == {"not_initialized", "pilot_expired", "pilot_stopped",
             "pilot_not_started", "clock_invalid", "request_replayed",
             "completion_unconfirmed", "total_budget_exhausted",
             "daily_budget_exhausted"}

Running == stored /\ stopped = "none"

(* Before the first in-window reading the start is not an observation.        *)
NotStarted(now) == now < StartsAt /\ lastSeen = StartsAt /\ requests = <<>>

(* An accepted reading of the clock, persisted even when the read is denied.  *)
Observes(now) == Running /\ ~NotStarted(now) /\ now >= lastSeen

(* A mutant: a closed admission no longer counts as a replay tombstone.       *)
ReplayedWhileOpen(id) == \E i \in DOMAIN requests :
                            requests[i].id = id /\ ~requests[i].closed

Replayed(id) == \E i \in DOMAIN requests : requests[i].id = id

(* Why a request inside the window is denied; "none" when it is not.          *)
Denial(id, now) ==
    CASE Replayed(id)                        -> "request_replayed"
      [] ~Replayed(id) /\ active # 0         -> "completion_unconfirmed"
      [] ~Replayed(id) /\ active = 0
           /\ Len(requests) >= TotalLimit    -> "total_budget_exhausted"
      [] ~Replayed(id) /\ active = 0 /\ Len(requests) < TotalLimit
           /\ daily[DayOf[now]] >= DailyLimit -> "daily_budget_exhausted"
      [] OTHER                               -> "none"

RefuseUnchanged(now, reason) ==
    /\ \/ ~stored /\ reason = "not_initialized"
       \/ stored /\ stopped = "pilot_expired" /\ reason = "pilot_expired"
       \/ stored /\ stopped \notin {"none", "pilot_expired"} /\ reason = "pilot_stopped"
       \/ Running /\ NotStarted(now) /\ reason = "pilot_not_started"
    /\ UNCHANGED ledgerVars

RefuseRollback(now, reason) ==
    /\ Running /\ ~NotStarted(now) /\ now < lastSeen
    /\ reason = "clock_invalid"
    /\ stopped' = "clock_invalid"
    /\ UNCHANGED <<stored, lastSeen, requests, daily, active>>

RefuseExpired(now, reason) ==
    /\ Observes(now) /\ now >= ExpiresAt
    /\ reason = "pilot_expired"
    /\ lastSeen' = now
    /\ stopped' = "pilot_expired"
    /\ UNCHANGED <<stored, requests, daily, active>>

RefuseDenied(id, now, reason) ==
    /\ Observes(now) /\ now < ExpiresAt
    /\ reason = Denial(id, now) /\ reason # "none"
    /\ lastSeen' = now
    /\ UNCHANGED <<stored, requests, daily, active, stopped>>

admitRefused(id, now, reason) ==
    \/ RefuseUnchanged(now, reason)
    \/ RefuseRollback(now, reason)
    \/ RefuseExpired(now, reason)
    \/ RefuseDenied(id, now, reason)

(* The reservation: tombstone, counters and slot in one write.                *)
Reserve(id, now) ==
    /\ requests' = Append(requests, [id |-> id, at |-> now, closed |-> FALSE])
    /\ daily' = [daily EXCEPT ![DayOf[now]] = @ + 1]
    /\ active' = Len(requests) + 1
    /\ UNCHANGED <<stored, stopped>>

admitGranted(id, now) ==
    /\ Observes(now) /\ now < ExpiresAt
    /\ Denial(id, now) = "none"
    /\ lastSeen' = now
    /\ Reserve(id, now)

-----------------------------------------------------------------------------
(* The operations of the trusted executor on the slot it holds.               *)

HoldsSlot(id, sequence) ==
    /\ stored
    /\ sequence \in DOMAIN requests
    /\ requests[sequence].id = id
    /\ active = sequence

confirmClosed(id, sequence) ==
    /\ HoldsSlot(id, sequence) /\ ~requests[sequence].closed
    /\ requests' = [requests EXCEPT ![sequence].closed = TRUE]
    /\ active' = 0
    /\ UNCHANGED <<stored, lastSeen, daily, stopped>>

stop(id, sequence, reason) ==
    /\ HoldsSlot(id, sequence)
    /\ stopped' = reason
    /\ UNCHANGED <<stored, lastSeen, requests, daily, active>>

-----------------------------------------------------------------------------
(* Nothing written can be refused by the next reader: the row passes          *)
(* validateState, which runs before every operation and, once it fails,       *)
(* refuses for ever.  The clock readings are ordered and inside the window,   *)
(* no identity is admitted twice, only the last admission may be unclosed and *)
(* it holds the slot, and both budgets agree with the admissions they count.  *)
AdmittedOn(d) == {i \in DOMAIN requests : DayOf[requests[i].at] = d}

RowValid ==
    /\ lastSeen >= StartsAt
    /\ Len(requests) <= TotalLimit
    /\ \A i \in DOMAIN requests :
         /\ requests[i].at >= StartsAt
         /\ requests[i].at < ExpiresAt
         /\ requests[i].at <= lastSeen
         /\ \A j \in DOMAIN requests :
              j < i => /\ requests[j].at <= requests[i].at
                       /\ requests[j].id # requests[i].id
         /\ ~requests[i].closed => i = Len(requests) /\ active = i
    /\ active # 0 => active \in DOMAIN requests /\ ~requests[active].closed
    /\ \A d \in Days : /\ daily[d] <= DailyLimit
                       /\ daily[d] = Cardinality(AdmittedOn(d))

=============================================================================
