---------------------------- MODULE AdmissionProofs ----------------------------
(* Proofs about AdmissionExecutor, for every set of calls and identities,     *)
(* every clock and every pair of limits, and about PrivateReadPilot, for      *)
(* every set of requests and processes and every budget.                      *)
EXTENDS PrivateReads, FiniteSetTheorems, TLAPS

-----------------------------------------------------------------------------
(* The ledger's transactions keep the row valid.                              *)

LEMMA EntriesTyped ==
  ASSUME LedgerTypeOK
  PROVE  \A i \in DOMAIN requests : requests[i] \in Entry /\ requests[i].at \in Nat
<1>1. \A i \in DOMAIN requests : requests[i] \in Entry
  BY DEF LedgerTypeOK
<1>2. \A x \in Entry : x.at \in Nat
  BY ClockAssumption DEF Entry
<1> QED
  BY <1>1, <1>2

LEMMA AdmittedOnFinite ==
  ASSUME LedgerTypeOK, NEW d
  PROVE  IsFiniteSet(AdmittedOn(d)) /\ Cardinality(AdmittedOn(d)) \in Nat
<1>1. IsFiniteSet(1 .. Len(requests))
  BY FS_Interval DEF LedgerTypeOK
<1>2. AdmittedOn(d) \subseteq 1 .. Len(requests)
  BY DEF LedgerTypeOK, AdmittedOn
<1> QED
  BY <1>1, <1>2, FS_Subset, FS_CardinalityType

LEMMA GrantKeepsRow ==
  ASSUME LedgerTypeOK, RowValid, NEW id \in Ids, NEW now \in Times,
         admitGranted(id, now)
  PROVE  LedgerTypeOK' /\ RowValid'
<1> DEFINE n == Len(requests)
           e == [id |-> id, at |-> now, closed |-> FALSE]
<1> USE ClockAssumption, LimitAssumption DEF LedgerTypeOK
<1>1. /\ ~Replayed(id) /\ active = 0 /\ n < TotalLimit
      /\ daily[DayOf[now]] < DailyLimit
  BY DEF admitGranted, Denial
<1>2. e \in Entry /\ now \in Nat /\ DayOf[now] \in Days /\ n \in Nat
  BY DEF Entry
<1>3. /\ requests' \in Seq(Entry) /\ Len(requests') = n + 1
      /\ DOMAIN requests = 1 .. n /\ DOMAIN requests' = 1 .. n + 1
      /\ requests'[n + 1] = e
      /\ \A i \in 1 .. n : requests'[i] = requests[i]
  BY <1>2 DEF admitGranted, Reserve
<1>4. LedgerTypeOK'
  BY <1>2, <1>3 DEF admitGranted, Reserve
<1>5. now >= lastSeen /\ lastSeen' = now /\ now < ExpiresAt /\ active' = n + 1
  BY DEF admitGranted, Observes, Reserve
<1>6. \A i \in 1 .. n : requests[i] \in Entry /\ requests[i].at \in Nat
  BY <1>3, EntriesTyped
<1>7. \A i \in 1 .. n : /\ requests[i].id # id /\ requests[i].closed
                        /\ requests[i].at <= now
  BY <1>1, <1>2, <1>3, <1>5, <1>6 DEF Replayed, RowValid, Entry
<1>8. \A i \in DOMAIN requests' :
         /\ requests'[i].at >= StartsAt
         /\ requests'[i].at < ExpiresAt
         /\ requests'[i].at <= lastSeen'
         /\ \A j \in DOMAIN requests' :
              j < i => /\ requests'[j].at <= requests'[i].at
                       /\ requests'[j].id # requests'[i].id
         /\ ~requests'[i].closed => i = Len(requests') /\ active' = i
  <2> HIDE DEF LedgerTypeOK, n, e
  <2>0. e.id = id /\ e.at = now /\ ~e.closed /\ n \in Nat /\ lastSeen \in Nat
    BY <1>2 DEF e, LedgerTypeOK
  <2>1. \A i \in 1 .. n : /\ requests[i].at >= StartsAt
                          /\ requests[i].at < ExpiresAt
                          /\ \A j \in 1 .. n :
                               j < i => /\ requests[j].at <= requests[i].at
                                        /\ requests[j].id # requests[i].id
    BY <1>3 DEF RowValid
  <2>2. ASSUME NEW i \in 1 .. n
        PROVE  /\ requests'[i].at >= StartsAt
               /\ requests'[i].at < ExpiresAt
               /\ requests'[i].at <= lastSeen'
               /\ \A j \in 1 .. n + 1 :
                    j < i => /\ requests'[j].at <= requests'[i].at
                             /\ requests'[j].id # requests'[i].id
               /\ requests'[i].closed
    <3>1. requests'[i] = requests[i]
      BY <1>3
    <3>2. \A j \in 1 .. n + 1 : j < i => j \in 1 .. n /\ requests'[j] = requests[j]
      BY <1>3, <2>0
    <3> QED
      BY <1>5, <1>6, <1>7, <2>1, <3>1, <3>2
  <2>3. /\ requests'[n + 1].at >= StartsAt
        /\ requests'[n + 1].at < ExpiresAt
        /\ requests'[n + 1].at <= lastSeen'
        /\ \A j \in 1 .. n + 1 :
             j < n + 1 => /\ requests'[j].at <= requests'[n + 1].at
                          /\ requests'[j].id # requests'[n + 1].id
    <3>1. \A j \in 1 .. n + 1 : j < n + 1 => j \in 1 .. n /\ requests'[j] = requests[j]
      BY <1>3, <2>0
    <3>2. now >= StartsAt
      BY <1>2, <1>5, <2>0, ClockAssumption DEF RowValid
    <3> QED
      BY <1>2, <1>3, <1>5, <1>7, <2>0, <3>1, <3>2
  <2>4. \A i \in 1 .. n + 1 : i \in 1 .. n \/ i = n + 1
    BY <2>0
  <2> QED
    BY <1>3, <1>5, <2>2, <2>3, <2>4
<1>9. \A d \in Days : /\ daily'[d] <= DailyLimit
                      /\ daily'[d] = Cardinality(AdmittedOn(d)')
  <2> SUFFICES ASSUME NEW d \in Days
               PROVE  /\ daily'[d] <= DailyLimit
                      /\ daily'[d] = Cardinality(AdmittedOn(d)')
    OBVIOUS
  <2>1. CASE d = DayOf[now]
    <3>1. AdmittedOn(d)' = AdmittedOn(d) \cup {n + 1}
      BY <1>2, <1>3, <2>1 DEF AdmittedOn
    <3>2. n + 1 \notin AdmittedOn(d)
      BY <1>2, <1>3 DEF AdmittedOn
    <3>3. Cardinality(AdmittedOn(d)') = Cardinality(AdmittedOn(d)) + 1
      BY <3>1, <3>2, AdmittedOnFinite, FS_AddElement
    <3> QED
      BY <1>1, <1>2, <2>1, <3>3 DEF admitGranted, Reserve, RowValid
  <2>2. CASE d # DayOf[now]
    <3>1. AdmittedOn(d)' = AdmittedOn(d)
      BY <1>2, <1>3, <2>2 DEF AdmittedOn
    <3> QED
      BY <1>2, <2>2, <3>1 DEF admitGranted, Reserve, RowValid
  <2> QED
    BY <2>1, <2>2
<1> QED
  BY <1>1, <1>2, <1>3, <1>4, <1>5, <1>8, <1>9 DEF RowValid

LEMMA RefuseKeepsRow ==
  ASSUME LedgerTypeOK, RowValid, NEW id \in Ids, NEW now \in Times, NEW why,
         admitRefused(id, now, why)
  PROVE  /\ LedgerTypeOK' /\ RowValid'
         /\ requests' = requests /\ active' = active
         /\ stopped # "none" => stopped' # "none"
<1>1. /\ stored' = stored /\ requests' = requests /\ daily' = daily /\ active' = active
      /\ lastSeen' \in Nat /\ lastSeen' >= lastSeen
      /\ stopped' \in StopReasons \cup {"none"}
      /\ stopped # "none" => stopped' # "none"
  BY ClockAssumption
  DEF LedgerTypeOK, admitRefused, RefuseUnchanged, RefuseRollback, RefuseExpired,
      RefuseDenied, ledgerVars, Running, Observes, StopReasons
<1>2. LedgerTypeOK'
  BY <1>1 DEF LedgerTypeOK
<1>3. \A i \in DOMAIN requests : requests[i].at \in Nat
  BY EntriesTyped
<1>4. \A d : AdmittedOn(d)' = AdmittedOn(d)
  BY <1>1 DEF AdmittedOn
<1> QED
  BY <1>1, <1>2, <1>3, <1>4, ClockAssumption DEF RowValid, LedgerTypeOK

LEMMA ConfirmKeepsRow ==
  ASSUME LedgerTypeOK, RowValid, NEW id \in Ids, NEW n \in Nat, confirmClosed(id, n)
  PROVE  /\ LedgerTypeOK' /\ RowValid'
         /\ DOMAIN requests' = DOMAIN requests /\ Len(requests') = Len(requests)
         /\ \A i \in DOMAIN requests : requests'[i].id = requests[i].id
<1>1. n \in DOMAIN requests /\ active = n /\ n = Len(requests)
  BY DEF confirmClosed, HoldsSlot, RowValid
<1> DEFINE e == [requests[n] EXCEPT !.closed = TRUE]
<1>8. /\ requests[n] \in Entry /\ e \in Entry
      /\ e.id = requests[n].id /\ e.at = requests[n].at /\ e.closed
  BY <1>1, EntriesTyped DEF Entry
<1>9. requests' = [requests EXCEPT ![n] = e]
  BY DEF confirmClosed
<1> HIDE DEF e
<1>2. /\ requests' \in Seq(Entry)
      /\ DOMAIN requests' = DOMAIN requests /\ Len(requests') = Len(requests)
      /\ \A i \in DOMAIN requests : /\ requests'[i].id = requests[i].id
                                    /\ requests'[i].at = requests[i].at
                                    /\ i # n => requests'[i].closed = requests[i].closed
      /\ requests'[n].closed
  BY <1>1, <1>8, <1>9 DEF LedgerTypeOK
<1>3. active' = 0 /\ UNCHANGED <<stored, lastSeen, daily, stopped>>
  BY DEF confirmClosed
<1>4. \A d : AdmittedOn(d)' = AdmittedOn(d)
  BY <1>2 DEF AdmittedOn
<1> QED
  BY <1>1, <1>2, <1>3, <1>4 DEF RowValid, LedgerTypeOK

LEMMA StopKeepsRow ==
  ASSUME LedgerTypeOK, RowValid, NEW id \in Ids, NEW n \in Nat,
         NEW why \in StopReasons, stop(id, n, why)
  PROVE  /\ LedgerTypeOK' /\ RowValid'
         /\ requests' = requests /\ active' = active /\ stopped' # "none"
<1>1. /\ stopped' = why /\ why # "none"
      /\ UNCHANGED <<stored, lastSeen, requests, daily, active>>
  BY DEF stop, StopReasons
<1>2. \A d : AdmittedOn(d)' = AdmittedOn(d)
  BY <1>1 DEF AdmittedOn
<1> QED
  BY <1>1, <1>2 DEF LedgerTypeOK, RowValid

LEMMA SameKeepsRow ==
  ASSUME LedgerTypeOK, RowValid, stored' \in BOOLEAN,
         UNCHANGED <<lastSeen, requests, daily, active, stopped>>
  PROVE  LedgerTypeOK' /\ RowValid'
<1>1. \A d : AdmittedOn(d)' = AdmittedOn(d)
  BY DEF AdmittedOn
<1> QED
  BY <1>1 DEF LedgerTypeOK, RowValid

-----------------------------------------------------------------------------
(* The inductive invariant.  The row is valid, and every call is accounted    *)
(* for: a call between admission and answer holds the slot, so does an open   *)
(* database read, no admission belongs to two calls, and a call that ended    *)
(* badly left the slot taken or the pilot stopped.                            *)

Before == {"idle", "authorizing", "admitting"}

Holding == {"admitted", "reading", "abandoning", "halting", "releasing", "confirming"}

Owns(r) == /\ sequence[r] \in DOMAIN requests
           /\ requests[sequence[r]].id = callId[r]

RunOK(r) ==
    /\ pc[r] \in Before => sequence[r] = 0
    /\ pc[r] \in Holding => sequence[r] # 0 /\ active = sequence[r]
    /\ sequence[r] # 0 => Owns(r)
    /\ pc[r] = "admitted" => backend[r] = "none"
    /\ pc[r] \in {"halting", "releasing", "confirming"} => backend[r] # "open"
    /\ backend[r] # "none" => sequence[r] # 0
    /\ backend[r] = "open" => active = sequence[r]
    /\ pc[r] \in {"abandoning", "halting", "releasing"} => reason[r] # "none"
    /\ pc[r] = "releasing" => stopped # "none"
    /\ Failed(r) => active = sequence[r] \/ stopped # "none"

OneOwner == \A r, q \in Runs : sequence[r] # 0 /\ sequence[r] = sequence[q] => r = q

IInv == ExecutorTypeOK /\ RowValid /\ OneOwner /\ \A r \in Runs : RunOK(r)

(* What a step of call r may do to the other calls' view of the world.        *)
OnlyRun(r) ==
    \A q \in Runs \ {r} :
       /\ pc'[q] = pc[q] /\ callId'[q] = callId[q] /\ sequence'[q] = sequence[q]
       /\ reason'[q] = reason[q] /\ answer'[q] = answer[q] /\ backend'[q] = backend[q]

KeepsAdmissions ==
    /\ DOMAIN requests \subseteq DOMAIN requests'
    /\ \A i \in DOMAIN requests : requests'[i].id = requests[i].id
    /\ stopped # "none" => stopped' # "none"

LEMMA OthersKept ==
  ASSUME IInv, NEW r \in Runs, OnlyRun(r), KeepsAdmissions,
         active' = active \/ active = 0 \/ (active # 0 /\ active = sequence[r]),
         NEW q \in Runs, q # r
  PROVE  RunOK(q)'
<1>1. RunOK(q) /\ q \in Runs \ {r}
  BY DEF IInv
<1>2. /\ pc'[q] = pc[q] /\ callId'[q] = callId[q] /\ sequence'[q] = sequence[q]
      /\ reason'[q] = reason[q] /\ answer'[q] = answer[q] /\ backend'[q] = backend[q]
  BY <1>1 DEF OnlyRun
<1>3. sequence[q] # 0 /\ active = sequence[q] => active' = active
  BY DEF IInv, OneOwner
<1>4. Failed(q)' <=> Failed(q)
  BY <1>2 DEF Failed
<1>5. sequence[q] # 0 => Owns(q)'
  BY <1>1, <1>2 DEF RunOK, Owns, KeepsAdmissions
<1> QED
  BY <1>1, <1>2, <1>3, <1>4, <1>5 DEF RunOK, Failed, KeepsAdmissions, Holding, Before

LEMMA RunStep ==
  ASSUME IInv, NEW r \in Runs, OnlyRun(r), KeepsAdmissions,
         active' = active \/ active = 0 \/ (active # 0 /\ active = sequence[r]),
         sequence'[r] = sequence[r],
         ExecutorTypeOK', RowValid', RunOK(r)'
  PROVE  IInv'
<1>1. \A q \in Runs : RunOK(q)'
  BY OthersKept
<1>2. \A q \in Runs : sequence'[q] = sequence[q]
  BY DEF OnlyRun
<1>3. OneOwner'
  BY <1>2 DEF IInv, OneOwner
<1> QED
  BY <1>1, <1>3 DEF IInv

(* A step of a call that leaves the row alone.                                *)
LEMMA LocalStep ==
  ASSUME IInv, NEW r \in Runs, OnlyRun(r), UNCHANGED ledgerVars,
         sequence'[r] = sequence[r], ExecutorTypeOK',
         RunOK(r)'
  PROVE  IInv'
<1>1. LedgerTypeOK /\ RowValid
  BY DEF IInv, ExecutorTypeOK
<1>2. RowValid'
  BY <1>1, SameKeepsRow DEF ledgerVars, LedgerTypeOK
<1>3. KeepsAdmissions
  BY DEF ledgerVars, KeepsAdmissions
<1> QED
  BY <1>2, <1>3, RunStep DEF ledgerVars

LEMMA AdmittedKeeps ==
  ASSUME IInv, NEW r \in Runs, Admitted(r)
  PROVE  IInv'
<1>0. PICK now \in Times : admitGranted(callId[r], now)
  BY DEF Admitted
<1>1. /\ LedgerTypeOK /\ RowValid /\ callId[r] \in Ids
      /\ pc[r] = "admitting" /\ sequence[r] = 0 /\ RunOK(r)
  BY DEF IInv, ExecutorTypeOK, Admitted, RunOK, Before
<1>2. LedgerTypeOK' /\ RowValid'
  BY <1>0, <1>1, GrantKeepsRow
<1>3. /\ active = 0 /\ active' = Len(requests) + 1 /\ stopped' = stopped
      /\ requests' = Append(requests, [id |-> callId[r], at |-> now, closed |-> FALSE])
  BY <1>0 DEF admitGranted, Denial, Reserve
<1>4. /\ DOMAIN requests = 1 .. Len(requests) /\ Len(requests) \in Nat
      /\ DOMAIN requests' = 1 .. Len(requests) + 1
      /\ \A i \in DOMAIN requests : requests'[i] = requests[i]
      /\ requests'[Len(requests) + 1].id = callId[r]
  BY <1>1, <1>3 DEF LedgerTypeOK
<1>5. KeepsAdmissions
  BY <1>3, <1>4 DEF KeepsAdmissions
<1>6. OnlyRun(r)
  BY DEF IInv, ExecutorTypeOK, Admitted, Goto, OnlyRun
<1>7. /\ pc'[r] = "admitted" /\ sequence'[r] = Len(requests) + 1
      /\ backend'[r] = "none" /\ callId'[r] = callId[r]
  BY <1>1 DEF IInv, ExecutorTypeOK, Admitted, Goto, RunOK
<1>8. RunOK(r)'
  BY <1>1, <1>3, <1>4, <1>7 DEF RunOK, Owns, Failed, Before, Holding
<1>9. ExecutorTypeOK'
  BY <1>2, <1>4 DEF IInv, ExecutorTypeOK, Admitted, Goto, Labels
<1>10. \A q \in Runs \ {r} : sequence'[q] = sequence[q] /\ sequence[q] # Len(requests) + 1
  BY <1>4, <1>6 DEF OnlyRun, IInv, RunOK, Owns
<1>11. OneOwner'
  BY <1>7, <1>10 DEF IInv, OneOwner
<1>12. \A q \in Runs \ {r} : RunOK(q)'
  BY <1>3, <1>5, <1>6, OthersKept
<1> QED
  BY <1>2, <1>8, <1>9, <1>11, <1>12 DEF IInv

LEMMA RefusedKeeps ==
  ASSUME IInv, NEW r \in Runs, Refused(r)
  PROVE  IInv'
<1>0. PICK now \in Times, why \in Refusals :
         admitRefused(callId[r], now, why) /\ Answer(r, why)
  BY DEF Refused
<1>1. LedgerTypeOK /\ RowValid /\ callId[r] \in Ids /\ sequence[r] = 0 /\ RunOK(r)
  BY DEF IInv, ExecutorTypeOK, Refused, RunOK, Before
<1>2. /\ LedgerTypeOK' /\ RowValid'
      /\ requests' = requests /\ active' = active
      /\ stopped # "none" => stopped' # "none"
  BY <1>0, <1>1, RefuseKeepsRow
<1>3. KeepsAdmissions
  BY <1>2 DEF KeepsAdmissions
<1>4. OnlyRun(r) /\ sequence'[r] = sequence[r]
  BY <1>0 DEF IInv, ExecutorTypeOK, Refused, Answer, Goto, OnlyRun
<1>5. RunOK(r)'
  BY <1>0, <1>1, <1>2 DEF IInv, ExecutorTypeOK, Refused, Answer, Goto, RunOK, Owns, Failed, Before, Holding
<1>6. ExecutorTypeOK'
  BY <1>0, <1>2 DEF IInv, ExecutorTypeOK, Refused, Answer, Goto, Labels, Answers
<1> QED
  BY <1>2, <1>3, <1>4, <1>5, <1>6, RunStep

LEMMA StopStep ==
  ASSUME IInv, NEW r \in Runs, pc[r] \in {"abandoning", "halting"},
         stop(callId[r], sequence[r], reason[r])
  PROVE  /\ LedgerTypeOK' /\ RowValid' /\ KeepsAdmissions
         /\ requests' = requests /\ active' = active /\ stopped' # "none"
<1>1. LedgerTypeOK /\ RowValid /\ callId[r] \in Ids /\ sequence[r] \in Nat
  BY DEF IInv, ExecutorTypeOK
<1>2. reason[r] \in StopReasons
  BY DEF IInv, ExecutorTypeOK, RunOK
<1>3. /\ LedgerTypeOK' /\ RowValid'
      /\ requests' = requests /\ active' = active /\ stopped' # "none"
  BY <1>1, <1>2, StopKeepsRow
<1> QED
  BY <1>3 DEF KeepsAdmissions

LEMMA AbandonKeeps ==
  ASSUME IInv, NEW r \in Runs, Abandon(r)
  PROVE  IInv'
<1>1. RunOK(r) /\ pc[r] = "abandoning" /\ reason[r] \in StopReasons
  BY DEF IInv, ExecutorTypeOK, RunOK, Abandon
<1>2. OnlyRun(r) /\ sequence'[r] = sequence[r]
  BY DEF IInv, ExecutorTypeOK, Abandon, Answer, Goto, OnlyRun
<1>3. CASE stop(callId[r], sequence[r], reason[r])
  <2>1. /\ LedgerTypeOK' /\ RowValid' /\ KeepsAdmissions
        /\ requests' = requests /\ active' = active /\ stopped' # "none"
    BY <1>1, <1>3, StopStep
  <2>2. RunOK(r)'
    BY <1>1, <2>1 DEF IInv, ExecutorTypeOK, Abandon, Answer, Goto, RunOK, Owns, Failed, Before, Holding
  <2>3. ExecutorTypeOK'
    BY <1>1, <2>1 DEF IInv, ExecutorTypeOK, Abandon, Answer, Goto, Labels, Answers
  <2> QED
    BY <1>2, <2>1, <2>2, <2>3, RunStep
<1>4. CASE UNCHANGED ledgerVars
  <2>1. RunOK(r)'
    BY <1>1, <1>4 DEF IInv, ExecutorTypeOK, Abandon, Answer, Goto, RunOK, Owns, Failed, Before, Holding, ledgerVars
  <2>2. ExecutorTypeOK'
    BY <1>1, <1>4 DEF IInv, ExecutorTypeOK, LedgerTypeOK, ledgerVars, Abandon, Answer, Goto, Labels, Answers
  <2> QED
    BY <1>2, <1>4, <2>1, <2>2, LocalStep
<1> QED
  BY <1>3, <1>4 DEF Abandon

LEMMA HaltKeeps ==
  ASSUME IInv, NEW r \in Runs, Halt(r)
  PROVE  IInv'
<1>1. RunOK(r) /\ pc[r] = "halting"
  BY DEF IInv, Halt
<1>2. /\ LedgerTypeOK' /\ RowValid' /\ KeepsAdmissions
      /\ requests' = requests /\ active' = active /\ stopped' # "none"
  BY <1>1, StopStep DEF Halt
<1>3. OnlyRun(r) /\ sequence'[r] = sequence[r]
  BY DEF IInv, ExecutorTypeOK, Halt, Goto, OnlyRun
<1>4. RunOK(r)'
  BY <1>1, <1>2 DEF IInv, ExecutorTypeOK, Halt, Goto, RunOK, Owns, Failed, Before, Holding
<1>5. ExecutorTypeOK'
  BY <1>2 DEF IInv, ExecutorTypeOK, Halt, Goto, Labels
<1> QED
  BY <1>2, <1>3, <1>4, <1>5, RunStep

LEMMA ConfirmKeeps ==
  ASSUME IInv, NEW r \in Runs, Confirm(r)
  PROVE  IInv'
<1>1. /\ LedgerTypeOK /\ RowValid /\ callId[r] \in Ids /\ sequence[r] \in Nat
      /\ RunOK(r) /\ pc[r] \in {"releasing", "confirming"}
      /\ confirmClosed(callId[r], sequence[r])
  BY DEF IInv, ExecutorTypeOK, Confirm
<1>2. /\ LedgerTypeOK' /\ RowValid'
      /\ DOMAIN requests' = DOMAIN requests
      /\ \A i \in DOMAIN requests : requests'[i].id = requests[i].id
  BY <1>1, ConfirmKeepsRow
<1>3. active' = 0 /\ stopped' = stopped
  BY <1>1 DEF confirmClosed
<1>4. KeepsAdmissions
  BY <1>2, <1>3 DEF KeepsAdmissions
<1>5. OnlyRun(r) /\ sequence'[r] = sequence[r]
  BY DEF IInv, ExecutorTypeOK, Confirm, Answer, Goto, OnlyRun
<1>6. active # 0 /\ active = sequence[r]
  BY <1>1 DEF RunOK, Holding
<1>7. /\ pc'[r] = "done" /\ backend'[r] = backend[r] /\ callId'[r] = callId[r]
      /\ answer'[r] # "completed" => stopped # "none"
  BY <1>1 DEF IInv, ExecutorTypeOK, Confirm, Answer, Goto, RunOK
<1>8. RunOK(r)'
  BY <1>1, <1>2, <1>3, <1>5, <1>6, <1>7 DEF RunOK, Owns, Failed, Before, Holding
<1>9. reason[r] \in StopReasons \/ pc[r] = "confirming"
  BY <1>1 DEF IInv, ExecutorTypeOK, RunOK
<1>10. ExecutorTypeOK'
  BY <1>2, <1>9 DEF IInv, ExecutorTypeOK, Confirm, Answer, Goto, Labels, Answers
<1> QED
  BY <1>2, <1>4, <1>5, <1>6, <1>8, <1>10, RunStep

LEMMA LocalKeeps ==
  ASSUME IInv, NEW r \in Runs,
         \/ Call(r) \/ Authorized(r) \/ Unauthorized(r) \/ AdmissionUnavailable(r)
         \/ UntimedAdmission(r) \/ StartRead(r) \/ StartReadThrows(r)
         \/ BackendCloses(r) \/ Timeout(r) \/ ClosureUnconfirmed(r)
         \/ ReadFailed(r) \/ ReadSucceeded(r)
         \/ HaltUnavailable(r) \/ ConfirmUnavailable(r) \/ Crash(r)
  PROVE  IInv'
<1> USE DEF IInv, ExecutorTypeOK, Goto, Answer, FailWith
<1>0. RunOK(r) /\ (pc[r] = "reading" => sequence[r] # 0)
  BY DEF RunOK, Holding
<1>1. CASE Call(r)
  <2>1. /\ OnlyRun(r) /\ sequence'[r] = sequence[r] /\ callId'[r] = callId[r]
        /\ UNCHANGED ledgerVars
    BY <1>1 DEF Call, OnlyRun
  <2>2. ExecutorTypeOK'
    BY <1>1 DEF Call, LedgerTypeOK, ledgerVars, Labels, Answers, StopReasons
  <2>3. Owns(r) => Owns(r)'
    BY <2>1 DEF Owns, ledgerVars
  <2>4. RunOK(r)'
    BY <1>0, <1>1, <2>1, <2>3 DEF Call, RunOK, Failed, Before, Holding, ledgerVars
  <2> QED
    BY <2>1, <2>2, <2>4, LocalStep
<1>2. CASE Authorized(r)
  <2>1. /\ OnlyRun(r) /\ sequence'[r] = sequence[r] /\ callId'[r] = callId[r]
        /\ UNCHANGED ledgerVars
    BY <1>2 DEF Authorized, OnlyRun
  <2>2. ExecutorTypeOK'
    BY <1>2 DEF Authorized, LedgerTypeOK, ledgerVars, Labels, Answers, StopReasons
  <2>3. Owns(r) => Owns(r)'
    BY <2>1 DEF Owns, ledgerVars
  <2>4. RunOK(r)'
    BY <1>0, <1>2, <2>1, <2>3 DEF Authorized, RunOK, Failed, Before, Holding, ledgerVars
  <2> QED
    BY <2>1, <2>2, <2>4, LocalStep
<1>3. CASE Unauthorized(r)
  <2>1. /\ OnlyRun(r) /\ sequence'[r] = sequence[r] /\ callId'[r] = callId[r]
        /\ UNCHANGED ledgerVars
    BY <1>3 DEF Unauthorized, OnlyRun
  <2>2. ExecutorTypeOK'
    BY <1>3 DEF Unauthorized, LedgerTypeOK, ledgerVars, Labels, Answers, StopReasons
  <2>3. Owns(r) => Owns(r)'
    BY <2>1 DEF Owns, ledgerVars
  <2>4. RunOK(r)'
    BY <1>0, <1>3, <2>1, <2>3 DEF Unauthorized, RunOK, Failed, Before, Holding, ledgerVars
  <2> QED
    BY <2>1, <2>2, <2>4, LocalStep
<1>4. CASE AdmissionUnavailable(r)
  <2>1. /\ OnlyRun(r) /\ sequence'[r] = sequence[r] /\ callId'[r] = callId[r]
        /\ UNCHANGED ledgerVars
    BY <1>4 DEF AdmissionUnavailable, OnlyRun
  <2>2. ExecutorTypeOK'
    BY <1>4 DEF AdmissionUnavailable, LedgerTypeOK, ledgerVars, Labels, Answers, StopReasons
  <2>3. Owns(r) => Owns(r)'
    BY <2>1 DEF Owns, ledgerVars
  <2>4. RunOK(r)'
    BY <1>0, <1>4, <2>1, <2>3 DEF AdmissionUnavailable, RunOK, Failed, Before, Holding, ledgerVars
  <2> QED
    BY <2>1, <2>2, <2>4, LocalStep
<1>5. CASE UntimedAdmission(r)
  <2>1. /\ OnlyRun(r) /\ sequence'[r] = sequence[r] /\ callId'[r] = callId[r]
        /\ UNCHANGED ledgerVars
    BY <1>5 DEF UntimedAdmission, OnlyRun
  <2>2. ExecutorTypeOK'
    BY <1>5 DEF UntimedAdmission, LedgerTypeOK, ledgerVars, Labels, Answers, StopReasons
  <2>3. Owns(r) => Owns(r)'
    BY <2>1 DEF Owns, ledgerVars
  <2>4. RunOK(r)'
    BY <1>0, <1>5, <2>1, <2>3 DEF UntimedAdmission, RunOK, Failed, Before, Holding, ledgerVars
  <2> QED
    BY <2>1, <2>2, <2>4, LocalStep
<1>6. CASE StartRead(r)
  <2>1. /\ OnlyRun(r) /\ sequence'[r] = sequence[r] /\ callId'[r] = callId[r]
        /\ UNCHANGED ledgerVars
    BY <1>6 DEF StartRead, OnlyRun
  <2>2. ExecutorTypeOK'
    BY <1>6 DEF StartRead, LedgerTypeOK, ledgerVars, Labels, Answers, StopReasons
  <2>3. Owns(r) => Owns(r)'
    BY <2>1 DEF Owns, ledgerVars
  <2>4. RunOK(r)'
    BY <1>0, <1>6, <2>1, <2>3 DEF StartRead, RunOK, Failed, Before, Holding, ledgerVars
  <2> QED
    BY <2>1, <2>2, <2>4, LocalStep
<1>7. CASE StartReadThrows(r)
  <2>1. /\ OnlyRun(r) /\ sequence'[r] = sequence[r] /\ callId'[r] = callId[r]
        /\ UNCHANGED ledgerVars
    BY <1>7 DEF StartReadThrows, OnlyRun
  <2>2. ExecutorTypeOK'
    BY <1>7 DEF StartReadThrows, LedgerTypeOK, ledgerVars, Labels, Answers, StopReasons
  <2>3. Owns(r) => Owns(r)'
    BY <2>1 DEF Owns, ledgerVars
  <2>4. RunOK(r)'
    BY <1>0, <1>7, <2>1, <2>3 DEF StartReadThrows, RunOK, Failed, Before, Holding, ledgerVars
  <2> QED
    BY <2>1, <2>2, <2>4, LocalStep
<1>8. CASE BackendCloses(r)
  <2>1. /\ OnlyRun(r) /\ sequence'[r] = sequence[r] /\ callId'[r] = callId[r]
        /\ UNCHANGED ledgerVars
    BY <1>8 DEF BackendCloses, OnlyRun
  <2>2. ExecutorTypeOK'
    BY <1>8 DEF BackendCloses, LedgerTypeOK, ledgerVars, Labels, Answers, StopReasons
  <2>3. Owns(r) => Owns(r)'
    BY <2>1 DEF Owns, ledgerVars
  <2>4. RunOK(r)'
    BY <1>0, <1>8, <2>1, <2>3 DEF BackendCloses, RunOK, Failed, Before, Holding, ledgerVars
  <2> QED
    BY <2>1, <2>2, <2>4, LocalStep
<1>9. CASE Timeout(r)
  <2>1. /\ OnlyRun(r) /\ sequence'[r] = sequence[r] /\ callId'[r] = callId[r]
        /\ UNCHANGED ledgerVars
    BY <1>9 DEF Timeout, OnlyRun
  <2>2. ExecutorTypeOK'
    BY <1>9 DEF Timeout, LedgerTypeOK, ledgerVars, Labels, Answers, StopReasons
  <2>3. Owns(r) => Owns(r)'
    BY <2>1 DEF Owns, ledgerVars
  <2>4. RunOK(r)'
    BY <1>0, <1>9, <2>1, <2>3 DEF Timeout, RunOK, Failed, Before, Holding, ledgerVars
  <2> QED
    BY <2>1, <2>2, <2>4, LocalStep
<1>10. CASE ClosureUnconfirmed(r)
  <2>1. /\ OnlyRun(r) /\ sequence'[r] = sequence[r] /\ callId'[r] = callId[r]
        /\ UNCHANGED ledgerVars
    BY <1>10 DEF ClosureUnconfirmed, OnlyRun
  <2>2. ExecutorTypeOK'
    BY <1>10 DEF ClosureUnconfirmed, LedgerTypeOK, ledgerVars, Labels, Answers, StopReasons
  <2>3. Owns(r) => Owns(r)'
    BY <2>1 DEF Owns, ledgerVars
  <2>4. RunOK(r)'
    BY <1>0, <1>10, <2>1, <2>3 DEF ClosureUnconfirmed, RunOK, Failed, Before, Holding, ledgerVars
  <2> QED
    BY <2>1, <2>2, <2>4, LocalStep
<1>11. CASE ReadFailed(r)
  <2>1. /\ OnlyRun(r) /\ sequence'[r] = sequence[r] /\ callId'[r] = callId[r]
        /\ UNCHANGED ledgerVars
    BY <1>11 DEF ReadFailed, OnlyRun
  <2>2. ExecutorTypeOK'
    BY <1>11 DEF ReadFailed, LedgerTypeOK, ledgerVars, Labels, Answers, StopReasons
  <2>3. Owns(r) => Owns(r)'
    BY <2>1 DEF Owns, ledgerVars
  <2>4. RunOK(r)'
    BY <1>0, <1>11, <2>1, <2>3 DEF ReadFailed, RunOK, Failed, Before, Holding, ledgerVars
  <2> QED
    BY <2>1, <2>2, <2>4, LocalStep
<1>12. CASE ReadSucceeded(r)
  <2>1. /\ OnlyRun(r) /\ sequence'[r] = sequence[r] /\ callId'[r] = callId[r]
        /\ UNCHANGED ledgerVars
    BY <1>12 DEF ReadSucceeded, OnlyRun
  <2>2. ExecutorTypeOK'
    BY <1>12 DEF ReadSucceeded, LedgerTypeOK, ledgerVars, Labels, Answers, StopReasons
  <2>3. Owns(r) => Owns(r)'
    BY <2>1 DEF Owns, ledgerVars
  <2>4. RunOK(r)'
    BY <1>0, <1>12, <2>1, <2>3 DEF ReadSucceeded, RunOK, Failed, Before, Holding, ledgerVars
  <2> QED
    BY <2>1, <2>2, <2>4, LocalStep
<1>13. CASE HaltUnavailable(r)
  <2>1. /\ OnlyRun(r) /\ sequence'[r] = sequence[r] /\ callId'[r] = callId[r]
        /\ UNCHANGED ledgerVars
    BY <1>13 DEF HaltUnavailable, OnlyRun
  <2>2. ExecutorTypeOK'
    BY <1>13 DEF HaltUnavailable, LedgerTypeOK, ledgerVars, Labels, Answers, Refusals
  <2>3. Owns(r) => Owns(r)'
    BY <2>1 DEF Owns, ledgerVars
  <2>4. RunOK(r)'
    BY <1>0, <1>13, <2>1, <2>3 DEF HaltUnavailable, RunOK, Failed, Before, Holding, ledgerVars
  <2> QED
    BY <2>1, <2>2, <2>4, LocalStep
<1>14. CASE ConfirmUnavailable(r)
  <2>1. /\ OnlyRun(r) /\ sequence'[r] = sequence[r] /\ callId'[r] = callId[r]
        /\ UNCHANGED ledgerVars
    BY <1>14 DEF ConfirmUnavailable, OnlyRun
  <2>2. ExecutorTypeOK'
    BY <1>14 DEF ConfirmUnavailable, LedgerTypeOK, ledgerVars, Labels, Answers, Refusals
  <2>3. Owns(r) => Owns(r)'
    BY <2>1 DEF Owns, ledgerVars
  <2>4. RunOK(r)'
    BY <1>0, <1>14, <2>1, <2>3 DEF ConfirmUnavailable, RunOK, Failed, Before, Holding, ledgerVars
  <2> QED
    BY <2>1, <2>2, <2>4, LocalStep
<1>15. CASE Crash(r)
  <2>1. /\ OnlyRun(r) /\ sequence'[r] = sequence[r] /\ callId'[r] = callId[r]
        /\ UNCHANGED ledgerVars
    BY <1>15 DEF Crash, OnlyRun
  <2>2. ExecutorTypeOK'
    BY <1>15 DEF Crash, LedgerTypeOK, ledgerVars, Labels, Answers, StopReasons
  <2>3. Owns(r) => Owns(r)'
    BY <2>1 DEF Owns, ledgerVars
  <2>4. RunOK(r)'
    <3>1. sequence[r] = 0 \/ active = sequence[r]
      BY <1>0, <1>15 DEF Crash, RunOK, Before, Holding, Labels
    <3> QED
      BY <1>0, <1>15, <2>1, <2>3, <3>1 DEF Crash, RunOK, Failed, Before, Holding, ledgerVars
  <2> QED
    BY <2>1, <2>2, <2>4, LocalStep
<1> QED
  BY <1>1, <1>2, <1>3, <1>4, <1>5, <1>6, <1>7, <1>8, <1>9, <1>10, <1>11, <1>12, <1>13, <1>14, <1>15

LEMMA InvInit == Init => IInv
<1> SUFFICES ASSUME Init PROVE IInv
  OBVIOUS
<1>1. ExecutorTypeOK
  <2>1. LedgerTypeOK
    <3>1. <<>> \in Seq(Entry)
      OBVIOUS
    <3>2. daily \in [Days -> Nat]
      BY DEF Init, LedgerInit
    <3> QED
      BY <3>1, <3>2, ClockAssumption DEF Init, LedgerInit, LedgerTypeOK
  <2>2. pc \in [Runs -> Labels] /\ answer \in [Runs -> Answers]
    BY DEF Init, Labels, Answers
  <2> QED
    BY <2>1, <2>2 DEF Init, ExecutorTypeOK
<1>2. RowValid
  <2>1. requests = <<>> /\ Len(requests) = 0 /\ DOMAIN requests = {}
    BY DEF Init, LedgerInit
  <2>2. \A d : AdmittedOn(d) = {}
    BY <2>1 DEF AdmittedOn
  <2>3. \A d \in Days : daily[d] = 0 /\ Cardinality(AdmittedOn(d)) = 0
    BY <2>2, FS_EmptySet DEF Init, LedgerInit
  <2> QED
    BY <2>1, <2>3, ClockAssumption, LimitAssumption DEF RowValid, Init, LedgerInit
<1>3. OneOwner
  BY DEF Init, OneOwner
<1>4. \A r \in Runs : RunOK(r)
  BY DEF Init, RunOK, Failed, Before, Holding
<1> QED
  BY <1>1, <1>2, <1>3, <1>4 DEF IInv

LEMMA BootstrapKeeps == IInv /\ Bootstrap => IInv'
<1> SUFFICES ASSUME IInv, Bootstrap PROVE IInv'
  OBVIOUS
<1>1. LedgerTypeOK' /\ RowValid'
  BY SameKeepsRow DEF IInv, ExecutorTypeOK, LedgerTypeOK, Bootstrap, initializeOfflineFixture
<1>2. UNCHANGED <<requests, active, stopped, runVars>>
  BY DEF Bootstrap, initializeOfflineFixture
<1>3. ExecutorTypeOK'
  BY <1>1, <1>2 DEF IInv, ExecutorTypeOK, runVars
<1>4. OneOwner' /\ \A r \in Runs : RunOK(r)'
  BY <1>2 DEF IInv, OneOwner, RunOK, Owns, Failed, runVars
<1> QED
  BY <1>1, <1>3, <1>4 DEF IInv

LEMMA StutterKeeps == IInv /\ UNCHANGED vars => IInv'
<1> SUFFICES ASSUME IInv, UNCHANGED vars PROVE IInv'
  OBVIOUS
<1>1. LedgerTypeOK' /\ RowValid'
  BY SameKeepsRow DEF IInv, ExecutorTypeOK, LedgerTypeOK, vars, ledgerVars
<1>2. ExecutorTypeOK'
  BY <1>1 DEF IInv, ExecutorTypeOK, vars, runVars
<1>3. OneOwner' /\ \A r \in Runs : RunOK(r)'
  BY DEF IInv, OneOwner, RunOK, Owns, Failed, vars, ledgerVars, runVars
<1> QED
  BY <1>1, <1>2, <1>3 DEF IInv

LEMMA InvStep == IInv /\ [Next]_vars => IInv'
<1> SUFFICES ASSUME IInv, [Next]_vars PROVE IInv'
  OBVIOUS
<1>1. ASSUME NEW r \in Runs, Call(r) \/ Advance(r) \/ Environment(r)
      PROVE  IInv'
  BY <1>1, LocalKeeps, AdmittedKeeps, RefusedKeeps, AbandonKeeps, HaltKeeps, ConfirmKeeps
  DEF Advance, Environment
<1> QED
  BY <1>1, BootstrapKeeps, StutterKeeps DEF Next

LEMMA Invariance == Spec => []IInv
BY InvInit, InvStep, PTL DEF Spec

-----------------------------------------------------------------------------
(* The theorems.                                                              *)

(* Types of the row and of every call.                                        *)
THEOREM TypeCorrect == Spec => []ExecutorTypeOK
<1>1. IInv => ExecutorTypeOK
  BY DEF IInv
<1> QED
  BY <1>1, Invariance, PTL

(* Whatever the clock does and however calls, deaths and storage failures     *)
(* interleave, the row a transaction writes is one the next will accept       *)
(* (validateState, ledger.mjs:33-69).                                         *)
THEOREM RowAlwaysValid == Spec => []RowValid
<1>1. IInv => RowValid
  BY DEF IInv
<1> QED
  BY <1>1, Invariance, PTL

(* An open database read holds the slot, after a timeout or a crash too.      *)
THEOREM OpenReadHoldsSlot == Spec => []OpenHoldsSlot
<1>1. IInv => OpenHoldsSlot
  BY DEF IInv, RunOK, OpenHoldsSlot
<1> QED
  BY <1>1, Invariance, PTL

LEMMA LatchStep ==
  IInv /\ [Next]_vars => [(\E r \in Runs : Failed(r)) => Len(requests') = Len(requests)]_vars
<1> SUFFICES ASSUME IInv, Next, NEW f \in Runs, Failed(f)
             PROVE  Len(requests') = Len(requests)
  OBVIOUS
<1>1. active # 0 \/ stopped # "none"
  BY DEF IInv, RunOK, Failed
<1>2. LedgerTypeOK /\ RowValid
  BY DEF IInv, ExecutorTypeOK
<1>3. ASSUME NEW r \in Runs, Admitted(r) PROVE FALSE
  BY <1>1, <1>3 DEF Admitted, admitGranted, Observes, Running, Denial
<1>4. ASSUME NEW r \in Runs, Refused(r) PROVE requests' = requests
  BY <1>4, <1>2, RefuseKeepsRow DEF Refused, IInv, ExecutorTypeOK
<1>5. ASSUME NEW r \in Runs, Confirm(r) PROVE Len(requests') = Len(requests)
  BY <1>5, <1>2, ConfirmKeepsRow DEF Confirm, IInv, ExecutorTypeOK
<1>6. ASSUME NEW r \in Runs, Abandon(r) \/ Halt(r) PROVE requests' = requests
  BY <1>6 DEF Abandon, Halt, stop, ledgerVars
<1>7. ASSUME Bootstrap PROVE requests' = requests
  BY <1>7 DEF Bootstrap, initializeOfflineFixture
<1>8. ASSUME NEW r \in Runs, UNCHANGED ledgerVars PROVE requests' = requests
  BY <1>8 DEF ledgerVars
<1> QED
  BY <1>3, <1>4, <1>5, <1>6, <1>7, <1>8
  DEF Next, Call, Advance, Environment, Authorized, Unauthorized, AdmissionUnavailable,
      UntimedAdmission, StartRead, StartReadThrows, BackendCloses, Timeout,
      ClosureUnconfirmed, ReadFailed, ReadSucceeded, HaltUnavailable,
      ConfirmUnavailable, Crash

(* Failure latches: no read is admitted after an admitted call ended badly.   *)
THEOREM FailureLatches == Spec => NoAdmissionAfterFailure
BY Invariance, LatchStep, PTL DEF Spec, NoAdmissionAfterFailure

-----------------------------------------------------------------------------
(* The executor implements the budget.                                        *)

(* The budget's next-state relation under the refinement mapping.             *)
BudgetStep == [Budget!BudgetNext]_<<AdmittedIds, SlotIds, ReadingIds, BegunIds>>

LEMMA SegmentSize ==
  ASSUME NEW n \in Nat
  PROVE  IsFiniteSet(1 .. n) /\ Cardinality(1 .. n) = n
<1>1. 1 \in Int /\ n \in Int
  OBVIOUS
<1>2. /\ IsFiniteSet(1 .. n)
      /\ Cardinality(1 .. n) = IF 1 > n THEN 0 ELSE n - 1 + 1
  BY <1>1, FS_Interval
<1>3. (IF 1 > n THEN 0 ELSE n - 1 + 1) = n
  OBVIOUS
<1> QED
  BY <1>2, <1>3

(* No more identities than admissions.                                        *)
LEMMA AdmittedIdsBounded ==
  ASSUME LedgerTypeOK
  PROVE  Cardinality(AdmittedIds) <= Len(requests) /\ Cardinality(AdmittedIds) \in Nat
<1> DEFINE f == [i \in DOMAIN requests |-> requests[i].id]
<1>1. f \in Surjection(DOMAIN requests, AdmittedIds)
  BY DEF Surjection, AdmittedIds
<1>2. DOMAIN requests = 1 .. Len(requests) /\ Len(requests) \in Nat
  BY DEF LedgerTypeOK
<1>3. IsFiniteSet(DOMAIN requests) /\ Cardinality(DOMAIN requests) = Len(requests)
  <2>1. IsFiniteSet(1 .. Len(requests)) /\ Cardinality(1 .. Len(requests)) = Len(requests)
    BY <1>2, SegmentSize
  <2> QED
    BY <1>2, <2>1
<1>4. IsFiniteSet(AdmittedIds) /\ Cardinality(AdmittedIds) <= Len(requests)
  BY <1>1, <1>3, FS_Surjection
<1> QED
  BY <1>4, FS_CardinalityType

(* Two calls that hold admissions of the same identity are one call.          *)
LEMMA IdsIdentifyCalls ==
  ASSUME IInv, NEW r \in Runs, NEW q \in Runs,
         sequence[r] # 0, sequence[q] # 0, callId[r] = callId[q]
  PROVE  r = q
<1>1. Owns(r) /\ Owns(q)
  BY DEF IInv, RunOK
<1>2. sequence[r] \in Nat /\ sequence[q] \in Nat
  BY DEF IInv, ExecutorTypeOK
<1>3. sequence[r] = sequence[q]
  BY <1>1, <1>2 DEF IInv, RowValid, Owns
<1> QED
  BY <1>3 DEF IInv, OneOwner

(* Whoever reads is the owner of the slot, and nobody else reads.             *)
LEMMA ReaderIsOwner ==
  ASSUME IInv, NEW r \in Runs, active # 0, active = sequence[r]
  PROVE  /\ SlotIds = {callId[r]}
         /\ \A q \in Runs : backend[q] = "open" => q = r
         /\ backend[r] = "open" => ReadingIds = {callId[r]}
         /\ backend[r] # "open" => ReadingIds = {}
<1>1. SlotIds = {callId[r]}
  BY DEF IInv, RunOK, Owns, SlotIds
<1>2. \A q \in Runs : backend[q] = "open" => q = r
  BY DEF IInv, RunOK, OneOwner
<1> QED
  BY <1>1, <1>2 DEF ReadingIds

LEMMA FreeMeansNoRead ==
  ASSUME IInv, active = 0
  PROVE  SlotIds = {} /\ ReadingIds = {}
BY DEF IInv, RunOK, SlotIds, ReadingIds

LEMMA AdmittedSpends ==
  ASSUME IInv, NEW r \in Runs, Admitted(r)
  PROVE  BudgetStep
<1>0. PICK now \in Times : admitGranted(callId[r], now)
  BY DEF Admitted
<1>1. LedgerTypeOK /\ callId[r] \in Ids
  BY DEF IInv, ExecutorTypeOK
<1>2. /\ ~Replayed(callId[r]) /\ active = 0 /\ Len(requests) < TotalLimit
      /\ active' = Len(requests) + 1
      /\ requests' = Append(requests, [id |-> callId[r], at |-> now, closed |-> FALSE])
  BY <1>0, <1>1, LimitAssumption DEF admitGranted, Denial, Reserve, LedgerTypeOK
<1>3. /\ DOMAIN requests = 1 .. Len(requests) /\ Len(requests) \in Nat
      /\ DOMAIN requests' = 1 .. Len(requests) + 1
      /\ \A i \in DOMAIN requests : requests'[i] = requests[i]
      /\ requests'[Len(requests) + 1].id = callId[r]
  BY <1>1, <1>2 DEF LedgerTypeOK
<1>4. AdmittedIds' = AdmittedIds \cup {callId[r]}
  <2>1. \A i \in DOMAIN requests' : i \in DOMAIN requests \/ i = Len(requests) + 1
    BY <1>3
  <2>2. \A i \in DOMAIN requests : i \in DOMAIN requests'
    BY <1>3
  <2>3. Len(requests) + 1 \in DOMAIN requests'
    BY <1>3
  <2> QED
    BY <1>3, <2>1, <2>2, <2>3 DEF AdmittedIds
<1>5. callId[r] \notin AdmittedIds /\ Cardinality(AdmittedIds) < TotalLimit
  BY <1>1, <1>2, <1>3, AdmittedIdsBounded, LimitAssumption DEF Replayed, AdmittedIds
<1>6. SlotIds = {} /\ ReadingIds = {} /\ SlotIds' = {callId[r]}
  BY <1>2, <1>3, FreeMeansNoRead DEF SlotIds
<1>7. ReadingIds' = ReadingIds /\ BegunIds' = BegunIds
  BY DEF Admitted, ReadingIds, BegunIds
<1>8. Budget!Cardinality(AdmittedIds) < TotalLimit
  BY <1>5 DEF Cardinality, Budget!Cardinality
<1>9. Budget!Spend(callId[r])
  BY <1>4, <1>5, <1>6, <1>7, <1>8 DEF Budget!Spend
<1> QED
  BY <1>1, <1>9 DEF BudgetStep, Budget!BudgetNext

(* The database read is opened by the owner of the slot, for the first time.  *)
LEMMA OpeningBegins ==
  ASSUME IInv, NEW r \in Runs, pc[r] = "admitted",
         backend' = [backend EXCEPT ![r] = "open"],
         UNCHANGED <<ledgerVars, callId>>
  PROVE  BudgetStep
<1>1. /\ callId[r] \in Ids /\ active # 0 /\ active = sequence[r] /\ backend[r] = "none"
      /\ callId' = callId /\ backend \in [Runs -> {"none", "open", "closed"}]
  BY DEF IInv, ExecutorTypeOK, RunOK, Holding
<1>2. SlotIds = {callId[r]} /\ \A q \in Runs : backend[q] # "open"
  BY <1>1, ReaderIsOwner
<1>3. \A q \in Runs : backend[q] # "none" => callId[q] # callId[r]
  BY <1>1, IdsIdentifyCalls DEF IInv, RunOK
<1>4. /\ \A q \in Runs : backend'[q] = "open" <=> q = r
      /\ \A q \in Runs : backend'[q] # "none" <=> backend[q] # "none" \/ q = r
  BY <1>1, <1>2
<1>5. ReadingIds' = {callId[r]} /\ BegunIds' = BegunIds \cup {callId[r]}
  BY <1>1, <1>4 DEF ReadingIds, BegunIds
<1>6. callId[r] \notin BegunIds
  BY <1>3 DEF BegunIds
<1>7. AdmittedIds' = AdmittedIds /\ SlotIds' = SlotIds
  BY DEF ledgerVars, AdmittedIds, SlotIds
<1>8. Budget!Begin(callId[r])
  BY <1>2, <1>5, <1>6, <1>7 DEF Budget!Begin
<1> QED
  BY <1>1, <1>8 DEF BudgetStep, Budget!BudgetNext

LEMMA ClosingFinishes ==
  ASSUME IInv, NEW r \in Runs, BackendCloses(r)
  PROVE  BudgetStep
<1>1. /\ callId[r] \in Ids /\ active # 0 /\ active = sequence[r] /\ backend[r] = "open"
      /\ callId' = callId /\ backend \in [Runs -> {"none", "open", "closed"}]
      /\ backend' = [backend EXCEPT ![r] = "closed"]
  BY DEF IInv, ExecutorTypeOK, RunOK, BackendCloses
<1>2. ReadingIds = {callId[r]} /\ \A q \in Runs : backend[q] = "open" => q = r
  BY <1>1, ReaderIsOwner
<1>3. /\ \A q \in Runs : backend'[q] # "open"
      /\ \A q \in Runs : backend'[q] # "none" <=> backend[q] # "none"
  BY <1>1, <1>2
<1>4. ReadingIds' = {} /\ BegunIds' = BegunIds
  BY <1>1, <1>3 DEF ReadingIds, BegunIds
<1>5. AdmittedIds' = AdmittedIds /\ SlotIds' = SlotIds
  BY DEF BackendCloses, ledgerVars, AdmittedIds, SlotIds
<1>6. Budget!Finish(callId[r])
  BY <1>2, <1>4, <1>5 DEF Budget!Finish
<1> QED
  BY <1>1, <1>6 DEF BudgetStep, Budget!BudgetNext

LEMMA ConfirmingReleases ==
  ASSUME IInv, NEW r \in Runs, Confirm(r)
  PROVE  BudgetStep
<1>1. /\ active # 0 /\ active = sequence[r] /\ backend[r] # "open"
      /\ LedgerTypeOK /\ RowValid /\ callId[r] \in Ids /\ sequence[r] \in Nat
      /\ confirmClosed(callId[r], sequence[r])
  BY DEF IInv, ExecutorTypeOK, RunOK, Confirm, Holding
<1>2. ReadingIds = {}
  BY <1>1, ReaderIsOwner
<1>3. AdmittedIds' = AdmittedIds
  BY <1>1, ConfirmKeepsRow DEF AdmittedIds
<1>4. SlotIds' = {} /\ ReadingIds' = ReadingIds /\ BegunIds' = BegunIds
  BY <1>1 DEF confirmClosed, Confirm, SlotIds, ReadingIds, BegunIds
<1>5. Budget!Release
  BY <1>2, <1>3, <1>4 DEF Budget!Release
<1> QED
  BY <1>5 DEF BudgetStep, Budget!BudgetNext

(* Every other step leaves what the budget sees as it was.                    *)
LEMMA QuietStep ==
  ASSUME UNCHANGED <<requests, active, callId, backend>>
  PROVE  BudgetStep
BY DEF BudgetStep, AdmittedIds, SlotIds, ReadingIds, BegunIds

LEMMA BudgetNextStep == IInv /\ [Next]_vars => BudgetStep
<1> SUFFICES ASSUME IInv, [Next]_vars PROVE BudgetStep
  OBVIOUS
<1>1. ASSUME NEW r \in Runs, StartRead(r) \/ StartReadThrows(r) PROVE BudgetStep
  <2>1. pc[r] = "admitted" /\ UNCHANGED <<ledgerVars, callId>>
    BY <1>1 DEF StartRead, StartReadThrows
  <2>2. backend' = backend \/ backend' = [backend EXCEPT ![r] = "open"]
    BY <1>1 DEF StartRead, StartReadThrows
  <2>3. CASE backend' = backend
    BY <2>1, <2>3, QuietStep DEF ledgerVars
  <2>4. CASE backend' = [backend EXCEPT ![r] = "open"]
    BY <2>1, <2>4, OpeningBegins
  <2> QED
    BY <2>2, <2>3, <2>4
<1>2. ASSUME NEW r \in Runs, Refused(r) PROVE BudgetStep
  <2>1. requests' = requests /\ active' = active
    BY <1>2, RefuseKeepsRow DEF Refused, IInv, ExecutorTypeOK
  <2> QED
    BY <1>2, <2>1, QuietStep DEF Refused
<1>3. ASSUME NEW r \in Runs, Abandon(r) \/ Halt(r) PROVE BudgetStep
  BY <1>3, QuietStep DEF Abandon, Halt, stop, ledgerVars
<1>4. ASSUME NEW r \in Runs,
        \/ Call(r) \/ Authorized(r) \/ Unauthorized(r) \/ AdmissionUnavailable(r)
        \/ UntimedAdmission(r) \/ Timeout(r) \/ ClosureUnconfirmed(r)
        \/ ReadFailed(r) \/ ReadSucceeded(r)
        \/ HaltUnavailable(r) \/ ConfirmUnavailable(r) \/ Crash(r)
      PROVE BudgetStep
  BY <1>4, QuietStep
  DEF ledgerVars, Call, Authorized, Unauthorized, AdmissionUnavailable, UntimedAdmission,
      Timeout, ClosureUnconfirmed, ReadFailed, ReadSucceeded, HaltUnavailable,
      ConfirmUnavailable, Crash
<1>5. CASE Bootstrap
  BY <1>5, QuietStep DEF Bootstrap, initializeOfflineFixture, runVars
<1>6. CASE UNCHANGED vars
  BY <1>6, QuietStep DEF vars, ledgerVars, runVars
<1> QED
  BY <1>1, <1>2, <1>3, <1>4, <1>5, <1>6, AdmittedSpends, ClosingFinishes, ConfirmingReleases
  DEF Next, Advance, Environment

LEMMA BudgetInitially == Init => Budget!BudgetInit
BY DEF Init, LedgerInit, Budget!BudgetInit, AdmittedIds, SlotIds, ReadingIds, BegunIds

(* One read at a time, each identity at most once, never more than the limit, *)
(* across processes, crashes, storage failures and clock rollbacks.           *)
THEOREM ImplementsBudget == Spec => KeepsBudget
<1>1. IInv /\ [Next]_vars => [Budget!BudgetNext]_Budget!budgetVars
  BY BudgetNextStep DEF BudgetStep, Budget!budgetVars
<1> QED
  BY <1>1, BudgetInitially, Invariance, PTL DEF Spec, KeepsBudget, Budget!BudgetSpec

-----------------------------------------------------------------------------
(* The pilot.  A gate names a request that is inside, of this very process; a   *)
(* request inside asked for a read and, once its grants were inspected, saw the *)
(* reader's; and a read is spent by a request that is past the budget.          *)

HeldInside ==
  \A p \in Processes : gate[p] # None =>
    requestPc[gate[p]] \in Pilot!Inside /\ ask[gate[p]].process = p

RequestOK(r) ==
  /\ requestPc[r] \in {"routed"} \cup Pilot!Inside => ask[r].kind = "read"
  /\ requestPc[r] = "inspected" => seen[r].grants = "reader"
  /\ reply[r] = "served" => requestPc[r] = "answered"

SpentOK(p) ==
  /\ IsFiniteSet(spent[p])
  /\ \A r \in spent[p] : requestPc[r] \notin {"new", "routed", "gated"}
  /\ process[p].remaining + Cardinality(spent[p]) = MaxReads

PilotInv ==
  /\ Pilot!TypeOK /\ Pilot!GateGuardsReads /\ Pilot!ServedIsVerified /\ HeldInside
  /\ \A r \in Requests : RequestOK(r)
  /\ \A p \in Processes : SpentOK(p)

LEMMA PilotInit ==
  ASSUME Pilot!Init
  PROVE  PilotInv
  <1>. USE ReadsAssumption DEF Pilot!Init, Pilot!ReadsAssumption, Pilot!Replies
  <1>1. Pilot!TypeOK
    BY DEF Pilot!TypeOK, Pilot!Started, Pilot!Inside, Pilot!Finished, Pilot!NoSight
  <1>2. Pilot!GateGuardsReads /\ Pilot!ServedIsVerified /\ HeldInside
    BY DEF Pilot!GateGuardsReads, Pilot!ServedIsVerified, HeldInside, Pilot!Inside
  <1>3. \A r \in Requests : RequestOK(r)
    BY DEF RequestOK, Pilot!Inside
  <1>4. ASSUME NEW p \in Processes PROVE SpentOK(p)
    <2>1. spent[p] = {} /\ process[p].remaining = MaxReads
      BY DEF Pilot!Started
    <2>. QED
      BY <2>1, FS_EmptySet DEF SpentOK
  <1>. QED
    BY <1>1, <1>2, <1>3, <1>4 DEF PilotInv

(* What a request's own steps need of its state.                                *)
LEMMA InsideRequest ==
  ASSUME PilotInv, NEW r \in Requests, requestPc[r] \in {"routed"} \cup Pilot!Inside
  PROVE  /\ ask[r].process \in Processes /\ ask[r].kind = "read"
         /\ reply[r] # "served"
         /\ requestPc[r] \in Pilot!Inside => gate[ask[r].process] = r
  BY DEF PilotInv, Pilot!TypeOK, RequestOK, Pilot!GateGuardsReads, Pilot!Home, Pilot!Inside

LEMMA ArriveStep ==
  ASSUME PilotInv, NEW r \in Requests, NEW k \in Kinds, NEW p \in Processes,
         Pilot!Arrive(r, k, p)
  PROVE  PilotInv'
  <1>. DEFINE code == Pilot!Refusal(r, k, p)
  <1>1. /\ requestPc[r] = "new"
        /\ UNCHANGED <<time, process, gate, seen, fixture, grants, changes, spent>>
        /\ ask' = [ask EXCEPT ![r] = [kind |-> k, process |-> p]]
    BY DEF Pilot!Arrive, Pilot!db
  <1>2. /\ code = None => k = "read"
        /\ code # "served" /\ code \in Kinds \cup Pilot!Replies \cup {None}
    BY ReadsAssumption DEF Pilot!Refusal, Pilot!ReadsAssumption, Pilot!Replies
  <1>3. \/ code = None /\ requestPc' = [requestPc EXCEPT ![r] = "routed"] /\ reply' = reply
        \/ code # None /\ requestPc' = [requestPc EXCEPT ![r] = "answered"]
           /\ reply' = [reply EXCEPT ![r] = code]
    BY DEF Pilot!Arrive, Pilot!Answer
  <1>. HIDE DEF code
  <1>4. Pilot!TypeOK'
    <2>1. /\ ask' \in [Requests -> [kind : Kinds, process : Processes] \cup {None}]
          /\ \A q \in Requests : requestPc'[q] # "new" =>
               ask'[q] \in [kind : Kinds, process : Processes]
      BY <1>1, <1>3 DEF PilotInv, Pilot!TypeOK
    <2>2. reply' \in [Requests -> Kinds \cup Pilot!Replies \cup {None}]
      BY <1>2, <1>3 DEF PilotInv, Pilot!TypeOK
    <2>3. requestPc' \in [Requests -> {"new", "routed"} \cup Pilot!Inside \cup Pilot!Finished]
      BY <1>3 DEF PilotInv, Pilot!TypeOK, Pilot!Finished
    <2>. QED
      BY <1>1, <2>1, <2>2, <2>3 DEF PilotInv, Pilot!TypeOK
  <1>5. \A q \in Processes : gate[q] # r
    BY <1>1, ReadsAssumption DEF PilotInv, HeldInside, Pilot!Inside, Pilot!ReadsAssumption
  <1>6. Pilot!GateGuardsReads'
    BY <1>1, <1>3, <1>5 DEF PilotInv, Pilot!TypeOK, Pilot!GateGuardsReads, Pilot!Home, Pilot!Inside
  <1>7. HeldInside'
    BY <1>1, <1>3, <1>5 DEF PilotInv, Pilot!TypeOK, HeldInside
  <1>8. (\A q \in Requests : RequestOK(q))' /\ Pilot!ServedIsVerified'
    BY <1>1, <1>2, <1>3
    DEF PilotInv, Pilot!TypeOK, RequestOK, Pilot!ServedIsVerified, Pilot!Inside
  <1>9. (\A q \in Processes : SpentOK(q))'
    BY <1>1, <1>3 DEF PilotInv, Pilot!TypeOK, SpentOK
  <1>. QED
    BY <1>4, <1>6, <1>7, <1>8, <1>9 DEF PilotInv

LEMMA AcquireStep ==
  ASSUME PilotInv, NEW r \in Requests, Pilot!Acquire(r)
  PROVE  PilotInv'
  <1>. DEFINE p == ask[r].process
  <1>1. /\ requestPc[r] = "routed"
        /\ UNCHANGED <<time, process, ask, seen, fixture, grants, changes, spent>>
    BY DEF Pilot!Acquire, Pilot!db
  <1>2. /\ p \in Processes /\ ask[r].kind = "read" /\ reply[r] # "served"
        /\ \A q \in Processes : gate[q] # r
    BY <1>1, InsideRequest, ReadsAssumption
    DEF PilotInv, HeldInside, Pilot!Inside, Pilot!ReadsAssumption
  <1>3. \/ /\ gate[p] = None /\ gate' = [gate EXCEPT ![p] = r]
           /\ requestPc' = [requestPc EXCEPT ![r] = "gated"] /\ reply' = reply
        \/ /\ gate[p] # None /\ gate' = gate
           /\ requestPc' = [requestPc EXCEPT ![r] = "answered"]
           /\ reply' = [reply EXCEPT ![r] = "pilot_busy"]
    BY DEF Pilot!Acquire, Pilot!Answer, Pilot!Home
  <1>. HIDE DEF p
  <1>4. Pilot!TypeOK'
    <2>1. requestPc' \in [Requests -> {"new", "routed"} \cup Pilot!Inside \cup Pilot!Finished]
      BY <1>3 DEF PilotInv, Pilot!TypeOK, Pilot!Inside, Pilot!Finished
    <2>2. reply' \in [Requests -> Kinds \cup Pilot!Replies \cup {None}]
      BY <1>3 DEF PilotInv, Pilot!TypeOK, Pilot!Replies
    <2>3. gate' \in [Processes -> Requests \cup {None}]
      BY <1>2, <1>3 DEF PilotInv, Pilot!TypeOK
    <2>4. \A q \in Requests : requestPc'[q] # "new" => requestPc[q] # "new"
      BY <1>1, <1>3 DEF PilotInv, Pilot!TypeOK
    <2>. QED
      BY <1>1, <2>1, <2>2, <2>3, <2>4 DEF PilotInv, Pilot!TypeOK
  <1>5. Pilot!GateGuardsReads'
    BY <1>1, <1>2, <1>3, ReadsAssumption
    DEF PilotInv, Pilot!TypeOK, Pilot!GateGuardsReads, Pilot!Home, Pilot!Inside,
        Pilot!ReadsAssumption, p
  <1>6. HeldInside'
    BY <1>1, <1>2, <1>3 DEF PilotInv, Pilot!TypeOK, HeldInside, Pilot!Inside, p
  <1>7. (\A q \in Requests : RequestOK(q))' /\ Pilot!ServedIsVerified'
    BY <1>1, <1>2, <1>3
    DEF PilotInv, Pilot!TypeOK, RequestOK, Pilot!ServedIsVerified, Pilot!Inside
  <1>8. (\A q \in Processes : SpentOK(q))'
    BY <1>1, <1>3 DEF PilotInv, Pilot!TypeOK, SpentOK
  <1>. QED
    BY <1>4, <1>5, <1>6, <1>7, <1>8 DEF PilotInv

(* A request that gives its answer leaves the gate to nobody.                   *)
LEMMA LeavingStep ==
  ASSUME PilotInv, NEW r \in Requests, requestPc[r] \in Pilot!Inside,
         NEW code \in Pilot!Replies,
         code = "served" => /\ requestPc[r] = "inspected" /\ seen[r].fixture = "approved",
         Pilot!Answer(r, code), Pilot!Release(r),
         UNCHANGED <<time, process, ask, seen, fixture, grants, changes, spent>>
  PROVE  PilotInv'
  <1>. DEFINE p == ask[r].process
  <1>1. /\ p \in Processes /\ ask[r].kind = "read" /\ reply[r] # "served" /\ gate[p] = r
    BY InsideRequest
  <1>2. \A q \in Processes : gate[q] = r => q = p
    BY ReadsAssumption DEF PilotInv, HeldInside, Pilot!ReadsAssumption
  <1>3. /\ gate' = [gate EXCEPT ![p] = None]
        /\ requestPc' = [requestPc EXCEPT ![r] = "answered"]
        /\ reply' = [reply EXCEPT ![r] = code]
    BY DEF Pilot!Answer, Pilot!Release, Pilot!Home
  <1>. HIDE DEF p
  <1>4. Pilot!TypeOK'
    BY <1>1, <1>3 DEF PilotInv, Pilot!TypeOK, Pilot!Inside, Pilot!Finished
  <1>5. Pilot!GateGuardsReads'
    BY <1>1, <1>2, <1>3, ReadsAssumption
    DEF PilotInv, Pilot!TypeOK, Pilot!GateGuardsReads, Pilot!Home, Pilot!Inside,
        Pilot!ReadsAssumption, p
  <1>6. HeldInside'
    BY <1>1, <1>2, <1>3 DEF PilotInv, Pilot!TypeOK, HeldInside
  <1>7. (\A q \in Requests : RequestOK(q))'
    BY <1>3 DEF PilotInv, Pilot!TypeOK, RequestOK, Pilot!Inside
  <1>8. code = "served" => seen[r] = [fixture |-> "approved", grants |-> "reader"]
    BY DEF PilotInv, Pilot!TypeOK, RequestOK
  <1>9. Pilot!ServedIsVerified'
    BY <1>1, <1>3, <1>8 DEF PilotInv, Pilot!TypeOK, Pilot!ServedIsVerified
  <1>10. (\A q \in Processes : SpentOK(q))'
    BY <1>3 DEF PilotInv, Pilot!TypeOK, SpentOK
  <1>. QED
    BY <1>4, <1>5, <1>6, <1>7, <1>9, <1>10 DEF PilotInv

(* A request that goes on to its next point inside keeps the gate.              *)
LEMMA InsideStep ==
  ASSUME PilotInv, NEW r \in Requests, requestPc[r] \in Pilot!Inside,
         NEW next \in Pilot!Inside, requestPc' = [requestPc EXCEPT ![r] = next],
         UNCHANGED <<gate, ask, reply, time, fixture, grants, changes>>,
         Pilot!TypeOK',
         \A q \in Requests \ {r} : seen'[q] = seen[q],
         next = "inspected" => seen'[r].grants = "reader",
         \A q \in Processes : SpentOK(q)'
  PROVE  PilotInv'
  <1>1. ask[r].kind = "read" /\ reply[r] # "served"
    BY InsideRequest
  <1>2. Pilot!GateGuardsReads'
    BY DEF PilotInv, Pilot!TypeOK, Pilot!GateGuardsReads, Pilot!Home, Pilot!Inside
  <1>3. HeldInside'
    BY DEF PilotInv, Pilot!TypeOK, HeldInside
  <1>4. (\A q \in Requests : RequestOK(q))' /\ Pilot!ServedIsVerified'
    BY <1>1 DEF PilotInv, Pilot!TypeOK, RequestOK, Pilot!ServedIsVerified, Pilot!Inside
  <1>. QED
    BY <1>2, <1>3, <1>4 DEF PilotInv

LEMMA SpendStep ==
  ASSUME PilotInv, NEW r \in Requests, Pilot!Spend(r)
  PROVE  PilotInv'
  <1>. DEFINE p == ask[r].process
  <1>1. /\ requestPc[r] = "gated" /\ requestPc[r] \in Pilot!Inside
        /\ UNCHANGED <<time, ask, seen, fixture, grants, changes>>
    BY DEF Pilot!Spend, Pilot!db, Pilot!Inside
  <1>2. p \in Processes
    BY <1>1, InsideRequest
  <1>3. CASE process[p].remaining <= 0
    BY <1>1, <1>3, LeavingStep DEF Pilot!Spend, Pilot!Home, Pilot!Replies
  <1>4. CASE ~(process[p].remaining <= 0)
    <2>1. /\ process' = [process EXCEPT ![p].remaining = @ - 1]
          /\ spent' = [spent EXCEPT ![p] = @ \cup {r}]
          /\ requestPc' = [requestPc EXCEPT ![r] = "connecting"] /\ UNCHANGED <<reply, gate>>
      BY <1>4 DEF Pilot!Spend, Pilot!Home
    <2>2. process[p].remaining \in 1 .. MaxReads /\ MaxReads \in Nat
      BY <1>2, <1>4, ReadsAssumption DEF PilotInv, Pilot!TypeOK, Pilot!ReadsAssumption
    <2>3. Pilot!TypeOK'
      BY <1>1, <1>2, <2>1, <2>2 DEF PilotInv, Pilot!TypeOK, Pilot!Inside
    <2>4. ASSUME NEW q \in Processes PROVE SpentOK(q)'
      <3>1. CASE q # p
        BY <1>1, <1>2, <2>1, <3>1 DEF PilotInv, Pilot!TypeOK, SpentOK
      <3>2. CASE q = p
        <4>1. /\ SpentOK(p) /\ r \notin spent[p] /\ spent'[p] = spent[p] \cup {r}
              /\ process'[p].remaining = process[p].remaining - 1
          BY <1>1, <1>2, <2>1, <2>2 DEF PilotInv, Pilot!TypeOK, SpentOK
        <4>2. IsFiniteSet(spent[p]) /\ Cardinality(spent[p]) \in Nat
          BY <4>1, FS_CardinalityType DEF SpentOK
        <4>3. /\ IsFiniteSet(spent'[p])
              /\ Cardinality(spent'[p]) = Cardinality(spent[p]) + 1
          <5>. DEFINE S == spent[p]
          <5>1. r \notin S /\ spent'[p] = S \cup {r} /\ IsFiniteSet(S)
            BY <4>1, <4>2
          <5>. HIDE DEF S
          <5>2. IsFiniteSet(S \cup {r}) /\ Cardinality(S \cup {r}) = Cardinality(S) + 1
            BY <5>1, FS_AddElement
          <5>. QED
            BY <5>1, <5>2 DEF S
        <4>4. \A x \in spent'[p] : requestPc'[x] \notin {"new", "routed", "gated"}
          BY <1>2, <2>1, <4>1 DEF PilotInv, Pilot!TypeOK, SpentOK
        <4>5. process'[p].remaining + Cardinality(spent'[p]) = MaxReads
          BY <2>2, <4>1, <4>2, <4>3 DEF SpentOK
        <4>. QED
          BY <3>2, <4>3, <4>4, <4>5 DEF SpentOK
      <3>. QED
        BY <3>1, <3>2
    <2>5. "connecting" \in Pilot!Inside /\ "connecting" # "inspected"
      BY DEF Pilot!Inside
    <2>. QED
      BY <1>1, <2>1, <2>3, <2>4, <2>5, InsideStep
  <1>. QED
    BY <1>3, <1>4

LEMMA ReadingStep ==
  ASSUME PilotInv, NEW r \in Requests, Pilot!Begin(r) \/ Pilot!Inspect(r)
  PROVE  PilotInv'
  <1>1. /\ requestPc[r] \in {"connecting", "begun"} /\ requestPc[r] \in Pilot!Inside
        /\ UNCHANGED <<time, process, gate, ask, reply, fixture, grants, changes, spent>>
    BY DEF Pilot!Begin, Pilot!Inspect, Pilot!db, Pilot!Inside
  <1>2. PICK next \in {"begun", "inspected"} : requestPc' = [requestPc EXCEPT ![r] = next]
    BY DEF Pilot!Begin, Pilot!Inspect
  <1>3. /\ Pilot!TypeOK'
        /\ next = "inspected" => seen'[r].grants = "reader"
        /\ \A q \in Requests \ {r} : seen'[q] = seen[q]
    <2>1. CASE Pilot!Begin(r)
      BY <1>1, <1>2, <2>1 DEF Pilot!Begin, PilotInv, Pilot!TypeOK, Pilot!Inside
    <2>2. CASE Pilot!Inspect(r)
      BY <1>1, <1>2, <2>2 DEF Pilot!Inspect, PilotInv, Pilot!TypeOK, Pilot!Inside
    <2>. QED
      BY <2>1, <2>2
  <1>4. ASSUME NEW q \in Processes PROVE SpentOK(q)'
    BY <1>1, <1>2 DEF PilotInv, Pilot!TypeOK, SpentOK
  <1>5. next \in Pilot!Inside
    BY DEF Pilot!Inside
  <1>. QED
    BY <1>1, <1>2, <1>3, <1>4, <1>5, InsideStep

LEMMA AnswerStep ==
  ASSUME PilotInv, NEW r \in Requests, Pilot!Serve(r) \/ Pilot!Fail(r)
  PROVE  PilotInv'
  <1>1. requestPc[r] \in Pilot!Inside /\ Pilot!Release(r)
        /\ UNCHANGED <<time, process, ask, seen, fixture, grants, changes, spent>>
    BY DEF Pilot!Serve, Pilot!Fail, Pilot!Inside, Pilot!db
  <1>2. CASE Pilot!Serve(r)
    BY <1>1, <1>2, LeavingStep DEF Pilot!Serve, Pilot!Replies
  <1>3. CASE Pilot!Fail(r)
    BY <1>1, <1>3, LeavingStep DEF Pilot!Fail, Pilot!Replies
  <1>. QED
    BY <1>2, <1>3

LEMMA RestartStep ==
  ASSUME PilotInv, NEW p \in Processes, Pilot!Restart(p)
  PROVE  PilotInv'
  <1>. DEFINE cut(r) == requestPc[r] \in {"routed"} \cup Pilot!Inside /\ ask[r].process = p
  <1>1. /\ process' = [process EXCEPT ![p] = Pilot!Started(process[p].restarts + 1)]
        /\ gate' = [gate EXCEPT ![p] = None] /\ spent' = [spent EXCEPT ![p] = {}]
        /\ UNCHANGED <<time, ask, seen, reply, fixture, grants, changes>>
        /\ requestPc' = [r \in Requests |-> IF cut(r) THEN "lost" ELSE requestPc[r]]
    BY DEF Pilot!Restart, Pilot!Home, Pilot!db
  <1>2. Pilot!Started(process[p].restarts + 1) \in
          [configured : BOOLEAN, remaining : 0 .. MaxReads, restarts : Nat]
    BY ReadsAssumption DEF Pilot!Started, PilotInv, Pilot!TypeOK, Pilot!ReadsAssumption
  <1>3. Pilot!TypeOK'
    BY <1>1, <1>2 DEF PilotInv, Pilot!TypeOK, Pilot!Inside, Pilot!Finished
  <1>4. Pilot!GateGuardsReads'
    BY <1>1, ReadsAssumption
    DEF PilotInv, Pilot!TypeOK, Pilot!GateGuardsReads, Pilot!Home, Pilot!Inside, Pilot!ReadsAssumption
  <1>5. HeldInside'
    BY <1>1 DEF PilotInv, Pilot!TypeOK, HeldInside
  <1>6. (\A q \in Requests : RequestOK(q))' /\ Pilot!ServedIsVerified'
    BY <1>1 DEF PilotInv, Pilot!TypeOK, RequestOK, Pilot!ServedIsVerified, Pilot!Inside
  <1>7. ASSUME NEW q \in Processes PROVE SpentOK(q)'
    <2>1. CASE q = p
      <3>1. spent'[p] = {} /\ process'[p].remaining = MaxReads /\ MaxReads \in Nat
        BY <1>1, ReadsAssumption DEF PilotInv, Pilot!TypeOK, Pilot!Started, Pilot!ReadsAssumption
      <3>. QED
        BY <2>1, <3>1, FS_EmptySet DEF SpentOK
    <2>2. CASE q # p
      BY <1>1, <2>2 DEF PilotInv, Pilot!TypeOK, SpentOK, Pilot!Inside
    <2>. QED
      BY <2>1, <2>2
  <1>. QED
    BY <1>3, <1>4, <1>5, <1>6, <1>7 DEF PilotInv

LEMMA PilotStep ==
  ASSUME PilotInv, [Pilot!Next]_Pilot!vars
  PROVE  PilotInv'
  <1>1. CASE UNCHANGED <<process, gate, requestPc, ask, seen, reply, spent>>
             /\ (Pilot!Change \/ Pilot!Tick \/ UNCHANGED Pilot!vars)
    <2>1. Pilot!TypeOK'
      BY <1>1 DEF PilotInv, Pilot!TypeOK, Pilot!Change, Pilot!Tick, Pilot!vars, Pilot!db
    <2>. QED
      BY <1>1, <2>1
      DEF PilotInv, Pilot!GateGuardsReads, Pilot!ServedIsVerified, Pilot!Home, HeldInside,
          RequestOK, SpentOK
  <1>. QED
    BY <1>1, ArriveStep, AcquireStep, SpendStep, ReadingStep, AnswerStep, RestartStep
    DEF Pilot!Next, Pilot!Handle, Pilot!Change, Pilot!Tick, Pilot!vars, Pilot!db

(* However requests, recycled processes, writers and the expiry interleave: one *)
(* read at a time in a process, a budget spent once per read, and only the      *)
(* approved fixture served, under the reader's grants.                          *)
THEOREM PilotServesHolds == Pilot!Spec => []PilotServes
  <1>1. PilotInv => PilotServes
    <2>1. ASSUME PilotInv, NEW p \in Processes
          PROVE  process[p].remaining + Pilot!Cardinality(spent[p]) = MaxReads
      BY <2>1 DEF PilotInv, SpentOK, Pilot!Cardinality, Cardinality
    <2>. QED
      BY <2>1 DEF PilotInv, PilotServes, Pilot!BudgetCountsReads
  <1>. QED
    BY <1>1, PilotInit, PilotStep, PTL DEF Pilot!Spec
=============================================================================
