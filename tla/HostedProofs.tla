----------------------------- MODULE HostedProofs -----------------------------
(* Proofs about PrivateScheduler, WorkerDeployment and ForwardStatus, for every *)
(* set of slots, deliveries and runs, every window and any number of deployment *)
(* jobs and of runs that status() reads.                                        *)
EXTENDS MCHosted, Sequences, WellFoundedInduction, FiniteSetTheorems, TLAPS

-----------------------------------------------------------------------------
(* The inductive invariant.  A dispatch carries a slot that has begun; a run    *)
(* got past the claim only as the one the claim names; what a run recorded and  *)
(* what it reports follow the place it has reached.                             *)

Aimed == \A e \in Events : event[e].pc \in {"looking", "dispatching"} =>
                              event[e].slot \in Slots /\ event[e].slot <= now

Dated(r) == run[r].pc # "none" =>
              run[r].slot \in Slots /\ run[r].slot <= run[r].created /\ run[r].created <= now

Prompt(r) == run[r].pc \in Executing => run[r].created - run[r].slot <= Fresh

Working == {"preparing", "refreshing", "admitting", "recording", "settling"}

Claimed(r) ==
  /\ run[r].pc \in Working => r \in worked
  /\ r \in worked => /\ run[r].pc \in Working \cup {"archiving", "reporting", "ended"}
                     /\ claim[run[r].slot] = r
                     /\ run[r].created - run[r].slot <= Fresh

Kept(r) ==
  recorded[r] # None => /\ r \in worked
                        /\ run[r].pc \in {"settling", "archiving", "reporting", "ended"}

Told(r) ==
  /\ status[r] # "failed" => r \in worked /\ run[r].pc \in {"archiving", "reporting", "ended"}
  /\ status[r] = "recorded" => recorded[r] # None
  /\ status[r] # "failed" /\ run[r].pc = "reporting" => r \in archive
  /\ r \in receipt => run[r].pc = "ended" /\ (status[r] # "failed" => r \in archive)

RunOK(r) == Dated(r) /\ Prompt(r) /\ Claimed(r) /\ Kept(r) /\ Told(r)

(* What a closed issue stands on, and it stays: the claimant has ended.         *)
Earned(s) ==
  \E r \in worked : /\ run[r].slot = s /\ claim[s] = r /\ run[r].pc = "ended"
                    /\ r \in archive /\ recorded[r] \in s .. s + Late

Observed == now >= LastSlot + Day \/ \A s \in Slots : Rows(s) # {}

Closing ==
  /\ report.eligible \/ issue = "closed" => \A s \in Slots : Earned(s)
  /\ report.finished \/ cron = "off" => Observed

IInv == TypeOK /\ Aimed /\ (\A r \in Runs : RunOK(r)) /\ Closing

-----------------------------------------------------------------------------
(* Lemmas                                                                       *)

LEMMA LastIsSlot == LastSlot \in Slots /\ LastSlot \in Nat
  BY SlotAssumption DEF LastSlot, SlotAssumption

(* What every step of the schedule leaves in place.                             *)
Grows ==
  /\ now <= now'
  /\ worked \subseteq worked' /\ archive \subseteq archive' /\ receipt \subseteq receipt'
  /\ \A q \in Runs : run[q].pc = "ended" => run'[q] = run[q] /\ recorded'[q] = recorded[q]
  /\ \A s \in Slots : claim[s] # None => claim'[s] = claim[s]

LEMMA EarnedStays ==
  ASSUME IInv, Grows, NEW s \in Slots, Earned(s)
  PROVE  Earned(s)'
  <1>1. PICK r \in worked : /\ run[r].slot = s /\ claim[s] = r /\ run[r].pc = "ended"
                            /\ r \in archive /\ recorded[r] \in s .. s + Late
    BY DEF Earned
  <1>2. r \in Runs /\ r # None
    BY SlotAssumption DEF IInv, TypeOK, SlotAssumption
  <1>. QED
    BY <1>1, <1>2 DEF Grows, Earned

LEMMA RowsStay ==
  ASSUME IInv, Grows, NEW s \in Slots, Rows(s) # {}
  PROVE  Rows(s)' # {}
  <1>1. PICK r \in Runs : r \in receipt /\ run[r].pc = "ended" /\ run[r].slot = s
    BY DEF Rows, Accepted, SlotOf, IInv, TypeOK
  <1>2. r \in receipt' /\ run'[r].pc = "ended" /\ run'[r].slot = s
    BY <1>1 DEF Grows
  <1>. QED
    BY <1>2 DEF Rows, Accepted, SlotOf

LEMMA ObservedStays ==
  ASSUME IInv, Grows, now' \in Nat, Observed
  PROVE  Observed'
  <1>1. CASE now >= LastSlot + Day
    <2>1. LastSlot \in Nat /\ Day \in Nat /\ now \in Nat
      BY LastIsSlot, SlotAssumption DEF SlotAssumption, IInv, TypeOK
    <2>2. now' >= LastSlot + Day
      BY <1>1, <2>1 DEF Grows
    <2>. QED
      BY <2>2 DEF Observed, LastSlot
  <1>2. CASE \A s \in Slots : Rows(s) # {}
    BY <1>2, RowsStay DEF Observed
  <1>. QED
    BY <1>1, <1>2 DEF Observed

LEMMA ClosingStays ==
  ASSUME IInv, Grows, now' \in Nat, UNCHANGED closeout
  PROVE  Closing'
  <1>1. (report.eligible \/ issue = "closed" => \A s \in Slots : Earned(s))'
    BY EarnedStays DEF IInv, Closing, closeout
  <1>2. (report.finished \/ cron = "off" => Observed)'
    BY ObservedStays DEF IInv, Closing, closeout
  <1>. QED
    BY <1>1, <1>2 DEF Closing

(* A run that a step does not touch.                                            *)
LEMMA OthersKeep ==
  ASSUME IInv, Grows, NEW q \in Runs, now' \in Nat,
         run'[q] = run[q], recorded'[q] = recorded[q], status'[q] = status[q],
         q \in worked' <=> q \in worked, q \in receipt' <=> q \in receipt
  PROVE  RunOK(q)'
  <1>1. RunOK(q) /\ now \in Nat
    BY DEF IInv, TypeOK
  <1>2. Dated(q)'
    <2>1. CASE run[q].pc = "none"
      BY <2>1 DEF Dated
    <2>2. CASE run[q].pc # "none"
      <3>1. /\ run[q].slot \in Slots /\ run[q].slot <= run[q].created
            /\ run[q].created <= now /\ run[q].created \in Nat
        BY <1>1, <2>2, SlotAssumption DEF RunOK, Dated, IInv, TypeOK, SlotAssumption
      <3>. QED
        BY <1>1, <3>1 DEF Dated, Grows
    <2>. QED
      BY <2>1, <2>2
  <1>3. Prompt(q)'
    BY <1>1 DEF RunOK, Prompt
  <1>4. Claimed(q)'
    <2>1. q \in worked => claim[run[q].slot] = q /\ run[q].slot \in Slots /\ q # None
      BY <1>1, SlotAssumption DEF RunOK, Claimed, Dated, Working, SlotAssumption
    <2>2. q \in worked => claim'[run[q].slot] = q
      BY <2>1 DEF Grows
    <2>. QED
      BY <1>1, <2>2 DEF RunOK, Claimed
  <1>5. Kept(q)'
    BY <1>1 DEF RunOK, Kept
  <1>6. Told(q)'
    BY <1>1 DEF RunOK, Told, Grows
  <1>. QED
    BY <1>2, <1>3, <1>4, <1>5, <1>6 DEF RunOK

-----------------------------------------------------------------------------
(* The Worker                                                                   *)

LEMMA DeliverStep ==
  ASSUME IInv, NEW e \in Events, NEW s \in Slots, Deliver(e, s)
  PROVE  IInv'
  <1>1. TypeOK'
    BY DEF IInv, TypeOK, Deliver, cycle, closeout
  <1>2. Aimed'
    BY DEF IInv, TypeOK, Aimed, Deliver
  <1>3. Grows
    BY DEF IInv, TypeOK, Deliver, Grows, cycle
  <1>4. \A q \in Runs : RunOK(q)'
    BY <1>1, <1>3, OthersKeep DEF Deliver, cycle, TypeOK
  <1>5. Closing'
    BY <1>1, <1>3, ClosingStays DEF Deliver, TypeOK
  <1>. QED
    BY <1>1, <1>2, <1>4, <1>5 DEF IInv

LEMMA EventEnds ==
  ASSUME IInv, NEW e \in Events, LookUp(e) \/ Miss(e)
  PROVE  IInv'
  <1>0. PICK p \in {"dispatching", "ended"} : event' = [event EXCEPT ![e].pc = p]
    <2>1. CASE LookUp(e) /\ Active
      BY <2>1 DEF LookUp
    <2>2. CASE LookUp(e) /\ ~Active
      BY <2>2 DEF LookUp
    <2>3. CASE Miss(e)
      BY <2>3 DEF Miss
    <2>. QED
      BY <2>1, <2>2, <2>3
  <1>1. TypeOK'
    BY <1>0 DEF IInv, TypeOK, LookUp, Miss, cycle, closeout
  <1>2. Aimed'
    BY DEF IInv, TypeOK, Aimed, LookUp, Miss
  <1>3. Grows
    BY DEF IInv, TypeOK, LookUp, Miss, Grows, cycle
  <1>4. \A q \in Runs : RunOK(q)'
    BY <1>1, <1>3, OthersKeep DEF LookUp, Miss, cycle, TypeOK
  <1>5. Closing'
    BY <1>1, <1>3, ClosingStays DEF LookUp, Miss, TypeOK
  <1>. QED
    BY <1>1, <1>2, <1>4, <1>5 DEF IInv

(* A run that has not begun to execute has done nothing.                        *)
LEMMA Untouched ==
  ASSUME IInv, NEW r \in Runs, run[r].pc \in {"none", "queued", "claiming"}
  PROVE  r \notin worked /\ recorded[r] = None /\ status[r] = "failed" /\ r \notin receipt
  BY DEF IInv, RunOK, Claimed, Kept, Told, Working

LEMMA DispatchStep ==
  ASSUME IInv, NEW e \in Events, Dispatch(e)
  PROVE  IInv'
  <1>1. PICK r \in Runs :
          /\ run[r].pc = "none"
          /\ run' = [q \in Runs |->
                       IF q = r THEN [pc |-> "queued", slot |-> event[e].slot, created |-> now]
                       ELSE IF run[q].pc = "queued" THEN [run[q] EXCEPT !.pc = "ended"]
                       ELSE run[q]]
    BY DEF Dispatch
  <1>2. event[e].slot \in Slots /\ event[e].slot <= now
    BY DEF IInv, Aimed, Dispatch
  <1>3. TypeOK'
    <2>1. event' \in [Events -> [pc : {"new", "looking", "dispatching", "ended"},
                                slot : Slots \cup {None}]]
      BY DEF IInv, TypeOK, Dispatch
    <2>2. ASSUME NEW q \in Runs
          PROVE  /\ run'[q] \in [pc : {"none", "queued", "ended"} \cup Executing,
                                 slot : Slots \cup {None}, created : 0 .. MaxTime]
                 /\ run'[q].pc # "none" => run'[q].slot \in Slots
      <3>1. CASE q = r
        BY <1>1, <1>2, <3>1 DEF IInv, TypeOK
      <3>2. CASE q # r /\ run[q].pc = "queued"
        BY <1>1, <3>2 DEF IInv, TypeOK
      <3>3. CASE q # r /\ run[q].pc # "queued"
        BY <1>1, <3>3 DEF IInv, TypeOK
      <3>. QED
        BY <3>1, <3>2, <3>3
    <2>3. run' \in [Runs -> [pc : {"none", "queued", "ended"} \cup Executing,
                            slot : Slots \cup {None}, created : 0 .. MaxTime]]
      BY <1>1, <2>2
    <2>. QED
      BY <2>1, <2>2, <2>3 DEF IInv, TypeOK, Dispatch, cycle, closeout
  <1>4. Aimed'
    BY DEF IInv, TypeOK, Aimed, Dispatch
  <1>5. Grows
    BY <1>1 DEF IInv, TypeOK, Dispatch, Grows, cycle
  <1>6. ASSUME NEW q \in Runs PROVE RunOK(q)'
    <2>1. CASE q = r
      <3>1. run'[q] = [pc |-> "queued", slot |-> event[e].slot, created |-> now]
        BY <1>1, <2>1
      <3>2. q \notin worked /\ recorded[q] = None /\ status[q] = "failed" /\ q \notin receipt
        BY <1>1, <2>1, Untouched
      <3>3. now' = now /\ now <= now
        BY DEF Dispatch, IInv, TypeOK
      <3>. QED
        BY <3>1, <3>2, <3>3, <1>2 DEF RunOK, Dated, Prompt, Claimed, Kept, Told, Working,
           Executing, Dispatch, cycle
    <2>2. CASE q # r /\ run[q].pc = "queued"
      <3>1. run'[q] = [run[q] EXCEPT !.pc = "ended"]
        BY <1>1, <2>2
      <3>2. q \notin worked /\ recorded[q] = None /\ status[q] = "failed" /\ q \notin receipt
        BY <2>2, Untouched
      <3>3. /\ run'[q].pc = "ended" /\ run'[q].slot = run[q].slot
            /\ run'[q].created = run[q].created
        BY <3>1 DEF IInv, TypeOK
      <3>4. now' = now /\ Dated(q)
        BY DEF Dispatch, IInv, RunOK
      <3>5. q \notin worked' /\ recorded'[q] = None /\ status'[q] = "failed" /\ q \notin receipt'
        BY <3>2 DEF Dispatch, cycle
      <3>6. Dated(q)'
        BY <2>2, <3>3, <3>4 DEF Dated
      <3>. QED
        <4>1. Prompt(q)'
          BY <3>3 DEF Prompt, Executing
        <4>2. Claimed(q)' /\ Kept(q)'
          BY <3>3, <3>5 DEF Claimed, Kept, Working
        <4>3. Told(q)'
          BY <3>3, <3>5 DEF Told
        <4>. QED
          BY <3>6, <4>1, <4>2, <4>3 DEF RunOK
    <2>3. CASE q # r /\ run[q].pc # "queued"
      <3>1. run'[q] = run[q]
        BY <1>1, <2>3
      <3>2. now' \in Nat
        BY <1>3 DEF TypeOK
      <3>. QED
        BY <1>5, <3>1, <3>2, OthersKeep DEF Dispatch, cycle
    <2>. QED
      BY <2>1, <2>2, <2>3
  <1>7. Closing'
    BY <1>3, <1>5, ClosingStays DEF Dispatch, TypeOK
  <1>. QED
    BY <1>3, <1>4, <1>6, <1>7 DEF IInv

-----------------------------------------------------------------------------
(* The cycle: a step of a run moves that run and touches its own entries.       *)

Begun == {"queued"} \cup Executing
Places == {"none", "queued", "ended"} \cup Executing

Moves(r, p) ==
  /\ run[r].pc \in Begun /\ run' = [run EXCEPT ![r].pc = p]
  /\ UNCHANGED <<now, event, closeout>>
  /\ claim' \in [Slots -> Runs \cup {None}]
  /\ \A s \in Slots : claim[s] # None => claim'[s] = claim[s]
  /\ recorded' \in [Runs -> (0 .. MaxTime) \cup {None}]
  /\ status' \in [Runs -> {"failed", "no_eligible_forecasts", "recorded"}]
  /\ worked' \in {worked, worked \cup {r}} /\ archive' \in {archive, archive \cup {r}}
  /\ receipt' \in {receipt, receipt \cup {r}}
  /\ \A q \in Runs \ {r} : recorded'[q] = recorded[q] /\ status'[q] = status[q]

LEMMA Moved ==
  ASSUME IInv, NEW r \in Runs, NEW p \in Places, Moves(r, p)
  PROVE  /\ run'[r].pc = p /\ run'[r].slot = run[r].slot /\ run'[r].created = run[r].created
         /\ run[r].slot \in Slots /\ run[r].slot \in Nat /\ run[r].created \in Nat
         /\ now \in Nat /\ now' = now /\ Dated(r)' /\ Dated(r)
  <1>1. run[r].pc # "none"
    BY DEF Moves, Begun, Executing
  <1>2. /\ run'[r].pc = p /\ run'[r].slot = run[r].slot /\ run'[r].created = run[r].created
    BY DEF Moves, IInv, TypeOK
  <1>3. /\ run[r].slot \in Slots /\ run[r].slot \in Nat /\ run[r].created \in Nat
        /\ now \in Nat /\ now' = now
    BY <1>1, SlotAssumption DEF IInv, TypeOK, SlotAssumption, Moves
  <1>4. Dated(r)
    BY DEF IInv, RunOK
  <1>5. Dated(r)'
    BY <1>1, <1>2, <1>3, <1>4 DEF Dated
  <1>. QED
    BY <1>2, <1>3, <1>4, <1>5

LEMMA MoveKeeps ==
  ASSUME IInv, NEW r \in Runs, NEW p \in Places, Moves(r, p),
         run[r].pc # "none", p # "none",
         Prompt(r)', Claimed(r)', Kept(r)', Told(r)'
  PROVE  IInv'
  <1>1. TypeOK'
    <2>1. run' \in [Runs -> [pc : Places, slot : Slots \cup {None}, created : 0 .. MaxTime]]
      BY DEF Moves, IInv, TypeOK, Places
    <2>2. \A q \in Runs : run'[q].pc # "none" => run'[q].slot \in Slots
      BY DEF Moves, IInv, TypeOK
    <2>. QED
      BY <2>1, <2>2 DEF Moves, IInv, TypeOK, closeout, Places
  <1>2. Aimed'
    BY DEF IInv, Aimed, Moves
  <1>3. Grows
    <2>1. now <= now'
      BY DEF IInv, TypeOK, Moves
    <2>2. run[r].pc # "ended"
      BY DEF Moves, Begun, Executing
    <2>3. \A q \in Runs \ {r} : run'[q] = run[q] /\ recorded'[q] = recorded[q]
      BY DEF Moves, IInv, TypeOK
    <2>. QED
      BY <2>1, <2>2, <2>3 DEF Grows, Moves
  <1>4. ASSUME NEW q \in Runs PROVE RunOK(q)'
    <2>1. CASE q = r
      BY <2>1, Moved DEF RunOK
    <2>2. CASE q # r
      <3>1. run'[q] = run[q]
        BY <2>2 DEF Moves, IInv, TypeOK
      <3>2. now' \in Nat
        BY <1>1 DEF TypeOK
      <3>3. (q \in worked' <=> q \in worked) /\ (q \in receipt' <=> q \in receipt)
        BY <2>2 DEF Moves
      <3>4. recorded'[q] = recorded[q] /\ status'[q] = status[q]
        BY <2>2 DEF Moves
      <3>. QED
        BY <1>3, <3>1, <3>2, <3>3, <3>4, OthersKeep
    <2>. QED
      BY <2>1, <2>2
  <1>5. Closing'
    BY <1>1, <1>3, ClosingStays DEF Moves, TypeOK
  <1>. QED
    BY <1>1, <1>2, <1>4, <1>5 DEF IInv

LEMMA StartStep ==
  ASSUME IInv, NEW r \in Runs, Start(r)
  PROVE  IInv'
  <1>1. r \notin worked /\ recorded[r] = None /\ status[r] = "failed" /\ r \notin receipt
    BY Untouched DEF Start
  <1>2. PICK p \in {"claiming", "ended"} :
          /\ run' = [run EXCEPT ![r].pc = p] /\ (p = "claiming" => now - SlotOf(r) <= Fresh)
    BY DEF Start, Goto
  <1>3. p \in Places /\ p # "none"
    BY DEF Places, Executing
  <1>4. Moves(r, p)
    BY <1>2 DEF Moves, Start, Begun, IInv, TypeOK, cycle
  <1>5. Prompt(r)'
    <2>1. CASE p = "ended"
      BY <2>1, <1>3, <1>4, Moved DEF Prompt, Executing
    <2>2. CASE p = "claiming"
      <3>1. run[r].created <= now /\ now - run[r].slot <= Fresh
        BY <1>2, <1>3, <1>4, <2>2, Moved DEF Dated, SlotOf, Moves, Begun, Executing
      <3>2. run[r].created - run[r].slot <= Fresh
        BY <3>1, <1>3, <1>4, Moved, SlotAssumption DEF SlotAssumption
      <3>. QED
        BY <3>2, <1>3, <1>4, Moved DEF Prompt
    <2>. QED
      BY <2>1, <2>2
  <1>6. Claimed(r)' /\ Kept(r)'
    BY <1>1, <1>2, <1>3, <1>4, Moved DEF Claimed, Kept, Working, Start, cycle
  <1>7. Told(r)'
    BY <1>1, <1>2, <1>3, <1>4, Moved DEF Told, Start, cycle
  <1>. QED
    BY <1>3, <1>4, <1>5, <1>6, <1>7, MoveKeeps DEF Start

LEMMA ClaimStep ==
  ASSUME IInv, NEW r \in Runs, Claim(r)
  PROVE  IInv'
  <1>1. r \notin worked /\ recorded[r] = None /\ status[r] = "failed" /\ r \notin receipt
    BY Untouched DEF Claim
  <1>2. /\ UNCHANGED <<recorded, status, archive, receipt>> /\ run[r].pc = "claiming"
        /\ Prompt(r) /\ r # None /\ claim \in [Slots -> Runs \cup {None}]
        /\ run[r].slot \in Slots
    BY SlotAssumption DEF Claim, IInv, RunOK, SlotAssumption, TypeOK
  <1>3. CASE /\ claim[SlotOf(r)] = None /\ claim' = [claim EXCEPT ![SlotOf(r)] = r]
             /\ Goto(r, "claiming", "preparing") /\ worked' = worked \cup {r}
    <2>1. "preparing" \in Places
      BY DEF Places, Executing
    <2>2. Moves(r, "preparing")
      BY <1>2, <1>3 DEF Moves, Claim, Begun, Executing, Goto, IInv, TypeOK, SlotOf
    <2>3. Prompt(r)'
      BY <1>2, <2>1, <2>2, Moved DEF Prompt, Executing
    <2>4. claim'[run[r].slot] = r /\ r \in worked'
      BY <1>2, <1>3 DEF SlotOf
    <2>5. Claimed(r)' /\ Kept(r)'
      BY <1>1, <1>2, <2>1, <2>2, <2>4, Moved DEF Claimed, Kept, Working, Prompt, Executing
    <2>6. Told(r)'
      BY <1>1, <1>2, <2>1, <2>2, Moved DEF Told
    <2>. QED
      BY <1>2, <2>1, <2>2, <2>3, <2>5, <2>6, MoveKeeps
  <1>4. CASE /\ claim' \in {claim} \cup (IF claim[SlotOf(r)] = None
                                         THEN {[claim EXCEPT ![SlotOf(r)] = r]} ELSE {})
             /\ Goto(r, "claiming", "reporting") /\ UNCHANGED worked
    <2>1. "reporting" \in Places
      BY DEF Places, Executing
    <2>2. Moves(r, "reporting")
      <3>1. /\ claim' \in [Slots -> Runs \cup {None}]
            /\ \A s \in Slots : claim[s] # None => claim'[s] = claim[s]
        BY <1>2, <1>4 DEF SlotOf
      <3>. QED
        BY <1>2, <1>4, <3>1 DEF Moves, Claim, Begun, Executing, Goto, IInv, TypeOK
    <2>3. Prompt(r)'
      BY <1>2, <2>1, <2>2, Moved DEF Prompt, Executing
    <2>4. Claimed(r)' /\ Kept(r)'
      BY <1>1, <1>2, <1>4, <2>1, <2>2, Moved DEF Claimed, Kept, Working
    <2>5. Told(r)'
      BY <1>1, <1>2, <2>1, <2>2, Moved DEF Told
    <2>. QED
      BY <1>2, <2>1, <2>2, <2>3, <2>4, <2>5, MoveKeeps
  <1>. QED
    BY <1>3, <1>4 DEF Claim

LEMMA RaiseStep ==
  ASSUME IInv, NEW r \in Runs, Raise(r)
  PROVE  IInv'
  <1>1. /\ run[r].pc \in Working /\ r \in worked /\ claim[run[r].slot] = r
        /\ Prompt(r) /\ Claimed(r) /\ Kept(r) /\ Told(r)
    BY DEF Raise, IInv, RunOK, Claimed, Working
  <1>2. "archiving" \in Places
    BY DEF Places, Executing
  <1>3. Moves(r, "archiving")
    BY <1>1 DEF Moves, Raise, Fails, Begun, Executing, Working, IInv, TypeOK
  <1>4. status'[r] = "failed"
    BY DEF Raise, Fails, IInv, TypeOK
  <1>5. Prompt(r)'
    BY <1>1, <1>2, <1>3, Moved DEF Prompt, Executing, Working
  <1>6. Claimed(r)' /\ Kept(r)'
    BY <1>1, <1>2, <1>3, Moved DEF Claimed, Kept, Working, Raise
  <1>7. Told(r)'
    BY <1>1, <1>2, <1>3, <1>4, Moved DEF Told, Raise, Working
  <1>. QED
    BY <1>1, <1>2, <1>3, <1>5, <1>6, <1>7, MoveKeeps DEF Working

(* A step between two places before the recording.                              *)
LEMMA EarlyStep ==
  ASSUME IInv, NEW r \in Runs, Prepare(r) \/ Refresh(r) \/ AdmitForecast(r)
  PROVE  IInv'
  <1>1. PICK p \in {"refreshing", "admitting", "recording"} :
          run' = [run EXCEPT ![r].pc = p]
    BY DEF Prepare, Refresh, AdmitForecast, Goto
  <1>2. run[r].pc \in {"preparing", "refreshing", "admitting"}
    BY DEF Prepare, Refresh, AdmitForecast, Goto
  <1>3. UNCHANGED <<now, event, cycle, closeout>>
    BY DEF Prepare, Refresh, AdmitForecast
  <1>4. Prompt(r) /\ Claimed(r) /\ Kept(r) /\ Told(r)
    BY DEF IInv, RunOK
  <1>5. p \in Places /\ p # "none"
    BY DEF Places, Executing
  <1>6. Moves(r, p)
    BY <1>1, <1>2, <1>3 DEF Moves, cycle, Begun, Executing, IInv, TypeOK
  <1>7. Prompt(r)'
    BY <1>2, <1>4, <1>5, <1>6, Moved DEF Prompt, Executing
  <1>8. Claimed(r)' /\ Kept(r)'
    BY <1>2, <1>3, <1>4, <1>5, <1>6, Moved DEF Claimed, Kept, Working, cycle
  <1>9. Told(r)'
    BY <1>2, <1>3, <1>4, <1>5, <1>6, Moved DEF Told, cycle
  <1>. QED
    BY <1>2, <1>5, <1>6, <1>7, <1>8, <1>9, MoveKeeps

LEMMA RecordStep ==
  ASSUME IInv, NEW r \in Runs, Record(r)
  PROVE  IInv'
  <1>1. Prompt(r) /\ Claimed(r) /\ Kept(r) /\ Told(r) /\ run[r].pc = "recording"
    BY DEF IInv, RunOK, Record, Goto
  <1>2. "settling" \in Places
    BY DEF Places, Executing
  <1>3. Moves(r, "settling")
    BY <1>1 DEF Moves, Record, Goto, Begun, Executing, IInv, TypeOK
  <1>4. Prompt(r)'
    BY <1>1, <1>2, <1>3, Moved DEF Prompt, Executing
  <1>5. Claimed(r)' /\ Kept(r)'
    BY <1>1, <1>2, <1>3, Moved DEF Claimed, Kept, Working, Record
  <1>6. Told(r)'
    BY <1>1, <1>2, <1>3, Moved DEF Told, Record
  <1>. QED
    BY <1>1, <1>2, <1>3, <1>4, <1>5, <1>6, MoveKeeps

LEMMA SettleStep ==
  ASSUME IInv, NEW r \in Runs, Settle(r)
  PROVE  IInv'
  <1>1. Prompt(r) /\ Claimed(r) /\ Kept(r) /\ Told(r) /\ run[r].pc = "settling"
    BY DEF IInv, RunOK, Settle, Goto
  <1>2. "archiving" \in Places
    BY DEF Places, Executing
  <1>3. Moves(r, "archiving")
    BY <1>1 DEF Moves, Settle, Goto, Begun, Executing, IInv, TypeOK
  <1>4. /\ status'[r] = "recorded" => recorded[r] # None
        /\ recorded' = recorded /\ worked' = worked /\ receipt' = receipt /\ claim' = claim
    BY DEF Settle, IInv, TypeOK
  <1>5. r \in worked /\ r \notin receipt
    BY <1>1 DEF Claimed, Working, Told
  <1>6. Prompt(r)'
    BY <1>1, <1>2, <1>3, Moved DEF Prompt, Executing
  <1>7. Claimed(r)' /\ Kept(r)'
    BY <1>1, <1>2, <1>3, <1>4, Moved DEF Claimed, Kept, Working
  <1>8. Told(r)'
    BY <1>2, <1>3, <1>4, <1>5, Moved DEF Told
  <1>. QED
    BY <1>1, <1>2, <1>3, <1>6, <1>7, <1>8, MoveKeeps

LEMMA ArchiveStep ==
  ASSUME IInv, NEW r \in Runs, Archive(r)
  PROVE  IInv'
  <1>1. /\ Prompt(r) /\ Claimed(r) /\ Kept(r) /\ Told(r) /\ run[r].pc = "archiving"
        /\ UNCHANGED <<now, event, claim, recorded, status, receipt, worked, closeout>>
    BY DEF IInv, RunOK, Archive, Goto
  <1>2. PICK p \in {"reporting", "ended"} :
          /\ run' = [run EXCEPT ![r].pc = p]
          /\ archive' \in {archive, archive \cup {r}} /\ (p = "reporting" => r \in archive')
    BY DEF Archive, Goto
  <1>3. p \in Places /\ p # "none"
    BY DEF Places, Executing
  <1>4. Moves(r, p)
    BY <1>1, <1>2 DEF Moves, Begun, Executing, IInv, TypeOK
  <1>5. Prompt(r)'
    BY <1>1, <1>3, <1>4, Moved DEF Prompt, Executing
  <1>6. Claimed(r)' /\ Kept(r)'
    BY <1>1, <1>3, <1>4, Moved DEF Claimed, Kept, Working
  <1>7. Told(r)'
    BY <1>1, <1>2, <1>3, <1>4, Moved DEF Told
  <1>. QED
    BY <1>1, <1>3, <1>4, <1>5, <1>6, <1>7, MoveKeeps

LEMMA ReportStep ==
  ASSUME IInv, NEW r \in Runs, Report(r)
  PROVE  IInv'
  <1>1. Prompt(r) /\ Claimed(r) /\ Kept(r) /\ Told(r) /\ run[r].pc = "reporting"
    BY DEF IInv, RunOK, Report, Goto
  <1>2. "ended" \in Places
    BY DEF Places
  <1>3. Moves(r, "ended")
    BY <1>1 DEF Moves, Report, Goto, Begun, Executing, IInv, TypeOK
  <1>4. Prompt(r)'
    BY <1>1, <1>2, <1>3, Moved DEF Prompt, Executing
  <1>5. Claimed(r)' /\ Kept(r)'
    BY <1>1, <1>2, <1>3, Moved DEF Claimed, Kept, Working, Report
  <1>6. Told(r)'
    BY <1>1, <1>2, <1>3, Moved DEF Told, Report
  <1>. QED
    BY <1>1, <1>2, <1>3, <1>4, <1>5, <1>6, MoveKeeps

LEMMA KillStep ==
  ASSUME IInv, NEW r \in Runs, Kill(r)
  PROVE  IInv'
  <1>1. /\ Prompt(r) /\ Claimed(r) /\ Kept(r) /\ Told(r) /\ run[r].pc \in Executing
        /\ UNCHANGED <<now, event, cycle, closeout>>
    BY DEF IInv, RunOK, Kill
  <1>2. "ended" \in Places
    BY DEF Places
  <1>3. Moves(r, "ended")
    BY <1>1 DEF Moves, Kill, Begun, IInv, TypeOK, cycle
  <1>4. Prompt(r)'
    BY <1>1, <1>2, <1>3, Moved DEF Prompt, Executing
  <1>5. Claimed(r)' /\ Kept(r)'
    BY <1>1, <1>2, <1>3, Moved DEF Claimed, Kept, Working, cycle
  <1>6. r \notin receipt
    BY <1>1 DEF Told, Executing
  <1>7. Told(r)'
    BY <1>1, <1>2, <1>3, <1>6, Moved DEF Told, cycle
  <1>. QED
    BY <1>1, <1>2, <1>3, <1>4, <1>5, <1>7, MoveKeeps DEF Executing

-----------------------------------------------------------------------------
(* The closeout                                                                 *)

LEMMA RunsKeep ==
  ASSUME IInv, UNCHANGED <<now, event, run, cycle>>
  PROVE  Aimed' /\ \A q \in Runs : RunOK(q)'
  <1>1. Aimed'
    BY DEF IInv, Aimed
  <1>2. \A q \in Runs : RunOK(q)'
    BY DEF IInv, RunOK, Dated, Prompt, Claimed, Kept, Told, cycle
  <1>. QED
    BY <1>1, <1>2

LEMMA EvidenceEarns ==
  ASSUME IInv, NEW s \in Slots, Qualifies(s),
         \A r \in Accepted : ~(Positive(r) /\ ~Timely(r))
  PROVE  Earned(s)
  <1>1. Rows(s) # {}
    BY FS_EmptySet DEF Qualifies
  <1>2. PICK r \in Rows(s) : Positive(r)
    BY <1>1 DEF Qualifies
  <1>3. /\ r \in Runs /\ r \in receipt /\ run[r].pc = "ended" /\ run[r].slot = s
        /\ status[r] = "recorded" /\ r \in archive /\ Timely(r)
    BY <1>2 DEF Rows, Accepted, SlotOf, Positive, IInv, TypeOK
  <1>4. r \in worked /\ recorded[r] # None /\ claim[s] = r /\ s <= run[r].created
    BY <1>3 DEF IInv, RunOK, Claimed, Told, Dated
  <1>5. recorded[r] \in Nat /\ run[r].created \in Nat /\ s \in Nat /\ Late \in Nat
    BY <1>3, <1>4, SlotAssumption DEF IInv, TypeOK, SlotAssumption
  <1>6. recorded[r] \in s .. s + Late
    BY <1>3, <1>4, <1>5 DEF Timely, SlotOf
  <1>. QED
    BY <1>3, <1>4, <1>6 DEF Earned

LEMMA EvaluateStep ==
  ASSUME IInv, Evaluate
  PROVE  IInv'
  <1>1. UNCHANGED <<now, event, run, cycle, issue, cron>>
    BY DEF Evaluate
  <1>2. TypeOK'
    BY DEF Evaluate, IInv, TypeOK, NoReport, cycle
  <1>3. Aimed' /\ \A q \in Runs : RunOK(q)'
    BY <1>1, RunsKeep
  <1>4. ASSUME NEW s \in Slots, Earned(s) PROVE Earned(s)'
    BY <1>1, <1>4 DEF Earned, cycle
  <1>5. Observed => Observed'
    BY <1>1 DEF Observed, Rows, Accepted, SlotOf, LastSlot, cycle
  <1>6. CASE \E r \in Accepted : Positive(r) /\ ~Timely(r)
    <2>1. ~report'.eligible /\ ~report'.finished
      BY <1>6 DEF Evaluate, NoReport
    <2>. QED
      BY <2>1, <1>1, <1>2, <1>3, <1>4, <1>5 DEF IInv, Closing
  <1>7. CASE ~\E r \in Accepted : Positive(r) /\ ~Timely(r)
    <2>1. /\ report'.eligible = \A s \in Slots : Qualifies(s)
          /\ report'.finished = (Expired \/ \A s \in Slots : Rows(s) # {})
      BY <1>7 DEF Evaluate
    <2>2. report'.eligible => \A s \in Slots : Earned(s)
      BY <1>7, <2>1, EvidenceEarns
    <2>3. report'.finished => Observed
      BY <2>1 DEF Observed, Expired
    <2>. QED
      BY <2>2, <2>3, <1>1, <1>2, <1>3, <1>4, <1>5 DEF IInv, Closing
  <1>. QED
    BY <1>6, <1>7

LEMMA CloseStep ==
  ASSUME IInv, CloseIssue \/ StopScope
  PROVE  IInv'
  <1>1. UNCHANGED <<now, event, run, cycle, report>>
    BY DEF CloseIssue, StopScope
  <1>2. TypeOK'
    BY DEF CloseIssue, StopScope, IInv, TypeOK, cycle
  <1>3. Aimed' /\ \A q \in Runs : RunOK(q)'
    BY <1>1, RunsKeep
  <1>4. ASSUME NEW s \in Slots, Earned(s) PROVE Earned(s)'
    BY <1>1, <1>4 DEF Earned, cycle
  <1>5. Observed => Observed'
    BY <1>1 DEF Observed, Rows, Accepted, SlotOf, LastSlot, cycle
  <1>6. (issue' = "closed" => issue = "closed" \/ report.eligible)
    BY DEF CloseIssue, StopScope
  <1>7. (cron' = "off" => cron = "off" \/ report.finished)
    BY DEF CloseIssue, StopScope
  <1>. QED
    BY <1>1, <1>2, <1>3, <1>4, <1>5, <1>6, <1>7 DEF IInv, Closing

LEMMA TickStep ==
  ASSUME IInv, Tick
  PROVE  IInv'
  <1>1. /\ now' = now + 1 /\ now \in Nat /\ now' \in 0 .. MaxTime
        /\ UNCHANGED <<event, run, cycle, closeout>>
    BY SlotAssumption DEF Tick, IInv, TypeOK, SlotAssumption
  <1>2. TypeOK'
    BY <1>1 DEF IInv, TypeOK, cycle, closeout
  <1>3. Aimed'
    <2>1. \A s \in Slots : s <= now => s <= now'
      <3>1. \A s \in Slots : s \in Nat
        BY SlotAssumption DEF SlotAssumption
      <3>2. now' = now + 1 /\ now \in Nat
        BY <1>1
      <3>. QED
        BY <3>1, <3>2
    <2>2. event' = event /\ Aimed
      BY <1>1 DEF IInv
    <2>. QED
      BY <2>1, <2>2 DEF Aimed
  <1>4. Grows
    BY <1>1 DEF Grows, cycle
  <1>5. \A q \in Runs : RunOK(q)'
    BY <1>1, <1>4, OthersKeep DEF cycle
  <1>6. Closing'
    BY <1>1, <1>4, ClosingStays
  <1>. QED
    BY <1>2, <1>3, <1>5, <1>6 DEF IInv

-----------------------------------------------------------------------------
(* The theorems                                                                 *)

LEMMA InitHolds ==
  ASSUME Init
  PROVE  IInv
  <1>1. TypeOK
    BY SlotAssumption DEF Init, TypeOK, SlotAssumption, NoReport
  <1>2. Aimed
    BY DEF Init, Aimed
  <1>3. \A r \in Runs : RunOK(r)
    BY DEF Init, RunOK, Dated, Prompt, Claimed, Kept, Told, Working, Executing
  <1>4. Closing
    BY DEF Init, Closing, NoReport
  <1>. QED
    BY <1>1, <1>2, <1>3, <1>4 DEF IInv

LEMMA StepHolds ==
  ASSUME IInv, [Next]_vars
  PROVE  IInv'
  <1>1. ASSUME NEW e \in Events,
               LookUp(e) \/ Dispatch(e) \/ Miss(e) \/ \E s \in Slots : Deliver(e, s)
        PROVE  IInv'
    BY <1>1, EventEnds, DispatchStep, DeliverStep
  <1>2. ASSUME NEW r \in Runs, Work(r)
        PROVE  IInv'
    BY <1>2, StartStep, ClaimStep, RaiseStep, EarlyStep, RecordStep, SettleStep, ArchiveStep,
       ReportStep, KillStep DEF Work
  <1>3. CASE UNCHANGED vars
    <2>1. UNCHANGED <<now, event, run, cycle, closeout>>
      BY <1>3 DEF vars
    <2>2. TypeOK'
      BY <2>1 DEF IInv, TypeOK, cycle, closeout
    <2>3. now' \in Nat /\ Grows
      BY <2>1 DEF IInv, TypeOK, Grows, cycle
    <2>. QED
      BY <2>1, <2>2, <2>3, RunsKeep, ClosingStays DEF IInv
  <1>. QED
    BY <1>1, <1>2, <1>3, EvaluateStep, CloseStep, TickStep DEF Next

THEOREM SlotsInductive == Spec => []IInv
  BY InitHolds, StepHolds, PTL DEF Spec

(* Every record of the schedule keeps its form: events, runs, claim, receipts.  *)
THEOREM TypeCorrect == Spec => []TypeOK
  <1>1. IInv => TypeOK
    BY DEF IInv
  <1>. QED
    BY <1>1, SlotsInductive, PTL

(* However many deliveries and runs a slot has, one of them gets to the registry *)
(* and the providers, and what is recorded is recorded by it, for a dispatch in  *)
(* its window: the exclusive put of _claim is all that keeps it so.             *)
THEOREM SlotRunsOnceHolds == Spec => []SlotRunsOnce
  <1>1. IInv => SlotRunsOnce
    BY DEF IInv, TypeOK, RunOK, Claimed, Kept, SlotRunsOnce, ClaimedOnce, RecordedUnderClaim,
       SlotOf
  <1>. QED
    BY <1>1, SlotsInductive, PTL

(* The issue is closed on evidence that is still there, receipts are backed by   *)
(* it, and the trigger is stopped only after every slot was observed or expired. *)
THEOREM ClosedIsEarnedHolds == Spec => []ClosedIsEarned
  <1>1. ASSUME IInv PROVE ClosedOnEvidence
    <2>1. ASSUME NEW s \in Slots, Earned(s)
          PROVE  claim[s] # None /\ claim[s] \in archive /\ recorded[claim[s]] \in s .. s + Late
      BY <1>1, <2>1, SlotAssumption DEF Earned, IInv, TypeOK, SlotAssumption
    <2>. QED
      BY <1>1, <2>1 DEF IInv, Closing, ClosedOnEvidence
  <1>2. IInv => ReceiptIsBacked
    BY DEF IInv, TypeOK, RunOK, Told, ReceiptIsBacked
  <1>3. IInv => StopLosesNoSlot
    BY DEF IInv, Closing, Observed, StopLosesNoSlot
  <1>4. IInv => ClosedIsEarned
    BY <1>1, <1>2, <1>3 DEF ClosedIsEarned
  <1>. QED
    BY <1>4, SlotsInductive, PTL

-----------------------------------------------------------------------------
(* The deployment of the Worker.  A job has the tail of its stage's steps left,  *)
(* and comes to the trigger only from an upload of the code.                     *)

Rest(s, k) == [i \in 1 .. Len(Worker!Steps(s)) - k + 1 |-> Worker!Steps(s)[i + k - 1]]

Deployed == code = "private" /\ secrets = Worker!Both

JobOK ==
  outcome = "running" =>
    /\ stage \in Worker!Stages
    /\ \E k \in 1 .. Len(Worker!Steps(stage)) :
         /\ todo = Rest(stage, k)
         /\ Worker!Steps(stage)[k] = "cron_on" => Deployed

KeyOK == secrets \subseteq Worker!Both /\ keyWrites = IF "key" \in secrets THEN 1 ELSE 0

WInv == JobOK /\ KeyOK /\ Worker!TriggerRunsSignedCode /\ Worker!PassedStageHolds

Final(s) == CASE s = "BOOTSTRAP" -> "prepared"
              [] s \in {"ACTIVATE", "VERIFY_ACTIVE"} -> "active"
              [] OTHER -> "disabled"

LEMMA StepsOfStages ==
  ASSUME NEW s \in Worker!Stages
  PROVE  /\ Len(Worker!Steps(s)) \in Nat /\ Len(Worker!Steps(s)) >= 1
         /\ Worker!Steps(s)[Len(Worker!Steps(s))] = Final(s)
         /\ Worker!Steps(s)[1] # "cron_on"
         /\ Worker!Steps(s) = [i \in 1 .. Len(Worker!Steps(s)) |-> Worker!Steps(s)[i]]
         /\ \A k \in 1 .. Len(Worker!Steps(s)) :
              Worker!Steps(s)[k] = "cron_on" => k - 1 \in 1 .. Len(Worker!Steps(s))
                                                /\ Worker!Steps(s)[k - 1] = "code"
  <1>1. CASE s = "BOOTSTRAP"
    BY <1>1 DEF Worker!Steps, Final
  <1>2. CASE s = "PREPARE"
    BY <1>2 DEF Worker!Steps, Final
  <1>3. CASE s = "RESUME_PREPARE"
    BY <1>3 DEF Worker!Steps, Final
  <1>4. CASE s = "ACTIVATE"
    BY <1>4 DEF Worker!Steps, Final
  <1>5. CASE s = "STOP"
    BY <1>5 DEF Worker!Steps, Final
  <1>6. CASE s = "VERIFY_DISABLED"
    BY <1>6 DEF Worker!Steps, Final
  <1>7. CASE s = "VERIFY_ACTIVE"
    BY <1>7 DEF Worker!Steps, Final
  <1>. QED
    BY <1>1, <1>2, <1>3, <1>4, <1>5, <1>6, <1>7 DEF Worker!Stages

LEMMA RestTail ==
  ASSUME NEW s \in Worker!Stages, NEW k \in 1 .. Len(Worker!Steps(s))
  PROVE  /\ Len(Rest(s, k)) = Len(Worker!Steps(s)) - k + 1
         /\ Head(Rest(s, k)) = Worker!Steps(s)[k]
         /\ Tail(Rest(s, k)) = Rest(s, k + 1)
  <1>. DEFINE n == Len(Worker!Steps(s)) - k + 1
              f(i) == Worker!Steps(s)[i + k - 1]
  <1>1. n \in Nat /\ n >= 1
    BY StepsOfStages
  <1>2. Rest(s, k) = [i \in 1 .. n |-> f(i)]
    BY DEF Rest
  <1>3. f(1) = Worker!Steps(s)[k]
    OBVIOUS
  <1>4. \A i \in Nat : f(i + 1) = Worker!Steps(s)[i + (k + 1) - 1]
    OBVIOUS
  <1>5. Rest(s, k + 1) = [i \in 1 .. n - 1 |-> f(i + 1)]
    <2>1. Len(Worker!Steps(s)) - (k + 1) + 1 = n - 1
      BY StepsOfStages
    <2>. QED
      BY <1>4, <2>1 DEF Rest
  <1>. HIDE DEF n, f
  <1>6. Len(Rest(s, k)) = n /\ Head(Rest(s, k)) = f(1)
    BY <1>1, <1>2
  <1>7. Tail(Rest(s, k)) = [i \in 1 .. n - 1 |-> f(i + 1)]
    BY <1>1, <1>2
  <1>. QED
    BY <1>3, <1>5, <1>6, <1>7 DEF n

LEMMA AdvanceKeeps ==
  ASSUME JobOK, NEW step, Worker!At(step), Worker!Advance, step = "code" => Deployed'
  PROVE  /\ JobOK' /\ stage \in Worker!Stages /\ stage' = stage
         /\ outcome' = "running" \/ (outcome' = "passed" /\ step = Final(stage))
  <1>1. outcome = "running" /\ Head(todo) = step /\ stage' = stage /\ stage \in Worker!Stages
    BY DEF Worker!At, Worker!Advance, JobOK
  <1>2. PICK k \in 1 .. Len(Worker!Steps(stage)) : todo = Rest(stage, k)
    BY <1>1 DEF JobOK
  <1>3. /\ Len(todo) = Len(Worker!Steps(stage)) - k + 1 /\ step = Worker!Steps(stage)[k]
        /\ todo' = Rest(stage, k + 1)
    BY <1>1, <1>2, RestTail DEF Worker!Advance
  <1>4. CASE k = Len(Worker!Steps(stage))
    <2>1. Len(todo) = 1 /\ step = Final(stage)
      BY <1>1, <1>3, <1>4, StepsOfStages
    <2>. QED
      BY <1>1, <2>1 DEF Worker!Advance, JobOK
  <1>5. CASE k # Len(Worker!Steps(stage))
    <2>1. k + 1 \in 1 .. Len(Worker!Steps(stage)) /\ Len(todo) # 1
      BY <1>1, <1>3, <1>5, StepsOfStages
    <2>2. Worker!Steps(stage)[k + 1] = "cron_on" => step = "code"
      <3>1. (k + 1) - 1 = k
        OBVIOUS
      <3>. QED
        BY <1>1, <1>3, <2>1, <3>1, StepsOfStages
    <2>3. outcome' = "running"
      BY <2>1 DEF Worker!Advance
    <2>. QED
      BY <1>1, <1>3, <2>1, <2>2, <2>3 DEF JobOK
  <1>. QED
    BY <1>4, <1>5

LEMMA StoppedKeeps ==
  ASSUME Worker!Stopped
  PROVE  JobOK' /\ Worker!PassedStageHolds'
  BY DEF Worker!Stopped, JobOK, Worker!PassedStageHolds

(* A job that goes on after a write, which is nowhere a stage's last step.       *)
LEMMA WriteGoesOn ==
  ASSUME JobOK, NEW step \in {"key", "wrangler", "bindings", "code", "cron_on", "cron_off"},
         Worker!At(step), Worker!Advance \/ Worker!Stopped, step = "code" => Deployed'
  PROVE  JobOK' /\ Worker!PassedStageHolds'
  <1>1. CASE Worker!Advance
    <2>1. JobOK' /\ (outcome' = "running" \/ step = Final(stage))
      BY <1>1, AdvanceKeeps
    <2>2. step # Final(stage)
      BY DEF Final
    <2>. QED
      BY <2>1, <2>2 DEF Worker!PassedStageHolds
  <1>. QED
    BY <1>1, StoppedKeeps

LEMMA WorkerInit ==
  ASSUME Worker!Init
  PROVE  WInv
  BY DEF Worker!Init, WInv, JobOK, KeyOK, Worker!TriggerRunsSignedCode, Worker!PassedStageHolds

LEMMA StartJobStep ==
  ASSUME WInv, NEW s \in Worker!Stages, Worker!StartJob(s)
  PROVE  WInv'
  <1>1. todo' = Rest(s, 1) /\ 1 \in 1 .. Len(Worker!Steps(s)) /\ Worker!Steps(s)[1] # "cron_on"
    <2>1. Len(Worker!Steps(s)) - 1 + 1 = Len(Worker!Steps(s)) /\ \A i \in Nat : i + 1 - 1 = i
      BY StepsOfStages
    <2>2. Rest(s, 1) = Worker!Steps(s)
      BY <2>1, StepsOfStages DEF Rest
    <2>. QED
      BY <2>2, StepsOfStages DEF Worker!StartJob
  <1>2. JobOK'
    BY <1>1 DEF Worker!StartJob, JobOK
  <1>. QED
    BY <1>2 DEF WInv, KeyOK, Worker!StartJob, Worker!worker, Worker!TriggerRunsSignedCode,
       Worker!PassedStageHolds

LEMMA CheckStep ==
  ASSUME WInv, NEW step \in {"dormant", "prepared", "before_prepare", "before_activate",
                             "disabled", "active"}, Worker!Check(step)
  PROVE  WInv'
  <1>1. KeyOK' /\ Worker!TriggerRunsSignedCode' /\ trigger' = trigger
    BY DEF WInv, Worker!Check, Worker!worker, KeyOK, Worker!TriggerRunsSignedCode
  <1>2. CASE Worker!Stopped
    BY <1>1, <1>2, StoppedKeeps DEF WInv
  <1>3. CASE Worker!Advance /\ Worker!Holds(step)
    <2>1. /\ JobOK' /\ stage \in Worker!Stages /\ stage' = stage
          /\ outcome' = "running" \/ (outcome' = "passed" /\ step = Final(stage))
      BY <1>3, AdvanceKeeps DEF WInv, Worker!Check
    <2>2. step = Final(stage) => (trigger = "on" <=> stage \in {"ACTIVATE", "VERIFY_ACTIVE"})
      BY <1>3, <2>1 DEF Worker!Holds, Final, Worker!Prepared, Worker!Stages
    <2>3. Worker!PassedStageHolds'
      BY <1>1, <2>1, <2>2 DEF Worker!PassedStageHolds
    <2>. QED
      BY <1>1, <2>1, <2>3 DEF WInv
  <1>. QED
    BY <1>2, <1>3 DEF Worker!Check

LEMMA InstallKeyStep ==
  ASSUME WInv, Worker!InstallKey
  PROVE  WInv'
  <1>1. CASE Worker!Stopped /\ UNCHANGED Worker!worker
    BY <1>1, StoppedKeeps DEF WInv, KeyOK, Worker!worker, Worker!TriggerRunsSignedCode
  <1>2. CASE /\ Worker!Holds("key") /\ (Worker!Advance \/ Worker!Stopped)
             /\ secrets' = secrets \cup {"key"} /\ keyWrites' = keyWrites + 1
             /\ UNCHANGED <<code, trigger, boundary>>
    <2>1. Worker!At("key")
      BY DEF Worker!InstallKey, Worker!Write
    <2>2. JobOK' /\ Worker!PassedStageHolds'
      BY <1>2, <2>1, WriteGoesOn DEF WInv
    <2>3. trigger = "off" /\ secrets = {"dispatch"}
      BY <1>2 DEF Worker!Holds
    <2>4. KeyOK' /\ Worker!TriggerRunsSignedCode'
      BY <1>2, <2>3 DEF WInv, KeyOK, Worker!TriggerRunsSignedCode, Worker!Both
    <2>. QED
      BY <2>2, <2>4 DEF WInv
  <1>. QED
    BY <1>1, <1>2 DEF Worker!InstallKey, Worker!Write

LEMMA WranglerStep ==
  ASSUME WInv, Worker!Wrangler
  PROVE  WInv'
  <1>1. CASE Worker!Stopped /\ UNCHANGED Worker!worker
    BY <1>1, StoppedKeeps DEF WInv, KeyOK, Worker!worker, Worker!TriggerRunsSignedCode
  <1>2. CASE /\ Worker!Advance \/ Worker!Stopped
             /\ trigger' = "off" /\ UNCHANGED <<secrets, boundary, keyWrites>>
    <2>1. Worker!At("wrangler")
      BY DEF Worker!Wrangler, Worker!Write
    <2>2. JobOK' /\ Worker!PassedStageHolds'
      BY <1>2, <2>1, WriteGoesOn DEF WInv
    <2>. QED
      BY <1>2, <2>2 DEF WInv, KeyOK, Worker!TriggerRunsSignedCode
  <1>. QED
    BY <1>1, <1>2 DEF Worker!Wrangler, Worker!Write

LEMMA BindingsStep ==
  ASSUME WInv, Worker!Bindings
  PROVE  WInv'
  <1>1. JobOK' /\ Worker!PassedStageHolds'
    BY WriteGoesOn DEF WInv, Worker!Bindings
  <1>. QED
    BY <1>1 DEF WInv, KeyOK, Worker!Bindings, Worker!worker, Worker!TriggerRunsSignedCode

LEMMA UploadStep ==
  ASSUME WInv, Worker!UploadCode
  PROVE  WInv'
  <1>1. CASE Worker!Stopped /\ UNCHANGED Worker!worker
    BY <1>1, StoppedKeeps DEF WInv, KeyOK, Worker!worker, Worker!TriggerRunsSignedCode
  <1>2. CASE /\ secrets = Worker!Both /\ (Worker!Advance \/ Worker!Stopped)
             /\ code' = "private" /\ UNCHANGED <<trigger, secrets, boundary, keyWrites>>
    <2>1. Worker!At("code")
      BY DEF Worker!UploadCode, Worker!Write
    <2>2. Deployed'
      BY <1>2 DEF Deployed
    <2>3. JobOK' /\ Worker!PassedStageHolds'
      BY <1>2, <2>1, <2>2, WriteGoesOn DEF WInv
    <2>. QED
      BY <1>2, <2>3 DEF WInv, KeyOK, Worker!TriggerRunsSignedCode
  <1>. QED
    BY <1>1, <1>2 DEF Worker!UploadCode, Worker!Write

LEMMA SetCronStep ==
  ASSUME WInv, Worker!SetCron
  PROVE  WInv'
  <1>1. PICK s \in {"off", "on"} :
          Worker!Write(IF s = "on" THEN "cron_on" ELSE "cron_off", TRUE,
                       trigger' = s /\ UNCHANGED <<code, secrets, boundary, keyWrites>>)
    BY DEF Worker!SetCron
  <1>2. PICK step \in {"cron_on", "cron_off"} :
          /\ step = IF s = "on" THEN "cron_on" ELSE "cron_off"
          /\ Worker!At(step)
    BY <1>1 DEF Worker!Write
  <1>3. CASE Worker!Stopped /\ UNCHANGED Worker!worker
    BY <1>3, StoppedKeeps DEF WInv, KeyOK, Worker!worker, Worker!TriggerRunsSignedCode
  <1>4. CASE /\ Worker!Advance \/ Worker!Stopped
             /\ trigger' = s /\ UNCHANGED <<code, secrets, boundary, keyWrites>>
    <2>1. JobOK' /\ Worker!PassedStageHolds'
      BY <1>2, <1>4, WriteGoesOn DEF WInv
    <2>2. s = "on" => Deployed
      <3>1. s = "on" => Worker!At("cron_on")
        BY <1>2
      <3>. QED
        BY <3>1, RestTail DEF WInv, JobOK, Worker!At
    <2>3. Worker!TriggerRunsSignedCode'
      BY <1>4, <2>2 DEF Worker!TriggerRunsSignedCode, Deployed
    <2>. QED
      BY <1>4, <2>1, <2>3 DEF WInv, KeyOK
  <1>. QED
    BY <1>1, <1>3, <1>4 DEF Worker!Write

LEMMA DashboardStep ==
  ASSUME WInv, Worker!Dashboard
  PROVE  WInv'
  <1>1. UNCHANGED <<code, trigger, keyWrites, todo, stage, outcome>>
    BY DEF Worker!Dashboard, Worker!job
  <1>2. secrets' \in {secrets, secrets \cup {"dispatch"}}
    BY DEF Worker!Dashboard
  <1>3. secrets = Worker!Both => secrets' = Worker!Both
    BY <1>2 DEF Worker!Both
  <1>4. JobOK'
    BY <1>1, <1>3 DEF WInv, JobOK, Deployed
  <1>5. KeyOK'
    BY <1>1, <1>2 DEF WInv, KeyOK, Worker!Both
  <1>. QED
    BY <1>1, <1>3, <1>4, <1>5 DEF WInv, Worker!TriggerRunsSignedCode, Worker!PassedStageHolds

LEMMA WorkerStep ==
  ASSUME WInv, [Worker!Next]_Worker!vars
  PROVE  WInv'
  <1>1. CASE UNCHANGED Worker!vars
    BY <1>1 DEF WInv, JobOK, KeyOK, Deployed, Worker!vars, Worker!worker, Worker!job,
       Worker!TriggerRunsSignedCode, Worker!PassedStageHolds
  <1>. QED
    BY <1>1, StartJobStep, CheckStep, InstallKeyStep, WranglerStep, BindingsStep, UploadStep,
       SetCronStep, DashboardStep DEF Worker!Next

(* The trigger is on only for the signed code with both secrets, whatever request *)
(* of whatever job failed; the key is written once; a stage that passed holds.    *)
THEOREM StagesHoldAlways == Worker!Spec => []StagesHold
  <1>1. WInv => StagesHold
    BY DEF WInv, KeyOK, StagesHold, Worker!KeyInstalledOnce
  <1>. QED
    BY <1>1, WorkerInit, WorkerStep, PTL DEF Worker!Spec
-----------------------------------------------------------------------------
(* status(): a row that a query has returned only gets older, and a registry that  *)
(* seems well when all queries are done was well when the newest run was read.     *)


\* A finite set of integers has a greatest element.
LEMMA GreatestExists ==
  ASSUME NEW S \in SUBSET Int, IsFiniteSet(S), S # {}
  PROVE  \E x \in S : \A y \in S : x >= y
  <1>. DEFINE Above(e) == {x \in S : x > e}
              T == {Above(e) : e \in S}
  <1>1. FiniteSubsetsOf(S) = SUBSET S
    BY FS_FiniteSubsetsOfFinite
  <1>2. IsWellFoundedOn(StrictSubsetOrdering(S), SUBSET S)
    BY <1>1, FS_StrictSubsetOrderingWellFounded
  <1>3. T \subseteq SUBSET S /\ T # {}
    OBVIOUS
  <1>4. PICK t \in T : \A u \in T : <<u, t>> \notin StrictSubsetOrdering(S)
    <2>. HIDE DEF T
    <2>. QED
      BY <1>2, <1>3, WFMin
  <1>5. PICK e \in S : t = Above(e)
    BY <1>4
  <1>6. ASSUME NEW y \in S, y > e
        PROVE  FALSE
    <2>1. Above(y) \subseteq t /\ Above(y) # t /\ Above(y) \in T
      <3>1. y \in t /\ y \notin Above(y)
        BY <1>5, <1>6
      <3>2. \A x \in S : x > y => x > e
        BY <1>6
      <3>3. Above(y) \subseteq t
        BY <1>5, <3>2
      <3>. QED
        BY <3>1, <3>3
    <2>2. <<Above(y), t>> \in StrictSubsetOrdering(S)
      <3>. HIDE DEF Above
      <3>. QED
        BY <2>1, <1>3, <1>4 DEF StrictSubsetOrdering
    <2>. QED
      BY <1>4, <2>1, <2>2
  <1>. QED
    BY <1>6

LEMMA SameGreatest ==
  ASSUME NEW S \in SUBSET Int, IsFiniteSet(S), S # {}
  PROVE  Reads!Max(S) \in S /\ \A y \in S : Reads!Max(S) >= y
  BY GreatestExists DEF Reads!Max

AllChecks == {Reads!NoChecks} \cup Results["forecast"] \cup Results["settlement"]

RunRows ==
  [type : {"forecast", "settlement"}, dataset : Datasets \cup ReadDatasets, as_of : Nat,
   status : {"running", "succeeded", "failed"}, checks : AllChecks, finished : Nat]

\* What holds of the rows in either instance.
Rowed ==
  /\ statusNow \in Nat /\ runs \in Seq(RunRows) /\ ends \in Seq(Nat)
  /\ \A k \in 1 .. Len(ends) : ends[k] \in 1 .. Len(runs)

\* A row is of its type, ends once, and ends are listed in the order of their times.
Ended ==
  /\ \A i \in 1 .. Len(runs) : runs[i].checks \in Results[runs[i].type] \cup {Reads!NoChecks}
  /\ \A k \in 1 .. Len(ends) : /\ runs[ends[k]].status # "running"
                               /\ runs[ends[k]].finished <= statusNow
  /\ \A k, m \in 1 .. Len(ends) : k < m => runs[ends[k]].finished <= runs[ends[m]].finished

ReaderTyped ==
  /\ reader \in [pc : {"idle", "newest", "paired", "checks", "own"}, at : Nat, latest : Nat,
                 newest : Nat, paired : Nat, failed : BOOLEAN, checks : AllChecks]
  /\ reader.pc # "idle" /\ reader.latest # 0 =>
       \E k \in Reads!Succeeded : ends[k] = reader.latest
  /\ reader.pc \in {"paired", "checks", "own"} => reader.newest \in 0 .. Len(runs)
  /\ reader.pc \in {"checks", "own"} => reader.paired = Reads!CycleForecast(reader.newest)
  /\ reader.pc = "own" => reader.checks \in Results["forecast"] \cup {Reads!NoChecks}

Clean(c) == Reads!Named(c, "failed") = {} /\ Reads!Named(c, "warning") = {}

\* What the reader has seen is well, and what it has still to see is well now.
Hopeful ==
  LET p == Reads!CycleForecast(reader.newest)
  IN  /\ reader.pc \in {"paired", "checks", "own"} /\ ~reader.failed
      /\ reader.latest # 0 /\ ~Reads!Stale(reader.latest, reader.at)
      /\ reader.pc = "paired" /\ reader.newest # p => ~Reads!Failed(p)
      /\ reader.pc \in {"paired", "checks"} => Clean(Reads!ChecksOf(p))
      /\ reader.pc = "own" => Clean(reader.checks)
      /\ reader.newest # p => Clean(Reads!ChecksOf(reader.newest))

Witnessed ==
  /\ reader.pc # "idle" => Reads!HealthNow(reader.at) \in moments
  /\ Hopeful => "ok" \in moments

StatusInv == Rowed /\ (focus = "reads" => Ended /\ ReaderTyped /\ Witnessed)

LEMMA StatusConstants ==
  /\ {DayLength, StaleAfter, MaxRuns, PairingTime, ReadTime} \subseteq Nat \ {0}
  /\ \A x \in Results["forecast"], y \in Results["settlement"] : DOMAIN x \cap DOMAIN y = {}
  BY StatusesAssumption DEF Pairing!StatusAssumption, Reads!StatusAssumption

LEMMA NothingIsClean == Clean(Reads!NoChecks)
  BY DEF Clean, Reads!NoChecks, Reads!Named

\* A run is paired with one that started no later, of its type of its own or a forecast.
LEMMA PairedBefore ==
  ASSUME Rowed, NEW r \in 0 .. Len(runs)
  PROVE  /\ Reads!CycleForecast(r) \in 0 .. r
         /\ Reads!CycleForecast(r) # 0 => runs[Reads!CycleForecast(r)].type = "forecast"
         /\ Reads!CycleForecast(r) # r => r # 0 /\ runs[r].type = "settlement"
  <1>. DEFINE S == Reads!Candidates(r)
  <1>0. r \in Int /\ Len(runs) \in Nat
    BY DEF Rowed
  <1>1. IsFiniteSet(S) /\ S \in SUBSET Int
    <2>1. IsFiniteSet(1 .. r)
      BY <1>0, FS_Interval
    <2>. QED
      BY <2>1, <1>0, FS_Subset DEF Reads!Candidates
  <1>2. S # {} => Reads!Max(S) \in S
    BY <1>1, SameGreatest
  <1>3. S # {} => Reads!Max(S) \in 1 .. r /\ runs[Reads!Max(S)].type = "forecast"
    BY <1>2 DEF Reads!Candidates
  <1>4. r # 0 => runs[r].type \in {"forecast", "settlement"}
    <2>1. ASSUME r # 0
          PROVE  runs[r] \in RunRows
      BY <1>0, <2>1 DEF Rowed
    <2>. QED
      BY <2>1 DEF RunRows
  <1>. HIDE DEF S
  <1>. QED
    BY <1>0, <1>3, <1>4 DEF Reads!CycleForecast, Reads!Absent, S

\* What a step of the runs leaves: rows stay, checks are added once, an end is final.
Older ==
  /\ Len(runs) <= Len(runs')
  /\ \A i \in 1 .. Len(runs) :
       /\ runs'[i].type = runs[i].type /\ runs'[i].dataset = runs[i].dataset
       /\ runs'[i].as_of = runs[i].as_of
       /\ runs[i].checks # Reads!NoChecks => runs'[i].checks = runs[i].checks
       /\ runs[i].status # "running" =>
            runs'[i].status = runs[i].status /\ runs'[i].finished = runs[i].finished
  /\ Len(ends) <= Len(ends') /\ \A k \in 1 .. Len(ends) : ends'[k] = ends[k]

LEMMA PairingStays ==
  ASSUME Rowed, Older, NEW r \in 0 .. Len(runs)
  PROVE  Reads!CycleForecast(r)' = Reads!CycleForecast(r)
  <1>1. Len(runs) \in Nat /\ r \in Int
    BY DEF Rowed
  <1>2. r # 0 => Reads!Candidates(r)' = Reads!Candidates(r)
    BY <1>1 DEF Older, Reads!Candidates
  <1>3. r # 0 => runs'[r].type = runs[r].type
    BY <1>1 DEF Older
  <1>4. r # 0 => Reads!Max(Reads!Candidates(r))' = Reads!Max(Reads!Candidates(r))
    BY <1>2
  <1>. QED
    BY <1>2, <1>3, <1>4 DEF Reads!CycleForecast, Reads!Absent

LEMMA CleanBefore ==
  ASSUME Rowed, Older, NEW i \in 0 .. Len(runs), Clean(Reads!ChecksOf(i)')
  PROVE  Clean(Reads!ChecksOf(i))
  <1>1. i # 0 => runs[i].checks = Reads!NoChecks \/ runs'[i].checks = runs[i].checks
    BY DEF Older, Rowed
  <1>. QED
    BY <1>1, NothingIsClean DEF Reads!ChecksOf, Reads!Absent

LEMMA FailedBefore ==
  ASSUME Rowed, Older, NEW i \in 0 .. Len(runs), ~Reads!Failed(i)'
  PROVE  ~Reads!Failed(i)
  BY DEF Older, Rowed, Reads!Failed, Reads!Absent

LEMMA SuccessStays ==
  ASSUME Rowed, Older, NEW k \in Reads!Succeeded
  PROVE  /\ k \in Reads!Succeeded' /\ ends'[k] = ends[k]
         /\ runs'[ends[k]].finished = runs[ends[k]].finished
  <1>1. k \in 1 .. Len(ends) /\ ends[k] \in 1 .. Len(runs) /\ runs[ends[k]].status = "succeeded"
    BY DEF Rowed, Reads!Succeeded
  <1>2. k \in 1 .. Len(ends')
    BY <1>1 DEF Older, Rowed
  <1>. QED
    BY <1>1, <1>2 DEF Older, Reads!Succeeded

\* The steps of the runs, in either instance.
Starts(t, d) ==
  /\ runs' = Append(runs, [type |-> t, dataset |-> d, as_of |-> statusNow, status |-> "running",
                           checks |-> Reads!NoChecks, finished |-> 0])
  /\ UNCHANGED ends

Adds(i, c) ==
  /\ runs[i].status = "running" /\ runs[i].checks = Reads!NoChecks
  /\ runs' = [runs EXCEPT ![i].checks = c]
  /\ UNCHANGED ends

Ends(i, s) ==
  /\ runs[i].status = "running"
  /\ runs' = [runs EXCEPT ![i].status = s, ![i].finished = statusNow]
  /\ ends' = Append(ends, i)

RunsMove ==
  /\ UNCHANGED statusNow
  /\ \/ \E t \in {"forecast", "settlement"}, d \in Datasets \cup ReadDatasets : Starts(t, d)
     \/ \E i \in 1 .. Len(runs) : \/ \E c \in Results[runs[i].type] : Adds(i, c)
                                  \/ \E s \in {"succeeded", "failed"} : Ends(i, s)

LEMMA MovesAge ==
  ASSUME Rowed, RunsMove
  PROVE  Rowed' /\ Older
  <1>0. /\ statusNow \in Nat /\ runs \in Seq(RunRows) /\ ends \in Seq(Nat) /\ Len(runs) \in Nat
        /\ \A k \in 1 .. Len(ends) : ends[k] \in 1 .. Len(runs)
    BY DEF Rowed
  <1>1. ASSUME NEW t \in {"forecast", "settlement"}, NEW d \in Datasets \cup ReadDatasets, Starts(t, d)
        PROVE  Rowed' /\ Older
    <2>. DEFINE row == [type |-> t, dataset |-> d, as_of |-> statusNow, status |-> "running",
                        checks |-> Reads!NoChecks, finished |-> 0]
    <2>1. row \in RunRows
      BY <1>0 DEF RunRows, AllChecks
    <2>2. runs' = Append(runs, row) /\ ends' = ends
      BY <1>1 DEF Starts
    <2>. HIDE DEF row
    <2>3. /\ runs' \in Seq(RunRows) /\ Len(runs') = Len(runs) + 1
          /\ \A i \in 1 .. Len(runs) : runs'[i] = runs[i]
      BY <1>0, <2>1, <2>2
    <2>. QED
      BY <1>0, <2>2, <2>3, RunsMove DEF RunsMove, Rowed, Older
  <1>2. ASSUME NEW i \in 1 .. Len(runs), NEW c \in Results[runs[i].type], Adds(i, c)
        PROVE  Rowed' /\ Older
    <2>1. runs[i] \in RunRows /\ c \in AllChecks
      <3>1. runs[i] \in RunRows
        BY <1>0
      <3>2. runs[i].type \in {"forecast", "settlement"}
        BY <3>1 DEF RunRows
      <3>. QED
        BY <3>1, <3>2 DEF AllChecks
    <2>2. runs' = [runs EXCEPT ![i] = [runs[i] EXCEPT !.checks = c]] /\ ends' = ends
      BY <1>0, <1>2 DEF Adds
    <2>3. [runs[i] EXCEPT !.checks = c] \in RunRows
      BY <2>1 DEF RunRows
    <2>4. /\ runs' \in Seq(RunRows) /\ Len(runs') = Len(runs)
          /\ runs'[i] = [runs[i] EXCEPT !.checks = c]
          /\ \A j \in 1 .. Len(runs) : j # i => runs'[j] = runs[j]
      BY <1>0, <2>2, <2>3
    <2>5. Older
      BY <1>0, <1>2, <2>1, <2>2, <2>4 DEF Older, Adds, RunRows
    <2>. QED
      BY <1>0, <2>2, <2>4, <2>5, RunsMove DEF RunsMove, Rowed
  <1>3. ASSUME NEW i \in 1 .. Len(runs), NEW s \in {"succeeded", "failed"}, Ends(i, s)
        PROVE  Rowed' /\ Older
    <2>1. runs[i] \in RunRows
      BY <1>0
    <2>2. /\ runs' = [runs EXCEPT ![i] = [runs[i] EXCEPT !.status = s, !.finished = statusNow]]
          /\ ends' = Append(ends, i)
      BY <1>0, <1>3 DEF Ends
    <2>3. [runs[i] EXCEPT !.status = s, !.finished = statusNow] \in RunRows
      BY <1>0, <2>1 DEF RunRows
    <2>4. /\ runs' \in Seq(RunRows) /\ Len(runs') = Len(runs)
          /\ runs'[i] = [runs[i] EXCEPT !.status = s, !.finished = statusNow]
          /\ \A j \in 1 .. Len(runs) : j # i => runs'[j] = runs[j]
      <3>. DEFINE row == [runs[i] EXCEPT !.status = s, !.finished = statusNow]
      <3>1. row \in RunRows /\ runs' = [runs EXCEPT ![i] = row]
        BY <2>2, <2>3
      <3>. HIDE DEF row
      <3>2. /\ runs' \in Seq(RunRows) /\ Len(runs') = Len(runs) /\ runs'[i] = row
            /\ \A j \in 1 .. Len(runs) : j # i => runs'[j] = runs[j]
        BY <1>0, <3>1
      <3>. QED
        BY <3>2 DEF row
    <2>5. /\ ends' \in Seq(Nat) /\ Len(ends') = Len(ends) + 1 /\ ends'[Len(ends')] = i
          /\ \A k \in 1 .. Len(ends) : ends'[k] = ends[k]
      BY <1>0, <2>2
    <2>6. Older
      BY <1>0, <1>3, <2>1, <2>4, <2>5 DEF Older, Ends, RunRows
    <2>7. ASSUME NEW k \in 1 .. Len(ends')
          PROVE  ends'[k] \in 1 .. Len(runs')
      <3>1. k = Len(ends') \/ k \in 1 .. Len(ends)
        BY <1>0, <2>5
      <3>2. Len(runs') = Len(runs)
        BY <2>4
      <3>. QED
        BY <1>0, <2>5, <3>1, <3>2
    <2>. QED
      BY <1>0, <2>4, <2>5, <2>6, <2>7, RunsMove DEF RunsMove, Rowed
  <1>. QED
    BY <1>1, <1>2, <1>3 DEF RunsMove

LEMMA MovesEnd ==
  ASSUME Rowed, Ended, RunsMove
  PROVE  Ended'
  <1>0. /\ statusNow \in Nat /\ runs \in Seq(RunRows) /\ ends \in Seq(Nat) /\ Len(runs) \in Nat
        /\ Len(ends) \in Nat /\ statusNow' = statusNow
        /\ \A k \in 1 .. Len(ends) : ends[k] \in 1 .. Len(runs)
    BY DEF Rowed, RunsMove
  <1>1. ASSUME NEW t \in {"forecast", "settlement"}, NEW d \in Datasets \cup ReadDatasets, Starts(t, d)
        PROVE  Ended'
    <2>. DEFINE row == [type |-> t, dataset |-> d, as_of |-> statusNow, status |-> "running",
                        checks |-> Reads!NoChecks, finished |-> 0]
    <2>1. runs' = Append(runs, row) /\ ends' = ends
      BY <1>1 DEF Starts
    <2>2. row.checks = Reads!NoChecks
      OBVIOUS
    <2>. HIDE DEF row
    <2>3. /\ Len(runs') = Len(runs) + 1 /\ runs'[Len(runs')] = row
          /\ \A i \in 1 .. Len(runs) : runs'[i] = runs[i]
      BY <1>0, <2>1
    <2>. QED
      BY <1>0, <2>1, <2>2, <2>3 DEF Ended
  <1>2. ASSUME NEW i \in 1 .. Len(runs), NEW c \in Results[runs[i].type], Adds(i, c)
        PROVE  Ended'
    <2>1. runs[i] \in RunRows
      BY <1>0
    <2>2. /\ Len(runs') = Len(runs) /\ runs'[i] = [runs[i] EXCEPT !.checks = c] /\ ends' = ends
          /\ \A j \in 1 .. Len(runs) : j # i => runs'[j] = runs[j]
      BY <1>0, <1>2 DEF Adds
    <2>3. /\ \A j \in 1 .. Len(runs) : /\ runs'[j].type = runs[j].type
                                       /\ runs'[j].status = runs[j].status
                                       /\ runs'[j].finished = runs[j].finished
                                       /\ j # i => runs'[j].checks = runs[j].checks
          /\ runs'[i].checks = c
      BY <1>0, <2>1, <2>2 DEF RunRows
    <2>4. \A j \in 1 .. Len(runs) : runs'[j].checks \in Results[runs'[j].type] \cup {Reads!NoChecks}
      BY <2>3 DEF Ended
    <2>5. /\ \A k \in 1 .. Len(ends) : /\ runs'[ends[k]].status = runs[ends[k]].status
                                       /\ runs'[ends[k]].finished = runs[ends[k]].finished
          /\ ends' = ends /\ Len(runs') = Len(runs)
      BY <1>0, <2>2, <2>3
    <2>. QED
      BY <1>0, <2>4, <2>5 DEF Ended
  <1>3. ASSUME NEW i \in 1 .. Len(runs), NEW s \in {"succeeded", "failed"}, Ends(i, s)
        PROVE  Ended'
    <2>1. runs[i] \in RunRows
      BY <1>0
    <2>2. /\ Len(runs') = Len(runs)
          /\ runs'[i] = [runs[i] EXCEPT !.status = s, !.finished = statusNow]
          /\ \A j \in 1 .. Len(runs) : j # i => runs'[j] = runs[j]
          /\ ends' = Append(ends, i) /\ runs[i].status = "running"
      <3>1. runs' = [runs EXCEPT ![i] = [runs[i] EXCEPT !.status = s, !.finished = statusNow]]
        BY <1>0, <1>3 DEF Ends
      <3>2. ends' = Append(ends, i) /\ runs[i].status = "running"
        BY <1>3 DEF Ends
      <3>. DEFINE row == [runs[i] EXCEPT !.status = s, !.finished = statusNow]
      <3>3. runs' = [runs EXCEPT ![i] = row]
        BY <3>1
      <3>. HIDE DEF row
      <3>4. /\ Len(runs') = Len(runs) /\ runs'[i] = row
            /\ \A j \in 1 .. Len(runs) : j # i => runs'[j] = runs[j]
        BY <1>0, <3>3
      <3>. QED
        BY <3>2, <3>4 DEF row
    <2>3. /\ Len(ends') = Len(ends) + 1 /\ ends'[Len(ends')] = i
          /\ \A k \in 1 .. Len(ends) : ends'[k] = ends[k] /\ ends[k] # i
      BY <1>0, <2>2 DEF Ended
    <2>4. /\ \A j \in 1 .. Len(runs) : /\ runs'[j].type = runs[j].type
                                       /\ runs'[j].checks = runs[j].checks
                                       /\ j # i => /\ runs'[j].status = runs[j].status
                                                   /\ runs'[j].finished = runs[j].finished
          /\ runs'[i].status = s /\ runs'[i].finished = statusNow
      BY <1>0, <2>1, <2>2 DEF RunRows
    <2>5. \A k \in 1 .. Len(ends') : IF k = Len(ends') THEN ends'[k] = i
                                     ELSE k \in 1 .. Len(ends) /\ ends'[k] = ends[k]
      BY <1>0, <2>3
    <2>6. ASSUME NEW k \in 1 .. Len(ends')
          PROVE  /\ runs'[ends'[k]].status # "running"
                 /\ runs'[ends'[k]].finished <= statusNow
                 /\ k # Len(ends') => /\ k \in 1 .. Len(ends) /\ ends'[k] = ends[k]
                                      /\ runs'[ends[k]].finished = runs[ends[k]].finished
      <3>1. CASE k = Len(ends')
        BY <1>0, <2>3, <2>4, <3>1
      <3>2. CASE k \in 1 .. Len(ends) /\ k # Len(ends')
        <4>1. ends[k] \in 1 .. Len(runs) /\ ends[k] # i /\ ends'[k] = ends[k]
          BY <1>0, <2>3, <3>2
        <4>2. runs[ends[k]].status # "running" /\ runs[ends[k]].finished <= statusNow
          BY <3>2 DEF Ended
        <4>. QED
          BY <2>4, <3>2, <4>1, <4>2
      <3>. QED
        BY <1>0, <2>5, <3>1, <3>2
    <2>7. ASSUME NEW k \in 1 .. Len(ends'), NEW m \in 1 .. Len(ends'), k < m
          PROVE  runs'[ends'[k]].finished <= runs'[ends'[m]].finished
      <3>1. k # Len(ends')
        BY <1>0, <2>3, <2>7
      <3>2. CASE m = Len(ends')
        BY <1>0, <2>3, <2>4, <2>6, <3>1, <3>2 DEF Ended
      <3>3. CASE m # Len(ends')
        BY <2>6, <2>7, <3>1, <3>3 DEF Ended
      <3>. QED
        BY <3>2, <3>3
    <2>. QED
      BY <1>0, <2>2, <2>4, <2>6, <2>7 DEF Ended
  <1>. QED
    BY <1>1, <1>2, <1>3 DEF RunsMove

\* What is well after a step of the runs was well before it.
LEMMA HopeBefore ==
  ASSUME Rowed, Older, ReaderTyped, reader' = reader, Hopeful'
  PROVE  Hopeful
  <1>. DEFINE n == reader.newest
              p == Reads!CycleForecast(n)
  <1>1. reader.pc \in {"paired", "checks", "own"} /\ n \in 0 .. Len(runs)
    BY DEF Hopeful, ReaderTyped
  <1>2. p \in 0 .. Len(runs) /\ Reads!CycleForecast(n)' = p
    BY <1>1, PairedBefore, PairingStays DEF Rowed
  <1>3. ~Reads!Stale(reader.latest, reader.at)
    <2>1. PICK k \in Reads!Succeeded : ends[k] = reader.latest
      BY <1>1 DEF Hopeful, ReaderTyped
    <2>2. runs'[reader.latest].finished = runs[reader.latest].finished
      BY <2>1, SuccessStays
    <2>3. ~(reader.latest # 0 /\ reader.at > runs'[reader.latest].finished + StaleAfter)
      BY DEF Hopeful, Reads!Stale, Reads!Absent
    <2>. QED
      BY <2>2, <2>3 DEF Reads!Stale, Reads!Absent
  <1>4. reader.pc = "paired" /\ n # p => ~Reads!Failed(p)
    <2>1. reader.pc = "paired" /\ n # p => ~Reads!Failed(p)'
      BY <1>2 DEF Hopeful, Reads!Failed
    <2>. QED
      BY <1>2, <2>1, FailedBefore
  <1>5. reader.pc \in {"paired", "checks"} => Clean(Reads!ChecksOf(p))
    <2>1. reader.pc \in {"paired", "checks"} => Clean(Reads!ChecksOf(p)')
      BY <1>2 DEF Hopeful, Reads!ChecksOf
    <2>. QED
      BY <1>2, <2>1, CleanBefore
  <1>6. n # p => Clean(Reads!ChecksOf(n))
    <2>1. n # p => Clean(Reads!ChecksOf(n)')
      BY <1>2 DEF Hopeful, Reads!ChecksOf
    <2>. QED
      BY <1>1, <2>1, CleanBefore
  <1>7. ~reader.failed /\ reader.latest # 0 /\ (reader.pc = "own" => Clean(reader.checks))
    BY DEF Hopeful
  <1>. QED
    BY <1>1, <1>3, <1>4, <1>5, <1>6, <1>7 DEF Hopeful

LEMMA MovesAreSeen ==
  ASSUME Rowed, RunsMove, ReaderTyped, Witnessed, reader' = reader, Reads!Observe
  PROVE  ReaderTyped' /\ Witnessed'
  <1>1. Older /\ Len(runs) \in Nat /\ Len(runs') \in Nat
    BY MovesAge DEF Rowed
  <1>2. ReaderTyped'
    <2>1. reader'.pc # "idle" /\ reader'.latest # 0 =>
            \E k \in Reads!Succeeded' : ends'[k] = reader'.latest
      BY <1>1, SuccessStays DEF ReaderTyped
    <2>2. reader'.pc \in {"paired", "checks", "own"} => reader'.newest \in 0 .. Len(runs')
      BY <1>1 DEF ReaderTyped, Older
    <2>3. reader'.pc \in {"checks", "own"} => reader'.paired = Reads!CycleForecast(reader.newest)'
      <3>1. reader.pc \in {"checks", "own"} => /\ reader.newest \in 0 .. Len(runs)
                                               /\ reader.paired = Reads!CycleForecast(reader.newest)
        BY DEF ReaderTyped
      <3>. QED
        BY <1>1, <3>1, PairingStays
    <2>. QED
      BY <2>1, <2>2, <2>3 DEF ReaderTyped
  <1>3. reader.pc # "idle" => /\ moments \subseteq moments'
                              /\ Reads!HealthNow(reader.at)' \in moments'
    BY DEF Reads!Observe
  <1>4. Hopeful' => "ok" \in moments'
    <2>1. Hopeful' => Hopeful
      BY <1>1, HopeBefore
    <2>2. Hopeful => reader.pc # "idle"
      BY DEF Hopeful
    <2>. QED
      BY <1>3, <2>1, <2>2 DEF Witnessed
  <1>. QED
    BY <1>2, <1>3, <1>4 DEF Witnessed

\* What the newest run is when all is well, once a success has been seen.
LEMMA WellNow ==
  ASSUME Rowed, Ended, NEW at \in Nat, NEW k \in Reads!Succeeded,
         ~Reads!Stale(ends[k], at), ~Reads!FailedNow,
         Clean(Reads!ChecksOf(Reads!CycleForecast(Reads!LatestRun))),
         Clean(Reads!ChecksOf(Reads!LatestRun))
  PROVE  Reads!HealthNow(at) = "ok"
  <1>. DEFINE m == Reads!Max(Reads!Succeeded)
  <1>0. /\ Len(ends) \in Nat /\ k \in 1 .. Len(ends) /\ Len(runs) \in Nat
        /\ \A i \in 1 .. Len(ends) : ends[i] \in 1 .. Len(runs)
        /\ \A i \in 1 .. Len(runs) : runs[i].finished \in Nat
        /\ StaleAfter \in Nat
    <2>1. \A i \in 1 .. Len(runs) : runs[i] \in RunRows
      BY DEF Rowed
    <2>2. \A i \in 1 .. Len(runs) : runs[i].finished \in Nat
      BY <2>1 DEF RunRows
    <2>3. k \in DOMAIN ends
      BY DEF Reads!Succeeded
    <2>. QED
      BY <2>2, <2>3, StatusConstants DEF Rowed
  <1>1. m \in Reads!Succeeded /\ m >= k
    <2>1. Reads!Succeeded \subseteq 1 .. Len(ends)
      BY DEF Reads!Succeeded, Rowed
    <2>2. IsFiniteSet(1 .. Len(ends))
      <3>1. Len(ends) \in Int
        BY <1>0
      <3>. QED
        BY <3>1, FS_Interval
    <2>3. IsFiniteSet(Reads!Succeeded)
      BY <2>1, <2>2, FS_Subset
    <2>4. Reads!Succeeded \in SUBSET Int /\ k \in Reads!Succeeded
      BY <2>1
    <2>. QED
      BY <2>3, <2>4, SameGreatest
  <1>. HIDE DEF m
  <1>2. m \in 1 .. Len(ends)
    BY <1>0, <1>1 DEF Reads!Succeeded, Rowed
  <1>3. runs[ends[k]].finished <= runs[ends[m]].finished
    <2>1. CASE m = k
      BY <1>0, <2>1
    <2>2. CASE k < m
      BY <1>0, <1>2, <2>2 DEF Ended
    <2>. QED
      BY <1>0, <1>1, <1>2, <2>1, <2>2
  <1>4. ends[m] # 0 /\ ~Reads!Stale(ends[m], at)
    <2>1. ends[k] \in 1 .. Len(runs) /\ ends[m] \in 1 .. Len(runs)
      BY <1>0, <1>2
    <2>2. ~(at > runs[ends[k]].finished + StaleAfter)
      BY <1>0, <2>1 DEF Reads!Stale, Reads!Absent
    <2>. QED
      BY <1>0, <1>3, <2>1, <2>2 DEF Reads!Stale, Reads!Absent
  <1>5. Reads!LatestSuccess = ends[m]
    BY <1>1 DEF Reads!LatestSuccess, m
  <1>6. Clean(Reads!QualityNow)
    BY DEF Clean, Reads!Named, Reads!QualityNow, Reads!Quality
  <1>. QED
    BY <1>4, <1>5, <1>6 DEF Reads!HealthNow, Reads!Health, Clean, Reads!Absent

LEMMA SameLook ==
  ASSUME UNCHANGED <<runs, ends>>, NEW CONSTANT x
  PROVE  /\ Reads!HealthNow(x)' = Reads!HealthNow(x)
         /\ Reads!CycleForecast(x)' = Reads!CycleForecast(x)
         /\ Reads!Succeeded' = Reads!Succeeded
  <1>1. \A r : Reads!Candidates(r)' = Reads!Candidates(r)
    BY DEF Reads!Candidates
  <1>2. \A r : Reads!CycleForecast(r)' = Reads!CycleForecast(r)
    BY <1>1 DEF Reads!CycleForecast
  <1>3. Reads!Succeeded' = Reads!Succeeded
    BY DEF Reads!Succeeded
  <1>4. Reads!LatestSuccess' = Reads!LatestSuccess
    BY <1>3 DEF Reads!LatestSuccess
  <1>5. Reads!FailedNow' = Reads!FailedNow /\ Reads!QualityNow' = Reads!QualityNow
    BY <1>2 DEF Reads!FailedNow, Reads!QualityNow, Reads!LatestRun, Reads!Failed, Reads!ChecksOf
  <1>. QED
    BY <1>2, <1>3, <1>4, <1>5 DEF Reads!HealthNow, Reads!Health, Reads!Stale

LEMMA LatestFound ==
  ASSUME Rowed
  PROVE  /\ Reads!LatestSuccess \in Nat
         /\ Reads!LatestSuccess # 0 => \E k \in Reads!Succeeded : ends[k] = Reads!LatestSuccess
  <1>1. Reads!Succeeded \subseteq 1 .. Len(ends) /\ Len(ends) \in Nat
    BY DEF Reads!Succeeded, Rowed
  <1>2. IsFiniteSet(1 .. Len(ends))
    <2>1. Len(ends) \in Int
      BY <1>1
    <2>. QED
      BY <2>1, FS_Interval
  <1>3. IsFiniteSet(Reads!Succeeded) /\ Reads!Succeeded \in SUBSET Int
    <2>1. IsFiniteSet(Reads!Succeeded)
      BY <1>1, <1>2, FS_Subset
    <2>. QED
      BY <1>1, <2>1
  <1>4. Reads!Succeeded # {} => Reads!Max(Reads!Succeeded) \in Reads!Succeeded
    BY <1>3, SameGreatest
  <1>5. \A k \in 1 .. Len(ends) : ends[k] \in Nat
    BY DEF Rowed
  <1>. QED
    BY <1>1, <1>4, <1>5 DEF Reads!LatestSuccess, Reads!Absent

LEMMA LatestRead ==
  ASSUME Rowed, Reads!ReadLatest
  PROVE  ReaderTyped' /\ Witnessed'
  <1>1. UNCHANGED <<runs, ends>> /\ statusNow \in Nat
    BY DEF Reads!ReadLatest, Rowed
  <1>2. reader' = [pc |-> "newest", at |-> statusNow, latest |-> Reads!LatestSuccess, newest |-> 0,
                   paired |-> 0, failed |-> FALSE, checks |-> Reads!NoChecks]
    BY DEF Reads!ReadLatest, Reads!Unread, Reads!Absent
  <1>3. PICK a : a = statusNow
    OBVIOUS
  <1>4. Reads!HealthNow(reader.at)' = Reads!HealthNow(a)
    BY <1>1, <1>2, <1>3, SameLook
  <1>5. Reads!HealthNow(reader.at)' \in moments'
    BY <1>3, <1>4 DEF Reads!ReadLatest
  <1>6. reader'.pc # "idle" /\ reader'.latest # 0 =>
          \E k \in Reads!Succeeded' : ends'[k] = reader'.latest
    BY <1>1, <1>2, <1>3, LatestFound, SameLook
  <1>7. reader' \in [pc : {"idle", "newest", "paired", "checks", "own"}, at : Nat, latest : Nat,
                     newest : Nat, paired : Nat, failed : BOOLEAN, checks : AllChecks]
    BY <1>1, <1>2, LatestFound DEF AllChecks
  <1>. QED
    BY <1>2, <1>5, <1>6, <1>7 DEF ReaderTyped, Witnessed, Hopeful

LEMMA NewestRead ==
  ASSUME Rowed, Ended, ReaderTyped, Witnessed, Reads!ReadNewest
  PROVE  ReaderTyped' /\ Witnessed'
  <1>1. UNCHANGED <<runs, ends, moments>> /\ Len(runs) \in Nat /\ reader.pc = "newest"
    BY DEF Reads!ReadNewest, Rowed
  <1>2. reader' = [reader EXCEPT !.pc = "paired", !.newest = Len(runs), !.failed = Reads!Failed(Len(runs))]
    BY DEF Reads!ReadNewest, Reads!LatestRun
  <1>3. /\ reader'.pc = "paired" /\ reader'.at = reader.at /\ reader'.latest = reader.latest
        /\ reader'.newest = Len(runs) /\ reader'.failed = Reads!Failed(Len(runs))
        /\ reader.at \in Nat
        /\ reader.latest # 0 => \E k \in Reads!Succeeded : ends[k] = reader.latest
    BY <1>1, <1>2 DEF ReaderTyped
  <1>4. PICK a, n : a = reader.at /\ n = Len(runs)
    OBVIOUS
  <1>5. /\ Reads!HealthNow(reader.at)' = Reads!HealthNow(a)
        /\ Reads!CycleForecast(reader.newest)' = Reads!CycleForecast(n)
        /\ Reads!Succeeded' = Reads!Succeeded
    BY <1>1, <1>3, <1>4, SameLook
  <1>6. ReaderTyped'
    <2>1. reader' \in [pc : {"idle", "newest", "paired", "checks", "own"}, at : Nat, latest : Nat,
                       newest : Nat, paired : Nat, failed : BOOLEAN, checks : AllChecks]
      BY <1>1, <1>2 DEF ReaderTyped, Reads!Failed
    <2>. QED
      BY <1>1, <1>3, <1>5, <2>1 DEF ReaderTyped
  <1>7. ASSUME Hopeful'
        PROVE  Reads!HealthNow(a) = "ok"
    <2>. DEFINE p == Reads!CycleForecast(n)
    <2>1. /\ ~Reads!Failed(n) /\ ~Reads!Failed(p) /\ Clean(Reads!ChecksOf(p))
          /\ n # p => Clean(Reads!ChecksOf(n))
      BY <1>1, <1>3, <1>4, <1>5, <1>7 DEF Hopeful, Reads!Failed, Reads!ChecksOf
    <2>2. reader.latest # 0 /\ ~Reads!Stale(reader.latest, a)
      BY <1>1, <1>3, <1>4, <1>7 DEF Hopeful, Reads!Stale
    <2>3. PICK k \in Reads!Succeeded : ends[k] = reader.latest
      BY <1>3, <2>2
    <2>4. ~Reads!FailedNow /\ Reads!LatestRun = n
      BY <1>4, <2>1 DEF Reads!FailedNow, Reads!LatestRun
    <2>5. Clean(Reads!ChecksOf(Reads!CycleForecast(Reads!LatestRun))) /\ Clean(Reads!ChecksOf(Reads!LatestRun))
      BY <2>1, <2>4
    <2>. QED
      BY <1>3, <1>4, <2>2, <2>3, <2>4, <2>5, WellNow
  <1>. QED
    BY <1>1, <1>4, <1>5, <1>6, <1>7 DEF Witnessed

LEMMA PairedRead ==
  ASSUME Rowed, ReaderTyped, Witnessed, Reads!ReadPaired
  PROVE  ReaderTyped' /\ Witnessed'
  <1>1. /\ UNCHANGED <<runs, ends, moments>> /\ reader.pc = "paired"
        /\ reader.newest \in 0 .. Len(runs) /\ Len(runs) \in Nat
    BY DEF Reads!ReadPaired, Rowed, ReaderTyped
  <1>2. PICK a, n, p : a = reader.at /\ n = reader.newest /\ p = Reads!CycleForecast(n)
    OBVIOUS
  <1>3. reader' = [reader EXCEPT !.pc = "checks", !.paired = p,
                                 !.failed = @ \/ (p # n /\ Reads!Failed(p))]
    BY <1>2 DEF Reads!ReadPaired
  <1>4. p \in Nat
    BY <1>1, <1>2, PairedBefore
  <1>5. /\ reader'.pc = "checks" /\ reader'.at = a /\ reader'.latest = reader.latest
        /\ reader'.newest = n /\ reader'.failed = (reader.failed \/ (p # n /\ Reads!Failed(p)))
        /\ reader'.paired = p
    BY <1>2, <1>3 DEF ReaderTyped
  <1>6. /\ Reads!HealthNow(reader.at)' = Reads!HealthNow(a)
        /\ Reads!CycleForecast(reader.newest)' = p
        /\ Reads!Succeeded' = Reads!Succeeded
    BY <1>1, <1>2, <1>5, SameLook
  <1>7. ReaderTyped'
    <2>1. reader' \in [pc : {"idle", "newest", "paired", "checks", "own"}, at : Nat, latest : Nat,
                       newest : Nat, paired : Nat, failed : BOOLEAN, checks : AllChecks]
      BY <1>3, <1>4 DEF ReaderTyped, Reads!Failed
    <2>. QED
      BY <1>1, <1>2, <1>5, <1>6, <2>1 DEF ReaderTyped
  <1>8. ASSUME Hopeful'
        PROVE  Hopeful
    BY <1>1, <1>2, <1>5, <1>6, <1>8 DEF Hopeful, Reads!Stale, Reads!ChecksOf, Reads!Failed
  <1>. QED
    BY <1>1, <1>2, <1>6, <1>7, <1>8 DEF Witnessed

LEMMA ChecksRead ==
  ASSUME Rowed, Ended, ReaderTyped, Witnessed, Reads!ReadChecks
  PROVE  ReaderTyped' /\ Witnessed'
  <1>1. /\ UNCHANGED <<runs, ends, moments>> /\ reader.pc = "checks"
        /\ reader.newest \in 0 .. Len(runs) /\ Len(runs) \in Nat
        /\ reader.paired = Reads!CycleForecast(reader.newest)
    BY DEF Reads!ReadChecks, Rowed, ReaderTyped
  <1>2. PICK a, n, p : a = reader.at /\ n = reader.newest /\ p = Reads!CycleForecast(n)
    OBVIOUS
  <1>3. reader' = [reader EXCEPT !.pc = "own", !.checks = Reads!ChecksOf(p)]
    BY <1>1, <1>2 DEF Reads!ReadChecks
  <1>4. Reads!ChecksOf(p) \in Results["forecast"] \cup {Reads!NoChecks}
    <2>1. p \in 0 .. Len(runs) /\ (p # 0 => runs[p].type = "forecast")
      BY <1>1, <1>2, PairedBefore
    <2>2. p # 0 => runs[p].checks \in Results[runs[p].type] \cup {Reads!NoChecks}
      BY <1>1, <2>1 DEF Ended
    <2>. QED
      BY <2>1, <2>2 DEF Reads!ChecksOf, Reads!Absent
  <1>5. /\ reader'.pc = "own" /\ reader'.at = a /\ reader'.latest = reader.latest
        /\ reader'.newest = n /\ reader'.failed = reader.failed
        /\ reader'.paired = p /\ reader'.checks = Reads!ChecksOf(p)
    BY <1>1, <1>2, <1>3 DEF ReaderTyped
  <1>6. /\ Reads!HealthNow(reader.at)' = Reads!HealthNow(a)
        /\ Reads!CycleForecast(reader.newest)' = p
        /\ Reads!Succeeded' = Reads!Succeeded
    BY <1>1, <1>2, <1>5, SameLook
  <1>7. ReaderTyped'
    <2>1. reader' \in [pc : {"idle", "newest", "paired", "checks", "own"}, at : Nat, latest : Nat,
                       newest : Nat, paired : Nat, failed : BOOLEAN, checks : AllChecks]
      BY <1>3, <1>4 DEF ReaderTyped, AllChecks
    <2>. QED
      BY <1>1, <1>2, <1>4, <1>5, <1>6, <2>1 DEF ReaderTyped
  <1>8. ASSUME Hopeful'
        PROVE  Hopeful
    BY <1>1, <1>2, <1>5, <1>6, <1>8 DEF Hopeful, Reads!Stale, Reads!ChecksOf
  <1>. QED
    BY <1>1, <1>2, <1>6, <1>7, <1>8 DEF Witnessed

LEMMA AnswerGiven ==
  ASSUME Reads!Return, ReaderTyped
  PROVE  ReaderTyped' /\ Witnessed'
  <1>1. reader' = [pc |-> "idle", at |-> 0, latest |-> 0, newest |-> 0, paired |-> 0,
                   failed |-> FALSE, checks |-> Reads!NoChecks]
    BY DEF Reads!Return, Reads!Unread, Reads!Absent
  <1>. QED
    BY <1>1 DEF ReaderTyped, Witnessed, Hopeful, AllChecks

\* The checks of a pair have different names, so a clean answer is clean in both.
LEMMA OkIsHopeful ==
  ASSUME Rowed, Ended, ReaderTyped, reader.pc = "own", Reads!Answer = "ok"
  PROVE  Hopeful
  <1>. DEFINE n == reader.newest
              p == Reads!CycleForecast(n)
              own == IF n = p THEN Reads!NoChecks ELSE Reads!ChecksOf(n)
  <1>1. /\ n \in 0 .. Len(runs) /\ reader.paired = p /\ Len(runs) \in Nat
        /\ reader.checks \in Results["forecast"] \cup {Reads!NoChecks}
    BY DEF ReaderTyped, Rowed
  <1>2. /\ ~reader.failed /\ reader.latest # 0 /\ ~Reads!Stale(reader.latest, reader.at)
        /\ Clean(Reads!Quality(reader.checks, own))
    BY <1>1 DEF Reads!Answer, Reads!Health, Reads!Absent, Clean
  <1>3. own \in Results["settlement"] \cup {Reads!NoChecks}
    <2>1. n # p => n # 0 /\ runs[n].type = "settlement"
      BY <1>1, PairedBefore
    <2>2. n # p => runs[n].checks \in Results["settlement"] \cup {Reads!NoChecks}
      BY <1>1, <2>1 DEF Ended
    <2>. QED
      BY <2>1, <2>2 DEF Reads!ChecksOf, Reads!Absent
  <1>. HIDE DEF own
  <1>4. DOMAIN reader.checks \cap DOMAIN own = {}
    BY <1>1, <1>3, StatusConstants DEF Reads!NoChecks
  <1>5. Clean(reader.checks) /\ Clean(own)
    BY <1>2, <1>4 DEF Clean, Reads!Named, Reads!Quality
  <1>. QED
    BY <1>2, <1>5 DEF Hopeful, own

LEMMA StatusInit == MCInit => StatusInv
  <1>. SUFFICES ASSUME MCInit PROVE StatusInv
    OBVIOUS
  <1>1. statusNow = 1 /\ runs = <<>> /\ ends = <<>>
    BY DEF MCInit, Pairing!Init
  <1>2. reader = [pc |-> "idle", at |-> 0, latest |-> 0, newest |-> 0, paired |-> 0,
                  failed |-> FALSE, checks |-> Reads!NoChecks]
    BY DEF MCInit, Pairing!Init, Pairing!Unread, Pairing!Absent, Pairing!NoChecks, Reads!NoChecks
  <1>3. Rowed /\ Ended
    BY <1>1 DEF Rowed, Ended
  <1>4. ReaderTyped /\ Witnessed
    BY <1>2 DEF ReaderTyped, Witnessed, Hopeful, AllChecks
  <1>. QED
    BY <1>3, <1>4 DEF StatusInv

LEMMA ReadsStep ==
  ASSUME StatusInv, focus = "reads", focus' = focus, Reads!Next
  PROVE  StatusInv'
  <1>0. Rowed /\ Ended /\ ReaderTyped /\ Witnessed
    BY DEF StatusInv
  <1>1. ASSUME RunsMove, reader' = reader, Reads!Observe
        PROVE  StatusInv'
    BY <1>0, <1>1, MovesAge, MovesEnd, MovesAreSeen DEF StatusInv
  <1>2. ASSUME UNCHANGED <<runs, ends>>, statusNow' \in Nat, statusNow <= statusNow',
               ReaderTyped', Witnessed'
        PROVE  StatusInv'
    <2>1. Rowed'
      BY <1>0, <1>2 DEF Rowed
    <2>2. Ended'
      <3>1. \A k \in 1 .. Len(ends) : runs[ends[k]].finished <= statusNow'
        <4>1. ASSUME NEW k \in 1 .. Len(ends)
              PROVE  runs[ends[k]].finished <= statusNow'
          <5>1. ends[k] \in 1 .. Len(runs) /\ runs[ends[k]].finished <= statusNow
            BY <1>0 DEF Rowed, Ended
          <5>2. runs[ends[k]] \in RunRows
            BY <1>0, <5>1 DEF Rowed
          <5>3. runs[ends[k]].finished \in Nat /\ statusNow \in Nat
            BY <1>0, <5>2 DEF RunRows, Rowed
          <5>. QED
            BY <1>2, <5>1, <5>3
        <4>. QED
          BY <4>1
      <3>. QED
        BY <1>0, <1>2, <3>1 DEF Ended
    <2>. QED
      BY <1>2, <2>1, <2>2 DEF StatusInv
  <1>3. ASSUME NEW t \in {"forecast", "settlement"}, NEW d \in ReadDatasets, Reads!StartRun(t, d)
        PROVE  StatusInv'
    BY <1>1, <1>3 DEF Reads!StartRun, RunsMove, Starts
  <1>4. ASSUME NEW i \in Reads!Ids, NEW c \in Results[runs[i].type], Reads!AddQualityChecks(i, c)
        PROVE  StatusInv'
    BY <1>1, <1>4 DEF Reads!AddQualityChecks, Reads!Ids, RunsMove, Adds
  <1>5. ASSUME NEW i \in Reads!Ids, NEW s \in {"succeeded", "failed"}, Reads!EndRun(i, s)
        PROVE  StatusInv'
    BY <1>1, <1>5 DEF Reads!EndRun, Reads!Ids, RunsMove, Ends
  <1>6. statusNow \in Nat
    BY <1>0 DEF Rowed
  <1>7. CASE Reads!Tick
    <2>1. UNCHANGED <<runs, ends, reader, moments>> /\ statusNow' = statusNow + 1
      BY <1>7 DEF Reads!Tick
    <2>2. PICK a, n : a = reader.at /\ n = reader.newest
      OBVIOUS
    <2>3. /\ Reads!HealthNow(reader.at)' = Reads!HealthNow(a)
          /\ Reads!CycleForecast(reader.newest)' = Reads!CycleForecast(n)
          /\ Reads!Succeeded' = Reads!Succeeded
      BY <2>1, <2>2, SameLook
    <2>4. ReaderTyped'
      BY <1>0, <2>1, <2>2, <2>3 DEF ReaderTyped
    <2>5. Hopeful' => Hopeful
      BY <2>1, <2>2, <2>3 DEF Hopeful, Reads!Stale, Reads!Failed, Reads!ChecksOf
    <2>6. Witnessed'
      BY <1>0, <2>1, <2>2, <2>3, <2>5 DEF Witnessed
    <2>. QED
      BY <1>2, <1>6, <2>1, <2>4, <2>6
  <1>8. CASE Reads!ReadLatest
    <2>1. UNCHANGED <<runs, ends, statusNow>>
      BY <1>8 DEF Reads!ReadLatest
    <2>. QED
      BY <1>0, <1>2, <1>6, <1>8, <2>1, LatestRead
  <1>9. CASE Reads!ReadNewest
    <2>1. UNCHANGED <<runs, ends, statusNow>>
      BY <1>9 DEF Reads!ReadNewest
    <2>. QED
      BY <1>0, <1>2, <1>6, <1>9, <2>1, NewestRead
  <1>10. CASE Reads!ReadPaired
    <2>1. UNCHANGED <<runs, ends, statusNow>>
      BY <1>10 DEF Reads!ReadPaired
    <2>. QED
      BY <1>0, <1>2, <1>6, <1>10, <2>1, PairedRead
  <1>11. CASE Reads!ReadChecks
    <2>1. UNCHANGED <<runs, ends, statusNow>>
      BY <1>11 DEF Reads!ReadChecks
    <2>. QED
      BY <1>0, <1>2, <1>6, <1>11, <2>1, ChecksRead
  <1>12. CASE Reads!Return
    <2>1. UNCHANGED <<runs, ends, statusNow>>
      BY <1>12 DEF Reads!Return
    <2>. QED
      BY <1>0, <1>2, <1>6, <1>12, <2>1, AnswerGiven
  <1>. QED
    BY <1>3, <1>4, <1>5, <1>7, <1>8, <1>9, <1>10, <1>11, <1>12 DEF Reads!Next

LEMMA PairingStep ==
  ASSUME StatusInv, focus # "reads", focus' = focus, Pairing!Next
  PROVE  StatusInv'
  <1>0. Rowed
    BY DEF StatusInv
  <1>1. ASSUME RunsMove
        PROVE  StatusInv'
    BY <1>0, <1>1, MovesAge DEF StatusInv
  <1>2. ASSUME UNCHANGED <<runs, ends>>, statusNow' \in Nat
        PROVE  StatusInv'
    BY <1>0, <1>2 DEF StatusInv, Rowed
  <1>3. ASSUME NEW t \in {"forecast", "settlement"}, NEW d \in Datasets, Pairing!StartRun(t, d)
        PROVE  StatusInv'
    BY <1>1, <1>3 DEF Pairing!StartRun, RunsMove, Starts, Pairing!NoChecks, Reads!NoChecks
  <1>4. ASSUME NEW i \in Pairing!Ids, NEW c \in Results[runs[i].type], Pairing!AddQualityChecks(i, c)
        PROVE  StatusInv'
    BY <1>1, <1>4 DEF Pairing!AddQualityChecks, Pairing!Ids, RunsMove, Adds,
                      Pairing!NoChecks, Reads!NoChecks
  <1>5. ASSUME NEW i \in Pairing!Ids, NEW s \in {"succeeded", "failed"}, Pairing!EndRun(i, s)
        PROVE  StatusInv'
    BY <1>1, <1>5 DEF Pairing!EndRun, Pairing!Ids, RunsMove, Ends
  <1>6. CASE \/ Pairing!Tick \/ Pairing!ReadLatest \/ Pairing!ReadNewest \/ Pairing!ReadPaired
             \/ Pairing!ReadChecks \/ Pairing!Return
    <2>1. UNCHANGED <<runs, ends>> /\ (statusNow' = statusNow \/ statusNow' = statusNow + 1)
      BY <1>6 DEF Pairing!Tick, Pairing!ReadLatest, Pairing!ReadNewest, Pairing!ReadPaired,
                  Pairing!ReadChecks, Pairing!Return
    <2>. QED
      BY <1>0, <1>2, <2>1 DEF Rowed
  <1>. QED
    BY <1>3, <1>4, <1>5, <1>6 DEF Pairing!Next

LEMMA StatusStep ==
  ASSUME StatusInv, [MCNext]_<<vars, workerVars, statusVars, focus>>
  PROVE  StatusInv'
  <1>1. ASSUME UNCHANGED <<statusVars, focus>>
        PROVE  StatusInv'
    <2>1. UNCHANGED <<statusNow, runs, ends, reader, moments, focus>>
      BY <1>1 DEF statusVars
    <2>2. PICK a, n : a = reader.at /\ n = reader.newest
      OBVIOUS
    <2>3. /\ Reads!HealthNow(reader.at)' = Reads!HealthNow(a)
          /\ Reads!CycleForecast(reader.newest)' = Reads!CycleForecast(n)
          /\ Reads!Succeeded' = Reads!Succeeded
      BY <2>1, <2>2, SameLook
    <2>4. Rowed' /\ (Ended => Ended')
      BY <2>1 DEF StatusInv, Rowed, Ended
    <2>5. ReaderTyped => ReaderTyped'
      BY <2>1, <2>2, <2>3 DEF ReaderTyped
    <2>6. Hopeful' => Hopeful
      BY <2>1, <2>2, <2>3 DEF Hopeful, Reads!Stale, Reads!Failed, Reads!ChecksOf
    <2>7. Witnessed => Witnessed'
      BY <2>1, <2>2, <2>3, <2>6 DEF Witnessed
    <2>. QED
      BY <2>1, <2>4, <2>5, <2>7 DEF StatusInv
  <1>2. CASE MCNext
    <2>1. CASE focus = "pairing" /\ Pairing!Next
      BY <1>2, <2>1, PairingStep DEF MCNext
    <2>2. CASE focus = "reads" /\ Reads!Next
      BY <1>2, <2>2, ReadsStep DEF MCNext
    <2>3. CASE UNCHANGED statusVars
      BY <1>1, <1>2, <2>3 DEF MCNext
    <2>. QED
      BY <1>2, <2>1, <2>2, <2>3 DEF MCNext
  <1>3. CASE UNCHANGED <<vars, workerVars, statusVars, focus>>
    BY <1>1, <1>3
  <1>. QED
    BY <1>2, <1>3

LEMMA WarningsSurvive ==
  ASSUME Rowed
  PROVE  Pairing!CycleWarningsSurvive /\ Pairing!NoCarryOver
  <1>0. Len(runs) \in Nat
    BY DEF Rowed
  <1>1. ASSUME NEW r \in 0 .. Len(runs)
        PROVE  LET p == Pairing!CycleForecast(r)
               IN  p # 0 => p = r \/ p \in Pairing!Candidates(r)
    <2>1. IsFiniteSet(1 .. r) /\ Pairing!Candidates(r) \subseteq 1 .. r /\ r \in Int
      BY <1>0, FS_Interval DEF Pairing!Candidates
    <2>2. IsFiniteSet(Pairing!Candidates(r)) /\ Pairing!Candidates(r) \in SUBSET Int
      <3>1. IsFiniteSet(Pairing!Candidates(r))
        BY <2>1, FS_Subset
      <3>. QED
        BY <2>1, <3>1
    <2>3. Pairing!Candidates(r) # {} => Pairing!Max(Pairing!Candidates(r)) \in Pairing!Candidates(r)
      BY <2>2, GreatestExists DEF Pairing!Max
    <2>. QED
      BY <2>3 DEF Pairing!CycleForecast, Pairing!Absent
  <1>2. Pairing!NoCarryOver
    BY <1>0, <1>1 DEF Pairing!NoCarryOver, Pairing!LatestRun, Pairing!Absent, Pairing!Candidates
  <1>3. ASSUME NEW f \in Pairing!Ids, NEW s \in Pairing!Ids, s = Pairing!LatestRun, f < s,
               runs[f].type = "forecast", runs[s].type = "settlement",
               runs[f].dataset = runs[s].dataset,
               Pairing!DateOf(runs[f].as_of) = Pairing!DateOf(runs[s].as_of),
               \A i \in (f + 1) .. s : ~(runs[i].type = "forecast" /\ runs[i].dataset = runs[f].dataset),
               NEW n \in DOMAIN runs[f].checks \ DOMAIN runs[s].checks
        PROVE  n \in DOMAIN Pairing!QualityNow /\ Pairing!QualityNow[n] = runs[f].checks[n]
    <2>1. f \in Int /\ s \in Int /\ f \in 1 .. s
      BY <1>0, <1>3 DEF Pairing!Ids
    <2>2. f \in Pairing!Candidates(s) /\ \A i \in Pairing!Candidates(s) : f >= i
      BY <1>3, <2>1 DEF Pairing!Candidates
    <2>3. Pairing!Candidates(s) \subseteq Int
      BY <2>1 DEF Pairing!Candidates
    <2>4. \A x \in Pairing!Candidates(s) : (\A y \in Pairing!Candidates(s) : x >= y) => x = f
      BY <2>2, <2>3
    <2>5. Pairing!Max(Pairing!Candidates(s)) = f
      BY <2>2, <2>4 DEF Pairing!Max
    <2>6. Pairing!CycleForecast(s) = f
      BY <1>3, <2>1, <2>2, <2>5 DEF Pairing!CycleForecast, Pairing!Absent
    <2>. QED
      BY <1>3, <2>1, <2>6 DEF Pairing!QualityNow, Pairing!Quality, Pairing!ChecksOf, Pairing!Absent
  <1>. QED
    BY <1>2, <1>3 DEF Pairing!CycleWarningsSurvive

\* However runs of the two types overlap: a settlement keeps the warnings of the forecast
\* of its day and identity, and no other day's; status(), query by query, never says that
\* all is well when at no moment of its read all was; and no alert means that the status
\* was not degraded and each warning an expected one.
THEOREM StatusTrue == MCSpec => []StatusIsTrue
  <1>1. ASSUME StatusInv
        PROVE  StatusIsTrue
    <2>1. Rowed
      BY <1>1 DEF StatusInv
    <2>2. ASSUME focus = "reads"
          PROVE  Reads!NoFalseHealth
      BY <1>1, <2>2, OkIsHopeful DEF StatusInv, Witnessed, Reads!NoFalseHealth
    <2>3. Reads!SilenceIsHealthy
      BY DEF Reads!SilenceIsHealthy, Reads!Kind
    <2>. QED
      BY <2>1, <2>2, <2>3, WarningsSurvive DEF StatusIsTrue
  <1>. QED
    BY <1>1, StatusInit, StatusStep, PTL DEF MCSpec
=============================================================================
