---------------------------- MODULE EvidenceRepair ----------------------------
(***************************************************************************)
(* What happens to an evidence object after its run: forward/artifacts.py  *)
(* wrote it to two stores, forward/reconciliation.py verifies the local    *)
(* copy and repairs the mirror, and tools/evidence-auditor reads the       *)
(* mirror independently.  All three work from the artifact rows of the     *)
(* registry, at moments of their own and possibly on other hosts.          *)
(*                                                                         *)
(* A run writes one object, named by the run.  A local:// reference does   *)
(* not name the host that holds the bytes.                                 *)
(***************************************************************************)
EXTENDS Naturals, FiniteSets

CONSTANTS
  Runs,       \* runs, and the evidence object each one writes
  Hosts,      \* machines with a local store of their own
  NoHost,
  StaleAfter, \* the age at which a running run is reported
  FailedRunWindow, \* the age at which a failed run is only counted; 0 reports all
  MaxTime,    \* bound: the clock stops there
  MaxFaults,  \* bound: failures of R2 or crashes
  MaxRot,     \* bound: objects damaged by neither program
  MaxRepairs, MaxAudits  \* bounds: reconciliations and audits

\* What an instance must satisfy; the MC modules assume it.
RepairAssumption ==
  {StaleAfter, FailedRunWindow, MaxTime, MaxFaults, MaxRot, MaxRepairs, MaxAudits} \subseteq Nat

VARIABLES
  now,
  status,   \* the outcome of each run in the registry
  started,  \* when it started
  step,     \* the call the run's command is making
  at,       \* the host it runs on
  direct,   \* the runs configured with the R2 backend alone: an r2:// reference
  local,    \* what each host holds of each object
  mirror,   \* what R2 holds
  refs,     \* the objects that an artifact row references
  rec,      \* the reconciliation in progress or last reported
  aud,      \* the audit in progress or last reported
  faults, rotten, passes

writer == <<status, started, step, at, direct, refs>>
vars   == <<now, writer, local, mirror, rec, aud, faults, rotten, passes>>

\* A copy is absent, right, damaged, or (in R2) labelled with another hash.
Contents == {"absent", "good", "bad", "foreign"}

Statuses == {"none", "running", "succeeded", "failed"}

IdleRec == [pc |-> "idle", host |-> NoHost, repair |-> FALSE,
            listed |-> {}, todo |-> {}, holding |-> {}, bytes |-> "good", issues |-> {}]
IdleAud == [pc |-> "idle", status |-> [r \in Runs |-> "none"], at |-> 0, listed |-> {},
            todo |-> {}, findings |-> {}, spoiled |-> {}]

Init ==
  /\ now = 0
  /\ status = [r \in Runs |-> "none"] /\ started = [r \in Runs |-> 0]
  /\ step = [r \in Runs |-> "idle"] /\ at = [r \in Runs |-> NoHost]
  /\ local = [h \in Hosts |-> [r \in Runs |-> "absent"]]
  /\ mirror = [r \in Runs |-> "absent"]
  /\ direct = {} /\ refs = {}
  /\ rec = IdleRec /\ aud = IdleAud
  /\ faults = 0 /\ rotten = {} /\ passes = [rec |-> 0, aud |-> 0]

Tick ==
  /\ now < MaxTime /\ now' = now + 1
  /\ UNCHANGED <<writer, local, mirror, rec, aud, faults, rotten, passes>>

Fault == faults < MaxFaults /\ faults' = faults + 1

-----------------------------------------------------------------------------
(* The stores                                                              *)

\* An object that exists under its key is not written again; R2 refuses one
\* whose stored hash metadata differs.
PutBytes(copy, bytes) == IF copy = "absent" THEN bytes ELSE copy
Put(copy)     == PutBytes(copy, "good")
Accepts(copy) == copy # "foreign"

\* A failed upload has stored the object or not.
MirrorAfterFault(o, bytes) == {mirror, [mirror EXCEPT ![o] = PutBytes(@, bytes)]}

-----------------------------------------------------------------------------
(* A run writes and references its evidence                                *)

Start(r, h, alone) ==
  /\ step[r] = "idle"
  /\ status' = [status EXCEPT ![r] = "running"]
  /\ started' = [started EXCEPT ![r] = now]
  /\ at' = [at EXCEPT ![r] = h]
  /\ direct' = IF alone THEN direct \cup {r} ELSE direct
  /\ step' = [step EXCEPT ![r] = IF alone THEN "mirror" ELSE "put"]
  /\ UNCHANGED <<now, refs, local, mirror, rec, aud, faults, rotten, passes>>

PutLocal(r) ==
  /\ step[r] = "put"
  /\ local' = [local EXCEPT ![at[r]][r] = Put(@)]
  /\ step' = [step EXCEPT ![r] = "mirror"]
  /\ UNCHANGED <<now, status, started, at, direct, refs, mirror, rec, aud, faults, rotten, passes>>

PutMirror(r) ==
  /\ step[r] = "mirror" /\ Accepts(mirror[r])
  /\ mirror' = [mirror EXCEPT ![r] = Put(@)]
  /\ step' = [step EXCEPT ![r] = "refer"]
  /\ UNCHANGED <<now, status, started, at, direct, refs, local, rec, aud, faults, rotten, passes>>

\* ArtifactWriteError: the primary reference is kept and the run is failed.
\* Without a primary the store raises and there is nothing to reference.
MirrorFails(r) ==
  /\ step[r] = "mirror"
  /\ \/ Fault /\ mirror' \in MirrorAfterFault(r, "good")
     \/ ~Accepts(mirror[r]) /\ UNCHANGED <<mirror, faults>>
  /\ step' = [step EXCEPT ![r] = IF r \in direct THEN "failing" ELSE "partial"]
  /\ UNCHANGED <<now, status, started, at, direct, refs, local, rec, aud, rotten, passes>>

Refer(r) ==
  /\ step[r] \in {"refer", "partial"}
  /\ refs' = refs \cup {r}
  /\ step' = [step EXCEPT ![r] = IF @ = "refer" THEN "complete" ELSE "failing"]
  /\ UNCHANGED <<now, status, started, at, direct, local, mirror, rec, aud, faults, rotten, passes>>

Outcome(r) ==
  /\ step[r] \in {"complete", "failing"}
  /\ status' = [status EXCEPT ![r] = IF step[r] = "complete" THEN "succeeded" ELSE "failed"]
  /\ step' = [step EXCEPT ![r] = "done"]
  /\ UNCHANGED <<now, started, at, direct, refs, local, mirror, rec, aud, faults, rotten, passes>>

Crash(r) ==
  /\ step[r] \notin {"idle", "done"}
  /\ Fault
  /\ step' = [step EXCEPT ![r] = "done"]
  /\ UNCHANGED <<now, status, started, at, direct, refs, local, mirror, rec, aud, rotten, passes>>

-----------------------------------------------------------------------------
(* reconcile_registry_artifacts                                            *)

BeginReconcile(h, repair) ==
  /\ rec.pc # "busy" /\ passes.rec < MaxRepairs
  /\ rec' = [IdleRec EXCEPT !.pc = "busy", !.host = h, !.repair = repair,
                            !.listed = refs, !.todo = refs]
  /\ passes' = [passes EXCEPT !.rec = @ + 1]
  /\ UNCHANGED <<now, writer, local, mirror, aud, faults, rotten>>

\* One record: its reference must be local, its bytes present and right.
CheckLocal(o) ==
  LET copy == local[rec.host][o]
      code == IF o \in direct THEN {"unsupported_primary_uri"}
              ELSE IF copy = "absent" THEN {"missing_local_object"}
              ELSE IF copy = "bad" THEN {"invalid_local_object"} ELSE {}
  IN  /\ rec.pc = "busy" /\ rec.holding = {} /\ o \in rec.todo
      /\ rec' = [rec EXCEPT
           !.todo = @ \ {o},
           !.issues = @ \cup ({o} \X code),
           !.holding = IF code = {} /\ rec.repair THEN {o} ELSE {},
           !.bytes = copy]
      /\ UNCHANGED <<now, writer, local, mirror, aud, faults, rotten, passes>>

\* The verified bytes are put under their own key; any failure is an issue.
RepairMirror(o) ==
  /\ o \in rec.holding
  /\ \/ /\ Accepts(mirror[o]) /\ mirror' = [mirror EXCEPT ![o] = PutBytes(@, rec.bytes)]
        /\ rec' = [rec EXCEPT !.holding = {}]
        /\ UNCHANGED faults
     \/ /\ \/ Fault /\ mirror' \in MirrorAfterFault(o, rec.bytes)
           \/ ~Accepts(mirror[o]) /\ UNCHANGED <<mirror, faults>>
        /\ rec' = [rec EXCEPT !.holding = {}, !.issues = @ \cup {<<o, "mirror_write_failed">>}]
  /\ UNCHANGED <<now, writer, local, aud, rotten, passes>>

Report ==
  /\ rec.pc = "busy" /\ rec.todo = {} /\ rec.holding = {}
  /\ rec' = [rec EXCEPT !.pc = IF rec.issues = {} THEN "passed" ELSE "failed"]
  /\ UNCHANGED <<now, writer, local, mirror, aud, faults, rotten, passes>>

-----------------------------------------------------------------------------
(* audit.go: one snapshot of the registry, then one object after another   *)

LoadSnapshot ==
  /\ aud.pc # "busy" /\ passes.aud < MaxAudits
  /\ aud' = [IdleAud EXCEPT !.pc = "busy", !.status = status, !.at = now,
                            !.listed = refs, !.todo = refs]
  /\ passes' = [passes EXCEPT !.aud = @ + 1]
  /\ UNCHANGED <<now, writer, local, mirror, rec, faults, rotten>>

InspectShallow(o) ==  \* mutant: the hash of what was read is not compared
  /\ aud.pc = "busy" /\ o \in aud.todo
  /\ aud' = [aud EXCEPT !.todo = @ \ {o},
       !.findings = @ \cup (IF mirror[o] = "absent" THEN {<<o, "missing_object">>} ELSE {})]
  /\ UNCHANGED <<now, writer, local, mirror, rec, faults, rotten, passes>>

Inspect(o) ==
  /\ aud.pc = "busy" /\ o \in aud.todo
  /\ \/ /\ aud' = [aud EXCEPT !.todo = @ \ {o}, !.findings = @ \cup
             (IF mirror[o] = "absent" THEN {<<o, "missing_object">>}
              ELSE IF mirror[o] = "good" THEN {} ELSE {<<o, "hash_mismatch">>})]
        /\ UNCHANGED faults
     \/ /\ Fault
        /\ aud' = [aud EXCEPT !.todo = @ \ {o},
                              !.findings = @ \cup {<<o, "object_read_failed">>}]
  /\ UNCHANGED <<now, writer, local, mirror, rec, rotten, passes>>

\* What the snapshot says of the runs themselves.
RunFindings(r) ==
  LET s          == aud.status[r]
      age        == aud.at - started[r]
      historical == s = "failed" /\ FailedRunWindow > 0 /\ age > FailedRunWindow
  IN  {c \in {"failed_run", "stale_run", "missing_batch_evidence"} :
         CASE c = "failed_run" -> s = "failed" /\ ~historical
           [] c = "stale_run"  -> s = "running" /\ age > StaleAfter
           [] OTHER            -> /\ s \in {"succeeded", "failed"} /\ ~historical
                                  /\ r \notin aud.listed}

Conclude ==
  LET findings == aud.findings \cup UNION {{r} \X RunFindings(r) : r \in Runs}
  IN  /\ aud.pc = "busy" /\ aud.todo = {}
      /\ aud' = [aud EXCEPT !.findings = findings,
           !.pc = IF \E f \in findings : f[2] = "object_read_failed" THEN "incomplete"
                  ELSE IF findings # {} THEN "findings" ELSE "passed"]
      /\ UNCHANGED <<now, writer, local, mirror, rec, faults, rotten, passes>>

-----------------------------------------------------------------------------
(* External: a copy that exists is damaged, lost or, in R2, relabelled     *)

Rot(o) ==
  /\ Cardinality(rotten) < MaxRot
  /\ rotten' = rotten \cup {o}
  /\ \/ /\ \E h \in Hosts : /\ local[h][o] = "good"
                            /\ \E c \in {"absent", "bad"} : local' = [local EXCEPT ![h][o] = c]
        /\ UNCHANGED <<mirror, aud>>
     \/ /\ mirror[o] = "good"
        /\ \E c \in {"absent", "bad", "foreign"} : mirror' = [mirror EXCEPT ![o] = c]
        /\ aud' = [aud EXCEPT !.spoiled = @ \cup {o}]
        /\ UNCHANGED local
  /\ UNCHANGED <<now, writer, rec, faults, passes>>

Next ==
  \/ \E r \in Runs, h \in Hosts, alone \in BOOLEAN : Start(r, h, alone)
  \/ \E r \in Runs : \/ PutLocal(r) \/ PutMirror(r) \/ MirrorFails(r)
                     \/ Refer(r) \/ Outcome(r) \/ Crash(r)
                     \/ CheckLocal(r) \/ RepairMirror(r) \/ Inspect(r) \/ Rot(r)
  \/ \E h \in Hosts, repair \in BOOLEAN : BeginReconcile(h, repair)
  \/ Report \/ LoadSnapshot \/ Conclude \/ Tick

Spec == Init /\ [][Next]_vars

-----------------------------------------------------------------------------
(* Properties                                                              *)

\* The stores hold contents, the two reports work through what they listed.
TypeOK ==
  /\ now \in 0 .. MaxTime
  /\ status \in [Runs -> Statuses] /\ started \in [Runs -> 0 .. MaxTime]
  /\ direct \subseteq Runs /\ local \in [Hosts -> [Runs -> Contents \ {"foreign"}]]
  /\ mirror \in [Runs -> Contents] /\ refs \subseteq Runs
  /\ rec.todo \cup rec.holding \subseteq rec.listed /\ rec.listed \subseteq refs
  /\ aud.todo \subseteq aud.listed /\ aud.listed \subseteq refs

\* A repair that reports "passed" has every reference it listed in the mirror,
\* unless the mirror lost it afterwards.
PassedRepairMirrors ==
  rec.pc = "passed" /\ rec.repair =>
    \A o \in rec.listed \ rotten : mirror[o] = "good"

\* A repair fails only for a reason outside the two programs: the host does not
\* hold the bytes, the object is no local one, or R2 failed or was tampered with.
RepairFailsForCause ==
  \A o \in Runs : (\E c \in {"missing_local_object", "invalid_local_object",
                             "mirror_write_failed", "unsupported_primary_uri"} :
                     <<o, c>> \in rec.issues) =>
    o \in direct \/ at[o] # rec.host \/ o \in rotten \/ faults > 0

\* The audit passes only if every run of its snapshot that has an outcome has its
\* evidence in the mirror, right, unless that was damaged after the snapshot.
PassedAuditIsTrue ==
  aud.pc = "passed" =>
    \A r \in Runs : aud.status[r] \in {"succeeded", "failed"} =>
      \/ aud.status[r] = "failed" /\ r \notin aud.listed
      \/ r \in aud.listed /\ (mirror[r] = "good" \/ r \in aud.spoiled)

\* No false alarm: an audit that races the writers finds nothing wrong with a
\* succeeded run whose mirrored object nobody damaged.
SucceededRunsAuditClean ==
  \A r \in Runs \ rotten : aud.pc # "idle" /\ aud.status[r] = "succeeded" =>
    ~\E c \in {"missing_object", "hash_mismatch", "missing_batch_evidence"} :
       <<r, c>> \in aud.findings

=============================================================================
