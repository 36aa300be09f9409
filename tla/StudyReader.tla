---------------------------- MODULE StudyReader ----------------------------
(***************************************************************************)
(* The hosted study's application, ops/private-read-study/study_app.py, and *)
(* the reviewed snapshot kernel it reads with.  A serverless platform runs  *)
(* several processes of it; the only thing they share is the database,      *)
(* where each sees how many sessions of the reader's role are not its own.  *)
(* The fixture may be changed by its owner at any time, and a process may   *)
(* die and leave its sessions behind until the server notices.              *)
(***************************************************************************)
EXTENDS Naturals, FiniteSets

CONSTANTS Processes,       \* serverless processes
          Approved,        \* the fixture the study's policy names
          Changed,         \* any other content of the fixture's tables
          Ends,            \* the hour at which the study's window ends
          MaxReads,        \* bound: reads a process admits
          NoBody

VARIABLES clock,           \* hour; the window is [1, Ends)
          fixture,         \* the committed content of the fixture
          sessions,        \* <<process, role>>: the server's sessions of the reader's login
          proc,            \* process -> its read in progress
          admitted,        \* process -> reads admitted so far
          stopped,         \* process -> the process refuses every later read
          served           \* the bodies returned with status 200

vars == <<clock, fixture, sessions, proc, admitted, stopped, served>>

ReaderAssumption == Approved # Changed /\ Ends \in Nat

Stages == {"idle", "prepare", "observe", "alone", "connect", "present", "begin",
           "check", "service", "postcheck", "rollback", "dispose", "absence", "close"}
Connections == Processes \X {"observer", "reader"}
Contents    == {Approved, Changed}
Process     == [stage : Stages, performance : BOOLEAN, snapshot : Contents \cup {NoBody},
                verified : BOOLEAN, body : Contents \cup {NoBody}]
Fresh == [stage |-> "idle", performance |-> FALSE, snapshot |-> NoBody,
          verified |-> FALSE, body |-> NoBody]

StudyReaderTypeOK ==
  /\ clock \in 0..Ends /\ fixture \in Contents
  /\ sessions \subseteq Connections
  /\ proc \in [Processes -> Process]
  /\ admitted \in [Processes -> 0..MaxReads]
  /\ stopped \in [Processes -> BOOLEAN]
  /\ served \subseteq [body : Contents \cup {NoBody}, by : Processes]

Init ==
  /\ clock = 0 /\ fixture = Approved /\ sessions = {}
  /\ proc = [p \in Processes |-> Fresh]
  /\ admitted = [p \in Processes |-> 0]
  /\ stopped = [p \in Processes |-> FALSE]
  /\ served = {}

(* Mutant: only the asking process's own sessions are counted.              *)
OtherSessionsOwn(p) == Cardinality(sessions \cap {<<p, "reader">>})

(* other_sessions(): the role's sessions but the asking observer's own.     *)
OtherSessions(p) == Cardinality(sessions \ {<<p, "observer">>})

At(p, s)    == proc[p].stage = s
Go(p, s)    == proc' = [proc EXCEPT ![p].stage = s]
ReadOnly    == UNCHANGED <<clock, fixture, admitted, stopped, served>>

(* The middleware admits an authenticated GET of a known route inside the   *)
(* window, one at a time, while the process is not stopped; every other     *)
(* request is answered without a read and changes nothing.                  *)
Admit(p, performance) ==
  /\ clock >= 1 /\ clock < Ends
  /\ ~stopped[p]
  /\ At(p, "idle") /\ admitted[p] < MaxReads
  /\ admitted' = [admitted EXCEPT ![p] = @ + 1]
  /\ proc' = [proc EXCEPT ![p] = [Fresh EXCEPT !.performance = performance,
                                   !.stage = IF performance THEN "prepare" ELSE "observe"]]
  /\ UNCHANGED <<clock, fixture, sessions, stopped, served>>

(* prepare(): the uncertainty cache is filled before any connection opens.  *)
Prepare(p) == At(p, "prepare") /\ Go(p, "observe") /\ ReadOnly /\ UNCHANGED sessions

(* Any exception: both connections are closed on the way out, the gate is   *)
(* released and the process stops for good.                                 *)
Refuse(p) ==
  /\ ~At(p, "idle")
  /\ sessions' = sessions \ ({p} \X {"observer", "reader"})
  /\ stopped' = [stopped EXCEPT ![p] = TRUE]
  /\ proc' = [proc EXCEPT ![p] = Fresh]
  /\ UNCHANGED <<clock, fixture, admitted, served>>

Observe(p) ==
  /\ At(p, "observe")
  /\ sessions' = sessions \cup {<<p, "observer">>}
  /\ Go(p, "alone") /\ ReadOnly

Alone(p) ==
  /\ At(p, "alone") /\ OtherSessions(p) = 0
  /\ Go(p, "connect") /\ ReadOnly /\ UNCHANGED sessions

Connect(p) ==
  /\ At(p, "connect")
  /\ sessions' = sessions \cup {<<p, "reader">>}
  /\ Go(p, "present") /\ ReadOnly

Present(p) ==
  /\ At(p, "present") /\ OtherSessions(p) = 1
  /\ Go(p, "begin") /\ ReadOnly /\ UNCHANGED sessions

(* The transaction's first statement fixes its repeatable read snapshot.    *)
Begin(p) ==
  /\ At(p, "begin")
  /\ proc' = [proc EXCEPT ![p].snapshot = fixture, ![p].stage = "check"]
  /\ ReadOnly /\ UNCHANGED sessions

(* Identity, schema and the fixture's rows as the policy approved them.     *)
CheckFixture(p) ==
  /\ At(p, "check") /\ proc[p].snapshot = Approved
  /\ proc' = [proc EXCEPT ![p].verified = TRUE, ![p].stage = "service"]
  /\ ReadOnly /\ UNCHANGED sessions

(* The real registry method reads through the same transaction, and the     *)
(* performance route must have used the prepared cache.                     *)
Service(p) ==
  /\ At(p, "service")
  /\ proc' = [proc EXCEPT ![p].body = proc[p].snapshot, ![p].stage = "postcheck"]
  /\ ReadOnly /\ UNCHANGED sessions

PostCheck(p) == At(p, "postcheck") /\ Go(p, "rollback") /\ ReadOnly /\ UNCHANGED sessions
Rollback(p)  == At(p, "rollback") /\ Go(p, "dispose") /\ ReadOnly /\ UNCHANGED sessions

(* Disposing of the engine closes the reader's connection; the server ends  *)
(* the backend later, which is what the absence check waits for.            *)
Dispose(p) == At(p, "dispose") /\ Go(p, "absence") /\ ReadOnly /\ UNCHANGED sessions

BackendEnds(p) ==
  /\ <<p, "reader">> \in sessions
  /\ proc[p].stage \in {"absence", "idle"}
  /\ sessions' = sessions \ {<<p, "reader">>}
  /\ UNCHANGED <<clock, fixture, proc, admitted, stopped, served>>

Absent(p) ==
  /\ At(p, "absence") /\ OtherSessions(p) = 0
  /\ Go(p, "close") /\ ReadOnly /\ UNCHANGED sessions

Close(p) ==
  /\ At(p, "close")
  /\ sessions' = sessions \ {<<p, "observer">>}
  /\ served' = served \cup {[body |-> proc[p].body, by |-> p]}
  /\ proc' = [proc EXCEPT ![p] = Fresh]
  /\ UNCHANGED <<clock, fixture, admitted, stopped>>

(* The platform recycles a process: what it held in memory is gone, its     *)
(* sessions stay until the server notices.                                  *)
Recycle(p) ==
  /\ admitted[p] > 0
  /\ proc' = [proc EXCEPT ![p] = Fresh]
  /\ stopped' = [stopped EXCEPT ![p] = FALSE]
  /\ UNCHANGED <<clock, fixture, sessions, admitted, served>>

ObserverEnds(p) ==
  /\ <<p, "observer">> \in sessions /\ At(p, "idle")
  /\ sessions' = sessions \ {<<p, "observer">>}
  /\ UNCHANGED <<clock, fixture, proc, admitted, stopped, served>>

OwnerWrites ==
  /\ \E c \in Contents \ {fixture} : fixture' = c
  /\ UNCHANGED <<clock, sessions, proc, admitted, stopped, served>>

Tick ==
  /\ clock < Ends /\ clock' = clock + 1
  /\ UNCHANGED <<fixture, sessions, proc, admitted, stopped, served>>

Next ==
  \/ \E p \in Processes :
       \/ \E performance \in BOOLEAN : Admit(p, performance)
       \/ Prepare(p) \/ Observe(p) \/ Alone(p) \/ Connect(p) \/ Present(p) \/ Begin(p)
       \/ CheckFixture(p) \/ Service(p) \/ PostCheck(p) \/ Rollback(p) \/ Dispose(p)
       \/ BackendEnds(p) \/ Absent(p) \/ Close(p) \/ Refuse(p) \/ Recycle(p)
       \/ ObserverEnds(p)
  \/ OwnerWrites \/ Tick

Spec == Init /\ [][Next]_vars

-----------------------------------------------------------------------------
Reading == {"begin", "check", "service", "postcheck", "rollback"}

(* Nothing but the role's sessions coordinates the processes, and yet two   *)
(* of them are never inside their snapshots together; and whatever was      *)
(* served is the approved fixture, however the owner's writes fell between  *)
(* the checks and the service's own queries.                                *)
ReadsAreAlone ==
  /\ \A p, q \in Processes :
       proc[p].stage \in Reading /\ proc[q].stage \in Reading => p = q
  /\ \A r \in served : r.body = Approved
=============================================================================
