--------------------------- MODULE PrivateReadPilot ---------------------------
(***************************************************************************)
(* api/private_read.py: the pilot deployment that serves three read-only   *)
(* routes over a synthetic fixture.  Each process has a gate for one read  *)
(* at a time and a budget of reads; the handler runs in a thread pool, so  *)
(* requests of one process interleave between any two calls.  Every read   *)
(* checks identity, grants and fixture bytes again, in one transaction,    *)
(* because any of them may have changed since the deployment.              *)
(***************************************************************************)
EXTENDS Naturals, FiniteSets

CONSTANTS
  Requests,   \* requests, each of one kind and sent to one process
  Processes,
  Kinds,      \* "read", or the first check that the request fails
  None,
  MaxReads,     \* MAX_REQUESTS_PER_PROCESS
  Expiry,     \* expires_at
  MaxTime,    \* bound: the clock stops there
  MaxChanges, \* bound: changes of the database
  MaxRestarts \* bound: restarts of processes

\* Answers of the handler besides the first check that a request fails
Replies == {"pilot_unavailable", "pilot_expired", "pilot_busy", "pilot_budget_exhausted",
            "read_unavailable", "served"}

\* What an instance must satisfy; PrivateReads assumes it.
ReadsAssumption ==
  /\ MaxReads \in Nat /\ Expiry \in Nat
  /\ None \notin Requests \cup Kinds \cup Replies /\ "served" \notin Kinds

VARIABLES
  now,
  process,    \* each process: [configured, remaining, restarts]
  gate,       \* the request that holds the gate of each process, or None
  pc,         \* the point each request has reached
  ask,        \* [kind, process] of each request that arrived
  seen,       \* what the transaction of each request saw: [fixture, grants]
  reply,
  fixture,    \* the rows of the database: "approved", or something else
  grants,     \* the effective permissions of the role: "reader", or wider
  changes,
  spent       \* history: the reads each process has started since its restart

db   == <<fixture, grants, changes>>
vars == <<now, process, gate, pc, ask, seen, reply, db, spent>>

Inside   == {"gated", "connecting", "begun", "inspected"}
Finished == {"answered", "lost"}
NoSight  == [fixture |-> None, grants |-> None]

\* A process that starts after the expiry, or with missing secrets, serves nothing.
Started(n) ==
  [configured |-> now < Expiry, remaining |-> MaxReads, restarts |-> n]

Init ==
  /\ now = 0
  /\ process = [p \in Processes |-> Started(0)]
  /\ gate = [p \in Processes |-> None]
  /\ pc = [r \in Requests |-> "new"]
  /\ ask = [r \in Requests |-> None]
  /\ seen = [r \in Requests |-> NoSight]
  /\ reply = [r \in Requests |-> None]
  /\ fixture = "approved" /\ grants = "reader" /\ changes = 0
  /\ spent = [p \in Processes |-> {}]

Home(r) == ask[r].process

Answer(r, code) ==
  /\ reply' = [reply EXCEPT ![r] = code]
  /\ pc' = [pc EXCEPT ![r] = "answered"]

\* The middleware, then the checks of the route and the query.
Refusal(r, kind, p) ==
  CASE ~process[p].configured -> "pilot_unavailable"
    [] kind = "unauthorized"  -> "unauthorized"
    [] now >= Expiry          -> "pilot_expired"
    [] kind # "read"          -> kind
    [] OTHER                  -> None

Arrive(r, kind, p) ==
  LET refusal == Refusal(r, kind, p)
  IN  /\ pc[r] = "new"
      /\ ask' = [ask EXCEPT ![r] = [kind |-> kind, process |-> p]]
      /\ IF refusal = None THEN pc' = [pc EXCEPT ![r] = "routed"] /\ UNCHANGED reply
                           ELSE Answer(r, refusal)
      /\ UNCHANGED <<now, process, gate, seen, db, spent>>

\* gate.acquire(blocking=False)
Acquire(r) ==
  LET p == Home(r)
  IN  /\ pc[r] = "routed"
      /\ IF gate[p] = None
         THEN gate' = [gate EXCEPT ![p] = r] /\ pc' = [pc EXCEPT ![r] = "gated"] /\ UNCHANGED reply
         ELSE Answer(r, "pilot_busy") /\ UNCHANGED gate
      /\ UNCHANGED <<now, process, ask, seen, db, spent>>

Release(r) == gate' = [gate EXCEPT ![Home(r)] = None]

\* The budget, inside the gate: one read is spent whether or not it succeeds.
Spend(r) ==
  LET p == Home(r)
  IN  /\ pc[r] = "gated"
      /\ IF process[p].remaining <= 0
         THEN /\ Answer(r, "pilot_budget_exhausted") /\ Release(r)
              /\ UNCHANGED <<process, spent>>
         ELSE /\ process' = [process EXCEPT ![p].remaining = @ - 1]
              /\ spent' = [spent EXCEPT ![p] = @ \cup {r}]
              /\ pc' = [pc EXCEPT ![r] = "connecting"]
              /\ UNCHANGED <<reply, gate>>
      /\ UNCHANGED <<now, ask, seen, db>>

\* read(): BEGIN fixes the snapshot; the grants are inspected after it.
Begin(r) ==
  /\ pc[r] = "connecting"
  /\ seen' = [seen EXCEPT ![r].fixture = fixture]
  /\ pc' = [pc EXCEPT ![r] = "begun"]
  /\ UNCHANGED <<now, process, gate, ask, reply, db, spent>>

Inspect(r) ==
  /\ pc[r] = "begun" /\ grants = "reader"
  /\ seen' = [seen EXCEPT ![r].grants = grants]
  /\ pc' = [pc EXCEPT ![r] = "inspected"]
  /\ UNCHANGED <<now, process, gate, ask, reply, db, spent>>

ServeUnchecked(r) ==  \* mutant: the digest is computed and not compared
  /\ pc[r] = "inspected"
  /\ Answer(r, "served") /\ Release(r)
  /\ UNCHANGED <<now, process, ask, seen, db, spent>>

\* fixture_rows and response_payload
Serve(r) ==
  /\ pc[r] = "inspected" /\ seen[r].fixture = "approved"
  /\ Answer(r, "served") /\ Release(r)
  /\ UNCHANGED <<now, process, ask, seen, db, spent>>

\* A refusal, a timeout or a driver error anywhere in the read.
Fail(r) ==
  /\ pc[r] \in {"connecting", "begun", "inspected"}
  /\ Answer(r, "read_unavailable") /\ Release(r)
  /\ UNCHANGED <<now, process, ask, seen, db, spent>>

\* The platform recycles a process: its requests are cut off, its budget is new.
Restart(p) ==
  /\ process[p].restarts < MaxRestarts
  /\ process' = [process EXCEPT ![p] = Started(@.restarts + 1)]
  /\ gate' = [gate EXCEPT ![p] = None]
  /\ pc' = [r \in Requests |-> IF pc[r] \in {"routed"} \cup Inside /\ Home(r) = p
                               THEN "lost" ELSE pc[r]]
  /\ spent' = [spent EXCEPT ![p] = {}]
  /\ UNCHANGED <<now, ask, seen, reply, db>>

\* Somebody writes to the fixture or changes the grants of the role.
Change ==
  /\ changes < MaxChanges /\ changes' = changes + 1
  /\ \/ fixture' \in {"approved", "changed"} \ {fixture} /\ UNCHANGED grants
     \/ grants' \in {"reader", "writer"} \ {grants} /\ UNCHANGED fixture
  /\ UNCHANGED <<now, process, gate, pc, ask, seen, reply, spent>>

Tick ==
  /\ now < MaxTime /\ now' = now + 1
  /\ UNCHANGED <<process, gate, pc, ask, seen, reply, db, spent>>

Handle(r) ==
  Acquire(r) \/ Spend(r) \/ Begin(r) \/ Inspect(r) \/ Serve(r) \/ Fail(r)

Next ==
  \/ \E r \in Requests : \/ Handle(r)
                         \/ \E k \in Kinds, p \in Processes : Arrive(r, k, p)
  \/ \E p \in Processes : Restart(p)
  \/ Change \/ Tick

Spec == Init /\ [][Next]_vars

-----------------------------------------------------------------------------
(* Properties                                                              *)

\* A request is at a point of its handler, a gate is held by a request.
TypeOK ==
  /\ now \in Nat /\ changes \in Nat
  /\ fixture \in {"approved", "changed"} /\ grants \in {"reader", "writer"}
  /\ process \in [Processes -> [configured : BOOLEAN, remaining : 0 .. MaxReads, restarts : Nat]]
  /\ gate \in [Processes -> Requests \cup {None}]
  /\ pc \in [Requests -> {"new", "routed"} \cup Inside \cup Finished]
  /\ ask \in [Requests -> [kind : Kinds, process : Processes] \cup {None}]
  /\ \A r \in Requests : pc[r] # "new" => ask[r] \in [kind : Kinds, process : Processes]
  /\ seen \in [Requests -> [fixture : {"approved", "changed", None}, grants : {"reader", "writer", None}]]
  /\ reply \in [Requests -> Kinds \cup Replies \cup {None}]
  /\ spent \in [Processes -> SUBSET Requests]

\* The gate is held exactly while its request is inside: no read runs beside
\* another in a process, and no path out of the handler leaks the gate.
GateGuardsReads ==
  \A r \in Requests : pc[r] \in Inside <=> (pc[r] # "new" /\ gate[Home(r)] = r)

\* The budget counts the reads that were started, once each: a refused or busy
\* request costs nothing, a failed read does.
BudgetCountsReads ==
  \A p \in Processes : process[p].remaining + Cardinality(spent[p]) = MaxReads

\* What is served is the approved fixture under the reader's grants, as this very
\* request saw them, whatever the database becomes meanwhile.
ServedIsVerified ==
  \A r \in Requests : reply[r] = "served" =>
    /\ seen[r] = [fixture |-> "approved", grants |-> "reader"]
    /\ ask[r].kind = "read"
=============================================================================
