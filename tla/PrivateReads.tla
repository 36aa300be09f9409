----------------------------- MODULE PrivateReads -----------------------------
(* The private reads: calls of the durable admission, and requests to the      *)
(* pilot deployment that serves without it.  They share no state, so `focus`   *)
(* picks the one that moves in a behaviour.                                    *)
EXTENDS AdmissionExecutor, TLC

CONSTANTS Requests, Processes, Kinds, None, MaxReads, Expiry, MaxTime, MaxChanges, MaxRestarts

VARIABLES
  focus,
  time, process, gate, requestPc, ask, seen, reply, fixture, grants, changes, spent

pilotVars == <<time, process, gate, requestPc, ask, seen, reply, fixture, grants, changes, spent>>

Pilot == INSTANCE PrivateReadPilot WITH pc <- requestPc, now <- time

ASSUME ReadsAssumption == Pilot!ReadsAssumption

\* Every call of the admission asks for the first identity while the pilot moves.
MCInit ==
  /\ Init /\ Pilot!Init
  /\ focus \in {"admission", "pilot"}
  /\ focus = "pilot" => \A r, q \in Runs : callId[r] = callId[q]

MCNext ==
  /\ \/ focus = "admission" /\ Next /\ UNCHANGED pilotVars
     \/ focus = "pilot" /\ Pilot!Next /\ UNCHANGED vars
  /\ UNCHANGED focus

MCSpec == MCInit /\ [][MCNext]_<<vars, pilotVars, focus>>

\* Two readings of each UTC date, and calls and identities that nothing distinguishes.
TwoPerDay == [t \in Times |-> t \div 2]
Interchangeable == Permutations(Ids) \cup Permutations(Runs)

\* No read runs beside another in a process, each started read is spent from the budget
\* once and no path out of the handler leaks the gate; and what is served is the approved
\* fixture under the reader's grants, as this very request saw them, whatever the
\* database becomes meanwhile.
PilotServes == Pilot!GateGuardsReads /\ Pilot!BudgetCountsReads /\ Pilot!ServedIsVerified
=============================================================================
