---------------------------- MODULE CopilotPanel ----------------------------
(***************************************************************************)
(* research-copilot-panel: several review profiles answer one question, one *)
(* after the other.  Each answer is a file of its own; a content-addressed  *)
(* aggregate, panel.json, names them.  The directory may hold an earlier    *)
(* panel, and the snapshot is read again when its file changes.             *)
(***************************************************************************)
EXTENDS Integers, SequencesExt

CONSTANTS
  Profiles,     \* the selected profiles, in order
  MaxRuns,      \* bound on panel commands
  MaxSnapshot   \* bound on replacements of the snapshot

Selected == Range(Profiles)
\* What an instance must satisfy; the MC module assumes it.
PanelAssumption == Profiles \in Seq(Selected) /\ Profiles # <<>> /\ IsInjective(Profiles)

VARIABLES
  pc,         \* idle or asking
  run, left,  \* the command's number and the profiles still to ask
  summaries,  \* profile -> [run, snapshot] of the answers so far
  failed,     \* profiles that failed
  snapshot,   \* version of the snapshot file
  files,      \* profile -> its child envelope on disk
  panel,      \* panel.json, or NoPanel
  code        \* exit code of the last command, or -1 while it runs or if it was cut off

vars == <<pc, run, left, summaries, failed, snapshot, files, panel, code>>

NoPanel == [run |-> 0, status |-> "none", summaries |-> <<>>, failed |-> {}, boundary |-> "consistent"]

-----------------------------------------------------------------------------
(* The aggregate                                                           *)

Identities(sums) == {sums[p].snapshot : p \in DOMAIN sums}

Boundary(sums) == IF Cardinality(Identities(sums)) <= 1 THEN "consistent" ELSE "mixed"

Status(sums, bad) ==
  IF DOMAIN sums = {} THEN "failed"
  ELSE IF Boundary(sums) = "mixed" THEN "review_required"
  ELSE IF bad # {} THEN "partial" ELSE "complete"

\* verify_panel_report: from the panel alone, without the envelopes
Verifies(p) ==
  /\ DOMAIN p.summaries \cap p.failed = {} /\ DOMAIN p.summaries \cup p.failed = Selected
  /\ p.boundary = (IF Cardinality(Identities(p.summaries)) <= 1 THEN "consistent" ELSE "mixed")
  /\ p.status = (IF DOMAIN p.summaries = {} THEN "failed"
                 ELSE IF p.boundary = "mixed" THEN "review_required"
                 ELSE IF p.failed # {} THEN "partial" ELSE "complete")

\* _build_panel_report
Build == [run |-> run, summaries |-> summaries, failed |-> failed, boundary |-> Boundary(summaries),
          status |-> Status(summaries, failed)]

-----------------------------------------------------------------------------
(* The command                                                             *)

Init ==
  /\ pc = "idle" /\ run = 0 /\ left = <<>> /\ summaries = <<>> /\ failed = {} /\ snapshot = 1
  /\ files = <<>> /\ panel = NoPanel /\ code = -1

Start ==
  /\ pc = "idle" /\ run < MaxRuns
  /\ pc' = "asking" /\ run' = run + 1 /\ left' = Profiles
  /\ summaries' = <<>> /\ failed' = {} /\ code' = -1
  /\ UNCHANGED <<snapshot, files, panel>>

\* run_panel: the answer verified, summarized, then written as the profile's file
Answered ==
  /\ pc = "asking" /\ left # <<>>
  /\ LET p == Head(left)  answer == [run |-> run, snapshot |-> snapshot]
     IN  /\ summaries' = [q \in DOMAIN summaries \cup {p} |-> IF q = p THEN answer ELSE summaries[q]]
         /\ files' = [q \in DOMAIN files \cup {p} |-> IF q = p THEN answer ELSE files[q]]
  /\ left' = Tail(left) /\ UNCHANGED <<pc, run, failed, snapshot, panel, code>>

\* any exception of one profile: the others are still asked
ProfileFailed ==
  /\ pc = "asking" /\ left # <<>> /\ failed' = failed \cup {Head(left)} /\ left' = Tail(left)
  /\ UNCHANGED <<pc, run, summaries, snapshot, files, panel, code>>

WritePanelLenient ==  \* mutant: only a panel without any answer fails
  /\ pc = "asking" /\ left = <<>> /\ pc' = "idle"
  /\ IF Verifies(Build) THEN panel' = Build /\ code' = IF Build.status = "failed" THEN 1 ELSE 0
     ELSE panel' = panel /\ code' = 1
  /\ UNCHANGED <<run, left, summaries, failed, snapshot, files>>

\* write_panel_report verifies first; the command exits with 0 for a complete panel only.
WritePanel ==
  /\ pc = "asking" /\ left = <<>> /\ pc' = "idle"
  /\ IF Verifies(Build) THEN panel' = Build /\ code' = IF Build.status = "complete" THEN 0 ELSE 1
     ELSE panel' = panel /\ code' = 1
  /\ UNCHANGED <<run, left, summaries, failed, snapshot, files>>

Crash ==
  /\ pc = "asking" /\ pc' = "idle"
  /\ UNCHANGED <<run, left, summaries, failed, snapshot, files, panel, code>>

Publish ==
  /\ snapshot < MaxSnapshot /\ snapshot' = snapshot + 1
  /\ UNCHANGED <<pc, run, left, summaries, failed, files, panel, code>>

Next == Start \/ Answered \/ ProfileFailed \/ WritePanel \/ Crash \/ Publish

Spec == Init /\ [][Next]_vars

-----------------------------------------------------------------------------
(* Properties                                                              *)

\* "an operator cannot mistake one successful perspective for a complete review": exit code 0
\* says that each selected profile answered in this command, over one snapshot, and that the
\* files of the directory are those answers.
ZeroMeansEveryProfile ==
  code = 0 => /\ \A p \in Selected : p \in DOMAIN files /\ files[p].run = run
              /\ \A p, q \in Selected : files[p].snapshot = files[q].snapshot
=============================================================================
