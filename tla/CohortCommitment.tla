-------------------------- MODULE CohortCommitment --------------------------
(***************************************************************************)
(* Sources captured once, and what is published about them: a prospective    *)
(* SEC index that is fetched inside a predeclared window, committed, posted  *)
(* as a GitHub comment and attested, and a roster taken from one pinned      *)
(* revision.  A capture makes its directory and writes the source, what is   *)
(* derived from it and the commitment, each exclusively.  Two ticks are a    *)
(* second: GitHub reports whole ones.                                        *)
(***************************************************************************)
EXTENDS Naturals, FiniteSets

CONSTANTS Contents,          \* what a source may answer: [filers, wellFormed]
          Pinned,            \* the revision whose digest the roster policy names
          Directories, Processes,
          Opens, Closes,     \* the window of the policy, in seconds
          MaxClock, MaxComments,   \* bounds
          Over, None         \* a command that has ended; nothing

VARIABLES clock,
          capture,           \* command -> what it does
          directory,         \* output directory -> [commitment, written]
          comments,          \* the issue's comments
          attestation,       \* an attestation under way
          reports

vars == <<clock, capture, directory, comments, attestation, reports>>

Policies  == {"prospective", "historical"}
Second(t) == t \div 2


Init ==
  /\ clock = 0
  /\ capture = [p \in Processes |-> None]
  /\ directory = [d \in Directories |-> None]
  /\ comments = {} /\ attestation = None /\ reports = {}

Tick ==
  /\ clock < MaxClock
  /\ clock' = clock + 1
  /\ UNCHANGED <<capture, directory, comments, attestation, reports>>

-----------------------------------------------------------------------------
(* capture_prospective_sec_index, capture_historical_candidate_roster        *)

\* _check_time
InWindow(t) == Opens <= Second(t) /\ Second(t) < Closes

(* build_filer_roster, build_roster: all that is eligible, in order.         *)
Roster(content) == content.filers

(* build_roster, commitment: the revision is the one that the policy pins.   *)
IsPinned(content) == content = Pinned

(* build_commitment, commitment: what may be committed, and the commitment.  *)
Commits(policy, content, t) ==
  /\ content.wellFormed
  /\ policy = "prospective" => InWindow(t)
  /\ policy = "historical" => IsPinned(content)
Commitment(policy, content, t) ==
  [policy |-> policy, index |-> content, roster |-> Roster(content), at |-> t]

\* What a directory may hold: a commitment, and how many files are written.
Commitments == {Commitment(p, c, t) : p \in Policies, c \in Contents, t \in 0..MaxClock}
Captured    == [commitment : Commitments, written : 0..3]

CommitmentAssumption ==
  /\ Pinned \in Contents /\ {Opens, Closes, MaxClock} \subseteq Nat /\ Opens < Closes
  /\ None \notin Captured

Running(p) == capture[p] \notin {None, Over}

(* main: the window and the directory are looked at before the request.      *)
Begin(p, policy, d) ==
  /\ capture[p] = None /\ directory[d] = None
  /\ policy = "prospective" => InWindow(clock)
  /\ capture' = [capture EXCEPT ![p] = [policy |-> policy, to |-> d, holds |-> None, made |-> FALSE]]
  /\ UNCHANGED <<clock, directory, comments, attestation, reports>>

(* The answer may come after the window; it is committed at its own time.    *)
Receive(p, content) ==
  /\ Running(p) /\ capture[p].holds = None
  /\ LET policy == capture[p].policy
     IN capture' = [capture EXCEPT ![p] =
          IF Commits(policy, content, clock)
          THEN [@ EXCEPT !.holds = Commitment(policy, content, clock)] ELSE Over]
  /\ UNCHANGED <<clock, directory, comments, attestation, reports>>

(* save_capture: the directory, which must be new, then three files.         *)
MakeDirectory(p) ==
  LET c == capture[p]
  IN /\ Running(p) /\ c.holds # None /\ ~c.made
     /\ IF directory[c.to] = None
        THEN /\ directory' = [directory EXCEPT ![c.to] = [commitment |-> c.holds, written |-> 0]]
             /\ capture' = [capture EXCEPT ![p].made = TRUE]
        ELSE capture' = [capture EXCEPT ![p] = Over] /\ UNCHANGED directory
     /\ UNCHANGED <<clock, comments, attestation, reports>>

WriteFile(p) ==
  LET d == capture[p].to
  IN /\ Running(p) /\ capture[p].made
     /\ directory' = [directory EXCEPT ![d].written = @ + 1]
     /\ capture' = [capture EXCEPT ![p] = IF directory[d].written = 2 THEN Over ELSE @]
     /\ UNCHANGED <<clock, comments, attestation, reports>>

(* A failed request, an error, a crash: what was written stays.              *)
Stop(p) ==
  /\ Running(p)
  /\ capture' = [capture EXCEPT ![p] = Over]
  /\ UNCHANGED <<clock, directory, comments, attestation, reports>>

(* verify_capture: three files, each what the source gives.                  *)
Verifies(d) ==
  /\ directory[d] # None /\ directory[d].written = 3
  /\ LET c == directory[d].commitment
     IN Commits(c.policy, c.index, c.at) /\ c.roster = Roster(c.index)

-----------------------------------------------------------------------------
(* GitHub                                                                    *)
Published == {directory[d].commitment : d \in {e \in Directories : Verifies(e)}}

Post(author, body) ==
  /\ body \in Published /\ Cardinality(comments) < MaxComments
  /\ comments' = comments \cup {[author |-> author, created |-> Second(clock), updated |-> Second(clock),
                                 body |-> body, history |-> {<<body, clock>>}]}
  /\ UNCHANGED <<clock, capture, directory, attestation, reports>>

Edit(comment, body) ==
  /\ body \in Published \ {comment.body}
  /\ comments' = (comments \ {comment}) \cup
       {[comment EXCEPT !.updated = Second(clock), !.body = body, !.history = @ \cup {<<body, clock>>}]}
  /\ UNCHANGED <<clock, capture, directory, attestation, reports>>

(* verify_prospective_sec_attestation                                        *)

(* Mutant: a comment that was edited counts.                                 *)
AcceptedEdited(comment, commitment, observed) ==
  /\ comment.author = "owner" /\ comment.created <= Second(observed)
  /\ Opens <= comment.created /\ comment.created < Closes
  /\ Second(commitment.at) <= comment.created
  /\ comment.body = commitment
(* validate_comment                                                          *)
Accepted(comment, commitment, observed) ==
  /\ comment.author = "owner"
  /\ comment.updated = comment.created /\ comment.created <= Second(observed)
  /\ Opens <= comment.created /\ comment.created < Closes
  /\ Second(commitment.at) <= comment.created
  /\ comment.body = commitment

(* The private bytes are verified first, then one request for the comment.   *)
AttestVerify(d) ==
  /\ attestation = None /\ Verifies(d) /\ directory[d].commitment.policy = "prospective"
  /\ attestation' = d
  /\ UNCHANGED <<clock, capture, directory, comments, reports>>
AttestFetch(comment) ==
  /\ attestation # None /\ comment \in comments
  /\ LET c == directory[attestation].commitment
     IN reports' = IF Accepted(comment, c, clock)
                   THEN reports \cup {[directory |-> attestation, commitment |-> c, history |-> comment.history]}
                   ELSE reports
  /\ attestation' = None
  /\ UNCHANGED <<clock, capture, directory, comments>>

Next ==
  \/ Tick
  \/ \E p \in Processes :
       \/ \E policy \in Policies, d \in Directories : Begin(p, policy, d)
       \/ \E content \in Contents : Receive(p, content)
       \/ MakeDirectory(p) \/ WriteFile(p) \/ Stop(p)
  \/ \E body \in Published :
       \/ \E author \in {"owner", "other"} : Post(author, body)
       \/ \E comment \in comments : Edit(comment, body)
  \/ \E d \in Directories : AttestVerify(d)
  \/ \E comment \in comments : AttestFetch(comment)

Spec == Init /\ [][Next]_vars

-----------------------------------------------------------------------------
(* What is attested was published in the window, after it was captured and   *)
(* before anybody could choose among captures by what came later, and its    *)
(* bytes are still there; a roster that verifies is the pinned revision's.   *)
AttestedWasPublished ==
  /\ \A report \in reports :
       /\ Verifies(report.directory) /\ directory[report.directory].commitment = report.commitment
       /\ \E h \in report.history :
            h[1] = report.commitment /\ InWindow(h[2]) /\ report.commitment.at <= h[2]
  /\ \A d \in Directories :
       Verifies(d) /\ directory[d].commitment.policy = "historical" =>
         directory[d].commitment.roster = Roster(Pinned)
=============================================================================
