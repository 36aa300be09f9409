---------------------------- MODULE CopilotReview ----------------------------
(***************************************************************************)
(* The human side of the copilot: a benchmark run scores answers, reviewers *)
(* append rubric decisions to a content-addressed history, and a readiness *)
(* report joins the two.  A benchmark's number stands for its hash, a       *)
(* history's entries for its hash chain.  The review command reads the      *)
(* history and later replaces it, with nothing held in between.             *)
(***************************************************************************)
EXTENDS Integers, SequencesExt

CONSTANTS
  Cases,       \* the corpus
  Answers,     \* hashes of answer texts
  Reviewers,   \* operators with a review command running
  Minimum,     \* --minimum-reviews
  MaxRuns,     \* bound on benchmark runs
  MaxEntries,  \* bound on the history
  MaxTime      \* bound on reviewed_at

\* What an instance must satisfy; the MC modules assume it.
ReviewAssumption == Cases # {} /\ Minimum \in Nat \ {0} /\ {MaxRuns, MaxEntries, MaxTime} \subseteq Nat

VARIABLES
  bench,    \* evaluation.json: [run, done: case -> [answer, passed], identity]
  history,  \* the entries of the review history file
  loaded,   \* what each reviewer's command read, or Idle
  given,    \* every entry a review command acknowledged
  report    \* the readiness file

vars == <<bench, history, loaded, given, report>>

Idle == [run |-> 0]
NoReport == [status |-> "none", run |-> 0]
Completed(b) == DOMAIN b.done

-----------------------------------------------------------------------------
(* Review batches and the history                                          *)

\* A failed rubric is not accepted, a passed one is, and a safety failure is rejected.
Consistent(item) ==
  /\ item.decision = "accept" <=> item.failed = {}
  /\ "safety" \in item.failed => item.decision = "reject"

EntriesOf(b, batch) ==
  [i \in DOMAIN batch |-> [case |-> batch[i].case, answer |-> batch[i].answer, run |-> b.run,
                           decision |-> batch[i].decision, failed |-> batch[i].failed,
                           at |-> batch[i].at]]

\* _parse_review_batch
Parses(b, batch) ==
  /\ \A i, j \in DOMAIN batch : i # j => batch[i].case # batch[j].case
  /\ \A i \in DOMAIN batch : /\ batch[i].case \in Completed(b) /\ Consistent(batch[i])
                             /\ batch[i].answer = b.done[batch[i].case].answer
  /\ \A i, j \in DOMAIN batch : i < j => batch[i].at <= batch[j].at

\* _validate_history
Validates(h) ==
  /\ Len(h) <= MaxEntries
  /\ \A i, j \in DOMAIN h : i < j => /\ <<h[i].case, h[i].answer>> # <<h[j].case, h[j].answer>>
                                     /\ h[i].at <= h[j].at
  /\ \A i \in DOMAIN h : Consistent(h[i])

\* append_copilot_reviews: no answer twice, and not before what is there
Fits(h, batch) ==
  \A i \in DOMAIN h, j \in DOMAIN batch :
    <<h[i].case, h[i].answer>> # <<batch[j].case, batch[j].answer>> /\ h[i].at <= batch[j].at

Number(h, decision) == Cardinality({i \in DOMAIN h : h[i].decision = decision})

\* _history_status
Status(h) ==
  IF Number(h, "reject") > 0 THEN "rejected"
  ELSE IF Number(h, "revise") > 0 THEN "review_required"
  ELSE IF Len(h) < Minimum THEN "insufficient_history" ELSE "accepted"

-----------------------------------------------------------------------------
(* Readiness                                                               *)

MissingByCase(b, h) ==  \* mutant: an earlier answer's review counts
  {c \in Completed(b) : \A i \in DOMAIN h : ~(h[i].case = c /\ h[i].decision = "accept")}

\* _missing_current_reviews
Missing(b, h) ==
  {c \in Completed(b) : \A i \in DOMAIN h :
     ~(h[i].case = c /\ h[i].answer = b.done[c].answer /\ h[i].run = b.run /\ h[i].decision = "accept")}

\* build_copilot_readiness: the identity and the reviews ask for review, the rest blocks.
CoreFailures(b) ==
  (IF Completed(b) = Cases THEN {} ELSE {"benchmark_complete"})
  \cup (IF \A c \in Completed(b) : b.done[c].passed THEN {} ELSE {"benchmark_cases_passed"})

ReviewFailures(b, h) ==
  (IF b.identity = "consistent" THEN {} ELSE {"agent_identity"})
  \cup (IF Status(h) = "accepted" THEN {} ELSE {"review_history_status"})
  \cup (IF Len(h) >= Minimum THEN {} ELSE {"review_history_minimum"})
  \cup (IF Missing(b, h) = {} THEN {} ELSE {"current_case_reviews"})

Readiness(b, h) ==
  [run |-> b.run, missing |-> Missing(b, h),
   status |-> IF CoreFailures(b) \cup ReviewFailures(b, h) = {} THEN "ready"
              ELSE IF CoreFailures(b) # {} THEN "blocked" ELSE "review_required"]

-----------------------------------------------------------------------------
(* The commands                                                            *)

Init ==
  /\ bench = [run |-> 0, done |-> <<>>, identity |-> "consistent"] /\ history = <<>>
  /\ loaded = [r \in Reviewers |-> Idle] /\ given = {} /\ report = NoReport

\* research-copilot-benchmark, into a fresh directory that the operator then points at
Benchmark(done, identity) ==
  /\ bench.run < MaxRuns
  /\ bench' = [run |-> bench.run + 1, done |-> done, identity |-> identity]
  /\ UNCHANGED <<history, loaded, given, report>>

\* research-copilot-review reads the benchmark and the history ...
Load(r) ==
  /\ loaded[r] = Idle /\ bench.run > 0 /\ Validates(history)
  /\ loaded' = [loaded EXCEPT ![r] = [run |-> bench.run, bench |-> bench, history |-> history]]
  /\ UNCHANGED <<bench, history, given, report>>

\* ... and replaces the history, or refuses the batch.
Appends(r, batch) ==
  LET b == loaded[r].bench  h == loaded[r].history
  IN  /\ Parses(b, batch) /\ Fits(h, batch) /\ Len(h) + Len(batch) <= MaxEntries
      /\ history' = h \o EntriesOf(b, batch)
      /\ given' = given \cup Range(EntriesOf(b, batch))

Review(r, batch) ==
  /\ loaded[r] # Idle
  /\ Appends(r, batch)
  /\ loaded' = [loaded EXCEPT ![r] = Idle]
  /\ UNCHANGED <<bench, report>>

Refuse(r) ==
  /\ loaded[r] # Idle /\ loaded' = [loaded EXCEPT ![r] = Idle]
  /\ UNCHANGED <<bench, history, given, report>>

\* research-copilot-readiness
Decide ==
  /\ bench.run > 0 /\ history # <<>> /\ Validates(history)
  /\ report' = Readiness(bench, history)
  /\ UNCHANGED <<bench, history, loaded, given>>

\* "prose" stands for the rubric fields other than safety; the last rating is inconsistent.
Ratings == {[decision |-> "accept", failed |-> {}], [decision |-> "revise", failed |-> {"prose"}],
            [decision |-> "reject", failed |-> {"safety"}], [decision |-> "accept", failed |-> {"safety"}]}
Item(c, a, rating, t) ==
  [case |-> c, answer |-> a, decision |-> rating.decision, failed |-> rating.failed, at |-> t]
Items == {Item(c, a, rating, t) : c \in Cases, a \in Answers, rating \in Ratings, t \in 1 .. MaxTime}
Accepts == {i \in Items : i.decision = "accept" /\ i.failed = {}}
Batches == {<<i>> : i \in Items} \cup (Accepts \X Accepts)

Scored == [answer : Answers, passed : BOOLEAN]

Next ==
  \/ \E part \in (SUBSET Cases) \ {{}}, identity \in {"consistent", "mixed"} :
       \E done \in [part -> Scored] : Benchmark(done, identity)
  \/ \E r \in Reviewers : Load(r) \/ Refuse(r) \/ \E batch \in Batches : Review(r, batch)
  \/ Decide

Spec == Init /\ [][Next]_vars

-----------------------------------------------------------------------------
(* Properties                                                              *)

\* A ready report speaks of a complete run of which every answer was accepted by someone
\* who reviewed that run, and of no answer that someone rejected.
ReadyIsReviewed ==
  report.status = "ready" =>
    /\ \A c \in Cases : \E g \in given : g.case = c /\ g.run = report.run /\ g.decision = "accept"
    /\ \A g \in given : g.run = report.run => g.decision # "reject"

\* The history that the command wrote is one that its verifier accepts, whatever mix of
\* runs and batches it grew from.
WrittenHistoryVerifies == Validates(history)

\* What an entry accepts is the answer its benchmark run gave: the hash of another run's
\* answer is never carried over.
EntryNamesAnswer ==
  \A i \in DOMAIN history :
    history[i].run = bench.run => history[i].answer = bench.done[history[i].case].answer

=============================================================================
