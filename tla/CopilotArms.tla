----------------------------- MODULE CopilotArms -----------------------------
(***************************************************************************)
(* Two arms answer one corpus: fixed evidence navigation and the provider.  *)
(* Each run fills a fresh private directory case by case and ends with an   *)
(* aggregate; a masking command pairs two finished directories into a packet *)
(* for a reviewer and a mapping that stays sealed; scoring joins packet,     *)
(* mapping and review.  A record stands for its content hash.                *)
(***************************************************************************)
EXTENDS Integers, SequencesExt

CONSTANTS
  Corpus,      \* the cases, in order
  MaxRuns,     \* arm -> bound on its runs
  MaxSnapshot, \* bound on replacements of the snapshot
  MaxPackets   \* bound on masking commands

Arms == {"baseline", "copilot"}
Cases == Range(Corpus)

\* The corpus is a list of cases, each once.
ArmsAssumption ==
  Corpus \in Seq(Cases) /\ Corpus # <<>> /\ IsInjective(Corpus) /\ MaxRuns \in [Arms -> Nat]

ASSUME ArmsAssumption

VARIABLES
  snapshot,  \* version of the snapshot file
  dir,       \* arm -> its current benchmark directory
  made,      \* arm -> the aggregates its runs ended with (evaluation.json)
  packets,   \* masked-review directories: [packet, mapping], in order of creation
  score      \* the score report, or NoFile

vars == <<snapshot, dir, made, packets, score>>

NoFile == [kind |-> "none"]
Fresh(n) == [run |-> n, context |-> "none", selected |-> <<>>, files |-> <<>>, left |-> <<>>,
             done |-> FALSE]

-----------------------------------------------------------------------------
(* The benchmark commands                                                  *)

Init ==
  /\ snapshot = 1 /\ dir = [a \in Arms |-> Fresh(0)] /\ made = [a \in Arms |-> <<>>]
  /\ packets = <<>> /\ score = NoFile

\* A run starts in an empty directory; the provider arm may have a registry or a diagnostic.
Start(a, selected, context) ==
  /\ dir[a].run < MaxRuns[a] /\ (a = "baseline" => context = "bare")
  /\ dir' = [dir EXCEPT ![a] = [Fresh(dir[a].run + 1) EXCEPT !.context = context,
                                !.selected = selected, !.left = selected]]
  /\ UNCHANGED <<snapshot, made, packets, score>>

\* run_benchmark: one case reads the snapshot of its time; a failure is noted and the next
\* case goes on; the fixed baseline gives the plain answer of its template.
RunCase(a, text) ==
  /\ dir[a].left # <<>> /\ (a = "baseline" => text = "plain")
  /\ LET c == Head(dir[a].left)
     IN  dir' = [dir EXCEPT ![a].left = Tail(@),
                            ![a].files = IF text = "failed" THEN @
                                         ELSE [k \in DOMAIN @ \cup {c} |->
                                                 IF k = c THEN [text |-> text, snapshot |-> snapshot]
                                                 ELSE @[k]]]
  /\ UNCHANGED <<snapshot, made, packets, score>>

\* evaluate_reports and _common_snapshot_sha256: 0 when the answers name several snapshots
Aggregate(d) ==
  LET read == {d.files[c].snapshot : c \in DOMAIN d.files}
  IN  [run |-> d.run, context |-> d.context, selected |-> d.selected, files |-> d.files,
       snapshot |-> IF Cardinality(read) = 1 THEN CHOOSE v \in read : TRUE ELSE 0]

\* write_benchmark_report
Finish(a) ==
  /\ dir[a].run > 0 /\ ~dir[a].done /\ dir[a].left = <<>>
  /\ dir' = [dir EXCEPT ![a].done = TRUE]
  /\ made' = [made EXCEPT ![a] = Append(@, Aggregate(dir[a]))]
  /\ UNCHANGED <<snapshot, packets, score>>

Publish ==
  /\ snapshot < MaxSnapshot /\ snapshot' = snapshot + 1
  /\ UNCHANGED <<dir, made, packets, score>>

-----------------------------------------------------------------------------
(* Pairing and masking                                                     *)

\* compare_benchmarks
Matched(b, c) ==
  b.snapshot # 0 /\ b.snapshot = c.snapshot /\ b.selected = c.selected /\ b.context = c.context

Complete(d) == d.done /\ d.selected = Corpus /\ DOMAIN d.files = Cases

\* balanced choices, shuffled
Orders ==
  {f \in [Cases -> Arms] :
     LET n == Cardinality({c \in Cases : f[c] = "baseline"})
     IN  n - (Cardinality(Cases) - n) \in {-1, 0, 1}}

Visible(b, c, order) ==
  [k \in Cases |-> IF order[k] = "baseline" THEN [A |-> b.files[k].text, B |-> c.files[k].text]
                   ELSE [A |-> c.files[k].text, B |-> b.files[k].text]]

\* prepare_masked_review, into a new directory; both files are created, never replaced.
Mask(order) ==
  /\ Len(packets) < MaxPackets
  /\ Complete(dir["baseline"]) /\ Complete(dir["copilot"])
  /\ Matched(Aggregate(dir["baseline"]), Aggregate(dir["copilot"]))
  /\ LET packet == [runs |-> [a \in Arms |-> dir[a].run],
                    cases |-> Visible(dir["baseline"], dir["copilot"], order)]
         mapping == [packet |-> packet, order |-> order, runs |-> packet.runs]
     IN  packets' = Append(packets, [packet |-> packet, mapping |-> mapping])
  /\ UNCHANGED <<snapshot, dir, made, score>>

\* A reviewer rates what a packet shows: each text for what it is.
ReviewOf(i) == [packet |-> packets[i].packet, ratings |-> packets[i].packet.cases]

-----------------------------------------------------------------------------
(* Scoring                                                                 *)

BoundByRuns(packet, mapping, review) ==  \* mutant: the mapping is bound by the comparison only
  review.packet = packet /\ mapping.runs = packet.runs

\* _validate_paired_comparison: the sealed comparison is of the packet's two reports and
\* adds up; two reports have one comparison.
ComparisonHolds(packet, mapping) == mapping.runs = packet.runs

\* review and mapping name this packet, and the sealed comparison is the packet's
Bound(packet, mapping, review) ==
  /\ mapping.packet = packet /\ review.packet = packet
  /\ ComparisonHolds(packet, mapping)

\* score_masked_review
Unmask(mapping, review) ==
  [a \in Arms |-> [c \in Cases |-> IF mapping.order[c] = a THEN review.ratings[c].A
                                   ELSE review.ratings[c].B]]

Score(i, j, k) ==
  /\ score = NoFile /\ i \in DOMAIN packets /\ j \in DOMAIN packets /\ k \in DOMAIN packets
  /\ Bound(packets[i].packet, packets[j].mapping, ReviewOf(k))
  /\ score' = [kind |-> "score", runs |-> packets[i].packet.runs,
               ratings |-> Unmask(packets[j].mapping, ReviewOf(k))]
  /\ UNCHANGED <<snapshot, dir, made, packets>>

Next ==
  \/ \E a \in Arms, selected \in {Corpus, Tail(Corpus)}, context \in {"bare", "registry"} :
       Start(a, selected, context)
  \/ \E a \in Arms, text \in {"good", "plain", "failed"} : RunCase(a, text)
  \/ \E a \in Arms : Finish(a)
  \/ Publish
  \/ \E order \in Orders : Mask(order)
  \/ \E i, j, k \in DOMAIN packets : Score(i, j, k)

Spec == Init /\ [][Next]_vars

-----------------------------------------------------------------------------
(* Properties                                                              *)

Texts == {"good", "plain"}
Files == UNION {[D -> [text : Texts, snapshot : Nat \ {0}]] : D \in SUBSET Cases}
Contexts == {"none", "bare", "registry"}
Aggregates == [run : Nat, context : Contexts, selected : Seq(Cases), files : Files,
               snapshot : Nat]
Packets == [runs : [Arms -> Nat], cases : [Cases -> [A : Texts, B : Texts]]]
Mappings == [packet : Packets, order : [Cases -> Arms], runs : [Arms -> Nat]]

\* Directories, aggregates, packets and mappings are of their types.
TypeOK ==
  /\ snapshot \in Nat \ {0}
  /\ dir \in [Arms -> [run : Nat, context : Contexts, selected : Seq(Cases), files : Files,
                      left : Seq(Cases), done : BOOLEAN]]
  /\ made \in [Arms -> Seq(Aggregates)]
  /\ packets \in Seq([packet : Packets, mapping : Mappings])

RunOf(a, n) == CHOOSE m \in Range(made[a]) : m.run = n

RatingsAreCredited ==
  score # NoFile => \A a \in Arms : \A c \in Cases :
    score.ratings[a][c] = RunOf(a, score.runs[a]).files[c].text

PairsAreComparable ==
  \A i \in DOMAIN packets :
    LET b == RunOf("baseline", packets[i].packet.runs["baseline"])
        c == RunOf("copilot", packets[i].packet.runs["copilot"])
    IN  /\ b.context = c.context /\ DOMAIN b.files = DOMAIN c.files
        /\ \A j, k \in Cases : b.files[j].snapshot = c.files[k].snapshot

\* "A/B order is randomly balanced": neither label stands for one arm much more often.
LabelsAreBalanced ==
  \A i \in DOMAIN packets :
    LET first(a) == Cardinality({c \in Cases : packets[i].mapping.order[c] = a})
    IN  first("baseline") <= first("copilot") + 1 /\ first("copilot") <= first("baseline") + 1

\* Every rating in a score is credited to the arm whose run produced the rated text, and
\* a packet only sets two runs against each other that read the same snapshot with the
\* same tools, though packets, mappings and reviews of several maskings lie side by side
\* and runs are repeated before and after.
ScoreIsAttributed == RatingsAreCredited /\ PairsAreComparable /\ LabelsAreBalanced
=============================================================================
