----------------------------- MODULE ResearchProofs -----------------------------
(* Proofs about ModelSelection, DatasetBuild, DiagnosticHistory and                *)
(* RankStatistics, for every dataset, calendar, configuration, score and draw, and *)
(* number of processes.                                                            *)
EXTENDS MCResearch, Sequences, WellFoundedInduction, FiniteSetTheorems, TLAPS

-----------------------------------------------------------------------------
(* Extremes of finite sets                                                         *)

\* A finite set of integers has a greatest element.
LEMMA GreatestExists ==
  ASSUME NEW S \in SUBSET Int, IsFiniteSet(S), S # {}
  PROVE  \E x \in S : \A y \in S : x >= y
  <1>. DEFINE Above(e) == {x \in S : x > e}
              T == {Above(e) : e \in S}
  <1>1. FiniteSubsetsOf(S) = SUBSET S
    BY FS_FiniteSubsetsOfFinite
  <1>2. IsWellFoundedOn(StrictSubsetOrdering(S), SUBSET S)
    BY <1>1, FS_StrictSubsetOrderingWellFounded
  <1>3. T \subseteq SUBSET S /\ T # {}
    OBVIOUS
  <1>4. PICK t \in T : \A u \in T : <<u, t>> \notin StrictSubsetOrdering(S)
    <2>. HIDE DEF T
    <2>. QED
      BY <1>2, <1>3, WFMin
  <1>5. PICK e \in S : t = Above(e)
    BY <1>4
  <1>6. ASSUME NEW y \in S, y > e
        PROVE  FALSE
    <2>1. Above(y) \subseteq t /\ Above(y) # t /\ Above(y) \in T
      <3>1. y \in t /\ y \notin Above(y)
        BY <1>5, <1>6
      <3>2. \A x \in S : x > y => x > e
        BY <1>6
      <3>3. Above(y) \subseteq t
        BY <1>5, <3>2
      <3>. QED
        BY <3>1, <3>3
    <2>2. <<Above(y), t>> \in StrictSubsetOrdering(S)
      <3>. HIDE DEF Above
      <3>. QED
        BY <2>1, <1>3, <1>4 DEF StrictSubsetOrdering
    <2>. QED
      BY <1>4, <2>1, <2>2
  <1>. QED
    BY <1>6

LEMMA LeastExists ==
  ASSUME NEW S \in SUBSET Int, IsFiniteSet(S), S # {}
  PROVE  \E x \in S : \A y \in S : x <= y
  <1>. DEFINE N == {0 - u : u \in S}
              f == [u \in S |-> 0 - u]
  <1>1. f \in Surjection(S, N)
    BY DEF Surjection
  <1>2. IsFiniteSet(N)
    <2>. HIDE DEF f, N
    <2>. QED
      BY <1>1, FS_Surjection
  <1>3. N \in SUBSET Int /\ N # {}
    <2>. HIDE DEF f
    <2>1. \A u \in S : 0 - u \in Int
      OBVIOUS
    <2>2. N \subseteq Int
      BY <2>1
    <2>3. PICK u \in S : TRUE
      OBVIOUS
    <2>4. 0 - u \in N
      BY <2>3
    <2>. QED
      BY <2>2, <2>4
  <1>4. PICK m \in N : \A y \in N : m >= y
    <2>. HIDE DEF N
    <2>. QED
      BY <1>2, <1>3, GreatestExists
  <1>5. PICK x \in S : m = 0 - x
    OBVIOUS
  <1>6. ASSUME NEW y \in S
        PROVE  x <= y
    <2>1. 0 - y \in N
      OBVIOUS
    <2>2. 0 - x >= 0 - y
      BY <1>4, <1>5, <2>1
    <2>. QED
      BY <2>2
  <1>. QED
    BY <1>6

LEMMA GreatestIsMax ==
  ASSUME NEW S \in SUBSET Int, IsFiniteSet(S), S # {}
  PROVE  Max(S) \in S /\ \A y \in S : Max(S) >= y
  BY GreatestExists DEF Max

-----------------------------------------------------------------------------
(* Splits                                                                          *)

\* What the dataset of a behaviour is.
Dated ==
  /\ accepted \in [Filings -> Int] /\ horizon \in [Filings -> Int]

LEMMA Constants == SelectionAssumption
  BY ResearchAssumption

LEMMA YearsInOrder ==
  ASSUME NEW a \in Int, NEW b \in Int, a <= b
  PROVE  Start(a) \in Int /\ Start(b) \in Int /\ Start(a) <= Start(b)
  <1>1. YearLength \in Nat
    BY Constants DEF SelectionAssumption
  <1>2. PICK k \in Nat : b = a + k
    <2>1. b - a \in Nat /\ b = a + (b - a)
      OBVIOUS
    <2>. QED
      BY <2>1
  <1>3. b * YearLength = a * YearLength + k * YearLength /\ k * YearLength \in Nat
    BY <1>1, <1>2
  <1>. QED
    BY <1>1, <1>3 DEF Start

LEMMA HoldoutFits ==
  ASSUME NEW n \in Nat, n > 0, NEW s \in Nat, s > 0
  PROVE  (n + s - 1) \div s <= n
  <1>. DEFINE q == (n + s - 1) \div s
  <1>1. q \in Int /\ s * q <= n + s - 1
    OBVIOUS
  <1>2. SUFFICES ASSUME q >= n + 1 PROVE FALSE
    BY <1>1
  <1>. HIDE DEF q
  <1>3. s * q >= s * (n + 1) /\ s * (n + 1) = s * n + s /\ s * n >= n
    BY <1>1, <1>2
  <1>. QED
    BY <1>1, <1>3

LEMMA HoldoutStarts ==
  ASSUME Dated, NEW rows \in SUBSET Filings, rows # {}
  PROVE  HoldoutStart(rows) \in Int
  <1>. DEFINE Late(t) == {f \in rows : accepted[f] >= t}
              Times == {accepted[f] : f \in rows}
              Enough == {t \in Times : Cardinality(Late(t)) >= HoldoutCount(rows)}
  <1>1. IsFiniteSet(Filings)
    BY Constants, FS_Interval DEF SelectionAssumption, Filings
  <1>2. IsFiniteSet(rows) /\ Cardinality(rows) \in Nat /\ Cardinality(rows) > 0
    BY <1>1, FS_Subset, FS_CardinalityType, FS_EmptySet
  <1>3. Times \in SUBSET Int /\ IsFiniteSet(Times) /\ Times # {}
    <2>1. [f \in rows |-> accepted[f]] \in Surjection(rows, Times)
      BY DEF Surjection
    <2>. QED
      BY <1>2, <2>1, FS_Surjection DEF Dated
  <1>4. PICK t \in Times : \A u \in Times : t <= u
    <2>. HIDE DEF Times
    <2>. QED
      BY <1>3, LeastExists
  <1>5. Late(t) = rows
    BY <1>3, <1>4
  <1>6. HoldoutCount(rows) <= Cardinality(rows)
    BY <1>2, HoldoutFits, Constants DEF HoldoutCount, SelectionAssumption
  <1>7. HoldoutCount(rows) \in Int
    BY <1>2, Constants DEF HoldoutCount, SelectionAssumption
  <1>8. t \in Enough
    BY <1>2, <1>5, <1>6, <1>7
  <1>9. Enough \in SUBSET Int /\ IsFiniteSet(Enough)
    BY <1>3, FS_Subset
  <1>10. Max(Enough) \in Int
    <2>. HIDE DEF Enough
    <2>. QED
      BY <1>8, <1>9, GreatestIsMax
  <1>. QED
    BY <1>10 DEF HoldoutStart

LEMMA BeforeTheYear ==
  ASSUME Dated, NEW year \in Int
  PROVE  /\ Start(year) \in Int
         /\ \A f \in TrainRows(year) : horizon[f] < Start(year) /\ accepted[f] < Start(year)
         /\ \A f \in ValidationRows(year) : accepted[f] >= Start(year)
         /\ TrainRows(year) \subseteq Filings /\ ValidationRows(year) \subseteq Filings
  BY YearsInOrder DEF TrainRows, ValidationRows, Matured, Labelled

\* What a fold is trained on, stopped by or compared on are rows of its window.
LEMMA FoldsReadTheirWindow ==
  ASSUME NEW year
  PROVE  FoldReads(year) \subseteq TrainRows(year)
  BY DEF FoldReads, TrainingReads, ComparisonReads, Inner, Holdout

LEMMA FoldIsSealed ==
  ASSUME Dated, NEW year \in Int
  PROVE  PublicTo(FoldReads(year), ValidationRows(year))
  <1>. SUFFICES ASSUME NEW l \in FoldReads(year), NEW f \in ValidationRows(year)
                PROVE  horizon[l] < accepted[f]
    BY DEF PublicTo
  <1>1. l \in TrainRows(year) /\ l \in Filings /\ f \in Filings
    BY FoldsReadTheirWindow, BeforeTheYear
  <1>. QED
    BY <1>1, BeforeTheYear DEF Dated

LEMMA StoppingIsSealed ==
  ASSUME Dated, NEW rows \in SUBSET Filings, rows # {}
  PROVE  PublicTo(Inner(rows), Holdout(rows))
  BY HoldoutStarts DEF PublicTo, Inner, Holdout, Dated

\* Whatever was scored out of fold is what the refit is trained on.
LEMMA OutOfFoldIsTrained ==
  ASSUME Dated, NEW c \in Configs
  PROVE  OutOfFold(c) \subseteq FrozenTrain(c)
  <1>. SUFFICES ASSUME NEW y \in c.years, NEW f \in ValidationRows(y)
                PROVE  f \in FrozenTrain(c)
    BY DEF OutOfFold
  <1>1. y \in Int /\ y + 1 \in Int /\ c.testYear \in Int /\ y + 1 <= c.testYear
    BY Constants DEF SelectionAssumption
  <1>2. /\ Start(y + 1) \in Int /\ Start(c.testYear) \in Int
        /\ Start(y + 1) <= Start(c.testYear)
    BY <1>1, YearsInOrder
  <1>3. /\ f \in Labelled /\ f \in Filings
        /\ accepted[f] < Start(y + 1) /\ horizon[f] < Start(y + 1)
    BY DEF ValidationRows, Matured, Labelled
  <1>. QED
    BY <1>2, <1>3 DEF Dated, FrozenTrain, Matured

LEMMA TestIsLater ==
  ASSUME Dated, NEW c \in Configs
  PROVE  /\ PublicTo(FrozenTrain(c), FrozenTest(c))
         /\ FrozenTrain(c) \cap FrozenTest(c) = {}
  <1>1. Start(c.testYear) \in Int
    BY Constants, YearsInOrder DEF SelectionAssumption
  <1>. QED
    BY <1>1 DEF PublicTo, FrozenTrain, FrozenTest, Matured, Labelled, Dated

LEMMA FrozenIsSealed ==
  ASSUME Dated, NEW c \in Configs
  PROVE  PublicTo(FrozenReads(c) \cup OutOfFold(c), FrozenTest(c))
  <1>1. FrozenReads(c) \cup OutOfFold(c) \subseteq FrozenTrain(c)
    BY OutOfFoldIsTrained DEF FrozenReads, TrainingReads, ComparisonReads
  <1>. QED
    BY <1>1, TestIsLater DEF PublicTo

LEMMA StudyIsSealed ==
  ASSUME Dated
  PROVE  /\ PublicTo(ComparisonReads(DevelopmentRows), StudyRows)
         /\ \A c \in Configs : Validation < c.testYear => PublicTo(StudyReads, FrozenTest(c))
  <1>1. /\ Development \in Int /\ Validation \in Int
        /\ Development + 1 \in Int /\ Development + 1 <= Validation
    BY Constants DEF SelectionAssumption
  <1>2. /\ Start(Development + 1) \in Int /\ Start(Validation) \in Int
        /\ Start(Validation + 1) \in Int
        /\ Start(Development + 1) <= Start(Validation)
        /\ Start(Validation) <= Start(Validation + 1)
    BY <1>1, YearsInOrder
  <1>3. PublicTo(ComparisonReads(DevelopmentRows), StudyRows)
    BY <1>2 DEF PublicTo, ComparisonReads, DevelopmentRows, StudyRows, Matured, Labelled, Dated
  <1>4. ASSUME NEW c \in Configs, Validation < c.testYear
        PROVE  PublicTo(StudyReads, FrozenTest(c))
    <2>1. c.testYear \in Int /\ Validation + 1 <= c.testYear
      BY <1>1, <1>4, Constants DEF SelectionAssumption
    <2>2. Start(c.testYear) \in Int /\ Start(Validation + 1) <= Start(c.testYear)
      BY <1>1, <2>1, YearsInOrder
    <2>3. \A l \in StudyReads : l \in Filings /\ horizon[l] < Start(Validation + 1)
      BY <1>2 DEF StudyReads, TrainingReads, ComparisonReads, DevelopmentRows, StudyRows,
                  Matured, Labelled, Dated
    <2>4. \A f \in FrozenTest(c) : f \in Filings /\ accepted[f] >= Start(c.testYear)
      BY DEF FrozenTest, Labelled
    <2>. QED
      BY <1>2, <2>2, <2>3, <2>4 DEF PublicTo, Dated
  <1>. QED
    BY <1>3, <1>4

LEMMA SealedByDates == Dated => NoScoreLooksAhead
  <1>. SUFFICES ASSUME Dated PROVE NoScoreLooksAhead
    OBVIOUS
  <1>1. ASSUME NEW c \in Configs, FoldsExist(c), NEW y \in c.years
        PROVE  /\ PublicTo(FoldReads(y), ValidationRows(y))
               /\ PublicTo(Inner(TrainRows(y)), Holdout(TrainRows(y)))
    <2>1. y \in Int
      BY Constants DEF SelectionAssumption
    <2>2. TrainRows(y) \in SUBSET Filings /\ TrainRows(y) # {}
      BY <1>1, <2>1, BeforeTheYear DEF FoldsExist
    <2>. QED
      BY <2>1, <2>2, FoldIsSealed, StoppingIsSealed
  <1>. QED
    BY <1>1, FrozenIsSealed, StudyIsSealed DEF NoScoreLooksAhead

-----------------------------------------------------------------------------
(* The opening of the locked test.  A run that got past the confirmation carries   *)
(* the selection that it confirmed; what it evaluated and what it published are    *)
(* that selection's, and the result on disk is the one of the run that opened it.  *)

Stages == {"idle", "selected", "archived", "done", "confirmed", "evaluated", "opened", "failed"}

Study(of) == [of |-> of, train |-> FrozenTrain(of.config), test |-> FrozenTest(of.config)]

FilesOK ==
  /\ archive \in Jobs \cup {None}
  /\ selection \in Saved \cup {None}
  /\ review # None => review.of \in Jobs /\ review.events = OutOfFold(review.of.config)
  /\ locked # None => locked.of \in Jobs /\ locked = Study(locked.of)

RunOK(r) ==
  /\ pc[r] \in {"selected", "archived"} => job[r] \in Jobs
  /\ pc[r] = "archived" => archive # None
  /\ pc[r] = "confirmed" => seen[r] \in Saved
  /\ pc[r] \in {"evaluated", "opened"} => seen[r] \in Saved /\ job[r] = Study(seen[r].of)
  /\ pc[r] = "opened" => locked # None /\ locked = job[r]

SInv ==
  /\ Dated /\ FilesOK
  /\ pc \in [Runs -> Stages] /\ job = [r \in Runs |-> job[r]] /\ seen = [r \in Runs |-> seen[r]]
  /\ \A r \in Runs : RunOK(r)
  /\ \A r, q \in Runs : pc[r] = "opened" /\ pc[q] = "opened" => r = q

LEMMA SInvInit == Init => SInv
  <1>. SUFFICES ASSUME Init PROVE SInv
    OBVIOUS
  <1>1. Moments \subseteq Int /\ Lags \subseteq Int
    BY Constants DEF SelectionAssumption
  <1>2. PICK lag \in [Filings -> Lags] : horizon = [f \in Filings |-> accepted[f] + lag[f]]
    BY DEF Init
  <1>3. accepted \in [Filings -> Int] /\ \A f \in Filings : lag[f] \in Int
    BY <1>1 DEF Init
  <1>4. Dated
    BY <1>2, <1>3 DEF Dated
  <1>. QED
    BY <1>4 DEF Init, SInv, FilesOK, RunOK, Stages

LEMMA StudyIsNotNone ==
  ASSUME NEW of \in Jobs
  PROVE  Study(of) # None /\ Study(of).of = of
  <1>1. Study(of) \in Studies
    BY DEF Study, Studies, FrozenTrain, FrozenTest, Matured, Labelled, Filings
  <1>. QED
    BY <1>1, Constants DEF SelectionAssumption, Study

\* The dataset stays, and with it what its rows say of a configuration.
LEMMA DataStays ==
  ASSUME UNCHANGED dataVars
  PROVE  /\ Dated' = Dated
         /\ \A of : Study(of)' = Study(of)
         /\ \A c : OutOfFold(c)' = OutOfFold(c)
  BY DEF dataVars, Dated, Study, FrozenTrain, FrozenTest, Matured, Labelled, OutOfFold,
         ValidationRows

\* A run that is not opening leaves the opened one alone.
LEMMA OpenedStays ==
  ASSUME SInv, NEW r \in Runs, NEW stage \in Stages, stage # "opened",
         pc' = [pc EXCEPT ![r] = stage]
  PROVE  /\ pc' \in [Runs -> Stages]
         /\ pc'[r] = stage /\ \A q \in Runs : q # r => pc'[q] = pc[q]
         /\ \A p, q \in Runs : pc'[p] = "opened" /\ pc'[q] = "opened" => p = q
  BY DEF SInv

LEMMA SelectKeeps ==
  ASSUME SInv, NEW r \in Runs, NEW c \in Configs, NEW family \in Families, Select(r, c, family)
  PROVE  SInv'
  <1>1. UNCHANGED dataVars /\ UNCHANGED <<seen, archive, selection, review, locked>>
    BY DEF Select, fileVars
  <1>2. Dated' /\ FilesOK'
    BY <1>1, DataStays DEF SInv, FilesOK
  <1>3. pc' = [pc EXCEPT ![r] = "selected"]
    BY DEF Select
  <1>4. /\ pc' \in [Runs -> Stages]
        /\ pc'[r] = "selected" /\ \A q \in Runs : q # r => pc'[q] = pc[q]
        /\ \A p, q \in Runs : pc'[p] = "opened" /\ pc'[q] = "opened" => p = q
    BY <1>3, OpenedStays DEF Stages
  <1>5. /\ job' = [q \in Runs |-> job'[q]] /\ job'[r] \in Jobs
        /\ \A q \in Runs : q # r => job'[q] = job[q]
    BY DEF Select, SInv, Jobs
  <1>6. ASSUME NEW q \in Runs
        PROVE  RunOK(q)'
    BY <1>1, <1>4, <1>5, DataStays DEF SInv, RunOK
  <1>. QED
    BY <1>1, <1>2, <1>4, <1>5, <1>6 DEF SInv

LEMMA SaveArchiveKeeps ==
  ASSUME SInv, NEW r \in Runs, SaveArchive(r)
  PROVE  SInv'
  <1>1. UNCHANGED dataVars /\ UNCHANGED <<job, seen, selection, review, locked>>
    BY DEF SaveArchive
  <1>2. archive' \in Jobs /\ archive' # None
    BY Constants DEF SaveArchive, SInv, RunOK, SelectionAssumption
  <1>3. Dated' /\ FilesOK'
    BY <1>1, <1>2, DataStays DEF SInv, FilesOK
  <1>4. pc' = [pc EXCEPT ![r] = "archived"] /\ job[r] \in Jobs
    BY DEF SaveArchive, SInv, RunOK
  <1>5. /\ pc' \in [Runs -> Stages]
        /\ pc'[r] = "archived" /\ \A q \in Runs : q # r => pc'[q] = pc[q]
        /\ \A p, q \in Runs : pc'[p] = "opened" /\ pc'[q] = "opened" => p = q
    BY <1>4, OpenedStays DEF Stages
  <1>6. ASSUME NEW q \in Runs
        PROVE  RunOK(q)'
    BY <1>1, <1>2, <1>4, <1>5, DataStays DEF SInv, RunOK
  <1>. QED
    BY <1>1, <1>3, <1>5, <1>6 DEF SInv

LEMMA SaveSelectionKeeps ==
  ASSUME SInv, NEW r \in Runs, SaveSelection(r)
  PROVE  SInv'
  <1>1. UNCHANGED dataVars /\ UNCHANGED <<job, seen, archive, review, locked>>
    BY DEF SaveSelection
  <1>2. job[r] \in Jobs /\ archive \in Jobs
    BY DEF SaveSelection, SInv, RunOK, FilesOK
  <1>3. selection' \in Saved
    BY <1>2 DEF SaveSelection, Saved
  <1>4. Dated' /\ FilesOK'
    BY <1>1, <1>3, DataStays DEF SInv, FilesOK
  <1>5. pc' = [pc EXCEPT ![r] = "done"]
    BY DEF SaveSelection
  <1>6. /\ pc' \in [Runs -> Stages]
        /\ pc'[r] = "done" /\ \A q \in Runs : q # r => pc'[q] = pc[q]
        /\ \A p, q \in Runs : pc'[p] = "opened" /\ pc'[q] = "opened" => p = q
    BY <1>5, OpenedStays DEF Stages
  <1>7. ASSUME NEW q \in Runs
        PROVE  RunOK(q)'
    BY <1>1, <1>6, DataStays DEF SInv, RunOK
  <1>. QED
    BY <1>1, <1>4, <1>6, <1>7 DEF SInv

LEMMA ReviewKeeps ==
  ASSUME SInv, NEW r \in Runs, Review(r)
  PROVE  SInv'
  <1>1. UNCHANGED dataVars /\ UNCHANGED <<job, seen, archive, selection, locked>>
    BY DEF Review
  <1>2. selection.of \in Jobs
    BY DEF Review, SInv, FilesOK, Saved
  <1>3. review'.of \in Jobs /\ review'.events = OutOfFold(review'.of.config)
    BY <1>2 DEF Review
  <1>4. Dated' /\ FilesOK'
    BY <1>1, <1>3, DataStays DEF SInv, FilesOK
  <1>5. pc' = [pc EXCEPT ![r] = "done"]
    BY DEF Review
  <1>6. /\ pc' \in [Runs -> Stages]
        /\ pc'[r] = "done" /\ \A q \in Runs : q # r => pc'[q] = pc[q]
        /\ \A p, q \in Runs : pc'[p] = "opened" /\ pc'[q] = "opened" => p = q
    BY <1>5, OpenedStays DEF Stages
  <1>7. ASSUME NEW q \in Runs
        PROVE  RunOK(q)'
    BY <1>1, <1>6, DataStays DEF SInv, RunOK
  <1>. QED
    BY <1>1, <1>4, <1>6, <1>7 DEF SInv

LEMMA ConfirmKeeps ==
  ASSUME SInv, NEW r \in Runs, Confirm(r)
  PROVE  SInv'
  <1>1. UNCHANGED dataVars /\ UNCHANGED <<job, archive, selection, review, locked>>
    BY DEF Confirm, fileVars
  <1>2. Dated' /\ FilesOK'
    BY <1>1, DataStays DEF SInv, FilesOK
  <1>3. pc' = [pc EXCEPT ![r] = "confirmed"]
    BY DEF Confirm
  <1>4. /\ pc' \in [Runs -> Stages]
        /\ pc'[r] = "confirmed" /\ \A q \in Runs : q # r => pc'[q] = pc[q]
        /\ \A p, q \in Runs : pc'[p] = "opened" /\ pc'[q] = "opened" => p = q
    BY <1>3, OpenedStays DEF Stages
  <1>5. /\ seen' = [q \in Runs |-> seen'[q]] /\ seen'[r] \in Saved
        /\ \A q \in Runs : q # r => seen'[q] = seen[q]
    BY DEF Confirm, SInv, FilesOK
  <1>6. ASSUME NEW q \in Runs
        PROVE  RunOK(q)'
    BY <1>1, <1>4, <1>5, DataStays DEF SInv, RunOK
  <1>. QED
    BY <1>1, <1>2, <1>4, <1>5, <1>6 DEF SInv

LEMMA EvaluateKeeps ==
  ASSUME SInv, NEW r \in Runs, Evaluate(r)
  PROVE  SInv'
  <1>1. UNCHANGED dataVars /\ UNCHANGED <<seen, archive, selection, review, locked>>
    BY DEF Evaluate, fileVars
  <1>2. Dated' /\ FilesOK'
    BY <1>1, DataStays DEF SInv, FilesOK
  <1>3. PICK stage \in {"evaluated", "failed"} :
          /\ pc' = [pc EXCEPT ![r] = stage]
          /\ job' = [q \in Runs |-> job'[q]] /\ \A q \in Runs : q # r => job'[q] = job[q]
          /\ stage = "evaluated" => selection = seen[r] /\ job'[r] = Study(selection.of)
    BY DEF Evaluate, Verifies, SInv, Study
  <1>4. /\ pc' \in [Runs -> Stages]
        /\ pc'[r] = stage /\ \A q \in Runs : q # r => pc'[q] = pc[q]
        /\ \A p, q \in Runs : pc'[p] = "opened" /\ pc'[q] = "opened" => p = q
    BY <1>3, OpenedStays DEF Stages
  <1>5. pc[r] = "confirmed" /\ seen[r] \in Saved
    BY DEF Evaluate, SInv, RunOK
  <1>6. ASSUME NEW q \in Runs
        PROVE  RunOK(q)'
    BY <1>1, <1>3, <1>4, <1>5, DataStays DEF SInv, RunOK
  <1>. QED
    BY <1>1, <1>2, <1>3, <1>4, <1>6 DEF SInv

\* The rename fails on a directory that is there, so the run that opens is the first.
LEMMA PublishKeeps ==
  ASSUME SInv, NEW r \in Runs, Publish(r)
  PROVE  SInv'
  <1>1. UNCHANGED dataVars /\ UNCHANGED <<job, seen, archive, selection, review>>
    BY DEF Publish
  <1>2. pc[r] = "evaluated" /\ seen[r] \in Saved /\ job[r] = Study(seen[r].of)
    BY DEF Publish, SInv, RunOK
  <1>3. seen[r].of \in Jobs /\ job[r] # None /\ job[r].of = seen[r].of
    BY <1>2, StudyIsNotNone DEF Saved
  <1>4. CASE locked = None
    <2>1. locked' = job[r] /\ pc' = [pc EXCEPT ![r] = "opened"]
      BY <1>4 DEF Publish
    <2>2. Dated' /\ FilesOK'
      BY <1>1, <1>2, <1>3, <2>1, DataStays DEF SInv, FilesOK
    <2>3. pc' \in [Runs -> Stages] /\ pc'[r] = "opened" /\ \A q \in Runs : q # r => pc'[q] = pc[q]
      BY <2>1 DEF SInv, Stages
    <2>4. \A q \in Runs : pc[q] # "opened"
      BY <1>4 DEF SInv, RunOK
    <2>5. ASSUME NEW q \in Runs
          PROVE  RunOK(q)'
      BY <1>1, <1>2, <1>3, <2>1, <2>3, <2>4, DataStays DEF SInv, RunOK
    <2>. QED
      BY <1>1, <2>2, <2>3, <2>4, <2>5 DEF SInv
  <1>5. CASE locked # None
    <2>1. locked' = locked /\ pc' = [pc EXCEPT ![r] = "failed"]
      BY <1>5 DEF Publish
    <2>2. Dated' /\ FilesOK'
      BY <1>1, <2>1, DataStays DEF SInv, FilesOK
    <2>3. /\ pc' \in [Runs -> Stages]
          /\ pc'[r] = "failed" /\ \A q \in Runs : q # r => pc'[q] = pc[q]
          /\ \A p, q \in Runs : pc'[p] = "opened" /\ pc'[q] = "opened" => p = q
      BY <2>1, OpenedStays DEF Stages
    <2>4. ASSUME NEW q \in Runs
          PROVE  RunOK(q)'
      BY <1>1, <2>1, <2>3, DataStays DEF SInv, RunOK
    <2>. QED
      BY <1>1, <2>2, <2>3, <2>4 DEF SInv
  <1>. QED
    BY <1>4, <1>5

LEMMA CrashKeeps ==
  ASSUME SInv, NEW r \in Runs, Crash(r)
  PROVE  SInv'
  <1>1. UNCHANGED dataVars /\ UNCHANGED <<job, seen, archive, selection, review, locked>>
    BY DEF Crash, fileVars
  <1>2. Dated' /\ FilesOK'
    BY <1>1, DataStays DEF SInv, FilesOK
  <1>3. pc' = [pc EXCEPT ![r] = "failed"]
    BY DEF Crash
  <1>4. /\ pc' \in [Runs -> Stages]
        /\ pc'[r] = "failed" /\ \A q \in Runs : q # r => pc'[q] = pc[q]
        /\ \A p, q \in Runs : pc'[p] = "opened" /\ pc'[q] = "opened" => p = q
    BY <1>3, OpenedStays DEF Stages
  <1>5. ASSUME NEW q \in Runs
        PROVE  RunOK(q)'
    BY <1>1, <1>4, DataStays DEF SInv, RunOK
  <1>. QED
    BY <1>1, <1>2, <1>4, <1>5 DEF SInv

LEMMA SInvStep == SInv /\ [Next]_vars => SInv'
  <1>. SUFFICES ASSUME SInv, [Next]_vars PROVE SInv'
    OBVIOUS
  <1>1. CASE UNCHANGED vars
    BY <1>1, DataStays DEF vars, runVars, fileVars, SInv, FilesOK, RunOK
  <1>2. CASE Next
    BY <1>2, SelectKeeps, SaveArchiveKeeps, SaveSelectionKeeps, ReviewKeeps, ConfirmKeeps,
       EvaluateKeeps, PublishKeeps, CrashKeeps DEF Next
  <1>. QED
    BY <1>1, <1>2

LEMMA SInvOpens == SInv => OpenedOnce
  <1>. SUFFICES ASSUME SInv PROVE OpenedOnce
    OBVIOUS
  <1>. DEFINE Opened == {r \in Runs : pc[r] = "opened"}
  <1>1. Cardinality(Opened) <= 1
    <2>1. CASE Opened = {}
      BY <2>1, FS_EmptySet
    <2>2. CASE \E r : Opened = {r}
      <3>1. PICK r : Opened = {r}
        BY <2>2
      <3>2. Cardinality({r}) = 1
        BY FS_Singleton
      <3>. QED
        BY <3>1, <3>2
    <2>. QED
      BY <2>1, <2>2 DEF SInv
  <1>2. ASSUME NEW r \in Runs, pc[r] = "opened"
        PROVE  locked = job[r] /\ locked.of = seen[r].of
    BY <1>2 DEF SInv, RunOK, Study
  <1>3. ASSUME review # None, locked # None, review.of = locked.of
        PROVE  review.events \subseteq locked.train /\ review.events \cap locked.test = {}
    <2>1. locked.of \in Jobs /\ locked.of.config \in Configs
      BY <1>3 DEF SInv, FilesOK, Jobs
    <2>2. locked.train = FrozenTrain(locked.of.config) /\ locked.test = FrozenTest(locked.of.config)
      BY <1>3 DEF SInv, FilesOK, Study
    <2>3. review.events = OutOfFold(locked.of.config)
      BY <1>3 DEF SInv, FilesOK
    <2>. QED
      BY <2>1, <2>2, <2>3, OutOfFoldIsTrained, TestIsLater DEF SInv
  <1>. QED
    BY <1>1, <1>2, <1>3 DEF OpenedOnce

\* "Select a stable champion using pre-test expanding-window predictions only": for every
\* dataset and every set of configurations, no score of walk_forward.py or experiment.py
\* depends on a label that was still to come when the filing it scores was accepted; and
\* however many commands select, review and open in one directory, and wherever they die,
\* save_frozen_evaluation opens the locked test once, for the selection that its operator
\* confirmed, and nothing that pretest_review.py reviewed is in what it tested.
THEOREM SelectionSealed == Spec => []SelectionIsSealed
  <1>1. SInv => SelectionIsSealed
    BY SealedByDates, SInvOpens DEF SInv, SelectionIsSealed
  <1>. QED
    BY <1>1, SInvInit, SInvStep, PTL DEF Spec

-----------------------------------------------------------------------------
(* Diagnostic reports, their history and its review                                *)

\* The cardinality that the instance uses is the library's.
LEMMA SameCounts ==
  ASSUME NEW S
  PROVE  Diagnostic!Cardinality(S) = Cardinality(S)
  BY DEF Diagnostic!Cardinality, Cardinality

LEMMA DiagnosticConstants == Diagnostic!DiagnosticAssumption
  BY ResearchAssumption

Spoken(e) == {f.event : f \in e.matured \cup e.pending \cup e.unmatched}

\* An evaluation puts each of its forecasts in one place.
Whole(e) ==
  /\ IsFiniteSet(e.matured) /\ IsFiniteSet(e.pending) /\ IsFiniteSet(e.unmatched)
  /\ e.matured \cap e.pending = {} /\ e.unmatched \cap (e.matured \cup e.pending) = {}

Sound(r) ==
  /\ r.asOf \in Int /\ r.h \in Horizons
  /\ Whole(r.all) /\ Whole(r.unique) /\ Spoken(r.unique) = Spoken(r.all)
  /\ r.all.status = "ready" => r.all.matured # {}
  /\ \A f \in r.all.matured : f.entry + r.h - 1 <= r.asOf

LEMMA EvaluationIsWhole ==
  ASSUME NEW forecasts, IsFiniteSet(forecasts), NEW data, NEW asOf, NEW h,
         NEW e, e = Diagnostic!Evaluation(data, forecasts, asOf, h)
  PROVE  /\ Whole(e) /\ e.matured \cup e.pending \cup e.unmatched = forecasts
         /\ e.status = "ready" => e.matured # {}
         /\ \A f \in e.matured :
              f \in forecasts
              /\ Diagnostic!Outcome(f, data, Diagnostic!Schedule(data, forecasts), asOf, h) = "matured"
  <1>. DEFINE of(outcome) ==
         {f \in forecasts :
            Diagnostic!Outcome(f, data, Diagnostic!Schedule(data, forecasts), asOf, h) = outcome}
  <1>1. /\ e.matured = of("matured") /\ e.pending = of("pending")
        /\ e.unmatched = forecasts \ (of("matured") \cup of("pending"))
        /\ e.status = "ready" => of("matured") # {}
    BY DEF Diagnostic!Evaluation
  <1>2. of("matured") \subseteq forecasts /\ of("pending") \subseteq forecasts
        /\ of("matured") \cap of("pending") = {}
    OBVIOUS
  <1>3. /\ IsFiniteSet(e.matured) /\ IsFiniteSet(e.pending) /\ IsFiniteSet(e.unmatched)
    <2>1. e.matured \subseteq forecasts /\ e.pending \subseteq forecasts
          /\ e.unmatched \subseteq forecasts
      BY <1>1, <1>2
    <2>. QED
      BY <2>1, FS_Subset
  <1>4. Whole(e)
    BY <1>1, <1>2, <1>3 DEF Whole
  <1>5. e.matured \cup e.pending \cup e.unmatched = forecasts
    BY <1>1, <1>2
  <1>6. \A f \in e.matured :
          f \in forecasts
          /\ Diagnostic!Outcome(f, data, Diagnostic!Schedule(data, forecasts), asOf, h) = "matured"
    BY <1>1
  <1>. QED
    BY <1>1, <1>4, <1>5, <1>6

LEMMA MaturedHasPassed ==
  ASSUME NEW f \in Forecasts, NEW data, NEW sessions, NEW asOf \in Int, NEW h \in Int,
         Diagnostic!Outcome(f, data, sessions, asOf, h) = "matured"
  PROVE  f.entry + h - 1 <= asOf
  <1>1. f.entry \in Int
    BY DiagnosticConstants DEF Diagnostic!DiagnosticAssumption
  <1>2. ~(f.entry + h - 1 > asOf)
    BY DEF Diagnostic!Outcome
  <1>. QED
    BY <1>1, <1>2

\* Of the forecasts of an event, by one model, one is the first.
LEMMA OneIsFirst ==
  ASSUME NEW forecasts \in SUBSET Forecasts, IsFiniteSet(forecasts), NEW f \in forecasts
  PROVE  \E g \in Diagnostic!FirstPerEvent(forecasts) : g.event = f.event /\ g.model = f.model
  <1>. DEFINE Same == {g \in forecasts : g.event = f.event /\ g.model = f.model}
              Times == {g.asOf : g \in Same}
  <1>1. IsFiniteSet(Same) /\ f \in Same
    BY FS_Subset
  <1>2. \A g \in Same : g.asOf \in Int /\ g.id \in Int
    BY DiagnosticConstants DEF Diagnostic!DiagnosticAssumption
  <1>3. [g \in Same |-> g.asOf] \in Surjection(Same, Times)
    BY DEF Surjection
  <1>4. Times \in SUBSET Int /\ IsFiniteSet(Times) /\ Times # {}
    BY <1>1, <1>2, <1>3, FS_Surjection
  <1>5. PICK t \in Times : \A u \in Times : t <= u
    <2>. HIDE DEF Times
    <2>. QED
      BY <1>4, LeastExists
  <1>. DEFINE Then == {g \in Same : g.asOf = t}
              Names == {g.id : g \in Then}
  <1>6. IsFiniteSet(Then) /\ Then # {}
    <2>1. Then \subseteq Same
      OBVIOUS
    <2>. QED
      BY <1>1, <2>1, FS_Subset
  <1>7. [g \in Then |-> g.id] \in Surjection(Then, Names)
    BY DEF Surjection
  <1>8. Names \in SUBSET Int /\ IsFiniteSet(Names) /\ Names # {}
    <2>1. \A g \in Then : g.id \in Int
      BY <1>2
    <2>. HIDE DEF Then
    <2>. QED
      BY <2>1, <1>6, <1>7, FS_Surjection
  <1>9. PICK n \in Names : \A m \in Names : n <= m
    <2>. HIDE DEF Names
    <2>. QED
      BY <1>8, LeastExists
  <1>10. PICK g \in Then : g.id = n
    OBVIOUS
  <1>11. ASSUME NEW q \in forecasts, q.event = g.event, q.model = g.model
         PROVE  g.asOf < q.asOf \/ (g.asOf = q.asOf /\ g.id <= q.id)
    <2>1. q \in Same /\ g \in Same /\ g.asOf = t
      BY <1>11
    <2>2. q.asOf \in Times /\ t <= q.asOf /\ q.asOf \in Int /\ t \in Int
      BY <1>2, <1>5, <2>1
    <2>3. CASE q.asOf = t
      <3>1. q.id \in Names
        BY <2>1, <2>3
      <3>. QED
        BY <1>9, <1>10, <2>1, <2>3, <3>1
    <2>. QED
      BY <2>1, <2>2, <2>3
  <1>12. g \in forecasts /\ g.event = f.event /\ g.model = f.model
    OBVIOUS
  <1>13. g \in Diagnostic!FirstPerEvent(forecasts)
    BY <1>11, <1>12 DEF Diagnostic!FirstPerEvent
  <1>. QED
    BY <1>12, <1>13

LEMMA ReportIsSound ==
  ASSUME NEW forecasts \in SUBSET Forecasts, IsFiniteSet(forecasts), NEW data,
         NEW asOf \in Int, NEW h \in Horizons
  PROVE  Sound(Diagnostic!Report(data, forecasts, asOf, h))
  <1>. DEFINE first == Diagnostic!FirstPerEvent(forecasts)
              r == Diagnostic!Report(data, forecasts, asOf, h)
  <1>1. /\ r.asOf = asOf /\ r.h = h
        /\ r.all = Diagnostic!Evaluation(data, forecasts, asOf, h)
        /\ r.unique = Diagnostic!Evaluation(data, first, asOf, h)
    BY DEF Diagnostic!Report
  <1>2. first \subseteq forecasts /\ IsFiniteSet(first)
    BY FS_Subset DEF Diagnostic!FirstPerEvent
  <1>3. h \in Int
    BY DiagnosticConstants DEF Diagnostic!DiagnosticAssumption
  <1>. HIDE DEF r, first
  <1>4. /\ Whole(r.all) /\ r.all.matured \cup r.all.pending \cup r.all.unmatched = forecasts
        /\ r.all.status = "ready" => r.all.matured # {}
        /\ \A f \in r.all.matured :
             f \in forecasts
             /\ Diagnostic!Outcome(f, data, Diagnostic!Schedule(data, forecasts), asOf, h) = "matured"
    BY <1>1, EvaluationIsWhole
  <1>5. Whole(r.unique) /\ r.unique.matured \cup r.unique.pending \cup r.unique.unmatched = first
    BY <1>1, <1>2, EvaluationIsWhole
  <1>6. \A f \in r.all.matured : f.entry + r.h - 1 <= r.asOf
    BY <1>1, <1>3, <1>4, MaturedHasPassed
  <1>7. Spoken(r.unique) = Spoken(r.all)
    BY <1>2, <1>4, <1>5, OneIsFirst DEF Spoken, first
  <1>8. Sound(r)
    BY <1>1, <1>4, <1>5, <1>6, <1>7 DEF Sound
  <1>. QED
    BY <1>8 DEF r

\* The strict reader's comparisons hold of an evaluation that is whole.
LEMMA WholeCountsAreValid ==
  ASSUME NEW e, Whole(e)
  PROVE  Diagnostic!ValidCounts(Diagnostic!Counts(e))
  <1>. DEFINE m == e.matured
              p == e.pending
              u == e.unmatched
  <1>1. IsFiniteSet(m \cup p) /\ Cardinality(m \cup p) = Cardinality(m) + Cardinality(p)
    <2>1. m \cap p = {} /\ Cardinality({}) = 0 /\ IsFiniteSet(m) /\ IsFiniteSet(p)
      BY FS_EmptySet DEF Whole
    <2>2. Cardinality(m) \in Nat /\ Cardinality(p) \in Nat
      BY <2>1, FS_CardinalityType
    <2>. HIDE DEF m, p
    <2>3. /\ IsFiniteSet(m \cup p)
          /\ Cardinality(m \cup p) = Cardinality(m) + Cardinality(p) - Cardinality(m \cap p)
      BY <2>1, FS_Union
    <2>4. Cardinality(m \cap p) = 0
      BY <2>1
    <2>. QED
      BY <2>2, <2>3, <2>4
  <1>2. IsFiniteSet(m \cup p \cup u)
    <2>1. IsFiniteSet(u)
      BY DEF Whole
    <2>. HIDE DEF m, p, u
    <2>. QED
      BY <1>1, <2>1, FS_Union
  <1>3. /\ Cardinality(m \cup p) <= Cardinality(m \cup p \cup u)
        /\ Cardinality(u) <= Cardinality(m \cup p \cup u)
    <2>. HIDE DEF m, p, u
    <2>. QED
      BY <1>2, FS_Subset
  <1>4. /\ Diagnostic!Counts(e).forecast = Cardinality(m \cup p \cup u)
        /\ Diagnostic!Counts(e).matched = Cardinality(m \cup p)
        /\ Diagnostic!Counts(e).matured = Cardinality(m)
        /\ Diagnostic!Counts(e).pending = Cardinality(p)
        /\ Diagnostic!Counts(e).unmatched = Cardinality(u)
    BY SameCounts DEF Diagnostic!Counts
  <1>5. /\ Cardinality(m \cup p) \in Nat
    BY <1>1, FS_CardinalityType
  <1>. QED
    BY <1>1, <1>3, <1>4, <1>5 DEF Diagnostic!ValidCounts

LEMMA SoundIsReadable ==
  ASSUME NEW r, Sound(r)
  PROVE  Diagnostic!ValidSummary(Diagnostic!Summary(r))
  <1>1. r.h \in 2 .. Official - 1
    BY DiagnosticConstants DEF Sound, Diagnostic!DiagnosticAssumption
  <1>. QED
    BY <1>1, WholeCountsAreValid DEF Sound, Diagnostic!ValidSummary, Diagnostic!Summary

\* A history that was written: summaries of sound reports, which its verifier accepts.
Kept(h) ==
  /\ h.min \in Nat /\ Diagnostic!Verifies(h)
  /\ h.reports \in Seq({Diagnostic!Summary(r) : r \in {q \in reports : Sound(q)}}) /\ h.reports # <<>>

Attests(record) == Kept(record.history) /\ Diagnostic!ReviewVerifies(record)

DInv ==
  /\ registry \in SUBSET Forecasts /\ IsFiniteSet(registry)
  /\ IsFiniteSet(reports) /\ \A r \in reports : Sound(r)
  /\ history # Diagnostic!Missing => Kept(history)
  /\ reviewer = [w \in Reviewers |-> reviewer[w]]
  /\ \A w \in Reviewers : reviewer[w].pc = "write" => Attests(reviewer[w].review)
  /\ attested # Diagnostic!Missing => Attests(attested)

\* Reports stay, so what was kept of them stays kept.
LEMMA KeptStays ==
  ASSUME reports \subseteq reports', NEW h, Kept(h)
  PROVE  Kept(h)'
  <1>. DEFINE S == {Diagnostic!Summary(r) : r \in {q \in reports : Sound(q)}}
              T == {Diagnostic!Summary(r) : r \in {q \in reports' : Sound(q)}}
  <1>1. S \subseteq T
    OBVIOUS
  <1>2. h.reports \in Seq(S)
    BY DEF Kept
  <1>3. h.reports \in Seq(T)
    <2>. HIDE DEF S, T
    <2>. QED
      BY <1>1, <1>2
  <1>. QED
    BY <1>3 DEF Kept

LEMMA DInvInit == Diagnostic!Init => DInv
  BY FS_EmptySet DEF Diagnostic!Init, DInv

LEMMA CollectedIsKept ==
  ASSUME DInv, NEW set \in SUBSET reports, set # {}, NEW min \in Minima,
         NEW listed \in Diagnostic!SetToSeqs(set), Diagnostic!Collect(listed, min),
         NEW h, h = history'
  PROVE  Kept(h)
  <1>. DEFINE S == {Diagnostic!Summary(r) : r \in {q \in reports : Sound(q)}}
              summaries == [i \in DOMAIN listed |-> Diagnostic!Summary(listed[i])]
  <1>1. h = Diagnostic!BuildHistory(summaries, min) /\ Diagnostic!Verifies(h)
    BY DEF Diagnostic!Collect
  <1>2. h.min = min /\ h.reports = summaries /\ min \in Nat
    BY <1>1, DiagnosticConstants DEF Diagnostic!BuildHistory, Diagnostic!DiagnosticAssumption
  <1>3. IsFiniteSet(set) /\ Cardinality(set) \in Nat /\ Cardinality(set) > 0
    <2>1. IsFiniteSet(set)
      BY FS_Subset DEF DInv
    <2>. QED
      BY <2>1, FS_CardinalityType, FS_EmptySet
  <1>4. listed \in [1 .. Cardinality(set) -> set]
    BY SameCounts DEF Diagnostic!SetToSeqs
  <1>5. summaries \in [1 .. Cardinality(set) -> S]
    BY <1>4 DEF DInv
  <1>6. summaries \in Seq(S) /\ summaries # <<>>
    <2>. HIDE DEF summaries, S
    <2>. QED
      BY <1>3, <1>5
  <1>. QED
    BY <1>1, <1>2, <1>6 DEF Kept

LEMMA AttestsStays ==
  ASSUME reports \subseteq reports', NEW record, Attests(record)
  PROVE  Attests(record)'
  BY KeptStays DEF Attests

LEMMA DInvStep == DInv /\ [Diagnostic!Next]_(Diagnostic!vars) => DInv'
  <1>. SUFFICES ASSUME DInv, [Diagnostic!Next]_(Diagnostic!vars) PROVE DInv'
    OBVIOUS
  <1>1. CASE UNCHANGED Diagnostic!vars
    BY <1>1 DEF Diagnostic!vars, DInv, Kept, Attests
  <1>2. CASE Diagnostic!Tick
    BY <1>2 DEF Diagnostic!Tick, DInv, Kept, Attests
  <1>3. ASSUME NEW f \in Forecasts, Diagnostic!Record(f)
        PROVE  DInv'
    <2>1. registry' \in SUBSET Forecasts /\ IsFiniteSet(registry')
      BY <1>3, FS_AddElement DEF Diagnostic!Record, DInv
    <2>. QED
      BY <1>3, <2>1 DEF Diagnostic!Record, DInv, Kept, Attests
  <1>4. ASSUME NEW data \in Returns, NEW asOf \in 0 .. MaxDay, NEW h \in Horizons,
               Diagnostic!Diagnose(data, asOf, h)
        PROVE  DInv'
    <2>1. UNCHANGED <<registry, history, reviewer, attested>>
          /\ reports' = reports \cup {Diagnostic!Report(data, registry, asOf, h)}
      BY <1>4 DEF Diagnostic!Diagnose
    <2>2. Sound(Diagnostic!Report(data, registry, asOf, h))
      BY ReportIsSound DEF DInv
    <2>3. IsFiniteSet(reports') /\ \A r \in reports' : Sound(r)
      BY <2>1, <2>2, FS_AddElement DEF DInv
    <2>4. history' # Diagnostic!Missing => Kept(history)'
      BY <2>1, KeptStays DEF DInv
    <2>5. \A w \in Reviewers : reviewer'[w].pc = "write" => Attests(reviewer[w].review)'
      BY <2>1, AttestsStays DEF DInv
    <2>6. attested' # Diagnostic!Missing => Attests(attested)'
      BY <2>1, AttestsStays DEF DInv
    <2>. QED
      BY <2>1, <2>3, <2>4, <2>5, <2>6 DEF DInv
  <1>5. ASSUME NEW set \in SUBSET reports, set # {}, NEW min \in Minima,
               NEW listed \in Diagnostic!SetToSeqs(set), Diagnostic!Collect(listed, min)
        PROVE  DInv'
    <2>1. UNCHANGED <<registry, reports, reviewer, attested>>
      BY <1>5 DEF Diagnostic!Collect
    <2>2. \A h : h = history' => Kept(h)
      BY <1>5, CollectedIsKept
    <2>. QED
      BY <2>1, <2>2 DEF DInv, Kept, Attests
  <1>6. ASSUME NEW w \in Reviewers, Diagnostic!Write(w)
        PROVE  DInv'
    <2>1. UNCHANGED <<registry, reports, history>>
      BY <1>6 DEF Diagnostic!Write
    <2>2. /\ reviewer' = [v \in Reviewers |-> reviewer'[v]] /\ reviewer'[w].pc = "idle"
          /\ \A v \in Reviewers : v # w => reviewer'[v] = reviewer[v]
      BY <1>6 DEF Diagnostic!Write, DInv
    <2>3. attested' # Diagnostic!Missing => Attests(attested)'
      <3>1. CASE attested = Diagnostic!Missing
        <4>1. attested' = reviewer[w].review /\ Attests(reviewer[w].review)
          BY <1>6, <3>1 DEF Diagnostic!Write, DInv
        <4>. QED
          BY <2>1, <4>1 DEF Attests, Kept
      <3>2. CASE attested # Diagnostic!Missing
        <4>1. attested' = attested /\ Attests(attested)
          BY <1>6, <3>2 DEF Diagnostic!Write, DInv
        <4>. QED
          BY <2>1, <4>1 DEF Attests, Kept
      <3>. QED
        BY <3>1, <3>2
    <2>4. \A v \in Reviewers : reviewer'[v].pc = "write" => Attests(reviewer[v].review)'
      BY <2>1, <2>2 DEF DInv, Kept, Attests
    <2>. QED
      BY <2>1, <2>2, <2>3, <2>4 DEF DInv, Kept
  <1>7. ASSUME NEW w \in Reviewers, NEW decision, Diagnostic!Review(w, decision)
        PROVE  DInv'
    <2>1. UNCHANGED <<registry, reports, history, attested>>
      BY <1>7 DEF Diagnostic!Review
    <2>2. PICK record :
            /\ record.history = history /\ Diagnostic!ReviewVerifies(record)
            /\ reviewer' = [reviewer EXCEPT ![w] = [pc |-> "write", review |-> record]]
      BY <1>7 DEF Diagnostic!Review
    <2>3. Attests(record)
      BY <1>7, <2>2 DEF Diagnostic!Review, DInv, Attests
    <2>4. /\ reviewer' = [v \in Reviewers |-> reviewer'[v]] /\ reviewer'[w].review = record
          /\ \A v \in Reviewers : v # w => reviewer'[v] = reviewer[v]
      BY <2>2 DEF DInv
    <2>. QED
      BY <2>1, <2>3, <2>4 DEF DInv, Kept, Attests
  <1>8. CASE Diagnostic!Next
    BY <1>2, <1>3, <1>4, <1>5, <1>6, <1>7, <1>8 DEF Diagnostic!Next
  <1>. QED
    BY <1>1, <1>8

\* The verifier's order makes the moments of a history as many as its reports.
LEMMA MomentsDiffer ==
  ASSUME NEW S, NEW rs \in Seq(S), \A r \in S : r.asOf \in Int, Diagnostic!ValidSequence(rs)
  PROVE  Cardinality({r.asOf : r \in Diagnostic!Range(rs)}) = Len(rs)
  <1>. DEFINE n == Len(rs)
              T == {r.asOf : r \in Diagnostic!Range(rs)}
              f == [i \in 1 .. n |-> rs[i].asOf]
  <1>1. n \in Nat /\ DOMAIN rs = 1 .. n /\ \A i \in 1 .. n : rs[i] \in S
    OBVIOUS
  <1>2. f \in Surjection(1 .. n, T)
    BY <1>1 DEF Surjection, Diagnostic!Range
  <1>3. \A i, j \in 1 .. n : i < j => rs[i].asOf < rs[j].asOf
    BY <1>1 DEF Diagnostic!ValidSequence
  <1>4. \A i, j \in 1 .. n : f[i] = f[j] => i = j
    BY <1>1, <1>3
  <1>5. f \in Injection(1 .. n, T)
    BY <1>2, <1>4 DEF Injection, Surjection, IsInjective
  <1>6. IsFiniteSet(1 .. n) /\ Cardinality(1 .. n) = n
    BY <1>1, FS_Interval
  <1>. HIDE DEF f, T, n
  <1>7. Cardinality(T) = n
    BY <1>2, <1>5, <1>6, FS_Surjection
  <1>. QED
    BY <1>7 DEF T, n

LEMMA KeptIsEvidence ==
  ASSUME DInv, NEW h, Kept(h), h.status = "ready", NEW rs, rs = Diagnostic!Range(h.reports)
  PROVE  /\ Cardinality({r.asOf : r \in rs}) >= h.min
         /\ Cardinality({r.h : r \in rs}) = 1
         /\ \A r \in rs : \E f \in r.source.all.matured : f.entry + r.h - 1 <= r.asOf
  <1>. DEFINE S == {Diagnostic!Summary(r) : r \in {q \in reports : Sound(q)}}
              n == Len(h.reports)
  <1>1. /\ h.reports \in Seq(S) /\ n \in Nat /\ n > 0 /\ DOMAIN h.reports = 1 .. n
        /\ \A i \in 1 .. n : h.reports[i] \in S
    <2>1. h.reports \in Seq(S) /\ h.reports # <<>>
      BY DEF Kept
    <2>. HIDE DEF S
    <2>. QED
      BY <2>1
  <1>2. \A s \in S : /\ Sound(s.source) /\ s.asOf = s.source.asOf /\ s.h = s.source.h
                     /\ s.status = s.source.all.status
    BY DEF Diagnostic!Summary
  <1>3. /\ Diagnostic!ValidSequence(h.reports) /\ h.status = Diagnostic!HistoryStatus(h.reports, h.min)
        /\ \A i \in 1 .. n : h.reports[i].h = h.reports[1].h
    BY <1>1 DEF Kept, Diagnostic!Verifies, Diagnostic!ValidObservation
  <1>4. n >= h.min /\ \A i \in 1 .. n : h.reports[i].status = "ready"
    BY <1>1, <1>3 DEF Diagnostic!HistoryStatus, Kept
  <1>5. Cardinality({r.asOf : r \in rs}) = n
    <2>1. \A s \in S : s.asOf \in Int
      BY <1>2 DEF Sound
    <2>. HIDE DEF S
    <2>. QED
      BY <1>1, <1>3, <2>1, MomentsDiffer
  <1>6. {r.h : r \in rs} = {h.reports[1].h}
    BY <1>1, <1>3 DEF Diagnostic!Range
  <1>7. ASSUME NEW r \in rs
        PROVE  \E f \in r.source.all.matured : f.entry + r.h - 1 <= r.asOf
    <2>1. r \in S /\ r.status = "ready"
      BY <1>1, <1>4 DEF Diagnostic!Range
    <2>. HIDE DEF S
    <2>. QED
      BY <1>2, <2>1 DEF Sound
  <1>8. Cardinality({h.reports[1].h}) = 1
    BY FS_Singleton
  <1>. QED
    BY <1>4, <1>5, <1>6, <1>7, <1>8

\* For every number of reports, reviewers and forecasts: a review that
\* forward_diagnostic_history_review recorded as acknowledged is of at least the asked
\* number of reports, of one horizon and of different moments, each of which evaluated a
\* forecast whose horizon had passed; no report loses a forecast of its own or of its
\* first-per-event evaluation; and the strict reader accepts every report that was written.
THEOREM AcknowledgedEvidence == Diagnostic!Spec => []AcknowledgedIsEvidence
  <1>1. ASSUME DInv PROVE AcknowledgedIsEvidence
    <2>1. Diagnostic!AcknowledgedIsEvidence
      <3>. SUFFICES ASSUME attested # Diagnostic!Missing, attested.status = "acknowledged"
                    PROVE  LET rs == Diagnostic!Range(attested.history.reports)
                           IN  /\ Cardinality({r.asOf : r \in rs}) >= attested.history.min
                               /\ Cardinality({r.h : r \in rs}) = 1
                               /\ \A r \in rs : \E f \in r.source.all.matured :
                                                  f.entry + r.h - 1 <= r.asOf
        BY SameCounts DEF Diagnostic!AcknowledgedIsEvidence
      <3>1. Kept(attested.history) /\ attested.history.status = "ready"
        BY <1>1 DEF DInv, Attests, Diagnostic!ReviewVerifies
      <3>. QED
        BY <1>1, <3>1, KeptIsEvidence
    <2>2. Diagnostic!NoForecastLost
      BY <1>1 DEF DInv, Sound, Whole, Spoken, Diagnostic!NoForecastLost
    <2>3. Diagnostic!WrittenIsReadable
      BY <1>1, SoundIsReadable DEF DInv, Diagnostic!WrittenIsReadable
    <2>. QED
      BY <2>1, <2>2, <2>3 DEF AcknowledgedIsEvidence
  <1>. QED
    BY <1>1, DInvInit, DInvStep, PTL DEF Diagnostic!Spec

\* _first_event_forecasts picks the earliest forecast of an event, so a forecast that the
\* registry gets later, in whatever order, speaks for an event only if it is earlier.
THEOREM FirstForecastKept == Diagnostic!Spec => FirstForecastStays
  <1>. DEFINE Stays ==
         \A f \in Diagnostic!FirstPerEvent(registry), g \in Diagnostic!FirstPerEvent(registry') :
           (f.event = g.event /\ f.model = g.model) => g = f \/ g.asOf <= f.asOf
  <1>1. DInv /\ DInv' /\ [Diagnostic!Next]_(Diagnostic!vars) => [Stays]_registry
    <2>. SUFFICES ASSUME DInv, DInv', [Diagnostic!Next]_(Diagnostic!vars), registry' # registry
                  PROVE  Stays
      OBVIOUS
    <2>1. registry \subseteq registry'
      BY DEF Diagnostic!Next, Diagnostic!vars, Diagnostic!Tick, Diagnostic!Record,
             Diagnostic!Diagnose, Diagnostic!Collect, Diagnostic!Write, Diagnostic!Review
    <2>2. \A f \in registry' : f.asOf \in Int
      BY DiagnosticConstants DEF Diagnostic!DiagnosticAssumption, DInv
    <2>. QED
      BY <2>1, <2>2 DEF Diagnostic!FirstPerEvent
  <1>2. Diagnostic!Spec => []DInv
    BY DInvInit, DInvStep, PTL DEF Diagnostic!Spec
  <1>. QED
    BY <1>1, <1>2, PTL DEF Diagnostic!Spec, FirstForecastStays, Diagnostic!FirstForecastStays

-----------------------------------------------------------------------------
(* Datasets: what was built from a checkpoint is what a later checkpoint gives     *)

LEMMA DatasetConstants ==
  /\ MonthLength \in Nat \ {0} /\ Horizon \in Nat \ {0} /\ Days \in Nat \ {0}
  BY ResearchAssumption DEF Dataset!DatasetAssumption

LEMMA SameExtremes ==
  ASSUME NEW S \in SUBSET Int, IsFiniteSet(S), S # {}
  PROVE  /\ Dataset!Max(S) \in S /\ \A y \in S : Dataset!Max(S) >= y
         /\ Dataset!Min(S) \in S /\ \A y \in S : Dataset!Min(S) <= y
  BY GreatestExists, LeastExists DEF Dataset!Max, Dataset!Min

Published ==
  /\ time \in Nat \ {0} /\ time <= 2 * Days
  /\ bars = [s \in Symbols |-> bars[s]]
  /\ \A s \in Symbols : Len(bars[s]) = time \div 2 /\ bars[s] = [d \in 1 .. time \div 2 |-> bars[s][d]]
  /\ Len(filings) \in Nat /\ filings = [i \in 1 .. Len(filings) |-> filings[i]]
  /\ \A i \in 1 .. Len(filings) :
       filings[i].symbol \in Symbols /\ filings[i].at \in Nat /\ filings[i].at <= time
  /\ Len(releases) \in Nat /\ releases = [i \in 1 .. Len(releases) |-> releases[i]]
  /\ \A i \in 1 .. Len(releases) : releases[i] \in Nat

\* A dataset has the rows that it would have if it were built again now.
Lasting(d, i) ==
  LET f == filings[i]
      e == d.events[i]
  IN  /\ e.market = [n \in 1 .. Dataset!MarketRow(f.at) |-> bars[f.symbol][n]]
      /\ e.fundamental = Dataset!Fundamental(f.symbol, f.at, f.end)
      /\ e.regime = Dataset!Regime(f.at)
      /\ e.target # None => e.target = Dataset!Target(f.at)
      /\ e.previous = Dataset!Previous(i, DOMAIN d.events)

Faithful(d) ==
  /\ d.at \in Nat /\ d.at <= time /\ <<d.at, d.ok>> \in taken
  /\ d.ok \subseteq DOMAIN filings /\ DOMAIN d.events \subseteq d.ok
  /\ \A i \in d.ok : filings[i].at <= d.at
  /\ \A i \in DOMAIN d.events : Lasting(d, i)
  /\ \A i \in d.ok :
       Dataset!Settled(d, i) => (i \in DOMAIN d.events <=> Dataset!Reaches(i))

BInv == Published /\ \A d \in datasets : Faithful(d)

LEMMA BInvInit == Dataset!Init => BInv
  BY DatasetConstants DEF Dataset!Init, BInv, Published

LEMMA RowsAreSessions ==
  ASSUME Published, NEW c \in Int
  PROVE  Dataset!MarketRow(c) \in 0 .. time \div 2
  <1>. DEFINE S == {0} \cup {d \in 1 .. (time \div 2) : Dataset!ClosedBy(d) <= c}
  <1>1. time \div 2 \in Nat
    BY DEF Published
  <1>2. S \subseteq 0 .. time \div 2 /\ S # {}
    BY <1>1
  <1>3. IsFiniteSet(0 .. time \div 2)
    BY <1>1, FS_Interval
  <1>4. S \in SUBSET Int /\ IsFiniteSet(S)
    BY <1>1, <1>2, <1>3, FS_Subset
  <1>5. Dataset!Max(S) \in S
    <2>. HIDE DEF S
    <2>. QED
      BY <1>2, <1>4, SameExtremes
  <1>. QED
    BY <1>2, <1>5 DEF Dataset!MarketRow

LEMMA EntryIsSession ==
  ASSUME Published, NEW c \in Nat, c <= time
  PROVE  Dataset!Entry(c) \in 1 .. Days + 1
  <1>. DEFINE S == {d \in 1 .. (Days + 1) : 2 * d - 1 > c}
  <1>1. Days + 1 \in S /\ Days + 1 \in Nat
    BY DatasetConstants DEF Published
  <1>2. S \in SUBSET Int /\ S # {} /\ IsFiniteSet(S)
    <2>1. IsFiniteSet(1 .. Days + 1)
      BY <1>1, FS_Interval
    <2>2. S \subseteq 1 .. Days + 1
      OBVIOUS
    <2>. QED
      BY <1>1, <2>1, <2>2, FS_Subset
  <1>3. Dataset!Min(S) \in S
    <2>. HIDE DEF S
    <2>. QED
      BY <1>2, SameExtremes
  <1>. QED
    BY <1>3 DEF Dataset!Entry

\* The calendar moves on: bars are added behind those that a dataset may read.
LEMMA AdvancePublishes ==
  ASSUME Published, Dataset!Advance
  PROVE  /\ Published' /\ time' = time + 1
         /\ \A s \in Symbols : \A d \in 1 .. time \div 2 : bars'[s][d] = bars[s][d]
  <1>1. /\ time' = time + 1 /\ time < 2 * Days /\ UNCHANGED <<filings, releases>>
        /\ time \in Nat \ {0} /\ time \div 2 \in Nat
    BY DEF Dataset!Advance, Published
  <1>2. /\ time' \in Nat \ {0} /\ time' <= 2 * Days
    BY <1>1, DatasetConstants
  <1>3. CASE time' % 2 = 0
    <2>1. PICK level : bars' = [s \in Symbols |-> Append(bars[s], level[s])]
      BY <1>3 DEF Dataset!Advance
    <2>2. time' \div 2 = time \div 2 + 1
      BY <1>1, <1>3
    <2>3. ASSUME NEW s \in Symbols
          PROVE  /\ Len(bars'[s]) = time' \div 2
                 /\ bars'[s] = [d \in 1 .. time' \div 2 |-> bars'[s][d]]
                 /\ \A d \in 1 .. time \div 2 : bars'[s][d] = bars[s][d]
      <3>. DEFINE n == time \div 2
                  b == bars[s]
      <3>1. n \in Nat /\ Len(b) = n /\ b = [d \in 1 .. n |-> b[d]]
        BY <1>1 DEF Published
      <3>2. bars'[s] = Append(b, level[s])
        BY <2>1
      <3>. HIDE DEF n, b
      <3>3. b \in Seq({b[d] : d \in 1 .. n} \cup {level[s]})
        BY <3>1
      <3>4. /\ Len(Append(b, level[s])) = n + 1
            /\ Append(b, level[s]) = [d \in 1 .. n + 1 |-> Append(b, level[s])[d]]
            /\ \A d \in 1 .. n : Append(b, level[s])[d] = b[d]
        BY <3>1, <3>3
      <3>. QED
        BY <2>2, <3>2, <3>4 DEF n, b
    <2>4. bars' = [s \in Symbols |-> bars'[s]]
      BY <2>1
    <2>. QED
      BY <1>1, <1>2, <2>3, <2>4 DEF Published
  <1>4. CASE time' % 2 # 0
    <2>1. bars' = bars
      BY <1>4 DEF Dataset!Advance
    <2>2. time' \div 2 = time \div 2
      BY <1>1, <1>4
    <2>. QED
      BY <1>1, <1>2, <2>1, <2>2 DEF Published
  <1>. QED
    BY <1>3, <1>4

LEMMA RowStays ==
  ASSUME Published, Dataset!Advance, NEW c \in Nat, c <= time
  PROVE  Dataset!MarketRow(c)' = Dataset!MarketRow(c)
  <1>1. time' = time + 1 /\ time \in Nat
    BY AdvancePublishes DEF Published
  <1>2. {d \in 1 .. (time' \div 2) : Dataset!ClosedBy(d) <= c}
          = {d \in 1 .. (time \div 2) : Dataset!ClosedBy(d) <= c}
    BY <1>1 DEF Dataset!ClosedBy
  <1>. QED
    BY <1>2 DEF Dataset!MarketRow

LEMMA HistoryStays ==
  ASSUME Published, Dataset!Advance, NEW c \in Nat, c <= time, NEW s \in Symbols
  PROVE  [n \in 1 .. Dataset!MarketRow(c) |-> bars'[s][n]]
           = [n \in 1 .. Dataset!MarketRow(c) |-> bars[s][n]]
  <1>1. Dataset!MarketRow(c) \in 0 .. time \div 2 /\ time \div 2 \in Nat
    BY RowsAreSessions DEF Published
  <1>. QED
    BY <1>1, AdvancePublishes

LEMMA LabelStays ==
  ASSUME Published, Dataset!Advance, NEW c \in Nat, c <= time
  PROVE  Dataset!Target(c) # None => Dataset!Target(c)' = Dataset!Target(c)
  <1>1. Dataset!Entry(c) \in Int /\ Dataset!Exit(c) \in Int
    BY EntryIsSession, DatasetConstants DEF Dataset!Exit
  <1>2. time' = time + 1 /\ time \in Nat
    BY AdvancePublishes DEF Published
  <1>3. Dataset!Exit(c) <= time \div 2 => Dataset!Exit(c) <= time' \div 2
    BY <1>1, <1>2
  <1>4. Dataset!Exit(c)' = Dataset!Exit(c) /\ Dataset!Entry(c)' = Dataset!Entry(c)
    BY DEF Dataset!Exit, Dataset!Entry
  <1>. HIDE DEF Dataset!Exit, Dataset!Entry
  <1>. QED
    BY <1>1, <1>2, <1>3, <1>4 DEF Dataset!Target

LEMMA MonthEnds ==
  ASSUME NEW d \in Nat \ {0}, NEW m \in Int, Dataset!Month(d) = m
  PROVE  d <= MonthLength * (m + 1)
  <1>1. MonthLength \in Nat /\ MonthLength > 0 /\ d - 1 \in Nat
    BY DatasetConstants
  <1>2. d - 1 < MonthLength * ((d - 1) \div MonthLength) + MonthLength
    BY <1>1
  <1>3. d - 1 < MonthLength * m + MonthLength
    BY <1>2 DEF Dataset!Month
  <1>4. MonthLength * m + MonthLength = MonthLength * (m + 1) /\ MonthLength * (m + 1) \in Int
    BY <1>1
  <1>. QED
    BY <1>1, <1>3, <1>4

LEMMA UniverseStays ==
  ASSUME Published, Dataset!Advance, NEW s \in Symbols, NEW m \in Int,
         2 * (MonthLength * (m + 1)) <= time
  PROVE  Dataset!Member(s, m)' <=> Dataset!Member(s, m)
  <1>. DEFINE R == Dataset!SessionsOf(m)
              n == time \div 2
  <1>1. time' = time + 1 /\ time \in Nat /\ n \in Nat /\ MonthLength * (m + 1) \in Int
    BY SMTT(20), AdvancePublishes, DatasetConstants DEF Published
  <1>2. \A d \in 1 .. (time' \div 2) : Dataset!Month(d) = m => d \in 1 .. n
    <2>. SUFFICES ASSUME NEW d \in 1 .. (time' \div 2), Dataset!Month(d) = m PROVE d <= n
      BY <1>1
    <2>1. d \in Nat \ {0} /\ d <= MonthLength * (m + 1)
      BY <1>1, MonthEnds
    <2>. QED
      BY <1>1, <2>1
  <1>3. R' = R
    BY <1>1, <1>2 DEF Dataset!SessionsOf
  <1>4. R \subseteq 1 .. n
    BY DEF Dataset!SessionsOf
  <1>5. CASE R = {}
    BY <1>3, <1>5 DEF Dataset!Member
  <1>6. CASE R # {}
    <2>. DEFINE last == Dataset!Max(R)
    <2>1. last \in 1 .. n
      <3>. HIDE DEF R, n
      <3>1. R \in SUBSET Int /\ IsFiniteSet(R)
        <4>1. IsFiniteSet(1 .. n)
          BY <1>1, FS_Interval
        <4>2. 1 .. n \subseteq Int
          OBVIOUS
        <4>. QED
          BY <1>4, <4>1, <4>2, FS_Subset
      <3>. QED
        BY <1>4, <1>6, <3>1, SameExtremes
    <2>2. \A q \in Symbols : bars'[q][last] = bars[q][last]
      BY <2>1, AdvancePublishes
    <2>3. last' = last
      BY <1>3
    <2>4. {q \in Symbols : bars'[q][last] > bars'[s][last]}
            = {q \in Symbols : bars[q][last] > bars[s][last]}
      BY <2>2
    <2>5. Dataset!Ranked(s, m)' = Dataset!Ranked(s, m)
      BY <2>3, <2>4 DEF Dataset!Ranked
    <2>. QED
      BY <1>3, <2>3, <2>5 DEF Dataset!Member
  <1>. QED
    BY <1>5, <1>6

\* Once the selection month has ended, whether a filing reaches the matrix is settled.
LEMMA ReachStays ==
  ASSUME BInv, Dataset!Advance, NEW d \in datasets, NEW i \in d.ok, Dataset!Settled(d, i)
  PROVE  Dataset!Reaches(i)' <=> Dataset!Reaches(i)
  <1>1. PICK s \in Symbols, c \in Nat : filings[i].symbol = s /\ filings[i].at = c
    BY DEF BInv, Faithful, Published
  <1>2. /\ UNCHANGED filings /\ d.at \in Nat /\ c <= d.at /\ d.at <= time
        /\ c <= time /\ time \in Nat
    BY <1>1 DEF BInv, Faithful, Published, Dataset!Advance
  <1>3. PICK e \in 1 .. Days + 1 : e = Dataset!Entry(c)
    BY <1>2, EntryIsSession DEF BInv
  <1>4. PICK m \in Int : Dataset!Month(e) = m + 1
    <2>1. Dataset!Month(e) \in Int
      BY <1>3, DatasetConstants DEF Dataset!Month
    <2>2. Dataset!Month(e) = (Dataset!Month(e) - 1) + 1
      BY <2>1
    <2>. QED
      BY <2>1, <2>2
  <1>5. 2 * (MonthLength * (m + 1)) <= time
    <2>1. 2 * MonthLength * (m + 1) <= d.at
      BY <1>1, <1>3, <1>4 DEF Dataset!Settled
    <2>2. 2 * MonthLength * (m + 1) = 2 * (MonthLength * (m + 1))
          /\ MonthLength * (m + 1) \in Int
      BY <1>4, DatasetConstants
    <2>. QED
      BY <1>2, <2>1, <2>2
  <1>6. Dataset!Member(s, m)' <=> Dataset!Member(s, m)
    BY <1>5, UniverseStays DEF BInv
  <1>7. Dataset!MarketRow(c)' = Dataset!MarketRow(c)
    BY <1>2, RowStays DEF BInv
  <1>8. Dataset!Reaches(i) <=> e <= Days /\ Dataset!Member(s, m) /\ Dataset!MarketRow(c) # 0
    BY <1>1, <1>3, <1>4 DEF Dataset!Reaches
  <1>9. Dataset!Reaches(i)' <=> e <= Days /\ Dataset!Member(s, m)' /\ (Dataset!MarketRow(c) # 0)'
    BY <1>1, <1>2, <1>3, <1>4 DEF Dataset!Reaches
  <1>. QED
    BY <1>6, <1>7, <1>8, <1>9

\* What the prices say depends on the bars and the clock alone; what the facts, the
\* macro series and the order of reports say, on what was filed and released.
LEMMA PricesStay ==
  ASSUME UNCHANGED <<time, bars>>
  PROVE  /\ \A c : Dataset!MarketRow(c)' = Dataset!MarketRow(c)
         /\ \A c : Dataset!Target(c)' = Dataset!Target(c)
         /\ \A s, m : Dataset!Member(s, m)' <=> Dataset!Member(s, m)
  <1>1. \A m : Dataset!SessionsOf(m)' = Dataset!SessionsOf(m)
    BY DEF Dataset!SessionsOf
  <1>2. \A s, m : Dataset!Ranked(s, m)' = Dataset!Ranked(s, m)
    BY <1>1 DEF Dataset!Ranked
  <1>. QED
    BY <1>1, <1>2 DEF Dataset!MarketRow, Dataset!Target, Dataset!Exit, Dataset!Entry, Dataset!Member

LEMMA FactsStay ==
  ASSUME UNCHANGED filings
  PROVE  /\ \A s, c, p : Dataset!Fundamental(s, c, p)' = Dataset!Fundamental(s, c, p)
         /\ \A i, D : Dataset!Previous(i, D)' = Dataset!Previous(i, D)
  <1>1. \A s, c, p : Dataset!Eligible(s, c, p)' = Dataset!Eligible(s, c, p)
    BY DEF Dataset!Eligible
  <1>2. \A facts : Dataset!Newest(facts)' = Dataset!Newest(facts)
    BY DEF Dataset!Newest, Dataset!Outranks
  <1>. QED
    BY <1>1, <1>2 DEF Dataset!Fundamental, Dataset!Previous

LEMMA ReleasesStay ==
  ASSUME UNCHANGED releases
  PROVE  \A c : Dataset!Regime(c)' = Dataset!Regime(c)
  BY DEF Dataset!Regime

LEMMA AdvanceKeeps ==
  ASSUME BInv, Dataset!Advance
  PROVE  BInv'
  <1>1. Published' /\ time' = time + 1 /\ UNCHANGED <<filings, releases, datasets, taken>>
    BY AdvancePublishes DEF BInv, Dataset!Advance
  <1>2. ASSUME NEW d \in datasets
        PROVE  Faithful(d)'
    <2>1. Faithful(d) /\ Published
      BY DEF BInv
    <2>2. ASSUME NEW i \in DOMAIN d.events
          PROVE  Lasting(d, i)'
      <3>1. i \in d.ok /\ i \in 1 .. Len(filings)
        BY <2>1 DEF Faithful, Published
      <3>2. PICK s \in Symbols, c \in Nat, p \in {filings[i].end} :
              filings[i].symbol = s /\ filings[i].at = c /\ filings[i].end = p
        BY <2>1, <3>1 DEF Published
      <3>3. c <= time
        BY <2>1, <3>1, <3>2 DEF Published
      <3>4. Lasting(d, i)
        BY <2>1 DEF Faithful
      <3>5. d.events[i].market = [n \in 1 .. Dataset!MarketRow(c)' |-> bars'[s][n]]
        BY <2>1, <3>2, <3>3, <3>4, RowStays, HistoryStays DEF Lasting
      <3>6. d.events[i].target # None => d.events[i].target = Dataset!Target(c)'
        BY <2>1, <3>2, <3>3, <3>4, LabelStays DEF Lasting
      <3>7. /\ d.events[i].fundamental = Dataset!Fundamental(s, c, p)'
            /\ d.events[i].regime = Dataset!Regime(c)'
            /\ d.events[i].previous = Dataset!Previous(i, DOMAIN d.events)'
        BY <1>1, <3>2, <3>4, FactsStay, ReleasesStay DEF Lasting
      <3>. QED
        BY <1>1, <3>2, <3>5, <3>6, <3>7 DEF Lasting
    <2>3. ASSUME NEW i \in d.ok, Dataset!Settled(d, i)'
          PROVE  (i \in DOMAIN d.events <=> Dataset!Reaches(i))'
      <3>1. Dataset!Settled(d, i)
        BY <1>1, <2>3 DEF Dataset!Settled, Dataset!Entry, Dataset!Month
      <3>. QED
        BY <2>1, <3>1, ReachStays DEF Faithful
    <2>4. time \in Nat /\ d.at \in Nat /\ d.at <= time
      BY <2>1 DEF Published, Faithful
    <2>. QED
      BY <1>1, <2>1, <2>2, <2>3, <2>4 DEF Faithful
  <1>. QED
    BY <1>1, <1>2 DEF BInv

\* A release is trusted from the midnight after it, which no dataset's filing is past.
LEMMA RegimeStays ==
  ASSUME Published, Dataset!Release, NEW c \in Nat, c < time
  PROVE  Dataset!Regime(c)' = Dataset!Regime(c)
  <1>1. releases' = Append(releases, time) /\ time \in Nat
    BY DEF Dataset!Release, Published
  <1>2. PICK n \in Nat : n = Len(releases) /\ releases = [i \in 1 .. n |-> releases[i]]
    BY DEF Published
  <1>3. releases \in Seq({releases[i] : i \in 1 .. n} \cup {time})
    BY <1>2
  <1>4. /\ DOMAIN releases' = 1 .. n + 1 /\ releases'[n + 1] = time
        /\ \A i \in 1 .. n : releases'[i] = releases[i]
    BY <1>1, <1>2, <1>3
  <1>5. Dataset!NextMidnight(time) > c
    BY <1>1 DEF Dataset!NextMidnight
  <1>6. Dataset!NextMidnight(time) \in Int
    BY <1>1 DEF Dataset!NextMidnight
  <1>7. {i \in DOMAIN releases' : Dataset!NextMidnight(releases'[i]) <= c}
          = {i \in DOMAIN releases : Dataset!NextMidnight(releases[i]) <= c}
    BY SMTT(20), <1>2, <1>4, <1>5, <1>6
  <1>. QED
    BY <1>7 DEF Dataset!Regime, Dataset!NextMidnight

LEMMA ReleaseKeeps ==
  ASSUME BInv, Dataset!Release
  PROVE  BInv'
  <1>1. UNCHANGED <<time, bars, filings, datasets, taken>> /\ releases' = Append(releases, time)
    BY DEF Dataset!Release
  <1>2. Published'
    <2>1. PICK n \in Nat : n = Len(releases) /\ releases = [i \in 1 .. n |-> releases[i]]
      BY DEF BInv, Published
    <2>2. releases \in Seq({releases[i] : i \in 1 .. n} \cup {time})
      BY <2>1
    <2>3. /\ Len(releases') = n + 1 /\ releases' = [i \in 1 .. n + 1 |-> releases'[i]]
          /\ releases'[n + 1] = time /\ \A i \in 1 .. n : releases'[i] = releases[i]
      BY <1>1, <2>1, <2>2
    <2>4. \A i \in 1 .. n + 1 : i = n + 1 \/ i \in 1 .. n
      BY <2>1
    <2>5. \A i \in 1 .. n + 1 : releases'[i] \in Nat
      BY <2>1, <2>3, <2>4 DEF BInv, Published
    <2>. QED
      BY <1>1, <2>3, <2>5 DEF BInv, Published
  <1>3. ASSUME NEW d \in datasets
        PROVE  Faithful(d)'
    <2>1. Faithful(d) /\ Published
      BY DEF BInv
    <2>2. d.at < time
      <3>1. <<d.at, d.ok>> \in taken
        BY <2>1 DEF Faithful
      <3>2. <<d.at, d.ok>>[1] < time
        BY <3>1 DEF Dataset!Release, Dataset!Unread
      <3>. QED
        BY <3>2
    <2>3. ASSUME NEW i \in DOMAIN d.events
          PROVE  Lasting(d, i)'
      <3>1. PICK s \in Symbols, c \in Nat, p \in {filings[i].end} :
              filings[i].symbol = s /\ filings[i].at = c /\ filings[i].end = p
        BY <2>1 DEF Published, Faithful
      <3>2. c < time
        BY <2>1, <2>2, <3>1 DEF Faithful, Published
      <3>3. Dataset!Regime(c)' = Dataset!Regime(c)
        BY <2>1, <3>2, RegimeStays
      <3>. QED
        BY <1>1, <2>1, <3>1, <3>3, PricesStay, FactsStay DEF Lasting, Faithful
    <2>4. \A i \in d.ok : (Dataset!Reaches(i)' <=> Dataset!Reaches(i))
                          /\ (Dataset!Settled(d, i)' <=> Dataset!Settled(d, i))
      BY <1>1, PricesStay DEF Dataset!Reaches, Dataset!Settled, Dataset!Entry, Dataset!Month
    <2>. QED
      BY <1>1, <2>1, <2>3, <2>4 DEF Faithful
  <1>. QED
    BY <1>1, <1>2, <1>3 DEF BInv

\* A filing that is accepted after a dataset was built has a later acceptance than all
\* that the dataset knows, and a place behind them.
LEMMA FilingAppends ==
  ASSUME Published, NEW s \in Symbols, NEW span, NEW age, Dataset!File(s, span, age)
  PROVE  \E n \in Nat :
           /\ n = Len(filings) /\ DOMAIN filings = 1 .. n
           /\ Len(filings') = n + 1 /\ filings' = [i \in 1 .. n + 1 |-> filings'[i]]
           /\ filings'[n + 1].symbol = s /\ filings'[n + 1].at = time
           /\ \A i \in 1 .. n : filings'[i] = filings[i]
  <1>1. PICK f : /\ filings' = Append(filings, f) /\ f.symbol = s /\ f.at = time
    BY DEF Dataset!File
  <1>2. PICK n \in Nat : n = Len(filings) /\ filings = [i \in 1 .. n |-> filings[i]]
    BY DEF Published
  <1>3. filings \in Seq({filings[i] : i \in 1 .. n} \cup {f})
    BY <1>2
  <1>. QED
    BY <1>1, <1>2, <1>3

LEMMA FileKeepsFacts ==
  ASSUME Published, NEW n \in Nat, n = Len(filings), DOMAIN filings = 1 .. n,
         filings' = [i \in 1 .. n + 1 |-> filings'[i]], filings'[n + 1].at = time,
         \A i \in 1 .. n : filings'[i] = filings[i]
  PROVE  /\ \A s, p : \A c \in Nat :
              c < time => Dataset!Fundamental(s, c, p)' = Dataset!Fundamental(s, c, p)
         /\ \A i \in 1 .. n : \A D \in SUBSET (1 .. n) :
              Dataset!Previous(i, D)' = Dataset!Previous(i, D)
  <1>1. DOMAIN filings' = 1 .. n + 1 /\ \A i \in 1 .. n + 1 : i = n + 1 \/ i \in 1 .. n
    OBVIOUS
  <1>2. ASSUME NEW s, NEW p, NEW c \in Nat, c < time
        PROVE  Dataset!Fundamental(s, c, p)' = Dataset!Fundamental(s, c, p)
    <2>1. time \in Nat /\ ~(time <= c)
      BY <1>2 DEF Published
    <2>2. Dataset!Eligible(s, c, p)' = Dataset!Eligible(s, c, p)
      BY <1>1, <2>1 DEF Dataset!Eligible
    <2>3. Dataset!Eligible(s, c, p) \subseteq 1 .. n
      BY DEF Dataset!Eligible
    <2>4. \A facts \in SUBSET (1 .. n) : Dataset!Newest(facts)' = Dataset!Newest(facts)
      BY DEF Dataset!Newest, Dataset!Outranks
    <2>5. Dataset!Newest(Dataset!Eligible(s, c, p))' = Dataset!Newest(Dataset!Eligible(s, c, p))
      BY <2>2, <2>3, <2>4
    <2>. QED
      BY <2>2, <2>5 DEF Dataset!Fundamental
  <1>3. ASSUME NEW i \in 1 .. n, NEW D \in SUBSET (1 .. n)
        PROVE  Dataset!Previous(i, D)' = Dataset!Previous(i, D)
    <2>1. {j \in D : j < i /\ filings'[j].symbol = filings'[i].symbol}
            = {j \in D : j < i /\ filings[j].symbol = filings[i].symbol}
      OBVIOUS
    <2>. QED
      BY <2>1 DEF Dataset!Previous
  <1>. QED
    BY <1>2, <1>3

LEMMA FileKeeps ==
  ASSUME BInv, NEW s \in Symbols, NEW span, NEW age, Dataset!File(s, span, age)
  PROVE  BInv'
  <1>1. UNCHANGED <<time, bars, releases, datasets, taken>>
    BY DEF Dataset!File
  <1>2. PICK n \in Nat :
          /\ n = Len(filings) /\ DOMAIN filings = 1 .. n
          /\ Len(filings') = n + 1 /\ filings' = [i \in 1 .. n + 1 |-> filings'[i]]
          /\ filings'[n + 1].symbol = s /\ filings'[n + 1].at = time
          /\ \A i \in 1 .. n : filings'[i] = filings[i]
    BY FilingAppends DEF BInv
  <1>3. \A i \in 1 .. n + 1 : i = n + 1 \/ i \in 1 .. n
    OBVIOUS
  <1>4. Published'
    BY <1>1, <1>2, <1>3 DEF BInv, Published
  <1>5. ASSUME NEW d \in datasets
        PROVE  Faithful(d)'
    <2>1. Faithful(d) /\ Published
      BY DEF BInv
    <2>2. d.at < time
      <3>1. <<d.at, d.ok>> \in taken
        BY <2>1 DEF Faithful
      <3>2. <<d.at, d.ok>>[1] < time
        BY <3>1 DEF Dataset!File, Dataset!Unread
      <3>. QED
        BY <3>2
    <2>3. d.ok \subseteq 1 .. n /\ DOMAIN d.events \subseteq 1 .. n
      BY <1>2, <2>1 DEF Faithful
    <2>4. ASSUME NEW i \in DOMAIN d.events
          PROVE  Lasting(d, i)'
      <3>1. PICK c \in Nat, q \in {filings[i].symbol}, p \in {filings[i].end} :
              filings[i].symbol = q /\ filings[i].at = c /\ filings[i].end = p
        BY <1>2, <2>1, <2>3 DEF Published
      <3>2. filings'[i] = filings[i]
        BY <1>2, <2>3
      <3>3. c < time
        BY <2>1, <2>2, <3>1 DEF Faithful, Published
      <3>4. /\ Dataset!Fundamental(q, c, p)' = Dataset!Fundamental(q, c, p)
            /\ Dataset!Previous(i, DOMAIN d.events)' = Dataset!Previous(i, DOMAIN d.events)
        BY <1>2, <2>1, <2>3, <3>3, FileKeepsFacts
      <3>5. Lasting(d, i)
        BY <2>1 DEF Faithful
      <3>. QED
        BY <1>1, <3>1, <3>2, <3>4, <3>5, PricesStay, ReleasesStay DEF Lasting
    <2>5. \A i \in d.ok : (Dataset!Reaches(i)' <=> Dataset!Reaches(i))
                          /\ (Dataset!Settled(d, i)' <=> Dataset!Settled(d, i))
      BY <1>1, <1>2, <2>3, PricesStay DEF Dataset!Reaches, Dataset!Settled, Dataset!Entry, Dataset!Month
    <2>6. DOMAIN filings' = 1 .. n + 1 /\ 1 .. n \subseteq 1 .. n + 1
      BY <1>2
    <2>. QED
      BY <1>1, <1>2, <2>1, <2>3, <2>4, <2>5, <2>6 DEF Faithful
  <1>. QED
    BY <1>1, <1>4, <1>5 DEF BInv

LEMMA MatrixIsNow ==
  ASSUME NEW ok, NEW i \in Dataset!Included(ok), NEW e, e = Dataset!Matrix(ok)[i]
  PROVE  /\ e.market = [n \in 1 .. Dataset!MarketRow(filings[i].at) |-> bars[filings[i].symbol][n]]
         /\ e.fundamental = Dataset!Fundamental(filings[i].symbol, filings[i].at, filings[i].end)
         /\ e.regime = Dataset!Regime(filings[i].at)
         /\ e.target = Dataset!Target(filings[i].at)
         /\ e.previous = Dataset!Previous(i, Dataset!Included(ok))
  BY DEF Dataset!Matrix, Dataset!Event

\* A step that publishes nothing leaves alone what is said of every dataset.
LEMMA WorldStays ==
  ASSUME UNCHANGED <<time, bars, filings, releases>>
  PROVE  /\ \A d, i : Lasting(d, i) => Lasting(d, i)'
         /\ \A i : Dataset!Reaches(i)' <=> Dataset!Reaches(i)
         /\ \A d, i : Dataset!Settled(d, i)' <=> Dataset!Settled(d, i)
  <1>1. \A d, i : Lasting(d, i) => Lasting(d, i)'
    BY PricesStay, FactsStay, ReleasesStay DEF Lasting
  <1>2. \A i : Dataset!Reaches(i)' <=> Dataset!Reaches(i)
    BY PricesStay DEF Dataset!Reaches, Dataset!Entry, Dataset!Month
  <1>3. \A d, i : Dataset!Settled(d, i)' <=> Dataset!Settled(d, i)
    BY DEF Dataset!Settled, Dataset!Entry, Dataset!Month
  <1>. QED
    BY <1>1, <1>2, <1>3

LEMMA BuildKeeps ==
  ASSUME BInv, NEW ok \in SUBSET DOMAIN filings, NEW saved \in BOOLEAN, Dataset!Build(ok, saved)
  PROVE  BInv'
  <1>1. UNCHANGED <<time, bars, filings, releases>> /\ taken' = taken \cup {<<time, ok>>}
        /\ datasets' \subseteq datasets \cup {[at |-> time, ok |-> ok, events |-> Dataset!Matrix(ok)]}
    BY DEF Dataset!Build
  <1>2. Published'
    BY <1>1 DEF BInv, Published
  <1>3. ASSUME NEW d, Faithful(d)
        PROVE  Faithful(d)'
    BY <1>1, <1>3, WorldStays DEF Faithful
  <1>4. ASSUME NEW d, d = [at |-> time, ok |-> ok, events |-> Dataset!Matrix(ok)]
        PROVE  Faithful(d)'
    <2>1. d.at = time /\ d.ok = ok /\ d.events = Dataset!Matrix(ok)
          /\ DOMAIN d.events = Dataset!Included(ok)
      BY <1>4 DEF Dataset!Matrix
    <2>2. \A i \in DOMAIN d.events : Lasting(d, i)
      BY <2>1, MatrixIsNow DEF Lasting
    <2>3. \A i \in ok : i \in DOMAIN d.events <=> Dataset!Reaches(i)
      BY <2>1 DEF Dataset!Included
    <2>4. time \in Nat /\ DOMAIN filings = 1 .. Len(filings) /\ \A i \in ok : filings[i].at <= time
      BY DEF BInv, Published
    <2>5. DOMAIN d.events \subseteq ok
      BY <2>1 DEF Dataset!Included
    <2>. QED
      BY <1>1, <2>1, <2>2, <2>3, <2>4, <2>5, WorldStays DEF Faithful
  <1>. QED
    BY <1>1, <1>2, <1>3, <1>4 DEF BInv

LEMMA BInvStep == BInv /\ [Dataset!Next]_(Dataset!vars) => BInv'
  <1>. SUFFICES ASSUME BInv, [Dataset!Next]_(Dataset!vars) PROVE BInv'
    OBVIOUS
  <1>1. CASE UNCHANGED Dataset!vars
    <2>1. UNCHANGED <<time, bars, filings, releases, datasets, taken>>
      BY <1>1 DEF Dataset!vars
    <2>. QED
      BY <2>1, WorldStays DEF BInv, Published, Faithful
  <1>2. CASE Dataset!Next
    BY <1>2, AdvanceKeeps, ReleaseKeeps, FileKeeps, BuildKeeps DEF Dataset!Next
  <1>. QED
    BY <1>1, <1>2

\* For every calendar, universe and history of publications: whatever bars, reports and
\* releases come after a filing, build_research_dataset gives it the market rows, the
\* facts, the regime and the label that an earlier checkpoint gave it, and once its
\* selection month has ended the same say whether it is in the universe.
THEOREM NoLookAhead == Dataset!Spec => []NothingLooksAhead
  <1>1. ASSUME BInv PROVE NothingLooksAhead
    <2>. SUFFICES ASSUME NEW d \in datasets, NEW ok \in SUBSET DOMAIN filings,
                         NEW now, now = Dataset!Matrix(ok)
                  PROVE  /\ \A i \in DOMAIN d.events \cap DOMAIN now :
                              LET x == d.events[i] y == now[i]
                              IN  /\ x.market = y.market /\ x.fundamental = y.fundamental
                                  /\ x.regime = y.regime
                                  /\ x.target # None => x.target = y.target
                                  /\ {j \in DOMAIN d.events : j < i} = {j \in DOMAIN now : j < i}
                                       => x.previous = y.previous
                         /\ \A i \in d.ok \cap ok :
                              Dataset!Settled(d, i) => (i \in DOMAIN d.events <=> i \in DOMAIN now)
      BY DEF NothingLooksAhead, Dataset!NothingLooksAhead
    <2>1. Faithful(d) /\ DOMAIN now = Dataset!Included(ok)
      BY <1>1 DEF BInv, Dataset!Matrix
    <2>2. ASSUME NEW i \in DOMAIN d.events \cap DOMAIN now
          PROVE  LET x == d.events[i] y == now[i]
                 IN  /\ x.market = y.market /\ x.fundamental = y.fundamental
                     /\ x.regime = y.regime
                     /\ x.target # None => x.target = y.target
                     /\ {j \in DOMAIN d.events : j < i} = {j \in DOMAIN now : j < i}
                          => x.previous = y.previous
      <3>1. Lasting(d, i)
        BY <2>1 DEF Faithful
      <3>2. /\ now[i].market = [n \in 1 .. Dataset!MarketRow(filings[i].at) |-> bars[filings[i].symbol][n]]
            /\ now[i].fundamental = Dataset!Fundamental(filings[i].symbol, filings[i].at, filings[i].end)
            /\ now[i].regime = Dataset!Regime(filings[i].at)
            /\ now[i].target = Dataset!Target(filings[i].at)
            /\ now[i].previous = Dataset!Previous(i, DOMAIN now)
        BY <2>1, MatrixIsNow
      <3>3. ASSUME {j \in DOMAIN d.events : j < i} = {j \in DOMAIN now : j < i}
            PROVE  Dataset!Previous(i, DOMAIN d.events) = Dataset!Previous(i, DOMAIN now)
        <4>1. {j \in DOMAIN d.events : j < i /\ filings[j].symbol = filings[i].symbol}
                = {j \in DOMAIN now : j < i /\ filings[j].symbol = filings[i].symbol}
          BY <3>3
        <4>. QED
          BY <4>1 DEF Dataset!Previous
      <3>. QED
        BY <3>1, <3>2, <3>3 DEF Lasting
    <2>3. ASSUME NEW i \in d.ok \cap ok, Dataset!Settled(d, i)
          PROVE  i \in DOMAIN d.events <=> i \in DOMAIN now
      BY <2>1, <2>3 DEF Faithful, Dataset!Included
    <2>. QED
      BY <2>2, <2>3
  <1>. QED
    BY <1>1, BInvInit, BInvStep, PTL DEF Dataset!Spec

-----------------------------------------------------------------------------
(* Sums over finite sets.  Total picks one element after the other; what it is     *)
(* does not depend on the order.                                                   *)

\* Among sets of elements of a finite set, one has no other within it.
LEMMA SmallestSubset ==
  ASSUME NEW S, IsFiniteSet(S), NEW T \in SUBSET SUBSET S, T # {}
  PROVE  \E t \in T : \A u \in T : u \subseteq t => u = t
<1>1. FiniteSubsetsOf(S) = SUBSET S
  BY FS_FiniteSubsetsOfFinite
<1>2. IsWellFoundedOn(StrictSubsetOrdering(S), SUBSET S)
  BY <1>1, FS_StrictSubsetOrderingWellFounded
<1>3. PICK t \in T : \A u \in T : <<u, t>> \notin StrictSubsetOrdering(S)
  BY <1>2, WFMin
<1> QED
  BY <1>3 DEF StrictSubsetOrdering

Picked(s) == CHOOSE x \in s : TRUE

\* g is the running sum of f over the subsets of S.
Sums(g, f, S) ==
  g = [s \in SUBSET S |-> IF s = {} THEN 0 ELSE g[s \ {Picked(s)}] + f[Picked(s)]]

LEMMA TotalIs ==
  ASSUME NEW f, NEW S
  PROVE  Rank!Total(f, S) = (CHOOSE g : Sums(g, f, S))[S]
BY DEF Rank!Total, Rank!FoldSet, Rank!MapThenFoldSet, Sums, Picked

LEMMA SumsAt ==
  ASSUME NEW f, NEW S, NEW g, Sums(g, f, S), NEW s \in SUBSET S
  PROVE  g[s] = IF s = {} THEN 0 ELSE g[s \ {Picked(s)}] + f[Picked(s)]
<1> DEFINE h == [x \in SUBSET S |-> IF x = {} THEN 0 ELSE g[x \ {Picked(x)}] + f[Picked(x)]]
<1>1. g = h
  BY DEF Sums
<1>2. h[s] = IF s = {} THEN 0 ELSE g[s \ {Picked(s)}] + f[Picked(s)]
  OBVIOUS
<1> HIDE DEF h
<1> QED
  BY <1>1, <1>2

LEMMA SumsRestrict ==
  ASSUME NEW f, NEW S, NEW U \in SUBSET S, NEW g, Sums(g, f, S)
  PROVE  Sums([s \in SUBSET U |-> g[s]], f, U)
<1> DEFINE h == [s \in SUBSET U |-> g[s]]
           k == [s \in SUBSET U |-> IF s = {} THEN 0 ELSE h[s \ {Picked(s)}] + f[Picked(s)]]
<1>1. ASSUME NEW s \in SUBSET U PROVE h[s] = k[s]
  <2>1. g[s] = IF s = {} THEN 0 ELSE g[s \ {Picked(s)}] + f[Picked(s)]
    BY SumsAt
  <2>2. s \ {Picked(s)} \in SUBSET U
    OBVIOUS
  <2>3. h[s \ {Picked(s)}] = g[s \ {Picked(s)}] /\ h[s] = g[s]
    BY <2>2
  <2> QED
    BY <2>1, <2>3
<1>2. h = k
  <2> SUFFICES \A s \in SUBSET U : h[s] = k[s]
    OBVIOUS
  <2> QED BY <1>1
<1> QED
  BY <1>2 DEF Sums

LEMMA SumsUnique ==
  ASSUME NEW f, NEW S, IsFiniteSet(S), NEW g, NEW h, Sums(g, f, S), Sums(h, f, S),
         NEW s \in SUBSET S
  PROVE  g[s] = h[s]
<1> DEFINE Bad == {u \in SUBSET S : g[u] # h[u]}
<1> SUFFICES ASSUME Bad # {} PROVE FALSE
  OBVIOUS
<1>1. PICK t \in Bad : \A u \in Bad : u \subseteq t => u = t
  <2>1. Bad \in SUBSET SUBSET S
    OBVIOUS
  <2> HIDE DEF Bad
  <2> QED BY <2>1, SmallestSubset
<1>2. /\ g[t] = IF t = {} THEN 0 ELSE g[t \ {Picked(t)}] + f[Picked(t)]
      /\ h[t] = IF t = {} THEN 0 ELSE h[t \ {Picked(t)}] + f[Picked(t)]
  BY SumsAt
<1>3. t # {} => Picked(t) \in t
  BY DEF Picked
<1>4. t # {} => g[t \ {Picked(t)}] = h[t \ {Picked(t)}]
  BY <1>1, <1>3
<1> QED
  BY <1>2, <1>4

LEMMA SumsExist ==
  ASSUME NEW f, NEW S, IsFiniteSet(S)
  PROVE  \E g : Sums(g, f, S)
<1> DEFINE Bad == {u \in SUBSET S : ~ \E g : Sums(g, f, u)}
<1> SUFFICES ASSUME Bad # {} PROVE FALSE
  OBVIOUS
<1>1. PICK U \in Bad : \A u \in Bad : u \subseteq U => u = U
  <2>1. Bad \in SUBSET SUBSET S
    OBVIOUS
  <2> HIDE DEF Bad
  <2> QED BY <2>1, SmallestSubset
<1> DEFINE G(s) == CHOOSE g : Sums(g, f, s)
           x == Picked(U)
           V == U \ {x}
           h == [s \in SUBSET U |-> IF s = U THEN G(V)[V] + f[x] ELSE G(s)[s]]
           k == [s \in SUBSET U |-> IF s = {} THEN 0 ELSE h[s \ {Picked(s)}] + f[Picked(s)]]
<1>2. U \in SUBSET S /\ ~ \E g : Sums(g, f, U)
  OBVIOUS
<1>3. ASSUME NEW s \in SUBSET U, s # U PROVE Sums(G(s), f, s) /\ IsFiniteSet(s)
  <2>1. s \in SUBSET S /\ s \notin Bad
    BY <1>1, <1>3
  <2>2. \E g : Sums(g, f, s)
    BY <2>1
  <2>3. IsFiniteSet(s)
    BY <2>1, FS_Subset
  <2> QED BY <2>2, <2>3
<1>4. \A s \in SUBSET U : s # {} => Picked(s) \in s
  BY DEF Picked
<1> HIDE DEF Bad
<1>5. ASSUME NEW s \in SUBSET U PROVE h[s] = k[s]
  <2>1. CASE s = U
    <3>1. CASE U = {}
      <4>1. [u \in SUBSET U |-> 0] = [u \in SUBSET U |-> IF u = {} THEN 0 ELSE 0]
        OBVIOUS
      <4>2. \A u \in SUBSET U : u = {}
        BY <3>1
      <4>3. Sums([u \in SUBSET U |-> 0], f, U)
        BY <4>2 DEF Sums
      <4> QED BY <1>2, <4>3
    <3>2. CASE U # {}
      <4>1. V \in SUBSET U /\ V # U
        BY <1>4, <3>2
      <4> HIDE DEF V
      <4>2. h[V] = G(V)[V] /\ h[U] = G(V)[V] + f[x]
        BY <4>1
      <4>3. k[U] = h[U \ {Picked(U)}] + f[Picked(U)]
        BY <3>2
      <4> QED BY <2>1, <4>2, <4>3 DEF V
    <3> QED BY <3>1, <3>2
  <2>2. CASE s # U /\ s = {}
    <3>1. Sums(G(s), f, s)
      BY <1>3, <2>2
    <3>2. G(s)[s] = 0
      BY <2>2, <3>1, SumsAt
    <3>3. h[s] = G(s)[s] /\ k[s] = 0
      BY <2>2
    <3> QED BY <3>2, <3>3
  <2>3. CASE s # U /\ s # {}
    <3> DEFINE y == Picked(s)
               r == s \ {y}
    <3>1. y \in s /\ r \in SUBSET U /\ r # U /\ r \in SUBSET s
      BY <1>4, <2>3
    <3>2. Sums(G(s), f, s) /\ Sums(G(r), f, r) /\ IsFiniteSet(r)
      <4> HIDE DEF r, G, h, k
      <4> QED BY <1>3, <2>3, <3>1
    <3>3. G(s)[s] = G(s)[r] + f[y]
      <4> HIDE DEF G
      <4> QED BY <2>3, <3>2, SumsAt
    <3>4. Sums([u \in SUBSET r |-> G(s)[u]], f, r)
      <4> HIDE DEF G, r
      <4> QED BY <3>1, <3>2, SumsRestrict
    <3>5. [u \in SUBSET r |-> G(s)[u]][r] = G(r)[r]
      <4> HIDE DEF G, r
      <4> QED BY <3>2, <3>4, SumsUnique
    <3>6. G(s)[r] = G(r)[r]
      <4> HIDE DEF G, r
      <4> QED BY <3>5
    <3>7. h[s] = G(s)[s] /\ h[r] = G(r)[r]
      <4> HIDE DEF G, r
      <4> QED BY <2>3, <3>1
    <3>8. k[s] = h[r] + f[y]
      <4> HIDE DEF h
      <4> QED BY <2>3
    <3> HIDE DEF G, r, y, h, k
    <3> QED BY <3>3, <3>6, <3>7, <3>8
  <2> QED BY <2>1, <2>2, <2>3
<1>6. h = k
  <2> SUFFICES \A s \in SUBSET U : h[s] = k[s]
    OBVIOUS
  <2> QED BY <1>5
<1>7. Sums(h, f, U)
  BY <1>6 DEF Sums
<1> HIDE DEF h
<1> QED BY <1>2, <1>7

\* A sum takes the picked element last.
LEMMA TotalSteps ==
  ASSUME NEW f, NEW S, IsFiniteSet(S)
  PROVE  /\ Rank!Total(f, {}) = 0
         /\ S # {} => /\ Picked(S) \in S
                      /\ Rank!Total(f, S) = Rank!Total(f, S \ {Picked(S)}) + f[Picked(S)]
<1> DEFINE G(s) == CHOOSE g : Sums(g, f, s)
           V == S \ {Picked(S)}
<1>1. \A s \in SUBSET S : Rank!Total(f, s) = G(s)[s] /\ IsFiniteSet(s)
  BY TotalIs, FS_Subset
<1>2. ASSUME NEW s \in SUBSET S PROVE Sums(G(s), f, s)
  BY <1>1, SumsExist
<1>3. G({})[{}] = 0
  <2> HIDE DEF G
  <2> QED BY <1>2, SumsAt
<1>4. ASSUME S # {} PROVE G(S)[S] = G(V)[V] + f[Picked(S)]
  <2>1. V \in SUBSET S
    OBVIOUS
  <2>2. Sums(G(S), f, S) /\ Sums(G(V), f, V)
    BY <1>2, <2>1
  <2> HIDE DEF G
  <2>3. G(S)[S] = G(S)[V] + f[Picked(S)]
    BY <1>4, <2>2, SumsAt
  <2>4. Sums([u \in SUBSET V |-> G(S)[u]], f, V)
    BY <2>1, <2>2, SumsRestrict
  <2>5. [u \in SUBSET V |-> G(S)[u]][V] = G(V)[V]
    <3> HIDE DEF V
    <3> QED BY <1>1, <2>1, <2>2, <2>4, SumsUnique
  <2> HIDE DEF V
  <2> QED BY <2>3, <2>5
<1>5. S # {} => Picked(S) \in S
  BY DEF Picked
<1> QED
  BY <1>1, <1>3, <1>4, <1>5

AddsUp(G, f, S) ==
  G[{}] = 0 /\ \A s \in SUBSET S : \A x \in s : G[s] = G[s \ {x}] + f[x]

\* What adds up as the sum does is the sum.
LEMMA TotalClosed ==
  ASSUME NEW f, NEW S, IsFiniteSet(S), NEW G, AddsUp(G, f, S)
  PROVE  \A s \in SUBSET S : Rank!Total(f, s) = G[s]
<1> USE DEF AddsUp
<1> DEFINE Bad == {s \in SUBSET S : Rank!Total(f, s) # G[s]}
<1> SUFFICES ASSUME Bad # {} PROVE FALSE
  OBVIOUS
<1>1. PICK t \in Bad : \A u \in Bad : u \subseteq t => u = t
  <2>1. Bad \in SUBSET SUBSET S
    OBVIOUS
  <2> HIDE DEF Bad
  <2> QED BY <2>1, SmallestSubset
<1>2. IsFiniteSet(t) /\ t \in SUBSET S
  BY FS_Subset
<1>3. CASE t = {}
  BY <1>3, <1>2, TotalSteps
<1>4. CASE t # {}
  <2> DEFINE x == Picked(t)
  <2>1. x \in t /\ Rank!Total(f, t) = Rank!Total(f, t \ {x}) + f[x]
    BY <1>2, <1>4, TotalSteps
  <2> HIDE DEF x
  <2>2. Rank!Total(f, t \ {x}) = G[t \ {x}]
    BY <1>1, <1>2, <2>1
  <2> QED BY <1>2, <2>1, <2>2
<1> QED BY <1>3, <1>4

LEMMA TotalInt ==
  ASSUME NEW f, NEW S, IsFiniteSet(S), \A x \in S : f[x] \in Int
  PROVE  \A s \in SUBSET S : Rank!Total(f, s) \in Int
<1> DEFINE Bad == {s \in SUBSET S : Rank!Total(f, s) \notin Int}
<1> SUFFICES ASSUME Bad # {} PROVE FALSE
  OBVIOUS
<1>1. PICK t \in Bad : \A u \in Bad : u \subseteq t => u = t
  <2>1. Bad \in SUBSET SUBSET S
    OBVIOUS
  <2> HIDE DEF Bad
  <2> QED BY <2>1, SmallestSubset
<1>2. IsFiniteSet(t) /\ t \in SUBSET S
  BY FS_Subset
<1>3. CASE t = {}
  <2>1. Rank!Total(f, {}) = 0
    BY <1>2, TotalSteps
  <2> QED BY <1>3, <2>1
<1>4. CASE t # {}
  <2> DEFINE x == Picked(t)
  <2>1. x \in t /\ Rank!Total(f, t) = Rank!Total(f, t \ {x}) + f[x]
    BY <1>2, <1>4, TotalSteps
  <2> HIDE DEF x
  <2>2. Rank!Total(f, t \ {x}) \in Int
    BY <1>1, <1>2, <2>1
  <2> QED BY <1>2, <2>1, <2>2
<1> QED BY <1>3, <1>4

\* Any element may be taken last.
LEMMA TotalAdd ==
  ASSUME NEW f, NEW S, IsFiniteSet(S), \A x \in S : f[x] \in Int
  PROVE  \A s \in SUBSET S : \A x \in s : Rank!Total(f, s) = Rank!Total(f, s \ {x}) + f[x]
<1> DEFINE Bad == {s \in SUBSET S : \E x \in s : Rank!Total(f, s) # Rank!Total(f, s \ {x}) + f[x]}
<1> SUFFICES ASSUME Bad # {} PROVE FALSE
  OBVIOUS
<1>1. PICK t \in Bad : \A u \in Bad : u \subseteq t => u = t
  <2>1. Bad \in SUBSET SUBSET S
    OBVIOUS
  <2> HIDE DEF Bad
  <2> QED BY <2>1, SmallestSubset
<1>2. IsFiniteSet(t) /\ t \in SUBSET S
  BY FS_Subset
<1>3. PICK x \in t : Rank!Total(f, t) # Rank!Total(f, t \ {x}) + f[x]
  OBVIOUS
<1> DEFINE y == Picked(t)
<1>4. y \in t /\ Rank!Total(f, t) = Rank!Total(f, t \ {y}) + f[y]
  BY <1>2, <1>3, TotalSteps
<1> HIDE DEF y
<1>5. x # y
  BY <1>3, <1>4
<1>6. ASSUME NEW z \in t, NEW w \in t \ {z}
      PROVE  Rank!Total(f, t \ {z}) = Rank!Total(f, (t \ {z}) \ {w}) + f[w]
  <2>1. t \ {z} \in SUBSET S /\ t \ {z} \notin Bad
    BY <1>1, <1>2
  <2> QED BY <2>1
<1>7. Rank!Total(f, t \ {y}) = Rank!Total(f, (t \ {y}) \ {x}) + f[x]
  BY <1>4, <1>5, <1>6
<1>8. Rank!Total(f, t \ {x}) = Rank!Total(f, (t \ {x}) \ {y}) + f[y]
  BY <1>4, <1>5, <1>6
<1>9. (t \ {x}) \ {y} = (t \ {y}) \ {x}
  OBVIOUS
<1>10. Rank!Total(f, (t \ {y}) \ {x}) \in Int /\ f[x] \in Int /\ f[y] \in Int
  BY <1>2, <1>4, TotalInt
<1> DEFINE rest == Rank!Total(f, (t \ {y}) \ {x})
<1>11. /\ Rank!Total(f, t) = (rest + f[x]) + f[y]
       /\ Rank!Total(f, t \ {x}) = rest + f[y]
  BY <1>4, <1>7, <1>8, <1>9
<1>12. (rest + f[x]) + f[y] = (rest + f[y]) + f[x]
  <2>1. rest \in Int /\ f[x] \in Int /\ f[y] \in Int
    BY <1>10
  <2> HIDE DEF rest, Bad
  <2> QED BY <2>1
<1> HIDE DEF Bad, rest
<1> QED BY <1>3, <1>11, <1>12

\* The sums of disjoint sets add up; sums of equal terms are equal.
LEMMA TotalUnion ==
  ASSUME NEW f, NEW A, NEW B, IsFiniteSet(A \cup B), A \cap B = {},
         \A x \in A \cup B : f[x] \in Int
  PROVE  Rank!Total(f, A \cup B) = Rank!Total(f, A) + Rank!Total(f, B)
<1> DEFINE G == [s \in SUBSET B |-> Rank!Total(f, A \cup s) - Rank!Total(f, A)]
<1>1. /\ \A s \in SUBSET (A \cup B) : Rank!Total(f, s) \in Int
      /\ \A s \in SUBSET (A \cup B) : \A x \in s :
           Rank!Total(f, s) = Rank!Total(f, s \ {x}) + f[x]
  BY TotalInt, TotalAdd
<1>2. IsFiniteSet(B)
  BY FS_Subset
<1>3. G[{}] = 0
  <2>1. A \cup {} = A /\ Rank!Total(f, A) \in Int
    BY <1>1
  <2>2. G[{}] = Rank!Total(f, A \cup {}) - Rank!Total(f, A)
    OBVIOUS
  <2> QED BY <2>1, <2>2
<1>4. ASSUME NEW s \in SUBSET B, NEW x \in s PROVE G[s] = G[s \ {x}] + f[x]
  <2>1. (A \cup s) \ {x} = A \cup (s \ {x}) /\ A \cup s \in SUBSET (A \cup B)
    OBVIOUS
  <2>2. Rank!Total(f, A \cup s) = Rank!Total(f, A \cup (s \ {x})) + f[x]
    BY <1>1, <2>1
  <2>3. /\ G[s] = Rank!Total(f, A \cup s) - Rank!Total(f, A)
        /\ G[s \ {x}] = Rank!Total(f, A \cup (s \ {x})) - Rank!Total(f, A)
    OBVIOUS
  <2>4. Rank!Total(f, A \cup (s \ {x})) \in Int /\ Rank!Total(f, A) \in Int /\ f[x] \in Int
    BY <1>1
  <2> HIDE DEF G
  <2> QED BY <2>2, <2>3, <2>4
<1> HIDE DEF G
<1>5. Rank!Total(f, B) = G[B]
  <2>1. AddsUp(G, f, B)
    BY <1>3, <1>4 DEF AddsUp
  <2> QED BY <1>2, <2>1, TotalClosed
<1>6. Rank!Total(f, A \cup B) \in Int /\ Rank!Total(f, A) \in Int
  BY <1>1
<1> QED BY <1>5, <1>6 DEF G

-----------------------------------------------------------------------------
(* RankStatistics: the positions of a draw that hold an index of a set are counted *)
(* once for each index, so weights that count repetitions add up to them.          *)

LEMMA RankFinite ==
  ASSUME NEW S
  PROVE  Rank!Cardinality(S) = Cardinality(S) /\ (Rank!IsFiniteSet(S) <=> IsFiniteSet(S))
BY DEF Rank!Cardinality, Cardinality, Rank!IsFiniteSet, IsFiniteSet

LEMMA RankBounds ==
  /\ IsFiniteSet(Items) /\ Values \subseteq Int
  /\ Span \in Nat /\ BlockMonths \in Nat \ {0}
BY ResearchAssumption, RankFinite DEF ResearchAssumption, Rank!BlocksFit

RankTypeOK ==
  /\ score \in [Items -> Int] /\ month \in [Items -> 1 .. Span]
  /\ chosen \in Seq(Items) /\ remaining \in 0 .. Span

At(S)    == {p \in DOMAIN chosen : chosen[p] \in S}
Count(S) == Cardinality(At(S))
Below(i) == {j \in Items : score[j] < score[i]}
Tied(i)  == {j \in Items : score[j] = score[i]}

LEMMA CountIs ==
  ASSUME RankTypeOK
  PROVE  /\ \A S : IsFiniteSet(At(S)) /\ Count(S) \in Nat
         /\ Count({}) = 0 /\ Count(Items) = Len(chosen)
         /\ \A A, B : A \cap B = {} => Count(A \cup B) = Count(A) + Count(B)
         /\ \A p \in DOMAIN chosen : chosen[p] \in Items
<1>1. DOMAIN chosen = 1 .. Len(chosen) /\ Len(chosen) \in Nat
      /\ \A p \in DOMAIN chosen : chosen[p] \in Items
  BY DEF RankTypeOK
<1>2. IsFiniteSet(DOMAIN chosen) /\ Cardinality(DOMAIN chosen) = Len(chosen)
  BY <1>1, FS_Interval
<1>3. \A S : At(S) \in SUBSET DOMAIN chosen
  BY DEF At
<1>4. \A S : IsFiniteSet(At(S)) /\ Count(S) \in Nat
  BY <1>2, <1>3, FS_Subset, FS_CardinalityType DEF Count
<1>5. At({}) = {} /\ At(Items) = DOMAIN chosen
  BY <1>1 DEF At
<1>6. ASSUME NEW A, NEW B, A \cap B = {} PROVE Count(A \cup B) = Count(A) + Count(B)
  <2>1. At(A \cup B) = At(A) \cup At(B) /\ At(A) \cap At(B) = {}
    BY <1>6 DEF At
  <2>2. Cardinality(At(A) \cup At(B))
          = Cardinality(At(A)) + Cardinality(At(B)) - Cardinality(At(A) \cap At(B))
    BY <1>4, FS_Union
  <2>3. Cardinality(At(A) \cap At(B)) = 0
    BY <2>1, FS_EmptySet
  <2>4. Count(A) \in Nat /\ Count(B) \in Nat
    BY <1>4
  <2>5. Count(A \cup B) = Count(A) + Count(B) - 0
    BY <2>1, <2>2, <2>3 DEF Count
  <2> QED BY <2>4, <2>5
<1> QED
  BY <1>1, <1>2, <1>4, <1>5, <1>6, FS_EmptySet DEF Count

\* The weights of a set of indices add up to its positions.
LEMMA WeightsAre ==
  ASSUME RankTypeOK
  PROVE  /\ Rank!Multiplicity \in [Items -> Nat]
         /\ \A i \in Items : Rank!Multiplicity[i] = Count({i})
         /\ \A s \in SUBSET Items : Rank!Total(Rank!Multiplicity, s) = Count(s)
         /\ \A s \in SUBSET Items : \A x \in s :
              Count(s) = Count(s \ {x}) + Rank!Multiplicity[x]
<1>1. ASSUME NEW i \in Items PROVE Rank!Multiplicity[i] = Count({i})
  <2>1. {p \in DOMAIN chosen : chosen[p] = i} = At({i})
    BY DEF At
  <2> QED BY <2>1, RankFinite DEF Rank!Multiplicity, Count
<1>2. Rank!Multiplicity \in [Items -> Nat]
  <2>1. Rank!Multiplicity = [i \in Items |-> Rank!Multiplicity[i]]
    BY DEF Rank!Multiplicity
  <2>2. \A i \in Items : Rank!Multiplicity[i] \in Nat
    BY <1>1, CountIs
  <2> QED BY <2>1, <2>2
<1> DEFINE G == [s \in SUBSET Items |-> Count(s)]
<1>3. ASSUME NEW s \in SUBSET Items, NEW x \in s
      PROVE  Count(s) = Count(s \ {x}) + Rank!Multiplicity[x]
  <2>1. s = (s \ {x}) \cup {x} /\ (s \ {x}) \cap {x} = {}
    OBVIOUS
  <2>2. Count((s \ {x}) \cup {x}) = Count(s \ {x}) + Count({x})
    BY <2>1, CountIs
  <2> QED BY <1>1, <2>1, <2>2
<1>4. G[{}] = 0
  BY CountIs
<1>5. \A s \in SUBSET Items : \A x \in s : G[s] = G[s \ {x}] + Rank!Multiplicity[x]
  BY <1>3
<1>6. \A s \in SUBSET Items : G[s] = Count(s)
  OBVIOUS
<1> HIDE DEF G
<1>7. \A s \in SUBSET Items : Rank!Total(Rank!Multiplicity, s) = G[s]
  <2>1. AddsUp(G, Rank!Multiplicity, Items)
    BY <1>4, <1>5 DEF AddsUp
  <2> QED BY <2>1, RankBounds, TotalClosed
<1> QED BY <1>1, <1>2, <1>3, <1>6, <1>7

Over(g, T) == UNION {g[j] : j \in T}

\* The weights of disjoint groups add up to the positions of their union.
LEMMA GroupsAdd ==
  ASSUME RankTypeOK, NEW T, IsFiniteSet(T), NEW g, NEW w,
         \A j \in T : w[j] = Count(g[j]),
         \A j, k \in T : j # k => g[j] \cap g[k] = {}
  PROVE  Rank!Total(w, T) = Count(Over(g, T))
<1> DEFINE U(s) == Over(g, s)
           G == [s \in SUBSET T |-> Count(U(s))]
<1>1. G[{}] = 0
  <2>1. U({}) = {}
    BY DEF Over
  <2> QED BY <2>1, CountIs
<1>2. ASSUME NEW s \in SUBSET T, NEW x \in s PROVE G[s] = G[s \ {x}] + w[x]
  <2>1. U(s) = U(s \ {x}) \cup g[x] /\ U(s \ {x}) \cap g[x] = {}
    BY DEF Over
  <2>2. Count(U(s)) = Count(U(s \ {x})) + Count(g[x])
    <3> HIDE DEF U
    <3> QED BY <2>1, CountIs
  <2> HIDE DEF U
  <2> QED BY <2>2
<1>3. G[T] = Count(U(T))
  OBVIOUS
<1> HIDE DEF G
<1>4. Rank!Total(w, T) = G[T]
  <2>1. AddsUp(G, w, T)
    BY <1>1, <1>2 DEF AddsUp
  <2> QED BY <2>1, TotalClosed
<1> QED BY <1>3, <1>4

Distinct == {score[i] : i \in Items}
Place(i) == Cardinality({d \in Distinct : d <= score[i]})

\* The tie groups are those of equal scores, in the order of the scores.
LEMMA GroupsAre ==
  ASSUME RankTypeOK
  PROVE  /\ Cardinality(Distinct) \in Nat
         /\ \A i \in Items : Place(i) \in 1 .. Cardinality(Distinct)
         /\ \A i, j \in Items : /\ Place(i) < Place(j) <=> score[i] < score[j]
                                /\ Place(i) = Place(j) <=> score[i] = score[j]
         /\ DOMAIN Rank!OrderedTieGroups(score) = 1 .. Cardinality(Distinct)
         /\ \A k \in 1 .. Cardinality(Distinct) :
              Rank!OrderedTieGroups(score)[k] = {i \in Items : Place(i) = k}
<1> USE DEF RankTypeOK
<1>1. score \in Surjection(Items, Distinct)
  BY DEF Surjection, Distinct
<1>2. IsFiniteSet(Distinct) /\ Cardinality(Distinct) \in Nat
  BY <1>1, RankBounds, FS_Surjection, FS_CardinalityType
<1>3. \A i \in Items : score[i] \in Int /\ score[i] \in Distinct
  BY DEF Distinct
<1> DEFINE upto(i) == {d \in Distinct : d <= score[i]}
<1>4. \A i \in Items : /\ upto(i) \in SUBSET Distinct /\ IsFiniteSet(upto(i))
                       /\ Cardinality(upto(i)) \in Nat /\ Place(i) = Cardinality(upto(i))
  BY <1>2, FS_Subset, FS_CardinalityType DEF Place
<1>5. ASSUME NEW i \in Items PROVE Place(i) \in 1 .. Cardinality(Distinct)
  <2>1. upto(i) # {} /\ Cardinality(upto(i)) <= Cardinality(Distinct)
    BY <1>2, <1>3, <1>4, FS_Subset
  <2>2. Cardinality(upto(i)) # 0
    BY <1>4, <2>1, FS_EmptySet
  <2> HIDE DEF upto
  <2> QED BY <1>2, <1>4, <2>1, <2>2
<1>6. ASSUME NEW i \in Items, NEW j \in Items, score[i] < score[j]
      PROVE  Place(i) < Place(j)
  <2>1. upto(i) \in SUBSET upto(j)
    <3>1. \A d \in Distinct : d \in Int
      BY <1>3 DEF Distinct
    <3> QED BY <1>3, <1>6, <3>1
  <2>2. score[j] \in upto(j) /\ score[j] \notin upto(i)
    BY <1>3, <1>6
  <2>3. Cardinality(upto(i)) <= Cardinality(upto(j)) /\ Cardinality(upto(j)) # Cardinality(upto(i))
    BY <1>4, <2>1, <2>2, FS_Subset
  <2> HIDE DEF upto
  <2> QED BY <1>4, <2>3
<1>7. ASSUME NEW i \in Items, NEW j \in Items, score[i] = score[j]
      PROVE  Place(i) = Place(j)
  BY <1>7 DEF Place
<1>8. \A i, j \in Items : /\ Place(i) < Place(j) <=> score[i] < score[j]
                          /\ Place(i) = Place(j) <=> score[i] = score[j]
  <2>1. \A i \in Items : score[i] \in Int /\ Place(i) \in Int
    <3> HIDE DEF upto
    <3> QED BY <1>3, <1>4
  <2> QED BY <1>6, <1>7, <2>1
<1>9. DOMAIN score = Items
  OBVIOUS
<1>10. /\ DOMAIN Rank!OrderedTieGroups(score) = 1 .. Cardinality(Distinct)
       /\ \A k \in 1 .. Cardinality(Distinct) :
            Rank!OrderedTieGroups(score)[k] = {i \in Items : Place(i) = k}
  BY <1>9, RankFinite DEF Rank!OrderedTieGroups, Distinct, Place
<1> QED
  BY <1>2, <1>5, <1>8, <1>10

\* A rank is what the positions of lower and of equal scores make it.
LEMMA RanksAre ==
  ASSUME RankTypeOK, NEW i \in Items
  PROVE  Rank!Ranks[i] = IF Count(Tied(i)) = 0 THEN 0
                         ELSE 2 * Count(Below(i)) + Count(Tied(i)) + 1
<1> DEFINE groups == Rank!OrderedTieGroups(score)
           size(k) == Rank!Total(Rank!Multiplicity, groups[k])
           preceding(k) == Rank!Total([j \in 1 .. (k - 1) |-> size(j)], 1 .. (k - 1))
           own == CHOOSE g \in DOMAIN groups : i \in groups[g]
           k == Place(i)
<1>1. Rank!Ranks[i] = IF size(own) = 0 THEN 0 ELSE 2 * preceding(own) + size(own) + 1
  <2>1. DOMAIN Rank!Multiplicity = Items
    BY WeightsAre
  <2> QED BY <2>1 DEF Rank!Ranks, Rank!WeightedRanks
<1>2. k \in 1 .. Cardinality(Distinct) /\ k \in Nat /\ DOMAIN groups = 1 .. Cardinality(Distinct)
  BY GroupsAre
<1>3. \A j \in 1 .. Cardinality(Distinct) : groups[j] = {x \in Items : Place(x) = j}
  BY GroupsAre
<1>4. groups[k] = Tied(i)
  BY <1>2, <1>3, GroupsAre DEF Tied
<1>5. own = k
  <2> HIDE DEF groups
  <2>1. \A g \in DOMAIN groups : i \in groups[g] <=> g = k
    BY <1>2, <1>3
  <2> QED BY <1>2, <2>1
<1>6. \A j \in 1 .. Cardinality(Distinct) : size(j) = Count(groups[j])
  <2>1. \A j \in 1 .. Cardinality(Distinct) : groups[j] \in SUBSET Items
    BY <1>3
  <2> HIDE DEF groups
  <2> QED BY <2>1, WeightsAre
<1>7. preceding(k) = Count(Below(i))
  <2> DEFINE T == 1 .. (k - 1)
             w == [j \in T |-> size(j)]
  <2>1. T \subseteq 1 .. Cardinality(Distinct) /\ IsFiniteSet(T)
    <3> HIDE DEF k
    <3>1. k \in Nat /\ 1 \in Int /\ k - 1 \in Int
      BY <1>2
    <3>2. T \subseteq 1 .. Cardinality(Distinct)
      BY <1>2, GroupsAre
    <3> QED BY <3>1, <3>2, FS_Interval
  <2>2. \A j \in T : w[j] = Count(groups[j])
    BY <1>6, <2>1
  <2>3. \A j, l \in T : j # l => groups[j] \cap groups[l] = {}
    BY <1>3, <2>1
  <2>4. Over(groups, T) = Below(i)
    <3> HIDE DEF groups
    <3>1. \A x \in Items : Place(x) \in T <=> score[x] < score[i]
      <4>1. \A x \in Items : Place(x) \in Nat \ {0}
        BY GroupsAre
      <4>2. \A x \in Items : Place(x) \in T <=> Place(x) < k
        <5> HIDE DEF k
        <5> QED BY <1>2, <4>1
      <4> QED BY <4>2, GroupsAre
    <3>2. \A j \in T : groups[j] = {x \in Items : Place(x) = j}
      BY <1>3, <2>1
    <3> HIDE DEF T, k
    <3> QED BY <3>1, <3>2 DEF Below, Over
  <2> HIDE DEF T, w, groups
  <2>5. Rank!Total(w, T) = Count(Over(groups, T))
    BY <2>1, <2>2, <2>3, GroupsAdd
  <2> QED BY <2>4, <2>5 DEF w, T
<1> HIDE DEF own, size, preceding, groups, k
<1> QED
  BY <1>1, <1>2, <1>4, <1>5, <1>6, <1>7

LEMMA RanksExpanded ==
  ASSUME RankTypeOK
  PROVE  Rank!WeightedIsExpanded
<1> SUFFICES ASSUME NEW p \in DOMAIN chosen
             PROVE  Rank!Ranks[chosen[p]] = Rank!AverageRanks(Rank!Sample)[p]
  BY DEF Rank!WeightedIsExpanded
<1> DEFINE i == chosen[p]
           below == {q \in DOMAIN chosen : score[chosen[q]] < score[i]}
           upto  == {q \in DOMAIN chosen : score[chosen[q]] <= score[i]}
<1>1. i \in Items /\ \A q \in DOMAIN chosen : chosen[q] \in Items
  BY CountIs
<1>2. \A j \in Items : score[j] \in Int
  BY DEF RankTypeOK
<1>3. below = At(Below(i)) /\ upto = At(Below(i) \cup Tied(i))
  BY <1>1, <1>2 DEF At, Below, Tied
<1>4. Below(i) \cap Tied(i) = {}
  BY <1>1, <1>2 DEF Below, Tied
<1>5. Rank!AverageRanks(Rank!Sample)[p] = Cardinality(below) + 1 + Cardinality(upto)
  BY RankFinite DEF Rank!AverageRanks, Rank!Sample
<1>6. p \in At(Tied(i))
  BY <1>1 DEF At, Tied
<1> HIDE DEF i, below, upto
<1>7. Count(Tied(i)) # 0
  <2>1. IsFiniteSet(At(Tied(i))) /\ At(Tied(i)) # {}
    BY <1>6, CountIs
  <2> QED BY <2>1, FS_EmptySet DEF Count
<1>8. Rank!Ranks[i] = 2 * Count(Below(i)) + Count(Tied(i)) + 1
  BY <1>1, <1>7, RanksAre
<1>9. Cardinality(below) = Count(Below(i)) /\ Cardinality(upto) = Count(Below(i)) + Count(Tied(i))
  BY <1>3, <1>4, CountIs DEF Count
<1>10. Count(Below(i)) \in Nat /\ Count(Tied(i)) \in Nat
  BY CountIs
<1>11. Rank!Ranks[i] = Rank!AverageRanks(Rank!Sample)[p]
  BY <1>5, <1>8, <1>9, <1>10
<1> QED BY <1>11 DEF i

\* A tie group contributes its size times its common rank; with what lies below, the
\* doubled ranks so far sum to n (n + 1).
Contribution == [i \in Items |-> Rank!Multiplicity[i] * Rank!Ranks[i]]

LEMMA ContributionInt ==
  ASSUME RankTypeOK
  PROVE  \A i \in Items : /\ Rank!Ranks[i] \in Int /\ Rank!Multiplicity[i] \in Nat
                          /\ Contribution[i] = Rank!Multiplicity[i] * Rank!Ranks[i]
                          /\ Contribution[i] \in Int
<1> SUFFICES ASSUME NEW i \in Items
             PROVE  /\ Rank!Ranks[i] \in Int /\ Rank!Multiplicity[i] \in Nat
                    /\ Contribution[i] = Rank!Multiplicity[i] * Rank!Ranks[i]
                    /\ Contribution[i] \in Int
  OBVIOUS
<1>1. Count(Below(i)) \in Nat /\ Count(Tied(i)) \in Nat
  BY CountIs
<1>2. Rank!Ranks[i] \in Int
  BY <1>1, RanksAre
<1>3. Rank!Multiplicity[i] \in Nat
  BY WeightsAre
<1>4. Contribution[i] = Rank!Multiplicity[i] * Rank!Ranks[i]
  BY DEF Contribution
<1> QED BY <1>2, <1>3, <1>4

LEMMA TieContributes ==
  ASSUME RankTypeOK, NEW i \in Items
  PROVE  Rank!Total(Contribution, Tied(i))
           = Count(Tied(i)) * (2 * Count(Below(i)) + Count(Tied(i)) + 1)
<1> DEFINE r == Rank!Ranks[i]
           G == [s \in SUBSET Tied(i) |-> Count(s) * r]
<1>1. Tied(i) \in SUBSET Items /\ IsFiniteSet(Tied(i))
  <2>1. Tied(i) \in SUBSET Items
    BY DEF Tied
  <2> QED BY <2>1, RankBounds, FS_Subset
<1>2. \A j \in Tied(i) : Rank!Ranks[j] = r
  <2> SUFFICES ASSUME NEW j \in Tied(i) PROVE Rank!Ranks[j] = Rank!Ranks[i]
    OBVIOUS
  <2>1. j \in Items /\ Tied(j) = Tied(i) /\ Below(j) = Below(i)
    BY DEF Tied, Below
  <2> QED BY <2>1, RanksAre
<1>3. r \in Int
  BY ContributionInt
<1> HIDE DEF r
<1>4. G[{}] = 0
  <2>1. Count({}) = 0
    BY CountIs
  <2>2. G[{}] = Count({}) * r
    OBVIOUS
  <2> QED BY <1>3, <2>1, <2>2
<1>5. ASSUME NEW s \in SUBSET Tied(i), NEW x \in s
      PROVE  G[s] = G[s \ {x}] + Contribution[x]
  <2> DEFINE n == Count(s \ {x})
             m == Rank!Multiplicity[x]
  <2>1. Count(s) = n + m
    BY <1>1, WeightsAre
  <2>2. n \in Int /\ m \in Int
    BY <1>1, CountIs, WeightsAre
  <2>3. Contribution[x] = m * r
    BY <1>1, <1>2, ContributionInt
  <2>4. G[s] = Count(s) * r /\ G[s \ {x}] = n * r
    OBVIOUS
  <2> HIDE DEF n, m, G
  <2>5. (n + m) * r = n * r + m * r
    BY <1>3, <2>2
  <2> QED BY <2>1, <2>3, <2>4, <2>5
<1>6. G[Tied(i)] = Count(Tied(i)) * r
  OBVIOUS
<1> HIDE DEF G
<1>7. AddsUp(G, Contribution, Tied(i))
  BY <1>4, <1>5 DEF AddsUp
<1>8. Rank!Total(Contribution, Tied(i)) = Count(Tied(i)) * r
  BY <1>1, <1>6, <1>7, TotalClosed
<1>9. CASE Count(Tied(i)) = 0
  <2>1. Count(Below(i)) \in Nat
    BY CountIs
  <2>2. 0 * r = 0 /\ 0 * (2 * Count(Below(i)) + 0 + 1) = 0
    BY <1>3, <2>1
  <2> QED BY <1>8, <1>9, <2>2
<1>10. CASE Count(Tied(i)) # 0
  <2>1. r = 2 * Count(Below(i)) + Count(Tied(i)) + 1
    BY <1>10, RanksAre DEF r
  <2> QED BY <1>8, <2>1
<1> QED BY <1>9, <1>10

LEMMA RanksBalance ==
  ASSUME RankTypeOK
  PROVE  Rank!RanksHaveTheirMean
<1> DEFINE Lower(U) == \A i \in U : Below(i) \cup Tied(i) \subseteq U
           Bad == {U \in SUBSET Items : /\ Lower(U)
                                        /\ Rank!Total(Contribution, U) # Count(U) * (Count(U) + 1)}
<1>1. Bad = {}
  <2> SUFFICES ASSUME Bad # {} PROVE FALSE
    OBVIOUS
  <2>1. PICK U \in Bad : \A V \in Bad : V \subseteq U => V = U
    <3>1. Bad \in SUBSET SUBSET Items
      OBVIOUS
    <3> HIDE DEF Bad
    <3> QED BY <3>1, RankBounds, SmallestSubset
  <2>2. /\ U \in SUBSET Items /\ IsFiniteSet(U) /\ Lower(U)
        /\ Rank!Total(Contribution, U) # Count(U) * (Count(U) + 1)
    BY RankBounds, FS_Subset
  <2>3. U # {}
    <3> SUFFICES ASSUME U = {} PROVE FALSE
      OBVIOUS
    <3> HIDE DEF Bad
    <3>1. Rank!Total(Contribution, {}) = 0 /\ Count({}) = 0
      BY <2>2, TotalSteps, CountIs
    <3>2. Rank!Total(Contribution, U) = 0 /\ Count(U) = 0
      BY <3>1
    <3>3. 0 = Count(U) * (Count(U) + 1)
      BY <3>2
    <3> QED BY <2>2, <3>2, <3>3
  <2>4. PICK i \in U : \A j \in U : score[i] >= score[j]
    <3> DEFINE V == {score[j] : j \in U}
               f == [j \in U |-> score[j]]
    <3>1. V \in SUBSET Int /\ V # {}
      BY <2>2, <2>3 DEF RankTypeOK
    <3>2. f \in Surjection(U, V)
      BY DEF Surjection
    <3>3. IsFiniteSet(V)
      <4> HIDE DEF f, V
      <4> QED BY <2>2, <3>2, FS_Surjection
    <3>4. \E v \in V : \A y \in V : v >= y
      <4> HIDE DEF V
      <4> QED BY <3>1, <3>3, GreatestExists
    <3> QED BY <3>4
  <2> DEFINE b == Count(Below(i))
             c == Count(Tied(i))
  <2>5. \A j \in Items : score[j] \in Int
    BY DEF RankTypeOK
  <2>6. U = Below(i) \cup Tied(i) /\ Below(i) \cap Tied(i) = {}
    <3>1. U \subseteq Below(i) \cup Tied(i)
      BY <2>2, <2>4, <2>5 DEF Below, Tied
    <3>2. Below(i) \cup Tied(i) \subseteq U
      BY <2>2
    <3>3. Below(i) \cap Tied(i) = {}
      BY <2>2, <2>5 DEF Below, Tied
    <3> QED BY <3>1, <3>2, <3>3
  <2>7. i \in Items /\ i \in Tied(i) /\ Below(i) \in SUBSET Items
    BY <2>2 DEF Below, Tied
  <2>8. Lower(Below(i))
    BY <2>2, <2>5 DEF Below, Tied
  <2>9. Rank!Total(Contribution, Below(i)) = b * (b + 1)
    <3>1. Below(i) \subseteq U /\ Below(i) # U
      BY <2>6, <2>7
    <3>2. Below(i) \notin Bad
      BY <2>1, <3>1
    <3> QED BY <2>7, <2>8, <3>2
  <2> HIDE DEF Bad
  <2>10. Rank!Total(Contribution, Tied(i)) = c * (2 * b + c + 1)
    BY <2>7, TieContributes
  <2>11. Rank!Total(Contribution, Below(i) \cup Tied(i))
           = Rank!Total(Contribution, Below(i)) + Rank!Total(Contribution, Tied(i))
    <3>1. \A x \in Below(i) \cup Tied(i) : Contribution[x] \in Int
      BY <2>2, <2>6, ContributionInt
    <3> QED BY <2>2, <2>6, <3>1, TotalUnion
  <2>12. Count(U) = b + c /\ b \in Nat /\ c \in Nat
    BY <2>6, CountIs
  <2> HIDE DEF b, c
  <2>13. b * (b + 1) + c * (2 * b + c + 1) = (b + c) * ((b + c) + 1)
    BY <2>12
  <2> QED BY <2>2, <2>6, <2>9, <2>10, <2>11, <2>12, <2>13
<1>2. Lower(Items)
  BY DEF Below, Tied
<1>3. Rank!Total(Contribution, Items) = Count(Items) * (Count(Items) + 1)
  BY <1>1, <1>2
<1> QED
  BY <1>3, CountIs DEF Rank!RanksHaveTheirMean, Contribution

-----------------------------------------------------------------------------
(* A draw: each index of the drawn months is added once.                           *)

Occurs(s, i) == Cardinality({p \in DOMAIN s : s[p] = i})

LEMMA OccursConcat ==
  ASSUME NEW s \in Seq(Items), NEW t \in Seq(Items), NEW i
  PROVE  Occurs(s \o t, i) = Occurs(s, i) + Occurs(t, i) /\ Occurs(s, i) \in Nat
<1> DEFINE n == Len(s)
           A == {p \in 1 .. n : s[p] = i}
           B == {q \in 1 .. Len(t) : t[q] = i}
           C == {n + q : q \in B}
           shift == [q \in B |-> n + q]
<1>1. n \in Nat /\ Len(t) \in Nat /\ DOMAIN s = 1 .. n /\ DOMAIN t = 1 .. Len(t)
  OBVIOUS
<1>2. /\ DOMAIN (s \o t) = 1 .. (n + Len(t))
      /\ \A p \in 1 .. n : (s \o t)[p] = s[p]
      /\ \A q \in 1 .. Len(t) : (s \o t)[n + q] = t[q]
  OBVIOUS
<1>3. IsFiniteSet(1 .. n) /\ IsFiniteSet(1 .. Len(t))
  BY <1>1, FS_Interval
<1>4. IsFiniteSet(A) /\ IsFiniteSet(B) /\ Cardinality(A) \in Nat /\ Cardinality(B) \in Nat
  <2>1. A \in SUBSET (1 .. n) /\ B \in SUBSET (1 .. Len(t))
    OBVIOUS
  <2> HIDE DEF A, B, n
  <2> QED BY <1>3, <2>1, FS_Subset, FS_CardinalityType
<1>5. {p \in DOMAIN (s \o t) : (s \o t)[p] = i} = A \cup C
  <2> HIDE DEF n
  <2>1. ASSUME NEW p \in 1 .. (n + Len(t)), (s \o t)[p] = i PROVE p \in A \cup C
    <3>1. CASE p <= n
      BY <1>1, <1>2, <2>1, <3>1
    <3>2. CASE p > n
      <4>1. p - n \in 1 .. Len(t) /\ p = n + (p - n)
        BY <1>1, <3>2
      <4>2. t[p - n] = i
        BY <1>2, <2>1, <4>1
      <4> QED BY <4>1, <4>2
    <3> QED BY <1>1, <3>1, <3>2
  <2>2. ASSUME NEW p \in A \cup C PROVE p \in 1 .. (n + Len(t)) /\ (s \o t)[p] = i
    BY <1>1, <1>2
  <2> HIDE DEF A, C
  <2> QED BY <1>2, <2>1, <2>2
<1>6. A \cap C = {}
  BY <1>1
<1>7. IsFiniteSet(C) /\ Cardinality(C) = Cardinality(B)
  <2>1. shift \in Bijection(B, C)
    <3>1. shift \in [B -> C]
      OBVIOUS
    <3>2. \A x, y \in B : shift[x] = shift[y] => x = y
      BY <1>1
    <3>3. \A z \in C : \E x \in B : shift[x] = z
      OBVIOUS
    <3> HIDE DEF shift, B, C
    <3> QED BY <3>1, <3>2, <3>3 DEF Bijection, Injection, Surjection, IsInjective
  <2> HIDE DEF shift, B, C
  <2> QED BY <1>4, <2>1, FS_Bijection DEF ExistsBijection
<1>10. Occurs(s \o t, i) = Cardinality(A \cup C)
  BY <1>5 DEF Occurs
<1>11. Occurs(s, i) = Cardinality(A) /\ Occurs(t, i) = Cardinality(B)
  BY <1>1 DEF Occurs
<1> HIDE DEF A, B, C, n
<1>8. Cardinality(A \cup C) = Cardinality(A) + Cardinality(C) - Cardinality(A \cap C)
  BY <1>4, <1>7, FS_Union
<1>9. Cardinality(A \cap C) = 0
  BY <1>6, FS_EmptySet
<1>12. Cardinality(A \cup C) = Cardinality(A) + Cardinality(B) - 0
  BY <1>7, <1>8, <1>9
<1> QED BY <1>4, <1>10, <1>11, <1>12

\* The indices of a month, each of them once.
LEMMA BlockIs ==
  ASSUME RankTypeOK, NEW m
  PROVE  /\ Rank!Block(m) \in Seq(Items)
         /\ \A i \in Items : Occurs(Rank!Block(m), i) = IF month[i] = m THEN 1 ELSE 0
<1> DEFINE S == {i \in Items : month[i] = m}
           n == Cardinality(S)
           block == Rank!Block(m)
<1>1. S \in SUBSET Items
  OBVIOUS
<1> HIDE DEF S
<1>2. IsFiniteSet(S) /\ n \in Nat /\ ExistsBijection(1 .. n, S)
  BY <1>1, RankBounds, FS_Subset, FS_CardinalityType
<1>3. block \in [1 .. n -> S] /\ \A a, b \in 1 .. n : block[a] = block[b] => a = b
  <2>1. PICK f \in Bijection(1 .. n, S) : TRUE
    BY <1>2 DEF ExistsBijection
  <2>2. f \in [1 .. n -> S] /\ \A a, b \in 1 .. n : f[a] = f[b] => a = b
    BY <2>1 DEF Bijection, Injection, IsInjective
  <2>3. f \in [1 .. n -> S] /\ Rank!IsInjective(f)
    BY <2>2 DEF Rank!IsInjective
  <2>4. block = CHOOSE g \in [1 .. n -> S] : Rank!IsInjective(g)
    BY RankFinite DEF Rank!Block, Rank!SetToSeq, S
  <2> HIDE DEF block, n
  <2>5. block \in [1 .. n -> S] /\ Rank!IsInjective(block)
    BY <2>3, <2>4
  <2> QED BY <2>5 DEF Rank!IsInjective
<1>4. block \in Surjection(1 .. n, S)
  <2>1. Cardinality(1 .. n) = n
    BY <1>2, FS_Interval
  <2>2. block \in Injection(1 .. n, S)
    BY <1>3 DEF Injection, IsInjective
  <2> HIDE DEF block
  <2> QED BY <1>2, <2>1, <2>2, FS_Injection
<1> HIDE DEF block, n
<1>5. block \in Seq(Items) /\ DOMAIN block = 1 .. n
  BY <1>1, <1>2, <1>3
<1>6. ASSUME NEW i \in Items PROVE Occurs(block, i) = IF month[i] = m THEN 1 ELSE 0
  <2>1. CASE i \in S
    <3>1. PICK p \in 1 .. n : block[p] = i
      BY <1>4, <2>1 DEF Surjection
    <3>2. {q \in DOMAIN block : block[q] = i} = {p}
      BY <1>3, <1>5, <3>1
    <3> QED BY <2>1, <3>2, FS_Singleton DEF Occurs, S
  <2>2. CASE i \notin S
    <3>1. {q \in DOMAIN block : block[q] = i} = {}
      BY <1>3, <1>5, <2>2
    <3> QED BY <2>2, <3>1, FS_EmptySet DEF Occurs, S
  <2> QED BY <2>1, <2>2
<1> QED BY <1>5, <1>6 DEF block

Joins(f, seqs, n) ==
  f = [i \in 1 .. n |-> IF i = 1 THEN seqs[i] ELSE f[i - 1] \o seqs[i]]

LEMMA JoinsExist ==
  ASSUME NEW seqs, NEW n \in Nat
  PROVE  \E f : Joins(f, seqs, n)
<1> DEFINE Bad == {k \in 0 .. n : ~ \E f : Joins(f, seqs, k)}
<1> SUFFICES ASSUME Bad # {} PROVE FALSE
  OBVIOUS
<1>1. PICK k \in Bad : \A j \in Bad : k <= j
  <2>1. Bad \in SUBSET Int /\ Bad \in SUBSET (0 .. n)
    OBVIOUS
  <2>2. IsFiniteSet(0 .. n)
    BY FS_Interval
  <2> HIDE DEF Bad
  <2>3. IsFiniteSet(Bad)
    BY <2>1, <2>2, FS_Subset
  <2> QED BY <2>1, <2>3, LeastExists
<1>2. k \in 0 .. n /\ ~ \E f : Joins(f, seqs, k)
  OBVIOUS
<1>3. CASE k = 0
  <2>1. Joins([i \in 1 .. 0 |-> 0], seqs, 0)
    BY DEF Joins
  <2> QED BY <1>2, <1>3, <2>1
<1>4. CASE k # 0
  <2>1. k - 1 \in 0 .. n /\ k - 1 \notin Bad
    BY <1>1, <1>2, <1>4
  <2>2. PICK g : Joins(g, seqs, k - 1)
    BY <2>1
  <2> HIDE DEF Bad
  <2> DEFINE last == IF k = 1 THEN seqs[k] ELSE g[k - 1] \o seqs[k]
             f == [i \in 1 .. k |-> IF i = k THEN last ELSE g[i]]
             h == [i \in 1 .. k |-> IF i = 1 THEN seqs[i] ELSE f[i - 1] \o seqs[i]]
             e == [i \in 1 .. (k - 1) |-> IF i = 1 THEN seqs[i] ELSE g[i - 1] \o seqs[i]]
  <2>3. g = e
    BY <2>2 DEF Joins
  <2>4. \A i \in 1 .. (k - 1) : g[i] = IF i = 1 THEN seqs[i] ELSE g[i - 1] \o seqs[i]
    <3>1. \A i \in 1 .. (k - 1) : e[i] = IF i = 1 THEN seqs[i] ELSE g[i - 1] \o seqs[i]
      OBVIOUS
    <3> HIDE DEF e
    <3> QED BY <2>3, <3>1
  <2>5. ASSUME NEW i \in 1 .. k PROVE f[i] = h[i]
    <3>1. CASE i = 1
      <4>1. h[i] = seqs[i]
        BY <3>1
      <4>2. f[i] = seqs[i]
        <5>1. CASE k = 1
          BY <3>1, <5>1
        <5>2. CASE k # 1
          <6>1. i \in 1 .. (k - 1) /\ i # k
            BY <1>2, <3>1, <5>2
          <6>2. f[i] = g[i]
            BY <6>1
          <6> HIDE DEF f
          <6> QED BY <2>4, <3>1, <6>1, <6>2
        <5> QED BY <5>1, <5>2
      <4> QED BY <4>1, <4>2
    <3>2. CASE i # 1
      <4>1. i - 1 \in 1 .. k /\ i - 1 # k /\ i - 1 \in 1 .. (k - 1)
        BY <1>2, <3>2
      <4>2. f[i - 1] = g[i - 1]
        BY <4>1
      <4>3. h[i] = f[i - 1] \o seqs[i]
        <5> HIDE DEF f
        <5> QED BY <3>2
      <4>4. f[i] = g[i - 1] \o seqs[i]
        <5>1. CASE i = k
          BY <3>2, <5>1
        <5>2. CASE i # k
          <6>1. i \in 1 .. (k - 1)
            BY <1>2, <5>2
          <6>2. f[i] = g[i]
            BY <5>2
          <6> HIDE DEF f
          <6> QED BY <2>4, <3>2, <6>1, <6>2
        <5> QED BY <5>1, <5>2
      <4> HIDE DEF f, h
      <4> QED BY <4>2, <4>3, <4>4
    <3> QED BY <3>1, <3>2
  <2>6. f = h
    <3> SUFFICES \A i \in 1 .. k : f[i] = h[i]
      OBVIOUS
    <3> QED BY <2>5
  <2>7. Joins(f, seqs, k)
    BY <2>6 DEF Joins
  <2> HIDE DEF f
  <2> QED BY <1>2, <2>7
<1> QED BY <1>3, <1>4

LEMMA JoinsAt ==
  ASSUME NEW f, NEW seqs, NEW n, Joins(f, seqs, n), NEW k \in 1 .. n
  PROVE  f[k] = IF k = 1 THEN seqs[k] ELSE f[k - 1] \o seqs[k]
<1> DEFINE h == [i \in 1 .. n |-> IF i = 1 THEN seqs[i] ELSE f[i - 1] \o seqs[i]]
<1>1. f = h
  BY DEF Joins
<1>2. h[k] = IF k = 1 THEN seqs[k] ELSE f[k - 1] \o seqs[k]
  OBVIOUS
<1> HIDE DEF h
<1> QED BY <1>1, <1>2

Drawn(start, take) == [k \in 1 .. take |-> Rank!Block(start + k - 1)]
InBlock(m, start, take) == m \in start .. (start + take - 1)

\* The blocks of consecutive months, joined, hold each index of those months once.
LEMMA FlattenIs ==
  ASSUME RankTypeOK, NEW start \in Int, NEW take \in Nat \ {0}
  PROVE  /\ Rank!FlattenSeq(Drawn(start, take)) \in Seq(Items)
         /\ \A i \in Items : Occurs(Rank!FlattenSeq(Drawn(start, take)), i)
                               = IF InBlock(month[i], start, take) THEN 1 ELSE 0
<1> DEFINE seqs == Drawn(start, take)
           f == CHOOSE g : Joins(g, seqs, take)
           P(k) == /\ f[k] \in Seq(Items)
                   /\ \A i \in Items : Occurs(f[k], i) = IF InBlock(month[i], start, k) THEN 1 ELSE 0
           Bad == {k \in 1 .. take : ~ P(k)}
<1>1. Len(seqs) = take
  BY DEF Drawn
<1>2. Rank!FlattenSeq(seqs) = f[take]
  <2> HIDE DEF seqs
  <2>1. Rank!FlattenSeq(seqs) = (CHOOSE g : Joins(g, seqs, Len(seqs)))[Len(seqs)]
    BY <1>1 DEF Rank!FlattenSeq, Joins
  <2> QED BY <1>1, <2>1
<1>3. Joins(f, seqs, take)
  <2> HIDE DEF seqs
  <2> QED BY JoinsExist
<1>4. \A k \in 1 .. take : seqs[k] = Rank!Block(start + k - 1)
  BY DEF Drawn
<1>5. \A i \in Items : month[i] \in Int
  BY DEF RankTypeOK
<1> HIDE DEF seqs, f
<1>6. \A k \in 1 .. take : f[k] = IF k = 1 THEN seqs[k] ELSE f[k - 1] \o seqs[k]
  BY <1>3, JoinsAt
<1>7. \A k \in 1 .. take :
        /\ seqs[k] \in Seq(Items)
        /\ \A i \in Items : Occurs(seqs[k], i) = IF month[i] = start + k - 1 THEN 1 ELSE 0
  BY <1>4, BlockIs
<1>8. Bad = {}
  <2> SUFFICES ASSUME Bad # {} PROVE FALSE
    OBVIOUS
  <2>1. PICK k \in Bad : \A j \in Bad : k <= j
    <3>1. Bad \in SUBSET Int /\ Bad \in SUBSET (1 .. take)
      OBVIOUS
    <3>2. IsFiniteSet(1 .. take)
      BY FS_Interval
    <3> HIDE DEF Bad
    <3>3. IsFiniteSet(Bad)
      BY <3>1, <3>2, FS_Subset
    <3> QED BY <3>1, <3>3, LeastExists
  <2>2. k \in 1 .. take /\ ~ P(k)
    OBVIOUS
  <2>3. CASE k = 1
    <3>1. f[1] = seqs[1]
      BY <1>6, <2>2, <2>3
    <3>2. \A i \in Items : InBlock(month[i], start, 1) <=> month[i] = start + 1 - 1
      BY <1>5 DEF InBlock
    <3> QED BY <1>7, <2>2, <2>3, <3>1, <3>2
  <2>4. CASE k # 1
    <3>1. k - 1 \in 1 .. take /\ P(k - 1)
      <4>1. k - 1 \in 1 .. take /\ k - 1 \notin Bad
        BY <2>1, <2>2, <2>4
      <4> QED BY <4>1
    <3>2. f[k] = f[k - 1] \o seqs[k]
      BY <1>6, <2>2, <2>4
    <3>3. f[k] \in Seq(Items)
      BY <1>7, <2>2, <3>1, <3>2
    <3>4. ASSUME NEW i \in Items
          PROVE  Occurs(f[k], i) = IF InBlock(month[i], start, k) THEN 1 ELSE 0
      <4>1. Occurs(f[k], i) = Occurs(f[k - 1], i) + Occurs(seqs[k], i)
        <5>1. f[k - 1] \in Seq(Items) /\ seqs[k] \in Seq(Items)
          BY <1>7, <2>2, <3>1
        <5> HIDE DEF P, Bad
        <5> QED BY <3>2, <5>1, OccursConcat
      <4>2. /\ Occurs(f[k - 1], i) = IF InBlock(month[i], start, k - 1) THEN 1 ELSE 0
            /\ Occurs(seqs[k], i) = IF month[i] = start + k - 1 THEN 1 ELSE 0
        BY <1>7, <2>2, <3>1
      <4>3. /\ InBlock(month[i], start, k)
                 <=> InBlock(month[i], start, k - 1) \/ month[i] = start + k - 1
            /\ ~ (InBlock(month[i], start, k - 1) /\ month[i] = start + k - 1)
        BY <1>5, <2>2, <3>1 DEF InBlock
      <4> HIDE DEF P, Bad
      <4> QED BY <4>1, <4>2, <4>3
    <3> HIDE DEF Bad
    <3> QED BY <2>2, <3>3, <3>4
  <2> QED BY <2>3, <2>4
<1>9. P(take)
  BY <1>8
<1> QED BY <1>2, <1>9 DEF seqs

LEMMA LesserIs ==
  ASSUME NEW a \in Int, NEW b \in Int
  PROVE  Rank!Min({a, b}) = IF a <= b THEN a ELSE b
BY DEF Rank!Min

\* Each drawn month gives every index of it one more repetition.
LEMMA DrawAdds ==
  ASSUME RankTypeOK, Rank!Draw
  PROVE  \E start \in Int, take \in Nat :
           /\ take \in 1 .. remaining /\ remaining' = remaining - take
           /\ chosen' \in Seq(Items)
           /\ \A i \in Items : Rank!Multiplicity'[i]
                = Rank!Multiplicity[i] + (IF InBlock(month[i], start, take) THEN 1 ELSE 0)
<1> DEFINE take == Rank!Min({BlockMonths, remaining})
<1>1. take \in 1 .. remaining /\ take \in Nat \ {0}
  <2>1. BlockMonths \in Nat \ {0} /\ remaining \in Nat \ {0}
    BY RankBounds DEF RankTypeOK, Rank!Draw
  <2>2. take = IF BlockMonths <= remaining THEN BlockMonths ELSE remaining
    BY <2>1, LesserIs
  <2> QED BY <2>1, <2>2
<1> HIDE DEF take
<1>2. PICK start \in 1 .. (Span - BlockMonths + 1) :
        chosen' = chosen \o Rank!FlattenSeq(Drawn(start, take))
  BY DEF Rank!Draw, take, Drawn
<1>3. remaining' = remaining - take
  BY DEF Rank!Draw, take
<1> DEFINE flat == Rank!FlattenSeq(Drawn(start, take))
<1>4. /\ flat \in Seq(Items)
      /\ \A i \in Items : Occurs(flat, i) = IF InBlock(month[i], start, take) THEN 1 ELSE 0
  BY <1>1, FlattenIs
<1>5. chosen \in Seq(Items)
  BY DEF RankTypeOK
<1> HIDE DEF flat
<1>6. chosen' = chosen \o flat
  BY <1>2 DEF flat
<1>7. chosen' \in Seq(Items)
  BY <1>4, <1>5, <1>6
<1>8. ASSUME NEW i \in Items
      PROVE  Rank!Multiplicity'[i]
               = Rank!Multiplicity[i] + (IF InBlock(month[i], start, take) THEN 1 ELSE 0)
  <2>1. Rank!Multiplicity[i] = Occurs(chosen, i) /\ Rank!Multiplicity'[i] = Occurs(chosen', i)
    BY RankFinite DEF Rank!Multiplicity, Occurs
  <2>2. Occurs(chosen \o flat, i) = Occurs(chosen, i) + Occurs(flat, i)
    BY <1>4, <1>5, OccursConcat
  <2>3. Occurs(chosen', i) = Occurs(chosen, i) + Occurs(flat, i)
    BY <1>6, <2>2
  <2> QED BY <1>4, <2>1, <2>3
<1>9. start \in Int /\ take \in Nat
  BY <1>1
<1> QED BY <1>1, <1>3, <1>7, <1>8, <1>9

\* What grows by one on the members of a set has grown by at most its size.
LEMMA TotalGrows ==
  ASSUME NEW f, NEW g, NEW S, IsFiniteSet(S), NEW B, IsFiniteSet(B),
         \A x \in S : f[x] \in Int /\ g[x] = f[x] + (IF x \in B THEN 1 ELSE 0)
  PROVE  Rank!Total(g, S) <= Rank!Total(f, S) + Cardinality(B)
<1> DEFINE n(s) == Cardinality(s \cap B)
           G == [s \in SUBSET S |-> Rank!Total(f, s) + n(s)]
<1>1. \A s \in SUBSET S : /\ s \cap B \in SUBSET B /\ IsFiniteSet(s \cap B)
                          /\ n(s) \in Nat /\ n(s) <= Cardinality(B)
  BY FS_Subset, FS_CardinalityType
<1>2. Cardinality(B) \in Nat
  BY FS_CardinalityType
<1>3. \A s \in SUBSET S : Rank!Total(f, s) \in Int
  BY TotalInt
<1>4. ASSUME NEW s \in SUBSET S, NEW x \in s
      PROVE  n(s) = n(s \ {x}) + (IF x \in B THEN 1 ELSE 0)
  <2>1. CASE x \in B
    <3>1. (s \ {x}) \cap B = (s \cap B) \ {x} /\ x \in s \cap B /\ IsFiniteSet(s \cap B)
      BY <1>1, <2>1
    <3>2. Cardinality((s \cap B) \ {x}) = Cardinality(s \cap B) - 1
      BY <3>1, FS_RemoveElement
    <3>3. n(s) \in Nat /\ n(s \ {x}) = n(s) - 1
      BY <1>1, <3>1, <3>2
    <3> HIDE DEF n
    <3> QED BY <2>1, <3>3
  <2>2. CASE x \notin B
    <3>1. (s \ {x}) \cap B = s \cap B
      BY <2>2
    <3>2. n(s) \in Nat /\ n(s \ {x}) = n(s)
      BY <1>1, <3>1
    <3> HIDE DEF n
    <3> QED BY <2>2, <3>2
  <2> QED BY <2>1, <2>2
<1>5. G[{}] = 0
  <2>1. {} \cap B = {} /\ n({}) = 0
    BY FS_EmptySet
  <2>2. Rank!Total(f, {}) = 0
    BY TotalSteps
  <2>3. G[{}] = Rank!Total(f, {}) + n({})
    OBVIOUS
  <2> HIDE DEF G, n
  <2> QED BY <2>1, <2>2, <2>3
<1>6. ASSUME NEW s \in SUBSET S, NEW x \in s PROVE G[s] = G[s \ {x}] + g[x]
  <2>1. Rank!Total(f, s) = Rank!Total(f, s \ {x}) + f[x]
    BY TotalAdd
  <2>2. n(s) = n(s \ {x}) + (IF x \in B THEN 1 ELSE 0)
    BY <1>4
  <2>3. s \ {x} \in SUBSET S
    OBVIOUS
  <2>4. Rank!Total(f, s \ {x}) \in Int /\ n(s \ {x}) \in Nat /\ f[x] \in Int
    BY <1>1, <1>3, <2>3
  <2>5. G[s] = Rank!Total(f, s) + n(s) /\ G[s \ {x}] = Rank!Total(f, s \ {x}) + n(s \ {x})
    BY <2>3
  <2>6. g[x] = f[x] + (IF x \in B THEN 1 ELSE 0)
    OBVIOUS
  <2> HIDE DEF G, n
  <2> QED BY <2>1, <2>2, <2>4, <2>5, <2>6
<1>7. G[S] = Rank!Total(f, S) + n(S)
  OBVIOUS
<1> HIDE DEF G
<1>8. Rank!Total(g, S) = G[S]
  <2>1. AddsUp(G, g, S)
    BY <1>5, <1>6 DEF AddsUp
  <2> QED BY <2>1, TotalClosed
<1>9. n(S) \in Nat /\ n(S) <= Cardinality(B) /\ Rank!Total(f, S) \in Int
  BY <1>1, <1>3
<1> HIDE DEF n
<1> QED BY <1>2, <1>7, <1>8, <1>9

MonthCount ==
  [m \in Rank!NonEmpty |-> Rank!Max({Rank!Multiplicity[i] : i \in {j \in Items : month[j] = m}})]

\* Where the filings of a month move together, a month counts as often as any of them.
LEMMA MonthCountIs ==
  RankTypeOK /\ Rank!MonthsMoveTogether =>
    /\ IsFiniteSet(Rank!NonEmpty) /\ Rank!NonEmpty \subseteq Int
    /\ \A i \in Items : month[i] \in Rank!NonEmpty
    /\ \A m \in Rank!NonEmpty : \E i \in Items : month[i] = m
    /\ \A i \in Items : MonthCount[month[i]] = Rank!Multiplicity[i]
    /\ \A i \in Items : Rank!Multiplicity[i] \in Nat
<1> SUFFICES ASSUME RankTypeOK, Rank!MonthsMoveTogether
             PROVE  /\ IsFiniteSet(Rank!NonEmpty) /\ Rank!NonEmpty \subseteq Int
                    /\ \A i \in Items : month[i] \in Rank!NonEmpty
                    /\ \A m \in Rank!NonEmpty : \E i \in Items : month[i] = m
                    /\ \A i \in Items : MonthCount[month[i]] = Rank!Multiplicity[i]
                    /\ \A i \in Items : Rank!Multiplicity[i] \in Nat
  OBVIOUS
<1>1. month \in Surjection(Items, Rank!NonEmpty)
  BY DEF RankTypeOK, Rank!NonEmpty, Surjection
<1>2. IsFiniteSet(Rank!NonEmpty)
  BY <1>1, RankBounds, FS_Surjection
<1>3. Rank!NonEmpty \subseteq Int /\ (\A i \in Items : month[i] \in Rank!NonEmpty)
      /\ \A m \in Rank!NonEmpty : \E i \in Items : month[i] = m
  BY DEF RankTypeOK, Rank!NonEmpty
<1>4. \A i \in Items : Rank!Multiplicity[i] \in Nat
  BY WeightsAre
<1>5. ASSUME NEW i \in Items PROVE MonthCount[month[i]] = Rank!Multiplicity[i]
  <2> DEFINE counts == {Rank!Multiplicity[j] : j \in {k \in Items : month[k] = month[i]}}
  <2>1. MonthCount[month[i]] = Rank!Max(counts)
    BY <1>3 DEF MonthCount
  <2>2. counts = {Rank!Multiplicity[i]}
    BY DEF Rank!MonthsMoveTogether
  <2> HIDE DEF counts
  <2>3. Rank!Max({Rank!Multiplicity[i]}) = Rank!Multiplicity[i]
    <3>1. Rank!Multiplicity[i] \in Nat
      BY <1>4
    <3> QED BY <3>1 DEF Rank!Max
  <2> QED BY <2>1, <2>2, <2>3
<1> QED BY <1>2, <1>3, <1>4, <1>5

RankInv ==
  /\ RankTypeOK
  /\ Rank!MonthsMoveTogether /\ Rank!DrawSpansMonths

LEMMA SpansIs ==
  Rank!DrawSpansMonths <=> Rank!Total(MonthCount, Rank!NonEmpty) <= Span - remaining
BY DEF Rank!DrawSpansMonths, MonthCount

LEMMA RankInvInit ==
  ASSUME Rank!Init
  PROVE  RankInv
<1>1. RankTypeOK
  <2>1. score \in [Items -> Int] /\ month \in [Items -> 1 .. Span]
    BY RankBounds DEF Rank!Init
  <2>2. chosen \in Seq(Items)
    BY DEF Rank!Init
  <2>3. remaining \in 0 .. Span
    BY RankBounds DEF Rank!Init
  <2> QED BY <2>1, <2>2, <2>3 DEF RankTypeOK
<1>2. \A i \in Items : Rank!Multiplicity[i] = 0
  <2>1. \A i : {p \in DOMAIN chosen : chosen[p] = i} = {}
    BY DEF Rank!Init
  <2>2. Cardinality({}) = 0
    BY FS_EmptySet
  <2> QED BY <2>1, <2>2, RankFinite DEF Rank!Multiplicity
<1>3. Rank!MonthsMoveTogether
  BY <1>2 DEF Rank!MonthsMoveTogether
<1> DEFINE G == [s \in SUBSET Rank!NonEmpty |-> 0]
<1>4. AddsUp(G, MonthCount, Rank!NonEmpty)
  <2>1. \A m \in Rank!NonEmpty : MonthCount[m] = 0
    BY <1>1, <1>2, <1>3, MonthCountIs
  <2> SUFFICES ASSUME NEW s \in SUBSET Rank!NonEmpty, NEW x \in s
               PROVE  G[s] = G[s \ {x}] + MonthCount[x]
    BY DEF AddsUp
  <2>2. G[s] = 0 /\ G[s \ {x}] = 0 /\ MonthCount[x] = 0
    BY <2>1
  <2> HIDE DEF G
  <2> QED BY <2>2
<1>5. Rank!Total(MonthCount, Rank!NonEmpty) = G[Rank!NonEmpty]
  <2>1. IsFiniteSet(Rank!NonEmpty)
    BY <1>1, <1>3, MonthCountIs
  <2> HIDE DEF G
  <2> QED BY <1>4, <2>1, TotalClosed
<1>6. remaining = Span
  BY DEF Rank!Init
<1> QED BY <1>1, <1>3, <1>5, <1>6, RankBounds, SpansIs DEF RankInv

LEMMA RankInvStep ==
  ASSUME RankInv, [Rank!Next]_(Rank!vars)
  PROVE  RankInv'
<1>1. CASE Rank!Draw
  <2>1. PICK start \in Int, take \in Nat :
          /\ take \in 1 .. remaining /\ remaining' = remaining - take
          /\ chosen' \in Seq(Items)
          /\ \A i \in Items : Rank!Multiplicity'[i]
               = Rank!Multiplicity[i] + (IF InBlock(month[i], start, take) THEN 1 ELSE 0)
    BY <1>1, DrawAdds DEF RankInv
  <2>2. score' = score /\ month' = month
    BY <1>1 DEF Rank!Draw
  <2>3. RankTypeOK'
    <3>1. score' \in [Items -> Int] /\ month' \in [Items -> 1 .. Span]
      BY <2>2 DEF RankInv, RankTypeOK
    <3>2. remaining' \in 0 .. Span
      BY <2>1, RankBounds DEF RankInv, RankTypeOK
    <3> QED BY <2>1, <3>1, <3>2 DEF RankTypeOK
  <2>4. Rank!MonthsMoveTogether'
    BY <2>1, <2>2 DEF RankInv, Rank!MonthsMoveTogether
  <2> DEFINE N == Rank!NonEmpty
             f == MonthCount
             g == MonthCount'
             B == start .. (start + take - 1)
  <2>5. Rank!NonEmpty' = N
    BY <2>2 DEF Rank!NonEmpty
  <2>6. /\ IsFiniteSet(N) /\ \A m \in N : \E i \in Items : month[i] = m
        /\ \A i \in Items : MonthCount[month[i]] = Rank!Multiplicity[i]
                            /\ Rank!Multiplicity[i] \in Nat
    BY MonthCountIs DEF RankInv
  <2>7. \A i \in Items : g[month'[i]] = Rank!Multiplicity'[i]
    <3>1. (RankTypeOK /\ Rank!MonthsMoveTogether =>
             \A i \in Items : MonthCount[month[i]] = Rank!Multiplicity[i])'
      BY MonthCountIs, PTL
    <3> QED BY <2>3, <2>4, <3>1
  <2>8. \A m \in N : f[m] \in Int /\ g[m] = f[m] + (IF m \in B THEN 1 ELSE 0)
    BY <2>1, <2>2, <2>6, <2>7 DEF InBlock
  <2>9. IsFiniteSet(B) /\ Cardinality(B) = take
    <3>1. start + take - 1 \in Int /\ (start + take - 1) - start + 1 = take
          /\ (start <= start + take - 1)
      BY <2>1
    <3> QED BY <3>1, FS_Interval
  <2>10. Rank!Total(f, N) \in Int
    BY <2>6, <2>8, TotalInt
  <2>11. Rank!Total(f, N) <= Span - remaining
    BY SpansIs DEF RankInv
  <2>12. remaining \in Int /\ Span \in Int
    BY RankBounds DEF RankInv, RankTypeOK
  <2> HIDE DEF N, f, g, B
  <2>13. Rank!Total(g, N) <= Rank!Total(f, N) + Cardinality(B)
    BY <2>6, <2>8, <2>9, TotalGrows
  <2>14. Rank!Total(g, N) \in Int
    BY <2>6, <2>8, TotalInt
  <2>15. Rank!Total(g, N) <= Span - remaining'
    BY <2>1, <2>9, <2>10, <2>11, <2>12, <2>13, <2>14
  <2>16. Rank!DrawSpansMonths'
    BY <2>5, <2>15 DEF Rank!DrawSpansMonths, MonthCount, N, g
  <2> QED BY <2>3, <2>4, <2>16 DEF RankInv
<1>2. CASE Rank!Finish \/ UNCHANGED Rank!vars
  <2>1. /\ score' = score /\ month' = month /\ chosen' = chosen /\ remaining' = remaining
    BY <1>2 DEF Rank!Finish, Rank!vars
  <2>2. Rank!Multiplicity' = Rank!Multiplicity /\ Rank!NonEmpty' = Rank!NonEmpty
    BY <2>1 DEF Rank!Multiplicity, Rank!NonEmpty
  <2>3. RankTypeOK' /\ Rank!MonthsMoveTogether' /\ Rank!DrawSpansMonths'
    BY <2>1, <2>2 DEF RankInv, RankTypeOK, Rank!MonthsMoveTogether, Rank!DrawSpansMonths
  <2> QED BY <2>3 DEF RankInv
<1> QED BY <1>1, <1>2 DEF Rank!Next

\* In every draw the weighted ranks are the ranks of the repeated sample and sum to
\* n (n + 1), filings of a month move together, and no draw exceeds the months that it
\* used up: replacing the sort by weights changes no bootstrap statistic.
THEOREM BootstrapExact == Rank!Spec => []BootstrapIsExact
<1>1. RankInv => BootstrapIsExact
  BY RanksExpanded, RanksBalance DEF RankInv, BootstrapIsExact
<1> QED
  BY <1>1, RankInvInit, RankInvStep, PTL DEF Rank!Spec

=============================================================================
