--------------------------- MODULE RankStatistics ---------------------------
(***************************************************************************)
(* forward/metrics.py and forward/uncertainty.py: the ranks behind the     *)
(* pooled rank IC, and the moving-block bootstrap of its interval.  A draw *)
(* repeats whole months; instead of sorting the repeated observations it   *)
(* weights the ranks of the original ones.  Ranks are doubled, so that the *)
(* average rank of a tie is an integer.                                    *)
(***************************************************************************)
EXTENDS Integers, Sequences, FiniteSets, FiniteSetsExt, SequencesExt

CONSTANTS
  Items,        \* indices of the settled pairs
  Values,       \* scores, in their order (a label is ranked in the same way)
  Span,         \* calendar months from the first filing to the last
  BlockMonths,  \* BLOCK_MONTHS
  MinimumMonths \* MINIMUM_NONEMPTY_MONTHS

\* What an instance must satisfy; the MC modules assume it.
BlocksFit ==
  /\ IsFiniteSet(Items) /\ Values \subseteq Int
  /\ {Span, MinimumMonths} \subseteq Nat /\ BlockMonths \in 1 .. MinimumMonths

VARIABLES
  score,     \* score of each item
  month,     \* month of each item
  status,    \* "bootstrap", "insufficient_months" or "ready"
  chosen,    \* the indices drawn so far, in order
  remaining  \* months still to draw

vars == <<score, month, status, chosen, remaining>>

Total(f, S) == FoldSet(LAMBDA i, n : n + f[i], 0, S)

-----------------------------------------------------------------------------
(* Ranks                                                                   *)

\* _ordered_tie_groups: the indices of each distinct value, ascending.
OrderedTieGroups(values) ==
  LET distinct == {values[i] : i \in DOMAIN values}
      place(v) == Cardinality({d \in distinct : d <= v})
  IN  [k \in 1 .. Cardinality(distinct) |-> {i \in DOMAIN values : place(values[i]) = k}]

WeightedRanksUnadvanced(groups, weight) ==  \* mutant: a group of one does not count its repetitions
  LET Size(k) == Total(weight, groups[k])
      Step(k) == IF Cardinality(groups[k]) = 1 THEN Min({Size(k), 1}) ELSE Size(k)
      Preceding(k) == Total([j \in 1 .. (k - 1) |-> Step(j)], 1 .. (k - 1))
  IN  [i \in DOMAIN weight |->
         LET k == CHOOSE g \in DOMAIN groups : i \in groups[g]
         IN  IF Size(k) = 0 \/ weight[i] = 0 THEN 0 ELSE 2 * Preceding(k) + Size(k) + 1]

\* _weighted_ranks: a group takes the average rank of all its repetitions.
WeightedRanks(groups, weight) ==
  LET Size(k) == Total(weight, groups[k])
      Preceding(k) == Total([j \in 1 .. (k - 1) |-> Size(j)], 1 .. (k - 1))
  IN  [i \in DOMAIN weight |->
         LET k == CHOOSE g \in DOMAIN groups : i \in groups[g]
         IN  IF Size(k) = 0 THEN 0 ELSE 2 * Preceding(k) + Size(k) + 1]

\* _average_ranks of a sample: the positions cursor + 1 .. end of a tie, on average.
AverageRanks(values) ==
  [p \in DOMAIN values |->
     LET below == Cardinality({q \in DOMAIN values : values[q] < values[p]})
         upto  == Cardinality({q \in DOMAIN values : values[q] <= values[p]})
     IN  below + 1 + upto]

-----------------------------------------------------------------------------
(* The bootstrap                                                           *)

Multiplicity == [i \in Items |-> Cardinality({p \in DOMAIN chosen : chosen[p] = i})]
NonEmpty     == {month[i] : i \in Items}

\* The indices of a month; nothing depends on their order.
Block(m) == SetToSeq({i \in Items : month[i] = m})

Init ==
  /\ score \in [Items -> Values]
  /\ month \in [Items -> 1 .. Span]
  /\ {1, Span} \subseteq NonEmpty
  /\ status = IF Cardinality(NonEmpty) < MinimumMonths THEN "insufficient_months" ELSE "bootstrap"
  /\ chosen = <<>> /\ remaining = Span

\* _resample_month_indices, one block.
Draw ==
  /\ status = "bootstrap" /\ remaining > 0
  /\ LET take == Min({BlockMonths, remaining})
     IN  /\ \E start \in 1 .. (Span - BlockMonths + 1) :
              chosen' = chosen \o FlattenSeq([k \in 1 .. take |-> Block(start + k - 1)])
         /\ remaining' = remaining - take
  /\ UNCHANGED <<score, month, status>>

\* _bootstrap, after the draw.
Finish ==
  /\ status = "bootstrap" /\ remaining = 0
  /\ status' = "ready"
  /\ UNCHANGED <<score, month, chosen, remaining>>

Next == Draw \/ Finish
Spec == Init /\ [][Next]_vars

-----------------------------------------------------------------------------
(* Properties                                                              *)

\* A draw is made of indices, block after block, until no month remains.
TypeOK ==
  /\ chosen \in Seq(Items) /\ remaining \in 0 .. Span
  /\ status \in {"bootstrap", "ready", "insufficient_months"}
  /\ status = "ready" => remaining = 0

Ranks  == WeightedRanks(OrderedTieGroups(score), Multiplicity)
Sample == [p \in DOMAIN chosen |-> score[chosen[p]]]

\* The weighted ranks are the ranks of the sample that was drawn, ties included: the
\* shortcut that sorts each vector once changes no bootstrap statistic.
WeightedIsExpanded ==
  \A p \in DOMAIN chosen : Ranks[chosen[p]] = AverageRanks(Sample)[p]

\* The doubled ranks sum to n (n + 1): their mean is the (count + 1) / 2 that
\* _weighted_spearman takes for granted.
RanksHaveTheirMean ==
  Total([i \in Items |-> Multiplicity[i] * Ranks[i]], Items) = Len(chosen) * (Len(chosen) + 1)

\* Filings of a month move together: a draw never separates them.
MonthsMoveTogether ==
  \A i, j \in Items : month[i] = month[j] => Multiplicity[i] = Multiplicity[j]

\* A draw has exactly as many months as the span, the empty ones included: those with
\* filings are never more.
DrawSpansMonths ==
  Total([m \in NonEmpty |-> Max({Multiplicity[i] : i \in {j \in Items : month[j] = m}})], NonEmpty)
    <= Span - remaining
=============================================================================
