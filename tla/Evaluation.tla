----------------------------- MODULE Evaluation -----------------------------
(***************************************************************************)
(* What an evaluation (eval.rs) makes of the response to one judged query: *)
(* the references of its hits in order, against the labels of a judgment.  *)
(* A rate is a pair, numerator and denominator; 1/log2(rank + 1) is any    *)
(* falling table of whole numbers.                                         *)
(***************************************************************************)
EXTENDS Integers, Sequences, FiniteSets, Sums

CONSTANTS
  Refs,         \* document#anchor, of hits and labels
  Discount,     \* of each rank
  Small, Large  \* the cut-offs

ASSUME EvaluationAssumption ==
  /\ IsFiniteSet(Refs)
  /\ Discount \in Seq(Nat \ {0})
  /\ \A i, j \in DOMAIN Discount : i < j => Discount[j] < Discount[i]
  /\ Large \in 0..Len(Discount)
  /\ Small \in 0..Large

\* validate_bundle: a judgment has a positive label.
Judgments ==
  {j \in [required : SUBSET Refs, acceptable : SUBSET Refs] :
     j.required \cup j.acceptable # {}}

\* relevance_grades: a label that is both is required.  A misleading one
\* counts like an unlabelled one.
Grade(j, ref) ==
  IF ref \in j.required THEN 2 ELSE IF ref \in j.acceptable THEN 1 ELSE 0

\* Mutant: acceptable hits count as well.
MutantFound(refs, j, k) ==
  {i \in DOMAIN refs : i <= k /\ Grade(j, refs[i]) > 0}

Found(refs, j, k) == {i \in DOMAIN refs : i <= k /\ refs[i] \in j.required}

\* recall_at
Recall(refs, j, k) ==
  IF j.required = {} THEN <<1, 1>>
  ELSE <<Cardinality(Found(refs, j, k)), Cardinality(j.required)>>

\* mrr_one: the rank of the first positive hit; 0 for none.
FirstRank(refs, j) ==
  LET positive == {i \in DOMAIN refs : Grade(j, refs[i]) > 0}
  IN IF positive = {} THEN 0
     ELSE CHOOSE i \in positive : \A e \in positive : i <= e

\* The positive grades, the highest first.
Ideal(j) ==
  [i \in 1..Cardinality(j.required \cup j.acceptable) |->
     IF i <= Cardinality(j.required) THEN 2 ELSE 1]

Gains(grades, k) ==
  Total([i \in {i \in DOMAIN grades : i <= k} |->
           (2^grades[i] - 1) * Discount[i]])

\* ndcg_at
Ndcg(refs, j, k) ==
  <<Gains([i \in DOMAIN refs |-> Grade(j, refs[i])], k), Gains(Ideal(j), k)>>

\* aggregate_metrics: hits whose reference an earlier one has.
Duplicates(refs) ==
  {i \in DOMAIN refs : \E e \in DOMAIN refs : e < i /\ refs[e] = refs[i]}

AtMost(p, q) == p[1] * q[2] <= q[1] * p[2]

-----------------------------------------------------------------------------
(* The measures are what they are called, for a response and every         *)
(* judgment: recall grows with the cut-off and is at most 1; nDCG is at    *)
(* most 1, and is 1 exactly if no other response has better grades; a hit  *)
(* within the cut-off has a reciprocal rank to show for it.                *)
MeasuresHold(refs) ==
  \A j \in Judgments :
    /\ AtMost(Recall(refs, j, Small), Recall(refs, j, Large))
    /\ AtMost(Recall(refs, j, Large), <<1, 1>>)
    /\ AtMost(Ndcg(refs, j, Large), <<1, 1>>)
    /\ Ndcg(refs, j, Large)[1] = Ndcg(refs, j, Large)[2] <=>
         \A i \in DOMAIN Ideal(j) :
           i <= Large =>
             i \in DOMAIN refs /\ Grade(j, refs[i]) = Ideal(j)[i]
    /\ Found(refs, j, Large) # {} => FirstRank(refs, j) \in 1..Large
=============================================================================
