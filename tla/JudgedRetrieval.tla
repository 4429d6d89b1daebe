-------------------------- MODULE JudgedRetrieval --------------------------
(***************************************************************************)
(* An evaluation (eval.rs: evaluate_existing) asks Retrieval and measures  *)
(* the response by Evaluation.                                             *)
(***************************************************************************)
EXTENDS Retrieval, Evaluation

\* evaluate_existing names a hit by its document and anchor: here, its file.
Ref(i) == File[result[i].hit.seg]

\* An evaluation asks an index nobody changes, without snapshots.
Isolated ==
  /\ changes = 0
  /\ \A i \in DOMAIN result : IsLocal(result[i].hit)

\* Measured by an evaluation, a response has a reference once (which recall
\* relies on: it counts hits, not references), and the measures hold against
\* every judgment.
ResponsesAreMeasured ==
  at = "done" /\ Isolated =>
    LET refs == [i \in DOMAIN result |-> Ref(i)]
    IN Duplicates(refs) = {} /\ MeasuresHold(refs)
=============================================================================
