--------------------------- MODULE MCSourceIndex ---------------------------
(***************************************************************************)
(* Small instances of SourceIndex.                                         *)
(***************************************************************************)
EXTENDS SourceIndex, TLC

\* Each file may have as many versions as any.
Alike == {[p \in Paths |-> MaxVersions]}

\* Processes do the same things, ids and well-formed contents are only compared
\* for equality, and paths have no order: a permutation of any of them changes
\* nothing.
Symmetry ==
  UNION {Permutations(S) : S \in {Procs, SourceIds, Contents \ Malformed, Paths}}
=============================================================================
