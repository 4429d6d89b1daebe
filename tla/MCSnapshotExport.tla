-------------------------- MODULE MCSnapshotExport --------------------------
(* Small instances of SnapshotExport for TLC.                              *)
EXTENDS SnapshotExport, TLC

\* Nothing tells two processes, destinations, roots or paths apart.
Symmetry == UNION {Permutations(S) : S \in {Procs, Destinations, Roots, Names}}
=============================================================================
