------------------------- MODULE MCSnapshotRegistry -------------------------
(* Small instances of SnapshotRegistry for TLC.                            *)
EXTENDS SnapshotRegistry, TLC

VARIABLE alone  \* history: no two commands overlapped, and nothing has failed

\* At most one process runs a command.
OneBusy == \A k, l \in Procs : pc[k] # "idle" /\ pc[l] # "idle" => k = l

MCInit == Init /\ alone = TRUE

MCNext ==
  /\ Next
  /\ alone' = (alone /\ faults' = 0 /\ OneBusy')

MCSpec == MCInit /\ [][MCNext]_<<vars, alone>>

\* Nothing tells two processes, ids, roots or roots of a manifest apart.
Symmetry ==
  UNION {Permutations(S) : S \in {Procs, Snapshots, SnapshotRoots, Roots}}

\* One command at a time and no failure: the managed directory holds the
\* payloads of the registered snapshots and nothing else, and a removal that
\* reported success (snapshot.rs:1056) has deleted its payload.  A removal that
\* overtakes the rename of an import leaves the payload behind.
OneAtATime == alone => NothingIsLeft /\ RemovedIsGone
=============================================================================
