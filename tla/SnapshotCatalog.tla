-------------------------- MODULE SnapshotCatalog ---------------------------
(***************************************************************************)
(* What the snapshot commands promise to whoever queries, with no process, *)
(* no file name and no failure in sight: a snapshot appears with all its   *)
(* maps at once and readable, gains no map later, cannot be read again     *)
(* once its import was interrupted unless the import settles it, stays     *)
(* readable from then on until it is dropped, and never comes back.  A     *)
(* local root that goes takes its maps; one that returns brings none.      *)
(***************************************************************************)
CONSTANTS
  Snapshots,      \* ids of snapshots
  SnapshotRoots,  \* the roots a manifest describes
  Roots           \* local roots

VARIABLES
  phase,     \* how far each snapshot is in its life
  readable,  \* snapshots whose payload a query can open
  maps,      \* which root of which snapshot answers for which local root
  away       \* local roots that are not there

vars == <<phase, readable, maps, away>>

\* The local roots a snapshot may be imported for: one for each of its own.
Assignment == {f \in [SnapshotRoots -> Roots \ away] :
                 \A x, y \in SnapshotRoots : f[x] = f[y] => x = y}

MapsFor(s, f) == {[snapshot |-> s, from |-> x, to |-> f[x]] : x \in SnapshotRoots}

MapsLeft(s) == {m \in maps : m.snapshot # s}

Init ==
  /\ phase = [s \in Snapshots |-> "new"]
  /\ readable = {}
  /\ maps = {}
  /\ away = {}

\* An import registers s, whole and completely mapped.
Add(s) ==
  /\ phase[s] = "new"
  /\ phase' = [phase EXCEPT ![s] = "staged"]
  /\ readable' = readable \cup {s}
  /\ \E f \in Assignment : maps' = maps \cup MapsFor(s, f)
  /\ UNCHANGED away

\* The payload of a snapshot whose import is not over goes out of reach.
Hide(s) ==
  /\ phase[s] = "staged"
  /\ readable' = readable \ {s}
  /\ UNCHANGED <<phase, maps, away>>

\* The import is over: the registration names the payload's last place.
Settle(s) ==
  /\ phase[s] = "staged"
  /\ phase' = [phase EXCEPT ![s] = "settled"]
  /\ readable' = readable \cup {s}
  /\ UNCHANGED <<maps, away>>

\* An import that could not settle takes its maps back.
Withhold(s) ==
  /\ phase[s] = "staged"
  /\ maps' = MapsLeft(s)
  /\ UNCHANGED <<phase, readable, away>>

\* The registration goes, with its maps.
Drop(s) ==
  /\ phase[s] \in {"staged", "settled"}
  /\ phase' = [phase EXCEPT ![s] = "gone"]
  /\ readable' = readable \ {s}
  /\ maps' = MapsLeft(s)
  /\ UNCHANGED away

\* A local root is removed, with every map to it.
Forget(r) ==
  /\ away' = away \cup {r}
  /\ maps' = {m \in maps : m.to # r}
  /\ UNCHANGED <<phase, readable>>

\* It is there again, and no snapshot answers for it.
Readmit(r) ==
  /\ r \in away
  /\ away' = away \ {r}
  /\ UNCHANGED <<phase, readable, maps>>

Next ==
  \/ \E s \in Snapshots :
       Add(s) \/ Hide(s) \/ Settle(s) \/ Withhold(s) \/ Drop(s)
  \/ \E r \in Roots : Forget(r) \/ Readmit(r)

Spec == Init /\ [][Next]_vars
=============================================================================
