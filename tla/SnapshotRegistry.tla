-------------------------- MODULE SnapshotRegistry --------------------------
(***************************************************************************)
(* Imported snapshots (snapshot.rs): import_snapshot with its compensation,*)
(* remove_snapshot, and what list_snapshots and eligible_snapshot_sources  *)
(* make of the registry.  An import touches the managed directory and the  *)
(* snapshots and snapshot_root_maps tables, which share no transaction;    *)
(* roots are disabled, indexed and removed meanwhile, each by a command    *)
(* that works on the configuration it loaded at its start: RootLifecycle   *)
(* has those commands, this module what they may do here, at any moment.   *)
(*                                                                         *)
(* Every SQLite transaction and every operation on a file is one step, and *)
(* Procs are command-line processes, at most one command each at a time.   *)
(* A manifest is what its snapshot roots are; every manifest has the same. *)
(***************************************************************************)
EXTENDS Naturals

CONSTANTS
  Procs,          \* command-line processes
  Snapshots,      \* values Uuid::new_v4 may return
  SnapshotRoots,  \* the roots a manifest describes
  Roots,          \* local roots
  None,           \* no value yet in a process
  MaxFaults       \* bound: crashes and failed statements or file operations

ASSUME SnapshotRegistryAssumption ==
  /\ None \notin Snapshots
  /\ SnapshotRoots # {}
  /\ MaxFaults \in Nat

VARIABLES
  rows,      \* the row of each root in the roots table
  registry,  \* rows of snapshots, by id: the file payload_path names
  maps,      \* rows of snapshot_root_maps
  files,     \* files of each snapshot in the managed directory
  issued,    \* ids handed out so far
  pc,        \* where each process is in its command
  job,       \* locals of the command
  faults,    \* crashes and failures so far
  granted,   \* history: the maps of every registration
  lost,      \* history: the maps that went with the row of their local root
  leaving,   \* roots some `root remove` has taken out of the file
  removed    \* history: snapshots whose removal was reported as done

database == <<rows, registry, maps>>
histories == <<granted, lost, leaving, removed>>
vars == <<database, files, issued, pc, job, faults, histories>>
-----------------------------------------------------------------------------
\* The --map arguments import_snapshot accepts: every snapshot root, once,
\* and no local root twice.
Mappings == {f \in [SnapshotRoots -> Roots] :
               \A x, y \in SnapshotRoots : f[x] = f[y] => x = y}

Map == [snapshot : Snapshots, from : SnapshotRoots, to : Roots]

\* .ID.tmp and ID.sqlite3
Name == {"tmp", "final"}

FileState == {"missing", "partial", "whole"}

ImportStep == {"copying", "copied", "committed", "renamed",
               "undo_maps", "undo_row", "undo_file"}
RemoveStep == {"removing", "deregistered"}
Step == {"idle", "mapping"} \cup ImportStep \cup RemoveStep

Job == [snapshot  : Snapshots \cup {None},
        map       : Mappings \cup {None},
        unchecked : SUBSET SnapshotRoots,
        payload   : Name \cup {None}]

NoJob == [snapshot |-> None, map |-> None, unchecked |-> {}, payload |-> None]

Registered(s) == registry[s] # "none"

MapsOf(s) == {m \in maps : m.snapshot = s}

\* payload_path names a file.
Healthy(s) == Registered(s) /\ files[s][registry[s]] # "missing"

\* What list_snapshots and inspect_snapshot report.
Queryable(s) == Healthy(s) /\ {m.from : m \in MapsOf(s)} = SnapshotRoots

\* eligible_snapshot_sources: the sources a query opens whose configuration has
\* those roots enabled.
Eligible(enabled) == {m \in maps : Healthy(m.snapshot) /\ m.to \in enabled}
-----------------------------------------------------------------------------
Init ==
  /\ rows = [r \in Roots |-> "enabled"]
  /\ registry = [s \in Snapshots |-> "none"]
  /\ maps = {}
  /\ files = [s \in Snapshots |-> [n \in Name |-> "missing"]]
  /\ issued = {}
  /\ pc = [k \in Procs |-> "idle"]
  /\ job = [k \in Procs |-> NoJob]
  /\ faults = 0
  /\ granted = {}
  /\ lost = {}
  /\ leaving = {}
  /\ removed = {}

Goto(k, step) == pc' = [pc EXCEPT ![k] = step]

\* The command returns, with or without an error.
Return(k) == Goto(k, "idle") /\ job' = [job EXCEPT ![k] = NoJob]

Fault == faults < MaxFaults /\ faults' = faults + 1

SetFile(s, n, state) == files' = [files EXCEPT ![s][n] = state]
-----------------------------------------------------------------------------
(* Roots: their rows.  A command that writes one goes by the configuration *)
(* it loaded at its start, so nothing here depends on what the file says   *)
(* by then: any number of commands may have loaded any configuration that  *)
(* has the root, enabled or disabled, before it was taken out.             *)

\* `omnisem index` upserts the root as the configuration it loaded had it: a
\* row that was deleted since comes back, without its maps.
Reindex(r) ==
  /\ \E entry \in {"enabled", "disabled"} : rows' = [rows EXCEPT ![r] = entry]
  /\ UNCHANGED <<registry, maps, files, issued, pc, job, faults, histories>>

\* `omnisem root remove` saves a configuration without the root first ...
Unapprove(r) ==
  /\ leaving' = leaving \cup {r}
  /\ UNCHANGED <<database, files, issued, pc, job, faults, granted, lost, removed>>

\* Mutant: the maps of a removed root do not go with it.
MutantDeleteRoot(r) ==
  /\ r \in leaving
  /\ rows[r] # "none"
  /\ rows' = [rows EXCEPT ![r] = "none"]
  /\ UNCHANGED <<registry, maps, files, issued, pc, job, faults, histories>>

\* ... then delete_root_derived; the maps of the root go by ON DELETE CASCADE.
DeleteRoot(r) ==
  /\ r \in leaving
  /\ rows[r] # "none"
  /\ rows' = [rows EXCEPT ![r] = "none"]
  /\ maps' = {m \in maps : m.to # r}
  /\ lost' = lost \cup {m \in maps : m.to = r}
  /\ UNCHANGED <<registry, files, issued, pc, job, faults, granted, leaving, removed>>
-----------------------------------------------------------------------------
(* import_snapshot.                                                        *)

\* The source tree, manifest, payload and --map arguments are valid.
StartImport(k) ==
  /\ pc[k] = "idle"
  /\ Goto(k, "mapping")
  /\ \E f \in Mappings :
       job' = [job EXCEPT ![k] =
         [snapshot |-> None, map |-> f, unchecked |-> SnapshotRoots, payload |-> None]]
  /\ UNCHANGED <<database, files, issued, faults, histories>>

\* SELECT enabled FROM roots, for one map.
CheckRoot(k, x) ==
  /\ pc[k] = "mapping"
  /\ x \in job[k].unchecked
  /\ rows[job[k].map[x]] = "enabled"
  /\ job' = [job EXCEPT ![k].unchecked = @ \ {x}]
  /\ UNCHANGED <<database, files, issued, pc, faults, histories>>

\* The local root is disabled or not there.
RefuseRoot(k, x) ==
  /\ pc[k] = "mapping"
  /\ x \in job[k].unchecked
  /\ rows[job[k].map[x]] # "enabled"
  /\ Return(k)
  /\ UNCHANGED <<database, files, issued, faults, histories>>

\* A fresh id; fs::copy creates the temporary file and begins to fill it.
BeginCopy(k) ==
  /\ pc[k] = "mapping"
  /\ job[k].unchecked = {}
  /\ \E s \in Snapshots \ issued :
       /\ issued' = issued \cup {s}
       /\ SetFile(s, "tmp", "partial")
       /\ job' = [job EXCEPT ![k].snapshot = s]
  /\ Goto(k, "copying")
  /\ UNCHANGED <<database, faults, histories>>

\* fs::copy is done and validate_payload_database accepts the managed copy.
EndCopy(k) ==
  /\ pc[k] = "copying"
  /\ SetFile(job[k].snapshot, "tmp", "whole")
  /\ Goto(k, "copied")
  /\ UNCHANGED <<database, issued, job, faults, histories>>

CopyFails(k) ==
  /\ pc[k] = "copying"
  /\ Fault
  /\ SetFile(job[k].snapshot, "tmp", "missing")
  /\ Return(k)
  /\ UNCHANGED <<database, issued, histories>>

\* The foreign key of snapshot_root_maps.local_root_id.
RootsExist(k) == \A x \in SnapshotRoots : rows[job[k].map[x]] # "none"

\* The rows of the import under way.
Requested(k) ==
  {[snapshot |-> job[k].snapshot, from |-> x, to |-> job[k].map[x]] : x \in SnapshotRoots}

\* Mutant: the rows are written before the copy is complete.
MutantRegister(k) ==
  /\ pc[k] \in {"copying", "copied"}
  /\ RootsExist(k)
  /\ registry' = [registry EXCEPT ![job[k].snapshot] = "tmp"]
  /\ maps' = maps \cup Requested(k)
  /\ granted' = granted \cup Requested(k)
  /\ Goto(k, "committed")
  /\ UNCHANGED <<rows, files, issued, job, faults, lost, leaving, removed>>

\* The transaction that inserts the snapshot and all its maps commits.
Register(k) ==
  /\ pc[k] = "copied"
  /\ RootsExist(k)
  /\ registry' = [registry EXCEPT ![job[k].snapshot] = "tmp"]
  /\ maps' = maps \cup Requested(k)
  /\ granted' = granted \cup Requested(k)
  /\ Goto(k, "committed")
  /\ UNCHANGED <<rows, files, issued, job, faults, lost, leaving, removed>>

\* An INSERT or the COMMIT fails: the temporary file goes, the transaction
\* is rolled back.
RegisterFails(k) ==
  /\ pc[k] = "copied"
  /\ IF RootsExist(k) THEN Fault ELSE UNCHANGED faults
  /\ SetFile(job[k].snapshot, "tmp", "missing")
  /\ Return(k)
  /\ UNCHANGED <<database, issued, histories>>

\* fs::rename to the final name.
Rename(k) ==
  LET s == job[k].snapshot IN
  /\ pc[k] = "committed"
  /\ files[s]["tmp"] # "missing"
  /\ files' = [files EXCEPT ![s] = [tmp |-> "missing", final |-> files[s]["tmp"]]]
  /\ Goto(k, "renamed")
  /\ UNCHANGED <<database, issued, job, faults, histories>>

RenameFails(k) ==
  /\ pc[k] = "committed"
  /\ IF files[job[k].snapshot]["tmp"] = "missing" THEN UNCHANGED faults ELSE Fault
  /\ Goto(k, "undo_maps")
  /\ UNCHANGED <<database, files, issued, job, histories>>

\* Mutant: the UPDATE names no row.
MutantUpdatePath(k) ==
  /\ pc[k] = "renamed"
  /\ Return(k)
  /\ UNCHANGED <<database, files, issued, faults, histories>>

\* Mutant: the row is written whether or not it is still there.
MutantPutPath(k) ==
  /\ pc[k] = "renamed"
  /\ registry' = [registry EXCEPT ![job[k].snapshot] = "final"]
  /\ Return(k)
  /\ UNCHANGED <<rows, maps, files, issued, faults, histories>>

\* UPDATE snapshots SET payload_path ... WHERE id = ?
UpdatePath(k) ==
  /\ pc[k] = "renamed"
  /\ registry' = [registry EXCEPT ![job[k].snapshot] =
                    IF @ = "none" THEN "none" ELSE "final"]
  /\ Return(k)
  /\ UNCHANGED <<rows, maps, files, issued, faults, histories>>

\* The UPDATE fails; its result is ignored and the import reports success.
UpdatePathFails(k) ==
  /\ pc[k] = "renamed"
  /\ Fault
  /\ Return(k)
  /\ UNCHANGED <<database, files, issued, histories>>

\* The compensation of a failed rename: three operations whose results are
\* ignored, the first two each a commit of its own.
UndoMaps(k) ==
  /\ pc[k] = "undo_maps"
  /\ maps' = maps \ MapsOf(job[k].snapshot)
  /\ Goto(k, "undo_row")
  /\ UNCHANGED <<rows, registry, files, issued, job, faults, histories>>

\* DELETE FROM snapshots; maps that are left go by ON DELETE CASCADE.
UndoRow(k) ==
  /\ pc[k] = "undo_row"
  /\ registry' = [registry EXCEPT ![job[k].snapshot] = "none"]
  /\ maps' = maps \ MapsOf(job[k].snapshot)
  /\ Goto(k, "undo_file")
  /\ UNCHANGED <<rows, files, issued, job, faults, histories>>

UndoFile(k) ==
  /\ pc[k] = "undo_file"
  /\ SetFile(job[k].snapshot, "tmp", "missing")
  /\ Return(k)
  /\ UNCHANGED <<database, issued, faults, histories>>

\* One of the two DELETEs fails, and the compensation goes on.
UndoFails(k) ==
  /\ pc[k] \in {"undo_maps", "undo_row"}
  /\ Fault
  /\ Goto(k, IF pc[k] = "undo_maps" THEN "undo_row" ELSE "undo_file")
  /\ UNCHANGED <<database, files, issued, job, histories>>
-----------------------------------------------------------------------------
(* remove_snapshot.                                                        *)

\* SELECT payload_path; the path lies in the managed directory.
FindSnapshot(k, s) ==
  /\ pc[k] = "idle"
  /\ Registered(s)
  /\ job' = [job EXCEPT ![k] =
       [snapshot |-> s, map |-> None, unchecked |-> {}, payload |-> registry[s]]]
  /\ Goto(k, "removing")
  /\ UNCHANGED <<database, files, issued, faults, histories>>

\* The transaction that deletes the maps and the snapshot commits.
Deregister(k) ==
  /\ pc[k] = "removing"
  /\ registry' = [registry EXCEPT ![job[k].snapshot] = "none"]
  /\ maps' = maps \ MapsOf(job[k].snapshot)
  /\ Goto(k, "deregistered")
  /\ UNCHANGED <<rows, files, issued, job, faults, histories>>

DeregisterFails(k) ==
  /\ pc[k] = "removing"
  /\ Fault
  /\ Return(k)
  /\ UNCHANGED <<database, files, issued, histories>>

\* Mutant: the file that goes is always the temporary one.
MutantDeletePayload(k) ==
  /\ pc[k] = "deregistered"
  /\ SetFile(job[k].snapshot, "tmp", "missing")
  /\ removed' = removed \cup {job[k].snapshot}
  /\ Return(k)
  /\ UNCHANGED <<database, issued, faults, granted, lost, leaving>>

\* The file payload_path named is removed, if it is there: success.
DeletePayload(k) ==
  /\ pc[k] = "deregistered"
  /\ SetFile(job[k].snapshot, job[k].payload, "missing")
  /\ removed' = removed \cup {job[k].snapshot}
  /\ Return(k)
  /\ UNCHANGED <<database, issued, faults, granted, lost, leaving>>

\* "registration removed but payload cleanup failed"
DeletePayloadFails(k) ==
  /\ pc[k] = "deregistered"
  /\ Fault
  /\ Return(k)
  /\ UNCHANGED <<database, files, issued, histories>>

\* The process dies between two steps.
Crash(k) ==
  /\ pc[k] # "idle"
  /\ Fault
  /\ Return(k)
  /\ UNCHANGED <<database, files, issued, histories>>
-----------------------------------------------------------------------------
Root(r) == Reindex(r) \/ Unapprove(r) \/ DeleteRoot(r)

Import(k) ==
  \/ StartImport(k)
  \/ \E x \in SnapshotRoots : CheckRoot(k, x)
  \/ \E x \in SnapshotRoots : RefuseRoot(k, x)
  \/ BeginCopy(k)
  \/ EndCopy(k)
  \/ CopyFails(k)
  \/ Register(k)
  \/ RegisterFails(k)
  \/ Rename(k)
  \/ RenameFails(k)
  \/ UpdatePath(k)
  \/ UpdatePathFails(k)
  \/ UndoMaps(k)
  \/ UndoRow(k)
  \/ UndoFile(k)
  \/ UndoFails(k)

Remove(k) ==
  \/ \E s \in Snapshots : FindSnapshot(k, s)
  \/ Deregister(k)
  \/ DeregisterFails(k)
  \/ DeletePayload(k)
  \/ DeletePayloadFails(k)

Next ==
  \/ \E r \in Roots : Root(r)
  \/ \E k \in Procs : Import(k) \/ Remove(k) \/ Crash(k)

Spec == Init /\ [][Next]_vars
-----------------------------------------------------------------------------
(* Properties                                                              *)

TypeOK ==
  /\ rows \in [Roots -> {"enabled", "disabled", "none"}]
  /\ registry \in [Snapshots -> {"none"} \cup Name]
  /\ maps \subseteq Map
  /\ files \in [Snapshots -> [Name -> FileState]]
  /\ issued \subseteq Snapshots
  /\ pc \in [Procs -> Step]
  /\ job \in [Procs -> Job]
  /\ faults \in Nat
  /\ granted \subseteq Map
  /\ lost \subseteq Map
  /\ leaving \subseteq Roots
  /\ removed \subseteq Snapshots

\* Every snapshot root was mapped, and its map is there unless it went with its
\* local root, which may be back without it.
Complete(s) ==
  \A x \in SnapshotRoots :
    \E m \in granted :
      /\ m.snapshot = s
      /\ m.from = x
      /\ m \in maps \cup lost

\* A snapshot registered under its final name has a payload that was copied
\* whole and validated, and every map it was imported with that did not go with
\* its local root, whatever imports, removals, crashes, failures and commands
\* with an old configuration did meanwhile (ADR-0017).
FinalIsSound ==
  \A s \in Snapshots :
    registry[s] = "final" => files[s]["final"] = "whole" /\ Complete(s)

\* A query opens no payload that is still being copied or was not validated,
\* even before the registration has its final name and whatever configuration
\* the query has loaded.
SearchedIsWhole ==
  \A m \in Eligible(Roots) : files[m.snapshot][registry[m.snapshot]] = "whole"

\* Foreign keys: a map belongs to a registered snapshot and a known root, and
\* was asked for in the import.
MapsAreOwned ==
  \A m \in maps : /\ m \in granted
                  /\ Registered(m.snapshot)
                  /\ rows[m.to] # "none"

\* What import k still holds of its snapshot, by step.
ImportOwns(k) ==
  LET s == job[k].snapshot IN
  /\ s \in issued
  /\ registry[s] # "final"
  /\ pc[k] # "copying" => files[s]["tmp"] # "partial"
  /\ pc[k] \in {"copying", "copied"} => registry[s] = "none"
  /\ pc[k] = "copied" => files[s]["tmp"] = "whole"
  /\ pc[k] = "renamed" => files[s]["final"] = "whole"
  /\ pc[k] \in {"committed", "renamed"} /\ Registered(s) => Complete(s)
  /\ job[k].map \in Mappings

\* What removal k may rely on.
RemovalOwns(k) ==
  LET s == job[k].snapshot IN
  /\ s \in issued
  /\ job[k].payload \in Name
  /\ pc[k] = "deregistered" => registry[s] = "none"
  /\ \A l \in Procs :
       pc[l] \in ImportStep /\ job[l].snapshot = s =>
         /\ pc[l] \notin {"copying", "copied"}
         /\ job[k].payload = "tmp"

\* An id is handed out once, and one import works on it.
IdsAreFresh ==
  /\ \A s \in Snapshots \ issued :
       registry[s] = "none" /\ \A m \in granted : m.snapshot # s
  /\ \A k, l \in Procs :
       /\ pc[k] \in ImportStep
       /\ pc[l] \in ImportStep
       /\ job[k].snapshot = job[l].snapshot
       => k = l

\* A registration is never ahead of the copy.
CopiesAreWhole ==
  \A s \in Snapshots :
    Registered(s) => files[s]["tmp"] # "partial"

\* What each process holds is still so, whatever the others did.
JobsHold ==
  \A k \in Procs :
    /\ pc[k] = "mapping" => job[k].map \in Mappings
    /\ pc[k] \in ImportStep => ImportOwns(k)
    /\ pc[k] \in RemoveStep => RemovalOwns(k)

\* The inductive invariant for any number of processes, crashes and failures.
Registration ==
  /\ TypeOK
  /\ FinalIsSound
  /\ MapsAreOwned
  /\ IdsAreFresh
  /\ CopiesAreWhole
  /\ JobsHold

Quiet == \A k \in Procs : pc[k] = "idle"

\* "Callers observe either a fully registered snapshot with a healthy payload
\* path or no registration" (ADR-0017): true of every interleaving of commands
\* while nothing crashes or fails. A crash between the rename and the UPDATE of
\* the path, or an UPDATE that fails, leaves a registration without a payload.
RegisteredIsHealthy ==
  Quiet /\ faults = 0 => \A s \in Snapshots : Registered(s) => Healthy(s)

\* One command at a time and no failure: the managed directory holds the
\* payloads of the registered snapshots under their final names, nothing else.
NothingIsLeft ==
  Quiet => \A s \in Snapshots :
    /\ registry[s] # "tmp"
    /\ files[s]["tmp"] = "missing"
    /\ files[s]["final"] # "missing" <=> Registered(s)

\* Remove "deletes only the managed payload" (cli.md), and does delete it: one
\* command at a time and no failure, a removal that reported success leaves no
\* payload. A removal that overtakes the rename of an import does leave it.
RemovedIsGone ==
  Quiet => \A s \in removed, n \in Name : files[s][n] = "missing"

\* Imported snapshots are "queryable only after complete explicit mapping"
\* (ADR-0015): a query opens only snapshots that list calls queryable.
SearchedIsQueryable == \A m \in Eligible(Roots) : Queryable(m.snapshot)

\* How far a snapshot is for whoever queries: it was registered once its maps
\* were granted.
Phase(s) ==
  CASE registry[s] = "tmp" -> "staged"
    [] registry[s] = "final" -> "settled"
    [] OTHER -> IF \E m \in granted : m.snapshot = s THEN "gone" ELSE "new"

\* Whatever imports, removals, crashes and failures overlap, the registry is a
\* SnapshotCatalog (snapshot.rs, ADR-0017): maps appear all at once and never
\* later, not even when a local root that was removed is put back by an index
\* run, a snapshot whose import is over stays readable until its registration
\* goes, and an id that was removed never comes back, not even when its own
\* import was still under way.
Catalog ==
  INSTANCE SnapshotCatalog WITH
    phase <- [s \in Snapshots |-> Phase(s)],
    readable <- {s \in Snapshots : Healthy(s)},
    away <- {r \in Roots : rows[r] = "none"}
ImplementsSnapshotCatalog == Catalog!Spec
=============================================================================
