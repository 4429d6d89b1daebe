--------------------------- MODULE SnapshotExport ---------------------------
(***************************************************************************)
(* export_snapshot of snapshot.rs: it copies the enabled roots, or one of  *)
(* them, into a payload with several SELECTs and no transaction around     *)
(* them, while an index run commits in between.  It works in a temporary   *)
(* directory next to the destination, named after the stem of the          *)
(* destination only, so that exports can meet in it.  What a destination   *)
(* ends up with is judged by the validation of import_snapshot.            *)
(*                                                                         *)
(* One segment per revision, whose row of segments and row of segments_fts *)
(* stand for each other.  The rows one SELECT yields are inserted in one   *)
(* step.                                                                   *)
(***************************************************************************)
EXTENDS Naturals, FiniteSets

CONSTANTS
  Procs,         \* export processes
  Destinations,  \* destinations with the same stem
  Roots, Names,  \* approved roots, and relative paths below each of them
  None,
  MaxChanges,    \* bound on the commits of other commands
  MaxExports,    \* bound on the exports that are started
  MaxFaults      \* bound on crashes and failed file operations

Source == Roots \X Names
Copy == Source \X Nat     \* a source with its current revision, 0 for NULL

ASSUME SnapshotExportAssumption ==
  None \notin [tables : BOOLEAN, roots : SUBSET Roots, sources : SUBSET Copy,
               revisions : SUBSET Copy, segments : SUBSET Copy]

VARIABLES
  rows,       \* rows of roots
  active,     \* source_files with state 'active'
  current,    \* the current revision of each source, 0 for NULL
  newest,     \* the revisions made so far
  temp,       \* the temporary directory
  published,  \* what is at each destination
  pc, job,    \* of each process
  changes, exports, faults

database == <<rows, active, current, newest>>
vars == <<database, temp, published, pc, job, changes, exports, faults>>

-----------------------------------------------------------------------------
(* Files                                                                   *)

\* A file that was opened and has no tables yet.
Blank ==
  [tables |-> FALSE, roots |-> {}, sources |-> {}, revisions |-> {},
   segments |-> {}]

\* No directory; the file payload.sqlite3 is what it holds and who has it open.
NoDirectory ==
  [exists |-> FALSE, payload |-> None, open |-> {}, manifest |-> None]

Counts(payload) ==
  <<Cardinality(payload.sources), Cardinality(payload.revisions),
    Cardinality(payload.segments)>>

\* SQLite refuses to write to a database file that was moved or unlinked.
Holds(k) == temp.payload # None /\ k \in temp.open

Idle ==
  [destination |-> None, only |-> {}, todo |-> {}, root |-> None,
   bytes |-> Blank, roots |-> {}, counts |-> Counts(Blank),
   alone |-> FALSE, moment |-> {}, lost |-> {}, seen |-> {}, changed |-> FALSE]

-----------------------------------------------------------------------------
(* The database: what the export's statements see.                         *)

Rows(root) == {<<s, current[s]>> : s \in {t \in active : t[1] = root}}

CurrentRevisions(root) == {c \in Rows(root) : c[2] # 0}

Served == UNION {CurrentRevisions(r) : r \in Roots}

\* Mutant: the segments of every revision of the active sources.
MutantCurrentSegments(root) ==
  {c \in Source \X (1 .. MaxChanges + 1) :
     /\ c[1] \in active
     /\ c[1][1] = root
     /\ c[2] <= newest[c[1]]}

CurrentSegments(root) == CurrentRevisions(root)

\* An index that finished; what else there may be comes by a Change.
Init ==
  /\ rows = [r \in Roots |-> "enabled"]
  /\ active \in SUBSET Source
  /\ current = [s \in Source |-> IF s \in active THEN 1 ELSE 0]
  /\ newest = current
  /\ temp = NoDirectory
  /\ published = [d \in Destinations |-> None]
  /\ pc = [k \in Procs |-> "idle"]
  /\ job = [k \in Procs |-> Idle]
  /\ changes = 0
  /\ exports = 0
  /\ faults = 0

\* A commit of another command; the histories of the exports under way.
Change(lost) ==
  /\ changes < MaxChanges
  /\ changes' = changes + 1
  /\ job' = [k \in Procs |->
       IF pc[k] = "idle" THEN job[k]
       ELSE [job[k] EXCEPT !.lost = @ \cup lost, !.seen = @ \cup Served',
                           !.changed = TRUE]]
  /\ UNCHANGED <<temp, published, pc, exports, faults>>

\* upsert_source_file of a document that has no revision yet.
Upsert(s) ==
  /\ rows[s[1]] # "removed"
  /\ s \notin active
  /\ active' = active \cup {s}
  /\ UNCHANGED <<rows, current, newest>>
  /\ Change({})

\* promote_revision.
Promote(s) ==
  /\ s \in active
  /\ newest' = [newest EXCEPT ![s] = @ + 1]
  /\ current' = [current EXCEPT ![s] = newest[s] + 1]
  /\ UNCHANGED <<rows, active>>
  /\ Change({})

\* mark_source_deleted.
MarkDeleted(s) ==
  /\ s \in active
  /\ active' = active \ {s}
  /\ current' = [current EXCEPT ![s] = 0]
  /\ UNCHANGED <<rows, newest>>
  /\ Change({s})

\* upsert_root, of a root that was enabled or disabled in the configuration.
UpsertRoot(r) ==
  /\ rows[r] # "removed"
  /\ rows' = [rows EXCEPT ![r] = IF @ = "enabled" THEN "disabled" ELSE "enabled"]
  /\ UNCHANGED <<active, current, newest>>
  /\ Change({})

\* delete_root_derived.
DeleteRoot(r) ==
  /\ rows[r] # "removed"
  /\ rows' = [rows EXCEPT ![r] = "removed"]
  /\ active' = {s \in active : s[1] # r}
  /\ current' = [s \in Source |-> IF s[1] = r THEN 0 ELSE current[s]]
  /\ UNCHANGED newest
  /\ Change({s \in active : s[1] = r})

-----------------------------------------------------------------------------
(* export_snapshot                                                         *)

At(k, here) ==
  pc[k] = here /\ UNCHANGED <<database, changes, exports>>

Fault == faults < MaxFaults /\ faults' = faults + 1

Goto(k, there) == pc' = [pc EXCEPT ![k] = there] /\ UNCHANGED <<published, faults>>

\* An error of the export leaves the temporary directory as it is.
Ends(k) ==
  /\ pc' = [pc EXCEPT ![k] = "idle"]
  /\ job' = [job EXCEPT ![k] = Idle]

Fails(k) == Ends(k) /\ UNCHANGED <<temp, published, faults>>

\* The destination does not exist.  Only one root, or all of them.
Start(k, d, only) ==
  /\ pc[k] = "idle"
  /\ exports < MaxExports
  /\ published[d] = None
  /\ exports' = exports + 1
  /\ LET others == {l \in Procs : pc[l] # "idle"}
     IN job' = [l \in Procs |->
                  IF l = k
                  THEN [Idle EXCEPT !.destination = d, !.only = only,
                                    !.alone = (others = {}), !.seen = Served]
                  ELSE [job[l] EXCEPT !.alone = FALSE]]
  /\ Goto(k, "clear")
  /\ UNCHANGED <<database, temp, changes>>

\* What an earlier export left behind is removed ...
Clear(k) ==
  /\ At(k, "clear")
  /\ temp' = NoDirectory
  /\ Goto(k, "make")
  /\ UNCHANGED job

\* ... or not: the result of remove_dir_all is ignored.
ClearFails(k) ==
  /\ At(k, "clear")
  /\ temp.exists
  /\ Fault
  /\ pc' = [pc EXCEPT ![k] = "make"]
  /\ UNCHANGED <<temp, published, job>>

\* create_dir_all accepts a directory that exists.
MakeDirectory(k) ==
  /\ At(k, "make")
  /\ temp' = [temp EXCEPT !.exists = TRUE]
  /\ Goto(k, "open")
  /\ UNCHANGED job

\* Connection::open: the file that is there, or a new one.
File(payload) == IF payload = None THEN Blank ELSE payload

Open(k) ==
  /\ At(k, "open")
  /\ IF temp.exists
     THEN /\ temp' = [temp EXCEPT !.payload = File(@), !.open = @ \cup {k}]
          /\ Goto(k, "create")
          /\ UNCHANGED job
     ELSE Fails(k)

\* Mutant: CREATE TABLE IF NOT EXISTS.
MutantCreateTables(k) ==
  /\ At(k, "create")
  /\ IF Holds(k)
     THEN /\ temp' = [temp EXCEPT !.payload.tables = TRUE]
          /\ Goto(k, "roots")
          /\ UNCHANGED job
     ELSE Fails(k)

\* CREATE TABLE fails if there is one.
CreateTables(k) ==
  /\ At(k, "create")
  /\ IF Holds(k) /\ ~temp.payload.tables
     THEN /\ temp' = [temp EXCEPT !.payload.tables = TRUE]
          /\ Goto(k, "roots")
          /\ UNCHANGED job
     ELSE Fails(k)

SelectRoots(k) ==
  /\ At(k, "roots")
  /\ LET found == {r \in job[k].only : rows[r] = "enabled"}
     IN IF Holds(k) \/ found = {}
        THEN /\ temp' = IF found = {} THEN temp
                        ELSE [temp EXCEPT !.payload.roots = found]
             /\ job' = [job EXCEPT ![k].todo = found, ![k].changed = FALSE]
             /\ Goto(k, "sources")
        ELSE Fails(k)

\* One of the SELECTs of a root; without rows nothing is inserted.
CopySources(k, r) ==
  /\ At(k, "sources")
  /\ r \in job[k].todo
  /\ IF Holds(k) \/ Rows(r) = {}
     THEN /\ temp' = IF Rows(r) = {} THEN temp
                     ELSE [temp EXCEPT !.payload.sources = @ \cup Rows(r)]
          /\ job' = [job EXCEPT ![k].root = r,
                                ![k].todo = @ \ {r},
                                ![k].moment = @ \cup Rows(r),
                                ![k].lost = {s \in @ : s[1] # r}]
          /\ Goto(k, "revisions")
     ELSE Fails(k)

CopyRevisions(k) ==
  /\ At(k, "revisions")
  /\ LET found == CurrentRevisions(job[k].root)
     IN IF Holds(k) \/ found = {}
        THEN /\ temp' = IF found = {} THEN temp
                        ELSE [temp EXCEPT !.payload.revisions = @ \cup found]
             /\ Goto(k, "segments")
             /\ UNCHANGED job
        ELSE Fails(k)

CopySegments(k) ==
  /\ At(k, "segments")
  /\ LET found == CurrentSegments(job[k].root)
     IN IF Holds(k) \/ found = {}
        THEN /\ temp' = IF found = {} THEN temp
                        ELSE [temp EXCEPT !.payload.segments = @ \cup found]
             /\ Goto(k, "sources")
             /\ UNCHANGED job
        ELSE Fails(k)

\* fs::read of what is now at the path.
ReadBytes(k) ==
  /\ At(k, "sources")
  /\ job[k].todo = {}
  /\ IF temp.payload # None
     THEN /\ job' = [job EXCEPT ![k].bytes = temp.payload]
          /\ Goto(k, "describe")
          /\ UNCHANGED temp
     ELSE Fails(k)

\* The payload exceeds the limit: the temporary directory goes.
TooLarge(k) ==
  /\ At(k, "describe")
  /\ Fault
  /\ temp' = NoDirectory
  /\ Ends(k)
  /\ UNCHANGED published

\* list_payload_roots opens the path again, which creates a missing file; a
\* file without tables is an error.
ListPayloadRoots(k) ==
  /\ At(k, "describe")
  /\ IF temp.payload # None /\ temp.payload.tables
     THEN /\ job' = [job EXCEPT ![k].roots = temp.payload.roots]
          /\ Goto(k, "count")
          /\ UNCHANGED temp
     ELSE /\ temp' = IF temp.exists THEN [temp EXCEPT !.payload = File(@)] ELSE temp
          /\ Ends(k)
          /\ UNCHANGED <<published, faults>>

\* count_payload opens it once more; a table that is missing counts as empty.
CountPayload(k) ==
  /\ At(k, "count")
  /\ IF temp.exists
     THEN /\ temp' = [temp EXCEPT !.payload = File(@)]
          /\ job' = [job EXCEPT ![k].counts = Counts(File(temp.payload))]
          /\ Goto(k, "manifest")
     ELSE Fails(k)

WriteManifest(k) ==
  /\ At(k, "manifest")
  /\ IF temp.exists
     THEN /\ temp' = [temp EXCEPT !.manifest =
                        [checksum |-> job[k].bytes, roots |-> job[k].roots,
                         counts |-> job[k].counts]]
          /\ Goto(k, "restrict")
          /\ UNCHANGED job
     ELSE Fails(k)

\* restrict_permissions of both files.
Restrict(k) ==
  /\ At(k, "restrict")
  /\ IF temp.payload # None /\ temp.manifest # None
     THEN Goto(k, "rename") /\ UNCHANGED <<temp, job>>
     ELSE Fails(k)

\* fs::rename fails without a source, and on a directory that is not empty.
Publish(k) ==
  /\ At(k, "rename")
  /\ LET d == job[k].destination
         free == \/ published[d] = None
                 \/ published[d].payload = None /\ published[d].manifest = None
     IN IF temp.exists /\ free
        THEN /\ published' = [published EXCEPT ![d] =
                  [payload |-> temp.payload, manifest |-> temp.manifest,
                   export |-> job[k]]]
             /\ temp' = NoDirectory
             /\ Ends(k)
             /\ UNCHANGED faults
        ELSE Fails(k)

Crash(k) ==
  /\ pc[k] # "idle"
  /\ Fault
  /\ Ends(k)
  /\ UNCHANGED <<database, temp, published, changes, exports>>

-----------------------------------------------------------------------------
Index ==
  \/ \E s \in Source : Upsert(s) \/ Promote(s) \/ MarkDeleted(s)
  \/ \E r \in Roots : UpsertRoot(r) \/ DeleteRoot(r)

Export(k) ==
  \/ \E d \in Destinations, only \in {Roots} \cup {{r} : r \in Roots} : Start(k, d, only)
  \/ Clear(k) \/ ClearFails(k) \/ MakeDirectory(k) \/ Open(k) \/ CreateTables(k)
  \/ SelectRoots(k)
  \/ \E r \in Roots : CopySources(k, r)
  \/ CopyRevisions(k) \/ CopySegments(k)
  \/ ReadBytes(k) \/ TooLarge(k) \/ ListPayloadRoots(k) \/ CountPayload(k)
  \/ WriteManifest(k) \/ Restrict(k) \/ Publish(k)
  \/ Crash(k)

Next == Index \/ \E k \in Procs : Export(k)

Spec == Init /\ [][Next]_vars

-----------------------------------------------------------------------------
(* import_snapshot                                                         *)

\* Mutant: sources are not looked up among the revisions.
MutantRelated(payload) ==
  \A c \in payload.segments : c \in payload.revisions

\* validate_payload_database: sources have their revision, segments theirs.
Related(payload) ==
  /\ \A c \in payload.sources : c[2] # 0 /\ c \in payload.revisions
  /\ \A c \in payload.segments : c \in payload.revisions

\* validate_snapshot_tree, the checksum, validate_payload_database.
Accepts(snapshot) ==
  /\ snapshot.payload # None
  /\ snapshot.manifest # None
  /\ snapshot.manifest.checksum = snapshot.payload
  /\ snapshot.payload.tables
  /\ snapshot.manifest.counts = Counts(snapshot.payload)
  /\ Related(snapshot.payload)
  /\ \A c \in snapshot.payload.sources : c[1][1] \in snapshot.manifest.roots

\* What search_snapshot_hits finds in it.
Hits(snapshot) == snapshot.payload.segments \cap snapshot.payload.sources

Imported == {d \in Destinations : published[d] # None /\ Accepts(published[d])}

-----------------------------------------------------------------------------
(* Properties                                                              *)

\* An export that shares its temporary directory with no other: whatever an
\* index run commits between its statements, a snapshot that can be imported
\* shows each of its roots as it was at one moment, less what has been deleted
\* since.
OneMoment ==
  \A d \in Imported :
    LET p == published[d]
    IN p.export.alone =>
         /\ p.manifest.roots \subseteq p.export.only
         /\ Hits(p) \subseteq p.export.moment
         /\ \A c \in p.export.moment : c[1] \in p.export.lost \/ c \in Hits(p)

\* Exports may share the temporary directory, crash, and leave behind what they
\* were at: every hit of a snapshot that can be imported was served by the
\* local index at some time while the export that published it ran.
Recent == \A d \in Imported : Hits(published[d]) \subseteq published[d].export.seen

\* An export that shares its directory with no other, of roots that did not
\* change and whose active sources all have a revision, can be imported.
QuietExportImports ==
  \A d \in Destinations :
    LET p == published[d]
    IN p # None =>
         (p.export.alone /\ ~p.export.changed /\ (\A c \in p.export.moment : c[2] # 0)
            => Accepts(p) /\ Hits(p) = p.export.moment)

\* An export takes in "selected roots" (snapshot.rs:80).
SelectedOnly ==
  \A d \in Imported : published[d].manifest.roots \subseteq published[d].export.only
=============================================================================
