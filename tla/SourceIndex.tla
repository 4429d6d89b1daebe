---------------------------- MODULE SourceIndex ----------------------------
(***************************************************************************)
(* Full indexing of one approved root: index_one_root_full,                *)
(* process_document and record_parse_failure (index.rs) over the           *)
(* source_files, revisions and segments_fts tables (storage.rs).           *)
(*                                                                         *)
(* Every SQLite statement or transaction is one step, every look at the    *)
(* file system is one step, and the owner of the root edits files between  *)
(* any two of them.  Procs are `omnisem index` processes: nothing in the   *)
(* code keeps two of them apart (a git hook and a shell, for example).     *)
(*                                                                         *)
(* A revision is named by the UNIQUE key of its row, source and content    *)
(* hash (one parser version is installed, and the parser follows from the  *)
(* path's extension); its segments, written in the same transaction and    *)
(* never apart from it, are not named.                                     *)
(***************************************************************************)
EXTENDS Naturals, Sequences

CONSTANTS
  Procs,        \* indexer processes
  Paths,        \* root-relative paths
  Contents,     \* file contents, told apart by their BLAKE3 hash
  Malformed,    \* the contents the parser rejects
  SourceIds,    \* values SourceFileId::new may return
  Absent,       \* no eligible, readable document at a path
  None,         \* SQL NULL, and "no value yet" in a process
  MaxVersions,  \* bound: versions of one file
  Limits,       \* bound: versions the files may come to have together
  MaxFaults     \* bound: crashes and failed statements

ASSUME SourceIndexAssumption ==
  /\ Malformed \subseteq Contents
  /\ Absent \notin Contents
  /\ None \notin SourceIds \cup Paths \cup Contents
  /\ None \notin [source : SourceIds, content : Contents]
  /\ MaxVersions \in Nat \ {0}
  /\ MaxFaults \in Nat

VARIABLES
  log,          \* log[p]: every version of the file at p, oldest first; its
                \* number stands for the modification time of the version
  sources,      \* source_files, by (root_id, relative_path)
  indexed,      \* rows of revisions with status 'indexed'
  failed,       \* rows of revisions with status 'failed'
  fts,          \* revisions whose segments have rows in segments_fts
  pc,           \* where each process is in index_one_root_full
  unvisited,    \* paths the walk of discover_root has still to look at
  seenAt,       \* version of each path the walk saw
  todo,         \* documents to process, then sources to mark deleted
  listed,       \* what list_active_source_files returned
  job,          \* locals of process_document
  faults,       \* crashes and failed statements so far
  reflects      \* history: the version of each file that search reflects

tables == <<sources, indexed, failed, fts>>
locals == <<unvisited, seenAt, todo, listed, job>>
vars == <<log, tables, pc, locals, faults, reflects>>
-----------------------------------------------------------------------------
Revision == [source : SourceIds, content : Contents]

SourceState == {"missing", "active", "deleted", "error"}

\* A row of source_files; "missing" is no row.
SourceRow == [id       : SourceIds \cup {None},
              revision : Revision \cup {None},
              state    : SourceState,
              modified : Nat]

NoRow == [id |-> None, revision |-> None, state |-> "missing", modified |-> 0]

Job == [path     : Paths \cup {None},
        existing : SourceRow,
        id       : SourceIds \cup {None},
        content  : Contents \cup {None},
        version  : Nat]

NoJob == [path |-> None, existing |-> NoRow, id |-> None, content |-> None,
          version |-> 0]

\* A process in one of these steps is inside process_document.
InDocument == {"found", "read", "staged", "rejecting"}

Step == {"idle", "walk", "documents", "sweep"} \cup InDocument

Version(p) == Len(log[p])
File(p) == log[p][Version(p)]

\* The documents of the discovery report of process k.
Seen(k) == {p \in Paths : log[p][seenAt[k][p]] # Absent}

\* search_fts: the FTS rows of p survive the join with source_files.
Served(p) ==
  IF sources[p].state = "active" /\ sources[p].revision \in fts
    THEN sources[p].revision.content
    ELSE Absent

\* inspect_freshness: the file's time against the time stored with the source.
Freshness(p) ==
  CASE File(p) = Absent                 -> "unknown"
    [] Version(p) > sources[p].modified -> "pending_reindex"
    [] OTHER                            -> "current"
-----------------------------------------------------------------------------
Init ==
  /\ log = [p \in Paths |-> <<Absent>>]
  /\ sources = [p \in Paths |-> NoRow]
  /\ indexed = {}
  /\ failed = {}
  /\ fts = {}
  /\ pc = [k \in Procs |-> "idle"]
  /\ unvisited = [k \in Procs |-> {}]
  /\ seenAt = [k \in Procs |-> [p \in Paths |-> 1]]
  /\ todo = [k \in Procs |-> {}]
  /\ listed = [k \in Procs |-> [p \in Paths |-> NoRow]]
  /\ job = [k \in Procs |-> NoJob]
  /\ faults = 0
  /\ reflects = [p \in Paths |-> 1]

Goto(k, step) == pc' = [pc EXCEPT ![k] = step]

\* process_document returned: the locals go, the loop takes the next document.
NextDocument(k) ==
  /\ Goto(k, "documents")
  /\ job' = [job EXCEPT ![k] = NoJob]

\* Mutant: the row of a known path takes the id of the caller.
MutantUpsert(p, id, revision, state, modified) ==
  sources' = [sources EXCEPT ![p] =
    [id |-> id, revision |-> revision, state |-> state, modified |-> modified]]

\* upsert_source_file: the row of a known path keeps its id and takes every
\* other column from the caller, the current revision included.
Upsert(p, id, revision, state, modified) ==
  sources' = [sources EXCEPT ![p] =
    [id       |-> IF @.state = "missing" THEN id ELSE @.id,
     revision |-> revision,
     state    |-> state,
     modified |-> modified]]

\* The UPDATE of promote_revision: WHERE id = id.
PointTo(id, revision, modified) ==
  sources' = [q \in Paths |->
    IF sources[q].id = id
      THEN [id |-> id, revision |-> revision, state |-> "active",
            modified |-> modified]
      ELSE sources[q]]

\* The UPDATE of mark_source_deleted: WHERE id = id.
ClearPointer(id) ==
  sources' = [q \in Paths |->
    IF sources[q].id = id
      THEN [sources[q] EXCEPT !.revision = None, !.state = "deleted"]
      ELSE sources[q]]

\* The foreign key of revisions.source_file_id.
SourceExists(id) == \E q \in Paths : sources[q].id = id

\* INSERT INTO revisions is accepted: UNIQUE key and foreign key.
Insertable(r) == r \notin indexed \cup failed /\ SourceExists(r.source)

\* The row a document's content would get in revisions.
Draft(k) == [source |-> job[k].id, content |-> job[k].content]

\* Mutant: the hash is not compared.
MutantSameAsCurrent(k) == job[k].existing.revision \in indexed

\* The previous revision of process_document has the hash just read.
SameAsCurrent(k) ==
  LET r == job[k].existing.revision
  IN  r \in indexed /\ r.content = job[k].content
-----------------------------------------------------------------------------
(* The owner of the root. Each write gives the file a later modification   *)
(* time, by more than the second of skew inspect_freshness allows.         *)

Edit(p, c) ==
  /\ Version(p) < MaxVersions
  /\ File(p) # c
  /\ log' = [log EXCEPT ![p] = Append(@, c)]
  /\ \E most \in Limits : \A q \in Paths : Version(q)' <= most[q]
  /\ UNCHANGED <<tables, pc, locals, faults, reflects>>
-----------------------------------------------------------------------------
(* The walk of discover_root.                                              *)

StartScan(k) ==
  /\ pc[k] = "idle"
  /\ Goto(k, "walk")
  /\ unvisited' = [unvisited EXCEPT ![k] = Paths]
  /\ UNCHANGED <<log, tables, seenAt, todo, listed, job, faults, reflects>>

\* The walk reaches p, or the place in its directory where p would be.
Visit(k, p) ==
  /\ pc[k] = "walk"
  /\ p \in unvisited[k]
  /\ seenAt' = [seenAt EXCEPT ![k][p] = Version(p)]
  /\ unvisited' = [unvisited EXCEPT ![k] = @ \ {p}]
  /\ UNCHANGED <<log, tables, pc, todo, listed, job, faults, reflects>>

EndWalk(k) ==
  /\ pc[k] = "walk"
  /\ unvisited[k] = {}
  /\ Goto(k, "documents")
  /\ todo' = [todo EXCEPT ![k] = Seen(k)]
  /\ UNCHANGED <<log, tables, unvisited, seenAt, listed, job, faults, reflects>>

\* The root is missing or a pattern is invalid: a failed scan run, no change.
WalkFails(k) ==
  /\ pc[k] = "walk"
  /\ faults < MaxFaults
  /\ faults' = faults + 1
  /\ Goto(k, "idle")
  /\ unvisited' = [unvisited EXCEPT ![k] = {}]
  /\ seenAt' = [seenAt EXCEPT ![k] = [p \in Paths |-> 1]]
  /\ UNCHANGED <<log, tables, todo, listed, job, reflects>>
-----------------------------------------------------------------------------
(* process_document.                                                       *)

\* Mutant: the id of a new path may be one that is in use.
MutantFind(k, p) ==
  /\ pc[k] = "documents"
  /\ p \in todo[k]
  /\ todo' = [todo EXCEPT ![k] = @ \ {p}]
  /\ \E id \in SourceIds :
       /\ sources[p].state # "missing" => id = sources[p].id
       /\ job' = [job EXCEPT ![k] =
                    [path |-> p, existing |-> sources[p], id |-> id,
                     content |-> None, version |-> 0]]
  /\ Goto(k, "found")
  /\ UNCHANGED <<log, tables, unvisited, seenAt, listed, faults, reflects>>

\* find_source_file and get_revision; a new path gets a fresh source id.
Find(k, p) ==
  /\ pc[k] = "documents"
  /\ p \in todo[k]
  /\ todo' = [todo EXCEPT ![k] = @ \ {p}]
  /\ \E id \in SourceIds :
       /\ IF sources[p].state # "missing"
            THEN id = sources[p].id
            ELSE /\ ~ SourceExists(id)
                 /\ \A j \in Procs : job[j].id # id
       /\ job' = [job EXCEPT ![k] =
                    [path |-> p, existing |-> sources[p], id |-> id,
                     content |-> None, version |-> 0]]
  /\ Goto(k, "found")
  /\ UNCHANGED <<log, tables, unvisited, seenAt, listed, faults, reflects>>

\* read_stable_file: bytes and modification time of one version.
Read(k) ==
  LET p == job[k].path IN
  /\ pc[k] = "found"
  /\ File(p) # Absent
  /\ job' = [job EXCEPT ![k].content = File(p), ![k].version = Version(p)]
  /\ Goto(k, "read")
  /\ UNCHANGED <<log, tables, unvisited, seenAt, todo, listed, faults, reflects>>

\* read_stable_file refuses a file that is gone or was written since the walk.
ReadFails(k) ==
  LET p == job[k].path IN
  /\ pc[k] = "found"
  /\ File(p) = Absent \/ Version(p) # seenAt[k][p]
  /\ NextDocument(k)
  /\ UNCHANGED <<log, tables, unvisited, seenAt, todo, listed, faults, reflects>>

\* Same hash, same parser: only the bookkeeping columns are written.
Unchanged(k) ==
  LET p == job[k].path IN
  /\ pc[k] = "read"
  /\ SameAsCurrent(k)
  /\ Upsert(p, job[k].id, job[k].existing.revision, "active", job[k].version)
  /\ reflects' = [reflects EXCEPT ![p] = job[k].version]
  /\ NextDocument(k)
  /\ UNCHANGED <<log, indexed, failed, fts, unvisited, seenAt, todo, listed, faults>>

\* Mutant: the pointer is cleared before the promotion.
MutantStage(k) ==
  LET p == job[k].path IN
  /\ pc[k] = "read"
  /\ ~ SameAsCurrent(k)
  /\ job[k].content \notin Malformed
  /\ Upsert(p, job[k].id, None, "active", job[k].version)
  /\ Goto(k, "staged")
  /\ UNCHANGED <<log, indexed, failed, fts, locals, faults, reflects>>

\* The upsert that precedes promote_revision, a commit of its own.
Stage(k) ==
  LET p == job[k].path IN
  /\ pc[k] = "read"
  /\ ~ SameAsCurrent(k)
  /\ job[k].content \notin Malformed
  /\ Upsert(p, job[k].id, job[k].existing.revision, "active", job[k].version)
  /\ Goto(k, "staged")
  /\ UNCHANGED <<log, indexed, failed, fts, locals, faults, reflects>>

\* Mutant: the FTS rows of the previous revision stay.
MutantPromote(k) ==
  /\ pc[k] = "staged"
  /\ Insertable(Draft(k))
  /\ fts' = fts \cup {Draft(k)}
  /\ indexed' = indexed \cup {Draft(k)}
  /\ PointTo(job[k].id, Draft(k), job[k].version)
  /\ reflects' = [reflects EXCEPT ![job[k].path] = job[k].version]
  /\ NextDocument(k)
  /\ UNCHANGED <<log, failed, unvisited, seenAt, todo, listed, faults>>

\* Mutant: the time stored is that of the file at the commit, not at the read.
MutantPromoteLate(k) ==
  /\ pc[k] = "staged"
  /\ Insertable(Draft(k))
  /\ fts' = (fts \ {job[k].existing.revision}) \cup {Draft(k)}
  /\ indexed' = indexed \cup {Draft(k)}
  /\ PointTo(job[k].id, Draft(k), Version(job[k].path))
  /\ reflects' = [reflects EXCEPT ![job[k].path] = job[k].version]
  /\ NextDocument(k)
  /\ UNCHANGED <<log, failed, unvisited, seenAt, todo, listed, faults>>

\* promote_revision commits: FTS rows of the previous revision go, the new
\* revision, its segments and their FTS rows come, the pointer moves.
Promote(k) ==
  /\ pc[k] = "staged"
  /\ Insertable(Draft(k))
  /\ fts' = (fts \ {job[k].existing.revision}) \cup {Draft(k)}
  /\ indexed' = indexed \cup {Draft(k)}
  /\ PointTo(job[k].id, Draft(k), job[k].version)
  /\ reflects' = [reflects EXCEPT ![job[k].path] = job[k].version]
  /\ NextDocument(k)
  /\ UNCHANGED <<log, failed, unvisited, seenAt, todo, listed, faults>>

\* The INSERT of promote_revision breaks a constraint: the transaction is
\* rolled back and the document counted as a failure.
PromoteRejected(k) ==
  /\ pc[k] = "staged"
  /\ ~ Insertable(Draft(k))
  /\ NextDocument(k)
  /\ UNCHANGED <<log, tables, unvisited, seenAt, todo, listed, faults, reflects>>

\* record_parse_failure, first statement: the time stored with the source is
\* the one the walk saw.
ParseFails(k) ==
  LET p == job[k].path IN
  /\ pc[k] = "read"
  /\ ~ SameAsCurrent(k)
  /\ job[k].content \in Malformed
  /\ Upsert(p, job[k].id, job[k].existing.revision,
            IF job[k].existing.revision # None THEN "active" ELSE "error",
            seenAt[k][p])
  /\ Goto(k, "rejecting")
  /\ UNCHANGED <<log, indexed, failed, fts, locals, faults, reflects>>

\* record_parse_failure, second statement: the failed revision, unless a
\* constraint refuses it; the document is a failure either way.
RecordFailed(k) ==
  /\ pc[k] = "rejecting"
  /\ failed' = IF Insertable(Draft(k)) THEN failed \cup {Draft(k)} ELSE failed
  /\ NextDocument(k)
  /\ UNCHANGED <<log, sources, indexed, fts, unvisited, seenAt, todo, listed,
                 faults, reflects>>

\* Any other error inside process_document (I/O, SQLITE_BUSY, disk full): the
\* statement under way does nothing and the scan goes on with the next one.
DocumentFails(k) ==
  /\ pc[k] \in InDocument
  /\ faults < MaxFaults
  /\ faults' = faults + 1
  /\ NextDocument(k)
  /\ UNCHANGED <<log, tables, unvisited, seenAt, todo, listed, reflects>>
-----------------------------------------------------------------------------
(* The deletion pass of index_one_root_full.                               *)

\* Mutant: the sources the walk saw are not taken out.
MutantListActive(k) ==
  /\ pc[k] = "documents"
  /\ todo[k] = {}
  /\ todo' = [todo EXCEPT ![k] = {p \in Paths : sources[p].state = "active"}]
  /\ listed' = [listed EXCEPT ![k] = sources]
  /\ Goto(k, "sweep")
  /\ UNCHANGED <<log, tables, unvisited, seenAt, job, faults, reflects>>

\* list_active_source_files, and the filter of the deletion loop.
ListActive(k) ==
  /\ pc[k] = "documents"
  /\ todo[k] = {}
  /\ todo' = [todo EXCEPT ![k] =
                {p \in Paths : sources[p].state = "active"} \ Seen(k)]
  /\ listed' = [listed EXCEPT ![k] = sources]
  /\ Goto(k, "sweep")
  /\ UNCHANGED <<log, tables, unvisited, seenAt, job, faults, reflects>>

\* mark_source_deleted, with the row ListActive read.
MarkDeleted(k, p) ==
  /\ pc[k] = "sweep"
  /\ p \in todo[k]
  /\ todo' = [todo EXCEPT ![k] = @ \ {p}]
  /\ fts' = fts \ {listed[k][p].revision}
  /\ ClearPointer(listed[k][p].id)
  /\ reflects' = [reflects EXCEPT ![p] = seenAt[k][p]]
  /\ UNCHANGED <<log, indexed, failed, pc, unvisited, seenAt, listed, job, faults>>

\* The locals of a scan that is over.
Forget(k) ==
  /\ Goto(k, "idle")
  /\ unvisited' = [unvisited EXCEPT ![k] = {}]
  /\ seenAt' = [seenAt EXCEPT ![k] = [p \in Paths |-> 1]]
  /\ todo' = [todo EXCEPT ![k] = {}]
  /\ listed' = [listed EXCEPT ![k] = [p \in Paths |-> NoRow]]
  /\ job' = [job EXCEPT ![k] = NoJob]

\* insert_scan_run; the process ends.
Finish(k) ==
  /\ pc[k] = "sweep"
  /\ todo[k] = {}
  /\ Forget(k)
  /\ UNCHANGED <<log, tables, faults, reflects>>

\* The process dies, or an error outside process_document ends it: what it
\* committed stays, what it had in memory is gone.
Crash(k) ==
  /\ pc[k] # "idle"
  /\ faults < MaxFaults
  /\ faults' = faults + 1
  /\ Forget(k)
  /\ UNCHANGED <<log, tables, reflects>>
-----------------------------------------------------------------------------
\* What a process does by itself; a fault is not its doing.
Index(k) ==
  \/ StartScan(k)
  \/ \E p \in Paths : Visit(k, p)
  \/ EndWalk(k)
  \/ \E p \in Paths : Find(k, p)
  \/ Read(k)
  \/ ReadFails(k)
  \/ Unchanged(k)
  \/ Stage(k)
  \/ Promote(k)
  \/ PromoteRejected(k)
  \/ ParseFails(k)
  \/ RecordFailed(k)
  \/ ListActive(k)
  \/ \E p \in Paths : MarkDeleted(k, p)
  \/ Finish(k)

Fault(k) == WalkFails(k) \/ DocumentFails(k) \/ Crash(k)

Next ==
  \/ \E p \in Paths, c \in Contents \cup {Absent} : Edit(p, c)
  \/ \E k \in Procs : Index(k) \/ Fault(k)

Spec == Init /\ [][Next]_vars

\* Somebody keeps running `omnisem index`, and a process that runs goes on.
FairSpec == Spec /\ \A k \in Procs : WF_vars(Index(k))
-----------------------------------------------------------------------------
(* Properties                                                              *)

TypeOK ==
  /\ log \in [Paths -> Seq(Contents \cup {Absent}) \ {<<>>}]
  /\ sources \in [Paths -> SourceRow]
  /\ indexed \subseteq Revision
  /\ failed \subseteq Revision
  /\ fts \subseteq Revision
  /\ pc \in [Procs -> Step]
  /\ unvisited \in [Procs -> SUBSET Paths]
  /\ seenAt \in [Procs -> [Paths -> Nat]]
  /\ todo \in [Procs -> SUBSET Paths]
  /\ listed \in [Procs -> [Paths -> SourceRow]]
  /\ job \in [Procs -> Job]
  /\ faults \in Nat
  /\ reflects \in [Paths -> Nat]

\* The contents the file at p has had.
History(p) == {log[p][i] : i \in 1 .. Version(p)} \ {Absent}

\* A source points to no revision, or to an indexed revision of its own.
OwnRevision ==
  \A p \in Paths :
    sources[p].revision # None =>
      /\ sources[p].revision \in indexed
      /\ sources[p].revision.source = sources[p].id
      /\ sources[p].state = "active"

\* source_files: one row per path, ids never shared.
RowIds ==
  /\ \A p \in Paths : sources[p].state = "missing" => sources[p] = NoRow
  /\ \A p \in Paths : sources[p].state # "missing" => sources[p].id \in SourceIds
  /\ \A p, q \in Paths :
       sources[p].id = sources[q].id /\ sources[p].id # None => p = q

\* Every revision row was made from the file of the source it belongs to, and
\* only indexed revisions are in the search surface.
RevisionRows ==
  /\ \A r \in indexed \cup failed :
       \E p \in Paths : sources[p].id = r.source /\ r.content \in History(p)
  /\ fts \subseteq indexed

\* What process k remembers of its document stays true of the document's own
\* path, however much the other processes have done since it looked.
JobRow(k) ==
  LET j == job[k] IN
  /\ j.path \in Paths
  /\ j.id \in SourceIds
  /\ \A q \in Paths : sources[q].id = j.id => q = j.path
  /\ j.existing.state # "missing" => sources[j.path].id = j.id
  /\ j.existing.revision # None =>
       /\ j.existing.revision \in indexed
       /\ j.existing.revision.source = sources[j.path].id
  /\ pc[k] # "found" => j.content \in History(j.path)
  /\ pc[k] \in {"staged", "rejecting"} => sources[j.path].state # "missing"

JobRows == \A k \in Procs : pc[k] \in InDocument => JobRow(k)

\* Two processes hold one id only for one path.
JobIds ==
  \A k, l \in Procs :
    /\ pc[k] \in InDocument
    /\ pc[l] \in InDocument
    /\ job[k].id = job[l].id
    => job[k].path = job[l].path

\* The sources a deletion pass is about to clear still have the id it read.
ListedRows ==
  \A k \in Procs : pc[k] = "sweep" =>
    \A p \in todo[k] :
      /\ sources[p].state # "missing"
      /\ listed[k][p].id = sources[p].id

\* The inductive invariant for any number of processes.
Lineage ==
  /\ TypeOK
  /\ RowIds
  /\ OwnRevision
  /\ RevisionRows
  /\ JobRows
  /\ JobIds
  /\ ListedRows

\* Whatever the processes and the crashes, search never shows under a path a
\* text the file at that path never had.
AuthenticEvidence == \A p \in Paths : Served(p) \in History(p) \cup {Absent}

\* The revisions that are current: what status_snapshot counts as active.
Current == {sources[p].revision : p \in {q \in Paths : sources[q].state = "active"}} \ {None}

\* "FTS contains only active segments" (blueprint, Milestone 1), and all of
\* them: the search surface is exactly the current revisions, in every state
\* and not only after a scan.
FtsExact == fts = Current

\* One process at a time: what it remembers is what the tables hold.
OwnSnapshot ==
  \A k \in Procs :
    /\ pc[k] \in {"found", "read"} => job[k].existing = sources[job[k].path]
    /\ pc[k] \in {"staged", "rejecting"} =>
         job[k].existing.revision = sources[job[k].path].revision
    /\ pc[k] = "staged" => sources[job[k].path].state = "active"
    /\ pc[k] = "sweep" => \A p \in todo[k] : listed[k][p] = sources[p]

\* Search goes from one version of a file to a later one, in one step.
Store == INSTANCE EvidenceStore WITH served <- [p \in Paths |-> Served(p)]
ImplementsEvidenceStore == Store!Spec

\* A content the file had before, and whose revision is no longer current.
Superseded(p) ==
  LET r == [source |-> sources[p].id, content |-> File(p)]
  IN  r \in indexed /\ r # sources[p].revision

\* "modified files create new revisions" (blueprint, Milestone 1): once the
\* owner stops editing, search comes to serve what is in the files.
ModifiedFilesReachSearch ==
  <>[](\A p \in Paths : File(p) \in Malformed \/ Served(p) = File(p))

\* The same, but for files that went back to a content they had before.
NewContentReachesSearch ==
  <>[](\A p \in Paths :
         File(p) \in Malformed \/ Superseded(p) \/ Served(p) = File(p))

\* "results whose source has since changed are flagged pending_reindex rather
\* than silently served as current" (blueprint, Milestone 2), with no scan
\* under way.
StaleIsFlagged ==
  (\A k \in Procs : pc[k] = "idle") =>
    \A p \in Paths :
      Freshness(p) = "current" => Served(p) \in {File(p), Absent}

\* The same while nothing has failed or crashed, but for the contents the
\* indexer refuses: those the parser rejects, and those the file had before.
ChangesAreFlagged ==
  faults = 0 /\ (\A k \in Procs : pc[k] = "idle") =>
    \A p \in Paths :
      Freshness(p) = "current" =>
        \/ Served(p) \in {File(p), Absent}
        \/ File(p) \in Malformed
        \/ Superseded(p)
=============================================================================
