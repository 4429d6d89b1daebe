------------------------- MODULE SourceIndexProofs -------------------------
(***************************************************************************)
(* Proofs about SourceIndex, for any sets of processes, paths, contents    *)
(* and source ids.                                                         *)
(***************************************************************************)
EXTENDS SourceIndex, TLAPS

USE DEF InDocument

-----------------------------------------------------------------------------
(* Type correctness.                                                       *)

\* What is in an existing file is a content.
LEMMA FileType ==
  ASSUME TypeOK, NEW p \in Paths, File(p) # Absent
  PROVE  File(p) \in Contents
<1>1. /\ log[p] \in Seq(Contents \cup {Absent})
      /\ log[p] # <<>>
  BY DEF TypeOK
<1>2. Len(log[p]) \in 1 .. Len(log[p])
  BY <1>1
<1>3. log[p][Len(log[p])] \in Contents \cup {Absent}
  BY <1>1, <1>2
<1> QED
  BY <1>3 DEF File, Version

\* The initial tables and locals are well-typed.
LEMMA TypeInit == Init => TypeOK
<1> SUFFICES ASSUME Init PROVE TypeOK
  OBVIOUS
<1>1. log \in [Paths -> Seq(Contents \cup {Absent}) \ {<<>>}]
  BY DEF Init
<1>2. NoRow \in SourceRow
  BY DEF NoRow, SourceRow, SourceState
<1>3. NoJob \in Job
  BY <1>2 DEF NoJob, Job
<1> QED
  BY <1>1, <1>2, <1>3 DEF Init, TypeOK, Step

\* The invariant holds of an empty database.
LEMMA LineageInit == Init => Lineage
<1> SUFFICES ASSUME Init PROVE Lineage
  OBVIOUS
<1>1. TypeOK
  BY TypeInit
<1>2. RowIds /\ OwnRevision
  BY DEF Init, RowIds, OwnRevision, NoRow
<1>3. RevisionRows
  BY DEF Init, RevisionRows
<1>4. JobRows /\ JobIds /\ ListedRows
  BY DEF Init, JobRows, JobIds, ListedRows
<1> QED
  BY <1>1, <1>2, <1>3, <1>4 DEF Lineage

-----------------------------------------------------------------------------
(* Files only gain versions.                                               *)

\* The history of a file holds contents.
LEMMA HistoryType ==
  ASSUME TypeOK, NEW p \in Paths
  PROVE  History(p) \subseteq Contents
<1>1. log[p] \in Seq(Contents \cup {Absent})
  BY DEF TypeOK
<1> QED
  BY <1>1 DEF History, Version

\* A step that writes no file leaves the histories alone.
LEMMA HistoryKept ==
  ASSUME log' = log, NEW p
  PROVE  History(p)' = History(p)
BY DEF History, Version

\* An edit leaves a nonempty sequence of versions.
LEMMA EditType ==
  ASSUME TypeOK, NEW p \in Paths, NEW c \in Contents \cup {Absent}, Edit(p, c)
  PROVE  log' \in [Paths -> Seq(Contents \cup {Absent}) \ {<<>>}]
<1>1. log[p] \in Seq(Contents \cup {Absent})
  BY DEF TypeOK
<1>2. Append(log[p], c) \in Seq(Contents \cup {Absent}) \ {<<>>}
  BY <1>1
<1> QED
  BY <1>2 DEF TypeOK, Edit

\* An edit takes no version away.
LEMMA EditGrows ==
  ASSUME TypeOK, NEW p \in Paths, NEW c \in Contents \cup {Absent}, Edit(p, c),
         NEW q \in Paths
  PROVE  History(q) \subseteq History(q)'
<1>1. log[p] \in Seq(Contents \cup {Absent})
  BY DEF TypeOK
<1>2. CASE q = p
  <2>1. log'[q] = Append(log[q], c)
    BY <1>2 DEF Edit, TypeOK
  <2>2. \A i \in 1 .. Len(log[q]) :
          /\ i \in 1 .. Len(log'[q])
          /\ log'[q][i] = log[q][i]
    BY <1>1, <1>2, <2>1
  <2> QED
    BY <2>2 DEF History, Version
<1>3. CASE q # p
  <2>1. log'[q] = log[q]
    BY <1>3 DEF Edit, TypeOK
  <2> QED
    BY <2>1 DEF History, Version
<1> QED
  BY <1>2, <1>3

\* An edit disturbs nothing the database says.
LEMMA EditKeeps ==
  ASSUME Lineage, NEW p \in Paths, NEW c \in Contents \cup {Absent}, Edit(p, c)
  PROVE  Lineage'
<1>1. TypeOK'
  BY EditType DEF Lineage, TypeOK, Edit, tables, locals
<1>2. RowIds' /\ OwnRevision' /\ JobIds' /\ ListedRows'
  BY DEF Lineage, Edit, tables, locals, RowIds, OwnRevision, JobIds, ListedRows
<1>3. \A q \in Paths : History(q) \subseteq History(q)'
  BY EditGrows DEF Lineage
<1>4. RevisionRows'
  BY <1>3 DEF Lineage, Edit, tables, RevisionRows
<1>5. JobRows'
  BY <1>3 DEF Lineage, Edit, tables, locals, JobRows, JobRow
<1> QED
  BY <1>1, <1>2, <1>4, <1>5 DEF Lineage

-----------------------------------------------------------------------------
(* Steps that touch no table.                                              *)

\* A process that leaves its document, or was not in one, and whose sweep list
\* does not grow, disturbs nothing.
LEMMA LocalsKeep ==
  ASSUME Lineage, TypeOK', NEW k \in Procs,
         UNCHANGED <<log, tables>>,
         pc'[k] \notin InDocument \cup {"sweep"},
         \A l \in Procs \ {k} :
           /\ pc'[l] = pc[l]
           /\ job'[l] = job[l]
           /\ todo'[l] = todo[l]
           /\ listed'[l] = listed[l]
  PROVE  Lineage'
<1>1. RowIds' /\ OwnRevision'
  BY DEF Lineage, tables, RowIds, OwnRevision
<1>2. \A q \in Paths : History(q)' = History(q)
  BY DEF History, Version
<1>3. RevisionRows'
  BY <1>2 DEF Lineage, tables, RevisionRows
<1>4. JobRows' /\ JobIds'
  BY <1>2 DEF Lineage, tables, JobRows, JobRow, JobIds
<1>5. ListedRows'
  BY DEF Lineage, tables, ListedRows
<1> QED
  BY <1>1, <1>3, <1>4, <1>5 DEF Lineage

\* What the walk reports are paths.
LEMMA SeenType ==
  ASSUME NEW k \in Procs
  PROVE  Seen(k) \subseteq Paths
BY DEF Seen

\* The empty row and the empty locals are well-typed.
LEMMA NoJobType == NoRow \in SourceRow /\ NoJob \in Job
<1>1. NoRow \in SourceRow
  BY DEF NoRow, SourceRow, SourceState
<1> QED
  BY <1>1 DEF NoJob, Job

\* A scan that ends leaves well-typed locals.
LEMMA ForgetType ==
  ASSUME TypeOK, NEW k \in Procs, Forget(k)
  PROVE  /\ pc' \in [Procs -> Step]
         /\ unvisited' \in [Procs -> SUBSET Paths]
         /\ seenAt' \in [Procs -> [Paths -> Nat]]
         /\ todo' \in [Procs -> SUBSET Paths]
         /\ listed' \in [Procs -> [Paths -> SourceRow]]
         /\ job' \in [Procs -> Job]
BY NoJobType DEF TypeOK, Forget, Goto, Step

\* The version of a file is a number.
LEMMA VersionType ==
  ASSUME TypeOK, NEW p \in Paths
  PROVE  Version(p) \in Nat
BY DEF TypeOK, Version

\* The steps of the walk, of the loop and of the end of a scan, one by one.
LEMMA StartScanKeeps ==
  ASSUME Lineage, NEW k \in Procs, StartScan(k)
  PROVE  Lineage'
<1>1. TypeOK'
  BY DEF Lineage, TypeOK, StartScan, Goto, Step, tables
<1> QED
  BY <1>1, LocalsKeep DEF Lineage, TypeOK, StartScan, Goto

\* Visit keeps the invariant.
LEMMA VisitKeeps ==
  ASSUME Lineage, NEW k \in Procs, NEW p \in Paths, Visit(k, p)
  PROVE  Lineage'
<1>1. TypeOK'
  BY VersionType DEF Lineage, TypeOK, Visit, tables
<1> QED
  BY <1>1, LocalsKeep DEF Lineage, TypeOK, Visit

\* EndWalk keeps the invariant.
LEMMA EndWalkKeeps ==
  ASSUME Lineage, NEW k \in Procs, EndWalk(k)
  PROVE  Lineage'
<1>1. TypeOK'
  BY SeenType DEF Lineage, TypeOK, EndWalk, Goto, Step, tables
<1> QED
  BY <1>1, LocalsKeep DEF Lineage, TypeOK, EndWalk, Goto

\* WalkFails keeps the invariant.
LEMMA WalkFailsKeeps ==
  ASSUME Lineage, NEW k \in Procs, WalkFails(k)
  PROVE  Lineage'
<1>1. TypeOK'
  BY DEF Lineage, TypeOK, WalkFails, Goto, Step, tables
<1> QED
  BY <1>1, LocalsKeep DEF Lineage, TypeOK, WalkFails, Goto

\* ReadFails keeps the invariant.
LEMMA ReadFailsKeeps ==
  ASSUME Lineage, NEW k \in Procs, ReadFails(k)
  PROVE  Lineage'
<1>1. TypeOK'
  BY NoJobType DEF Lineage, TypeOK, ReadFails, NextDocument, Goto, Step, tables
<1> QED
  BY <1>1, LocalsKeep DEF Lineage, TypeOK, ReadFails, NextDocument, Goto

\* PromoteRejected keeps the invariant.
LEMMA PromoteRejectedKeeps ==
  ASSUME Lineage, NEW k \in Procs, PromoteRejected(k)
  PROVE  Lineage'
<1>1. TypeOK'
  BY NoJobType DEF Lineage, TypeOK, PromoteRejected, NextDocument, Goto, Step, tables
<1> QED
  BY <1>1, LocalsKeep DEF Lineage, TypeOK, PromoteRejected, NextDocument, Goto

\* DocumentFails keeps the invariant.
LEMMA DocumentFailsKeeps ==
  ASSUME Lineage, NEW k \in Procs, DocumentFails(k)
  PROVE  Lineage'
<1>1. TypeOK'
  BY NoJobType DEF Lineage, TypeOK, DocumentFails, NextDocument, Goto, Step, tables
<1> QED
  BY <1>1, LocalsKeep DEF Lineage, TypeOK, DocumentFails, NextDocument, Goto

\* Finish keeps the invariant.
LEMMA FinishKeeps ==
  ASSUME Lineage, NEW k \in Procs, Finish(k)
  PROVE  Lineage'
<1>1. TypeOK'
  BY ForgetType DEF Lineage, TypeOK, Finish, tables
<1> QED
  BY <1>1, LocalsKeep DEF Lineage, TypeOK, Finish, Forget, Goto

\* Crash keeps the invariant.
LEMMA CrashKeeps ==
  ASSUME Lineage, NEW k \in Procs, Crash(k)
  PROVE  Lineage'
<1>1. TypeOK'
  BY ForgetType DEF Lineage, TypeOK, Crash, tables
<1> QED
  BY <1>1, LocalsKeep DEF Lineage, TypeOK, Crash, Forget, Goto

\* ListActive keeps the invariant.
LEMMA ListActiveKeeps ==
  ASSUME Lineage, NEW k \in Procs, ListActive(k)
  PROVE  Lineage'
<1>1. TypeOK'
  BY DEF Lineage, TypeOK, ListActive, Goto, Step, tables
<1>2. RowIds' /\ OwnRevision'
  BY DEF Lineage, ListActive, tables, RowIds, OwnRevision
<1>3. \A q \in Paths : History(q)' = History(q)
  BY DEF ListActive, History, Version
<1>4. RevisionRows'
  BY <1>3 DEF Lineage, ListActive, tables, RevisionRows
<1>5. JobRows' /\ JobIds'
  BY <1>3 DEF Lineage, TypeOK, ListActive, Goto, tables, JobRows, JobRow, JobIds
<1>6. ListedRows'
  <2> SUFFICES ASSUME NEW l \in Procs, pc'[l] = "sweep", NEW p \in todo'[l]
               PROVE  /\ sources'[p].state # "missing"
                      /\ listed'[l][p].id = sources'[p].id
    BY DEF ListedRows
  <2>1. CASE l = k
    BY <2>1 DEF Lineage, TypeOK, ListActive, tables
  <2>2. CASE l # k
    BY <2>2 DEF Lineage, TypeOK, ListActive, Goto, tables, ListedRows
  <2> QED
    BY <2>1, <2>2
<1> QED
  BY <1>1, <1>2, <1>4, <1>5, <1>6 DEF Lineage

-----------------------------------------------------------------------------
(* Steps that begin a document.                                            *)

\* The id process_document takes is the id of its path, or one nobody uses.
LEMMA FindKeeps ==
  ASSUME Lineage, NEW k \in Procs, NEW p \in Paths, Find(k, p)
  PROVE  Lineage'
<1>1. PICK id \in SourceIds :
        /\ IF sources[p].state # "missing"
             THEN id = sources[p].id
             ELSE /\ ~ SourceExists(id)
                  /\ \A j \in Procs : job[j].id # id
        /\ job' = [job EXCEPT ![k] =
                     [path |-> p, existing |-> sources[p], id |-> id,
                      content |-> None, version |-> 0]]
  BY DEF Find
<1> DEFINE found == [path |-> p, existing |-> sources[p], id |-> id,
                     content |-> None, version |-> 0]
<1>2. found \in Job
  BY DEF Lineage, TypeOK, Job
<1>3. /\ job'[k] = found
      /\ pc'[k] = "found"
      /\ \A l \in Procs \ {k} : job'[l] = job[l] /\ pc'[l] = pc[l]
  BY <1>1 DEF Lineage, TypeOK, Find, Goto
<1>4. TypeOK'
  BY <1>1, <1>2 DEF Lineage, TypeOK, Find, Goto, Step, tables
<1>5. RowIds' /\ OwnRevision'
  BY DEF Lineage, Find, tables, RowIds, OwnRevision
<1>6. \A q \in Paths : History(q)' = History(q)
  BY DEF Find, History, Version
<1>7. RevisionRows'
  BY <1>6 DEF Lineage, Find, tables, RevisionRows
<1>8. \A q \in Paths : sources[q].id = id => q = p
  BY <1>1, SourceIndexAssumption DEF Lineage, RowIds, SourceExists
<1>9. JobRow(k)'
  <2>1. sources[p].revision # None =>
          /\ sources[p].revision \in indexed
          /\ sources[p].revision.source = sources[p].id
    BY DEF Lineage, OwnRevision
  <2>2. sources[p].state # "missing" => sources[p].id = id
    BY <1>1
  <2> QED
    BY <1>3, <1>8, <2>1, <2>2 DEF JobRow, Find, tables
<1>10. JobRows'
  <2> SUFFICES ASSUME NEW l \in Procs, pc'[l] \in InDocument
               PROVE  JobRow(l)'
    BY DEF JobRows
  <2>1. CASE l # k
    BY <2>1, <1>3, <1>6 DEF Lineage, JobRows, JobRow, Find, tables
  <2> QED
    BY <1>9, <2>1
<1>11. \A l \in Procs \ {k} :
         pc[l] \in InDocument /\ job[l].id = id => job[l].path = p
  <2> SUFFICES ASSUME NEW l \in Procs \ {k}, pc[l] \in InDocument, job[l].id = id
               PROVE  job[l].path = p
    OBVIOUS
  <2>1. sources[p].id = id
    BY <1>1
  <2>2. JobRow(l)
    BY DEF Lineage, JobRows
  <2> QED
    BY <2>1, <2>2 DEF JobRow
<1>12. JobIds'
  BY <1>3, <1>11 DEF Lineage, JobIds
<1>13. ListedRows'
  BY <1>3 DEF Lineage, TypeOK, Find, tables, ListedRows
<1> QED
  BY <1>4, <1>5, <1>7, <1>10, <1>12, <1>13 DEF Lineage

\* What process_document reads is a version of its file.
LEMMA ReadKeeps ==
  ASSUME Lineage, NEW k \in Procs, Read(k)
  PROVE  Lineage'
<1> DEFINE p == job[k].path
<1>1. JobRow(k) /\ p \in Paths
  BY DEF Lineage, JobRows, JobRow, Read
<1>2. File(p) \in Contents /\ Version(p) \in Nat
  BY <1>1, FileType, VersionType DEF Lineage, Read
<1>3. /\ job'[k] = [job[k] EXCEPT !.content = File(p), !.version = Version(p)]
      /\ pc'[k] = "read"
      /\ \A l \in Procs \ {k} : job'[l] = job[l] /\ pc'[l] = pc[l]
  BY DEF Lineage, TypeOK, Read, Goto
<1>0. /\ pc[k] = "found"
      /\ UNCHANGED <<log, sources, indexed, failed, fts, todo, listed>>
  BY DEF Read, tables
<1>4. job[k] \in Job
  BY DEF Lineage, TypeOK
<1>5. TypeOK'
  <2>1. job'[k] \in Job
    BY <1>2, <1>3, <1>4 DEF Job
  <2>2. job' \in [Procs -> Job]
    BY <2>1 DEF Lineage, TypeOK, Read
  <2> QED
    BY <2>2 DEF Lineage, TypeOK, Read, Goto, Step, tables
<1>6. RowIds' /\ OwnRevision'
  BY DEF Lineage, Read, tables, RowIds, OwnRevision
<1>7. \A q \in Paths : History(q)' = History(q)
  BY DEF Read, History, Version
<1>8. RevisionRows'
  BY <1>7 DEF Lineage, Read, tables, RevisionRows
<1>9. File(p) \in History(p)
  <2>1. Len(log[p]) \in 1 .. Len(log[p])
    BY <1>1 DEF Lineage, TypeOK
  <2> QED
    BY <2>1 DEF File, History, Version, Read
<1>10. /\ job'[k].path = p
       /\ job'[k].existing = job[k].existing
       /\ job'[k].id = job[k].id
       /\ job'[k].content = File(p)
  <2> HIDE DEF p
  <2>1. job'[k] = [[job[k] EXCEPT !.content = File(p)] EXCEPT !.version = Version(p)]
    BY <1>3
  <2>2. \A c, v : LET j == [[job[k] EXCEPT !.content = c] EXCEPT !.version = v]
                  IN /\ j.path = job[k].path /\ j.existing = job[k].existing
                     /\ j.id = job[k].id /\ j.content = c
    BY <1>4 DEF Job
  <2> QED
    BY <2>1, <2>2 DEF p
<1>11. JobRow(k)'
  BY <1>1, <1>3, <1>0, <1>7, <1>9, <1>10 DEF JobRow
<1>12. JobRows'
  <2> SUFFICES ASSUME NEW l \in Procs, pc'[l] \in InDocument
               PROVE  JobRow(l)'
    BY DEF JobRows
  <2>1. CASE l # k
    BY <2>1, <1>3, <1>0, <1>7 DEF Lineage, JobRows, JobRow
  <2> QED
    BY <1>11, <2>1
<1>13. JobIds'
  <2>1. \A l \in Procs :
          /\ job'[l].id = job[l].id
          /\ job'[l].path = job[l].path
          /\ pc'[l] \in InDocument <=> pc[l] \in InDocument
    BY <1>3, <1>0, <1>10
  <2> QED
    BY <2>1 DEF Lineage, JobIds
<1>14. ListedRows'
  <2> SUFFICES ASSUME NEW l \in Procs, pc'[l] = "sweep", NEW q \in todo[l]
               PROVE  sources[q].state # "missing" /\ listed[l][q].id = sources[q].id
    BY <1>0 DEF ListedRows
  <2>1. pc[l] = "sweep"
    BY <1>3
  <2> QED
    BY <2>1 DEF Lineage, ListedRows
<1> QED
  BY <1>5, <1>6, <1>8, <1>12, <1>13, <1>14 DEF Lineage

-----------------------------------------------------------------------------
(* Steps that write the tables.                                            *)

\* Process k keeps the row of every known source, under its id, and adds at
\* most a row for its own document.
RowsGrow(k) ==
  \A q \in Paths :
    IF sources[q].state # "missing"
      THEN /\ sources'[q].state # "missing"
           /\ sources'[q].id = sources[q].id
      ELSE \/ sources'[q] = sources[q]
           \/ /\ pc[k] \in InDocument
              /\ q = job[k].path
              /\ sources'[q].state # "missing"
              /\ sources'[q].id = job[k].id

\* The other processes do not move, and k stays in its document or leaves it.
OthersRest(k) ==
  /\ \A l \in Procs \ {k} :
       /\ pc'[l] = pc[l]
       /\ job'[l] = job[l]
       /\ todo'[l] = todo[l]
       /\ listed'[l] = listed[l]
  /\ pc'[k] \in InDocument => pc[k] \in InDocument /\ job'[k] = job[k]
  /\ pc'[k] = "sweep" =>
       /\ pc[k] = "sweep"
       /\ todo'[k] \subseteq todo[k]
       /\ listed'[k] = listed[k]

\* Ids stay unique when rows grow.
LEMMA RowIdsKept ==
  ASSUME Lineage, TypeOK', NEW k \in Procs, RowsGrow(k)
  PROVE  RowIds'
<1>1. ASSUME NEW q \in Paths, sources'[q].state = "missing"
      PROVE  sources'[q] = NoRow
  BY <1>1 DEF Lineage, RowIds, RowsGrow
<1>2. pc[k] \in InDocument =>
        /\ job[k].path \in Paths
        /\ job[k].id \in SourceIds
        /\ \A q \in Paths : sources[q].id = job[k].id => q = job[k].path
  BY DEF Lineage, JobRows, JobRow
<1>3. ASSUME NEW q \in Paths, sources'[q].state # "missing"
      PROVE  sources'[q].id \in SourceIds
  BY <1>2, <1>3 DEF Lineage, RowIds, RowsGrow
<1>4. ASSUME NEW p \in Paths, NEW q \in Paths,
             sources'[p].id = sources'[q].id, sources'[p].id # None
      PROVE  p = q
  <2>1. \A r \in Paths : sources'[r].id # None =>
          \/ sources'[r].id = sources[r].id
          \/ pc[k] \in InDocument /\ r = job[k].path /\ sources'[r].id = job[k].id
    BY DEF RowsGrow
  <2> QED
    BY <1>2, <1>4, <2>1 DEF Lineage, RowIds
<1> QED
  BY <1>1, <1>3, <1>4 DEF RowIds

\* What the other processes remember stays true when rows grow.
LEMMA OtherJobRow ==
  ASSUME Lineage, NEW k \in Procs, RowsGrow(k), OthersRest(k), log' = log,
         indexed \subseteq indexed',
         NEW l \in Procs \ {k}, pc'[l] \in InDocument
  PROVE  JobRow(l)'
<1> DEFINE j == job[l]
<1>1. JobRow(l) /\ pc[l] \in InDocument /\ job'[l] = job[l] /\ pc'[l] = pc[l]
  BY DEF Lineage, JobRows, OthersRest
<1>2. j.path \in Paths /\ j.id \in SourceIds
  BY <1>1 DEF JobRow
<1>3. \A q \in Paths : sources'[q].id = j.id => q = j.path
  <2> SUFFICES ASSUME NEW q \in Paths, sources'[q].id = j.id
               PROVE  q = j.path
    OBVIOUS
  <2>1. CASE sources[q].id = j.id
    BY <1>1, <2>1 DEF JobRow
  <2>2. CASE sources[q].id # j.id
    <3>1. pc[k] \in InDocument /\ q = job[k].path /\ job[k].id = j.id
      BY <2>2 DEF RowsGrow
    <3> QED
      BY <1>1, <3>1 DEF Lineage, JobIds
  <2> QED
    BY <2>1, <2>2
<1>4. sources[j.path].id \in SourceIds =>
        /\ sources[j.path].state # "missing"
        /\ sources'[j.path].id = sources[j.path].id
  <2>1. sources[j.path].state = "missing" => sources[j.path].id = None
    BY <1>2 DEF Lineage, RowIds, NoRow
  <2> QED
    BY <1>2, <2>1, SourceIndexAssumption DEF RowsGrow
<1>5. j.existing.state # "missing" => sources'[j.path].id = j.id
  BY <1>1, <1>2, <1>4 DEF JobRow
<1>6. j.existing.revision # None =>
        /\ j.existing.revision \in indexed'
        /\ j.existing.revision.source = sources'[j.path].id
  <2>1. \A r \in indexed : r.source \in SourceIds
    BY DEF Lineage, TypeOK, Revision
  <2> QED
    BY <1>1, <1>4, <2>1 DEF JobRow
<1>7. pc[l] \in {"staged", "rejecting"} => sources'[j.path].state # "missing"
  BY <1>1, <1>2 DEF JobRow, RowsGrow
<1>8. History(j.path)' = History(j.path)
  BY <1>1 DEF History, Version
<1> QED
  BY <1>1, <1>2, <1>3, <1>5, <1>6, <1>7, <1>8 DEF JobRow

\* A step of process k that grows the rows keeps the invariant, when what it
\* does to revisions and to its own document is in order.
LEMMA TablesKeep ==
  ASSUME Lineage, TypeOK', NEW k \in Procs, RowsGrow(k), OthersRest(k),
         log' = log, indexed \subseteq indexed', fts' \subseteq indexed',
         OwnRevision',
         \A r \in (indexed' \cup failed') \ (indexed \cup failed) :
           \E p \in Paths : sources'[p].id = r.source /\ r.content \in History(p),
         pc'[k] \in InDocument => JobRow(k)'
  PROVE  Lineage'
<1>1. RowIds'
  BY RowIdsKept
<1>2. \A q \in Paths : History(q)' = History(q)
  BY DEF History, Version
<1>3. \A q \in Paths : sources[q].id \in SourceIds => sources'[q].id = sources[q].id
  <2> SUFFICES ASSUME NEW q \in Paths, sources[q].id \in SourceIds
               PROVE  sources'[q].id = sources[q].id
    OBVIOUS
  <2>1. sources[q].state = "missing" => sources[q].id = None
    BY DEF Lineage, RowIds, NoRow
  <2> QED
    BY <2>1, SourceIndexAssumption DEF RowsGrow
<1>4. RevisionRows'
  <2>1. \A r \in indexed \cup failed : r.source \in SourceIds
    BY DEF Lineage, TypeOK, Revision
  <2>2. \A r \in indexed \cup failed :
          \E p \in Paths : sources'[p].id = r.source /\ r.content \in History(p)
    BY <1>3, <2>1 DEF Lineage, RevisionRows
  <2> QED
    BY <1>2, <2>2 DEF RevisionRows
<1>5. JobRows'
  BY OtherJobRow DEF JobRows
<1>6. JobIds'
  BY DEF Lineage, JobIds, OthersRest
<1>7. ListedRows'
  <2> SUFFICES ASSUME NEW l \in Procs, pc'[l] = "sweep", NEW p \in todo'[l]
               PROVE  /\ sources'[p].state # "missing"
                      /\ listed'[l][p].id = sources'[p].id
    BY DEF Lineage, TypeOK, ListedRows
  <2>1. pc[l] = "sweep" /\ p \in todo[l] /\ listed'[l] = listed[l] /\ p \in Paths
    BY DEF Lineage, TypeOK, OthersRest
  <2> QED
    BY <2>1 DEF Lineage, ListedRows, RowsGrow
<1> QED
  BY <1>1, <1>4, <1>5, <1>6, <1>7 DEF Lineage

\* What an upsert of the document's row leaves in source_files.
LEMMA UpsertRows ==
  ASSUME Lineage, NEW k \in Procs, pc[k] \in InDocument,
         NEW revision \in Revision \cup {None},
         NEW state \in SourceState \ {"missing"}, NEW modified \in Nat,
         Upsert(job[k].path, job[k].id, revision, state, modified)
  PROVE  /\ sources' \in [Paths -> SourceRow]
         /\ RowsGrow(k)
         /\ \A q \in Paths \ {job[k].path} : sources'[q] = sources[q]
         /\ sources'[job[k].path].revision = revision
         /\ sources'[job[k].path].state = state
<1> DEFINE p == job[k].path
<1>1. p \in Paths /\ job[k].id \in SourceIds
  BY DEF Lineage, JobRows, JobRow
<1>2. sources \in [Paths -> SourceRow]
  BY DEF Lineage, TypeOK
<1>3. sources[p].id \in SourceIds \cup {None}
  BY <1>1, <1>2 DEF SourceRow
<1>4. sources'[p] = [id |-> IF sources[p].state = "missing"
                              THEN job[k].id ELSE sources[p].id,
                     revision |-> revision, state |-> state, modified |-> modified]
  BY <1>1, <1>2 DEF Upsert
<1>5. sources'[p] \in SourceRow
  BY <1>1, <1>3, <1>4 DEF SourceRow
<1>6. /\ sources' = [sources EXCEPT ![p] = sources'[p]]
      /\ \A q \in Paths \ {p} : sources'[q] = sources[q]
  BY <1>1, <1>2 DEF Upsert
<1>7. sources' \in [Paths -> SourceRow]
  BY <1>2, <1>5, <1>6
<1>8. RowsGrow(k)
  BY <1>4, <1>6 DEF RowsGrow
<1> QED
  BY <1>4, <1>6, <1>7, <1>8

\* An upsert with the revision process_document found keeps the invariant.
LEMMA UpsertKeeps ==
  ASSUME Lineage, NEW k \in Procs, pc[k] = "read",
         NEW state \in {"active", "error"}, NEW modified \in Nat,
         job[k].existing.revision # None => state = "active",
         Upsert(job[k].path, job[k].id, job[k].existing.revision, state, modified),
         UNCHANGED <<log, indexed, failed, fts, unvisited, seenAt, faults>>,
         pc' \in [Procs -> Step], job' \in [Procs -> Job],
         todo' = todo, listed' = listed, reflects' \in [Paths -> Nat],
         pc'[k] \in InDocument \cup {"documents"},
         OthersRest(k)
  PROVE  Lineage'
<1> DEFINE p == job[k].path
<1> DEFINE r == job[k].existing.revision
<1>1. JobRow(k)
  BY DEF Lineage, JobRows
<1>2. p \in Paths /\ r \in Revision \cup {None}
  BY <1>1 DEF Lineage, TypeOK, Job, SourceRow, JobRow
<1>3. state \in SourceState \ {"missing"}
  BY DEF SourceState
<1>4. /\ sources' \in [Paths -> SourceRow]
      /\ RowsGrow(k)
      /\ \A q \in Paths \ {p} : sources'[q] = sources[q]
      /\ sources'[p].revision = r
      /\ sources'[p].state = state
  <2>1. pc[k] \in InDocument
    BY DEF InDocument
  <2> QED
    BY <1>2, <1>3, <2>1, UpsertRows
<1>5. TypeOK'
  BY <1>4 DEF Lineage, TypeOK
<1>6. r # None => r \in indexed /\ r.source = sources[p].id
                  /\ sources'[p].id = sources[p].id
  <2>1. r # None => r \in indexed /\ r.source = sources[p].id
    BY <1>1 DEF JobRow
  <2>2. r # None => sources[p].id \in SourceIds
    BY <2>1 DEF Lineage, TypeOK, Revision
  <2>3. sources[p].state = "missing" => sources[p].id = None
    BY <1>2 DEF Lineage, RowIds, NoRow
  <2> QED
    BY <1>2, <1>4, <2>1, <2>2, <2>3, SourceIndexAssumption DEF RowsGrow
<1>7. OwnRevision'
  BY <1>4, <1>6 DEF Lineage, OwnRevision
<1>8. ASSUME pc'[k] \in InDocument PROVE JobRow(k)'
  <2>1. job'[k] = job[k]
    BY <1>8 DEF OthersRest
  <2>2. \A q \in Paths : sources'[q].id = job[k].id => q = p
    BY <1>1, <1>4 DEF JobRow
  <2>3. job[k].existing.state # "missing" => sources'[p].id = job[k].id
    <3>1. sources[p].state = "missing" => sources[p].id = None
      BY <1>2 DEF Lineage, RowIds, NoRow
    <3>2. job[k].existing.state # "missing" =>
            sources[p].id = job[k].id /\ sources[p].id \in SourceIds
      BY <1>1 DEF JobRow
    <3>3. sources[p].state # "missing" => sources'[p].id = sources[p].id
      BY <1>2, <1>4 DEF RowsGrow
    <3> QED
      BY <3>1, <3>2, <3>3, SourceIndexAssumption
  <2>4. \A q \in Paths : History(q)' = History(q)
    BY DEF History, Version
  <2>5. sources'[p].state # "missing"
    BY <1>4
  <2> QED
    BY <1>1, <1>6, <2>1, <2>2, <2>3, <2>4, <2>5 DEF JobRow
<1>9. indexed' = indexed /\ failed' = failed /\ fts' = fts /\ fts \subseteq indexed
  BY DEF Lineage, RevisionRows
<1> QED
  BY <1>4, <1>5, <1>7, <1>8, <1>9, TablesKeep

\* The three ways process_document writes its row.
LEMMA UnchangedKeeps ==
  ASSUME Lineage, NEW k \in Procs, Unchanged(k)
  PROVE  Lineage'
<1>1. job[k].version \in Nat /\ job[k].path \in Paths
  BY DEF Lineage, TypeOK, Job, JobRows, JobRow, Unchanged
<1>2. OthersRest(k) /\ pc'[k] = "documents"
  BY DEF Lineage, TypeOK, Unchanged, NextDocument, Goto, OthersRest
<1>3. pc' \in [Procs -> Step] /\ job' \in [Procs -> Job]
  BY NoJobType DEF Lineage, TypeOK, Unchanged, NextDocument, Goto, Step
<1>4. reflects' \in [Paths -> Nat]
  BY <1>1 DEF Lineage, TypeOK, Unchanged
<1> QED
  BY <1>1, <1>2, <1>3, <1>4, UpsertKeeps DEF Unchanged

\* Stage keeps the invariant.
LEMMA StageKeeps ==
  ASSUME Lineage, NEW k \in Procs, Stage(k)
  PROVE  Lineage'
<1>1. job[k].version \in Nat
  BY DEF Lineage, TypeOK, Job
<1>2. OthersRest(k) /\ pc'[k] = "staged"
  BY DEF Lineage, TypeOK, Stage, Goto, OthersRest, locals
<1>3. pc' \in [Procs -> Step] /\ job' \in [Procs -> Job] /\ reflects' \in [Paths -> Nat]
  BY DEF Lineage, TypeOK, Stage, Goto, Step, locals
<1> QED
  BY <1>1, <1>2, <1>3, UpsertKeeps DEF Stage, locals

\* ParseFails keeps the invariant.
LEMMA ParseFailsKeeps ==
  ASSUME Lineage, NEW k \in Procs, ParseFails(k)
  PROVE  Lineage'
<1> DEFINE state == IF job[k].existing.revision # None THEN "active" ELSE "error"
<1>1. seenAt[k][job[k].path] \in Nat
  BY DEF Lineage, TypeOK, JobRows, JobRow, ParseFails
<1>2. OthersRest(k) /\ pc'[k] = "rejecting"
  BY DEF Lineage, TypeOK, ParseFails, Goto, OthersRest, locals
<1>3. pc' \in [Procs -> Step] /\ job' \in [Procs -> Job] /\ reflects' \in [Paths -> Nat]
  BY DEF Lineage, TypeOK, ParseFails, Goto, Step, locals
<1>4. Upsert(job[k].path, job[k].id, job[k].existing.revision, state,
             seenAt[k][job[k].path])
  BY DEF ParseFails
<1>5. state \in {"active", "error"} /\ (job[k].existing.revision # None => state = "active")
  OBVIOUS
<1> QED
  BY <1>1, <1>2, <1>3, <1>4, <1>5, UpsertKeeps DEF ParseFails, locals

\* The revision process k is about to insert.
LEMMA DraftFacts ==
  ASSUME Lineage, NEW k \in Procs, pc[k] \in {"staged", "rejecting"}
  PROVE  /\ Draft(k) \in Revision
         /\ Draft(k).source = job[k].id
         /\ job[k].path \in Paths
         /\ Draft(k).content \in History(job[k].path)
         /\ SourceExists(job[k].id) => sources[job[k].path].id = job[k].id
<1>1. JobRow(k)
  BY DEF Lineage, JobRows
<1>2. job[k].path \in Paths /\ job[k].id \in SourceIds
  BY <1>1 DEF JobRow
<1>3. job[k].content \in History(job[k].path) /\ job[k].content \in Contents
  BY <1>1, <1>2, HistoryType DEF JobRow, Lineage
<1>4. SourceExists(job[k].id) => sources[job[k].path].id = job[k].id
  BY <1>1 DEF JobRow, SourceExists
<1> QED
  BY <1>2, <1>3, <1>4 DEF Draft, Revision

\* A promotion writes the row of its own source only.
LEMMA PromoteKeeps ==
  ASSUME Lineage, NEW k \in Procs, Promote(k)
  PROVE  Lineage'
<1> DEFINE p == job[k].path
<1> DEFINE r == Draft(k)
<1>1. /\ r \in Revision
      /\ r.source = job[k].id
      /\ r.content \in History(p)
      /\ p \in Paths
      /\ sources[p].id = job[k].id
  BY DraftFacts DEF Promote, Insertable, Draft
<1>2. /\ job[k].id \in SourceIds
      /\ \A q \in Paths : sources[q].id = job[k].id => q = p
      /\ job[k].version \in Nat
  BY DEF Promote, Lineage, TypeOK, Job, JobRows, JobRow
<1>3. /\ sources'[p] = [id |-> job[k].id, revision |-> r, state |-> "active",
                        modified |-> job[k].version]
      /\ \A q \in Paths \ {p} : sources'[q] = sources[q]
      /\ sources' = [sources EXCEPT ![p] = sources'[p]]
  BY <1>1, <1>2 DEF Promote, PointTo, Lineage, TypeOK
<1>4. sources'[p] \in SourceRow
  BY <1>1, <1>2, <1>3 DEF SourceRow, SourceState
<1>5. /\ indexed' = indexed \cup {r}
      /\ failed' = failed
      /\ fts' = (fts \ {job[k].existing.revision}) \cup {r}
      /\ log' = log
  BY DEF Promote
<1>6. OthersRest(k) /\ pc'[k] = "documents"
  BY DEF Lineage, TypeOK, Promote, NextDocument, Goto, OthersRest
<1>7. TypeOK'
  <2>1. sources' \in [Paths -> SourceRow]
    BY <1>3, <1>4 DEF Lineage, TypeOK
  <2>2. pc' \in [Procs -> Step] /\ job' \in [Procs -> Job]
    BY NoJobType DEF Lineage, TypeOK, Promote, NextDocument, Goto, Step
  <2>3. reflects' \in [Paths -> Nat]
    BY <1>2 DEF Lineage, TypeOK, Promote
  <2> QED
    BY <1>1, <1>5, <2>1, <2>2, <2>3 DEF Lineage, TypeOK, Promote
<1>8. sources[p].state # "missing"
  BY <1>1, <1>2, SourceIndexAssumption DEF Lineage, RowIds, NoRow
<1>9. RowsGrow(k)
  BY <1>1, <1>3, <1>8 DEF RowsGrow
<1>10. OwnRevision'
  BY <1>1, <1>3, <1>5 DEF Lineage, OwnRevision
<1>11. fts' \subseteq indexed'
  BY <1>5 DEF Lineage, RevisionRows
<1>12. \A s \in (indexed' \cup failed') \ (indexed \cup failed) :
         \E q \in Paths : sources'[q].id = s.source /\ s.content \in History(q)
  BY <1>1, <1>3, <1>5
<1> QED
  BY <1>5, <1>6, <1>7, <1>9, <1>10, <1>11, <1>12, TablesKeep

\* A failed revision belongs to the source of its document.
LEMMA RecordFailedKeeps ==
  ASSUME Lineage, NEW k \in Procs, RecordFailed(k)
  PROVE  Lineage'
<1> DEFINE r == Draft(k)
<1>1. r \in Revision
  BY DraftFacts DEF RecordFailed
<1>2. /\ UNCHANGED <<log, sources, indexed, fts>>
      /\ failed' \subseteq failed \cup {r}
      /\ failed' # failed => SourceExists(r.source)
  BY DEF RecordFailed, Insertable
<1>3. OthersRest(k) /\ pc'[k] = "documents"
  BY DEF Lineage, TypeOK, RecordFailed, NextDocument, Goto, OthersRest
<1>4. TypeOK'
  BY <1>1, <1>2, NoJobType DEF Lineage, TypeOK, RecordFailed, NextDocument, Goto, Step
<1>5. RowsGrow(k)
  BY <1>2 DEF RowsGrow
<1>6. OwnRevision' /\ fts' \subseteq indexed'
  BY <1>2 DEF Lineage, OwnRevision, RevisionRows
<1>7. \A s \in (indexed' \cup failed') \ (indexed \cup failed) :
        \E q \in Paths : sources'[q].id = s.source /\ s.content \in History(q)
  <2> SUFFICES ASSUME NEW s \in (indexed' \cup failed') \ (indexed \cup failed)
               PROVE  \E q \in Paths : sources'[q].id = s.source /\ s.content \in History(q)
    OBVIOUS
  <2>1. s = r /\ SourceExists(r.source)
    BY <1>2
  <2>2. /\ r.source = job[k].id
        /\ job[k].path \in Paths
        /\ r.content \in History(job[k].path)
        /\ SourceExists(job[k].id) => sources[job[k].path].id = job[k].id
    BY DraftFacts DEF RecordFailed
  <2> QED
    BY <1>2, <2>1, <2>2
<1> QED
  BY <1>2, <1>3, <1>4, <1>5, <1>6, <1>7, TablesKeep

\* The deletion pass clears the source it listed and no other.
LEMMA MarkDeletedKeeps ==
  ASSUME Lineage, NEW k \in Procs, NEW p \in Paths, MarkDeleted(k, p)
  PROVE  Lineage'
<1> DEFINE i == listed[k][p].id
<1>1. /\ sources[p].state # "missing"
      /\ i = sources[p].id
      /\ i \in SourceIds
  BY DEF Lineage, ListedRows, RowIds, MarkDeleted
<1>2. \A q \in Paths : sources[q].id = i => q = p
  BY <1>1, SourceIndexAssumption DEF Lineage, RowIds
<1>3. /\ sources'[p] = [sources[p] EXCEPT !.revision = None, !.state = "deleted"]
      /\ \A q \in Paths \ {p} : sources'[q] = sources[q]
      /\ sources' = [sources EXCEPT ![p] = sources'[p]]
  BY <1>1, <1>2 DEF MarkDeleted, ClearPointer, Lineage, TypeOK
<1>4. sources[p] \in SourceRow
  BY DEF Lineage, TypeOK
<1>5. /\ sources'[p] \in SourceRow
      /\ sources'[p].revision = None
      /\ sources'[p].state = "deleted"
      /\ sources'[p].id = sources[p].id
  BY <1>3, <1>4 DEF SourceRow, SourceState
<1>6. /\ UNCHANGED <<log, indexed, failed>>
      /\ fts' \subseteq fts
  BY DEF MarkDeleted
<1>7. OthersRest(k) /\ pc'[k] = "sweep"
  BY DEF Lineage, TypeOK, MarkDeleted, OthersRest
<1>8. TypeOK'
  <2>1. sources' \in [Paths -> SourceRow]
    BY <1>3, <1>5 DEF Lineage, TypeOK
  <2> QED
    BY <1>6, <2>1 DEF Lineage, TypeOK, MarkDeleted
<1>9. RowsGrow(k)
  BY <1>1, <1>3, <1>5 DEF RowsGrow
<1>10. OwnRevision'
  <2>1. indexed' = indexed
    BY <1>6
  <2> SUFFICES ASSUME NEW q \in Paths, sources'[q].revision # None
               PROVE  /\ sources'[q].revision \in indexed
                      /\ sources'[q].revision.source = sources'[q].id
                      /\ sources'[q].state = "active"
    BY <2>1 DEF OwnRevision
  <2>2. q # p /\ sources'[q] = sources[q]
    BY <1>3, <1>5
  <2> QED
    BY <2>2 DEF Lineage, OwnRevision
<1>11. fts' \subseteq indexed'
  BY <1>6 DEF Lineage, RevisionRows
<1> QED
  BY <1>6, <1>7, <1>8, <1>9, <1>10, <1>11, TablesKeep

-----------------------------------------------------------------------------
(* The invariant.                                                          *)

\* A step that changes nothing keeps the invariant.
LEMMA StutterKeeps ==
  ASSUME Lineage, UNCHANGED vars
  PROVE  Lineage'
<1>1. UNCHANGED <<log, sources, indexed, failed, fts, pc, unvisited, seenAt, todo,
                  listed, job, faults, reflects>>
  BY DEF vars, tables, locals
<1>2. \A q \in Paths : History(q)' = History(q)
  BY <1>1 DEF History, Version
<1>3. TypeOK' /\ RowIds' /\ OwnRevision' /\ JobIds' /\ ListedRows'
  BY <1>1 DEF Lineage, TypeOK, RowIds, OwnRevision, JobIds, ListedRows
<1>4. RevisionRows' /\ JobRows'
  BY <1>1, <1>2 DEF Lineage, RevisionRows, JobRows, JobRow
<1> QED
  BY <1>3, <1>4 DEF Lineage

\* Every step of a process keeps the invariant.
LEMMA IndexKeeps ==
  ASSUME Lineage, NEW k \in Procs, Index(k)
  PROVE  Lineage'
<1>1. CASE StartScan(k)
  BY <1>1, StartScanKeeps
<1>2. CASE \E p \in Paths : Visit(k, p)
  BY <1>2, VisitKeeps
<1>3. CASE EndWalk(k)
  BY <1>3, EndWalkKeeps
<1>4. CASE \E p \in Paths : Find(k, p)
  BY <1>4, FindKeeps
<1>5. CASE Read(k)
  BY <1>5, ReadKeeps
<1>6. CASE ReadFails(k)
  BY <1>6, ReadFailsKeeps
<1>7. CASE Unchanged(k)
  BY <1>7, UnchangedKeeps
<1>8. CASE Stage(k)
  BY <1>8, StageKeeps
<1>9. CASE Promote(k)
  BY <1>9, PromoteKeeps
<1>10. CASE PromoteRejected(k)
  BY <1>10, PromoteRejectedKeeps
<1>11. CASE ParseFails(k)
  BY <1>11, ParseFailsKeeps
<1>12. CASE RecordFailed(k)
  BY <1>12, RecordFailedKeeps
<1>13. CASE ListActive(k)
  BY <1>13, ListActiveKeeps
<1>14. CASE \E p \in Paths : MarkDeleted(k, p)
  BY <1>14, MarkDeletedKeeps
<1>15. CASE Finish(k)
  BY <1>15, FinishKeeps
<1> QED
  BY <1>1, <1>2, <1>3, <1>4, <1>5, <1>6, <1>7, <1>8, <1>9, <1>10, <1>11, <1>12,
     <1>13, <1>14, <1>15 DEF Index

\* Every step of the system keeps the invariant.
LEMMA NextKeeps ==
  ASSUME Lineage, [Next]_vars
  PROVE  Lineage'
<1>1. CASE \E p \in Paths, c \in Contents \cup {Absent} : Edit(p, c)
  BY <1>1, EditKeeps
<1>2. ASSUME NEW k \in Procs, Index(k)
      PROVE  Lineage'
  BY <1>2, IndexKeeps
<1>3. ASSUME NEW k \in Procs, Fault(k)
      PROVE  Lineage'
  BY <1>3, WalkFailsKeeps, DocumentFailsKeeps, CrashKeeps DEF Fault
<1>4. CASE UNCHANGED vars
  BY <1>4, StutterKeeps
<1> QED
  BY <1>1, <1>2, <1>3, <1>4 DEF Next

\* However many `omnisem index` processes run at once, whatever they crash in
\* the middle of and whatever the owner does to the files: sources never share
\* an id, a source points to nothing or to an indexed revision of its own, and
\* every revision was made from the file of the source it belongs to.
THEOREM LineageInvariant == Spec => []Lineage
<1>1. Init => Lineage
  BY LineageInit
<1>2. Lineage /\ [Next]_vars => Lineage'
  BY NextKeeps
<1> QED
  BY <1>1, <1>2, PTL DEF Spec

\* The tables and the locals of every process stay well-typed.
THEOREM TypeCorrect == Spec => []TypeOK
<1>1. Lineage => TypeOK
  BY DEF Lineage
<1> QED
  BY <1>1, LineageInvariant, PTL

\* search_fts never serves, under a path, a text the file at that path never
\* had: FTS rows of an orphaned revision may exist, the join does not show them.
THEOREM SearchIsAuthentic == Spec => []AuthenticEvidence
<1>1. Lineage => AuthenticEvidence
  <2> SUFFICES ASSUME Lineage, NEW p \in Paths
               PROVE  Served(p) \in History(p) \cup {Absent}
    BY DEF AuthenticEvidence
  <2>1. CASE ~ (sources[p].state = "active" /\ sources[p].revision \in fts)
    BY <2>1 DEF Served
  <2>2. CASE sources[p].state = "active" /\ sources[p].revision \in fts
    <3> DEFINE r == sources[p].revision
    <3>1. r \in indexed /\ r \in Revision
      BY <2>2 DEF Lineage, RevisionRows, TypeOK
    <3>2. r # None
      BY <3>1, SourceIndexAssumption DEF Revision
    <3>3. r.source = sources[p].id /\ r.source \in SourceIds
      BY <3>1, <3>2 DEF Lineage, OwnRevision, Revision
    <3>4. PICK q \in Paths : sources[q].id = r.source /\ r.content \in History(q)
      BY <3>1 DEF Lineage, RevisionRows
    <3>5. q = p
      BY <3>3, <3>4, SourceIndexAssumption DEF Lineage, RowIds
    <3> QED
      BY <2>2, <3>4, <3>5 DEF Served
  <2> QED
    BY <2>1, <2>2
<1> QED
  BY <1>1, LineageInvariant, PTL

-----------------------------------------------------------------------------
(* One indexer process.                                                    *)

OneProcess == \A k, l \in Procs : k = l

\* The inductive invariant for one process.
SoloLineage == Lineage /\ FtsExact /\ OwnSnapshot

\* The invariant for one process holds of an empty database.
LEMMA SoloLineageInit == Init => SoloLineage
<1> SUFFICES ASSUME Init PROVE SoloLineage
  OBVIOUS
<1>1. FtsExact
  BY DEF Init, FtsExact, Current, NoRow
<1>2. OwnSnapshot
  BY DEF Init, OwnSnapshot
<1> QED
  BY <1>1, <1>2, LineageInit DEF SoloLineage

\* Only an active source points to a revision.
LEMMA CurrentArePointed ==
  ASSUME OwnRevision
  PROVE  Current = {sources[p].revision : p \in Paths} \ {None}
BY DEF OwnRevision, Current

\* The search surface stays exact when no pointer moves.
LEMMA PointersRest ==
  ASSUME Lineage, Lineage', FtsExact, fts' = fts,
         \A p \in Paths : sources'[p].revision = sources[p].revision
  PROVE  FtsExact'
<1>1. Current = {sources[p].revision : p \in Paths} \ {None}
  BY CurrentArePointed DEF Lineage
<1>2. Current' = {sources'[p].revision : p \in Paths} \ {None}
  BY DEF Lineage, OwnRevision, Current
<1> QED
  BY <1>1, <1>2 DEF FtsExact

\* The search surface stays exact when the pointer of one source moves and the
\* FTS rows move with it.
LEMMA PointerMoves ==
  ASSUME Lineage, Lineage', FtsExact, NEW p \in Paths,
         \A q \in Paths \ {p} : sources'[q] = sources[q],
         fts' = (fts \ {sources[p].revision}) \cup ({sources'[p].revision} \ {None})
  PROVE  FtsExact'
<1>1. Current = {sources[q].revision : q \in Paths} \ {None}
  BY CurrentArePointed DEF Lineage
<1>2. Current' = {sources'[q].revision : q \in Paths} \ {None}
  BY DEF Lineage, OwnRevision, Current
<1>3. ASSUME NEW q \in Paths \ {p}, sources[q].revision = sources[p].revision
      PROVE  sources[q].revision = None
  <2> SUFFICES ASSUME sources[q].revision # None PROVE FALSE
    OBVIOUS
  <2>1. sources[q].id = sources[p].id /\ sources[q].revision \in Revision
    BY <1>3 DEF Lineage, TypeOK, OwnRevision
  <2>2. sources[q].id # None
    BY <2>1, SourceIndexAssumption DEF Lineage, OwnRevision, Revision
  <2> QED
    BY <2>1, <2>2 DEF Lineage, RowIds
<1> QED
  BY <1>1, <1>2, <1>3 DEF FtsExact

\* Between documents and scans a process remembers nothing.
LEMMA NothingRemembered ==
  ASSUME OneProcess, NEW k \in Procs, pc'[k] \notin InDocument \cup {"sweep"}
  PROVE  OwnSnapshot'
BY DEF OneProcess, OwnSnapshot

\* Steps that leave the tables alone and remember nothing.
LEMMA SoloIdleStep ==
  ASSUME OneProcess, SoloLineage, Lineage', NEW k \in Procs,
         \/ StartScan(k) \/ (\E p \in Paths : Visit(k, p)) \/ EndWalk(k)
         \/ WalkFails(k) \/ ReadFails(k) \/ PromoteRejected(k)
         \/ RecordFailed(k) \/ DocumentFails(k) \/ Finish(k) \/ Crash(k)
  PROVE  SoloLineage'
<1>1. fts' = fts /\ sources' = sources
  BY DEF StartScan, Visit, EndWalk, WalkFails, ReadFails, PromoteRejected,
         RecordFailed, DocumentFails, Finish, Crash, tables
<1>2. pc'[k] \notin InDocument \cup {"sweep"}
  BY DEF SoloLineage, Lineage, TypeOK, StartScan, Visit, EndWalk, WalkFails,
         ReadFails, PromoteRejected, RecordFailed, DocumentFails, Finish, Crash,
         Forget, NextDocument, Goto
<1> QED
  BY <1>1, <1>2, PointersRest, NothingRemembered DEF SoloLineage

\* The row a process remembers is the row it read.
LEMMA SoloFind ==
  ASSUME OneProcess, SoloLineage, Lineage', NEW k \in Procs, NEW p \in Paths, Find(k, p)
  PROVE  SoloLineage'
<1>1. fts' = fts /\ sources' = sources
  BY DEF Find, tables
<1>2. pc'[k] = "found" /\ job'[k].path = p /\ job'[k].existing = sources[p]
  BY DEF SoloLineage, Lineage, TypeOK, Find, Goto
<1>3. OwnSnapshot'
  BY <1>1, <1>2 DEF OneProcess, OwnSnapshot
<1> QED
  BY <1>1, <1>3, PointersRest DEF SoloLineage

\* Reading the file leaves the remembered row alone.
LEMMA SoloRead ==
  ASSUME OneProcess, SoloLineage, Lineage', NEW k \in Procs, Read(k)
  PROVE  SoloLineage'
<1>1. fts' = fts /\ sources' = sources /\ pc[k] = "found"
  BY DEF Read, tables
<1>2. /\ pc'[k] = "read"
      /\ job'[k].path = job[k].path
      /\ job'[k].existing = job[k].existing
  BY DEF SoloLineage, Lineage, TypeOK, Job, Read, Goto
<1>3. OwnSnapshot'
  BY <1>1, <1>2 DEF SoloLineage, OneProcess, OwnSnapshot
<1> QED
  BY <1>1, <1>3, PointersRest DEF SoloLineage

\* An upsert writes back the pointer that is there.
LEMMA SoloUpsert ==
  ASSUME OneProcess, SoloLineage, Lineage', NEW k \in Procs,
         Unchanged(k) \/ Stage(k) \/ ParseFails(k)
  PROVE  SoloLineage'
<1> DEFINE p == job[k].path
<1>1. /\ pc[k] = "read"
      /\ p \in Paths
      /\ job[k].existing = sources[p]
      /\ sources[p] \in SourceRow
  BY DEF SoloLineage, Lineage, TypeOK, JobRows, JobRow, OwnSnapshot, Unchanged,
         Stage, ParseFails
<1>2. /\ fts' = fts
      /\ sources'[p].revision = sources[p].revision
      /\ \A q \in Paths \ {p} : sources'[q] = sources[q]
      /\ Stage(k) => sources'[p].state = "active"
  BY <1>1 DEF SoloLineage, Lineage, TypeOK, Unchanged, Stage, ParseFails, Upsert
<1>3. FtsExact'
  BY <1>2, PointersRest DEF SoloLineage
<1>4. CASE Unchanged(k)
  <2>1. pc'[k] = "documents"
    BY <1>4 DEF SoloLineage, Lineage, TypeOK, Unchanged, NextDocument, Goto
  <2> QED
    BY <1>3, <2>1, NothingRemembered DEF SoloLineage
<1>5. CASE Stage(k) \/ ParseFails(k)
  <2>1. /\ job'[k] = job[k]
        /\ Stage(k) => pc'[k] = "staged"
        /\ ParseFails(k) => pc'[k] = "rejecting"
    BY <1>5 DEF SoloLineage, Lineage, TypeOK, Stage, ParseFails, Goto, locals
  <2>2. OwnSnapshot'
    BY <1>1, <1>2, <1>5, <2>1 DEF OneProcess, OwnSnapshot
  <2> QED
    BY <1>3, <2>2 DEF SoloLineage
<1> QED
  BY <1>4, <1>5

\* A promotion moves one pointer and the FTS rows with it.
LEMMA SoloPromote ==
  ASSUME OneProcess, SoloLineage, Lineage', NEW k \in Procs, Promote(k)
  PROVE  SoloLineage'
<1> DEFINE p == job[k].path
<1>1. p \in Paths /\ Draft(k) \in Revision /\ sources[p].id = job[k].id
  BY DraftFacts DEF SoloLineage, Promote, Insertable, Draft
<1>2. \A q \in Paths : sources[q].id = job[k].id => q = p
  BY DEF SoloLineage, Lineage, JobRows, JobRow, Promote
<1>3. /\ sources'[p].revision = Draft(k)
      /\ \A q \in Paths \ {p} : sources'[q] = sources[q]
  BY <1>1, <1>2 DEF Promote, PointTo
<1>4. job[k].existing.revision = sources[p].revision
  BY DEF SoloLineage, OwnSnapshot, Promote
<1>5. fts' = (fts \ {sources[p].revision}) \cup ({sources'[p].revision} \ {None})
  BY <1>1, <1>3, <1>4, SourceIndexAssumption DEF Promote, Revision
<1>6. pc'[k] = "documents"
  BY DEF SoloLineage, Lineage, TypeOK, Promote, NextDocument, Goto
<1> QED
  BY <1>1, <1>3, <1>5, <1>6, PointerMoves, NothingRemembered DEF SoloLineage

\* The deletion pass starts from the rows that are there.
LEMMA SoloListActive ==
  ASSUME OneProcess, SoloLineage, Lineage', NEW k \in Procs, ListActive(k)
  PROVE  SoloLineage'
<1>1. fts' = fts /\ sources' = sources
  BY DEF ListActive, tables
<1>2. pc'[k] = "sweep" /\ listed'[k] = sources /\ todo'[k] \subseteq Paths
  BY DEF SoloLineage, Lineage, TypeOK, ListActive, Goto
<1>3. OwnSnapshot'
  BY <1>1, <1>2 DEF OneProcess, OwnSnapshot
<1> QED
  BY <1>1, <1>3, PointersRest DEF SoloLineage

\* A deletion clears one pointer and takes its FTS rows away.
LEMMA SoloMarkDeleted ==
  ASSUME OneProcess, SoloLineage, Lineage', NEW k \in Procs, NEW p \in Paths,
         MarkDeleted(k, p)
  PROVE  SoloLineage'
<1>1. /\ pc[k] = "sweep"
      /\ p \in todo[k]
      /\ listed[k][p] = sources[p]
      /\ sources[p].id \in SourceIds
  BY DEF SoloLineage, Lineage, RowIds, ListedRows, OwnSnapshot, MarkDeleted
<1>2. \A q \in Paths : sources[q].id = sources[p].id => q = p
  BY <1>1, SourceIndexAssumption DEF SoloLineage, Lineage, RowIds
<1>3. /\ sources'[p].revision = None
      /\ \A q \in Paths \ {p} : sources'[q] = sources[q]
  <2>1. sources' = [q \in Paths |->
          IF sources[q].id = sources[p].id
            THEN [sources[q] EXCEPT !.revision = None, !.state = "deleted"]
            ELSE sources[q]]
    BY <1>1 DEF MarkDeleted, ClearPointer
  <2>2. sources[p] \in SourceRow
    BY DEF SoloLineage, Lineage, TypeOK
  <2>3. [sources[p] EXCEPT !.revision = None, !.state = "deleted"].revision = None
    BY <2>2 DEF SourceRow
  <2> QED
    BY <1>2, <2>1, <2>3
<1>4. fts' = (fts \ {sources[p].revision}) \cup ({sources'[p].revision} \ {None})
  BY <1>1, <1>3 DEF MarkDeleted
<1>5. /\ pc'[k] = "sweep"
      /\ todo'[k] = todo[k] \ {p}
      /\ todo[k] \subseteq Paths
      /\ listed' = listed
  BY <1>1 DEF SoloLineage, Lineage, TypeOK, MarkDeleted
<1>6. OwnSnapshot'
  BY <1>3, <1>1, <1>5 DEF SoloLineage, OneProcess, OwnSnapshot
<1> QED
  BY <1>3, <1>4, <1>6, PointerMoves DEF SoloLineage

\* Every step of the only process keeps the invariant.
LEMMA SoloNext ==
  ASSUME OneProcess, SoloLineage, [Next]_vars
  PROVE  SoloLineage'
<1>1. Lineage'
  BY NextKeeps DEF SoloLineage
<1>2. ASSUME UNCHANGED <<tables, pc, locals>>
      PROVE  SoloLineage'
  <2>1. OwnSnapshot'
    BY <1>2 DEF SoloLineage, OwnSnapshot, tables, locals
  <2> QED
    BY <1>1, <1>2, <2>1, PointersRest DEF SoloLineage, tables
<1>3. CASE \E p \in Paths, c \in Contents \cup {Absent} : Edit(p, c)
  BY <1>2, <1>3 DEF Edit
<1>4. CASE UNCHANGED vars
  BY <1>2, <1>4 DEF vars
<1>5. ASSUME NEW k \in Procs, Index(k)
      PROVE  SoloLineage'
  BY <1>1, <1>5, SoloIdleStep, SoloFind, SoloRead, SoloUpsert, SoloPromote,
     SoloListActive, SoloMarkDeleted DEF Index
<1>6. ASSUME NEW k \in Procs, Fault(k)
      PROVE  SoloLineage'
  BY <1>1, <1>6, SoloIdleStep DEF Fault
<1> QED
  BY <1>3, <1>4, <1>5, <1>6 DEF Next

\* "FTS contains only active segments", in every state of every run, while one
\* process at a time indexes: the search surface is exactly the current
\* revisions, crashes and failed statements included.
THEOREM SoloSearchIsExact == OneProcess => (Spec => []FtsExact)
<1> SUFFICES ASSUME OneProcess PROVE Spec => []FtsExact
  OBVIOUS
<1>1. Init => SoloLineage
  BY SoloLineageInit
<1>2. SoloLineage /\ [Next]_vars => SoloLineage'
  BY SoloNext
<1>3. SoloLineage => FtsExact
  BY DEF SoloLineage
<1> QED
  BY <1>1, <1>2, <1>3, PTL DEF Spec

-----------------------------------------------------------------------------
(* One indexer process: the versions of the files that search reflects.    *)

\* Every version that is remembered is a version of the file.
Versions ==
  /\ \A p \in Paths :
       /\ Version(p) \in 1 .. MaxVersions
       /\ reflects[p] \in 1 .. Version(p)
       /\ sources[p].modified <= Version(p)
  /\ \A k \in Procs, p \in Paths : seenAt[k][p] \in 1 .. Version(p)

Processing == {"documents"} \cup InDocument

\* What process k has yet to bring into search is no older than what search
\* reflects, and what it is to take out of search is gone since.
Ahead(k) ==
  /\ pc[k] = "walk" => \A p \in Paths \ unvisited[k] : reflects[p] <= seenAt[k][p]
  /\ pc[k] \in Processing => todo[k] \subseteq Seen(k)
  /\ pc[k] \in Processing \cup {"sweep"} =>
       \A p \in Paths \ Seen(k) : reflects[p] <= seenAt[k][p]
  /\ pc[k] = "sweep" => todo[k] \cap Seen(k) = {}
  /\ pc[k] \in InDocument => job[k].path \in Seen(k)
  /\ pc[k] \in InDocument \ {"found"} =>
       \A p \in Paths : p = job[k].path =>
         /\ job[k].version \in reflects[p] .. Version(p)
         /\ seenAt[k][p] <= job[k].version
         /\ log[p][job[k].version] = job[k].content

\* The inductive invariant of the refinement.
SoloVersions == SoloLineage /\ Versions /\ \A k \in Procs : Ahead(k)

LEMMA LogFacts ==
  ASSUME TypeOK, NEW p \in Paths
  PROVE  /\ log[p] \in Seq(Contents \cup {Absent})
         /\ Version(p) \in Nat /\ Version(p) >= 1
<1>1. log[p] \in Seq(Contents \cup {Absent}) /\ log[p] # <<>>
  BY DEF TypeOK
<1>2. Len(log[p]) \in Nat /\ Len(log[p]) # 0
  BY <1>1
<1> QED
  BY <1>1, <1>2 DEF Version

LEMMA SoloVersionsInit == Init => SoloVersions
<1> SUFFICES ASSUME Init PROVE SoloVersions
  OBVIOUS
<1>1. ASSUME NEW p \in Paths
      PROVE  /\ Version(p) = 1 /\ reflects[p] = 1 /\ sources[p].modified = 0
             /\ \A k \in Procs : seenAt[k][p] = 1
  BY DEF Init, Version, NoRow
<1>2. Versions
  BY <1>1, SourceIndexAssumption DEF Versions
<1>3. \A k \in Procs : Ahead(k)
  BY DEF Init, Ahead, Processing, InDocument
<1> QED
  BY <1>2, <1>3, SoloLineageInit DEF SoloVersions

\* An edit adds one version and keeps the others.
LEMMA EditVersions ==
  ASSUME TypeOK, NEW p \in Paths, NEW c \in Contents \cup {Absent}, Edit(p, c),
         NEW q \in Paths
  PROVE  /\ Version(q)' = IF q = p THEN Version(q) + 1 ELSE Version(q)
         /\ \A i \in 1 .. Version(q) : log'[q][i] = log[q][i]
         /\ Version(p) + 1 <= MaxVersions
<1>1. log[q] \in Seq(Contents \cup {Absent}) /\ Version(q) \in Nat
  BY LogFacts
<1>2. log' = [log EXCEPT ![p] = Append(@, c)] /\ Version(p) < MaxVersions
  BY DEF Edit
<1>3. Version(p) + 1 <= MaxVersions
  BY <1>2, LogFacts, SourceIndexAssumption
<1>4. CASE q # p
  <2>1. log'[q] = log[q]
    BY <1>2, <1>4 DEF TypeOK
  <2> QED
    BY <1>3, <1>4, <2>1 DEF Version
<1>5. CASE q = p
  <2>1. log'[q] = Append(log[q], c)
    BY <1>2, <1>5 DEF TypeOK
  <2>2. /\ Len(Append(log[q], c)) = Len(log[q]) + 1
        /\ \A i \in 1 .. Len(log[q]) : Append(log[q], c)[i] = log[q][i]
    BY <1>1
  <2> QED
    BY <1>3, <1>5, <2>1, <2>2 DEF Version
<1> QED
  BY <1>4, <1>5

LEMMA EditAhead ==
  ASSUME SoloVersions, NEW p \in Paths, NEW c \in Contents \cup {Absent}, Edit(p, c)
  PROVE  Versions' /\ \A k \in Procs : Ahead(k)'
<1>1. /\ TypeOK /\ Versions
      /\ UNCHANGED <<sources, reflects, pc, unvisited, seenAt, todo, job>>
  BY DEF SoloVersions, SoloLineage, Lineage, Edit, tables, locals
<1>2. \A q \in Paths :
        /\ Version(q) \in Nat /\ Version(q) >= 1
        /\ Version(q)' \in Nat /\ Version(q) <= Version(q)'
        /\ Version(q)' <= MaxVersions
        /\ \A i \in 1 .. Version(q) : log'[q][i] = log[q][i]
  <2> TAKE q \in Paths
  <2>1. Version(q) \in 1 .. MaxVersions /\ MaxVersions \in Nat
    BY <1>1, SourceIndexAssumption DEF Versions
  <2> QED
    BY <1>1, <2>1, EditVersions
<1>3. Versions'
  <2>1. ASSUME NEW q \in Paths
        PROVE  /\ Version(q)' \in 1 .. MaxVersions
               /\ reflects'[q] \in 1 .. Version(q)'
               /\ sources'[q].modified <= Version(q)'
    <3>1. /\ reflects[q] \in 1 .. Version(q) /\ sources[q].modified <= Version(q)
          /\ sources[q].modified \in Nat
      BY <1>1 DEF Versions, TypeOK, SourceRow
    <3> QED
      BY <1>1, <1>2, <3>1
  <2>2. ASSUME NEW k \in Procs, NEW q \in Paths
        PROVE  seenAt'[k][q] \in 1 .. Version(q)'
    BY <1>1, <1>2 DEF Versions
  <2> QED
    BY <2>1, <2>2 DEF Versions
<1>4. ASSUME NEW k \in Procs PROVE Ahead(k)'
  <2>1. Ahead(k)
    BY DEF SoloVersions
  <2>2. \A q \in Paths : log'[q][seenAt'[k][q]] = log[q][seenAt[k][q]]
    BY <1>1, <1>2 DEF Versions
  <2>3. Seen(k)' = Seen(k)
    BY <2>2 DEF Seen
  <2>4. ASSUME pc[k] \in InDocument \ {"found"}, NEW q \in Paths, q = job[k].path
        PROVE  /\ job[k].version \in reflects[q] .. Version(q)'
               /\ seenAt[k][q] <= job[k].version
               /\ log'[q][job[k].version] = job[k].content
    <3>1. /\ job[k].version \in reflects[q] .. Version(q)
          /\ seenAt[k][q] <= job[k].version
          /\ log[q][job[k].version] = job[k].content
      BY <2>1, <2>4 DEF Ahead
    <3>2. reflects[q] \in 1 .. Version(q)
      BY <1>1 DEF Versions
    <3>3. /\ job[k].version \in 1 .. Version(q)
          /\ job[k].version \in reflects[q] .. Version(q)'
      BY <1>2, <3>1, <3>2
    <3> QED
      BY <1>2, <3>1, <3>3
  <2> QED
    BY <1>1, <2>1, <2>3, <2>4 DEF Ahead
<1> QED
  BY <1>3, <1>4

\* What was seen stays so while the file and the time it was seen at do.
LEMMA VersionsKept ==
  ASSUME SoloVersions, log' = log,
         \A q \in Paths : /\ reflects'[q] \in 1 .. Version(q)
                          /\ sources'[q].modified <= Version(q),
         \A l \in Procs, q \in Paths : seenAt'[l][q] \in 1 .. Version(q)
  PROVE  Versions'
BY DEF SoloVersions, Versions, Version

\* The steps that leave search and its sources alone.
LEMMA QuietAhead ==
  ASSUME SoloVersions, NEW k \in Procs,
         \/ StartScan(k) \/ (\E p \in Paths : Visit(k, p)) \/ EndWalk(k)
         \/ WalkFails(k) \/ (\E p \in Paths : Find(k, p)) \/ Read(k) \/ ReadFails(k)
         \/ PromoteRejected(k) \/ RecordFailed(k) \/ DocumentFails(k)
         \/ ListActive(k) \/ Finish(k) \/ Crash(k)
  PROVE  Versions' /\ Ahead(k)'
<1>1. /\ TypeOK /\ Versions /\ Ahead(k)
      /\ UNCHANGED <<log, sources, reflects>>
  BY DEF SoloVersions, SoloLineage, Lineage, StartScan, Visit, EndWalk, WalkFails,
         Find, Read, ReadFails, PromoteRejected, RecordFailed, DocumentFails,
         ListActive, Finish, Crash, tables
<1>2. \A q \in Paths : Version(q) \in Nat /\ Version(q) >= 1
  BY <1>1, LogFacts
<1>3. \A q \in Paths : /\ reflects[q] \in 1 .. Version(q)
                       /\ sources[q].modified <= Version(q)
                       /\ seenAt[k][q] \in 1 .. Version(q)
  BY <1>1 DEF Versions
<1>4. ASSUME \A l \in Procs, q \in Paths : seenAt'[l][q] \in 1 .. Version(q)
      PROVE  Versions'
  BY <1>1, <1>3, <1>4, VersionsKept
<1>5. ASSUME seenAt' = seenAt
      PROVE  Versions' /\ Seen(k)' = Seen(k)
  BY <1>1, <1>4, <1>5 DEF Versions, Seen
<1>6. CASE StartScan(k)
  <2>1. /\ seenAt' = seenAt /\ pc'[k] = "walk" /\ unvisited'[k] = Paths
    BY <1>1, <1>6 DEF StartScan, Goto, TypeOK
  <2> QED
    BY <1>5, <2>1 DEF Ahead, Processing, InDocument
<1>7. ASSUME NEW p \in Paths, Visit(k, p)
      PROVE  Versions' /\ Ahead(k)'
  <2>1. /\ pc' = pc /\ pc[k] = "walk"
        /\ unvisited'[k] = unvisited[k] \ {p}
        /\ \A l \in Procs, q \in Paths :
             seenAt'[l][q] = IF l = k /\ q = p THEN Version(p) ELSE seenAt[l][q]
    BY <1>1, <1>7 DEF Visit, TypeOK
  <2>2. \A l \in Procs, q \in Paths : seenAt'[l][q] \in 1 .. Version(q)
    BY <1>1, <1>2, <2>1 DEF Versions
  <2>3. \A q \in Paths \ unvisited'[k] : reflects'[q] <= seenAt'[k][q]
    BY <1>1, <1>3, <2>1 DEF Ahead
  <2> QED
    BY <1>4, <2>1, <2>2, <2>3 DEF Ahead, Processing, InDocument
<1>8. CASE EndWalk(k)
  <2>1. /\ seenAt' = seenAt /\ pc[k] = "walk" /\ pc'[k] = "documents"
        /\ unvisited[k] = {} /\ todo'[k] = Seen(k)
    BY <1>1, <1>8 DEF EndWalk, Goto, TypeOK
  <2>2. \A q \in Paths : reflects'[q] <= seenAt'[k][q]
    BY <1>1, <2>1 DEF Ahead
  <2> QED
    BY <1>5, <2>1, <2>2 DEF Ahead, Processing, InDocument
<1>9. CASE WalkFails(k) \/ Finish(k) \/ Crash(k)
  <2>1. /\ pc'[k] = "idle"
        /\ \A l \in Procs, q \in Paths :
             seenAt'[l][q] = IF l = k THEN 1 ELSE seenAt[l][q]
    BY <1>1, <1>9 DEF WalkFails, Finish, Crash, Forget, Goto, TypeOK
  <2>2. \A l \in Procs, q \in Paths : seenAt'[l][q] \in 1 .. Version(q)
    BY <1>1, <1>2, <2>1 DEF Versions
  <2> QED
    BY <1>4, <2>1, <2>2 DEF Ahead, Processing, InDocument
<1>10. ASSUME NEW p \in Paths, Find(k, p)
       PROVE  Versions' /\ Ahead(k)'
  <2>1. /\ seenAt' = seenAt /\ pc[k] = "documents" /\ pc'[k] = "found"
        /\ p \in todo[k] /\ todo'[k] = todo[k] \ {p} /\ job'[k].path = p
    BY <1>1, <1>10 DEF Find, Goto, TypeOK
  <2> QED
    BY <1>1, <1>5, <2>1 DEF Ahead, Processing, InDocument
<1>11. CASE Read(k)
  <2>1. /\ seenAt' = seenAt /\ todo' = todo /\ pc[k] = "found" /\ pc'[k] = "read"
        /\ job'[k].path = job[k].path
        /\ job'[k].version = Version(job[k].path)
        /\ job'[k].content = File(job[k].path)
    <3>1. job[k] \in Job
      BY <1>1 DEF TypeOK
    <3> QED
      BY <1>1, <1>11, <3>1 DEF Read, Goto, TypeOK, Job
  <2>2. ASSUME NEW q \in Paths, q = job'[k].path
        PROVE  /\ job'[k].version \in reflects'[q] .. Version(q)'
               /\ seenAt'[k][q] <= job'[k].version
               /\ log'[q][job'[k].version] = job'[k].content
    BY <1>1, <1>2, <1>3, <2>1, <2>2 DEF Version, File
  <2> QED
    BY <1>1, <1>5, <2>1, <2>2 DEF Ahead, Processing, InDocument
<1>12. CASE ReadFails(k) \/ PromoteRejected(k) \/ RecordFailed(k) \/ DocumentFails(k)
  <2>1. /\ seenAt' = seenAt /\ todo' = todo
        /\ pc[k] \in InDocument /\ pc'[k] = "documents"
    BY <1>1, <1>12 DEF ReadFails, PromoteRejected, RecordFailed, DocumentFails,
                       NextDocument, Goto, TypeOK, InDocument
  <2> QED
    BY <1>1, <1>5, <2>1 DEF Ahead, Processing, InDocument
<1>13. CASE ListActive(k)
  <2>1. /\ seenAt' = seenAt /\ pc[k] = "documents" /\ pc'[k] = "sweep"
        /\ todo'[k] \cap Seen(k) = {}
    BY <1>1, <1>13 DEF ListActive, Goto, TypeOK
  <2> QED
    BY <1>1, <1>5, <2>1 DEF Ahead, Processing, InDocument
<1> QED
  BY <1>6, <1>7, <1>8, <1>9, <1>10, <1>11, <1>12, <1>13

\* process_document is done with its document, one way or another.
LEMMA DocumentAhead ==
  ASSUME SoloVersions, NEW k \in Procs, Unchanged(k) \/ Promote(k)
  PROVE  Versions' /\ Ahead(k)'
<1> DEFINE v == job[k].version
<1>1. PICK p \in Paths : p = job[k].path
  BY DEF SoloVersions, SoloLineage, Lineage, JobRows, JobRow, Unchanged, Promote,
         InDocument
<1>2. /\ TypeOK /\ Versions /\ Ahead(k) /\ pc[k] \in InDocument \ {"found"}
      /\ log' = log /\ seenAt' = seenAt /\ todo' = todo /\ pc'[k] = "documents"
      /\ reflects' = [reflects EXCEPT ![p] = v]
  BY <1>1 DEF SoloVersions, SoloLineage, Lineage, TypeOK, Unchanged, Promote,
              InDocument, NextDocument, Goto
<1>3. /\ v \in reflects[p] .. Version(p) /\ p \in Seen(k)
      /\ Version(p) \in Nat /\ reflects[p] \in 1 .. Version(p)
  BY <1>1, <1>2, LogFacts DEF Ahead, Versions
<1>4. \A q \in Paths : sources'[q].modified \in {sources[q].modified, v}
                       /\ (q # p => sources'[q] = sources[q])
  <2>1. CASE Unchanged(k)
    BY <1>1, <1>2, <2>1 DEF Unchanged, Upsert, TypeOK
  <2>2. CASE Promote(k)
    <3>1. \A q \in Paths : sources[q].id = job[k].id => q = p
      BY <1>1, <2>2 DEF SoloVersions, SoloLineage, Lineage, JobRows, JobRow, Promote,
                        InDocument
    <3> QED
      BY <1>1, <2>2, <3>1 DEF Promote, PointTo
  <2> QED
    BY <2>1, <2>2
<1>5. \A q \in Paths : reflects'[q] = IF q = p THEN v ELSE reflects[q]
  BY <1>2 DEF TypeOK
<1> HIDE DEF v
<1>6. Versions'
  <2>1. \A q \in Paths : /\ reflects'[q] \in 1 .. Version(q)
                         /\ sources'[q].modified <= Version(q)
    BY <1>2, <1>3, <1>4, <1>5 DEF Versions
  <2> QED
    BY <1>2, <2>1, VersionsKept DEF Versions
<1>7. Seen(k)' = Seen(k)
  BY <1>2 DEF Seen
<1>8. Ahead(k)'
  BY <1>2, <1>3, <1>5, <1>7 DEF Ahead, Processing, InDocument
<1> QED
  BY <1>6, <1>8

\* The upsert before a promotion or a parse failure.
LEMMA UpsertAhead ==
  ASSUME SoloVersions, NEW k \in Procs, Stage(k) \/ ParseFails(k)
  PROVE  Versions' /\ Ahead(k)'
<1>1. PICK p \in Paths : p = job[k].path
  BY DEF SoloVersions, SoloLineage, Lineage, JobRows, JobRow, Stage, ParseFails,
         InDocument
<1>2. /\ TypeOK /\ Versions /\ Ahead(k) /\ pc[k] = "read"
      /\ UNCHANGED <<log, reflects, seenAt, todo, job>>
      /\ pc'[k] \in {"staged", "rejecting"}
  BY DEF SoloVersions, SoloLineage, Lineage, TypeOK, Stage, ParseFails, Goto, locals
<1>3. /\ job[k].version <= Version(p) /\ seenAt[k][p] <= Version(p)
  BY <1>1, <1>2 DEF Ahead, Versions, InDocument
<1>4. \A q \in Paths : /\ q # p => sources'[q] = sources[q]
                       /\ sources'[p].modified \in {job[k].version, seenAt[k][p]}
  BY <1>1, <1>2 DEF Stage, ParseFails, Upsert, TypeOK
<1>5. Versions'
  BY <1>2, <1>3, <1>4, VersionsKept DEF Versions
<1>6. Seen(k)' = Seen(k)
  BY <1>2 DEF Seen
<1>7. \A q \in Paths : Version(q)' = Version(q)
  BY <1>2 DEF Version
<1> QED
  BY <1>2, <1>5, <1>6, <1>7 DEF Ahead, Processing, InDocument

\* The source of a file the walk did not see is cleared: search reflects that.
LEMMA DeletionAhead ==
  ASSUME SoloVersions, NEW k \in Procs, NEW p \in Paths, MarkDeleted(k, p)
  PROVE  Versions' /\ Ahead(k)'
<1>1. /\ TypeOK /\ Versions /\ Ahead(k)
      /\ UNCHANGED <<log, pc, seenAt>> /\ pc[k] = "sweep"
      /\ p \in todo[k] /\ todo'[k] = todo[k] \ {p}
      /\ reflects' = [reflects EXCEPT ![p] = seenAt[k][p]]
  BY DEF SoloVersions, SoloLineage, Lineage, TypeOK, MarkDeleted
<1>2. \A q \in Paths : sources'[q].modified = sources[q].modified
  <2>1. \A q \in Paths : sources[q] \in SourceRow
    BY <1>1 DEF TypeOK
  <2>2. \A row \in SourceRow :
          [row EXCEPT !.revision = None, !.state = "deleted"].modified = row.modified
    BY DEF SourceRow
  <2> QED
    BY <2>1, <2>2 DEF MarkDeleted, ClearPointer
<1>3. \A q \in Paths : reflects'[q] = IF q = p THEN seenAt[k][p] ELSE reflects[q]
  BY <1>1 DEF TypeOK
<1>4. Versions'
  BY <1>1, <1>2, <1>3, VersionsKept DEF Versions
<1>5. Seen(k)' = Seen(k)
  BY <1>1 DEF Seen
<1>6. \A q \in Paths \ Seen(k) : reflects'[q] <= seenAt[k][q]
  BY <1>1, <1>3 DEF Ahead, Versions
<1> QED
  BY <1>1, <1>4, <1>5, <1>6 DEF Ahead, Processing, InDocument

LEMMA SoloVersionsNext ==
  ASSUME OneProcess, SoloVersions, [Next]_vars
  PROVE  SoloVersions'
<1>1. SoloLineage'
  BY SoloNext DEF SoloVersions
<1>2. ASSUME NEW k \in Procs, Versions', Ahead(k)'
      PROVE  SoloVersions'
  BY <1>1, <1>2 DEF OneProcess, SoloVersions
<1>3. CASE \E p \in Paths, c \in Contents \cup {Absent} : Edit(p, c)
  BY <1>1, <1>3, EditAhead DEF SoloVersions
<1>4. CASE UNCHANGED vars
  <2>1. UNCHANGED <<log, sources, pc, unvisited, seenAt, todo, job, reflects>>
    BY <1>4 DEF vars, tables, locals
  <2> QED
    BY <1>1, <2>1 DEF SoloVersions, Versions, Ahead, Version, Seen
<1>5. ASSUME NEW k \in Procs, Index(k)
      PROVE  SoloVersions'
  BY <1>2, <1>5, QuietAhead, DocumentAhead, UpsertAhead, DeletionAhead DEF Index
<1>6. ASSUME NEW k \in Procs, Fault(k)
      PROVE  SoloVersions'
  BY <1>2, <1>6, QuietAhead DEF Fault
<1> QED
  BY <1>3, <1>4, <1>5, <1>6 DEF Next

-----------------------------------------------------------------------------
(* One indexer process: search is an EvidenceStore.                        *)

\* What a query joins is what the pointer of the source names.
ServedIsPointedTo ==
  \A p \in Paths :
    Served(p) = IF sources[p].revision = None THEN Absent ELSE sources[p].revision.content

LEMMA ServedIsCurrent == SoloLineage => ServedIsPointedTo
<1> SUFFICES ASSUME SoloLineage, NEW p \in Paths
             PROVE  Served(p) = IF sources[p].revision = None THEN Absent
                                ELSE sources[p].revision.content
  BY DEF ServedIsPointedTo
<1>1. CASE sources[p].revision = None
  <2>1. None \notin fts
    BY SourceIndexAssumption DEF SoloLineage, Lineage, TypeOK, Revision
  <2> QED
    BY <1>1, <2>1 DEF Served
<1>2. CASE sources[p].revision # None
  BY <1>2 DEF SoloLineage, Lineage, OwnRevision, FtsExact, Current, Served
<1> QED
  BY <1>1, <1>2

\* The row of a document that was the same again, or was promoted.
LEMMA DocumentRow ==
  ASSUME SoloVersions, NEW k \in Procs, Unchanged(k) \/ Promote(k),
         NEW p \in Paths, p = job[k].path
  PROVE  /\ \A q \in Paths \ {p} : sources'[q] = sources[q]
         /\ sources'[p].revision # None /\ sources'[p].revision.content = job[k].content
         /\ sources'[p].modified = job[k].version
<1>1. SoloLineage /\ Lineage /\ TypeOK
  BY DEF SoloVersions, SoloLineage, Lineage
<1>2. CASE Unchanged(k)
  <2>1. job[k].existing.revision # None
    BY <1>1, <1>2, SourceIndexAssumption DEF Unchanged, SameAsCurrent, TypeOK, Revision
  <2> QED
    BY <1>1, <1>2, <2>1 DEF Unchanged, SameAsCurrent, Upsert, TypeOK
<1>3. CASE Promote(k)
  <2>1. \A q \in Paths : sources[q].id = job[k].id => q = p
    BY <1>1, <1>3 DEF Lineage, JobRows, JobRow, Promote, InDocument
  <2>2. /\ Draft(k) \in Revision /\ Draft(k).content = job[k].content
        /\ sources[p].id = job[k].id
    BY <1>1, <1>3, DraftFacts DEF Promote, Insertable, Draft
  <2>3. Draft(k) # None
    BY <2>2, SourceIndexAssumption DEF Revision
  <2> QED
    BY <1>3, <2>1, <2>2, <2>3 DEF Promote, PointTo
<1> QED
  BY <1>2, <1>3

\* The row of a source that was marked deleted.
LEMMA DeletedRow ==
  ASSUME SoloVersions, NEW k \in Procs, NEW p \in Paths, MarkDeleted(k, p)
  PROVE  /\ \A q \in Paths \ {p} : sources'[q] = sources[q]
         /\ sources'[p].revision = None
<1>1. Lineage /\ OwnSnapshot
  BY DEF SoloVersions, SoloLineage
<1>2. listed[k][p] = sources[p]
  BY <1>1 DEF MarkDeleted, OwnSnapshot
<1>3. \A q \in Paths : sources[q].id = sources[p].id => q = p
  BY <1>1, SourceIndexAssumption DEF Lineage, RowIds, ListedRows, MarkDeleted
<1>4. \A row \in SourceRow :
        [row EXCEPT !.revision = None, !.state = "deleted"].revision = None
  BY DEF SourceRow
<1>5. sources[p] \in SourceRow
  BY <1>1 DEF Lineage, TypeOK
<1> QED
  BY <1>2, <1>3, <1>4, <1>5 DEF MarkDeleted, ClearPointer

LEMMA StoreStutters ==
  ASSUME UNCHANGED <<log, reflects>>, \A q \in Paths : Served(q)' = Served(q)
  PROVE  UNCHANGED Store!vars
BY DEF Store!vars

\* A step that moves search to version i of p, and nothing else.
LEMMA StoreReflects ==
  ASSUME SoloVersions, NEW p \in Paths, NEW i, i \in reflects[p] .. Version(p),
         log' = log, reflects' = [reflects EXCEPT ![p] = i],
         \A q \in Paths : Served(q)' = IF q = p THEN log[p][i] ELSE Served(q)
  PROVE  Store!Next
<1>1. /\ Version(p) \in 1 .. MaxVersions /\ reflects[p] \in 1 .. Version(p)
      /\ MaxVersions \in Nat
  BY SourceIndexAssumption DEF SoloVersions, Versions
<1>2. i \in 1 .. MaxVersions
  BY <1>1
<1>3. [q \in Paths |-> Served(q)]' = [[q \in Paths |-> Served(q)] EXCEPT ![p] = log[p][i]]
  OBVIOUS
<1>4. Store!Reflect(p, i)
  BY <1>3 DEF Store!Reflect, Version
<1> QED
  BY <1>2, <1>4 DEF Store!Next

\* Every step of the only process is a step of the abstract store.
LEMMA StoreNext ==
  ASSUME OneProcess, SoloVersions, SoloLineage', [Next]_vars
  PROVE  [Store!Next]_(Store!vars)
<1>1. /\ SoloLineage /\ Lineage /\ TypeOK /\ OwnSnapshot /\ Versions
      /\ \A k \in Procs : Ahead(k)
  BY DEF SoloVersions, SoloLineage, Lineage
<1>2. \A q \in Paths :
        Served(q) = IF sources[q].revision = None THEN Absent ELSE sources[q].revision.content
  BY <1>1, ServedIsCurrent DEF ServedIsPointedTo
<1>3. \A q \in Paths :
        Served(q)' = IF sources'[q].revision = None THEN Absent ELSE sources'[q].revision.content
  <2>1. SoloLineage' => ServedIsPointedTo'
    BY ServedIsCurrent, PTL
  <2> QED
    BY <2>1 DEF ServedIsPointedTo
<1>4. ASSUME UNCHANGED <<log, reflects>>,
             \A q \in Paths : sources'[q].revision = sources[q].revision
      PROVE  UNCHANGED Store!vars
  BY <1>2, <1>3, <1>4, StoreStutters
<1>5. ASSUME NEW p \in Paths, NEW c \in Contents \cup {Absent}, Edit(p, c)
      PROVE  Store!Next
  <2>1. \A q \in Paths : Served(q)' = Served(q)
    BY <1>5 DEF Edit, tables, Served
  <2>2. Store!Edit(p, c)
    BY <1>5, <2>1 DEF Edit, Store!Edit, Version
  <2> QED
    BY <2>2 DEF Store!Next
<1>6. CASE UNCHANGED vars
  BY <1>4, <1>6 DEF vars, tables
<1>7. ASSUME NEW k \in Procs,
             \/ StartScan(k) \/ (\E p \in Paths : Visit(k, p)) \/ EndWalk(k)
             \/ WalkFails(k) \/ (\E p \in Paths : Find(k, p)) \/ Read(k) \/ ReadFails(k)
             \/ PromoteRejected(k) \/ RecordFailed(k) \/ DocumentFails(k)
             \/ ListActive(k) \/ Finish(k) \/ Crash(k)
      PROVE  UNCHANGED Store!vars
  <2>1. UNCHANGED <<log, sources, reflects>>
    BY <1>7 DEF StartScan, Visit, EndWalk, WalkFails, Find, Read, ReadFails,
                PromoteRejected, RecordFailed, DocumentFails, ListActive, Finish, Crash,
                tables
  <2> QED
    BY <1>4, <2>1
<1>8. ASSUME NEW k \in Procs, Stage(k) \/ ParseFails(k)
      PROVE  UNCHANGED Store!vars
  <2>1. /\ job[k].existing = sources[job[k].path] /\ UNCHANGED <<log, reflects>>
    BY <1>1, <1>8 DEF OwnSnapshot, Stage, ParseFails
  <2>2. \A q \in Paths : sources'[q].revision = sources[q].revision
    <3>1. PICK id, state, modified :
            Upsert(job[k].path, id, job[k].existing.revision, state, modified)
      BY <1>8 DEF Stage, ParseFails
    <3> QED
      BY <1>1, <2>1, <3>1 DEF Upsert, TypeOK
  <2> QED
    BY <1>4, <2>1, <2>2
<1>9. ASSUME NEW k \in Procs, Unchanged(k) \/ Promote(k)
      PROVE  Store!Next
  <2>1. PICK p \in Paths : p = job[k].path
    BY <1>1, <1>9 DEF Lineage, JobRows, JobRow, Unchanged, Promote, InDocument
  <2> DEFINE v == job[k].version
  <2>2. /\ log' = log /\ reflects' = [reflects EXCEPT ![p] = v]
        /\ v \in reflects[p] .. Version(p) /\ log[p][v] = job[k].content
    BY <1>1, <1>9, <2>1 DEF Unchanged, Promote, Ahead, InDocument
  <2>3. /\ \A q \in Paths \ {p} : sources'[q] = sources[q]
        /\ sources'[p].revision # None /\ sources'[p].revision.content = job[k].content
    BY <1>9, <2>1, DocumentRow
  <2>4. \A q \in Paths : Served(q)' = IF q = p THEN log[p][v] ELSE Served(q)
    BY <1>2, <1>3, <2>2, <2>3
  <2> HIDE DEF v
  <2> QED
    BY <2>2, <2>4, StoreReflects
<1>10. ASSUME NEW k \in Procs, NEW p \in Paths, MarkDeleted(k, p)
       PROVE  Store!Next
  <2> DEFINE v == seenAt[k][p]
  <2>1. /\ log' = log /\ reflects' = [reflects EXCEPT ![p] = v]
        /\ p \notin Seen(k) /\ listed[k][p] = sources[p]
    BY <1>1, <1>10 DEF MarkDeleted, Ahead, OwnSnapshot
  <2>2. v \in reflects[p] .. Version(p) /\ log[p][v] = Absent
    <3>1. v \in 1 .. Version(p) /\ reflects[p] \in 1 .. Version(p)
      BY <1>1 DEF Versions
    <3>2. reflects[p] <= v
      BY <1>1, <1>10, <2>1 DEF MarkDeleted, Ahead
    <3>3. log[p][v] = Absent
      BY <2>1 DEF Seen
    <3> QED
      BY <3>1, <3>2, <3>3
  <2>4. /\ \A q \in Paths \ {p} : sources'[q] = sources[q]
        /\ sources'[p].revision = None
    BY <1>10, DeletedRow
  <2>5. \A q \in Paths : Served(q)' = IF q = p THEN log[p][v] ELSE Served(q)
    BY <1>2, <1>3, <2>2, <2>4
  <2> HIDE DEF v
  <2> QED
    BY <2>1, <2>2, <2>5, StoreReflects
<1> QED
  BY <1>5, <1>6, <1>7, <1>8, <1>9, <1>10 DEF Next, Index, Fault

\* While one process at a time indexes, search goes from one version of a file
\* to a later one in one step, and shows nothing in between: the statements of
\* process_document, its errors and its crashes implement the abstract store.
THEOREM SoloImplementsStore == OneProcess => (Spec => ImplementsEvidenceStore)
<1> SUFFICES ASSUME OneProcess PROVE Spec => ImplementsEvidenceStore
  OBVIOUS
<1>1. Init => SoloVersions
  BY SoloVersionsInit
<1>2. SoloVersions /\ [Next]_vars => SoloVersions'
  BY SoloVersionsNext
<1>3. Init => Store!Init
  BY DEF Init, Store!Init, Served, NoRow
<1>4. SoloVersions /\ SoloVersions' /\ [Next]_vars => [Store!Next]_(Store!vars)
  BY StoreNext DEF SoloVersions
<1> QED
  BY <1>1, <1>2, <1>3, <1>4, PTL DEF Spec, ImplementsEvidenceStore, Store!Spec

\* What search shows is the version it reflects, one that the file has had.
ServesReflected ==
  \A p \in Paths : reflects[p] \in 1 .. Len(log[p]) /\ Served(p) = log[p][reflects[p]]

NeverBack == \A p \in Paths : reflects[p] <= reflects'[p]

LEMMA StoreStepServes ==
  ASSUME SoloLineage, ServesReflected, [Store!Next]_(Store!vars)
  PROVE  ServesReflected' /\ NeverBack
<1> DEFINE F == [p \in Paths |-> Served(p)]
<1>1. TypeOK
  BY DEF SoloLineage, Lineage
<1>2. /\ DOMAIN log = Paths /\ DOMAIN reflects = Paths
      /\ \A p \in Paths : /\ log[p] \in Seq(Contents \cup {Absent})
                          /\ Len(log[p]) \in Nat /\ reflects[p] \in Nat
  <2>1. \A p \in Paths : log[p] \in Seq(Contents \cup {Absent})
    BY <1>1, LogFacts
  <2>2. \A p \in Paths : Len(log[p]) \in Nat
    BY <2>1
  <2> QED
    BY <1>1, <2>1, <2>2 DEF TypeOK, ServesReflected
<1>3. /\ F = [p \in Paths |-> Served(p)]
      /\ F' = [p \in Paths |-> Served(p)']
      /\ \A p \in Paths : F[p] = Served(p) /\ F'[p] = Served(p)'
  OBVIOUS
<1> HIDE DEF F
<1>4. CASE UNCHANGED Store!vars
  <2>1. log' = log /\ reflects' = reflects /\ F' = F
    BY <1>3, <1>4 DEF Store!vars
  <2>2. \A p \in Paths : Served(p)' = Served(p)
    BY <1>3, <2>1
  <2> QED
    BY <1>2, <2>1, <2>2 DEF ServesReflected, NeverBack
<1>5. ASSUME NEW q \in Paths, NEW c \in Contents \cup {Absent}, Store!Edit(q, c)
      PROVE  ServesReflected' /\ NeverBack
  <2>1. log' = [log EXCEPT ![q] = Append(@, c)] /\ reflects' = reflects /\ F' = F
    BY <1>3, <1>5 DEF Store!Edit
  <2>2. \A p \in Paths : Served(p)' = Served(p)
    BY <1>3, <2>1
  <2>3. ASSUME NEW p \in Paths
        PROVE  /\ reflects[p] \in 1 .. Len(log'[p])
               /\ log'[p][reflects[p]] = log[p][reflects[p]]
    <3>1. log'[p] = IF p = q THEN Append(log[p], c) ELSE log[p]
      BY <1>2, <2>1
    <3>2. reflects[p] \in 1 .. Len(log[p])
      BY DEF ServesReflected
    <3>3. PICK s, r : s = log[p] /\ r = reflects[p]
      OBVIOUS
    <3>4. s \in Seq(Contents \cup {Absent}) /\ r \in 1 .. Len(s)
      BY <1>2, <3>2, <3>3
    <3>5. r \in 1 .. Len(Append(s, c)) /\ Append(s, c)[r] = s[r]
      BY ONLY <3>4, c \in Contents \cup {Absent}
    <3> QED
      BY <3>1, <3>2, <3>3, <3>5
  <2> QED
    BY <1>2, <2>1, <2>2, <2>3 DEF ServesReflected, NeverBack
<1>6. ASSUME NEW q \in Paths, NEW i, Store!Reflect(q, i)
      PROVE  ServesReflected' /\ NeverBack
  <2>1. /\ i \in reflects[q] .. Len(log[q]) /\ log' = log
        /\ reflects' = [reflects EXCEPT ![q] = i]
        /\ F' = [F EXCEPT ![q] = log[q][i]]
    BY <1>3, <1>6 DEF Store!Reflect
  <2>2. DOMAIN F = Paths
    BY <1>3
  <2>3. ASSUME NEW p \in Paths
        PROVE  /\ reflects'[p] = IF p = q THEN i ELSE reflects[p]
               /\ Served(p)' = IF p = q THEN log[p][i] ELSE Served(p)
    BY <1>2, <1>3, <2>1, <2>2
  <2>4. \A p \in Paths : reflects[p] \in 1 .. Len(log[p])
    BY DEF ServesReflected
  <2>5. i \in 1 .. Len(log[q]) /\ reflects[q] <= i
    BY <1>2, <2>1, <2>4
  <2>6. NeverBack
    BY <1>2, <2>3, <2>5 DEF NeverBack
  <2>7. ServesReflected'
    BY <2>1, <2>3, <2>5 DEF ServesReflected
  <2> QED
    BY <2>6, <2>7
<1> QED
  BY <1>4, <1>5, <1>6 DEF Store!Next

\* What the abstract store promises holds of full indexing by one process at a
\* time: search shows the version of a file that it reflects, one the file has
\* had, and never goes back to an older one, whatever fails or crashes.
THEOREM SoloSearchNeverGoesBack ==
  OneProcess => (Spec => []ServesReflected /\ [][NeverBack]_vars)
<1> SUFFICES ASSUME OneProcess PROVE Spec => []ServesReflected /\ [][NeverBack]_vars
  OBVIOUS
<1>1. Init => SoloVersions /\ ServesReflected
  <2>1. ASSUME Init PROVE ServesReflected
    BY <2>1 DEF Init, ServesReflected, Served, NoRow
  <2> QED
    BY <2>1, SoloVersionsInit
<1>2. SoloVersions /\ [Next]_vars => SoloVersions'
  BY SoloVersionsNext
<1>3. SoloVersions /\ SoloVersions' /\ ServesReflected /\ [Next]_vars =>
        ServesReflected' /\ [NeverBack]_vars
  BY StoreNext, StoreStepServes DEF SoloVersions
<1> QED
  BY <1>1, <1>2, <1>3, PTL DEF Spec

-----------------------------------------------------------------------------
(* One indexer process: what search does not show is flagged.              *)

\* The one process k has put its document into the sources and not yet into
\* the revisions.
Pending(p) == \E k \in Procs : pc[k] = "staged" /\ job[k].path = p

\* The bookkeeping of p is not ahead of what search shows of it, but for the
\* contents the indexer refuses.
Told(p) ==
  sources[p].modified = Version(p) /\ File(p) # Absent =>
    \/ Served(p) \in {File(p), Absent}
    \/ File(p) \in Malformed
    \/ Superseded(p)

Outcomes ==
  /\ \A r \in failed : r.content \in Malformed
  /\ \A k \in Procs :
       /\ pc[k] = "rejecting" => job[k].content \in Malformed
       /\ pc[k] = "staged" =>
            /\ job[k].content \notin Malformed
            /\ ~ SameAsCurrent(k)
            /\ sources[job[k].path].id = job[k].id
            /\ sources[job[k].path].modified = job[k].version

AllTold == faults = 0 => \A p \in Paths : Told(p) \/ Pending(p)

\* The inductive invariant of the flags.
SoloAccounts == SoloVersions /\ Outcomes /\ AllTold

LEMMA SoloAccountsInit == Init => SoloAccounts
<1> SUFFICES ASSUME Init PROVE SoloAccounts
  OBVIOUS
<1>1. Outcomes
  BY DEF Init, Outcomes
<1>2. AllTold
  BY DEF Init, AllTold, Told, Served, NoRow
<1> QED
  BY <1>1, <1>2, SoloVersionsInit DEF SoloAccounts

\* Nothing that concerns p has changed.
LEMMA ToldKept ==
  ASSUME NEW p \in Paths, Told(p), Version(p)' = Version(p), File(p)' = File(p),
         sources'[p] = sources[p], Served(p)' = Served(p), indexed \subseteq indexed'
  PROVE  Told(p)'
BY DEF Told, Superseded

\* The same, in terms of the tables.
LEMMA RowTold ==
  ASSUME SoloAccounts, SoloVersions', log' = log, indexed \subseteq indexed',
         NEW p \in Paths, Told(p), sources'[p] = sources[p]
  PROVE  Told(p)'
<1>1. SoloLineage' => ServedIsPointedTo'
  BY ServedIsCurrent, PTL
<1>2. ServedIsPointedTo /\ ServedIsPointedTo'
  BY <1>1, ServedIsCurrent DEF SoloAccounts, SoloVersions
<1>3. Served(p)' = Served(p)
  BY <1>2 DEF ServedIsPointedTo
<1>4. Version(p)' = Version(p) /\ File(p)' = File(p)
  BY DEF Version, File
<1> QED
  BY <1>3, <1>4, ToldKept

LEMMA EditTold ==
  ASSUME SoloAccounts, SoloVersions', NEW p \in Paths,
         NEW c \in Contents \cup {Absent}, Edit(p, c)
  PROVE  SoloAccounts'
<1>1. UNCHANGED <<sources, indexed, failed, fts, pc, job, faults>>
  BY DEF Edit, tables, locals
<1>2. Outcomes'
  BY <1>1 DEF SoloAccounts, Outcomes, SameAsCurrent
<1>3. ASSUME NEW q \in Paths, Told(q)
      PROVE  Told(q)'
  <2>1. TypeOK /\ sources[q].modified <= Version(q) /\ sources[q].modified \in Nat
    BY DEF SoloAccounts, SoloVersions, SoloLineage, Lineage, Versions, TypeOK, SourceRow
  <2>2. CASE q = p
    <3>1. Version(q)' = Version(q) + 1 /\ Version(q) \in Nat
      BY <2>1, <2>2, EditVersions, LogFacts
    <3> QED
      BY <1>1, <2>1, <3>1 DEF Told
  <2>3. CASE q # p
    <3>1. log'[q] = log[q]
      BY <2>1, <2>3 DEF Edit, TypeOK
    <3>2. Version(q)' = Version(q) /\ File(q)' = File(q)
      BY <3>1 DEF Version, File
    <3>3. Served(q)' = Served(q)
      BY <1>1 DEF Served
    <3> QED
      BY <1>1, <1>3, <3>2, <3>3, ToldKept
  <2> QED
    BY <2>2, <2>3
<1>4. \A q \in Paths : Pending(q) => Pending(q)'
  BY <1>1 DEF Pending
<1>5. AllTold'
  BY <1>1, <1>3, <1>4 DEF SoloAccounts, AllTold
<1> QED
  BY <1>2, <1>5 DEF SoloAccounts

\* Steps in which no document is staged, that leave the sources alone.
LEMMA QuietTold ==
  ASSUME OneProcess, SoloAccounts, SoloVersions', NEW k \in Procs,
         \/ StartScan(k) \/ (\E p \in Paths : Visit(k, p)) \/ EndWalk(k)
         \/ WalkFails(k) \/ (\E p \in Paths : Find(k, p)) \/ Read(k) \/ ReadFails(k)
         \/ RecordFailed(k) \/ DocumentFails(k)
         \/ ListActive(k) \/ Finish(k) \/ Crash(k)
  PROVE  SoloAccounts'
<1>1. /\ UNCHANGED <<log, sources, indexed>>
      /\ failed' = failed \/ RecordFailed(k)
      /\ faults' = 0 => faults = 0 /\ pc[k] # "staged"
  <2>1. faults \in Nat
    BY DEF SoloAccounts, SoloVersions, SoloLineage, Lineage, TypeOK
  <2> QED
    BY <2>1 DEF StartScan, Visit, EndWalk, WalkFails, Find, Read, ReadFails,
         RecordFailed, DocumentFails, ListActive, Finish, Crash, tables
<1>2. pc'[k] \notin {"staged", "rejecting"}
  BY DEF SoloAccounts, SoloVersions, SoloLineage, Lineage, TypeOK, StartScan, Visit,
         EndWalk, WalkFails, Find, Read, ReadFails, RecordFailed, DocumentFails,
         ListActive, Finish, Crash, Forget, NextDocument, Goto
<1>3. \A r \in failed' : r.content \in Malformed
  <2>1. CASE failed' = failed
    BY <2>1 DEF SoloAccounts, Outcomes
  <2>2. CASE RecordFailed(k)
    BY <2>2 DEF SoloAccounts, Outcomes, RecordFailed, Draft
  <2> QED
    BY <1>1, <2>1, <2>2
<1>4. Outcomes'
  BY <1>2, <1>3 DEF OneProcess, Outcomes
<1>5. ASSUME faults' = 0, NEW p \in Paths
      PROVE  Told(p)'
  <2>1. Told(p)
    BY <1>1, <1>5 DEF OneProcess, SoloAccounts, AllTold, Pending
  <2> QED
    BY <1>1, <2>1, RowTold
<1> QED
  BY <1>4, <1>5 DEF SoloAccounts, AllTold

\* A promotion that a constraint refuses: the text was in the index before.
LEMMA RejectedTold ==
  ASSUME OneProcess, SoloAccounts, SoloVersions', NEW k \in Procs, PromoteRejected(k)
  PROVE  SoloAccounts'
<1>1. PICK p \in Paths : p = job[k].path
  BY DEF SoloAccounts, SoloVersions, SoloLineage, Lineage, JobRows, JobRow,
         PromoteRejected, InDocument
<1>2. /\ UNCHANGED <<log, sources, indexed, failed, faults>>
      /\ pc[k] = "staged" /\ pc'[k] = "documents" /\ ~ Insertable(Draft(k))
  BY DEF SoloAccounts, SoloVersions, SoloLineage, Lineage, TypeOK, PromoteRejected,
         NextDocument, Goto, tables
<1>3. Outcomes'
  BY <1>2 DEF SoloAccounts, OneProcess, Outcomes
<1>4. /\ Draft(k) \in Revision /\ Draft(k) = [source |-> job[k].id, content |-> job[k].content]
      /\ job[k].content \notin Malformed /\ ~ SameAsCurrent(k)
      /\ sources[p].id = job[k].id /\ sources[p].modified = job[k].version
      /\ job[k].existing.revision = sources[p].revision
      /\ log[p][job[k].version] = job[k].content
  BY <1>1, <1>2, DraftFacts
  DEF SoloAccounts, SoloVersions, SoloLineage, OwnSnapshot, Ahead, Outcomes, Draft,
      InDocument
<1>5. Draft(k) \in indexed
  <2>1. SourceExists(Draft(k).source)
    BY <1>4 DEF SourceExists
  <2>2. Draft(k) \notin failed
    BY <1>4 DEF SoloAccounts, Outcomes
  <2> QED
    BY <1>2, <2>1, <2>2 DEF Insertable
<1>6. Told(p)
  <2> SUFFICES ASSUME sources[p].modified = Version(p) PROVE Superseded(p)
    BY DEF Told
  <2>1. File(p) = job[k].content
    BY <1>4 DEF File
  <2>2. Draft(k) # sources[p].revision
    BY <1>4, <1>5 DEF SameAsCurrent
  <2> QED
    BY <1>4, <1>5, <2>1, <2>2 DEF Superseded
<1>7. ASSUME faults' = 0, NEW q \in Paths
      PROVE  Told(q)'
  <2>1. Told(q)
    BY <1>1, <1>2, <1>6, <1>7 DEF OneProcess, SoloAccounts, AllTold, Pending
  <2> QED
    BY <1>2, <2>1, RowTold
<1> QED
  BY <1>3, <1>7 DEF SoloAccounts, AllTold

\* A document that search comes to show as it was read.
LEMMA DocumentTold ==
  ASSUME OneProcess, SoloAccounts, SoloVersions', NEW k \in Procs,
         Unchanged(k) \/ Promote(k)
  PROVE  SoloAccounts'
<1>1. PICK p \in Paths : p = job[k].path
  BY DEF SoloAccounts, SoloVersions, SoloLineage, Lineage, JobRows, JobRow, Unchanged,
         Promote, InDocument
<1>2. /\ UNCHANGED <<log, failed, faults>> /\ indexed \subseteq indexed'
      /\ pc'[k] = "documents" /\ pc[k] \in InDocument \ {"found"}
  BY DEF SoloAccounts, SoloVersions, SoloLineage, Lineage, TypeOK, Unchanged, Promote,
         NextDocument, Goto, InDocument
<1>3. /\ \A q \in Paths \ {p} : sources'[q] = sources[q]
      /\ sources'[p].revision # None /\ sources'[p].revision.content = job[k].content
      /\ sources'[p].modified = job[k].version
  BY <1>1, DocumentRow DEF SoloAccounts
<1>4. Outcomes'
  BY <1>2 DEF SoloAccounts, OneProcess, Outcomes
<1>5. Told(p)'
  <2>1. Served(p)' = job[k].content
    <3>1. SoloLineage' => ServedIsPointedTo'
      BY ServedIsCurrent, PTL
    <3> QED
      BY <1>3, <3>1 DEF SoloVersions, ServedIsPointedTo
  <2>2. log[p][job[k].version] = job[k].content
    BY <1>1, <1>2 DEF SoloAccounts, SoloVersions, Ahead
  <2> QED
    BY <1>2, <1>3, <2>1, <2>2 DEF Told, File, Version
<1>6. ASSUME faults' = 0, NEW q \in Paths \ {p}
      PROVE  Told(q)'
  <2>1. Told(q)
    BY <1>1, <1>2, <1>6 DEF OneProcess, SoloAccounts, AllTold, Pending
  <2> QED
    BY <1>2, <1>3, <2>1, RowTold
<1> QED
  BY <1>4, <1>5, <1>6 DEF SoloAccounts, AllTold

\* The upsert that comes first.
LEMMA UpsertTold ==
  ASSUME OneProcess, SoloAccounts, SoloVersions', NEW k \in Procs,
         Stage(k) \/ ParseFails(k)
  PROVE  SoloAccounts'
<1>1. PICK p \in Paths : p = job[k].path
  BY DEF SoloAccounts, SoloVersions, SoloLineage, Lineage, JobRows, JobRow, Stage,
         ParseFails, InDocument
<1>2. /\ UNCHANGED <<log, indexed, failed, faults, job>>
      /\ pc[k] = "read" /\ TypeOK
      /\ Stage(k) => pc'[k] = "staged"
      /\ ParseFails(k) => pc'[k] = "rejecting"
  BY DEF SoloAccounts, SoloVersions, SoloLineage, Lineage, TypeOK, Stage, ParseFails,
         Goto, locals
<1>3. /\ \A q \in Paths \ {p} : sources'[q] = sources[q]
      /\ Stage(k) => sources'[p].modified = job[k].version
      /\ ParseFails(k) => sources'[p].modified = seenAt[k][p]
      /\ sources'[p].id = IF sources[p].state = "missing" THEN job[k].id ELSE sources[p].id
  BY <1>1, <1>2 DEF Stage, ParseFails, Upsert, TypeOK
<1>4. sources'[p].id = job[k].id
  <2>1. /\ job[k].existing = sources[p]
        /\ job[k].existing.state # "missing" => sources[p].id = job[k].id
    BY <1>1, <1>2
    DEF SoloAccounts, SoloVersions, SoloLineage, Lineage, OwnSnapshot, JobRows, JobRow,
        InDocument
  <2> QED
    BY <1>3, <2>1
<1>5. Outcomes'
  BY <1>1, <1>2, <1>3, <1>4
  DEF SoloAccounts, OneProcess, Outcomes, Stage, ParseFails, SameAsCurrent
<1>6. ASSUME ParseFails(k) PROVE Told(p)'
  <2>1. /\ seenAt[k][p] <= job[k].version /\ log[p][job[k].version] = job[k].content
        /\ job[k].version \in reflects[p] .. Version(p) /\ seenAt[k][p] \in 1 .. Version(p)
        /\ reflects[p] \in 1 .. Version(p)
    BY <1>1, <1>2 DEF SoloAccounts, SoloVersions, Ahead, InDocument, Versions
  <2>2. Version(p) \in Nat
    BY <1>2, LogFacts
  <2>3. seenAt[k][p] = Version(p) => File(p) = job[k].content
    BY <2>1, <2>2 DEF File
  <2>4. job[k].content \in Malformed
    BY <1>6 DEF ParseFails
  <2> QED
    BY <1>2, <1>3, <1>6, <2>3, <2>4 DEF Told, Version, File
<1>7. Stage(k) => Pending(p)'
  BY <1>1, <1>2 DEF Pending
<1>8. ASSUME faults' = 0, NEW q \in Paths \ {p}
      PROVE  Told(q)'
  <2>1. Told(q)
    BY <1>2, <1>8 DEF OneProcess, SoloAccounts, AllTold, Pending
  <2> QED
    BY <1>2, <1>3, <2>1, RowTold
<1> QED
  BY <1>5, <1>6, <1>7, <1>8 DEF SoloAccounts, AllTold

LEMMA DeletionTold ==
  ASSUME OneProcess, SoloAccounts, SoloVersions', NEW k \in Procs, NEW p \in Paths,
         MarkDeleted(k, p)
  PROVE  SoloAccounts'
<1>1. /\ UNCHANGED <<log, indexed, failed, faults, pc, job>> /\ pc[k] = "sweep"
  BY DEF MarkDeleted
<1>2. /\ \A q \in Paths \ {p} : sources'[q] = sources[q]
      /\ sources'[p].revision = None
  BY DeletedRow DEF SoloAccounts
<1>3. Outcomes'
  BY <1>1 DEF SoloAccounts, OneProcess, Outcomes
<1>4. Told(p)'
  <2>1. SoloLineage' => ServedIsPointedTo'
    BY ServedIsCurrent, PTL
  <2>2. Served(p)' = Absent
    BY <1>2, <2>1 DEF SoloVersions, ServedIsPointedTo
  <2> QED
    BY <2>2 DEF Told
<1>5. ASSUME faults' = 0, NEW q \in Paths \ {p}
      PROVE  Told(q)'
  <2>1. Told(q)
    BY <1>1, <1>5 DEF OneProcess, SoloAccounts, AllTold, Pending
  <2> QED
    BY <1>1, <1>2, <2>1, RowTold
<1> QED
  BY <1>3, <1>4, <1>5 DEF SoloAccounts, AllTold

LEMMA SoloAccountsNext ==
  ASSUME OneProcess, SoloAccounts, [Next]_vars
  PROVE  SoloAccounts'
<1>1. SoloVersions'
  BY SoloVersionsNext DEF SoloAccounts
<1>2. CASE UNCHANGED vars
  <2>1. UNCHANGED <<log, sources, indexed, failed, fts, pc, job, faults>>
    BY <1>2 DEF vars, tables, locals
  <2>2. Outcomes'
    BY <2>1 DEF SoloAccounts, Outcomes, SameAsCurrent
  <2>3. \A p \in Paths : (Told(p) => Told(p)') /\ (Pending(p) => Pending(p)')
    BY <1>1, <2>1, RowTold DEF Pending
  <2> QED
    BY <1>1, <2>1, <2>2, <2>3 DEF SoloAccounts, AllTold
<1>3. CASE \E p \in Paths, c \in Contents \cup {Absent} : Edit(p, c)
  BY <1>1, <1>3, EditTold
<1>4. ASSUME NEW k \in Procs, Index(k)
      PROVE  SoloAccounts'
  BY <1>1, <1>4, QuietTold, RejectedTold, DocumentTold, UpsertTold, DeletionTold
  DEF Index
<1>5. ASSUME NEW k \in Procs, Fault(k)
      PROVE  SoloAccounts'
  BY <1>1, <1>5, QuietTold DEF Fault
<1> QED
  BY <1>2, <1>3, <1>4, <1>5 DEF Next

\* While one process at a time indexes and nothing has failed, a result whose
\* source has changed since is flagged, or its file holds a text the indexer
\* refuses.
THEOREM SoloChangesAreFlagged == OneProcess => (Spec => []ChangesAreFlagged)
<1> SUFFICES ASSUME OneProcess PROVE Spec => []ChangesAreFlagged
  OBVIOUS
<1>1. Init => SoloAccounts
  BY SoloAccountsInit
<1>2. SoloAccounts /\ [Next]_vars => SoloAccounts'
  BY SoloAccountsNext
<1>3. SoloAccounts => ChangesAreFlagged
  <2> SUFFICES ASSUME SoloAccounts, faults = 0, \A k \in Procs : pc[k] = "idle",
                      NEW p \in Paths, Freshness(p) = "current"
               PROVE  \/ Served(p) \in {File(p), Absent}
                      \/ File(p) \in Malformed
                      \/ Superseded(p)
    BY DEF ChangesAreFlagged
  <2>1. Told(p)
    BY DEF SoloAccounts, AllTold, Pending
  <2>2. sources[p].modified <= Version(p) /\ sources[p].modified \in Nat
    BY DEF SoloAccounts, SoloVersions, SoloLineage, Lineage, Versions, TypeOK, SourceRow
  <2>3. Version(p) \in Nat
    BY LogFacts DEF SoloAccounts, SoloVersions, SoloLineage, Lineage
  <2>4. File(p) # Absent /\ ~ (Version(p) > sources[p].modified)
    BY DEF Freshness
  <2> QED
    BY <2>1, <2>2, <2>3, <2>4 DEF Told
<1> QED
  BY <1>1, <1>2, <1>3, PTL DEF Spec

\* While one process at a time indexes, what it remembers of its document and
\* of the sources it is about to delete is what the tables hold.
THEOREM SoloRemembersRight == OneProcess => (Spec => []OwnSnapshot)
<1> SUFFICES ASSUME OneProcess PROVE Spec => []OwnSnapshot
  OBVIOUS
<1>1. Init => SoloLineage
  BY SoloLineageInit
<1>2. SoloLineage /\ [Next]_vars => SoloLineage'
  BY SoloNext
<1>3. SoloLineage => OwnSnapshot
  BY DEF SoloLineage
<1> QED
  BY <1>1, <1>2, <1>3, PTL DEF Spec
=============================================================================
