----------------------- MODULE SnapshotRegistryProofs -----------------------
(***************************************************************************)
(* Proofs about SnapshotRegistry, for any sets of processes, snapshots and *)
(* roots, and any number of crashes and failures; what holds of commands   *)
(* that come one at a time is stated with the history variable of          *)
(* MCSnapshotRegistry.                                                     *)
(***************************************************************************)
EXTENDS MCSnapshotRegistry, TLAPS

USE DEF Name, FileState, ImportStep, RemoveStep, Step

-----------------------------------------------------------------------------
(* Type correctness.                                                       *)

\* The locals of a process that runs no command.
LEMMA NoJobType == NoJob \in Job
BY DEF NoJob, Job

\* A command that returns leaves well-typed locals.
LEMMA ReturnType ==
  ASSUME TypeOK, NEW k \in Procs, Return(k)
  PROVE  pc' \in [Procs -> Step] /\ job' \in [Procs -> Job]
BY NoJobType DEF TypeOK, Return, Goto

\* A process that goes to another step is still at a step.
LEMMA GotoType ==
  ASSUME TypeOK, NEW k \in Procs, NEW step \in Step, Goto(k, step)
  PROVE  pc' \in [Procs -> Step]
BY DEF TypeOK, Goto

\* A file operation leaves well-typed files.
LEMMA SetFileType ==
  ASSUME TypeOK, NEW s \in Snapshots, NEW n \in Name, NEW st \in FileState,
         SetFile(s, n, st)
  PROVE  /\ files' \in [Snapshots -> [Name -> FileState]]
         /\ files'[s][n] = st
         /\ \A t \in Snapshots, m \in Name :
              t # s \/ m # n => files'[t][m] = files[t][m]
BY DEF TypeOK, SetFile

\* A fault is counted.
LEMMA FaultType ==
  ASSUME TypeOK, Fault
  PROVE  faults' \in Nat
BY DEF TypeOK, Fault

\* The registry starts well-typed.
LEMMA TypeInit == Init => TypeOK
BY NoJobType, SnapshotRegistryAssumption DEF Init, TypeOK

\* The maps of an import are maps.
LEMMA RequestedType ==
  ASSUME TypeOK, NEW k \in Procs, job[k].snapshot \in Snapshots,
         job[k].map \in Mappings
  PROVE  Requested(k) \subseteq Map
BY DEF Requested, Map, Mappings

-----------------------------------------------------------------------------
(* Each step keeps the types; what an import holds has its type.           *)

\* An import or a removal under way knows its snapshot, and an import its map.
LEMMA JobTypes ==
  ASSUME Registration, NEW k \in Procs
  PROVE  /\ pc[k] \in ImportStep \cup RemoveStep => job[k].snapshot \in Snapshots
         /\ pc[k] \in {"mapping"} \cup ImportStep => job[k].map \in Mappings
         /\ pc[k] \in RemoveStep => job[k].payload \in Name
BY DEF Registration, TypeOK, JobsHold, ImportOwns, RemovalOwns, Job

\* Roots change nothing but their own entry and row, and the maps of the row.
LEMMA RootType ==
  ASSUME Registration, NEW r \in Roots, Root(r)
  PROVE  TypeOK'
<1> USE DEF Registration, TypeOK, histories, database
<1>1. CASE Reindex(r)
  BY <1>1 DEF Reindex
<1>2. CASE Unapprove(r)
  BY <1>2 DEF Unapprove
<1>3. CASE DeleteRoot(r)
  BY <1>3 DEF DeleteRoot
<1> QED
  BY <1>1, <1>2, <1>3 DEF Root

\* Import steps.
LEMMA ImportType ==
  ASSUME Registration, NEW k \in Procs, Import(k)
  PROVE  TypeOK'
<1> USE NoJobType, JobTypes DEF TypeOK, Return, Goto, SetFile, Fault, histories, database
<1>0. TypeOK
  BY DEF Registration
<1>1. CASE StartImport(k)
  BY <1>0, <1>1 DEF StartImport, Job
<1>2. CASE \E x \in SnapshotRoots : CheckRoot(k, x)
  <2>1. PICK x \in SnapshotRoots : CheckRoot(k, x)
    BY <1>2
  <2>2. job' \in [Procs -> Job]
    BY <1>0, <2>1 DEF CheckRoot, Job
  <2> QED
    BY <1>0, <2>1, <2>2 DEF CheckRoot
<1>3. CASE \E x \in SnapshotRoots : RefuseRoot(k, x)
  BY <1>0, <1>3 DEF RefuseRoot
<1>4. CASE BeginCopy(k)
  <2>1. PICK s \in Snapshots \ issued :
          /\ issued' = issued \cup {s}
          /\ SetFile(s, "tmp", "partial")
          /\ job' = [job EXCEPT ![k].snapshot = s]
    BY <1>4 DEF BeginCopy
  <2>2. files' \in [Snapshots -> [Name -> FileState]]
    BY <1>0, <2>1
  <2>3. job' \in [Procs -> Job]
    BY <1>0, <2>1 DEF Job
  <2> QED
    BY <1>0, <2>1, <2>2, <2>3, <1>4 DEF BeginCopy
<1>5. CASE EndCopy(k)
  BY <1>0, <1>5 DEF EndCopy
<1>6. CASE CopyFails(k)
  BY <1>0, <1>6 DEF CopyFails
<1>7. CASE Register(k)
  BY <1>0, RequestedType, <1>7 DEF Register
<1>8. CASE RegisterFails(k)
  BY <1>0, <1>8 DEF RegisterFails
<1>9. CASE Rename(k)
  BY <1>0, <1>9 DEF Rename
<1>10. CASE RenameFails(k)
  BY <1>0, <1>10 DEF RenameFails
<1>11. CASE UpdatePath(k)
  BY <1>0, <1>11 DEF UpdatePath
<1>12. CASE UpdatePathFails(k)
  BY <1>0, <1>12 DEF UpdatePathFails
<1>13. CASE UndoMaps(k)
  BY <1>0, <1>13 DEF UndoMaps
<1>14. CASE UndoRow(k)
  BY <1>0, <1>14 DEF UndoRow
<1>15. CASE UndoFile(k)
  BY <1>0, <1>15 DEF UndoFile
<1>16. CASE UndoFails(k)
  BY <1>0, <1>16 DEF UndoFails
<1> QED
  BY <1>1, <1>2, <1>3, <1>4, <1>5, <1>6, <1>7, <1>8, <1>9, <1>10, <1>11, <1>12, <1>13, <1>14, <1>15, <1>16 DEF Import

\* Removal steps, and a process that dies.
LEMMA RemoveType ==
  ASSUME Registration, NEW k \in Procs, Remove(k) \/ Crash(k)
  PROVE  TypeOK'
<1> USE NoJobType, JobTypes DEF TypeOK, Return, Goto, SetFile, Fault, histories, database
<1>0. TypeOK
  BY DEF Registration
<1>1. CASE \E s \in Snapshots : FindSnapshot(k, s)
  BY <1>0, <1>1 DEF FindSnapshot, Registered, Job
<1>2. CASE Deregister(k)
  BY <1>0, <1>2 DEF Deregister
<1>3. CASE DeregisterFails(k)
  BY <1>0, <1>3 DEF DeregisterFails
<1>4. CASE DeletePayload(k)
  BY <1>0, <1>4 DEF DeletePayload
<1>5. CASE DeletePayloadFails(k)
  BY <1>0, <1>5 DEF DeletePayloadFails
<1>6. CASE Crash(k)
  BY <1>0, <1>6 DEF Crash
<1> QED
  BY <1>1, <1>2, <1>3, <1>4, <1>5, <1>6 DEF Remove
-----------------------------------------------------------------------------
(* Steps that write neither a table nor a file.                            *)

\* A step of k that keeps tables and files keeps the invariant when k enters
\* no import and what k holds afterwards is so.
LEMMA LocalsKeep ==
  ASSUME Registration, TypeOK', NEW k \in Procs,
         UNCHANGED <<database, files, issued, granted, lost>>,
         \A l \in Procs \ {k} : pc'[l] = pc[l] /\ job'[l] = job[l],
         pc'[k] \in ImportStep =>
           /\ pc[k] \in ImportStep
           /\ pc'[k] \notin {"copying", "copied"}
           /\ job'[k].snapshot = job[k].snapshot,
         pc'[k] = "mapping" => job'[k].map \in Mappings,
         pc'[k] \in ImportStep => ImportOwns(k)',
         pc'[k] \in RemoveStep => RemovalOwns(k)'
  PROVE  Registration'
<1> USE DEF Registration, database
<1>1. FinalIsSound' /\ CopiesAreWhole'
  BY DEF FinalIsSound, Complete, CopiesAreWhole, Registered, MapsOf
<1>2. MapsAreOwned'
  BY DEF MapsAreOwned, Registered
<1>3. IdsAreFresh'
  BY DEF IdsAreFresh
<1>4. ASSUME NEW l \in Procs \ {k}, pc'[l] \in RemoveStep
      PROVE  RemovalOwns(l)'
  BY <1>4 DEF JobsHold, RemovalOwns
<1>5. ASSUME NEW l \in Procs \ {k}
      PROVE  /\ pc'[l] = "mapping" => job'[l].map \in Mappings
             /\ pc'[l] \in ImportStep => ImportOwns(l)'
  BY <1>5 DEF JobsHold, ImportOwns, Complete, Registered
<1>6. JobsHold'
  BY <1>4, <1>5 DEF JobsHold
<1> QED
  BY <1>1, <1>2, <1>3, <1>6

\* A command that returns, whatever became of it, holds nothing.
LEMMA ReturnKeeps ==
  ASSUME Registration, TypeOK', NEW k \in Procs, Return(k),
         UNCHANGED <<database, files, issued, granted, lost>>
  PROVE  Registration'
<1>1. /\ pc'[k] = "idle"
      /\ \A l \in Procs \ {k} : pc'[l] = pc[l] /\ job'[l] = job[l]
  BY DEF Return, Goto, Registration, TypeOK
<1> QED
  BY <1>1, LocalsKeep

\* An import that begins holds its map, and one that fails to rename goes on
\* to the compensation.
LEMMA ImportLocals ==
  ASSUME Registration, TypeOK', NEW k \in Procs,
         \/ StartImport(k)
         \/ \E x \in SnapshotRoots : CheckRoot(k, x)
         \/ RenameFails(k)
         \/ UndoFails(k)
  PROVE  Registration'
<1> USE DEF Goto, Fault, database, histories
<1>0. TypeOK /\ JobsHold
  BY DEF Registration
<1>1. CASE StartImport(k)
  <2>1. /\ pc'[k] = "mapping"
        /\ job'[k].map \in Mappings
        /\ \A l \in Procs \ {k} : pc'[l] = pc[l] /\ job'[l] = job[l]
    BY <1>0, <1>1 DEF StartImport, TypeOK
  <2> QED
    BY <1>1, <2>1, LocalsKeep DEF StartImport
<1>2. CASE \E x \in SnapshotRoots : CheckRoot(k, x)
  <2>1. /\ pc'[k] = "mapping"
        /\ job'[k].map = job[k].map
        /\ pc[k] = "mapping"
        /\ \A l \in Procs \ {k} : pc'[l] = pc[l] /\ job'[l] = job[l]
    BY <1>0, <1>2 DEF CheckRoot, TypeOK, Job
  <2> QED
    BY <1>0, <1>2, <2>1, LocalsKeep DEF CheckRoot, JobsHold
<1>3. CASE RenameFails(k) \/ UndoFails(k)
  <2>1. /\ pc[k] \in {"committed", "undo_maps", "undo_row"}
        /\ pc'[k] \in {"undo_maps", "undo_row", "undo_file"}
        /\ job'[k] = job[k]
        /\ \A l \in Procs \ {k} : pc'[l] = pc[l] /\ job'[l] = job[l]
        /\ UNCHANGED <<database, files, issued, granted, lost>>
    BY <1>0, <1>3 DEF RenameFails, UndoFails, TypeOK
  <2>2. ImportOwns(k)'
    BY <1>0, <2>1 DEF JobsHold, ImportOwns
  <2> QED
    BY <2>1, <2>2, LocalsKeep
<1> QED
  BY <1>1, <1>2, <1>3

\* A removal that begins holds the path the row names; an import of the same
\* snapshot can then only be between its commit and its return.
LEMMA FindSnapshotKeeps ==
  ASSUME Registration, TypeOK', NEW k \in Procs,
         NEW s \in Snapshots, FindSnapshot(k, s)
  PROVE  Registration'
<1>0. TypeOK /\ JobsHold /\ IdsAreFresh
  BY DEF Registration
<1>1. /\ pc'[k] = "removing"
      /\ job'[k].snapshot = s
      /\ job'[k].payload = registry[s]
      /\ \A l \in Procs \ {k} : pc'[l] = pc[l] /\ job'[l] = job[l]
      /\ UNCHANGED <<database, files, issued, granted, lost>>
  BY <1>0 DEF FindSnapshot, Goto, TypeOK, histories
<1>2. RemovalOwns(k)'
  <2>1. s \in issued /\ registry[s] \in Name
    BY <1>0 DEF FindSnapshot, Registered, IdsAreFresh, TypeOK
  <2>2. ASSUME NEW l \in Procs, pc'[l] \in ImportStep, job'[l].snapshot = s
        PROVE  pc'[l] \notin {"copying", "copied"} /\ registry[s] = "tmp"
    BY <1>0, <1>1, <2>1, <2>2 DEF JobsHold, ImportOwns
  <2> QED
    BY <1>1, <2>1, <2>2 DEF RemovalOwns
<1> QED
  BY <1>1, <1>2, LocalsKeep
-----------------------------------------------------------------------------
(* Roots.                                                                  *)

\* The row of a root goes with its maps, and may return without them.
LEMMA RootKeeps ==
  ASSUME Registration, NEW r \in Roots, Root(r)
  PROVE  Registration'
<1> USE DEF Registration, database, histories
<1>0. TypeOK'
  BY RootType
<1>1. /\ UNCHANGED <<registry, files, issued, pc, job, granted>>
      /\ maps' \subseteq maps
      /\ \A q \in Roots : rows'[q] = "none" /\ rows[q] # "none" =>
           \A m \in maps' : m.to # q
      /\ maps \cup lost \subseteq maps' \cup lost'
  <2> USE DEF TypeOK
  <2>1. CASE Reindex(r)
    BY <2>1 DEF Reindex
  <2>2. CASE Unapprove(r)
    BY <2>2 DEF Unapprove
  <2>3. CASE DeleteRoot(r)
    BY <2>3 DEF DeleteRoot, Map
  <2> QED
    BY <2>1, <2>2, <2>3 DEF Root
<1>2. \A s \in Snapshots : Complete(s) => Complete(s)'
  BY <1>1 DEF Complete, TypeOK, Map
<1>3. FinalIsSound'
  BY <1>1, <1>2 DEF FinalIsSound
<1>4. MapsAreOwned'
  BY <1>1 DEF MapsAreOwned, Registered, TypeOK, Map
<1>5. IdsAreFresh' /\ CopiesAreWhole'
  BY <1>1 DEF IdsAreFresh, CopiesAreWhole, Registered
<1>6. JobsHold'
  BY <1>1, <1>2 DEF JobsHold, ImportOwns, RemovalOwns, Registered, TypeOK
<1> QED
  BY <1>0, <1>1, <1>3, <1>4, <1>5, <1>6
-----------------------------------------------------------------------------
(* Steps of an import that write a table or a file.                        *)

\* The copy begins under an id nobody holds.
LEMMA BeginCopyKeeps ==
  ASSUME Registration, TypeOK', NEW k \in Procs, BeginCopy(k)
  PROVE  Registration'
<1> USE DEF Registration, BeginCopy, Goto, SetFile, Registered, histories, database
<1>1. FinalIsSound' /\ CopiesAreWhole'
  BY DEF FinalIsSound, CopiesAreWhole, Complete, IdsAreFresh
<1>2. MapsAreOwned' /\ IdsAreFresh'
  BY DEF MapsAreOwned, IdsAreFresh, TypeOK, JobsHold, ImportOwns, RemovalOwns
<1>3. ASSUME NEW l \in Procs, pc'[l] \in ImportStep
      PROVE  ImportOwns(l)'
  BY <1>3 DEF JobsHold, TypeOK, ImportOwns, IdsAreFresh, Complete
<1>4. ASSUME NEW l \in Procs, pc'[l] \in RemoveStep
      PROVE  RemovalOwns(l)'
  BY <1>4 DEF JobsHold, TypeOK, RemovalOwns
<1>5. JobsHold'
  BY <1>3, <1>4 DEF JobsHold, TypeOK
<1> QED
  BY <1>1, <1>2, <1>5

\* The copy ends: only its own temporary file changes.
LEMMA EndCopyKeeps ==
  ASSUME Registration, TypeOK', NEW k \in Procs, EndCopy(k)
  PROVE  Registration'
<1> USE DEF Registration, EndCopy, Goto, SetFile, Registered, histories, database
<1>1. FinalIsSound' /\ CopiesAreWhole'
  BY DEF FinalIsSound, CopiesAreWhole, Complete
<1>2. MapsAreOwned' /\ IdsAreFresh'
  BY DEF MapsAreOwned, IdsAreFresh
<1>3. ASSUME NEW l \in Procs, pc'[l] \in ImportStep
      PROVE  ImportOwns(l)'
  BY <1>3 DEF JobsHold, TypeOK, ImportOwns, Complete
<1>4. ASSUME NEW l \in Procs, pc'[l] \in RemoveStep
      PROVE  RemovalOwns(l)'
  BY <1>4 DEF JobsHold, RemovalOwns
<1>5. JobsHold'
  BY <1>3, <1>4 DEF JobsHold
<1> QED
  BY <1>1, <1>2, <1>5

\* A copy that fails was never registered.
LEMMA CopyFailsKeeps ==
  ASSUME Registration, TypeOK', NEW k \in Procs, CopyFails(k)
  PROVE  Registration'
<1> USE DEF Registration, CopyFails, Return, Goto, SetFile, Registered, histories, database
<1>1. FinalIsSound' /\ CopiesAreWhole'
  BY DEF FinalIsSound, CopiesAreWhole, Complete
<1>2. MapsAreOwned' /\ IdsAreFresh'
  BY DEF MapsAreOwned, IdsAreFresh, TypeOK
<1>3. ASSUME NEW l \in Procs, pc'[l] \in ImportStep
      PROVE  ImportOwns(l)'
  BY <1>3 DEF JobsHold, TypeOK, ImportOwns, IdsAreFresh, Complete
<1>4. ASSUME NEW l \in Procs, pc'[l] \in RemoveStep
      PROVE  RemovalOwns(l)'
  BY <1>4 DEF JobsHold, TypeOK, RemovalOwns
<1>5. JobsHold'
  BY <1>3, <1>4 DEF JobsHold, TypeOK
<1> QED
  BY <1>1, <1>2, <1>5

\* The rows are written once the copy is whole, all of them together.
LEMMA RegisterKeeps ==
  ASSUME Registration, TypeOK', NEW k \in Procs, Register(k)
  PROVE  Registration'
<1> USE DEF Registration, Register, Goto, Registered
<1>1. FinalIsSound' /\ CopiesAreWhole'
  BY DEF FinalIsSound, CopiesAreWhole, Complete, JobsHold, ImportOwns
<1>2. MapsAreOwned' /\ IdsAreFresh'
  BY DEF MapsAreOwned, IdsAreFresh, TypeOK, Requested, JobsHold, ImportOwns, RootsExist
<1>3. ASSUME NEW l \in Procs, pc'[l] \in ImportStep
      PROVE  ImportOwns(l)'
  <2>1. Complete(job[k].snapshot)'
    <3>1. ASSUME NEW x \in SnapshotRoots
          PROVE  [snapshot |-> job[k].snapshot, from |-> x, to |-> job[k].map[x]]
                   \in granted' \cap maps'
      BY DEF Requested
    <3> QED
      BY <3>1 DEF Complete
  <2>2. ASSUME NEW s \in Snapshots, Complete(s)
        PROVE  Complete(s)'
    BY <2>2 DEF Complete
  <2> QED
    BY <1>3, <2>1, <2>2 DEF JobsHold, TypeOK, ImportOwns, IdsAreFresh
<1>4. ASSUME NEW l \in Procs, pc'[l] \in RemoveStep
      PROVE  RemovalOwns(l)'
  BY <1>4 DEF JobsHold, RemovalOwns
<1>5. JobsHold'
  BY <1>3, <1>4 DEF JobsHold
<1> QED
  BY <1>1, <1>2, <1>5

\* A refused registration leaves no row, and takes its file along.
LEMMA RegisterFailsKeeps ==
  ASSUME Registration, TypeOK', NEW k \in Procs, RegisterFails(k)
  PROVE  Registration'
<1> USE DEF Registration, RegisterFails, Return, Goto, SetFile, Registered, histories, database
<1>1. FinalIsSound' /\ CopiesAreWhole'
  BY DEF FinalIsSound, CopiesAreWhole, Complete
<1>2. MapsAreOwned' /\ IdsAreFresh'
  BY DEF MapsAreOwned, IdsAreFresh, TypeOK
<1>3. ASSUME NEW l \in Procs, pc'[l] \in ImportStep
      PROVE  ImportOwns(l)'
  BY <1>3 DEF JobsHold, TypeOK, ImportOwns, IdsAreFresh, Complete
<1>4. ASSUME NEW l \in Procs, pc'[l] \in RemoveStep
      PROVE  RemovalOwns(l)'
  BY <1>4 DEF JobsHold, TypeOK, RemovalOwns
<1>5. JobsHold'
  BY <1>3, <1>4 DEF JobsHold, TypeOK
<1> QED
  BY <1>1, <1>2, <1>5

\* The payload gets its final name whole.
LEMMA RenameKeeps ==
  ASSUME Registration, TypeOK', NEW k \in Procs, Rename(k)
  PROVE  Registration'
<1> USE DEF Registration, Rename, Goto, Registered, histories, database
<1>1. FinalIsSound' /\ CopiesAreWhole'
  BY DEF FinalIsSound, CopiesAreWhole, Complete, JobsHold, ImportOwns
<1>2. MapsAreOwned' /\ IdsAreFresh'
  BY DEF MapsAreOwned, IdsAreFresh, Requested, JobsHold
<1>3. ASSUME NEW l \in Procs, pc'[l] \in ImportStep
      PROVE  ImportOwns(l)'
  BY <1>3 DEF JobsHold, TypeOK, ImportOwns, IdsAreFresh, Complete
<1>4. ASSUME NEW l \in Procs, pc'[l] \in RemoveStep
      PROVE  RemovalOwns(l)'
  BY <1>4 DEF JobsHold, RemovalOwns
<1>5. JobsHold'
  BY <1>3, <1>4 DEF JobsHold
<1> QED
  BY <1>1, <1>2, <1>5

\* The row takes the final name only after the file did, with its maps.
LEMMA UpdatePathKeeps ==
  ASSUME Registration, TypeOK', NEW k \in Procs, UpdatePath(k)
  PROVE  Registration'
<1> USE DEF Registration, UpdatePath, Return, Goto, Registered, histories
<1>1. FinalIsSound' /\ CopiesAreWhole'
  BY DEF FinalIsSound, CopiesAreWhole, Complete, JobsHold, ImportOwns
<1>2. MapsAreOwned' /\ IdsAreFresh'
  BY DEF MapsAreOwned, IdsAreFresh, TypeOK, Requested, JobsHold
<1>3. ASSUME NEW l \in Procs, pc'[l] \in ImportStep
      PROVE  ImportOwns(l)'
  BY <1>3 DEF JobsHold, TypeOK, ImportOwns, IdsAreFresh, Complete
<1>4. ASSUME NEW l \in Procs, pc'[l] \in RemoveStep
      PROVE  RemovalOwns(l)'
  BY <1>4 DEF JobsHold, TypeOK, RemovalOwns
<1>5. JobsHold'
  BY <1>3, <1>4 DEF JobsHold, TypeOK
<1> QED
  BY <1>1, <1>2, <1>5

\* The compensation only touches rows that never got their final name.
LEMMA UndoMapsKeeps ==
  ASSUME Registration, TypeOK', NEW k \in Procs, UndoMaps(k)
  PROVE  Registration'
<1> USE DEF Registration, UndoMaps, Goto, Registered, MapsOf, histories
<1>1. FinalIsSound' /\ CopiesAreWhole'
  BY DEF FinalIsSound, CopiesAreWhole, Complete, JobsHold, ImportOwns
<1>2. MapsAreOwned' /\ IdsAreFresh'
  BY DEF MapsAreOwned, IdsAreFresh, Requested, JobsHold
<1>3. ASSUME NEW l \in Procs, pc'[l] \in ImportStep
      PROVE  ImportOwns(l)'
  BY <1>3 DEF JobsHold, ImportOwns, IdsAreFresh, Complete
<1>4. ASSUME NEW l \in Procs, pc'[l] \in RemoveStep
      PROVE  RemovalOwns(l)'
  BY <1>4 DEF JobsHold, RemovalOwns
<1>5. JobsHold'
  BY <1>3, <1>4 DEF JobsHold
<1> QED
  BY <1>1, <1>2, <1>5

\* A row that goes is not a final one.
LEMMA UndoRowKeeps ==
  ASSUME Registration, TypeOK', NEW k \in Procs, UndoRow(k)
  PROVE  Registration'
<1> USE DEF Registration, UndoRow, Goto, Registered, MapsOf, histories
<1>1. FinalIsSound' /\ CopiesAreWhole'
  BY DEF FinalIsSound, CopiesAreWhole, Complete, JobsHold, ImportOwns
<1>2. MapsAreOwned' /\ IdsAreFresh'
  BY DEF MapsAreOwned, IdsAreFresh, Requested, JobsHold
<1>3. ASSUME NEW l \in Procs, pc'[l] \in ImportStep
      PROVE  ImportOwns(l)'
  BY <1>3 DEF JobsHold, ImportOwns, IdsAreFresh, Complete
<1>4. ASSUME NEW l \in Procs, pc'[l] \in RemoveStep
      PROVE  RemovalOwns(l)'
  BY <1>4 DEF JobsHold, RemovalOwns
<1>5. JobsHold'
  BY <1>3, <1>4 DEF JobsHold
<1> QED
  BY <1>1, <1>2, <1>5

\* The temporary file is not what a final row names.
LEMMA UndoFileKeeps ==
  ASSUME Registration, TypeOK', NEW k \in Procs, UndoFile(k)
  PROVE  Registration'
<1> USE DEF Registration, UndoFile, Return, Goto, SetFile, Registered, histories, database
<1>1. FinalIsSound' /\ CopiesAreWhole'
  BY DEF FinalIsSound, CopiesAreWhole, Complete
<1>2. MapsAreOwned' /\ IdsAreFresh'
  BY DEF MapsAreOwned, IdsAreFresh, TypeOK
<1>3. ASSUME NEW l \in Procs, pc'[l] \in ImportStep
      PROVE  ImportOwns(l)'
  BY <1>3 DEF JobsHold, TypeOK, ImportOwns, IdsAreFresh, Complete
<1>4. ASSUME NEW l \in Procs, pc'[l] \in RemoveStep
      PROVE  RemovalOwns(l)'
  BY <1>4 DEF JobsHold, TypeOK, RemovalOwns
<1>5. JobsHold'
  BY <1>3, <1>4 DEF JobsHold, TypeOK
<1> QED
  BY <1>1, <1>2, <1>5
-----------------------------------------------------------------------------
(* Steps of a removal that write a table or a file.                        *)

\* A removed snapshot loses its row and its maps together.
LEMMA DeregisterKeeps ==
  ASSUME Registration, TypeOK', NEW k \in Procs, Deregister(k)
  PROVE  Registration'
<1> USE DEF Registration, Deregister, Goto, Registered, MapsOf, histories
<1>1. FinalIsSound' /\ CopiesAreWhole'
  BY DEF FinalIsSound, CopiesAreWhole, Complete, TypeOK
<1>2. MapsAreOwned' /\ IdsAreFresh'
  BY DEF MapsAreOwned, IdsAreFresh, TypeOK
<1>3. ASSUME NEW l \in Procs, pc'[l] \in ImportStep
      PROVE  ImportOwns(l)'
  BY <1>3 DEF JobsHold, TypeOK, ImportOwns, Complete
<1>4. ASSUME NEW l \in Procs, pc'[l] \in RemoveStep
      PROVE  RemovalOwns(l)'
  BY <1>4 DEF JobsHold, TypeOK, RemovalOwns
<1>5. JobsHold'
  BY <1>3, <1>4 DEF JobsHold, TypeOK
<1> QED
  BY <1>1, <1>2, <1>5

\* A payload goes only after the row that named it.
LEMMA DeletePayloadKeeps ==
  ASSUME Registration, TypeOK', NEW k \in Procs, DeletePayload(k)
  PROVE  Registration'
<1> USE DEF Registration, DeletePayload, Return, Goto, SetFile, Registered, database
<1>1. FinalIsSound' /\ CopiesAreWhole'
  BY DEF FinalIsSound, CopiesAreWhole, Complete, JobsHold, RemovalOwns
<1>2. MapsAreOwned' /\ IdsAreFresh'
  BY DEF MapsAreOwned, IdsAreFresh, Requested, ImportOwns
<1>3. ASSUME NEW l \in Procs, pc'[l] \in ImportStep
      PROVE  ImportOwns(l)'
  BY <1>3 DEF JobsHold, ImportOwns, RemovalOwns, Complete
<1>4. ASSUME NEW l \in Procs, pc'[l] \in RemoveStep
      PROVE  RemovalOwns(l)'
  BY <1>4 DEF JobsHold, TypeOK, RemovalOwns
<1>5. JobsHold'
  BY <1>3, <1>4 DEF JobsHold, TypeOK
<1> QED
  BY <1>1, <1>2, <1>5
-----------------------------------------------------------------------------
(* Theorems.                                                               *)

\* The invariant holds before anything was imported.
LEMMA RegistrationInit == Init => Registration
<1> SUFFICES ASSUME Init PROVE Registration
  OBVIOUS
<1>1. TypeOK
  BY TypeInit
<1>2. FinalIsSound /\ MapsAreOwned /\ IdsAreFresh
  BY DEF Init, FinalIsSound, MapsAreOwned, IdsAreFresh
<1>3. CopiesAreWhole /\ JobsHold
  BY DEF Init, CopiesAreWhole, Registered, JobsHold
<1> QED
  BY <1>1, <1>2, <1>3 DEF Registration

\* Every step of an import keeps the invariant.
LEMMA ImportKeeps ==
  ASSUME Registration, NEW k \in Procs, Import(k)
  PROVE  Registration'
<1>0. TypeOK'
  BY ImportType
<1>1. CASE \/ StartImport(k)
           \/ \E x \in SnapshotRoots : CheckRoot(k, x)
           \/ RenameFails(k)
           \/ UndoFails(k)
  BY <1>0, <1>1, ImportLocals
<1>2. CASE (\E x \in SnapshotRoots : RefuseRoot(k, x)) \/ UpdatePathFails(k)
  BY <1>0, <1>2, ReturnKeeps DEF RefuseRoot, UpdatePathFails, histories
<1>3. CASE BeginCopy(k) \/ EndCopy(k) \/ CopyFails(k)
  BY <1>0, <1>3, BeginCopyKeeps, EndCopyKeeps, CopyFailsKeeps
<1>4. CASE Register(k) \/ RegisterFails(k) \/ Rename(k) \/ UpdatePath(k)
  BY <1>0, <1>4, RegisterKeeps, RegisterFailsKeeps, RenameKeeps, UpdatePathKeeps
<1>5. CASE UndoMaps(k) \/ UndoRow(k) \/ UndoFile(k)
  BY <1>0, <1>5, UndoMapsKeeps, UndoRowKeeps, UndoFileKeeps
<1> QED
  BY <1>1, <1>2, <1>3, <1>4, <1>5 DEF Import

\* Every step of a removal keeps it, and so does the death of a process.
LEMMA RemoveKeeps ==
  ASSUME Registration, NEW k \in Procs, Remove(k) \/ Crash(k)
  PROVE  Registration'
<1>0. TypeOK'
  BY RemoveType
<1>1. CASE \E s \in Snapshots : FindSnapshot(k, s)
  BY <1>0, <1>1, FindSnapshotKeeps
<1>2. CASE Deregister(k) \/ DeletePayload(k)
  BY <1>0, <1>2, DeregisterKeeps, DeletePayloadKeeps
<1>3. CASE DeregisterFails(k) \/ DeletePayloadFails(k) \/ Crash(k)
  BY <1>0, <1>3, ReturnKeeps DEF DeregisterFails, DeletePayloadFails, Crash, histories
<1> QED
  BY <1>1, <1>2, <1>3 DEF Remove

\* A step that changes nothing keeps it.
LEMMA StutterKeeps ==
  ASSUME Registration, UNCHANGED vars
  PROVE  Registration'
<1> USE DEF Registration, vars, database, histories
<1>1. TypeOK'
  BY DEF TypeOK
<1>2. FinalIsSound' /\ CopiesAreWhole' /\ MapsAreOwned'
  BY DEF FinalIsSound, Complete, CopiesAreWhole, MapsAreOwned, Registered
<1>3. IdsAreFresh' /\ JobsHold'
  BY DEF IdsAreFresh, JobsHold, ImportOwns, RemovalOwns, Complete, Registered
<1> QED
  BY <1>1, <1>2, <1>3

\* Registration is an invariant: through any number of imports, removals, root
\* changes, crashes and failures at once, what a row names under its final
\* name is there, whole and mapped, and every command's locals stay good.
THEOREM RegistrationInvariant == Spec => []Registration
<1>1. Init => Registration
  BY RegistrationInit
<1>2. Registration /\ [Next]_vars => Registration'
  BY RootKeeps, ImportKeeps, RemoveKeeps, StutterKeeps DEF Next
<1> QED
  BY <1>1, <1>2, PTL DEF Spec

\* A query opens only payloads that were copied whole and validated.
THEOREM SearchOpensWhole == Spec => []SearchedIsWhole
<1>1. Registration => SearchedIsWhole
  <2> SUFFICES ASSUME Registration, NEW m \in Eligible(Roots)
      PROVE  files[m.snapshot][registry[m.snapshot]] = "whole"
    BY DEF SearchedIsWhole
  <2>1. /\ m.snapshot \in Snapshots
        /\ Healthy(m.snapshot)
    BY DEF Eligible, Registration, TypeOK, Map
  <2>2. CASE registry[m.snapshot] = "final"
    BY <2>1, <2>2 DEF Registration, FinalIsSound
  <2>3. CASE registry[m.snapshot] = "tmp"
    BY <2>1, <2>3 DEF Registration, CopiesAreWhole, Healthy, TypeOK
  <2> QED
    BY <2>1, <2>2, <2>3 DEF Healthy, Registered, Registration, TypeOK
<1> QED
  BY <1>1, RegistrationInvariant, PTL

-----------------------------------------------------------------------------
(* Until something fails, a registration has its payload.                   *)

\* A snapshot between its rename and the UPDATE of its path.
BetweenNames(s) == \E k \in Procs : pc[k] = "renamed" /\ job[k].snapshot = s

\* Until something fails, the file a registration names is there, or an import
\* has renamed it and is about to say so; a compensation that reaches the file
\* has deleted the row.
Intact ==
  faults = 0 =>
    /\ \A s \in Snapshots :
         Registered(s) => files[s][registry[s]] # "missing" \/ BetweenNames(s)
    /\ \A k \in Procs : pc[k] = "undo_file" => registry[job[k].snapshot] = "none"

\* A step of k that writes no row and at most a file of a snapshot without a
\* row keeps it.
LEMMA FileKeepsIntact ==
  ASSUME Registration, Intact, NEW k \in Procs,
         faults' = 0 => faults = 0,
         registry' = registry,
         \A s \in Snapshots : Registered(s) =>
           \/ files'[s] = files[s]
           \/ files'[s][registry[s]] # "missing"
           \/ pc'[k] = "renamed" /\ job'[k].snapshot = s,
         \A l \in Procs \ {k} : pc'[l] = pc[l] /\ job'[l] = job[l],
         pc[k] # "renamed",
         pc'[k] # "undo_file"
  PROVE  Intact'
<1> SUFFICES ASSUME faults' = 0 PROVE Intact'
  BY DEF Intact
<1>0. /\ \A s \in Snapshots :
           Registered(s) => files[s][registry[s]] # "missing" \/ BetweenNames(s)
      /\ \A l \in Procs : pc[l] = "undo_file" => registry[job[l].snapshot] = "none"
  BY DEF Intact
<1>1. ASSUME NEW s \in Snapshots, BetweenNames(s)
      PROVE  BetweenNames(s)'
  BY <1>1 DEF BetweenNames
<1>2. ASSUME NEW s \in Snapshots, Registered(s)'
      PROVE  files'[s][registry'[s]] # "missing" \/ BetweenNames(s)'
  BY <1>0, <1>1, <1>2 DEF BetweenNames, Registered
<1> QED
  BY <1>0, <1>2 DEF Intact

\* A row that goes takes nothing away from the others.
LEMMA RowGoesIntact ==
  ASSUME Registration, Intact, NEW k \in Procs, UndoRow(k) \/ Deregister(k)
  PROVE  Intact'
<1>0. /\ TypeOK
      /\ pc[k] \in {"undo_row", "removing"}
      /\ job[k].snapshot \in Snapshots
      /\ registry' = [registry EXCEPT ![job[k].snapshot] = "none"]
      /\ UNCHANGED <<files, faults, job>>
      /\ \A l \in Procs \ {k} : pc'[l] = pc[l]
      /\ pc'[k] # "renamed"
  BY JobTypes DEF UndoRow, Deregister, Goto, Registration, TypeOK
<1> SUFFICES ASSUME faults = 0 PROVE Intact'
  BY <1>0 DEF Intact
<1>1. /\ \A s \in Snapshots :
           Registered(s) => files[s][registry[s]] # "missing" \/ BetweenNames(s)
      /\ \A l \in Procs : pc[l] = "undo_file" => registry[job[l].snapshot] = "none"
  BY DEF Intact
<1>2. ASSUME NEW s \in Snapshots, BetweenNames(s)
      PROVE  BetweenNames(s)'
  BY <1>0, <1>2 DEF BetweenNames
<1>3. ASSUME NEW s \in Snapshots, Registered(s)'
      PROVE  files'[s][registry'[s]] # "missing" \/ BetweenNames(s)'
  BY <1>0, <1>1, <1>2, <1>3 DEF Registered, TypeOK
<1>4. ASSUME NEW l \in Procs, pc'[l] = "undo_file"
      PROVE  registry'[job'[l].snapshot] = "none"
  <2>1. job[l].snapshot \in Snapshots
    BY <1>0, <1>4, JobTypes
  <2> QED
    BY <1>0, <1>1, <1>4, <2>1 DEF TypeOK
<1> QED
  BY <1>3, <1>4 DEF Intact

\* The registration names the copy, which is whole.
LEMMA RegisterIntact ==
  ASSUME Registration, Intact, NEW k \in Procs, Register(k)
  PROVE  Intact'
<1>0. /\ TypeOK
      /\ pc[k] = "copied"
      /\ job[k].snapshot \in Snapshots
      /\ files[job[k].snapshot]["tmp"] = "whole"
      /\ registry' = [registry EXCEPT ![job[k].snapshot] = "tmp"]
      /\ UNCHANGED <<files, faults, job>>
      /\ \A l \in Procs \ {k} : pc'[l] = pc[l]
      /\ pc'[k] = "committed"
  BY JobTypes DEF Register, Goto, Registration, TypeOK, JobsHold, ImportOwns
<1> SUFFICES ASSUME faults = 0 PROVE Intact'
  BY <1>0 DEF Intact
<1>1. /\ \A s \in Snapshots :
           Registered(s) => files[s][registry[s]] # "missing" \/ BetweenNames(s)
      /\ \A l \in Procs : pc[l] = "undo_file" => registry[job[l].snapshot] = "none"
  BY DEF Intact
<1>2. ASSUME NEW s \in Snapshots, BetweenNames(s)
      PROVE  BetweenNames(s)'
  BY <1>0, <1>2 DEF BetweenNames
<1>3. ASSUME NEW s \in Snapshots, Registered(s)'
      PROVE  files'[s][registry'[s]] # "missing" \/ BetweenNames(s)'
  BY <1>0, <1>1, <1>2, <1>3 DEF Registered, TypeOK
<1>4. ASSUME NEW l \in Procs, pc'[l] = "undo_file"
      PROVE  registry'[job'[l].snapshot] = "none"
  <2>1. job[l].snapshot \in Snapshots /\ pc[l] = "undo_file" /\ l # k
    BY <1>0, <1>4, JobTypes
  <2>2. job[l].snapshot # job[k].snapshot
    BY <1>0, <2>1 DEF Registration, IdsAreFresh
  <2> QED
    BY <1>0, <1>1, <2>1, <2>2 DEF TypeOK
<1> QED
  BY <1>3, <1>4 DEF Intact

\* The path is updated once the file is there under its final name.
LEMMA UpdatePathIntact ==
  ASSUME Registration, Intact, NEW k \in Procs, UpdatePath(k)
  PROVE  Intact'
<1> DEFINE sk == job[k].snapshot
<1>0. /\ TypeOK
      /\ pc[k] = "renamed"
      /\ sk \in Snapshots
      /\ files[sk]["final"] = "whole"
      /\ registry'[sk] \in {"none", "final"}
      /\ \A s \in Snapshots \ {sk} : registry'[s] = registry[s]
      /\ UNCHANGED <<files, faults>>
      /\ \A l \in Procs \ {k} : pc'[l] = pc[l] /\ job'[l] = job[l]
      /\ pc'[k] = "idle"
  BY JobTypes DEF UpdatePath, Return, Goto, Registration, TypeOK, JobsHold, ImportOwns
<1> SUFFICES ASSUME faults = 0 PROVE Intact'
  BY <1>0 DEF Intact
<1>1. /\ \A s \in Snapshots :
           Registered(s) => files[s][registry[s]] # "missing" \/ BetweenNames(s)
      /\ \A l \in Procs : pc[l] = "undo_file" => registry[job[l].snapshot] = "none"
  BY DEF Intact
<1>2. ASSUME NEW s \in Snapshots \ {sk}, BetweenNames(s)
      PROVE  BetweenNames(s)'
  BY <1>0, <1>2 DEF BetweenNames
<1>3. ASSUME NEW s \in Snapshots, Registered(s)'
      PROVE  files'[s][registry'[s]] # "missing" \/ BetweenNames(s)'
  BY <1>0, <1>1, <1>2, <1>3 DEF Registered, TypeOK
<1>4. ASSUME NEW l \in Procs, pc'[l] = "undo_file"
      PROVE  registry'[job'[l].snapshot] = "none"
  <2>1. job[l].snapshot \in Snapshots /\ pc[l] = "undo_file" /\ l # k
    BY <1>0, <1>4, JobTypes
  <2>2. job[l].snapshot # sk
    BY <1>0, <2>1 DEF Registration, IdsAreFresh
  <2> QED
    BY <1>0, <1>1, <2>1, <2>2 DEF TypeOK
<1> QED
  BY <1>3, <1>4 DEF Intact

\* A step that fails is a fault.
LEMMA FaultKeepsIntact ==
  ASSUME Registration, Fault
  PROVE  Intact'
BY DEF Registration, TypeOK, Fault, Intact

\* Steps that touch the file of a snapshot no row names, or no file at all.
LEMMA OtherImportIntact ==
  ASSUME Registration, Intact, NEW k \in Procs,
         \/ StartImport(k)
         \/ \E x \in SnapshotRoots : CheckRoot(k, x)
         \/ \E x \in SnapshotRoots : RefuseRoot(k, x)
         \/ BeginCopy(k)
         \/ EndCopy(k)
         \/ RegisterFails(k)
         \/ Rename(k)
         \/ RenameFails(k)
         \/ UndoMaps(k)
         \/ UndoFile(k)
  PROVE  Intact'
<1> USE DEF Goto, Return, database
<1>0. TypeOK /\ JobsHold /\ IdsAreFresh
  BY DEF Registration
<1>1. CASE Fault
  BY <1>1, FaultKeepsIntact
<1> SUFFICES ASSUME ~Fault PROVE Intact'
  BY <1>1
<1>2. faults' = faults /\ registry' = registry
  BY DEF StartImport, CheckRoot, RefuseRoot, BeginCopy, EndCopy, RegisterFails, Rename,
         RenameFails, UndoMaps, UndoFile
<1>3. /\ \A l \in Procs \ {k} : pc'[l] = pc[l] /\ job'[l] = job[l]
      /\ pc[k] # "renamed"
      /\ pc'[k] # "undo_file"
  BY <1>0 DEF StartImport, CheckRoot, RefuseRoot, BeginCopy, EndCopy, RegisterFails, Rename,
         RenameFails, UndoMaps, UndoFile, TypeOK
<1>4. ASSUME faults' = 0, NEW s \in Snapshots, Registered(s)
      PROVE  \/ files'[s] = files[s]
             \/ files'[s][registry[s]] # "missing"
             \/ pc'[k] = "renamed" /\ job'[k].snapshot = s
  <2>1. CASE BeginCopy(k)
    <3>1. PICK t \in Snapshots \ issued : SetFile(t, "tmp", "partial")
      BY <2>1 DEF BeginCopy
    <3>2. registry[t] = "none"
      BY <1>0 DEF IdsAreFresh
    <3> QED
      BY <1>0, <1>4, <3>1, <3>2 DEF SetFile, TypeOK, Registered
  <2>2. CASE EndCopy(k)
    <3>1. registry[job[k].snapshot] = "none"
      BY <1>0, <2>2 DEF EndCopy, JobsHold, ImportOwns
    <3> QED
      BY <1>0, <1>4, <2>2, <3>1 DEF EndCopy, SetFile, TypeOK, Registered
  <2>3. CASE RegisterFails(k)
    <3>1. registry[job[k].snapshot] = "none"
      BY <1>0, <2>3 DEF RegisterFails, JobsHold, ImportOwns
    <3> QED
      BY <1>0, <1>4, <2>3, <3>1 DEF RegisterFails, SetFile, TypeOK, Registered
  <2>4. CASE Rename(k)
    <3>1. job[k].snapshot \in Snapshots /\ pc'[k] = "renamed" /\ job' = job
      BY <1>0, <2>4, JobTypes DEF Rename, TypeOK
    <3> QED
      BY <1>0, <1>4, <2>4, <3>1 DEF Rename, TypeOK
  <2>5. CASE UndoFile(k)
    <3>1. registry[job[k].snapshot] = "none"
      BY <1>2, <1>4, <2>5 DEF UndoFile, Intact
    <3> QED
      BY <1>0, <1>4, <2>5, <3>1 DEF UndoFile, SetFile, TypeOK, Registered
  <2> QED
    BY <2>1, <2>2, <2>3, <2>4, <2>5
    DEF StartImport, CheckRoot, RefuseRoot, RenameFails, UndoMaps
<1>5. CASE faults' = 0
  BY <1>2, <1>3, <1>4, <1>5, FileKeepsIntact
<1> QED
  BY <1>5 DEF Intact

\* A removal deletes the file of a snapshot that lost its row.
LEMMA RemoveIntact ==
  ASSUME Registration, Intact, NEW k \in Procs,
         (\E s \in Snapshots : FindSnapshot(k, s)) \/ DeletePayload(k)
  PROVE  Intact'
<1> USE DEF Goto, Return, database
<1>0. TypeOK /\ JobsHold
  BY DEF Registration
<1>1. /\ faults' = faults
      /\ registry' = registry
      /\ \A l \in Procs \ {k} : pc'[l] = pc[l] /\ job'[l] = job[l]
      /\ pc[k] # "renamed"
      /\ pc'[k] # "undo_file"
  BY <1>0 DEF FindSnapshot, DeletePayload, TypeOK
<1>2. ASSUME NEW s \in Snapshots, Registered(s)
      PROVE  files'[s] = files[s]
  <2>1. CASE DeletePayload(k)
    <3>1. registry[job[k].snapshot] = "none"
      BY <1>0, <2>1 DEF DeletePayload, JobsHold, RemovalOwns
    <3> QED
      BY <1>0, <1>2, <2>1, <3>1 DEF DeletePayload, SetFile, TypeOK, Registered
  <2> QED
    BY <2>1 DEF FindSnapshot
<1> QED
  BY <1>1, <1>2, FileKeepsIntact

\* Every step keeps it.
LEMMA IntactNext ==
  ASSUME Registration, Intact, Next
  PROVE  Intact'
<1>1. ASSUME NEW r \in Roots, Root(r)
      PROVE  Intact'
  <2>1. UNCHANGED <<registry, files, pc, job, faults>>
    BY <1>1 DEF Root, Reindex, Unapprove, DeleteRoot, database
  <2> QED
    BY <2>1 DEF Intact, Registered, BetweenNames
<1>2. ASSUME NEW k \in Procs, Import(k)
      PROVE  Intact'
  <2>1. CASE CopyFails(k) \/ UpdatePathFails(k) \/ UndoFails(k)
    BY <2>1, FaultKeepsIntact DEF CopyFails, UpdatePathFails, UndoFails
  <2>2. CASE Register(k) \/ UpdatePath(k) \/ UndoRow(k)
    BY <2>2, RegisterIntact, UpdatePathIntact, RowGoesIntact
  <2> QED
    BY <1>2, <2>1, <2>2, OtherImportIntact DEF Import
<1>3. ASSUME NEW k \in Procs, Remove(k) \/ Crash(k)
      PROVE  Intact'
  <2>1. CASE DeregisterFails(k) \/ DeletePayloadFails(k) \/ Crash(k)
    BY <2>1, FaultKeepsIntact DEF DeregisterFails, DeletePayloadFails, Crash
  <2>2. CASE Deregister(k)
    BY <2>2, RowGoesIntact
  <2> QED
    BY <1>3, <2>1, <2>2, RemoveIntact DEF Remove
<1> QED
  BY <1>1, <1>2, <1>3 DEF Next

\* While nothing crashes or fails, a registration a caller can see between two
\* commands has its payload, whatever imports and removals overlapped
\* (snapshot.rs, ADR-0017).
THEOREM QuietRegistryIsHealthy == Spec => []RegisteredIsHealthy
<1>1. Init => Intact
  BY DEF Init, Intact, Registered
<1>2. Registration /\ Intact /\ [Next]_vars => Intact'
  <2>1. ASSUME Intact, UNCHANGED vars
        PROVE  Intact'
    BY <2>1 DEF Intact, Registered, BetweenNames, vars, database
  <2> QED
    BY <2>1, IntactNext
<1>3. Intact => RegisteredIsHealthy
  BY DEF Intact, RegisteredIsHealthy, Quiet, Healthy, BetweenNames
<1> QED
  BY <1>1, <1>2, <1>3, RegistrationInvariant, PTL DEF Spec
-----------------------------------------------------------------------------
(* For whoever queries, the registry is a SnapshotCatalog.                  *)

Granted(s) == \E m \in granted : m.snapshot = s

\* Maps are granted with the registration, never before.
GrantedOnce ==
  /\ \A s \in Snapshots : Registered(s) => Granted(s)
  /\ \A k \in Procs :
       pc[k] \in {"copying", "copied"} => ~Granted(job[k].snapshot)

\* A step that registers nothing and begins no copy keeps it.
LEMMA NoGrantKeeps ==
  ASSUME GrantedOnce, granted' = granted,
         \A s \in Snapshots : Registered(s)' => Registered(s),
         \A k \in Procs : pc'[k] \in {"copying", "copied"} =>
           pc[k] \in {"copying", "copied"} /\ job'[k].snapshot = job[k].snapshot
  PROVE  GrantedOnce'
BY DEF GrantedOnce, Granted

\* Every step keeps it: an id is granted once.
LEMMA GrantedOnceNext ==
  ASSUME Registration, GrantedOnce, Next
  PROVE  GrantedOnce'
<1> USE DEF Goto, Return, database, histories
<1>0. TypeOK /\ JobsHold /\ IdsAreFresh
  BY DEF Registration
<1>1. ASSUME NEW r \in Roots, Root(r)
      PROVE  GrantedOnce'
  <2>1. UNCHANGED <<registry, pc, job, granted>>
    BY <1>1 DEF Root, Reindex, Unapprove, DeleteRoot
  <2> QED
    BY <2>1, NoGrantKeeps DEF Registered
<1>2. ASSUME NEW k \in Procs, BeginCopy(k)
      PROVE  GrantedOnce'
  <2>1. PICK s \in Snapshots \ issued : job' = [job EXCEPT ![k].snapshot = s]
    BY <1>2 DEF BeginCopy
  <2>2. ~Granted(s) /\ job'[k].snapshot = s
    BY <1>0, <2>1 DEF IdsAreFresh, Granted, TypeOK, Job
  <2>3. \A l \in Procs \ {k} : pc'[l] = pc[l] /\ job'[l] = job[l]
    BY <1>0, <1>2, <2>1 DEF BeginCopy, TypeOK
  <2>4. registry' = registry /\ granted' = granted
    BY <1>2 DEF BeginCopy
  <2> QED
    BY <2>2, <2>3, <2>4 DEF GrantedOnce, Granted, Registered
<1>3. ASSUME NEW k \in Procs, Register(k)
      PROVE  GrantedOnce'
  <2>0. /\ pc'[k] = "committed"
        /\ job' = job
        /\ \A l \in Procs \ {k} : pc'[l] = pc[l]
        /\ granted' = granted \cup Requested(k)
        /\ registry' = [registry EXCEPT ![job[k].snapshot] = "tmp"]
    BY <1>0, <1>3 DEF Register, TypeOK
  <2>1. job[k].snapshot \in Snapshots /\ pc[k] = "copied"
    BY <1>3, JobTypes DEF Register
  <2>2. \A m \in Requested(k) : m.snapshot = job[k].snapshot
    BY DEF Requested
  <2>3. Granted(job[k].snapshot)'
    <3>1. PICK x \in SnapshotRoots : TRUE
      BY SnapshotRegistryAssumption
    <3>2. [snapshot |-> job[k].snapshot, from |-> x, to |-> job[k].map[x]] \in granted'
      BY <2>0 DEF Requested
    <3> QED
      BY <2>0, <3>2 DEF Granted
  <2>4. \A s \in Snapshots : Granted(s) => Granted(s)'
    BY <2>0 DEF Granted
  <2>5. \A s \in Snapshots : Registered(s)' => Granted(s)'
    BY <1>0, <2>0, <2>3, <2>4 DEF GrantedOnce, Registered, TypeOK
  <2>6. ASSUME NEW l \in Procs, pc'[l] \in {"copying", "copied"}
        PROVE  ~Granted(job[l].snapshot)'
    <3>1. l # k /\ pc[l] \in {"copying", "copied"}
      BY <2>0, <2>6
    <3>2. job[l].snapshot # job[k].snapshot
      BY <1>0, <2>1, <3>1 DEF IdsAreFresh
    <3>3. \A m \in granted : m.snapshot # job[l].snapshot
      BY <3>1 DEF GrantedOnce, Granted
    <3> QED
      BY <2>0, <2>2, <3>2, <3>3 DEF Granted
  <2> QED
    BY <2>5, <2>6 DEF GrantedOnce
<1>4. ASSUME NEW k \in Procs, Import(k), ~BeginCopy(k), ~Register(k)
      PROVE  GrantedOnce'
  <2>1. granted' = granted
    BY <1>4 DEF Import, StartImport, CheckRoot, RefuseRoot, EndCopy, CopyFails,
       RegisterFails, Rename, RenameFails, UpdatePath, UpdatePathFails,
       UndoMaps, UndoRow, UndoFile, UndoFails
  <2>2. \A s \in Snapshots : Registered(s)' => Registered(s)
    BY <1>0, <1>4 DEF Import, StartImport, CheckRoot, RefuseRoot, EndCopy, CopyFails,
       RegisterFails, Rename, RenameFails, UpdatePath, UpdatePathFails,
       UndoMaps, UndoRow, UndoFile, UndoFails, Registered, TypeOK
  <2>3. ASSUME NEW l \in Procs, pc'[l] \in {"copying", "copied"}
        PROVE  pc[l] \in {"copying", "copied"} /\ job'[l].snapshot = job[l].snapshot
    BY <1>0, <1>4, <2>3 DEF Import, StartImport, CheckRoot, RefuseRoot, EndCopy, CopyFails,
       RegisterFails, Rename, RenameFails, UpdatePath, UpdatePathFails,
       UndoMaps, UndoRow, UndoFile, UndoFails, TypeOK
  <2> QED
    BY <2>1, <2>2, <2>3, NoGrantKeeps
<1>5. ASSUME NEW k \in Procs, Remove(k) \/ Crash(k)
      PROVE  GrantedOnce'
  <2>1. /\ granted' = granted
        /\ \A s \in Snapshots : Registered(s)' => Registered(s)
    BY <1>0, <1>5 DEF Remove, FindSnapshot, Deregister, DeregisterFails, DeletePayload,
       DeletePayloadFails, Crash, Registered, TypeOK
  <2>2. ASSUME NEW l \in Procs, pc'[l] \in {"copying", "copied"}
        PROVE  pc[l] \in {"copying", "copied"} /\ job'[l].snapshot = job[l].snapshot
    BY <1>0, <1>5, <2>2 DEF Remove, FindSnapshot, Deregister, DeregisterFails, DeletePayload,
       DeletePayloadFails, Crash, TypeOK
  <2> QED
    BY <2>1, <2>2, NoGrantKeeps
<1> QED
  BY <1>1, <1>2, <1>3, <1>4, <1>5 DEF Next

\* A phase that changes is the function with one value replaced.
LEMMA OnePhase ==
  ASSUME NEW h \in Snapshots, NEW step,
         Phase(h)' = step,
         \A s \in Snapshots \ {h} : Phase(s)' = Phase(s)
  PROVE  [s \in Snapshots |-> Phase(s)]' =
           [[s \in Snapshots |-> Phase(s)] EXCEPT ![h] = step]
OBVIOUS

\* A step that writes no row of a snapshot and keeps which payloads can be
\* opened and which roots are there is no step of the catalog.
LEMMA CatalogStutter ==
  ASSUME UNCHANGED <<registry, maps, granted>>,
         \A r \in Roots : rows'[r] = "none" <=> rows[r] = "none",
         \A s \in Snapshots : Healthy(s)' <=> Healthy(s)
  PROVE  UNCHANGED Catalog!vars
<1>1. \A s \in Snapshots : Phase(s)' = Phase(s)
  BY DEF Phase
<1> QED
  BY <1>1 DEF Catalog!vars


\* The writes of a registry step: the phase of one snapshot.
LEMMA PhaseKept ==
  ASSUME NEW s \in Snapshots, registry'[s] = registry[s], granted' = granted
  PROVE  Phase(s)' = Phase(s)
BY DEF Phase

\* The phases, as the registry has them.
LEMMA PhaseIs ==
  ASSUME Registration, GrantedOnce, NEW s \in Snapshots
  PROVE  /\ registry[s] = "tmp" <=> Phase(s) = "staged"
         /\ registry[s] = "final" <=> Phase(s) = "settled"
         /\ registry[s] = "none" /\ Granted(s) <=> Phase(s) = "gone"
         /\ registry[s] = "none" /\ ~Granted(s) <=> Phase(s) = "new"
<1>1. registry[s] \in {"none", "tmp", "final"}
  BY DEF Registration, TypeOK
<1> QED
  BY <1>1 DEF Phase, Granted

\* Only a registered snapshot has maps.
LEMMA NoMapsLeft ==
  ASSUME Registration, NEW s \in Snapshots, registry[s] = "none"
  PROVE  MapsOf(s) = {}
BY DEF Registration, MapsAreOwned, MapsOf, Registered

\* Register is Add.
LEMMA RegisterAdds ==
  ASSUME Registration, GrantedOnce,
         NEW k \in Procs, Register(k)
  PROVE  Catalog!Next
<1>0. /\ TypeOK
      /\ pc[k] = "copied"
      /\ RootsExist(k)
      /\ registry' = [registry EXCEPT ![job[k].snapshot] = "tmp"]
      /\ maps' = maps \cup Requested(k)
      /\ granted' = granted \cup Requested(k)
      /\ UNCHANGED <<rows, files>>
  BY DEF Register, Registration
<1>1. PICK h \in Snapshots : h = job[k].snapshot
  BY <1>0, JobTypes
<1>2. registry[h] = "none" /\ files[h]["tmp"] = "whole" /\ ~Granted(h)
  BY <1>0, <1>1 DEF Registration, JobsHold, ImportOwns, GrantedOnce
<1>3. registry'[h] = "tmp" /\ \A s \in Snapshots \ {h} : registry'[s] = registry[s]
  BY <1>0, <1>1 DEF TypeOK
<1>4. Phase(h) = "new" /\ Phase(h)' = "staged"
  BY <1>2, <1>3, PhaseIs DEF Phase
<1>5. ASSUME NEW s \in Snapshots \ {h}
      PROVE  Phase(s)' = Phase(s)
  <2>1. Granted(s)' <=> Granted(s)
    BY <1>0, <1>1 DEF Granted, Requested
  <2> QED
    BY <1>3, <2>1 DEF Phase, Granted
<1>6. [s \in Snapshots |-> Phase(s)]' =
        [[s \in Snapshots |-> Phase(s)] EXCEPT ![h] = "staged"]
  BY <1>4, <1>5, OnePhase
<1>7. {s \in Snapshots : Healthy(s)}' = {s \in Snapshots : Healthy(s)} \cup {h}
  <2>1. Healthy(h)'
    BY <1>0, <1>2, <1>3 DEF Healthy, Registered
  <2>2. \A s \in Snapshots \ {h} : Healthy(s)' <=> Healthy(s)
    BY <1>0, <1>3 DEF Healthy, Registered
  <2> QED
    BY <2>1, <2>2
<1>8. job[k].map \in Catalog!Assignment
  <2>1. job[k].map \in Mappings
    BY <1>0, JobTypes
  <2> QED
    BY <1>0, <2>1 DEF Mappings, Catalog!Assignment, RootsExist
<1>9. Requested(k) = Catalog!MapsFor(h, job[k].map)
  BY <1>1 DEF Requested, Catalog!MapsFor
<1>10. Catalog!Add(h)
  BY <1>0, <1>4, <1>6, <1>7, <1>8, <1>9 DEF Catalog!Add
<1> QED
  BY <1>10 DEF Catalog!Next

\* A row that goes is Drop, and nothing when it is gone already.
LEMMA RowGoes ==
  ASSUME Registration, GrantedOnce,
         NEW k \in Procs, UndoRow(k) \/ Deregister(k)
  PROVE  Catalog!Next \/ UNCHANGED Catalog!vars
<1>0. /\ TypeOK
      /\ pc[k] \in {"undo_row", "removing"}
      /\ registry' = [registry EXCEPT ![job[k].snapshot] = "none"]
      /\ maps' = maps \ MapsOf(job[k].snapshot)
      /\ UNCHANGED <<rows, files, granted>>
  BY DEF UndoRow, Deregister, Registration, histories
<1>1. PICK h \in Snapshots : h = job[k].snapshot
  BY <1>0, JobTypes
<1>3. registry'[h] = "none" /\ \A s \in Snapshots \ {h} : registry'[s] = registry[s]
  BY <1>0, <1>1 DEF TypeOK
<1>4. CASE registry[h] = "none"
  <2>1. registry' = registry
    BY <1>0, <1>1, <1>4 DEF TypeOK
  <2>2. maps' = maps
    BY <1>0, <1>1, <1>4, NoMapsLeft
  <2>3. \A s \in Snapshots : Healthy(s)' <=> Healthy(s)
    BY <1>0, <2>1 DEF Healthy, Registered
  <2> QED
    BY <1>0, <2>1, <2>2, <2>3, CatalogStutter
<1>5. CASE registry[h] # "none"
  <2>1. Phase(h) \in {"staged", "settled"}
    BY <1>0, <1>5, PhaseIs DEF TypeOK
  <2>2. Phase(h)' = "gone"
    <3>1. Granted(h)'
      BY <1>0, <1>5 DEF GrantedOnce, Registered, Granted
    <3> QED
      BY <1>3, <3>1 DEF Phase, Granted
  <2>3. [s \in Snapshots |-> Phase(s)]' =
          [[s \in Snapshots |-> Phase(s)] EXCEPT ![h] = "gone"]
    BY <1>0, <1>3, <2>2, PhaseKept, OnePhase
  <2>4. {s \in Snapshots : Healthy(s)}' = {s \in Snapshots : Healthy(s)} \ {h}
    <3>1. ~Healthy(h)'
      BY <1>3 DEF Healthy, Registered
    <3>2. \A s \in Snapshots \ {h} : Healthy(s)' <=> Healthy(s)
      BY <1>0, <1>3 DEF Healthy, Registered
    <3> QED
      BY <3>1, <3>2
  <2>5. maps' = Catalog!MapsLeft(h)
    BY <1>0, <1>1 DEF Catalog!MapsLeft, MapsOf
  <2>6. Catalog!Drop(h)
    BY <1>0, <2>1, <2>3, <2>4, <2>5 DEF Catalog!Drop
  <2> QED
    BY <2>6 DEF Catalog!Next
<1> QED
  BY <1>4, <1>5

\* An import that updates the path of its row settles the snapshot.
LEMMA UpdatePathSettles ==
  ASSUME Registration, GrantedOnce,
         NEW k \in Procs, UpdatePath(k)
  PROVE  Catalog!Next \/ UNCHANGED Catalog!vars
<1>0. /\ TypeOK
      /\ pc[k] = "renamed"
      /\ registry' = [registry EXCEPT ![job[k].snapshot] =
                        IF @ = "none" THEN "none" ELSE "final"]
      /\ UNCHANGED <<rows, files, granted, maps>>
  BY DEF UpdatePath, Registration, histories
<1>1. PICK h \in Snapshots : h = job[k].snapshot
  BY <1>0, JobTypes
<1>2. registry[h] # "final" /\ files[h]["final"] = "whole"
  BY <1>0, <1>1 DEF Registration, JobsHold, ImportOwns
<1>4. CASE registry[h] = "none"
  <2>1. registry' = registry
    BY <1>0, <1>1, <1>4 DEF TypeOK
  <2>3. \A s \in Snapshots : Healthy(s)' <=> Healthy(s)
    BY <1>0, <2>1 DEF Healthy, Registered
  <2> QED
    BY <1>0, <2>1, <2>3, CatalogStutter
<1>5. CASE registry[h] # "none"
  <2>0. registry'[h] = "final" /\ \A s \in Snapshots \ {h} : registry'[s] = registry[s]
    BY <1>0, <1>1, <1>5 DEF TypeOK
  <2>1. Phase(h) = "staged" /\ Phase(h)' = "settled"
    <3>1. registry[h] = "tmp"
      BY <1>0, <1>2, <1>5 DEF TypeOK
    <3> QED
      BY <2>0, <3>1 DEF Phase
  <2>3. [s \in Snapshots |-> Phase(s)]' =
          [[s \in Snapshots |-> Phase(s)] EXCEPT ![h] = "settled"]
    BY <1>0, <2>0, <2>1, PhaseKept, OnePhase
  <2>4. {s \in Snapshots : Healthy(s)}' = {s \in Snapshots : Healthy(s)} \cup {h}
    <3>1. Healthy(h)'
      BY <1>0, <1>2, <2>0 DEF Healthy, Registered
    <3>2. \A s \in Snapshots \ {h} : Healthy(s)' <=> Healthy(s)
      BY <1>0, <2>0 DEF Healthy, Registered
    <3> QED
      BY <3>1, <3>2
  <2>6. Catalog!Settle(h)
    BY <1>0, <2>1, <2>3, <2>4 DEF Catalog!Settle
  <2> QED
    BY <2>6 DEF Catalog!Next
<1> QED
  BY <1>4, <1>5

\* The compensation takes maps from a snapshot that never settled.
LEMMA UndoMapsWithholds ==
  ASSUME Registration, GrantedOnce,
         NEW k \in Procs, UndoMaps(k)
  PROVE  Catalog!Next \/ UNCHANGED Catalog!vars
<1>0. /\ TypeOK
      /\ pc[k] = "undo_maps"
      /\ maps' = maps \ MapsOf(job[k].snapshot)
      /\ UNCHANGED <<rows, files, granted, registry>>
  BY DEF UndoMaps, Registration, histories
<1>1. PICK h \in Snapshots : h = job[k].snapshot
  BY <1>0, JobTypes
<1>2. registry[h] # "final"
  BY <1>0, <1>1 DEF Registration, JobsHold, ImportOwns
<1>3. \A s \in Snapshots : Healthy(s)' <=> Healthy(s)
  BY <1>0 DEF Healthy, Registered
<1>4. CASE registry[h] = "none"
  <2>2. maps' = maps
    BY <1>0, <1>1, <1>4, NoMapsLeft
  <2> QED
    BY <1>0, <1>3, <2>2, CatalogStutter
<1>5. CASE registry[h] = "tmp"
  <2>1. Phase(h) = "staged"
    BY <1>5, PhaseIs
  <2>2. [s \in Snapshots |-> Phase(s)]' = [s \in Snapshots |-> Phase(s)]
    BY <1>0, PhaseKept
  <2>3. {s \in Snapshots : Healthy(s)}' = {s \in Snapshots : Healthy(s)}
    BY <1>3
  <2>5. maps' = Catalog!MapsLeft(h)
    BY <1>0, <1>1 DEF Catalog!MapsLeft, MapsOf
  <2>6. Catalog!Withhold(h)
    BY <1>0, <2>1, <2>2, <2>3, <2>5 DEF Catalog!Withhold
  <2> QED
    BY <2>6 DEF Catalog!Next
<1> QED
  BY <1>0, <1>2, <1>4, <1>5 DEF TypeOK

\* A file that comes or goes: a snapshot without a row does not mind, one that
\* is staged may be hidden.
LEMMA FileGoes ==
  ASSUME Registration, GrantedOnce,
         UNCHANGED <<registry, maps, granted, rows>>,
         NEW h \in Snapshots, registry[h] # "final",
         \A s \in Snapshots \ {h} : files'[s] = files[s],
         registry[h] = "tmp" => files'[h]["tmp"] = "missing" \/ files' = files
  PROVE  Catalog!Next \/ UNCHANGED Catalog!vars
<1>0. TypeOK
  BY DEF Registration
<1>1. \A s \in Snapshots \ {h} : Healthy(s)' <=> Healthy(s)
  BY DEF Healthy, Registered
<1>2. CASE Healthy(h)' <=> Healthy(h)
  <2>1. \A s \in Snapshots : Healthy(s)' <=> Healthy(s)
    BY <1>1, <1>2
  <2> QED
    BY <2>1, CatalogStutter
<1>3. CASE ~(Healthy(h)' <=> Healthy(h))
  <2>1. registry[h] = "tmp" /\ files'[h]["tmp"] = "missing"
    <3>1. registry[h] # "none" /\ files' # files
      BY <1>3 DEF Healthy, Registered
    <3> QED
      BY <1>0, <3>1 DEF TypeOK
  <2>2. Phase(h) = "staged"
    BY <2>1, PhaseIs
  <2>3. ~Healthy(h)'
    BY <2>1 DEF Healthy, Registered
  <2>4. {s \in Snapshots : Healthy(s)}' = {s \in Snapshots : Healthy(s)} \ {h}
    BY <1>1, <2>3
  <2>5. [s \in Snapshots |-> Phase(s)]' = [s \in Snapshots |-> Phase(s)]
    BY PhaseKept
  <2>6. Catalog!Hide(h)
    BY <2>2, <2>4, <2>5 DEF Catalog!Hide
  <2> QED
    BY <2>6 DEF Catalog!Next
<1> QED
  BY <1>2, <1>3


\* Steps of an import on files.
LEMMA ImportFiles ==
  ASSUME Registration, GrantedOnce, NEW k \in Procs,
         \/ BeginCopy(k)
         \/ EndCopy(k)
         \/ CopyFails(k)
         \/ RegisterFails(k)
         \/ Rename(k)
         \/ UndoFile(k)
  PROVE  Catalog!Next \/ UNCHANGED Catalog!vars
<1> USE DEF database, histories, SetFile
<1>0. TypeOK /\ JobsHold /\ IdsAreFresh
  BY DEF Registration
<1>1. UNCHANGED <<registry, maps, granted, rows>>
  BY DEF BeginCopy, EndCopy, CopyFails, RegisterFails, Rename, UndoFile
<1>2. CASE BeginCopy(k)
  <2>1. PICK h \in Snapshots \ issued : files' = [files EXCEPT ![h]["tmp"] = "partial"]
    BY <1>2 DEF BeginCopy
  <2>2. registry[h] = "none"
    BY <1>0 DEF IdsAreFresh
  <2> QED
    BY <1>0, <1>1, <2>1, <2>2, FileGoes DEF TypeOK
<1>3. CASE ~BeginCopy(k)
  <2>1. PICK h \in Snapshots : h = job[k].snapshot
    BY <1>3, JobTypes DEF EndCopy, CopyFails, RegisterFails, Rename, UndoFile
  <2>2. registry[h] # "final"
    BY <1>0, <1>3, <2>1 DEF EndCopy, CopyFails, RegisterFails, Rename, UndoFile,
       JobsHold, ImportOwns
  <2>3. \A s \in Snapshots \ {h} : files'[s] = files[s]
    BY <1>0, <1>3, <2>1 DEF EndCopy, CopyFails, RegisterFails, Rename, UndoFile, TypeOK
  <2>4. registry[h] = "tmp" => files'[h]["tmp"] = "missing"
    <3>1. CASE EndCopy(k)
      BY <1>0, <2>1, <3>1 DEF EndCopy, JobsHold, ImportOwns
    <3>2. CASE ~EndCopy(k)
      BY <1>0, <1>3, <2>1, <3>2 DEF CopyFails, RegisterFails, Rename, UndoFile, TypeOK
    <3> QED
      BY <3>1, <3>2
  <2> QED
    BY <1>1, <2>2, <2>3, <2>4, FileGoes
<1> QED
  BY <1>2, <1>3

\* A removal deletes a file no row names any more.
LEMMA DeletePayloadStutters ==
  ASSUME Registration, GrantedOnce, NEW k \in Procs, DeletePayload(k)
  PROVE  Catalog!Next \/ UNCHANGED Catalog!vars
<1>0. TypeOK /\ JobsHold
  BY DEF Registration
<1>1. PICK h \in Snapshots : h = job[k].snapshot
  BY JobTypes DEF DeletePayload
<1>2. registry[h] = "none"
  BY <1>0, <1>1 DEF DeletePayload, JobsHold, RemovalOwns
<1>3. \A s \in Snapshots \ {h} : files'[s] = files[s]
  BY <1>0, <1>1 DEF DeletePayload, SetFile, TypeOK
<1>4. UNCHANGED <<registry, maps, granted, rows>>
  BY DEF DeletePayload, database
<1> QED
  BY <1>2, <1>3, <1>4, FileGoes

\* A root that loses its row is forgotten, and one that gets it back brings no map.
LEMMA RootForgets ==
  ASSUME Registration, NEW r \in Roots, Root(r)
  PROVE  Catalog!Next \/ UNCHANGED Catalog!vars
<1>0. TypeOK
  BY DEF Registration
<1>1. UNCHANGED <<registry, files, granted>>
  BY DEF Root, Reindex, Unapprove, DeleteRoot, database, histories
<1>2. \A s \in Snapshots : Healthy(s)' <=> Healthy(s)
  BY <1>1 DEF Healthy, Registered
<1>3. CASE DeleteRoot(r)
  <2>1. {q \in Roots : rows'[q] = "none"} = {q \in Roots : rows[q] = "none"} \cup {r}
    BY <1>0, <1>3 DEF DeleteRoot, TypeOK
  <2>2. [s \in Snapshots |-> Phase(s)]' = [s \in Snapshots |-> Phase(s)]
    BY <1>1, PhaseKept
  <2>3. {s \in Snapshots : Healthy(s)}' = {s \in Snapshots : Healthy(s)}
    BY <1>2
  <2>4. maps' = {m \in maps : m.to # r}
    BY <1>3 DEF DeleteRoot
  <2>5. Catalog!Forget(r)
    BY <2>1, <2>2, <2>3, <2>4 DEF Catalog!Forget
  <2> QED
    BY <2>5 DEF Catalog!Next
<1>4. CASE Reindex(r) /\ rows[r] = "none"
  <2>1. {q \in Roots : rows'[q] = "none"} = {q \in Roots : rows[q] = "none"} \ {r}
    BY <1>0, <1>4 DEF Reindex, TypeOK
  <2>2. [s \in Snapshots |-> Phase(s)]' = [s \in Snapshots |-> Phase(s)]
    BY <1>1, PhaseKept
  <2>3. {s \in Snapshots : Healthy(s)}' = {s \in Snapshots : Healthy(s)}
    BY <1>2
  <2>4. maps' = maps
    BY <1>4 DEF Reindex
  <2>5. Catalog!Readmit(r)
    BY <1>4, <2>1, <2>2, <2>3, <2>4 DEF Catalog!Readmit
  <2> QED
    BY <2>5 DEF Catalog!Next
<1>5. CASE (Reindex(r) /\ rows[r] # "none") \/ Unapprove(r)
  <2>1. \A q \in Roots : rows'[q] = "none" <=> rows[q] = "none"
    BY <1>0, <1>5 DEF Reindex, Unapprove, database, TypeOK
  <2>2. maps' = maps
    BY <1>5 DEF Reindex, Unapprove, database
  <2> QED
    BY <1>1, <1>2, <2>1, <2>2, CatalogStutter
<1> QED
  BY <1>3, <1>4, <1>5 DEF Root

\* Steps that write no table and no file.
LEMMA LocalStutters ==
  ASSUME UNCHANGED <<registry, maps, granted, rows, files>>
  PROVE  UNCHANGED Catalog!vars
<1>1. \A s \in Snapshots : Healthy(s)' <=> Healthy(s)
  BY DEF Healthy, Registered
<1> QED
  BY <1>1, CatalogStutter

\* Every step is one of the catalog's, or changes nothing there.
LEMMA CatalogStep ==
  ASSUME Registration, GrantedOnce, Next
  PROVE  Catalog!Next \/ UNCHANGED Catalog!vars
<1>1. ASSUME NEW k \in Procs, Import(k)
      PROVE  Catalog!Next \/ UNCHANGED Catalog!vars
  <2>1. CASE \/ StartImport(k)
             \/ \E x \in SnapshotRoots : CheckRoot(k, x)
             \/ \E x \in SnapshotRoots : RefuseRoot(k, x)
             \/ RenameFails(k)
             \/ UpdatePathFails(k)
             \/ UndoFails(k)
    <3>1. UNCHANGED <<registry, maps, granted, rows, files>>
      BY <2>1 DEF StartImport, CheckRoot, RefuseRoot, RenameFails, UpdatePathFails,
         UndoFails, database, histories
    <3> QED
      BY <3>1, LocalStutters
  <2> QED
    BY <1>1, <2>1, ImportFiles, RegisterAdds, UpdatePathSettles, UndoMapsWithholds, RowGoes
    DEF Import
<1>2. ASSUME NEW k \in Procs, Remove(k) \/ Crash(k)
      PROVE  Catalog!Next \/ UNCHANGED Catalog!vars
  <2>1. CASE \/ \E s \in Snapshots : FindSnapshot(k, s)
             \/ DeregisterFails(k)
             \/ DeletePayloadFails(k)
             \/ Crash(k)
    <3>1. UNCHANGED <<registry, maps, granted, rows, files>>
      BY <2>1 DEF FindSnapshot, DeregisterFails, DeletePayloadFails, Crash, database, histories
    <3> QED
      BY <3>1, LocalStutters
  <2> QED
    BY <1>2, <2>1, RowGoes, DeletePayloadStutters DEF Remove
<1> QED
  BY <1>1, <1>2, RootForgets DEF Next

\* For any number of processes, and through crashes and failures, the registry
\* and the managed directory implement the catalog: import_snapshot with its
\* compensation, remove_snapshot and root removal make a snapshot appear whole
\* and completely mapped or not at all, and never bring one back.
THEOREM RegistryImplementsCatalog == Spec => ImplementsSnapshotCatalog
<1>1. Init => GrantedOnce
  BY DEF Init, GrantedOnce, Registered
<1>2. Registration /\ GrantedOnce /\ [Next]_vars => GrantedOnce'
  <2>1. ASSUME GrantedOnce, UNCHANGED vars
        PROVE  GrantedOnce'
    BY <2>1 DEF GrantedOnce, Granted, Registered, vars, database, histories
  <2> QED
    BY <2>1, GrantedOnceNext
<1>3. Init => Catalog!Init
  <2> SUFFICES ASSUME Init PROVE Catalog!Init
    OBVIOUS
  <2>1. \A s \in Snapshots : Phase(s) = "new" /\ ~Healthy(s)
    BY DEF Init, Phase, Healthy, Registered
  <2> QED
    BY <2>1 DEF Init, Catalog!Init
<1>4. Registration /\ GrantedOnce /\ [Next]_vars
        => [Catalog!Next]_Catalog!vars
  <2>1. ASSUME UNCHANGED vars
        PROVE  UNCHANGED Catalog!vars
    BY <2>1, LocalStutters DEF vars, database, histories
  <2> QED
    BY <2>1, CatalogStep
<1> QED
  BY <1>1, <1>2, <1>3, <1>4, RegistrationInvariant, PTL DEF Spec, ImplementsSnapshotCatalog, Catalog!Spec
-----------------------------------------------------------------------------
(* Commands that come one at a time.                                        *)

\* What the managed directory holds of a snapshot no command is busy with.
Settled(s) ==
  /\ registry[s] # "tmp"
  /\ files[s]["tmp"] = "missing"
  /\ files[s]["final"] # "missing" <=> Registered(s)
  /\ s \in removed => ~Registered(s)

\* What it holds of the snapshot of the only command, by step.
InHand(k) ==
  LET s == job[k].snapshot IN
  /\ pc[k] \notin {"undo_maps", "undo_row", "undo_file"}
  /\ pc[k] \in ImportStep => s \notin removed
  /\ pc[k] \in {"copying", "copied", "committed"} => files[s]["final"] = "missing"
  /\ pc[k] = "committed" => registry[s] = "tmp" /\ files[s]["tmp"] # "missing"
  /\ pc[k] = "renamed" => registry[s] = "tmp" /\ files[s]["tmp"] = "missing"
  /\ pc[k] = "removing" => Settled(s) /\ job[k].payload = registry[s]
  /\ pc[k] = "deregistered" => files[s]["tmp"] = "missing" /\ job[k].payload = "final"

Busy(s) ==
  \E k \in Procs : pc[k] \in ImportStep \cup RemoveStep /\ job[k].snapshot = s

\* Until two commands overlap or something fails, every snapshot is settled
\* but the one a command has in hand, which is as far as the command is.
Solo ==
  alone =>
    /\ faults = 0
    /\ OneBusy
    /\ removed \subseteq issued
    /\ \A s \in Snapshots : Settled(s) \/ Busy(s)
    /\ \A k \in Procs : InHand(k)

\* A step that leaves rows and files of the settled snapshots alone.
LEMMA SoloStep ==
  ASSUME Solo, NEW k \in Procs, alone, alone',
         TypeOK,
         faults' = 0, OneBusy',
         pc'[k] # "idle" \/ pc[k] # "idle",
         \A l \in Procs \ {k} : pc'[l] = pc[l] /\ job'[l] = job[l],
         removed' \subseteq issued',
         \A s \in Snapshots :
           \/ Settled(s)'
           \/ pc'[k] \in ImportStep \cup RemoveStep /\ job'[k].snapshot = s,
         InHand(k)'
  PROVE  Solo'
<1>1. \A l \in Procs \ {k} : pc'[l] = "idle"
  BY DEF Solo, OneBusy
<1>2. \A l \in Procs : InHand(l)'
  BY <1>1 DEF InHand
<1>3. \A s \in Snapshots : Settled(s)' \/ Busy(s)'
  BY DEF Busy
<1> QED
  BY <1>2, <1>3 DEF Solo

\* The snapshots a lone command has not in hand are settled.
LEMMA OthersAreSettled ==
  ASSUME Solo, alone, OneBusy', NEW k \in Procs,
         pc'[k] # "idle" \/ pc[k] # "idle",
         \A l \in Procs \ {k} : pc'[l] = pc[l],
         NEW s \in Snapshots,
         pc[k] \in ImportStep \cup RemoveStep => job[k].snapshot # s
  PROVE  Settled(s)
BY DEF Solo, OneBusy, Busy

\* Roots are no part of it.
LEMMA RootSolo ==
  ASSUME Solo, NEW r \in Roots, Root(r), alone' = (alone /\ faults' = 0 /\ OneBusy')
  PROVE  Solo'
<1>1. UNCHANGED <<registry, files, issued, pc, job, faults, removed>>
  BY DEF Root, Reindex, Unapprove, DeleteRoot, database, histories
<1> SUFFICES ASSUME alone' PROVE Solo'
  BY DEF Solo
<1>2. alone /\ faults' = 0 /\ OneBusy'
  OBVIOUS
<1>3. (\A s \in Snapshots : Settled(s) \/ Busy(s))'
  BY <1>1, <1>2 DEF Solo, Settled, Busy, Registered
<1>4. (\A k \in Procs : InHand(k))'
  BY <1>1, <1>2 DEF Solo, InHand, Settled, Registered
<1> QED
  BY <1>1, <1>2, <1>3, <1>4 DEF Solo

\* A step that writes no row and no file, of a command that holds the same
\* snapshot as before, or returns with its snapshot settled.
LEMMA LocalSolo ==
  ASSUME Registration, Solo, NEW k \in Procs, alone, faults' = 0, OneBusy',
         pc'[k] # "idle" \/ pc[k] # "idle",
         \A l \in Procs \ {k} : pc'[l] = pc[l] /\ job'[l] = job[l],
         UNCHANGED <<registry, files, issued, removed>>,
         pc[k] \in ImportStep \cup RemoveStep =>
           Settled(job[k].snapshot) /\ job[k].snapshot \in Snapshots,
         InHand(k)'
  PROVE  Solo'
<1>1. TypeOK /\ removed \subseteq issued
  BY DEF Registration, Solo
<1>2. ASSUME NEW s \in Snapshots PROVE Settled(s)'
  <2>1. Settled(s)
    BY OthersAreSettled
  <2> QED
    BY <2>1 DEF Settled, Registered
<1> QED
  BY <1>1, <1>2, SoloStep DEF Solo

\* Steps that write neither a row nor a file.
LEMMA StartSolo ==
  ASSUME Registration, Solo, NEW k \in Procs, alone, faults' = 0, OneBusy',
         \/ StartImport(k)
         \/ \E x \in SnapshotRoots : CheckRoot(k, x)
         \/ \E x \in SnapshotRoots : RefuseRoot(k, x)
         \/ \E s \in Snapshots : FindSnapshot(k, s)
  PROVE  Solo'
<1> USE DEF Goto, Return, database, histories
<1>0. TypeOK
  BY DEF Registration
<1>1. /\ pc'[k] # "idle" \/ pc[k] # "idle"
      /\ pc[k] \in {"idle", "mapping"}
      /\ \A l \in Procs \ {k} : pc'[l] = pc[l] /\ job'[l] = job[l]
      /\ UNCHANGED <<registry, files, issued, removed>>
  BY <1>0 DEF StartImport, CheckRoot, RefuseRoot, FindSnapshot, TypeOK
<1>2. CASE \E s \in Snapshots : FindSnapshot(k, s)
  <2>1. PICK s \in Snapshots : FindSnapshot(k, s)
    BY <1>2
  <2>2. pc'[k] = "removing" /\ job'[k].snapshot = s /\ job'[k].payload = registry[s]
    BY <1>0, <2>1 DEF FindSnapshot, TypeOK
  <2>3. Settled(s)
    BY <1>1, <2>1, OthersAreSettled
  <2>4. InHand(k)'
    BY <1>1, <2>2, <2>3 DEF InHand, Settled, Registered
  <2> QED
    BY <1>1, <2>4, LocalSolo
<1>3. CASE ~ \E s \in Snapshots : FindSnapshot(k, s)
  <2>1. pc'[k] \in {"idle", "mapping"}
    BY <1>0, <1>3 DEF StartImport, CheckRoot, RefuseRoot, TypeOK
  <2>2. InHand(k)'
    BY <2>1 DEF InHand
  <2> QED
    BY <1>1, <2>2, LocalSolo
<1> QED
  BY <1>2, <1>3

\* A step that writes the row or a file of the snapshot in hand only.
LEMMA OwnSolo ==
  ASSUME Registration, Solo, NEW k \in Procs, alone, faults' = 0, OneBusy',
         NEW h \in Snapshots,
         pc'[k] # "idle" \/ pc[k] # "idle",
         pc[k] \in ImportStep \cup RemoveStep => job[k].snapshot = h,
         \A l \in Procs \ {k} : pc'[l] = pc[l] /\ job'[l] = job[l],
         \A s \in Snapshots \ {h} :
           /\ registry'[s] = registry[s]
           /\ files'[s] = files[s]
           /\ s \in removed' => s \in removed,
         removed' \subseteq issued',
         \/ Settled(h)'
         \/ pc'[k] \in ImportStep \cup RemoveStep /\ job'[k].snapshot = h,
         InHand(k)',
         alone'
  PROVE  Solo'
<1>1. TypeOK
  BY DEF Registration
<1>2. ASSUME NEW s \in Snapshots \ {h} PROVE Settled(s)'
  <2>1. Settled(s)
    BY OthersAreSettled
  <2> QED
    BY <2>1 DEF Settled, Registered
<1> QED
  BY <1>1, <1>2, SoloStep

\* Steps of an import that write a row or a file.
LEMMA ImportSolo ==
  ASSUME Registration, Solo, NEW k \in Procs, alone, faults' = 0, OneBusy', alone',
         \/ BeginCopy(k)
         \/ EndCopy(k)
         \/ Register(k)
         \/ RegisterFails(k)
         \/ Rename(k)
         \/ UpdatePath(k)
  PROVE  Solo'
<1> USE DEF Goto, Return, database, histories, SetFile
<1>0. TypeOK /\ JobsHold /\ IdsAreFresh
  BY DEF Registration
<1>1. /\ pc[k] # "idle"
      /\ \A l \in Procs \ {k} : pc'[l] = pc[l] /\ job'[l] = job[l]
      /\ removed' = removed
  BY <1>0 DEF BeginCopy, EndCopy, Register, RegisterFails, Rename, UpdatePath, TypeOK
<1>2. InHand(k) /\ removed \subseteq issued
  BY DEF Solo
<1>3. CASE BeginCopy(k)
  <2>1. PICK s \in Snapshots \ issued :
          /\ issued' = issued \cup {s}
          /\ files' = [files EXCEPT ![s]["tmp"] = "partial"]
          /\ job' = [job EXCEPT ![k].snapshot = s]
    BY <1>3 DEF BeginCopy
  <2>2. pc[k] = "mapping" /\ pc'[k] = "copying" /\ registry' = registry
    BY <1>0, <1>3 DEF BeginCopy, TypeOK
  <2>3. Settled(s)
    BY <1>1, <2>2, OthersAreSettled
  <2>4. registry[s] = "none" /\ s \notin removed
    BY <1>0, <1>2 DEF IdsAreFresh
  <2>5. job'[k].snapshot = s /\ files'[s]["final"] = "missing"
    BY <1>0, <2>1, <2>3, <2>4 DEF TypeOK, Settled, Registered, Job
  <2>6. InHand(k)'
    BY <1>1, <2>2, <2>4, <2>5 DEF InHand
  <2> QED
    BY <1>0, <1>1, <1>2, <2>1, <2>2, <2>5, <2>6, OwnSolo DEF TypeOK
<1>4. CASE EndCopy(k) \/ Register(k) \/ Rename(k)
  <2> DEFINE h == job[k].snapshot
  <2>1. h \in Snapshots /\ pc[k] \in ImportStep
    BY <1>0, <1>4, JobTypes DEF EndCopy, Register, Rename
  <2>2. /\ job' = job
        /\ issued' = issued
        /\ \A s \in Snapshots \ {h} : registry'[s] = registry[s] /\ files'[s] = files[s]
    BY <1>0, <1>4, <2>1 DEF EndCopy, Register, Rename, TypeOK
  <2>3. pc'[k] \in ImportStep /\ InHand(k)'
    <3>1. CASE EndCopy(k)
      BY <1>0, <1>1, <1>2, <2>1, <2>2, <3>1 DEF EndCopy, InHand, TypeOK
    <3>2. CASE Register(k)
      <4>1. files[h]["tmp"] = "whole"
        BY <1>0, <3>2 DEF Register, JobsHold, ImportOwns
      <4> QED
        BY <1>0, <1>1, <1>2, <2>1, <2>2, <3>2, <4>1 DEF Register, InHand, TypeOK
    <3>3. CASE Rename(k)
      BY <1>0, <1>1, <1>2, <2>1, <2>2, <3>3 DEF Rename, InHand, TypeOK
    <3> QED
      BY <1>4, <3>1, <3>2, <3>3
  <2> HIDE DEF h
  <2> QED
    BY <1>1, <1>2, <2>1, <2>2, <2>3, OwnSolo DEF h
<1>5. CASE RegisterFails(k) \/ UpdatePath(k)
  <2>1. PICK h \in Snapshots :
          h = job[k].snapshot /\ pc[k] \in {"copied", "renamed"} /\ h \notin removed
    BY <1>0, <1>2, <1>5, JobTypes DEF RegisterFails, UpdatePath, InHand
  <2>2. /\ pc'[k] = "idle"
        /\ issued' = issued
        /\ \A s \in Snapshots \ {h} : registry'[s] = registry[s] /\ files'[s] = files[s]
    BY <1>0, <1>5, <2>1 DEF RegisterFails, UpdatePath, TypeOK
  <2>3. Settled(h)'
    <3>1. CASE RegisterFails(k)
      <4>1. registry[h] = "none" /\ files[h]["final"] = "missing"
        BY <1>0, <1>2, <2>1, <3>1 DEF RegisterFails, JobsHold, ImportOwns, InHand
      <4> QED
        BY <1>0, <1>1, <2>1, <3>1, <4>1 DEF RegisterFails, Settled, Registered, TypeOK
    <3>2. CASE UpdatePath(k)
      <4>1. files[h]["final"] = "whole" /\ files[h]["tmp"] = "missing" /\ registry[h] = "tmp"
        BY <1>0, <1>2, <2>1, <3>2 DEF UpdatePath, JobsHold, ImportOwns, InHand
      <4> QED
        BY <1>0, <1>1, <2>1, <3>2, <4>1 DEF UpdatePath, Settled, Registered, TypeOK
    <3> QED
      BY <1>5, <3>1, <3>2
  <2>4. InHand(k)'
    BY <2>2 DEF InHand
  <2> QED
    BY <1>1, <1>2, <2>1, <2>2, <2>3, <2>4, OwnSolo
<1> QED
  BY <1>3, <1>4, <1>5

\* Steps of a removal that write a row or a file.
LEMMA RemoveSolo ==
  ASSUME Registration, Solo, NEW k \in Procs, alone, faults' = 0, OneBusy', alone',
         Deregister(k) \/ DeletePayload(k)
  PROVE  Solo'
<1> USE DEF Goto, Return, database, histories, SetFile
<1>0. TypeOK /\ JobsHold
  BY DEF Registration
<1>1. PICK h \in Snapshots :
        /\ h = job[k].snapshot
        /\ pc[k] \in RemoveStep
        /\ \A l \in Procs \ {k} : pc'[l] = pc[l] /\ job'[l] = job[l]
        /\ h \in issued
        /\ issued' = issued
  BY <1>0, JobTypes DEF Deregister, DeletePayload, TypeOK, JobsHold, RemovalOwns
<1>2. InHand(k) /\ removed \subseteq issued
  BY DEF Solo
<1>3. \A s \in Snapshots \ {h} :
        /\ registry'[s] = registry[s]
        /\ files'[s] = files[s]
        /\ s \in removed' => s \in removed
  BY <1>0, <1>1 DEF Deregister, DeletePayload, TypeOK
<1>4. removed' \subseteq issued'
  BY <1>1, <1>2 DEF Deregister, DeletePayload
<1>5. CASE Deregister(k)
  <2>1. Settled(h) /\ job[k].payload = registry[h] /\ job[k].payload \in Name
    BY <1>0, <1>1, <1>2, <1>5, JobTypes DEF Deregister, InHand
  <2>2. job' = job /\ pc'[k] = "deregistered" /\ files' = files
    BY <1>0, <1>5 DEF Deregister, TypeOK
  <2>3. InHand(k)'
    BY <1>1, <2>1, <2>2 DEF InHand, Settled
  <2> QED
    BY <1>1, <1>3, <1>4, <2>2, <2>3, OwnSolo
<1>6. CASE DeletePayload(k)
  <2>1. /\ registry[h] = "none"
        /\ files[h]["tmp"] = "missing"
        /\ job[k].payload = "final"
    BY <1>0, <1>1, <1>2, <1>6 DEF DeletePayload, InHand, JobsHold, RemovalOwns
  <2>2. Settled(h)'
    BY <1>0, <1>1, <1>6, <2>1 DEF DeletePayload, Settled, Registered, TypeOK
  <2>3. pc'[k] = "idle" /\ InHand(k)'
    BY <1>0, <1>6 DEF DeletePayload, InHand, TypeOK
  <2> QED
    BY <1>1, <1>3, <1>4, <2>2, <2>3, OwnSolo
<1> QED
  BY <1>5, <1>6

\* Every step keeps it; the steps that are left are faults, or the compensation
\* that only a fault leads to.
LEMMA SoloNext ==
  ASSUME Registration, Solo, MCNext
  PROVE  Solo'
<1> SUFFICES ASSUME alone' PROVE Solo'
  BY DEF Solo
<1>0. alone /\ faults' = 0 /\ OneBusy' /\ faults = 0 /\ Next
  BY DEF MCNext, Solo
<1>1. ~Fault
  BY <1>0 DEF Fault, Registration, TypeOK
<1>2. ASSUME NEW r \in Roots, Root(r)
      PROVE  Solo'
  BY <1>2, RootSolo DEF MCNext
<1>3. ASSUME NEW k \in Procs, Import(k)
      PROVE  Solo'
  <2>1. InHand(k)
    BY <1>0 DEF Solo
  <2>2. ~UndoMaps(k) /\ ~UndoRow(k) /\ ~UndoFile(k)
    BY <2>1 DEF InHand, UndoMaps, UndoRow, UndoFile
  <2>3. ~RenameFails(k)
    BY <1>1, <2>1 DEF InHand, RenameFails
  <2>4. ~CopyFails(k) /\ ~UpdatePathFails(k) /\ ~UndoFails(k)
    BY <1>1 DEF CopyFails, UpdatePathFails, UndoFails
  <2> QED
    BY <1>0, <1>3, <2>2, <2>3, <2>4, StartSolo, ImportSolo DEF Import
<1>4. ASSUME NEW k \in Procs, Remove(k) \/ Crash(k)
      PROVE  Solo'
  <2>1. ~DeregisterFails(k) /\ ~DeletePayloadFails(k) /\ ~Crash(k)
    BY <1>1 DEF DeregisterFails, DeletePayloadFails, Crash
  <2> QED
    BY <1>0, <1>4, <2>1, StartSolo, RemoveSolo DEF Remove
<1> QED
  BY <1>0, <1>2, <1>3, <1>4 DEF Next

\* The history variable changes nothing of the behaviours.
LEMMA HistoryRegistration == MCSpec => []Registration
<1>1. MCInit => Init
  BY DEF MCInit
<1>2. [MCNext]_<<vars, alone>> => [Next]_vars
  BY DEF MCNext
<1> QED
  BY <1>1, <1>2, RegistrationInvariant, PTL DEF MCSpec, Spec

\* As long as commands came one at a time and nothing failed, the managed
\* directory holds the payloads of the registered snapshots and nothing else,
\* and a removal that reported success has deleted its payload (remove_snapshot
\* and the compensation of import_snapshot).
THEOREM AloneNothingIsLeft == MCSpec => []OneAtATime
<1>1. MCInit => Solo
  BY DEF MCInit, Init, Solo, OneBusy, Settled, Registered, InHand
<1>2. Registration /\ Solo /\ [MCNext]_<<vars, alone>> => Solo'
  <2>1. ASSUME Solo, UNCHANGED <<vars, alone>>
        PROVE  Solo'
    <3>1. UNCHANGED <<registry, files, issued, pc, job, faults, removed, alone>>
      BY <2>1 DEF vars, database, histories
    <3> QED
      BY <2>1, <3>1 DEF Solo, OneBusy, Settled, Busy, InHand, Registered
  <2> QED
    BY <2>1, SoloNext
<1>3. Registration /\ Solo => OneAtATime
  <2> SUFFICES ASSUME Registration, Solo, alone, Quiet, NEW s \in Snapshots
      PROVE  /\ registry[s] # "tmp"
             /\ files[s]["tmp"] = "missing"
             /\ files[s]["final"] # "missing" <=> Registered(s)
             /\ s \in removed => \A n \in Name : files[s][n] = "missing"
    BY DEF OneAtATime, NothingIsLeft, RemovedIsGone, Registration, TypeOK, Quiet
  <2>1. Settled(s)
    BY DEF Solo, Busy, Quiet
  <2> QED
    BY <2>1 DEF Settled
<1> QED
  BY <1>1, <1>2, <1>3, HistoryRegistration, PTL DEF MCSpec
=============================================================================
