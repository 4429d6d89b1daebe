------------------------ MODULE RootLifecycleProofs ------------------------
(***************************************************************************)
(* Proofs about RootLifecycle, for any sets of processes, ids and          *)
(* directories, and any number of crashes; what holds of commands one      *)
(* after the other is stated with the scenarios of MCRootLifecycle.        *)
(***************************************************************************)
EXTENDS MCRootLifecycle, TLAPS

USE DEF SaveStep, Step

-----------------------------------------------------------------------------
(* Consistent lists.                                                       *)

\* What is taken from a consistent list is consistent.
LEMMA ConsistentSubset ==
  ASSUME NEW A, NEW S, Consistent(S, A), NEW T \in SUBSET S
  PROVE  Consistent(T, A)
BY DEF Consistent

\* Approving a fresh id leaves a consistent list consistent.
LEMMA ConsistentKept ==
  ASSUME NEW A \in [Roots -> Dirs \cup {None}], NEW S \in SUBSET Entry,
         Consistent(S, A), NEW r \in Roots, NEW d \in Dirs, A[r] = None
  PROVE  Consistent(S, [A EXCEPT ![r] = d]) /\ \A e \in S : e.id # r
<1>1. ASSUME NEW e \in S
      PROVE  e.id # r /\ e.id \in Roots
  BY <1>1, RootLifecycleAssumption DEF Consistent, Entry
<1> QED
  BY <1>1 DEF Consistent

\* A list to which a fresh id with an unlisted directory is added is too.
LEMMA ConsistentAdd ==
  ASSUME NEW A \in [Roots -> Dirs \cup {None}], NEW S \in SUBSET Entry,
         Consistent(S, A), NEW r \in Roots, NEW d \in Dirs, A[r] = None,
         \A e \in S : e.dir # d,
         NEW n \in Entry, n.id = r, n.dir = d
  PROVE  Consistent(S \cup {n}, [A EXCEPT ![r] = d])
<1>1. Consistent(S, [A EXCEPT ![r] = d]) /\ \A e \in S : e.id # r
  BY ConsistentKept
<1>2. [A EXCEPT ![r] = d][r] = d
  OBVIOUS
<1> QED
  BY <1>1, <1>2 DEF Consistent

-----------------------------------------------------------------------------
(* Steps of one process.                                                   *)

\* Nothing is remembered by a process that runs no command.
LEMMA NoJobFacts == NoJob \in Job /\ NoJob.about = None /\ NoJob.save = {} /\ NoJob.todo = {}
BY DEF NoJob, Job

\* A step of k that approves nothing new keeps the invariant if the stores it
\* leaves and what k holds afterwards are good.
LEMMA StepKeeps ==
  ASSUME Approval, NEW k \in Procs,
         UNCHANGED approved,
         torn' \in BOOLEAN, config' \in SUBSET Entry, Consistent(config', approved),
         rows' \in [Roots -> Row], evidence' \in SUBSET Roots,
         faults' \in Nat, removed' \in SUBSET Roots,
         RowsApproved', EvidenceHasRow',
         NEW step \in Step, pc' = [pc EXCEPT ![k] = step],
         NEW j \in Job, job' = [job EXCEPT ![k] = j],
         Consistent(j.save, approved), Consistent(j.todo, approved),
         j.about # None => approved[j.about.id] = j.about.dir,
         step \in {"registering", "deleting", "scanning", "scanned"} \cup SaveStep =>
           j.about # None
  PROVE  Approval'
<1>1. TypeOK'
  BY DEF Approval, TypeOK
<1>2. Consistent(config', approved')
  OBVIOUS
<1>3. JobsApproved'
  BY DEF Approval, TypeOK, JobsApproved, Consistent
<1> QED
  BY <1>1, <1>2, <1>3 DEF Approval

\* The same, when k holds no root afterwards.
LEMMA IdleStepKeeps ==
  ASSUME Approval, NEW k \in Procs,
         UNCHANGED <<file, approved>>,
         rows' \in [Roots -> Row], evidence' \in SUBSET Roots,
         faults' \in Nat, removed' \in SUBSET Roots,
         RowsApproved', EvidenceHasRow',
         NEW step \in {"idle", "indexing"}, pc' = [pc EXCEPT ![k] = step],
         NEW j \in Job, job' = [job EXCEPT ![k] = j], j.about = None,
         Consistent(j.save, approved), Consistent(j.todo, approved)
  PROVE  Approval'
<1>1. /\ torn' \in BOOLEAN
      /\ config' \in SUBSET Entry
      /\ Consistent(config', approved)
      /\ UNCHANGED approved
  BY DEF Approval, TypeOK, file
<1>2. /\ step \in Step
      /\ j.about # None => approved[j.about.id] = j.about.dir
      /\ step \in {"registering", "deleting", "scanning", "scanned"} \cup SaveStep =>
           j.about # None
  OBVIOUS
<1> QED
  BY <1>1, <1>2, StepKeeps

-----------------------------------------------------------------------------
(* Actions.                                                                *)

\* What the invariant says of process k.
LEMMA JobFacts ==
  ASSUME Approval, NEW k \in Procs
  PROVE  /\ job[k] \in Job
         /\ Consistent(job[k].save, approved)
         /\ Consistent(job[k].todo, approved)
         /\ job[k].about # None => approved[job[k].about.id] = job[k].about.dir
         /\ pc[k] \in {"registering", "deleting", "scanning", "scanned"} \cup SaveStep =>
              job[k].about # None
BY DEF Approval, TypeOK, JobsApproved

\* An id with an approved directory that no other row has gets that row.
LEMMA UpsertKeeps ==
  ASSUME Approval, NEW e \in Entry, approved[e.id] = e.dir,
         UpsertRoot(e), UNCHANGED <<evidence, approved>>
  PROVE  rows' \in [Roots -> Row] /\ RowsApproved' /\ EvidenceHasRow'
<1> USE DEF UpsertRoot, PathTaken, Approval, TypeOK, Entry, Row
<1>1. rows' \in [Roots -> Row]
  OBVIOUS
<1>2. RowsApproved'
  BY RootLifecycleAssumption DEF RowsApproved
<1>3. EvidenceHasRow'
  BY RootLifecycleAssumption DEF EvidenceHasRow
<1> QED
  BY <1>1, <1>2, <1>3

\* The owner's edit of an entry keeps its id and directory.
LEMMA ToggleKeeps ==
  ASSUME Approval, NEW e \in config, Toggle(e)
  PROVE  Approval'
<1> USE DEF Toggle, database, histories
<1>1. e \in Entry /\ [e EXCEPT !.enabled = ~ @] \in Entry
  BY DEF Approval, TypeOK, Entry
<1> DEFINE n == [e EXCEPT !.enabled = ~ @]
<1>2. n.id = e.id /\ n.dir = e.dir
  BY <1>1 DEF Entry
<1>3. TypeOK'
  BY <1>1 DEF Approval, TypeOK
<1> HIDE DEF n
<1>4. Consistent(config', approved')
  <2>1. config' = (config \ {e}) \cup {n}
    BY DEF n
  <2> QED
    BY <1>2, <2>1 DEF Approval, Consistent
<1>5. RowsApproved' /\ EvidenceHasRow' /\ JobsApproved'
  BY DEF Approval, RowsApproved, EvidenceHasRow, JobsApproved, Consistent
<1> QED
  BY <1>3, <1>4, <1>5 DEF Approval

\* `root add` approves a fresh id for a directory that is not configured.
LEMMA AddRootKeeps ==
  ASSUME Approval, NEW k \in Procs, NEW d \in Dirs, AddRoot(k, d)
  PROVE  Approval'
<1>0. TypeOK /\ Consistent(config, approved)
  BY DEF Approval
<1>1. PICK r \in Roots :
        LET e == [id |-> r, dir |-> d, enabled |-> TRUE] IN
        /\ approved[r] = None
        /\ approved' = [approved EXCEPT ![r] = d]
        /\ Begin(k, "saving",
                 [about |-> e, verb |-> "add", save |-> config \cup {e}, todo |-> {}])
  BY DEF AddRoot
<1> DEFINE e == [id |-> r, dir |-> d, enabled |-> TRUE]
           j == [about |-> e, verb |-> "add", save |-> config \cup {e}, todo |-> {}]
<1>2. /\ e \in Entry
      /\ j \in Job
      /\ j.about = e
      /\ j.save = config \cup {e}
      /\ j.todo = {}
      /\ e.id = r
      /\ e.dir = d
  <2>1. e \in Entry /\ e.id = r /\ e.dir = d
    BY DEF Entry
  <2> HIDE DEF e
  <2>2. config \cup {e} \in SUBSET Entry
    BY <1>0, <2>1 DEF TypeOK
  <2> QED
    BY <2>1, <2>2 DEF Job
<1>3. /\ pc' = [pc EXCEPT ![k] = "saving"]
      /\ job' = [job EXCEPT ![k] = j]
      /\ UNCHANGED <<torn, config, rows, evidence, faults, removed>>
  BY <1>1 DEF AddRoot, Begin, Goto, file, database
<1> HIDE DEF e, j
<1>4. TypeOK'
  BY <1>0, <1>1, <1>2, <1>3 DEF TypeOK
<1>5. Consistent(config', approved') /\ Consistent(j.save, approved')
  <2>1. /\ \A f \in config : f.dir # d
        /\ config \in SUBSET Entry
        /\ approved \in [Roots -> Dirs \cup {None}]
    BY <1>0 DEF AddRoot, TypeOK
  <2>2. Consistent(config, approved')
    BY <1>0, <1>1, <2>1, ConsistentKept
  <2>3. Consistent(config \cup {e}, approved')
    BY <1>0, <1>1, <1>2, <2>1, ConsistentAdd
  <2> QED
    BY <1>2, <1>3, <2>2, <2>3
<1>6. RowsApproved' /\ EvidenceHasRow'
  BY <1>0, <1>1, <1>3 DEF Approval, RowsApproved, EvidenceHasRow, TypeOK, Row
<1>7. ASSUME NEW l \in Procs, l # k
      PROVE  /\ Consistent(job[l].save, approved')
             /\ Consistent(job[l].todo, approved')
             /\ job[l].about # None => approved'[job[l].about.id] = job[l].about.dir
  <2>1. job[l] \in Job
    BY <1>0 DEF TypeOK
  <2>2. job[l].save \in SUBSET Entry /\ job[l].todo \in SUBSET Entry
    BY <2>1 DEF Job
  <2>3. approved \in [Roots -> Dirs \cup {None}]
    BY <1>0 DEF TypeOK
  <2>4. Consistent(job[l].save, approved') /\ Consistent(job[l].todo, approved')
    BY <1>1, <2>2, <2>3, JobFacts, ConsistentKept
  <2> QED
    BY <1>1, <2>1, <2>3, <2>4, JobFacts, RootLifecycleAssumption DEF Job, Entry
<1>8. JobsApproved'
  <2> SUFFICES ASSUME NEW l \in Procs
      PROVE  /\ Consistent(job'[l].save, approved')
             /\ Consistent(job'[l].todo, approved')
             /\ job'[l].about # None =>
                  approved'[job'[l].about.id] = job'[l].about.dir
             /\ pc'[l] \in {"registering", "deleting", "scanning", "scanned"} \cup SaveStep =>
                  job'[l].about # None
    BY DEF JobsApproved
  <2>1. CASE l = k
    <3>1. job'[l] = j /\ approved'[r] = d /\ e # None
      BY <1>0, <1>1, <1>2, <1>3, <2>1, RootLifecycleAssumption DEF TypeOK, Entry
    <3>2. Consistent({}, approved')
      BY DEF Consistent
    <3> QED
      BY <1>2, <1>5, <3>1, <3>2
  <2>2. CASE l # k
    <3>1. job'[l] = job[l] /\ pc'[l] = pc[l]
      BY <1>0, <1>3, <2>2 DEF TypeOK
    <3> QED
      BY <1>7, <2>2, <3>1, JobFacts
  <2> QED
    BY <2>1, <2>2
<1> QED
  BY <1>4, <1>5, <1>6, <1>8 DEF Approval

\* Stores a step leaves alone are still good.
LEMMA StoresKept ==
  ASSUME Approval, UNCHANGED <<database, approved>>
  PROVE  /\ rows' \in [Roots -> Row]
         /\ evidence' \in SUBSET Roots
         /\ RowsApproved'
         /\ EvidenceHasRow'
BY DEF Approval, TypeOK, RowsApproved, EvidenceHasRow, database

\* `root remove` and `index` begin with a part of the configuration.
LEMMA BeginKeeps ==
  ASSUME Approval, NEW k \in Procs,
         \/ IndexAll(k)
         \/ \E e \in config : RemoveRoot(k, e) \/ IndexOne(k, e)
  PROVE  Approval'
<1>1. TypeOK /\ Consistent(config, approved)
  BY DEF Approval
<1>2. UNCHANGED <<torn, config, database, approved, faults, removed>>
  BY DEF IndexAll, RemoveRoot, IndexOne, file, histories
<1>3. CASE IndexAll(k) \/ \E e \in config : IndexOne(k, e)
  <2>1. PICK S \in SUBSET config :
          Begin(k, "indexing", [about |-> None, verb |-> "index", save |-> {}, todo |-> S])
    BY <1>3 DEF IndexAll, IndexOne
  <2> DEFINE j == [about |-> None, verb |-> "index", save |-> {}, todo |-> S]
  <2>2. /\ j \in Job
        /\ j.about = None
        /\ j.save = {}
        /\ j.todo = S
    BY <1>1 DEF Job, TypeOK
  <2>3. /\ pc' = [pc EXCEPT ![k] = "indexing"]
        /\ job' = [job EXCEPT ![k] = j]
    BY <2>1 DEF Begin, Goto
  <2> HIDE DEF j
  <2>4. Consistent(j.save, approved) /\ Consistent(j.todo, approved)
    BY <1>1, <2>2 DEF Consistent
  <2>5. UNCHANGED <<file, approved>> /\ faults' \in Nat /\ removed' \in SUBSET Roots
    BY <1>1, <1>2 DEF TypeOK, file
  <2> QED
    BY <1>2, <2>2, <2>3, <2>4, <2>5, StoresKept, IdleStepKeeps
<1>4. CASE \E e \in config : RemoveRoot(k, e)
  <2>1. PICK e \in config : RemoveRoot(k, e)
    BY <1>4
  <2> DEFINE j == [about |-> e, verb |-> "remove", save |-> config \ {e}, todo |-> {}]
  <2>2. /\ j \in Job
        /\ j.about = e
        /\ j.save \in SUBSET config
        /\ j.todo = {}
    BY <1>1 DEF Job, TypeOK
  <2>3. /\ pc' = [pc EXCEPT ![k] = "saving"]
        /\ job' = [job EXCEPT ![k] = j]
    BY <2>1 DEF RemoveRoot, Begin, Goto
  <2> HIDE DEF j
  <2>4. Consistent(j.save, approved) /\ Consistent(j.todo, approved)
    BY <1>1, <2>2 DEF Consistent
  <2>5. j.about # None /\ approved[j.about.id] = j.about.dir
    BY <1>1, <2>2, RootLifecycleAssumption DEF TypeOK, Entry, Consistent
  <2> QED
    BY <1>1, <1>2, <2>2, <2>3, <2>4, <2>5, StoresKept, StepKeeps DEF TypeOK
<1> QED
  BY <1>3, <1>4

\* A command that returns holds nothing.
LEMMA ReturnKeeps ==
  ASSUME Approval, NEW k \in Procs, Return(k), UNCHANGED <<file, approved>>,
         faults' \in Nat, removed' \in SUBSET Roots,
         rows' \in [Roots -> Row], evidence' \in SUBSET Roots,
         RowsApproved', EvidenceHasRow'
  PROVE  Approval'
<1>1. Consistent({}, approved)
  BY DEF Consistent
<1>2. pc' = [pc EXCEPT ![k] = "idle"] /\ job' = [job EXCEPT ![k] = NoJob]
  BY DEF Return, Goto
<1> QED
  BY <1>1, <1>2, NoJobFacts, IdleStepKeeps

\* A command goes to its next step with what it holds.
LEMMA GotoKeeps ==
  ASSUME Approval, NEW k \in Procs, NEW step \in Step, Goto(k, step),
         step = "indexing" \/ job[k].about # None,
         UNCHANGED <<job, approved, faults, removed>>,
         torn' \in BOOLEAN, config' \in SUBSET Entry, Consistent(config', approved),
         rows' \in [Roots -> Row], evidence' \in SUBSET Roots,
         RowsApproved', EvidenceHasRow'
  PROVE  Approval'
<1>1. job' = [job EXCEPT ![k] = job[k]]
  BY DEF Approval, TypeOK
<1> QED
  BY <1>1, JobFacts, StepKeeps DEF Goto, Approval, TypeOK

\* What is saved was approved, and so is nothing.
LEMMA SaveKeeps ==
  ASSUME Approval, NEW k \in Procs, Truncate(k) \/ Write(k)
  PROVE  Approval'
<1>1. /\ job[k].about # None
      /\ job[k].save \in SUBSET Entry
      /\ Consistent(job[k].save, approved)
  BY JobFacts DEF Truncate, Write, Job
<1>2. /\ torn' \in BOOLEAN
      /\ config' \in {{}, job[k].save}
      /\ UNCHANGED <<database, job, approved, faults, removed>>
      /\ \E step \in Step : Goto(k, step)
  BY DEF Truncate, Write, histories
<1>3. config' \in SUBSET Entry /\ Consistent(config', approved)
  BY <1>1, <1>2 DEF Consistent
<1> QED
  BY <1>1, <1>2, <1>3, StoresKept, GotoKeeps

\* `root add` writes the row of its own entry.
LEMMA RegisterKeeps ==
  ASSUME Approval, NEW k \in Procs, Register(k) \/ RegisterRefused(k)
  PROVE  Approval'
<1>0. TypeOK
  BY DEF Approval
<1>1. CASE Register(k)
  <2>1. job[k].about \in Entry /\ approved[job[k].about.id] = job[k].about.dir
    BY <1>1, JobFacts DEF Register, Job
  <2> QED
    BY <1>0, <1>1, <2>1, UpsertKeeps, ReturnKeeps DEF Register, TypeOK, histories
<1>2. CASE RegisterRefused(k)
  BY <1>0, <1>2, StoresKept, ReturnKeeps DEF RegisterRefused, TypeOK, histories
<1> QED
  BY <1>1, <1>2

\* `root remove` deletes a row with all that belongs to it.
LEMMA DeleteDerivedKeeps ==
  ASSUME Approval, NEW k \in Procs, DeleteDerived(k)
  PROVE  Approval'
<1> DEFINE r == job[k].about.id
<1>0. TypeOK
  BY DEF Approval
<1>1. r \in Roots
  BY JobFacts DEF DeleteDerived, Job, Entry
<1>2. rows' = [rows EXCEPT ![r] = NoRow] /\ evidence' = evidence \ {r}
  BY DEF DeleteDerived
<1>3. rows' \in [Roots -> Row] /\ evidence' \in SUBSET Roots
  BY <1>0, <1>1, <1>2 DEF TypeOK, NoRow, Row
<1>4. RowsApproved' /\ EvidenceHasRow'
  BY <1>0, <1>1, <1>2, RootLifecycleAssumption
  DEF Approval, RowsApproved, EvidenceHasRow, NoRow, TypeOK, Row, DeleteDerived
<1> QED
  BY <1>0, <1>1, <1>3, <1>4, ReturnKeeps DEF DeleteDerived, TypeOK

\* `index` writes the row of an entry it loaded, or stops.
LEMMA StartRootKeeps ==
  ASSUME Approval, NEW k \in Procs, NEW e \in job[k].todo,
         StartRoot(k, e) \/ StartRootRefused(k, e)
  PROVE  Approval'
<1>0. TypeOK
  BY DEF Approval
<1>1. /\ job[k] \in Job
      /\ e \in Entry
      /\ approved[e.id] = e.dir
  BY JobFacts DEF Job, Consistent
<1>2. CASE StartRoot(k, e)
  <2>1. rows' \in [Roots -> Row] /\ RowsApproved' /\ EvidenceHasRow'
    BY <1>1, <1>2, UpsertKeeps DEF StartRoot, histories
  <2> DEFINE j == [job[k] EXCEPT !.about = e, !.todo = @ \ {e}]
  <2>2. /\ j \in Job
        /\ j.about = e
        /\ j.save = job[k].save
        /\ j.todo = job[k].todo \ {e}
    BY <1>1 DEF Job
  <2>3. job' = [job EXCEPT ![k] = j] /\ pc' = [pc EXCEPT ![k] = "scanning"]
    BY <1>0, <1>2 DEF StartRoot, Goto, TypeOK
  <2> HIDE DEF j
  <2>4. Consistent(j.save, approved) /\ Consistent(j.todo, approved)
    BY <2>2, JobFacts, ConsistentSubset
  <2>5. j.about # None
    BY <1>1, <2>2, RootLifecycleAssumption DEF Entry
  <2>6. UNCHANGED <<torn, config, evidence, faults, approved, removed>>
    BY <1>2 DEF StartRoot, file, histories
  <2> QED
    BY <1>0, <1>1, <2>1, <2>2, <2>3, <2>4, <2>5, <2>6, StepKeeps
    DEF Approval, TypeOK
<1>3. CASE StartRootRefused(k, e)
  BY <1>0, <1>3, StoresKept, ReturnKeeps DEF StartRootRefused, TypeOK, histories
<1> QED
  BY <1>2, <1>3

\* Sources are written for a root that has its row, and for no other.
LEMMA ScanKeeps ==
  ASSUME Approval, NEW k \in Procs, Scan(k)
  PROVE  Approval'
<1>0. TypeOK
  BY DEF Approval
<1>1. job[k].about # None /\ job[k].about.id \in Roots
  BY JobFacts DEF Scan, Job, Entry
<1>2. evidence' \in SUBSET Roots /\ EvidenceHasRow' /\ RowsApproved'
  BY <1>0, <1>1 DEF Scan, Approval, EvidenceHasRow, RowsApproved, TypeOK, histories
<1> QED
  BY <1>0, <1>1, <1>2, GotoKeeps DEF Scan, Approval, TypeOK, file, histories

\* The scan of a root ends, or the whole command does.
LEMMA EndKeeps ==
  ASSUME Approval, NEW k \in Procs, EndRoot(k) \/ EndIndex(k) \/ Crash(k)
  PROVE  Approval'
<1>0. TypeOK
  BY DEF Approval
<1>1. UNCHANGED <<file, database, approved, removed>> /\ faults' \in Nat
  BY <1>0 DEF EndRoot, EndIndex, Crash, Fault, histories, TypeOK
<1>2. CASE Return(k)
  BY <1>0, <1>1, <1>2, StoresKept, ReturnKeeps DEF TypeOK
<1>3. CASE ~ Return(k)
  <2>1. Goto(k, "indexing") /\ job' = [job EXCEPT ![k].about = None]
    BY <1>3 DEF EndRoot, EndIndex, Crash
  <2> DEFINE j == [job[k] EXCEPT !.about = None]
  <2>2. /\ j \in Job
        /\ j.about = None
        /\ j.save = job[k].save
        /\ j.todo = job[k].todo
    BY JobFacts DEF Job
  <2>3. job' = [job EXCEPT ![k] = j]
    BY <1>0, <2>1 DEF TypeOK
  <2> HIDE DEF j
  <2>4. /\ pc' = [pc EXCEPT ![k] = "indexing"]
        /\ removed' \in SUBSET Roots
    BY <1>0, <1>1, <2>1 DEF TypeOK, Goto
  <2> QED
    BY <1>1, <2>2, <2>3, <2>4, JobFacts, StoresKept, IdleStepKeeps
<1> QED
  BY <1>2, <1>3
-----------------------------------------------------------------------------
(* Theorems.                                                               *)

\* The invariant holds of a fresh installation.
LEMMA ApprovalInit == Init => Approval
<1> SUFFICES ASSUME Init PROVE Approval
  OBVIOUS
<1>1. TypeOK
  BY NoJobFacts DEF Init, TypeOK, NoRow, Row
<1>2. Consistent(config, approved) /\ RowsApproved /\ EvidenceHasRow
  BY DEF Init, Consistent, RowsApproved, EvidenceHasRow, NoRow
<1>3. JobsApproved
  BY NoJobFacts DEF Init, JobsApproved, Consistent
<1> QED
  BY <1>1, <1>2, <1>3 DEF Approval

\* A step that changes nothing keeps it.
LEMMA StutterKeeps ==
  ASSUME Approval, UNCHANGED vars
  PROVE  Approval'
BY DEF Approval, TypeOK, RowsApproved, JobsApproved, EvidenceHasRow, Consistent,
       vars, file, database, histories

\* Every step of a command that has begun keeps it.
LEMMA ContinueKeeps ==
  ASSUME Approval, NEW k \in Procs, Continue(k)
  PROVE  Approval'
<1>1. CASE Truncate(k) \/ Write(k)
  BY <1>1, SaveKeeps
<1>2. CASE Register(k) \/ RegisterRefused(k) \/ DeleteDerived(k)
  BY <1>2, RegisterKeeps, DeleteDerivedKeeps
<1>3. CASE \E e \in job[k].todo : StartRoot(k, e) \/ StartRootRefused(k, e)
  BY <1>3, StartRootKeeps
<1>4. CASE Scan(k) \/ EndRoot(k) \/ EndIndex(k)
  BY <1>4, ScanKeeps, EndKeeps
<1> QED
  BY <1>1, <1>2, <1>3, <1>4 DEF Continue

\* Approval is an invariant: with any number of commands at once, and through
\* lost updates, torn files and crashes, nothing is configured, registered or
\* indexed that was not approved under its id, and no directory twice.
THEOREM ApprovalInvariant == Spec => []Approval
<1>1. Init => Approval
  BY ApprovalInit
<1>2. Approval /\ [Next]_vars => Approval'
  BY ToggleKeeps, AddRootKeeps, BeginKeeps, ContinueKeeps, EndKeeps, StutterKeeps
  DEF Next
<1> QED
  BY <1>1, <1>2, PTL DEF Spec

\* No query result comes from a directory that was not approved, and no
\* directory is searched under two ids.
THEOREM SearchIsApprovedOnce == Spec => []SearchedOnce
<1>1. Approval => SearchedOnce
  BY DEF Approval, RowsApproved, EvidenceHasRow, SearchedOnce, Searched, TypeOK
<1> QED
  BY <1>1, ApprovalInvariant, PTL

-----------------------------------------------------------------------------
(* Commands one after the other.                                            *)

\* Root r has the row that the list says.
Matched(list, r) ==
  rows[r].dir # None <=> \E e \in list : e.id = r /\ e.dir = rows[r].dir

\* The configuration has this root, under this id and in this directory.
Known(e) == \E f \in config : f.id = e.id /\ f.dir = e.dir

\* A root whose removal was reported is nowhere.
Gone(r) ==
  /\ approved[r] # None
  /\ r \notin evidence
  /\ rows[r] = NoRow
  /\ \A e \in config : e.id # r

EditStep == SaveStep \cup {"registering", "deleting"}

\* A command between its load and its last statement: the stores differ in the
\* one root it is about, first in what it will save and then in what it saved.
EditHolds(k) ==
  LET r    == job[k].about.id
      list == IF pc[k] \in SaveStep THEN job[k].save ELSE config
  IN
  /\ \A q \in Roots \ {r} : Matched(list, q)
  /\ IF job[k].verb = "add"
       THEN /\ rows[r].dir = None
            /\ r \notin removed
            /\ \E e \in list : e.id = r /\ e.dir = job[k].about.dir
       ELSE \A e \in list : e.id # r
  /\ \A e \in list : e.id \notin removed
  /\ pc[k] = "registering" => job[k].verb = "add"
  /\ pc[k] = "deleting" => job[k].verb # "add"
  /\ pc[k] = "writing" => torn

\* An index run works on roots that are configured.
IndexHolds(k) ==
  /\ \A e \in job[k].todo : Known(e)
  /\ pc[k] \in {"scanning", "scanned"} => Known(job[k].about)

\* One command at a time and no failure: the stores agree but for what the one
\* command is about to do, and removed roots are nowhere.
SoloHolds ==
  solo =>
    /\ faults = 0
    /\ OneCommand
    /\ \A r \in removed : Gone(r)
    /\ \A k \in Procs : pc[k] \in EditStep => EditHolds(k)
    /\ \A k \in Procs : pc[k] \in {"indexing", "scanning", "scanned"} => IndexHolds(k)
    /\ (\A k \in Procs : pc[k] \notin EditStep) => \A r \in Roots : Matched(config, r)

\* What a lone command finds.
LEMMA SoloBefore ==
  ASSUME SoloHolds, solo, OneCommand', NEW k \in Procs,
         pc'[k] # "idle" \/ pc[k] # "idle",
         \A l \in Procs \ {k} : pc'[l] = pc[l]
  PROVE  /\ \A r \in removed : Gone(r)
         /\ pc[k] \in EditStep => EditHolds(k)
         /\ pc[k] \in {"indexing", "scanning", "scanned"} => IndexHolds(k)
         /\ pc[k] \notin EditStep => \A r \in Roots : Matched(config, r)
         /\ \A l \in Procs \ {k} : pc[l] = "idle"
<1>1. \A l \in Procs \ {k} : pc[l] = "idle"
  BY DEF SoloHolds, OneCommand
<1> QED
  BY <1>1 DEF SoloHolds, EditStep

\* What a lone command has to leave.
LEMMA SoloStep ==
  ASSUME SoloHolds, solo, solo', faults' = 0, OneCommand', NEW k \in Procs,
         pc'[k] # "idle" \/ pc[k] # "idle",
         \A l \in Procs \ {k} : pc'[l] = pc[l],
         \A r \in removed' : Gone(r)',
         pc'[k] \in EditStep => EditHolds(k)',
         pc'[k] \in {"indexing", "scanning", "scanned"} => IndexHolds(k)',
         pc'[k] \notin EditStep => \A r \in Roots : Matched(config, r)'
  PROVE  SoloHolds'
<1>1. \A l \in Procs \ {k} : pc'[l] = "idle"
  BY SoloBefore
<1>2. \A l \in Procs : pc'[l] \in EditStep => EditHolds(l)'
  BY <1>1 DEF EditStep
<1>3. \A l \in Procs :
        pc'[l] \in {"indexing", "scanning", "scanned"} => IndexHolds(l)'
  BY <1>1
<1>4. (\A l \in Procs : pc'[l] \notin EditStep) => \A r \in Roots : Matched(config, r)'
  OBVIOUS
<1> QED
  BY <1>2, <1>3, <1>4 DEF SoloHolds

\* The owner's edit leaves ids and directories as they are.
LEMMA ToggleSolo ==
  ASSUME Approval, SoloHolds, NEW e \in config, Toggle(e), solo' = solo,
         solo => OneCommand'
  PROVE  SoloHolds'
<1> SUFFICES ASSUME solo PROVE SoloHolds'
  BY DEF SoloHolds
<1>1. PICK n \in Entry : /\ n.id = e.id
                         /\ n.dir = e.dir
                         /\ config' = (config \ {e}) \cup {n}
  <2>1. e \in Entry
    BY DEF Approval, TypeOK
  <2>2. [e EXCEPT !.enabled = ~ @] \in Entry
    BY <2>1 DEF Entry
  <2>3. /\ [e EXCEPT !.enabled = ~ @].id = e.id
        /\ [e EXCEPT !.enabled = ~ @].dir = e.dir
    BY <2>1 DEF Entry
  <2> QED
    BY <2>2, <2>3 DEF Toggle
<1>2. UNCHANGED <<torn, rows, evidence, pc, job, faults, approved, removed>>
  BY DEF Toggle, database, histories
<1>3. ASSUME NEW r, NEW d
      PROVE  (\E f \in config' : f.id = r /\ f.dir = d) <=>
             (\E f \in config : f.id = r /\ f.dir = d)
  BY <1>1
<1>4. ASSUME NEW r
      PROVE  (\A f \in config' : f.id # r) <=> (\A f \in config : f.id # r)
  BY <1>1
<1>5. ASSUME NEW r \in Roots
      PROVE  /\ Matched(config, r)' <=> Matched(config, r)
             /\ Gone(r)' <=> Gone(r)
  BY <1>2, <1>3, <1>4 DEF Matched, Gone
<1>6. \A r \in removed' : Gone(r)'
  BY <1>2, <1>5 DEF SoloHolds, Approval, TypeOK
<1>7. ASSUME NEW k \in Procs, pc'[k] \in EditStep
      PROVE  EditHolds(k)'
  <2>1. EditHolds(k)
    BY <1>2, <1>7 DEF SoloHolds
  <2>2. CASE pc[k] \in SaveStep
    BY <1>2, <2>1, <2>2 DEF EditHolds, Matched
  <2>3. CASE pc[k] \notin SaveStep
    <3>1. \A f \in config' : f.id \notin removed
      BY <1>1, <2>1, <2>3 DEF EditHolds
    <3>2. \A q \in Roots \ {job[k].about.id} : Matched(config, q)'
      BY <1>5, <2>1, <2>3 DEF EditHolds
    <3>3. IF job[k].verb = "add"
            THEN \E f \in config' : f.id = job[k].about.id /\ f.dir = job[k].about.dir
            ELSE \A f \in config' : f.id # job[k].about.id
      BY <1>3, <1>4, <2>1, <2>3 DEF EditHolds
    <3> QED
      BY <1>2, <2>1, <2>3, <3>1, <3>2, <3>3 DEF EditHolds, Matched
  <2> QED
    BY <2>2, <2>3
<1>8. ASSUME NEW k \in Procs, pc'[k] \in {"indexing", "scanning", "scanned"}
      PROVE  IndexHolds(k)'
  <2>1. IndexHolds(k)
    BY <1>2, <1>8 DEF SoloHolds
  <2> QED
    BY <1>2, <1>3, <2>1 DEF IndexHolds, Known
<1>9. (\A k \in Procs : pc'[k] \notin EditStep) => \A r \in Roots : Matched(config, r)'
  BY <1>2, <1>5 DEF SoloHolds
<1> QED
  BY <1>2, <1>6, <1>7, <1>8, <1>9 DEF SoloHolds

\* `root add` starts from stores that agree, with an id that was never used.
LEMMA AddRootSolo ==
  ASSUME Approval, SoloHolds, solo, solo', faults' = 0, OneCommand',
         NEW k \in Procs, NEW d \in Dirs, AddRoot(k, d)
  PROVE  SoloHolds'
<1>0. TypeOK /\ RowsApproved
  BY DEF Approval
<1>1. PICK r \in Roots, e \in Entry :
        /\ e.id = r
        /\ e.dir = d
        /\ approved[r] = None
        /\ approved' = [approved EXCEPT ![r] = d]
        /\ pc[k] = "idle"
        /\ pc' = [pc EXCEPT ![k] = "saving"]
        /\ job' = [job EXCEPT ![k] = [about |-> e, verb |-> "add",
                                      save |-> config \cup {e}, todo |-> {}]]
  <2>1. PICK r \in Roots :
          LET e == [id |-> r, dir |-> d, enabled |-> TRUE] IN
          /\ approved[r] = None
          /\ approved' = [approved EXCEPT ![r] = d]
          /\ Begin(k, "saving",
                   [about |-> e, verb |-> "add", save |-> config \cup {e}, todo |-> {}])
    BY DEF AddRoot
  <2>2. /\ [id |-> r, dir |-> d, enabled |-> TRUE] \in Entry
        /\ [id |-> r, dir |-> d, enabled |-> TRUE].id = r
        /\ [id |-> r, dir |-> d, enabled |-> TRUE].dir = d
    BY DEF Entry
  <2> QED
    BY <2>1, <2>2 DEF Begin, Goto
<1>2. UNCHANGED <<torn, config, rows, evidence, removed>>
  BY DEF AddRoot, file, database
<1>3. /\ pc'[k] = "saving"
      /\ \A l \in Procs \ {k} : pc'[l] = pc[l]
      /\ job'[k].about = e
      /\ job'[k].verb = "add"
      /\ job'[k].save = config \cup {e}
  BY <1>0, <1>1 DEF TypeOK
<1>4. /\ \A q \in removed : Gone(q)
      /\ \A q \in Roots : Matched(config, q)
  BY <1>1, <1>3, SoloBefore DEF EditStep
<1>5. rows[r].dir = None /\ r \notin removed
  BY <1>0, <1>1, <1>4 DEF RowsApproved, Gone
<1>6. \A q \in removed' : Gone(q)'
  BY <1>0, <1>1, <1>2, <1>4, <1>5 DEF Gone, TypeOK
<1>7. EditHolds(k)'
  <2>1. \A q \in Roots \ {r} : rows[q].dir # None <=>
          \E f \in config \cup {e} : f.id = q /\ f.dir = rows[q].dir
    BY <1>1, <1>4 DEF Matched
  <2>2. \A f \in config \cup {e} : f.id \notin removed
    BY <1>1, <1>4, <1>5 DEF Gone
  <2> QED
    BY <1>1, <1>2, <1>3, <1>5, <2>1, <2>2 DEF EditHolds, Matched
<1> QED
  BY <1>1, <1>3, <1>6, <1>7, SoloStep DEF EditStep

\* `root remove` and `index` start from stores that agree.
LEMMA BeginSolo ==
  ASSUME Approval, SoloHolds, solo, solo', faults' = 0, OneCommand', NEW k \in Procs,
         \/ IndexAll(k)
         \/ \E e \in config : RemoveRoot(k, e) \/ IndexOne(k, e)
  PROVE  SoloHolds'
<1>0. TypeOK /\ Consistent(config, approved)
  BY DEF Approval
<1>1. /\ UNCHANGED <<torn, config, rows, evidence, approved, removed>>
      /\ pc[k] = "idle"
      /\ pc'[k] # "idle"
      /\ \A l \in Procs \ {k} : pc'[l] = pc[l]
  BY <1>0 DEF IndexAll, RemoveRoot, IndexOne, Begin, Goto, file, database, histories, TypeOK
<1>2. /\ \A q \in removed : Gone(q)
      /\ \A q \in Roots : Matched(config, q)
  BY <1>1, SoloBefore DEF EditStep
<1>3. \A q \in removed' : Gone(q)'
  BY <1>1, <1>2 DEF Gone
<1>4. ASSUME NEW e \in config, RemoveRoot(k, e)
      PROVE  SoloHolds'
  <2>1. /\ pc'[k] = "saving"
        /\ job'[k].about = e
        /\ job'[k].verb = "remove"
        /\ job'[k].save = config \ {e}
    BY <1>0, <1>4 DEF RemoveRoot, Begin, Goto, TypeOK
  <2>2. \A f \in config \ {e} : f.id # e.id /\ f.id \notin removed
    BY <1>0, <1>2 DEF Consistent, Gone
  <2>3. \A q \in Roots \ {e.id} : rows[q].dir # None <=>
          \E f \in config \ {e} : f.id = q /\ f.dir = rows[q].dir
    BY <1>2 DEF Matched
  <2>4. EditHolds(k)'
    BY <1>1, <2>1, <2>2, <2>3 DEF EditHolds, Matched
  <2> QED
    BY <1>1, <1>3, <2>1, <2>4, SoloStep DEF EditStep
<1>5. CASE IndexAll(k) \/ \E e \in config : IndexOne(k, e)
  <2>1. pc'[k] = "indexing" /\ job'[k].todo \subseteq config
    BY <1>0, <1>5 DEF IndexAll, IndexOne, Begin, Goto, TypeOK
  <2>2. IndexHolds(k)'
    BY <1>1, <2>1 DEF IndexHolds, Known
  <2>3. \A q \in Roots : Matched(config, q)'
    BY <1>1, <1>2 DEF Matched
  <2> QED
    BY <1>1, <1>3, <2>1, <2>2, <2>3, SoloStep DEF EditStep
<1> QED
  BY <1>4, <1>5

\* A save puts the configuration where the command says, and nothing is lost
\* when nobody else writes the file.
LEMMA SaveSolo ==
  ASSUME Approval, SoloHolds, solo, solo', faults' = 0, OneCommand', NEW k \in Procs,
         Truncate(k) \/ Write(k)
  PROVE  SoloHolds'
<1>0. TypeOK
  BY DEF Approval
<1>1. /\ UNCHANGED <<rows, evidence, job, approved, removed>>
      /\ pc[k] \in SaveStep
      /\ pc'[k] \in {"writing", "registering", "deleting"}
      /\ \A l \in Procs \ {k} : pc'[l] = pc[l]
  BY <1>0 DEF Truncate, Write, Goto, database, histories, TypeOK
<1>2. (\A q \in removed : Gone(q)) /\ EditHolds(k)
  BY <1>1, SoloBefore DEF EditStep
<1>3. CASE Truncate(k)
  <2>1. torn' = TRUE /\ config' = {} /\ pc'[k] = "writing"
    BY <1>0, <1>3 DEF Truncate, Goto, TypeOK
  <2>2. \A q \in removed' : Gone(q)'
    BY <1>1, <1>2, <2>1 DEF Gone
  <2>3. EditHolds(k)'
    BY <1>1, <1>2, <2>1 DEF EditHolds, Matched
  <2> QED
    BY <1>1, <2>1, <2>2, <2>3, SoloStep DEF EditStep
<1>4. CASE Write(k)
  <2>1. pc[k] = "writing" /\ torn
    BY <1>2, <1>4 DEF Write, EditHolds
  <2>2. /\ config' = job[k].save
        /\ pc'[k] = (IF job[k].verb = "add" THEN "registering" ELSE "deleting")
    BY <1>0, <1>4, <2>1 DEF Write, Goto, TypeOK
  <2>3. \A f \in config' : f.id \notin removed
    BY <1>2, <2>1, <2>2 DEF EditHolds
  <2>4. \A q \in removed' : Gone(q)'
    BY <1>1, <1>2, <2>3 DEF Gone
  <2>5. EditHolds(k)'
    BY <1>1, <1>2, <2>1, <2>2 DEF EditHolds, Matched
  <2> QED
    BY <1>1, <2>4, <2>5, SoloStep DEF EditStep
<1> QED
  BY <1>3, <1>4

\* The last statement of `root add` and of `root remove` brings the table into
\* step with the configuration.
LEMMA FinishSolo ==
  ASSUME Approval, SoloHolds, solo, solo', faults' = 0, OneCommand', NEW k \in Procs,
         Register(k) \/ RegisterRefused(k) \/ DeleteDerived(k)
  PROVE  SoloHolds'
<1>0. TypeOK /\ Consistent(config, approved)
  BY DEF Approval
<1>1. PICK e \in Entry : e = job[k].about
  BY JobFacts DEF Register, RegisterRefused, DeleteDerived, Job
<1>2. e.id \in Roots /\ e.dir \in Dirs /\ approved[e.id] = e.dir
  BY <1>1, JobFacts, RootLifecycleAssumption DEF Entry
<1>3. /\ UNCHANGED <<torn, config, approved>>
      /\ pc[k] \in {"registering", "deleting"}
      /\ pc'[k] = "idle"
      /\ \A l \in Procs \ {k} : pc'[l] = pc[l]
  BY <1>0 DEF Register, RegisterRefused, DeleteDerived, Return, Goto, file, histories, TypeOK
<1>4. (\A q \in removed : Gone(q)) /\ EditHolds(k)
  BY <1>3, SoloBefore DEF EditStep
<1>5. /\ \A q \in Roots \ {e.id} : Matched(config, q)
      /\ pc[k] = "registering" => \E f \in config : f.id = e.id /\ f.dir = e.dir
      /\ pc[k] = "registering" => e.id \notin removed
      /\ pc[k] = "deleting" => \A f \in config : f.id # e.id
  BY <1>1, <1>3, <1>4 DEF EditHolds
<1>6. CASE Register(k)
  <2>1. /\ rows' = [rows EXCEPT ![e.id] = [dir |-> e.dir, enabled |-> e.enabled]]
        /\ UNCHANGED <<evidence, removed>>
        /\ pc[k] = "registering"
    BY <1>1, <1>6 DEF Register, UpsertRoot, histories
  <2>2. rows'[e.id].dir = e.dir /\ \A q \in Roots \ {e.id} : rows'[q] = rows[q]
    BY <1>0, <1>2, <2>1 DEF TypeOK
  <2>3. \A q \in removed' : Gone(q)'
    BY <1>0, <1>3, <1>4, <1>5, <2>1, <2>2 DEF Gone, TypeOK
  <2>4. \A q \in Roots : Matched(config, q)'
    BY <1>2, <1>3, <1>5, <2>1, <2>2, RootLifecycleAssumption DEF Matched
  <2> QED
    BY <1>3, <2>3, <2>4, SoloStep DEF EditStep
<1>7. CASE RegisterRefused(k)
  <2>1. PICK q \in Roots : q # e.id /\ rows[q].dir = e.dir
    BY <1>1, <1>7 DEF RegisterRefused, PathTaken
  <2>2. PICK f \in config : f.id = q /\ f.dir = e.dir
    BY <1>2, <1>5, <2>1, RootLifecycleAssumption DEF Matched
  <2>3. PICK g \in config : g.id = e.id /\ g.dir = e.dir
    BY <1>5, <1>7 DEF RegisterRefused
  <2> QED
    BY <1>0, <2>1, <2>2, <2>3 DEF Consistent
<1>8. CASE DeleteDerived(k)
  <2>1. /\ rows' = [rows EXCEPT ![e.id] = NoRow]
        /\ evidence' = evidence \ {e.id}
        /\ removed' = removed \cup {e.id}
        /\ pc[k] = "deleting"
    BY <1>1, <1>8 DEF DeleteDerived
  <2>2. rows'[e.id] = NoRow /\ \A q \in Roots \ {e.id} : rows'[q] = rows[q]
    BY <1>0, <1>2, <2>1 DEF TypeOK
  <2>3. \A q \in removed' : Gone(q)'
    BY <1>0, <1>2, <1>3, <1>4, <1>5, <2>1, <2>2, RootLifecycleAssumption DEF Gone, TypeOK
  <2>4. \A q \in Roots : Matched(config, q)'
    BY <1>2, <1>3, <1>5, <2>1, <2>2 DEF Matched, NoRow
  <2> QED
    BY <1>3, <2>3, <2>4, SoloStep DEF EditStep
<1> QED
  BY <1>6, <1>7, <1>8

\* An index run writes the rows that are there already, and evidence of roots
\* that are configured.
LEMMA IndexSolo ==
  ASSUME Approval, SoloHolds, solo, solo', faults' = 0, OneCommand', NEW k \in Procs,
         \/ \E e \in job[k].todo : StartRoot(k, e) \/ StartRootRefused(k, e)
         \/ Scan(k)
         \/ EndRoot(k)
         \/ EndIndex(k)
  PROVE  SoloHolds'
<1>0. TypeOK /\ Consistent(config, approved)
  BY DEF Approval
<1>1. /\ UNCHANGED <<torn, config, approved, removed>>
      /\ pc[k] \in {"indexing", "scanning", "scanned"}
      /\ \A l \in Procs \ {k} : pc'[l] = pc[l]
  BY <1>0 DEF StartRoot, StartRootRefused, Scan, EndRoot, EndIndex, Return, Goto,
              file, histories, TypeOK
<1>2. /\ \A q \in removed : Gone(q)
      /\ IndexHolds(k)
      /\ \A q \in Roots : Matched(config, q)
  BY <1>1, SoloBefore DEF EditStep
<1>3. ASSUME NEW e \in job[k].todo, StartRoot(k, e)
      PROVE  SoloHolds'
  <2>1. PICK f \in config : f.id = e.id /\ f.dir = e.dir
    BY <1>1, <1>2 DEF IndexHolds, Known
  <2>2. e \in Entry /\ e.id \in Roots /\ e.dir \in Dirs
    BY JobFacts DEF Job, Entry
  <2>3. /\ rows' = [rows EXCEPT ![e.id] = [dir |-> e.dir, enabled |-> e.enabled]]
        /\ evidence' = evidence
        /\ pc'[k] = "scanning"
        /\ job'[k].about = e
        /\ job'[k].todo \subseteq job[k].todo
    <3>1. job'[k] = [job[k] EXCEPT !.about = e, !.todo = @ \ {e}]
      BY <1>0, <1>3 DEF StartRoot, TypeOK
    <3>2. job'[k].about = e /\ job'[k].todo = job[k].todo \ {e}
      BY <3>1, JobFacts DEF Job
    <3> QED
      BY <1>0, <1>3, <3>2 DEF StartRoot, UpsertRoot, Goto, TypeOK, histories
  <2>4. rows'[e.id].dir = e.dir /\ \A q \in Roots \ {e.id} : rows'[q] = rows[q]
    BY <1>0, <2>2, <2>3 DEF TypeOK
  <2>5. \A q \in removed' : Gone(q)'
    BY <1>0, <1>1, <1>2, <2>1, <2>3, <2>4 DEF Gone, TypeOK
  <2>6. \A q \in Roots : Matched(config, q)'
    BY <1>1, <1>2, <2>1, <2>2, <2>4, RootLifecycleAssumption DEF Matched
  <2>7. IndexHolds(k)'
    BY <1>1, <1>2, <2>1, <2>3 DEF IndexHolds, Known
  <2> QED
    BY <1>1, <2>3, <2>5, <2>6, <2>7, SoloStep DEF EditStep
<1>4. CASE Scan(k)
  <2>1. PICK f \in config : f.id = job[k].about.id
    BY <1>2, <1>4 DEF Scan, IndexHolds, Known
  <2>2. /\ evidence' \subseteq evidence \cup {job[k].about.id}
        /\ UNCHANGED <<rows, job>>
        /\ pc'[k] = "scanned"
    BY <1>0, <1>4 DEF Scan, Goto, TypeOK
  <2>3. \A q \in removed' : Gone(q)'
    BY <1>1, <1>2, <2>1, <2>2 DEF Gone
  <2>4. IndexHolds(k)'
    BY <1>1, <1>2, <1>4, <2>2 DEF IndexHolds, Known, Scan
  <2>5. \A q \in Roots : Matched(config, q)'
    BY <1>1, <1>2, <2>2 DEF Matched
  <2> QED
    BY <1>1, <2>2, <2>3, <2>4, <2>5, SoloStep DEF EditStep
<1>5. CASE EndRoot(k) \/ EndIndex(k) \/ \E e \in job[k].todo : StartRootRefused(k, e)
  <2>1. /\ UNCHANGED <<rows, evidence>>
        /\ \/ pc'[k] = "idle"
           \/ pc'[k] = "indexing" /\ job'[k].todo = job[k].todo
    <3>1. CASE Return(k)
      BY <1>0, <1>5, <3>1 DEF StartRootRefused, EndRoot, EndIndex, Return, Goto, database, TypeOK
    <3>2. CASE ~ Return(k)
      <4>1. Goto(k, "indexing") /\ job' = [job EXCEPT ![k].about = None]
        BY <1>5, <3>2 DEF StartRootRefused, EndRoot, EndIndex
      <4>2. job'[k] = [job[k] EXCEPT !.about = None]
        BY <1>0, <4>1 DEF TypeOK
      <4>3. job'[k].todo = job[k].todo
        BY <4>2, JobFacts DEF Job
      <4> QED
        BY <1>0, <1>5, <4>1, <4>3
        DEF StartRootRefused, EndRoot, EndIndex, Goto, database, TypeOK
    <3> QED
      BY <3>1, <3>2
  <2>2. \A q \in removed' : Gone(q)'
    BY <1>1, <1>2, <2>1 DEF Gone
  <2>3. pc'[k] = "indexing" => IndexHolds(k)'
    BY <1>1, <1>2, <2>1 DEF IndexHolds, Known
  <2>4. \A q \in Roots : Matched(config, q)'
    BY <1>1, <1>2, <2>1 DEF Matched
  <2> QED
    BY <1>1, <2>1, <2>2, <2>3, <2>4, SoloStep DEF EditStep
<1> QED
  BY <1>3, <1>4, <1>5

\* Every step keeps it.
LEMMA SoloNext ==
  ASSUME Approval, SoloHolds, MCNext
  PROVE  SoloHolds'
<1> SUFFICES ASSUME solo PROVE SoloHolds'
  BY DEF MCNext, SoloHolds
<1>1. solo' /\ solo' = solo /\ faults' = 0 /\ OneCommand' /\ Next
  BY DEF MCNext
<1>2. ASSUME NEW e \in config, Toggle(e)
      PROVE  SoloHolds'
  BY <1>1, <1>2, ToggleSolo
<1>3. ASSUME NEW k \in Procs,
             \/ \E d \in Dirs : AddRoot(k, d)
             \/ \E e \in config : RemoveRoot(k, e) \/ IndexOne(k, e)
             \/ IndexAll(k)
      PROVE  SoloHolds'
  BY <1>1, <1>3, AddRootSolo, BeginSolo
<1>4. ASSUME NEW k \in Procs, Continue(k)
      PROVE  SoloHolds'
  BY <1>1, <1>4, SaveSolo, FinishSolo, IndexSolo DEF Continue
<1>5. ASSUME NEW k \in Procs, Crash(k)
      PROVE  SoloHolds'
  BY <1>1, <1>5 DEF Crash, Fault, SoloHolds
<1> QED
  BY <1>1, <1>2, <1>3, <1>4, <1>5 DEF Next

\* A behaviour with its scenario is a behaviour.
LEMMA ScenarioApproval == MCSpec => []Approval
<1>1. MCInit => Init
  BY DEF MCInit
<1>2. [MCNext]_<<vars, solo>> => [Next]_vars
  BY DEF MCNext
<1> QED
  BY <1>1, <1>2, ApprovalInvariant, PTL DEF MCSpec, Spec

\* The stores agree in every scenario of commands one after the other.
LEMMA SoloInvariant == MCSpec => []SoloHolds
<1>1. MCInit => SoloHolds
  <2> SUFFICES ASSUME MCInit, solo PROVE SoloHolds
    BY DEF SoloHolds
  <2>1. OneCommand
    BY DEF MCInit, Init, OneCommand
  <2> QED
    BY <2>1 DEF MCInit, Init, SoloHolds, EditStep, Matched, NoRow
<1>2. Approval /\ SoloHolds /\ [MCNext]_<<vars, solo>> => SoloHolds'
  <2>1. ASSUME SoloHolds, UNCHANGED <<vars, solo>>
        PROVE  SoloHolds'
    <3>1. UNCHANGED <<torn, config, rows, evidence, pc, job, faults, approved, removed, solo>>
      BY <2>1 DEF vars, file, database, histories
    <3> QED
      BY <2>1, <3>1
      DEF SoloHolds, OneCommand, Gone, EditHolds, IndexHolds, Known, Matched
  <2> QED
    BY <2>1, SoloNext
<1> QED
  BY <1>1, <1>2, ScenarioApproval, PTL DEF MCSpec

\* Commands one after the other leave the configuration file and the roots
\* table with the same roots in the same directories (cmd_root_add,
\* cmd_root_remove and index_roots_with_options).
THEOREM SoloStoresMatch == MCSpec => []SoloStoresAgree
<1>1. SoloHolds => SoloStoresAgree
  BY DEF SoloHolds, SoloStoresAgree, StoresAgree, Quiet, Matched, EditStep
<1> QED
  BY <1>1, SoloInvariant, PTL

\* Commands one after the other never bring a removed root back.
THEOREM SoloRemovalIsFinal == MCSpec => []SoloRemovedStaysOut
<1>1. SoloHolds => SoloRemovedStaysOut
  BY DEF SoloHolds, SoloRemovedStaysOut, RemovedStaysOut, Gone
<1> QED
  BY <1>1, SoloInvariant, PTL
=============================================================================
