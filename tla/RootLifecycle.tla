---------------------------- MODULE RootLifecycle ----------------------------
(***************************************************************************)
(* Approved roots: `omnisem root add`, `root remove` and `index` (main.rs) *)
(* over the configuration file (config.rs) and the roots table with what   *)
(* is derived from it (storage.rs).  The file and the database are two     *)
(* stores: every command reads the file once, at its start, and no lock    *)
(* keeps two commands apart.                                               *)
(*                                                                         *)
(* AppConfig::save empties the file and then writes it, and every SQLite   *)
(* statement or transaction is one step.  Names are left out: they are     *)
(* checked like directories, in the same places.                           *)
(***************************************************************************)
EXTENDS Naturals, FiniteSets

CONSTANTS
  Procs,      \* command-line processes
  Roots,      \* values RootId::new may return
  Dirs,       \* canonical paths of directories
  None,       \* no row, and "no value yet" in a process
  MaxFaults   \* bound: crashes and failed statements

ASSUME RootLifecycleAssumption ==
  /\ None \notin Dirs
  /\ None \notin [id : Roots, dir : Dirs, enabled : BOOLEAN]
  /\ MaxFaults \in Nat

VARIABLES
  torn,       \* the configuration file does not parse
  config,     \* its entries; none while it is torn
  rows,       \* the roots table, by id
  evidence,   \* roots that have active sources and FTS rows
  pc,         \* where each process is in its command
  job,        \* locals of the command
  faults,     \* crashes and failed statements so far
  approved,   \* history: the directory each id was approved for
  removed     \* history: ids whose removal was reported as done

file == <<torn, config>>
database == <<rows, evidence>>
histories == <<approved, removed>>
vars == <<file, database, pc, job, faults, histories>>
-----------------------------------------------------------------------------
\* RootConfig, and the row upsert_root makes of it.
Entry == [id : Roots, dir : Dirs, enabled : BOOLEAN]

Row == [dir : Dirs \cup {None}, enabled : BOOLEAN]
NoRow == [dir |-> None, enabled |-> FALSE]

SaveStep == {"saving", "writing"}
Step == {"idle", "registering", "deleting", "indexing", "scanning", "scanned"}
          \cup SaveStep

\* What a command has in memory: the root it is about, the configuration it
\* will save, and the roots it has still to index.
Job == [about : Entry \cup {None},
        verb  : {"add", "remove", "index", "none"},
        save  : SUBSET Entry,
        todo  : SUBSET Entry]

NoJob == [about |-> None, verb |-> "none", save |-> {}, todo |-> {}]

\* What a query finds: the join of search_fts with roots.enabled = 1. A query
\* loads the configuration, but takes from it nothing about local roots.
Searched ==
  IF torn THEN {} ELSE {r \in evidence : rows[r].dir # None /\ rows[r].enabled}

\* UNIQUE(canonical_path) refuses the row of e.
PathTaken(e) == \E r \in Roots : r # e.id /\ rows[r].dir = e.dir
-----------------------------------------------------------------------------
Init ==
  /\ torn = FALSE
  /\ config = {}
  /\ rows = [r \in Roots |-> NoRow]
  /\ evidence = {}
  /\ pc = [k \in Procs |-> "idle"]
  /\ job = [k \in Procs |-> NoJob]
  /\ faults = 0
  /\ approved = [r \in Roots |-> None]
  /\ removed = {}

Goto(k, step) == pc' = [pc EXCEPT ![k] = step]

\* The command returns, with or without an error.
Return(k) == Goto(k, "idle") /\ job' = [job EXCEPT ![k] = NoJob]

\* The command has loaded a configuration that parses.
Begin(k, step, locals) ==
  /\ pc[k] = "idle"
  /\ ~ torn
  /\ Goto(k, step)
  /\ job' = [job EXCEPT ![k] = locals]

Fault == faults < MaxFaults /\ faults' = faults + 1

\* The owner edits `enabled` of an entry by hand.
Toggle(e) ==
  /\ e \in config
  /\ config' = (config \ {e}) \cup {[e EXCEPT !.enabled = ~ @]}
  /\ UNCHANGED <<torn, database, pc, job, faults, histories>>
-----------------------------------------------------------------------------
(* cmd_root_add and cmd_root_remove.                                       *)

\* Mutant: the directory may be one that is configured.
MutantAddRoot(k, d) ==
  \E r \in Roots :
    LET e == [id |-> r, dir |-> d, enabled |-> TRUE] IN
    /\ approved[r] = None
    /\ approved' = [approved EXCEPT ![r] = d]
    /\ Begin(k, "saving", [about |-> e, verb |-> "add", save |-> config \cup {e}, todo |-> {}])
    /\ UNCHANGED <<file, database, faults, removed>>

\* add_root: the directory is not configured yet; its id is fresh.
AddRoot(k, d) ==
  /\ \A e \in config : e.dir # d
  /\ \E r \in Roots :
       LET e == [id |-> r, dir |-> d, enabled |-> TRUE] IN
       /\ approved[r] = None
       /\ approved' = [approved EXCEPT ![r] = d]
       /\ Begin(k, "saving",
                [about |-> e, verb |-> "add", save |-> config \cup {e}, todo |-> {}])
  /\ UNCHANGED <<file, database, faults, removed>>

\* remove_root: an id that is configured.
RemoveRoot(k, e) ==
  /\ e \in config
  /\ Begin(k, "saving",
           [about |-> e, verb |-> "remove", save |-> config \ {e}, todo |-> {}])
  /\ UNCHANGED <<file, database, faults, histories>>

\* AppConfig::save: fs::write opens the file, which empties it ...
Truncate(k) ==
  /\ pc[k] = "saving"
  /\ torn' = TRUE
  /\ config' = {}
  /\ Goto(k, "writing")
  /\ UNCHANGED <<database, job, faults, histories>>

\* ... and writes it. When another command has written since, the longer of
\* the two texts may stick out.
Write(k) ==
  /\ pc[k] = "writing"
  /\ torn' \in IF torn THEN {FALSE} ELSE BOOLEAN
  /\ config' = IF torn' THEN {} ELSE job[k].save
  /\ Goto(k, IF job[k].verb = "add" THEN "registering" ELSE "deleting")
  /\ UNCHANGED <<database, job, faults, histories>>

\* Mutant: a row with the same directory does not refuse the new one.
MutantUpsertRoot(e) ==
  rows' = [rows EXCEPT ![e.id] = [dir |-> e.dir, enabled |-> e.enabled]]

\* upsert_root
UpsertRoot(e) ==
  /\ ~ PathTaken(e)
  /\ rows' = [rows EXCEPT ![e.id] = [dir |-> e.dir, enabled |-> e.enabled]]

\* The last step of `root add`.
Register(k) ==
  /\ pc[k] = "registering"
  /\ UpsertRoot(job[k].about)
  /\ Return(k)
  /\ UNCHANGED <<file, evidence, faults, histories>>

\* The statement is refused; the configuration has been saved all the same.
RegisterRefused(k) ==
  /\ pc[k] = "registering"
  /\ PathTaken(job[k].about)
  /\ Return(k)
  /\ UNCHANGED <<file, database, faults, histories>>

\* Mutant: the sources and FTS rows stay.
MutantDeleteDerived(k) ==
  LET r == job[k].about.id IN
  /\ pc[k] = "deleting"
  /\ rows' = [rows EXCEPT ![r] = NoRow]
  /\ removed' = removed \cup {r}
  /\ Return(k)
  /\ UNCHANGED <<file, evidence, faults, approved>>

\* Mutant: the row of the root stays.
MutantKeepRow(k) ==
  LET r == job[k].about.id IN
  /\ pc[k] = "deleting"
  /\ evidence' = evidence \ {r}
  /\ removed' = removed \cup {r}
  /\ Return(k)
  /\ UNCHANGED <<file, rows, faults, approved>>

\* The last step of `root remove`: delete_root_derived commits.
DeleteDerived(k) ==
  LET r == job[k].about.id IN
  /\ pc[k] = "deleting"
  /\ rows' = [rows EXCEPT ![r] = NoRow]
  /\ evidence' = evidence \ {r}
  /\ removed' = removed \cup {r}
  /\ Return(k)
  /\ UNCHANGED <<file, faults, approved>>
-----------------------------------------------------------------------------
(* cmd_index: index_roots_with_options.                                    *)

\* Mutant: one enabled root is taken, the others are left.
MutantIndexAll(k) ==
  /\ {e \in config : e.enabled} # {}
  /\ \E e \in {f \in config : f.enabled} :
       Begin(k, "indexing", [about |-> None, verb |-> "index", save |-> {}, todo |-> {e}])
  /\ UNCHANGED <<file, database, faults, histories>>

\* All enabled roots; with none there is nothing to do.
IndexAll(k) ==
  /\ {e \in config : e.enabled} # {}
  /\ Begin(k, "indexing", [about |-> None, verb |-> "index", save |-> {},
                           todo |-> {e \in config : e.enabled}])
  /\ UNCHANGED <<file, database, faults, histories>>

\* --root: one root, enabled or not.
IndexOne(k, e) ==
  /\ e \in config
  /\ Begin(k, "indexing", [about |-> None, verb |-> "index", save |-> {}, todo |-> {e}])
  /\ UNCHANGED <<file, database, faults, histories>>

\* The next root: its row is written from the configuration in memory.
StartRoot(k, e) ==
  /\ pc[k] = "indexing"
  /\ e \in job[k].todo
  /\ UpsertRoot(e)
  /\ job' = [job EXCEPT ![k].about = e, ![k].todo = @ \ {e}]
  /\ Goto(k, "scanning")
  /\ UNCHANGED <<file, evidence, faults, histories>>

\* A refused row ends the command, with the roots after it undone.
StartRootRefused(k, e) ==
  /\ pc[k] = "indexing"
  /\ e \in job[k].todo
  /\ PathTaken(e)
  /\ Return(k)
  /\ UNCHANGED <<file, database, faults, histories>>

\* The documents of the root, whose sources refer to its row: without it
\* every document fails.
Scan(k) ==
  LET r == job[k].about.id IN
  /\ pc[k] = "scanning"
  /\ evidence' = IF rows[r].dir = None THEN evidence ELSE evidence \cup {r}
  /\ Goto(k, "scanned")
  /\ UNCHANGED <<file, rows, job, faults, histories>>

\* insert_scan_run refers to the row as well.
EndRoot(k) ==
  /\ pc[k] = "scanned"
  /\ IF rows[job[k].about.id].dir = None
       THEN Return(k)
       ELSE Goto(k, "indexing") /\ job' = [job EXCEPT ![k].about = None]
  /\ UNCHANGED <<file, database, faults, histories>>

EndIndex(k) ==
  /\ pc[k] = "indexing"
  /\ job[k].todo = {}
  /\ Return(k)
  /\ UNCHANGED <<file, database, faults, histories>>

\* The process dies between two steps, or a statement fails and the command
\* returns its error.
Crash(k) ==
  /\ pc[k] # "idle"
  /\ Fault
  /\ Return(k)
  /\ UNCHANGED <<file, database, histories>>
-----------------------------------------------------------------------------
\* What a command does once it has begun, faults aside.
Continue(k) ==
  \/ Truncate(k)
  \/ Write(k)
  \/ Register(k)
  \/ RegisterRefused(k)
  \/ DeleteDerived(k)
  \/ \E e \in job[k].todo : StartRoot(k, e)
  \/ \E e \in job[k].todo : StartRootRefused(k, e)
  \/ Scan(k)
  \/ EndRoot(k)
  \/ EndIndex(k)

Next ==
  \/ \E e \in config : Toggle(e)
  \/ \E k \in Procs :
       \/ \E d \in Dirs : AddRoot(k, d)
       \/ \E e \in config : RemoveRoot(k, e) \/ IndexOne(k, e)
       \/ IndexAll(k)
       \/ Continue(k)
       \/ Crash(k)

Spec == Init /\ [][Next]_vars

\* Somebody keeps running `omnisem index`, and a command that runs goes on.
Fairness == \A k \in Procs : WF_vars(Continue(k)) /\ SF_vars(IndexAll(k))
-----------------------------------------------------------------------------
(* Properties                                                              *)

TypeOK ==
  /\ torn \in BOOLEAN
  /\ config \subseteq Entry
  /\ rows \in [Roots -> Row]
  /\ evidence \subseteq Roots
  /\ pc \in [Procs -> Step]
  /\ job \in [Procs -> Job]
  /\ faults \in Nat
  /\ approved \in [Roots -> Dirs \cup {None}]
  /\ removed \subseteq Roots

\* A list of entries the owner approved, no id and no directory twice.
Consistent(entries, approvals) ==
  /\ \A e \in entries : approvals[e.id] = e.dir
  /\ \A e, f \in entries : e.id = f.id \/ e.dir = f.dir => e = f

\* Every row is for the directory its id was approved for, and no directory
\* has two rows.
RowsApproved ==
  /\ \A r \in Roots : rows[r].dir \in {None, approved[r]}
  /\ \A q, r \in Roots : rows[q].dir = rows[r].dir /\ rows[q].dir # None => q = r

\* What a command will save or index is consistent too.
JobsApproved ==
  \A k \in Procs :
    /\ Consistent(job[k].save, approved)
    /\ Consistent(job[k].todo, approved)
    /\ job[k].about # None => approved[job[k].about.id] = job[k].about.dir
    /\ pc[k] \in {"registering", "deleting", "scanning", "scanned"} \cup SaveStep =>
         job[k].about # None

\* Sources belong to a row.
EvidenceHasRow == \A r \in evidence : rows[r].dir # None

\* The inductive invariant, for any number of commands at once: through lost
\* updates, torn files and crashes, nothing is configured, registered or
\* indexed that the owner did not approve, and nothing twice.
Approval ==
  /\ TypeOK
  /\ Consistent(config, approved)
  /\ RowsApproved
  /\ JobsApproved
  /\ EvidenceHasRow

\* No result comes from a directory that was not approved under that id, and
\* no directory is searched twice.
SearchedOnce ==
  /\ \A r \in Searched : approved[r] # None
  /\ \A q, r \in Searched : approved[q] = approved[r] => q = r

Quiet == \A k \in Procs : pc[k] = "idle"

\* "Removes the root from configuration and transactionally deletes derived
\* database rows" (cli.md), "approved roots only" (architecture.md): between
\* commands, what is searched is in the configuration.
SearchedIsApproved == Quiet => Searched \subseteq {e.id : e \in config}

\* One command at a time and no failure: between commands every configured root
\* has its row, and every row is configured.
StoresAgree ==
  Quiet => \A r \in Roots :
    rows[r].dir # None <=> \E e \in config : e.id = r /\ e.dir = rows[r].dir

\* A removed root is not configured, registered or searched again.
RemovedStaysOut ==
  \A r \in removed :
    /\ r \notin evidence
    /\ rows[r] = NoRow
    /\ \A e \in config : e.id # r

Enabled(r) == \E e \in config : e.id = r /\ e.enabled

\* A root that stays enabled in the configuration comes to be searched.
EnabledIsSearched ==
  \A r \in Roots : <>[]Enabled(r) => <>[](r \in Searched)
=============================================================================
