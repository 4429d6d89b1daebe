--------------------------- MODULE GitIncremental ---------------------------
(***************************************************************************)
(* `omnisem index [--since [REV]]` on a root inside a git work tree:       *)
(* index_roots_with_options and index_one_root_maybe_incremental           *)
(* (index.rs), detect_git_root and collect_changes (git.rs), and the       *)
(* root_git_state table (storage.rs).                                      *)
(*                                                                         *)
(* One indexer process and the owner of the repository, who edits, stages, *)
(* commits and checks out between any two of its steps.  Each git process  *)
(* the indexer starts is one step, and so is each document: SourceIndex    *)
(* has the statements inside process_document, and the walk.               *)
(***************************************************************************)
EXTENDS Naturals, Sequences

CONSTANTS
  Paths,         \* root-relative paths
  Contents,      \* file contents, told apart by their hash
  Malformed,     \* contents the parser rejects
  Oversized,     \* contents validate_relative_path refuses
  Absent,        \* no file, no entry in a tree, nothing served
  Subdirectory,  \* the root lies below the top of its work tree
  MaxCommits,    \* bound: commits
  MaxEdits,      \* bound: steps of the owner
  MaxFaults      \* bound: crashes and failed git processes or documents

ASSUME GitIncrementalAssumption ==
  /\ Absent \notin Contents
  /\ Malformed \subseteq Contents
  /\ Oversized \subseteq Contents
  /\ Subdirectory \in BOOLEAN
  /\ MaxCommits \in Nat \ {0}
  /\ MaxEdits \in Nat
  /\ MaxFaults \in Nat

VARIABLES
  worktree,  \* the file at each path
  tracked,   \* paths with an entry in git's index
  commits,   \* the tree of every commit, in order of creation
  head,      \* the commit HEAD names
  served,    \* text of the current revision of the active source of a path
  had,       \* contents of a path with a row in revisions
  base,      \* root_git_state.last_indexed_commit; 0 is NULL
  pc,        \* where the process is
  scan,      \* its locals
  edits,     \* steps of the owner so far
  faults,    \* faults so far
  dirtied,   \* history: paths not clean at some moment of this scan
  risky      \* history: paths whose index may be out of step with base

repository == <<worktree, tracked, commits, head>>
index == <<served, had>>
vars == <<repository, index, base, pc, scan, edits, faults, dirtied, risky>>
-----------------------------------------------------------------------------
File == Contents \cup {Absent}

Tree == [Paths -> File]

Kind == {"Added", "Deleted", "Modified"}

\* The order of kinds in dedupe_changes: by the names of the variants.
Earlier(kind) ==
  CASE kind = "Added"    -> {}
    [] kind = "Deleted"  -> {"Added"}
    [] kind = "Modified" -> {"Added", "Deleted"}

\* head: ctx.head; from: the resolved base, 0 for none; late: the head to
\* record is read when the scan is over; record: it is recorded at all.
Scan == [head : Nat, from : Nat, late : BOOLEAN, record : BOOLEAN,
         changes : SUBSET (Paths \X Kind), visits : SUBSET Paths,
         failed : BOOLEAN]

NoScan == [head |-> 0, from |-> 0, late |-> FALSE, record |-> FALSE,
           changes |-> {}, visits |-> {}, failed |-> FALSE]

Step == {"idle", "diff", "dirty", "untracked", "changes", "full"}

\* No tree at all has no entry at any path.
TreeOf(commit) == IF commit = 0 THEN [p \in Paths |-> Absent] ELSE commits[commit]

\* What discovery offers of a file: validate_relative_path and the walk.
Eligible(c) == IF c \in Oversized THEN Absent ELSE c

\* process_document fails on this content: the parser rejects it, or the
\* UNIQUE key of revisions refuses a second row for it.
Refused(p) ==
  /\ Eligible(worktree[p]) # Absent
  /\ worktree[p] # served[p]
  /\ worktree[p] \in Malformed \cup had[p]

\* `git status` has nothing to say of p.
Clean(p) ==
  /\ worktree[p] = TreeOf(head)[p]
  /\ p \in tracked <=> TreeOf(head)[p] # Absent

\* Mutant: what is deleted from the work tree is not listed.
MutantDiff(tree) ==
  {<<p, "Added">> : p \in {q \in tracked : tree[q] = Absent /\ worktree[q] # Absent}}
  \cup
  {<<p, "Modified">> : p \in {q \in tracked : tree[q] # Absent
                                           /\ worktree[q] \notin {Absent, tree[q]}}}

\* `git diff --name-status tree`, through parse_name_status_z: git compares
\* the work tree, for the paths in its index, with the tree. A rename is
\* listed as the deletion of one path and the addition of the other.
Diff(tree) ==
  {<<p, "Deleted">> : p \in {q \in Paths : /\ tree[q] # Absent
                                           /\ q \notin tracked \/ worktree[q] = Absent}}
  \cup
  {<<p, "Added">> : p \in {q \in tracked : tree[q] = Absent /\ worktree[q] # Absent}}
  \cup
  {<<p, "Modified">> : p \in {q \in tracked : tree[q] # Absent
                                           /\ worktree[q] \notin {Absent, tree[q]}}}

\* `git ls-files --others`, through map_repo_path_to_root: the command prints
\* paths relative to the root, and below the top of the work tree the prefix
\* map_repo_path_to_root takes off is not there, so the path is dropped.
Untracked ==
  IF Subdirectory
    THEN {}
    ELSE {<<p, "Added">> : p \in {q \in Paths \ tracked : worktree[q] # Absent}}

\* What collect_changes would list of the base `commit` if HEAD were `now`.
Changes(commit, now) ==
  Diff(TreeOf(commit)) \cup Untracked \cup (IF commit = now THEN {} ELSE Diff(TreeOf(now)))
-----------------------------------------------------------------------------
\* A repository with one commit, checked out; the root was never indexed.
Init ==
  /\ worktree \in Tree
  /\ tracked = {p \in Paths : worktree[p] # Absent}
  /\ commits = <<worktree>>
  /\ head = 1
  /\ served = [p \in Paths |-> Absent]
  /\ had = [p \in Paths |-> {}]
  /\ base = 0
  /\ pc = "idle"
  /\ scan = NoScan
  /\ edits = 0
  /\ faults = 0
  /\ dirtied = {}
  /\ risky = {}
-----------------------------------------------------------------------------
(* The owner.                                                              *)

\* A path touched or left unclean while a scan runs.
Touch ==
  dirtied' = IF pc = "idle"
               THEN {}
               ELSE dirtied \cup {p \in Paths : worktree'[p] # worktree[p] \/ ~ Clean(p)'}

Owner ==
  /\ edits < MaxEdits
  /\ edits' = edits + 1
  /\ Touch
  /\ UNCHANGED <<index, base, pc, scan, faults, risky>>

Write(p, c) ==
  /\ worktree[p] # c
  /\ worktree' = [worktree EXCEPT ![p] = c]
  /\ UNCHANGED <<tracked, commits, head>>
  /\ Owner

\* git add
Track(p) ==
  /\ p \notin tracked
  /\ worktree[p] # Absent
  /\ tracked' = tracked \cup {p}
  /\ UNCHANGED <<worktree, commits, head>>
  /\ Owner

\* git rm --cached
Untrack(p) ==
  /\ p \in tracked
  /\ tracked' = tracked \ {p}
  /\ UNCHANGED <<worktree, commits, head>>
  /\ Owner

\* git commit -a
Commit ==
  LET tree == [p \in Paths |-> IF p \in tracked THEN worktree[p] ELSE Absent] IN
  /\ Len(commits) < MaxCommits
  /\ tree # TreeOf(head)
  /\ commits' = Append(commits, tree)
  /\ head' = Len(commits) + 1
  /\ tracked' = {p \in tracked : worktree[p] # Absent}
  /\ UNCHANGED worktree
  /\ Owner

\* git checkout, of a work tree with no changes and no file in the way
Checkout(commit) ==
  LET new == TreeOf(commit) IN
  /\ commit # head
  /\ \A p \in Paths :
       Clean(p) \/ (p \notin tracked /\ TreeOf(head)[p] = Absent /\ new[p] = Absent)
  /\ worktree' = [p \in Paths |-> IF Clean(p) THEN new[p] ELSE worktree[p]]
  /\ tracked' = {p \in Paths : new[p] # Absent}
  /\ head' = commit
  /\ UNCHANGED commits
  /\ Owner
-----------------------------------------------------------------------------
(* Which scan it is to be.                                                 *)

Begin(step, s) ==
  /\ pc = "idle"
  /\ pc' = step
  /\ scan' = s
  /\ dirtied' = {p \in Paths : ~ Clean(p)}
  /\ UNCHANGED <<repository, index, base, edits, risky>>

NewScan(from, late, record, visits) ==
  [head |-> head, from |-> from, late |-> late, record |-> record,
   changes |-> {}, visits |-> visits, failed |-> FALSE]

FullScan(late, record) == NewScan(0, late, record, Paths)

\* `omnisem index`
StartIndex == Begin("full", FullScan(TRUE, TRUE)) /\ UNCHANGED faults

\* `omnisem index --since`, when there is a base
StartSince ==
  /\ base # 0
  /\ Begin("diff", NewScan(base, FALSE, TRUE, {}))
  /\ UNCHANGED faults

\* `omnisem index --since REV`; REV need not be older than the base
StartSinceRevision(commit) ==
  /\ Begin("diff", NewScan(commit, FALSE, TRUE, {}))
  /\ UNCHANGED faults

\* No base yet, or a revision git does not know: a full scan, and the head
\* recorded is the one read before it.
StartFallback == Begin("full", FullScan(FALSE, TRUE)) /\ UNCHANGED faults

\* git does not run, or sees no repository: a full scan, and no head.
StartWithoutGit ==
  /\ faults < MaxFaults
  /\ faults' = faults + 1
  /\ Begin("full", FullScan(FALSE, FALSE))
-----------------------------------------------------------------------------
(* collect_changes: up to three git processes.                             *)

Collect(from, to, found) ==
  /\ pc = from
  /\ pc' = to
  /\ scan' = [scan EXCEPT !.changes = @ \cup found]
  /\ UNCHANGED <<repository, index, base, edits, faults, dirtied, risky>>

CollectDiff ==
  Collect("diff", IF scan.from = scan.head THEN "untracked" ELSE "dirty",
          Diff(TreeOf(scan.from)))

CollectDirty == Collect("dirty", "untracked", Diff(TreeOf(head)))

CollectUntracked == Collect("untracked", "changes", Untracked)

\* A git process fails, or prints a path that is not UTF-8: a full scan.
CollectFails ==
  /\ pc \in {"diff", "dirty", "untracked"}
  /\ faults < MaxFaults
  /\ faults' = faults + 1
  /\ pc' = "full"
  /\ scan' = [scan EXCEPT !.changes = {}, !.visits = Paths]
  /\ UNCHANGED <<repository, index, base, edits, dirtied, risky>>
-----------------------------------------------------------------------------
(* The changes, or the files, one by one.                                  *)

\* Mutant: a file that is gone is taken for a document.
MutantDocument(p, rest) ==
  /\ scan' = [rest EXCEPT !.failed = @ \/ Refused(p)]
  /\ IF worktree[p] = served[p] \/ Refused(p)
       THEN UNCHANGED index
       ELSE /\ served' = [served EXCEPT ![p] = worktree[p]]
            /\ had' = [had EXCEPT ![p] = @ \cup {worktree[p]}]

\* process_document: the same text again, a refusal, or a promotion.
Document(p, rest) ==
  /\ Eligible(worktree[p]) # Absent
  /\ scan' = [rest EXCEPT !.failed = @ \/ Refused(p)]
  /\ IF worktree[p] = served[p] \/ Refused(p)
       THEN UNCHANGED index
       ELSE /\ served' = [served EXCEPT ![p] = worktree[p]]
            /\ had' = [had EXCEPT ![p] = @ \cup {worktree[p]}]

\* mark_source_deleted, if there is a source.
Delete(p, rest) ==
  /\ scan' = rest
  /\ served' = [served EXCEPT ![p] = Absent]
  /\ UNCHANGED had

\* What validate_relative_path refuses is passed over.
PassOver(p, rest) ==
  /\ Eligible(worktree[p]) = Absent
  /\ scan' = rest
  /\ UNCHANGED index

Apply(p, kind) ==
  LET rest == [scan EXCEPT !.changes = @ \ {<<p, kind>>}] IN
  /\ pc = "changes"
  /\ <<p, kind>> \in scan.changes
  /\ \A k \in Earlier(kind) : <<p, k>> \notin scan.changes
  /\ IF kind = "Deleted"
       THEN Delete(p, rest)
       ELSE Document(p, rest) \/ PassOver(p, rest)
  /\ UNCHANGED <<repository, base, pc, edits, faults, dirtied, risky>>

\* index_one_root_full, for the file at p or for its absence.
Visit(p) ==
  LET rest == [scan EXCEPT !.visits = @ \ {p}] IN
  /\ pc = "full"
  /\ p \in scan.visits
  /\ Document(p, rest) \/ (Eligible(worktree[p]) = Absent /\ Delete(p, rest))
  /\ UNCHANGED <<repository, base, pc, edits, faults, dirtied, risky>>

\* process_document fails for another reason: I/O, a busy database.
DocumentFails(p) ==
  /\ faults < MaxFaults
  /\ faults' = faults + 1
  /\ \/ /\ pc = "full"
        /\ p \in scan.visits
        /\ scan' = [scan EXCEPT !.visits = @ \ {p}, !.failed = TRUE]
     \/ /\ pc = "changes"
        /\ \E kind \in {"Added", "Modified"} :
             /\ <<p, kind>> \in scan.changes
             /\ \A k \in Earlier(kind) : <<p, k>> \notin scan.changes
             /\ scan' = [scan EXCEPT !.changes = @ \ {<<p, kind>>}, !.failed = TRUE]
  /\ UNCHANGED <<repository, index, base, pc, edits, dirtied, risky>>
-----------------------------------------------------------------------------
(* The end of a scan.                                                      *)

Differ(tree1, tree2) == {p \in Paths : tree1[p] # tree2[p]}

\* After a scan that recorded its head: a full one has put every clean path
\* right; an incremental one missed what lies between the base and the REV.
RiskyWhenRecorded ==
  IF scan.from = 0 \/ pc = "full"
    THEN dirtied
    ELSE risky \cup dirtied
         \cup (IF base = 0 THEN Paths ELSE Differ(TreeOf(base), TreeOf(scan.from)))

\* After one that did not: the index is ahead of the base.
RiskyWhenNot == risky \cup dirtied \cup Differ(TreeOf(base), TreeOf(scan.head))

End ==
  /\ pc' = "idle"
  /\ scan' = NoScan
  /\ dirtied' = {}
  /\ UNCHANGED <<repository, index, edits>>

Done == pc \in {"changes", "full"} /\ scan.changes = {} /\ scan.visits = {}

\* Mutant: a failed document does not hold the base back.
MutantFinish ==
  /\ Done
  /\ IF scan.record
       THEN base' = (IF scan.late THEN head ELSE scan.head) /\ risky' = RiskyWhenRecorded
       ELSE base' = base /\ risky' = RiskyWhenNot
  /\ End
  /\ UNCHANGED faults

\* upsert_root_git_state, only when no document failed.
Finish ==
  /\ Done
  /\ IF scan.record /\ ~ scan.failed
       THEN base' = (IF scan.late THEN head ELSE scan.head) /\ risky' = RiskyWhenRecorded
       ELSE base' = base /\ risky' = RiskyWhenNot
  /\ End
  /\ UNCHANGED faults

\* The process dies, or the state is not written.
Crash ==
  /\ pc # "idle"
  /\ faults < MaxFaults
  /\ faults' = faults + 1
  /\ base' = base
  /\ risky' = RiskyWhenNot
  /\ End
-----------------------------------------------------------------------------
Edit ==
  \/ \E p \in Paths, c \in File : Write(p, c)
  \/ \E p \in Paths : Track(p) \/ Untrack(p)
  \/ Commit
  \/ \E commit \in 1 .. Len(commits) : Checkout(commit)

\* What a scan under way does by itself.
Go ==
  \/ CollectDiff
  \/ CollectDirty
  \/ CollectUntracked
  \/ \E p \in Paths, kind \in Kind : Apply(p, kind)
  \/ \E p \in Paths : Visit(p)
  \/ Finish

Choose ==
  \/ StartIndex
  \/ \E commit \in 1 .. Len(commits) : StartSinceRevision(commit)
  \/ StartWithoutGit

\* `omnisem index --since`, with or without a base.
Since == StartSince \/ StartFallback

Fault == CollectFails \/ Crash \/ \E p \in Paths : DocumentFails(p)

Next == Edit \/ Go \/ Choose \/ Since \/ Fault

Spec == Init /\ [][Next]_vars

\* Somebody keeps running `omnisem index --since`, and a scan goes on.
FairSpec == Spec /\ WF_vars(Since \/ Go)
-----------------------------------------------------------------------------
(* Properties                                                              *)

TypeOK ==
  /\ worktree \in Tree
  /\ tracked \subseteq Paths
  /\ commits \in Seq(Tree)
  /\ head \in 1 .. Len(commits)
  /\ served \in Tree
  /\ had \in [Paths -> SUBSET Contents]
  /\ base \in 0 .. Len(commits)
  /\ pc \in Step
  /\ scan \in Scan
  /\ edits \in Nat
  /\ faults \in Nat
  /\ dirtied \subseteq Paths
  /\ risky \subseteq Paths

\* The text of p is that of the commit, as far as discovery lets it through.
Synced(p, commit) ==
  \/ served[p] = Eligible(TreeOf(commit)[p])
  \/ TreeOf(commit)[p] \in Oversized

\* Between scans: a path that is not at risk is in step with the base.
InStep == pc = "idle" /\ base # 0 => \A p \in Paths \ risky : Synced(p, base)

\* A path that stays clean during a scan is as in the commit the scan began at,
\* and the kind of a change listed for it is still right.
CleanPaths ==
  pc # "idle" =>
    /\ scan.head \in 1 .. Len(commits)
    /\ \A p \in Paths \ dirtied :
         /\ Clean(p)
         /\ worktree[p] = TreeOf(scan.head)[p]
         /\ \A kind \in Kind :
              <<p, kind>> \in scan.changes =>
                (kind = "Deleted" <=> worktree[p] = Absent)

\* What a full scan has visited it has put right, or it has failed.
FullScanProgress ==
  pc = "full" /\ ~ scan.failed =>
    \A p \in Paths \ (dirtied \cup scan.visits) : served[p] = Eligible(worktree[p])

\* An incremental scan moves a path from the base to the head of the scan.
BetweenCommits ==
  pc # "idle" /\ base # 0 =>
    \A p \in Paths \ (dirtied \cup risky) : Synced(p, base) \/ Synced(p, scan.head)

\* And it has done so for each path it has no more changes of.
ChangesProgress ==
  /\ pc \in {"diff", "dirty", "untracked", "changes"} => scan.from \in 1 .. Len(commits)
  /\ pc \in {"dirty", "untracked", "changes"} /\ base # 0 /\ ~ scan.failed =>
       \A p \in Paths \ (dirtied \cup risky) :
         \/ TreeOf(base)[p] # TreeOf(scan.from)[p]
         \/ \E kind \in Kind : <<p, kind>> \in scan.changes
         \/ Synced(p, scan.head)

\* The inductive invariant.
Incremental ==
  /\ TypeOK
  /\ InStep
  /\ CleanPaths
  /\ FullScanProgress
  /\ BetweenCommits
  /\ ChangesProgress

Reported(p) == \E kind \in Kind : <<p, kind>> \in Changes(base, head)

\* "git-diff-based change detection" (blueprint, Milestone 3) is complete:
\* between scans, a file that search does not serve as it is will be listed by
\* the next `--since`. The paths it does not hold for, and for which only a
\* full scan helps, are those that were unclean during a scan, that lie
\* between the base and a REV, or that a scan took in without recording its
\* head; files that became ineligible; and untracked files of a subdirectory.
IncrementalIsComplete ==
  pc = "idle" /\ base # 0 =>
    \A p \in Paths \ risky :
      \/ served[p] = Eligible(worktree[p])
      \/ Reported(p)
      \/ worktree[p] \in Oversized
      \/ Subdirectory /\ p \notin tracked

\* Once the owner stops, and somebody keeps running `--since`, search comes to
\* serve every other file as it is.
ChangesReachSearch ==
  <>[](\A p \in Paths :
         \/ served[p] = Eligible(worktree[p])
         \/ p \in risky
         \/ Refused(p)
         \/ worktree[p] \in Oversized
         \/ Subdirectory /\ p \notin tracked)
=============================================================================
