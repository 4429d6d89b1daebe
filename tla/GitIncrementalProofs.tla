------------------------ MODULE GitIncrementalProofs ------------------------
(***************************************************************************)
(* Between scans an incremental index is complete: every path that is not  *)
(* at risk, and that search does not serve as it is, will be listed by the *)
(* next `--since`.  The inductive invariant is Incremental; its parts for  *)
(* a scan under way are CleanPaths, FullScanProgress, BetweenCommits and   *)
(* ChangesProgress, its part between scans is InStep.                      *)
(***************************************************************************)
EXTENDS GitIncremental, TLAPS

(* A commit that exists has a tree.                                        *)
LEMMA TreeOfType ==
  ASSUME TypeOK, NEW c \in 0 .. Len(commits)
  PROVE  TreeOf(c) \in Tree
BY GitIncrementalAssumption DEF TypeOK, TreeOf, Tree, File

(* What a step of the owner does to the repository, and what it leaves:    *)
(* commits are never changed.                                              *)
OwnerFrame ==
  /\ worktree' \in Tree
  /\ tracked' \subseteq Paths
  /\ commits' \in Seq(Tree)
  /\ head' \in 1 .. Len(commits')
  /\ Len(commits) <= Len(commits')
  /\ \A c \in 0 .. Len(commits) : TreeOf(c)' = TreeOf(c)
  /\ Owner

LEMMA EditFrame ==
  ASSUME TypeOK, Edit
  PROVE  OwnerFrame
<1> USE GitIncrementalAssumption DEF TypeOK, OwnerFrame
<1>1. ASSUME NEW p \in Paths, NEW c \in File, Write(p, c)
      PROVE  OwnerFrame
  BY <1>1 DEF Write, Tree, TreeOf
<1>2. ASSUME NEW p \in Paths, Track(p) \/ Untrack(p)
      PROVE  OwnerFrame
  BY <1>2 DEF Track, Untrack, TreeOf
<1>3. CASE Commit
  <2> DEFINE tree == [p \in Paths |-> IF p \in tracked THEN worktree[p] ELSE Absent]
  <2>1. tree \in Tree
    BY DEF Tree, File
  <2>2. /\ commits' = Append(commits, tree)
        /\ head' = Len(commits) + 1
        /\ tracked' = {p \in tracked : worktree[p] # Absent}
        /\ worktree' = worktree
        /\ Owner
    BY <1>3 DEF Commit
  <2> HIDE DEF tree
  <2>3. /\ commits' \in Seq(Tree)
        /\ Len(commits') = Len(commits) + 1
        /\ \A c \in 1 .. Len(commits) : commits'[c] = commits[c]
    BY <2>1, <2>2
  <2>4. \A c \in 0 .. Len(commits) : TreeOf(c)' = TreeOf(c)
    BY <2>3 DEF TreeOf
  <2> QED BY <2>2, <2>3, <2>4
<1>4. ASSUME NEW commit \in 1 .. Len(commits), Checkout(commit)
      PROVE  OwnerFrame
  <2>1. TreeOf(commit) \in Tree
    BY TreeOfType
  <2>2. worktree' \in Tree
    BY <1>4, <2>1 DEF Checkout, Tree
  <2> QED BY <1>4, <2>2 DEF Checkout, TreeOf
<1> QED BY <1>1, <1>2, <1>3, <1>4 DEF Edit
(* Between steps of the owner the invariant is about what it left alone.   *)
LEMMA EditKeeps ==
  ASSUME Incremental, Edit
  PROVE  Incremental'
<1> USE GitIncrementalAssumption
<1>1. TypeOK /\ OwnerFrame
  BY EditFrame DEF Incremental
<1>2. UNCHANGED <<served, had, base, pc, scan, faults, risky>>
  BY <1>1 DEF OwnerFrame, Owner, index
<1>3. TypeOK'
  BY <1>1, <1>2 DEF OwnerFrame, Owner, Touch, TypeOK
<1>4. ASSUME NEW p \in Paths \ dirtied', pc # "idle"
      PROVE  p \in Paths \ dirtied /\ worktree'[p] = worktree[p] /\ Clean(p)'
  BY <1>1, <1>4 DEF OwnerFrame, Owner, Touch
<1>5. \A p \in Paths, c \in 0 .. Len(commits) : Synced(p, c)' <=> Synced(p, c)
  BY <1>1, <1>2 DEF OwnerFrame, Synced
<1>6. /\ 1 .. Len(commits) \subseteq 1 .. Len(commits')
      /\ 1 .. Len(commits) \subseteq 0 .. Len(commits)
      /\ base \in 0 .. Len(commits)
      /\ \A c \in 0 .. Len(commits) : TreeOf(c)' = TreeOf(c)
  BY <1>1 DEF OwnerFrame, TypeOK
<1>7. InStep'
  BY <1>2, <1>5, <1>6 DEF Incremental, InStep
<1>8. CleanPaths'
  BY <1>2, <1>4, <1>6 DEF Incremental, CleanPaths
<1>9. FullScanProgress'
  <2> SUFFICES ASSUME pc' = "full", ~ scan'.failed,
                      NEW p \in Paths \ (dirtied' \cup scan'.visits)
               PROVE  served'[p] = Eligible(worktree[p])'
    BY DEF FullScanProgress
  <2>1. p \in Paths \ (dirtied \cup scan.visits) /\ worktree'[p] = worktree[p]
    BY <1>2, <1>4
  <2> QED BY <1>2, <2>1 DEF Incremental, FullScanProgress, Eligible
<1>10. pc # "idle" => scan.head \in 0 .. Len(commits)
  BY <1>6 DEF Incremental, CleanPaths
<1>11. BetweenCommits'
  <2> SUFFICES ASSUME pc # "idle", base # 0, NEW p \in Paths \ (dirtied' \cup risky)
               PROVE  (Synced(p, base) \/ Synced(p, scan.head))'
    BY <1>2 DEF BetweenCommits
  <2>1. Synced(p, base) \/ Synced(p, scan.head)
    BY <1>4 DEF Incremental, BetweenCommits
  <2>2. scan' = scan /\ base' = base
    BY <1>2
  <2> QED BY <1>5, <1>6, <1>10, <2>1, <2>2 DEF Synced
<1>12. ChangesProgress'
  <2>1. pc' \in {"diff", "dirty", "untracked", "changes"} => scan'.from \in 1 .. Len(commits')
    BY <1>2, <1>6 DEF Incremental, ChangesProgress
  <2>2. ASSUME pc' \in {"dirty", "untracked", "changes"}, base' # 0, ~ scan'.failed,
               NEW p \in Paths \ (dirtied' \cup risky')
        PROVE  \/ (TreeOf(base)[p] # TreeOf(scan.from)[p])'
               \/ \E kind \in Kind : <<p, kind>> \in scan'.changes
               \/ Synced(p, scan.head)'
    <3>1. p \in Paths \ (dirtied \cup risky)
      BY <1>2, <1>4, <2>2
    <3>2. scan.from \in 0 .. Len(commits)
      BY <1>2, <1>6, <2>2 DEF Incremental, ChangesProgress
    <3>3. \/ TreeOf(base)[p] # TreeOf(scan.from)[p]
          \/ \E kind \in Kind : <<p, kind>> \in scan.changes
          \/ Synced(p, scan.head)
      BY <1>2, <2>2, <3>1 DEF Incremental, ChangesProgress
    <3>4. scan' = scan /\ base' = base /\ served' = served
      BY <1>2
    <3>5. CASE TreeOf(base)[p] # TreeOf(scan.from)[p]
      <4>1. TreeOf(base)' = TreeOf(base) /\ TreeOf(scan.from)' = TreeOf(scan.from)
        BY <1>6, <3>2, <3>4 DEF TreeOf
      <4> QED BY <3>5, <4>1
    <3>6. CASE Synced(p, scan.head)
      BY <1>2, <1>6, <1>10, <2>2, <3>4, <3>6 DEF Synced, TreeOf
    <3> QED BY <3>3, <3>4, <3>5, <3>6
  <2> QED BY <2>1, <2>2 DEF ChangesProgress
<1> QED BY <1>3, <1>7, <1>8, <1>9, <1>11, <1>12 DEF Incremental
-----------------------------------------------------------------------------
(* Steps of the indexer leave the repository alone.                        *)
LEMMA SameRepository ==
  ASSUME UNCHANGED repository
  PROVE  /\ \A p \in Paths : Clean(p)' <=> Clean(p)
         /\ \A c : TreeOf(c)' = TreeOf(c)
         /\ commits' = commits /\ worktree' = worktree /\ head' = head
BY DEF repository, Clean, TreeOf

(* What git lists of one path.                                             *)
LEMMA DiffOf ==
  ASSUME NEW tree \in Tree, NEW p \in Paths, tracked \subseteq Paths
  PROVE  /\ <<p, "Deleted">> \in Diff(tree) <=>
              tree[p] # Absent /\ (p \notin tracked \/ worktree[p] = Absent)
         /\ <<p, "Added">> \in Diff(tree) <=>
              p \in tracked /\ tree[p] = Absent /\ worktree[p] # Absent
         /\ <<p, "Modified">> \in Diff(tree) <=>
              p \in tracked /\ tree[p] # Absent /\ worktree[p] \notin {Absent, tree[p]}
BY DEF Diff

LEMMA DiffType ==
  ASSUME NEW tree, tracked \subseteq Paths
  PROVE  Diff(tree) \subseteq Paths \X Kind
BY DEF Diff, Kind

(* Git lists a tracked path that differs from a commit, and names the kind *)
(* of a clean path's change by whether the file is there.                  *)
LEMMA DiffOfClean ==
  ASSUME TypeOK, NEW c \in 0 .. Len(commits), NEW p \in Paths, Clean(p)
  PROVE  /\ \A kind \in Kind : <<p, kind>> \in Diff(TreeOf(c)) =>
                                 (kind = "Deleted" <=> worktree[p] = Absent)
         /\ (\A kind \in Kind : <<p, kind>> \notin Diff(TreeOf(c))) =>
              TreeOf(c)[p] = worktree[p]
<1>1. TreeOf(c) \in Tree /\ tracked \subseteq Paths
  BY TreeOfType DEF TypeOK
<1>2. p \in tracked <=> worktree[p] # Absent
  BY DEF Clean
<1> QED BY <1>1, <1>2, DiffOf DEF Kind

(* A scan begins with nothing done.                                        *)
LEMMA BeginKeeps ==
  ASSUME Incremental, NEW step \in {"diff", "full"}, NEW s \in Scan, Begin(step, s),
         faults' \in Nat, s.head = head, s.changes = {},
         step = "full" => s.visits = Paths,
         step = "diff" => s.from \in 1 .. Len(commits)
  PROVE  Incremental'
<1>1. /\ UNCHANGED repository
      /\ UNCHANGED <<served, had, base, edits, risky>>
      /\ pc = "idle" /\ pc' = step /\ scan' = s
      /\ dirtied' = {p \in Paths : ~ Clean(p)}
  BY DEF Begin, index
<1>2. TypeOK
  BY DEF Incremental
<1>3. TypeOK'
  BY <1>1, <1>2 DEF TypeOK, Step, repository
<1>4. InStep' /\ ChangesProgress'
  BY <1>1, SameRepository DEF InStep, ChangesProgress
<1>5. CleanPaths'
  BY <1>1, <1>2, SameRepository DEF CleanPaths, Clean, TypeOK
<1>6. FullScanProgress'
  BY <1>1 DEF FullScanProgress
<1>7. BetweenCommits'
  <2>1. ASSUME base # 0, NEW p \in Paths \ risky
        PROVE  Synced(p, base)'
    BY <1>1, <2>1, SameRepository DEF Incremental, InStep, Synced
  <2> QED BY <1>1, <2>1 DEF BetweenCommits
<1> QED BY <1>3, <1>4, <1>5, <1>6, <1>7 DEF Incremental

(* A git process answers: of the clean paths it names the right kind, and  *)
(* the first one leaves out only those that are as in the base.            *)
LEMMA CollectKeeps ==
  ASSUME Incremental, NEW from \in {"diff", "dirty", "untracked"},
         NEW to \in {"dirty", "untracked", "changes"},
         NEW found \in SUBSET (Paths \X Kind), Collect(from, to, found),
         \A p \in Paths, kind \in Kind :
           Clean(p) /\ <<p, kind>> \in found => (kind = "Deleted" <=> worktree[p] = Absent),
         from = "diff" =>
           \A p \in Paths : Clean(p) /\ (\A kind \in Kind : <<p, kind>> \notin found) =>
                              TreeOf(scan.from)[p] = worktree[p]
  PROVE  Incremental'
<1> DEFINE s == [scan EXCEPT !.changes = @ \cup found]
<1>1. /\ UNCHANGED repository
      /\ UNCHANGED <<served, had, base, edits, faults, dirtied, risky>>
      /\ pc = from /\ pc' = to /\ scan' = s
  BY DEF Collect, index
<1>2. TypeOK
  BY DEF Incremental
<1>3. /\ s \in Scan /\ s.head = scan.head /\ s.from = scan.from /\ s.failed = scan.failed
      /\ s.changes = scan.changes \cup found
  BY <1>2 DEF TypeOK, Scan
<1> HIDE DEF s
<1>4. TypeOK'
  BY <1>1, <1>2, <1>3 DEF TypeOK, Step, repository
<1>5. InStep' /\ FullScanProgress'
  BY <1>1 DEF InStep, FullScanProgress
<1>6. CleanPaths'
  BY <1>1, <1>3, SameRepository DEF Incremental, CleanPaths
<1>7. \A p \in Paths : \A c : Synced(p, c)' <=> Synced(p, c)
  BY <1>1, SameRepository DEF Synced
<1>8. BetweenCommits'
  BY <1>1, <1>3, <1>7 DEF Incremental, BetweenCommits, Synced
<1>9. ChangesProgress'
  <2>1. pc' \in {"diff", "dirty", "untracked", "changes"} => scan'.from \in 1 .. Len(commits')
    BY <1>1, <1>3, SameRepository DEF Incremental, ChangesProgress
  <2>2. ASSUME base # 0, ~ scan.failed, NEW p \in Paths \ (dirtied \cup risky),
               TreeOf(base)[p] = TreeOf(scan.from)[p],
               \A kind \in Kind : <<p, kind>> \notin s.changes
        PROVE  Synced(p, scan.head)
    <3>1. CASE from = "diff"
      <4>1. Clean(p) /\ worktree[p] = TreeOf(scan.head)[p]
        BY <1>1, <3>1 DEF Incremental, CleanPaths
      <4>2. TreeOf(scan.from)[p] = worktree[p]
        BY <1>3, <2>2, <3>1, <4>1
      <4>3. Synced(p, base) \/ Synced(p, scan.head)
        BY <1>1, <2>2, <3>1 DEF Incremental, BetweenCommits
      <4> QED BY <2>2, <4>1, <4>2, <4>3 DEF Synced
    <3>2. CASE from # "diff"
      BY <1>1, <1>3, <2>2, <3>2 DEF Incremental, ChangesProgress
    <3> QED BY <3>1, <3>2
  <2>3. ASSUME base' # 0, ~ scan'.failed, NEW p \in Paths \ (dirtied' \cup risky')
        PROVE  \/ (TreeOf(base)[p] # TreeOf(scan.from)[p])'
               \/ \E kind \in Kind : <<p, kind>> \in scan'.changes
               \/ Synced(p, scan.head)'
    <3>1. /\ scan'.from = scan.from /\ scan'.head = scan.head
          /\ scan'.failed = scan.failed /\ scan'.changes = s.changes
          /\ base' = base /\ dirtied' = dirtied /\ risky' = risky /\ served' = served
      BY <1>1, <1>3
    <3>2. TreeOf(base)' = TreeOf(base) /\ TreeOf(scan.from)' = TreeOf(scan.from)
          /\ TreeOf(scan.head)' = TreeOf(scan.head)
      BY <1>1, <3>1, SameRepository DEF TreeOf
    <3>3. Synced(p, scan.head) => Synced(p, scan.head)'
      BY <3>1, <3>2 DEF Synced
    <3> QED BY <2>2, <2>3, <3>1, <3>2, <3>3
  <2> QED BY <2>1, <2>3 DEF ChangesProgress
<1> QED BY <1>4, <1>5, <1>6, <1>8, <1>9 DEF Incremental
-----------------------------------------------------------------------------
(* A step of a scan that takes p off its list, with or without success, and *)
(* leaves every other path as it is.                                       *)
Processes(p) ==
  /\ pc \in {"changes", "full"}
  /\ UNCHANGED <<repository, base, pc, edits, dirtied, risky>>
  /\ faults' \in Nat
  /\ served' \in Tree /\ had' \in [Paths -> SUBSET Contents]
  /\ \A q \in Paths \ {p} : served'[q] = served[q]
  /\ scan' \in Scan /\ scan'.head = scan.head /\ scan'.from = scan.from
  /\ scan'.changes \subseteq scan.changes
  /\ \A q \in Paths \ {p}, kind \in Kind :
       <<q, kind>> \in scan.changes => <<q, kind>> \in scan'.changes
  /\ scan.visits \subseteq scan'.visits \cup {p}
  /\ scan.failed => scan'.failed

(* If a clean path ends with its own text, or keeps the one it has because  *)
(* the scan failed or discovery lets nothing through, all is well.         *)
LEMMA ProcessKeeps ==
  ASSUME Incremental, NEW p \in Paths, Processes(p),
         p \in dirtied \/ served'[p] = served[p] \/ served'[p] = Eligible(worktree[p]),
         \/ p \in dirtied
         \/ scan'.failed
         \/ served'[p] = Eligible(worktree[p])
         \/ pc = "changes" /\ worktree[p] \in Oversized
  PROVE  Incremental'
<1>1. /\ UNCHANGED <<base, pc, edits, dirtied, risky>>
      /\ UNCHANGED repository
      /\ pc # "idle"
      /\ scan'.head = scan.head /\ scan'.from = scan.from
  BY DEF Processes
<1>2. TypeOK
  BY DEF Incremental
<1>3. TypeOK'
  BY <1>1, <1>2 DEF TypeOK, Processes, repository
<1>4. InStep'
  BY <1>1 DEF InStep
<1>5. CleanPaths'
  BY <1>1, SameRepository DEF Incremental, CleanPaths, Processes
<1>6. p \notin dirtied => worktree[p] = TreeOf(scan.head)[p]
  BY <1>1 DEF Incremental, CleanPaths
<1>7. TreeOf(base)' = TreeOf(base) /\ TreeOf(scan.head)' = TreeOf(scan.head)
      /\ TreeOf(scan.from)' = TreeOf(scan.from)
  BY <1>1, SameRepository DEF TreeOf
<1>8. ASSUME NEW q \in Paths \ {p}
      PROVE  (Synced(q, base) => Synced(q, base)')
             /\ (Synced(q, scan.head) => Synced(q, scan.head)')
  BY <1>1, <1>7 DEF Processes, Synced
<1>9. ASSUME p \notin dirtied, served'[p] = Eligible(worktree[p]) \/ worktree[p] \in Oversized
      PROVE  Synced(p, scan.head)'
  BY <1>1, <1>6, <1>7, <1>9 DEF Synced
<1>10. FullScanProgress'
  <2> SUFFICES ASSUME pc = "full", ~ scan'.failed,
                      NEW q \in Paths \ (dirtied \cup scan'.visits)
               PROVE  served'[q] = Eligible(worktree[q])
    BY <1>1, SameRepository DEF FullScanProgress, Eligible
  <2>1. CASE q = p
    BY <2>1
  <2>2. CASE q # p
    <3>1. q \notin scan.visits /\ ~ scan.failed /\ served'[q] = served[q]
      BY <2>2 DEF Processes
    <3> QED BY <3>1 DEF Incremental, FullScanProgress
  <2> QED BY <2>1, <2>2
<1>11. BetweenCommits'
  <2> SUFFICES ASSUME base # 0, NEW q \in Paths \ (dirtied \cup risky)
               PROVE  Synced(q, base)' \/ Synced(q, scan.head)'
    BY <1>1 DEF BetweenCommits
  <2>1. Synced(q, base) \/ Synced(q, scan.head)
    BY <1>1 DEF Incremental, BetweenCommits
  <2>2. CASE q # p
    BY <1>8, <2>1, <2>2
  <2>3. CASE q = p /\ served'[p] = served[p]
    BY <1>1, <1>7, <2>1, <2>3 DEF Synced
  <2>4. CASE q = p /\ served'[p] = Eligible(worktree[p])
    BY <1>9, <2>4
  <2> QED BY <2>2, <2>3, <2>4
<1>12. ChangesProgress'
  <2>1. pc' \in {"diff", "dirty", "untracked", "changes"} => scan'.from \in 1 .. Len(commits')
    BY <1>1, SameRepository DEF Incremental, ChangesProgress
  <2>2. ASSUME pc = "changes", base # 0, ~ scan'.failed,
               NEW q \in Paths \ (dirtied \cup risky),
               TreeOf(base)[q] = TreeOf(scan.from)[q],
               \A kind \in Kind : <<q, kind>> \notin scan'.changes
        PROVE  Synced(q, scan.head)'
    <3>1. CASE q = p
      BY <1>9, <2>2, <3>1
    <3>2. CASE q # p
      <4>1. ~ scan.failed /\ \A kind \in Kind : <<q, kind>> \notin scan.changes
        BY <2>2, <3>2 DEF Processes
      <4>2. Synced(q, scan.head)
        BY <2>2, <4>1 DEF Incremental, ChangesProgress
      <4> QED BY <1>8, <3>2, <4>2
    <3> QED BY <3>1, <3>2
  <2>3. pc # "full" => pc = "changes"
    BY DEF Processes
  <2>4. pc' \in {"dirty", "untracked", "changes"} => pc = "changes"
    BY <1>1, <2>3
  <2> QED BY <1>1, <1>7, <2>1, <2>2, <2>4 DEF ChangesProgress
<1> QED BY <1>3, <1>4, <1>5, <1>10, <1>11, <1>12 DEF Incremental

(* The end of a scan: what is left of its work is what InStep asks.        *)
LEMMA EndKeeps ==
  ASSUME Incremental, End, faults' \in Nat, pc # "idle",
         base' \in 0 .. Len(commits), risky' \subseteq Paths,
         base' # 0 => \A p \in Paths \ risky' : Synced(p, base')
  PROVE  Incremental'
<1>1. /\ UNCHANGED <<served, had, edits>>
      /\ UNCHANGED repository
      /\ pc' = "idle" /\ scan' = NoScan /\ dirtied' = {}
  BY DEF End, index
<1>2. TypeOK'
  BY <1>1 DEF Incremental, TypeOK, Step, Scan, NoScan, repository
<1>3. InStep'
  BY <1>1 DEF InStep, Synced, TreeOf, repository
<1> QED BY <1>1, <1>2, <1>3
  DEF Incremental, CleanPaths, FullScanProgress, BetweenCommits, ChangesProgress
-----------------------------------------------------------------------------
(* The actions, one by one.                                                *)

LEMMA StartKeeps ==
  ASSUME Incremental, Choose \/ Since
  PROVE  Incremental'
<1> USE GitIncrementalAssumption
<1>1. /\ head \in Nat /\ head # 0 /\ head \in 1 .. Len(commits)
      /\ base \in 0 .. Len(commits) /\ base \in Nat /\ faults \in Nat
  BY DEF Incremental, TypeOK
<1>2. ASSUME NEW late \in BOOLEAN, NEW record \in BOOLEAN, faults' \in Nat,
             Begin("full", FullScan(late, record))
      PROVE  Incremental'
  <2> DEFINE s == FullScan(late, record)
  <2>1. s \in Scan /\ s.head = head /\ s.changes = {} /\ s.visits = Paths
    BY <1>1 DEF FullScan, NewScan, Scan
  <2> HIDE DEF s
  <2>2. Begin("full", s)
    BY <1>2 DEF s
  <2> QED BY <1>2, <2>1, <2>2, BeginKeeps
<1>3. ASSUME NEW commit \in 1 .. Len(commits), faults' = faults,
             Begin("diff", NewScan(commit, FALSE, TRUE, {}))
      PROVE  Incremental'
  <2> DEFINE s == NewScan(commit, FALSE, TRUE, {})
  <2>1. s \in Scan /\ s.head = head /\ s.changes = {} /\ s.from = commit
    BY <1>1 DEF NewScan, Scan
  <2> HIDE DEF s
  <2>2. Begin("diff", s)
    BY <1>3 DEF s
  <2> QED BY <1>1, <1>3, <2>1, <2>2, BeginKeeps
<1>4. CASE StartIndex
  BY <1>1, <1>2, <1>4 DEF StartIndex
<1>5. CASE StartFallback
  BY <1>1, <1>2, <1>5 DEF StartFallback
<1>6. CASE StartWithoutGit
  <2>1. faults' = faults + 1 /\ Begin("full", FullScan(FALSE, FALSE))
    BY <1>6 DEF StartWithoutGit
  <2>2. faults' \in Nat
    BY <1>1, <2>1
  <2> QED BY <1>2, <2>1, <2>2
<1>7. CASE StartSince
  <2>1. base \in 1 .. Len(commits) /\ faults' = faults
    BY <1>1, <1>7 DEF StartSince
  <2>2. Begin("diff", NewScan(base, FALSE, TRUE, {}))
    BY <1>7 DEF StartSince
  <2> QED BY <1>3, <2>1, <2>2
<1>8. ASSUME NEW commit \in 1 .. Len(commits), StartSinceRevision(commit)
      PROVE  Incremental'
  BY <1>3, <1>8 DEF StartSinceRevision
<1> QED BY <1>4, <1>5, <1>6, <1>7, <1>8 DEF Choose, Since

LEMMA CollectDiffKeeps ==
  ASSUME Incremental, CollectDiff
  PROVE  Incremental'
<1> DEFINE from == scan.from
<1>1. TypeOK /\ pc = "diff" /\ from \in 1 .. Len(commits) /\ from \in 0 .. Len(commits)
  BY DEF Incremental, ChangesProgress, CollectDiff, Collect, TypeOK
<1>2. Diff(TreeOf(from)) \in SUBSET (Paths \X Kind)
  BY <1>1, DiffType DEF TypeOK
<1>3. PICK to \in {"dirty", "untracked"} : Collect("diff", to, Diff(TreeOf(from)))
  BY DEF CollectDiff
<1>4. \A p \in Paths, kind \in Kind :
        Clean(p) /\ <<p, kind>> \in Diff(TreeOf(from)) =>
          (kind = "Deleted" <=> worktree[p] = Absent)
  BY <1>1, DiffOfClean
<1>5. \A p \in Paths :
        Clean(p) /\ (\A kind \in Kind : <<p, kind>> \notin Diff(TreeOf(from))) =>
          TreeOf(from)[p] = worktree[p]
  BY <1>1, DiffOfClean
<1> HIDE DEF from
<1>6. from = scan.from
  BY DEF from
<1> DEFINE found == Diff(TreeOf(from))
<1>7. \A p \in Paths :
        Clean(p) /\ (\A kind \in Kind : <<p, kind>> \notin found) =>
          TreeOf(scan.from)[p] = worktree[p]
  BY <1>5, <1>6
<1> HIDE DEF found
<1> QED BY <1>2, <1>3, <1>4, <1>7, CollectKeeps DEF found

LEMMA CollectDirtyKeeps ==
  ASSUME Incremental, CollectDirty
  PROVE  Incremental'
<1>1. TypeOK /\ head \in 0 .. Len(commits)
  BY DEF Incremental, TypeOK
<1>2. Diff(TreeOf(head)) \in SUBSET (Paths \X Kind)
  BY <1>1, DiffType DEF TypeOK
<1>3. \A p \in Paths, kind \in Kind :
        Clean(p) /\ <<p, kind>> \in Diff(TreeOf(head)) =>
          (kind = "Deleted" <=> worktree[p] = Absent)
  BY <1>1, DiffOfClean
<1>4. Collect("dirty", "untracked", Diff(TreeOf(head)))
  BY DEF CollectDirty
<1> QED BY <1>2, <1>3, <1>4, CollectKeeps

LEMMA CollectUntrackedKeeps ==
  ASSUME Incremental, CollectUntracked
  PROVE  Incremental'
<1>1. Untracked \in SUBSET (Paths \X Kind)
  BY DEF Untracked, Kind
<1>2. \A p \in Paths, kind \in Kind :
        Clean(p) /\ <<p, kind>> \in Untracked => (kind = "Deleted" <=> worktree[p] = Absent)
  BY DEF Untracked
<1>3. Collect("untracked", "changes", Untracked)
  BY DEF CollectUntracked
<1> QED BY <1>1, <1>2, <1>3, CollectKeeps

LEMMA CollectFailsKeeps ==
  ASSUME Incremental, CollectFails
  PROVE  Incremental'
<1> DEFINE s == [scan EXCEPT !.changes = {}, !.visits = Paths]
<1>1. /\ UNCHANGED repository
      /\ UNCHANGED <<served, had, base, edits, dirtied, risky>>
      /\ pc \in {"diff", "dirty", "untracked"} /\ pc' = "full" /\ scan' = s
      /\ faults' = faults + 1
  BY DEF CollectFails, index
<1>2. TypeOK
  BY DEF Incremental
<1>3. s \in Scan /\ s.head = scan.head /\ s.changes = {} /\ s.visits = Paths
  BY <1>2 DEF TypeOK, Scan
<1> HIDE DEF s
<1>4. TypeOK'
  BY <1>1, <1>2, <1>3 DEF TypeOK, Step, repository
<1>5. InStep' /\ FullScanProgress' /\ ChangesProgress'
  BY <1>1, <1>3 DEF InStep, FullScanProgress, ChangesProgress
<1>6. CleanPaths'
  BY <1>1, <1>3, SameRepository DEF Incremental, CleanPaths
<1>7. BetweenCommits'
  <2>1. scan'.head = scan.head /\ pc # "idle"
    BY <1>1, <1>3
  <2> QED BY <1>1, <2>1, SameRepository DEF Incremental, BetweenCommits, Synced
<1> QED BY <1>4, <1>5, <1>6, <1>7 DEF Incremental

(* process_document on p, whatever list p is taken from.                   *)
LEMMA DocumentKeeps ==
  ASSUME Incremental, NEW p \in Paths, NEW rest \in Scan, Document(p, rest),
         pc \in {"changes", "full"},
         UNCHANGED <<repository, base, pc, edits, faults, dirtied, risky>>,
         rest.head = scan.head, rest.from = scan.from, rest.failed = scan.failed,
         rest.changes \subseteq scan.changes, scan.visits \subseteq rest.visits \cup {p},
         \A q \in Paths \ {p}, kind \in Kind :
           <<q, kind>> \in scan.changes => <<q, kind>> \in rest.changes
  PROVE  Incremental'
<1> USE GitIncrementalAssumption
<1>1. TypeOK /\ faults \in Nat /\ worktree[p] \in Contents /\ worktree[p] \notin Oversized
  BY DEF Incremental, TypeOK, Document, Eligible, Tree, File
<1>2. /\ scan' \in Scan /\ scan'.head = rest.head /\ scan'.from = rest.from
      /\ scan'.changes = rest.changes /\ scan'.visits = rest.visits
      /\ scan'.failed = (rest.failed \/ Refused(p))
  BY DEF Document, Scan, Refused
<1>3. /\ served' \in Tree /\ had' \in [Paths -> SUBSET Contents]
      /\ \A q \in Paths \ {p} : served'[q] = served[q]
      /\ served'[p] = served[p] \/ served'[p] = worktree[p]
      /\ Refused(p) \/ served'[p] = worktree[p]
  <2>1. /\ served \in Tree /\ had \in [Paths -> SUBSET Contents]
        /\ worktree[p] \in File
    BY <1>1 DEF TypeOK, File
  <2>2. CASE UNCHANGED index /\ (worktree[p] = served[p] \/ Refused(p))
    BY <2>1, <2>2 DEF index
  <2>3. CASE /\ served' = [served EXCEPT ![p] = worktree[p]]
             /\ had' = [had EXCEPT ![p] = @ \cup {worktree[p]}]
    <3>1. served' \in Tree
      BY <2>1, <2>3 DEF Tree
    <3>2. had' \in [Paths -> SUBSET Contents]
      BY <1>1, <2>1, <2>3
    <3>3. served'[p] = worktree[p] /\ \A q \in Paths \ {p} : served'[q] = served[q]
      BY <2>1, <2>3 DEF Tree
    <3> QED BY <3>1, <3>2, <3>3
  <2> QED BY <2>2, <2>3 DEF Document
<1>4. Processes(p)
  BY <1>1, <1>2, <1>3 DEF Processes
<1> QED BY <1>1, <1>2, <1>3, <1>4, ProcessKeeps DEF Eligible

LEMMA ApplyKeeps ==
  ASSUME Incremental, NEW p \in Paths, NEW kind \in Kind, Apply(p, kind)
  PROVE  Incremental'
<1> USE GitIncrementalAssumption
<1> DEFINE rest == [scan EXCEPT !.changes = @ \ {<<p, kind>>}]
<1>1. /\ TypeOK /\ faults \in Nat
      /\ UNCHANGED <<repository, base, pc, edits, faults, dirtied, risky>>
      /\ pc = "changes" /\ <<p, kind>> \in scan.changes
  BY DEF Apply, Incremental, TypeOK
<1>2. /\ rest \in Scan /\ rest.head = scan.head /\ rest.from = scan.from
      /\ rest.failed = scan.failed /\ rest.visits = scan.visits
      /\ rest.changes = scan.changes \ {<<p, kind>>}
  BY <1>1 DEF TypeOK, Scan
<1>3. IF kind = "Deleted" THEN Delete(p, rest) ELSE Document(p, rest) \/ PassOver(p, rest)
  BY DEF Apply
<1> HIDE DEF rest
<1>4. p \notin dirtied => (kind = "Deleted" <=> worktree[p] = Absent)
  BY <1>1 DEF Incremental, CleanPaths
<1>5. CASE kind = "Deleted"
  <2>1. Processes(p) /\ served'[p] = Absent
    BY <1>1, <1>2, <1>3, <1>5 DEF Delete, Processes, TypeOK, Tree, File
  <2>2. p \notin dirtied => served'[p] = Eligible(worktree[p])
    BY <1>4, <1>5, <2>1 DEF Eligible
  <2> QED BY <2>1, <2>2, ProcessKeeps
<1>6. CASE kind # "Deleted" /\ Document(p, rest)
  BY <1>1, <1>2, <1>6, DocumentKeeps
<1>7. CASE kind # "Deleted" /\ PassOver(p, rest)
  <2>1. Processes(p) /\ served'[p] = served[p]
    BY <1>1, <1>2, <1>7 DEF PassOver, Processes, TypeOK, index
  <2>2. p \notin dirtied => worktree[p] \in Oversized
    BY <1>4, <1>7 DEF PassOver, Eligible
  <2> QED BY <1>1, <2>1, <2>2, ProcessKeeps
<1> QED BY <1>3, <1>5, <1>6, <1>7

LEMMA VisitKeeps ==
  ASSUME Incremental, NEW p \in Paths, Visit(p)
  PROVE  Incremental'
<1> USE GitIncrementalAssumption
<1> DEFINE rest == [scan EXCEPT !.visits = @ \ {p}]
<1>1. /\ TypeOK /\ faults \in Nat /\ pc = "full"
      /\ UNCHANGED <<repository, base, pc, edits, faults, dirtied, risky>>
  BY DEF Visit, Incremental, TypeOK
<1>2. /\ rest \in Scan /\ rest.head = scan.head /\ rest.from = scan.from
      /\ rest.failed = scan.failed /\ rest.visits = scan.visits \ {p}
      /\ rest.changes = scan.changes
  BY <1>1 DEF TypeOK, Scan
<1>3. Document(p, rest) \/ (Eligible(worktree[p]) = Absent /\ Delete(p, rest))
  BY DEF Visit
<1> HIDE DEF rest
<1>4. CASE Document(p, rest)
  BY <1>1, <1>2, <1>4, DocumentKeeps
<1>5. CASE Eligible(worktree[p]) = Absent /\ Delete(p, rest)
  <2>1. Processes(p) /\ served'[p] = Absent
    BY <1>1, <1>2, <1>5 DEF Delete, Processes, TypeOK, Tree, File
  <2> QED BY <1>5, <2>1, ProcessKeeps
<1> QED BY <1>3, <1>4, <1>5

LEMMA DocumentFailsKeeps ==
  ASSUME Incremental, NEW p \in Paths, DocumentFails(p)
  PROVE  Incremental'
<1>1. /\ TypeOK /\ faults \in Nat /\ faults' = faults + 1 /\ scan \in Scan
      /\ UNCHANGED <<repository, index, base, pc, edits, dirtied, risky>>
  BY DEF DocumentFails, Incremental, TypeOK
<1>2. CASE pc = "full"
           /\ scan' = [scan EXCEPT !.visits = @ \ {p}, !.failed = TRUE]
  <2>1. /\ scan' \in Scan /\ scan'.failed
        /\ scan'.head = scan.head /\ scan'.from = scan.from
        /\ scan'.changes = scan.changes /\ scan'.visits = scan.visits \ {p}
    BY <1>1, <1>2 DEF Scan
  <2>2. Processes(p) /\ served'[p] = served[p]
    BY <1>1, <1>2, <2>1 DEF Processes, TypeOK, index
  <2> QED BY <2>1, <2>2, ProcessKeeps
<1>3. ASSUME pc = "changes", NEW kind \in Kind,
             scan' = [scan EXCEPT !.changes = @ \ {<<p, kind>>}, !.failed = TRUE]
      PROVE  Incremental'
  <2>1. /\ scan' \in Scan /\ scan'.failed
        /\ scan'.head = scan.head /\ scan'.from = scan.from
        /\ scan'.changes = scan.changes \ {<<p, kind>>} /\ scan'.visits = scan.visits
    BY <1>1, <1>3 DEF Scan
  <2>2. Processes(p) /\ served'[p] = served[p]
    BY <1>1, <1>3, <2>1 DEF Processes, TypeOK, index
  <2> QED BY <2>1, <2>2, ProcessKeeps
<1> QED BY <1>2, <1>3 DEF DocumentFails, Kind

(* A scan that does not record its head leaves what it took in at risk.    *)
LEMMA NotRecordedKeeps ==
  ASSUME Incremental, pc # "idle", base # 0
  PROVE  \A p \in Paths \ RiskyWhenNot : Synced(p, base)
<1> SUFFICES ASSUME NEW p \in Paths \ RiskyWhenNot
             PROVE  Synced(p, base)
  OBVIOUS
<1>1. p \notin dirtied \cup risky /\ TreeOf(base)[p] = TreeOf(scan.head)[p]
  BY DEF RiskyWhenNot, Differ
<1>2. Synced(p, base) \/ Synced(p, scan.head)
  BY <1>1 DEF Incremental, BetweenCommits
<1> QED BY <1>1, <1>2 DEF Synced

(* One that does has put in step what it was told of.                      *)
LEMMA RecordedKeeps ==
  ASSUME Incremental, Done, ~ scan.failed, NEW commit \in {scan.head, head}
  PROVE  /\ commit \in 0 .. Len(commits)
         /\ \A p \in Paths \ RiskyWhenRecorded : Synced(p, commit)
<1>1. /\ TypeOK /\ pc \in {"changes", "full"} /\ scan.changes = {} /\ scan.visits = {}
      /\ scan.head \in 1 .. Len(commits) /\ head \in 1 .. Len(commits)
      /\ head \in 0 .. Len(commits) /\ scan.head \in 0 .. Len(commits)
  BY DEF Done, Incremental, CleanPaths, TypeOK
<1>2. \A p \in Paths \ dirtied :
        TreeOf(commit)[p] = worktree[p] /\ TreeOf(scan.head)[p] = worktree[p]
  BY <1>1 DEF Incremental, CleanPaths, Clean
<1>3. ASSUME NEW p \in Paths \ RiskyWhenRecorded
      PROVE  Synced(p, commit)
  <2>1. p \in Paths \ dirtied
    BY DEF RiskyWhenRecorded
  <2>2. CASE pc = "full"
    <3>1. served[p] = Eligible(worktree[p])
      BY <1>1, <2>1, <2>2 DEF Incremental, FullScanProgress
    <3> QED BY <1>2, <2>1, <3>1 DEF Synced
  <2>3. CASE pc = "changes"
    <3>1. scan.from # 0
      BY <1>1, <2>3 DEF Incremental, ChangesProgress
    <3>2. p \notin risky /\ base # 0 /\ TreeOf(base)[p] = TreeOf(scan.from)[p]
      BY <1>3, <2>3, <3>1 DEF RiskyWhenRecorded, Differ
    <3>3. Synced(p, scan.head)
      BY <1>1, <2>1, <2>3, <3>2 DEF Incremental, ChangesProgress
    <3> QED BY <1>2, <2>1, <3>3 DEF Synced
  <2> QED BY <1>1, <2>2, <2>3
<1> QED BY <1>1, <1>3

LEMMA FinishKeeps ==
  ASSUME Incremental, Finish \/ Crash
  PROVE  Incremental'
<1>1. /\ End /\ pc # "idle" /\ faults' \in Nat /\ base \in 0 .. Len(commits)
      /\ dirtied \subseteq Paths /\ risky \subseteq Paths
  BY DEF Finish, Crash, Done, Incremental, TypeOK
<1>2. RiskyWhenNot \subseteq Paths /\ RiskyWhenRecorded \subseteq Paths
  BY <1>1 DEF RiskyWhenNot, RiskyWhenRecorded, Differ
<1>3. CASE base' = base /\ risky' = RiskyWhenNot
  BY <1>1, <1>2, <1>3, NotRecordedKeeps, EndKeeps
<1>4. CASE Finish /\ scan.record /\ ~ scan.failed
  <2>1. Done /\ base' \in {scan.head, head} /\ risky' = RiskyWhenRecorded
    BY <1>4 DEF Finish
  <2>2. /\ base' \in 0 .. Len(commits)
        /\ \A p \in Paths \ RiskyWhenRecorded : Synced(p, base')
    BY <1>4, <2>1, RecordedKeeps
  <2> QED BY <1>1, <1>2, <2>1, <2>2, EndKeeps
<1> QED BY <1>3, <1>4 DEF Finish, Crash

LEMMA StutterKeeps ==
  ASSUME Incremental, UNCHANGED vars
  PROVE  Incremental'
<1>1. /\ UNCHANGED repository
      /\ UNCHANGED <<served, had, base, pc, scan, edits, faults, dirtied, risky>>
  BY DEF vars, index
<1>2. TypeOK'
  BY <1>1 DEF Incremental, TypeOK, repository
<1>3. \A p \in Paths : \A c : Synced(p, c)' <=> Synced(p, c)
  BY <1>1, SameRepository DEF Synced
<1>4. InStep' /\ CleanPaths' /\ FullScanProgress'
  BY <1>1, SameRepository
  DEF Incremental, InStep, Synced, CleanPaths, FullScanProgress, Eligible
<1>5. BetweenCommits' /\ ChangesProgress'
  BY <1>1, SameRepository DEF Incremental, BetweenCommits, ChangesProgress, Synced, TreeOf, repository
<1> QED BY <1>2, <1>4, <1>5 DEF Incremental

LEMMA InitIncremental == Init => Incremental
<1> SUFFICES ASSUME Init PROVE Incremental
  OBVIOUS
<1>1. TypeOK
  <2>1. commits \in Seq(Tree) /\ Len(commits) = 1
    BY DEF Init
  <2> QED BY <2>1, GitIncrementalAssumption DEF Init, TypeOK, Step, Scan, NoScan, Tree, File
<1> QED BY <1>1
  DEF Init, Incremental, InStep, CleanPaths, FullScanProgress, BetweenCommits, ChangesProgress

-----------------------------------------------------------------------------
(* The invariant holds of the specification, for any number of paths and   *)
(* commits, whatever the owner does between the steps of a scan.           *)
THEOREM IncrementalInvariant == Spec => []Incremental
<1>1. Incremental /\ [Next]_vars => Incremental'
  <2> SUFFICES ASSUME Incremental, [Next]_vars
               PROVE  Incremental'
    OBVIOUS
  <2>1. CASE Edit
    BY <2>1, EditKeeps
  <2>2. CASE Choose \/ Since
    BY <2>2, StartKeeps
  <2>3. CASE Go
    <3>1. CASE CollectDiff \/ CollectDirty \/ CollectUntracked
      BY <3>1, CollectDiffKeeps, CollectDirtyKeeps, CollectUntrackedKeeps
    <3>2. ASSUME NEW p \in Paths, NEW kind \in Kind, Apply(p, kind)
          PROVE  Incremental'
      BY <3>2, ApplyKeeps
    <3>3. ASSUME NEW p \in Paths, Visit(p)
          PROVE  Incremental'
      BY <3>3, VisitKeeps
    <3>4. CASE Finish
      BY <3>4, FinishKeeps
    <3> QED BY <2>3, <3>1, <3>2, <3>3, <3>4 DEF Go
  <2>4. CASE Fault
    BY <2>4, CollectFailsKeeps, FinishKeeps, DocumentFailsKeeps DEF Fault
  <2>5. CASE UNCHANGED vars
    BY <2>5, StutterKeeps
  <2> QED BY <2>1, <2>2, <2>3, <2>4, <2>5 DEF Next
<1> QED BY <1>1, InitIncremental, PTL DEF Spec

(* A path in step with the base, and not as search serves it, is listed.   *)
LEMMA StaleIsReported ==
  ASSUME TypeOK, NEW p \in Paths, base # 0, Synced(p, base),
         served[p] # Eligible(worktree[p]), worktree[p] \notin Oversized,
         ~ (Subdirectory /\ p \notin tracked)
  PROVE  Reported(p)
<1> DEFINE tree == TreeOf(base)
<1>1. tree \in Tree /\ tracked \subseteq Paths
  BY TreeOfType DEF TypeOK
<1>2. Diff(tree) \cup Untracked \subseteq Changes(base, head)
  BY DEF Changes
<1>3. CASE tree[p] = worktree[p]
  BY <1>3 DEF Synced
<1>4. CASE tree[p] # worktree[p]
  <2>1. \/ \E kind \in Kind : <<p, kind>> \in Diff(tree)
        \/ <<p, "Added">> \in Untracked
    BY <1>1, <1>4, DiffOf DEF Kind, Untracked
  <2> QED BY <1>2, <2>1 DEF Reported, Kind
<1> QED BY <1>3, <1>4

(* Between scans, a file that search does not serve as it is will be listed *)
(* by the next `--since`, but for the paths at risk.                       *)
THEOREM IncrementalScansAreComplete == Spec => []IncrementalIsComplete
<1>1. Incremental => IncrementalIsComplete
  BY StaleIsReported DEF Incremental, InStep, IncrementalIsComplete
<1> QED BY <1>1, IncrementalInvariant, PTL
=============================================================================
