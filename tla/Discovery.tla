------------------------------ MODULE Discovery ------------------------------
(***************************************************************************)
(* One path of an approved root under the two policies of discovery.rs:    *)
(* the recursive walk of a full scan (discover_root) and the check of a    *)
(* single path in an incremental one (validate_relative_path).  Both read  *)
(* the file system in several calls, between which the path may be         *)
(* replaced.  The options are always the defaults: hidden and ignored      *)
(* paths are left out.                                                     *)
(***************************************************************************)
EXTENDS Naturals, Sequences, FiniteSets

CONSTANTS
  MaxRules,    \* bound on the ignore rules that concern the path
  MaxChanges   \* bound on the replacements of the path

ASSUME DiscoveryAssumption == MaxRules \in Nat /\ MaxChanges \in Nat

-----------------------------------------------------------------------------
(* The path                                                                *)

\* What is there: a file, something else that is no link, nothing, or a link
\* to a file of the root, to a file outside, or to a directory of the root.
Objects == {"file", "special", "gone", "inside", "outside", "folder"}
Links == {"inside", "outside", "folder"}

\* The directory it is in, below the root: none, a directory, or a link to
\* one of the root or to one outside.
Directories == {"none", "plain", "inside", "outside"}

\* What may keep the path out of the index, besides ignore rules and links.
Flaws == {"hidden file", "hidden directory", "excluded", "not included",
          "oversized", "unsupported"}

\* Ignore rules that match the path or its directory: in .git/info/exclude, in
\* the .gitignore of the root, or in that of the directory, where a rule with
\* a slash is anchored; a rule with ! keeps what it names.
Rules ==
  [source : {"exclude", "top"}, names : {"file", "directory"},
   anchored : {FALSE}, keep : BOOLEAN]
  \cup
  [source : {"nested"}, names : {"file"}, anchored : BOOLEAN, keep : BOOLEAN]

\* The last rule that matches counts, so each file has one.
RuleSets ==
  {r \in SUBSET Rules :
     /\ Cardinality(r) <= MaxRules
     /\ \A p, q \in r : p.source = q.source /\ p.names = q.names => p = q}

Trees ==
  [enabled : BOOLEAN, follow : BOOLEAN, flaw : Flaws \cup {"none"},
   directory : Directories, object : Objects, rules : RuleSets]

Policies == {"walk", "check"}

VARIABLES
  tree,       \* the root's configuration, the path and the rules
  pc,         \* where the policy that looks at the path stands
  policy,     \* which of the two it is: first the walk, then the check
  resolved,   \* the path goes on as the target of its link
  verdict,    \* of each policy
  changes,
  led         \* history: policies under which the path has led into the root

vars == <<tree, pc, policy, resolved, verdict, changes, led>>

-----------------------------------------------------------------------------
(* Ignore rules.  The first source of the order that has a rule decides.   *)

Ignores(rules, names, order) ==
  \E i \in DOMAIN order :
    /\ \E p \in rules : p.source = order[i] /\ p.names = names /\ ~p.keep
    /\ \A j \in DOMAIN order :
         j < i => ~ \E p \in rules : p.source = order[j] /\ p.names = names

\* The matcher of the walk: the nearest .gitignore first, info/exclude last.
WalkOrder == <<"nested", "top", "exclude">>

\* Mutant: the matcher of the check has the rules of the root only.
MutantFlat(rules) == {p \in rules : p.source # "nested"}

\* is_path_gitignored builds one matcher at the root: info/exclude is added
\* after the root's .gitignore, the last rule wins, and the rules of a nested
\* file are taken for rules of the root, so that anchored ones do not match.
CheckOrder == <<"nested", "exclude", "top">>
Flat(rules) == {p \in rules : ~p.anchored}

\* Whether a canonical path is within the root.
Within(object, directory) ==
  \/ object \in {"inside", "folder"}
  \/ object \in {"file", "special"} /\ directory # "outside"

Init ==
  /\ tree \in Trees
  /\ tree.directory = "none" =>
       /\ tree.flaw # "hidden directory"
       /\ \A p \in tree.rules : p.source # "nested" /\ p.names # "directory"
  /\ pc = "start"
  /\ policy = "walk"
  /\ resolved = FALSE
  /\ verdict = [k \in Policies |-> "none"]
  /\ changes = 0
  /\ led = IF Within(tree.object, tree.directory) THEN {"walk"} ELSE {}

\* Somebody replaces what is at the path.
Replace(object) ==
  /\ changes < MaxChanges
  /\ changes' = changes + 1
  /\ object # tree.object
  /\ pc # "end"
  /\ tree' = [tree EXCEPT !.object = object]
  /\ led' = IF Within(object, tree.directory) THEN led \cup {policy} ELSE led
  /\ UNCHANGED <<pc, policy, resolved, verdict>>

-----------------------------------------------------------------------------
Go(here, there) ==
  /\ pc = here
  /\ pc' = there
  /\ UNCHANGED <<tree, policy, verdict, changes, led>>

\* A policy has its verdict; after the walk comes the check.
Decide(v) ==
  /\ verdict' = [verdict EXCEPT ![policy] = v]
  /\ pc' = IF policy = "walk" THEN "start" ELSE "end"
  /\ policy' = "check"
  /\ resolved' = FALSE
  /\ led' = IF Within(tree.object, tree.directory) THEN led \cup {"check"} ELSE led
  /\ UNCHANGED <<tree, changes>>

\* From here either goes on, or the path is left out.
GoIf(here, ok, there) ==
  /\ pc = here
  /\ IF ok THEN Go(here, there) /\ UNCHANGED resolved ELSE Decide("refused")

\* discover_root: a disabled root has no documents.
WalkStarts == policy = "walk" /\ GoIf("start", tree.enabled, "directory")

\* The walker goes into directories that are neither hidden nor ignored, and
\* through no link; a link to a directory is an entry that is no file.
WalkDirectory ==
  GoIf("directory",
       \/ tree.directory = "none"
       \/ /\ tree.directory = "plain"
          /\ tree.flaw # "hidden directory"
          /\ ~Ignores(tree.rules, "directory", WalkOrder),
       "entry")

\* process_entry, up to the metadata.
WalkEntry ==
  GoIf("entry",
       /\ tree.flaw # "hidden file"
       /\ ~Ignores(tree.rules, "file", WalkOrder),
       "metadata")

\* validate_relative_path, up to the metadata.
CheckStarts ==
  /\ policy = "check"
  /\ GoIf("start",
          /\ tree.flaw \notin {"hidden file", "hidden directory", "excluded",
                               "not included"}
          /\ ~Ignores(Flat(tree.rules), "file", CheckOrder),
          "metadata")

\* The metadata of the path itself: links go on if the root follows them.
Metadata ==
  /\ pc = "metadata"
  /\ IF tree.object \in Links
     THEN GoIf("metadata", tree.follow, "resolve")
     ELSE GoIf("metadata", tree.object = "file", "classify")

\* resolve_symlink_within_root: the path may be no link by now.
Resolve ==
  /\ pc = "resolve"
  /\ IF /\ tree.object \in {"file", "inside"}
        /\ Within(tree.object, tree.directory)
     THEN Go("resolve", "classify") /\ resolved' = (tree.object = "inside")
     ELSE Decide("refused")

\* classify_and_collect, up to the canonical path.
Classify ==
  GoIf("classify",
       tree.flaw \notin {"excluded", "not included", "oversized", "unsupported"},
       "canonicalize")

\* Mutant: what was no link is taken to be within the root.
MutantCanonicalize ==
  /\ pc = "canonicalize"
  /\ IF resolved \/ tree.object # "gone" THEN Decide("accepted")
     ELSE Decide("refused")

\* The canonical path is read again, of the path or of the target of its
\* link, and must be within the root.
Canonicalize ==
  /\ pc = "canonicalize"
  /\ IF resolved \/ Within(tree.object, tree.directory)
     THEN Decide("accepted")
     ELSE Decide("refused")

-----------------------------------------------------------------------------
Examine ==
  \/ WalkStarts \/ WalkDirectory \/ WalkEntry \/ CheckStarts
  \/ Metadata \/ Resolve \/ Classify \/ Canonicalize

Next == (\E object \in Objects : Replace(object)) \/ Examine

Spec == Init /\ [][Next]_vars

-----------------------------------------------------------------------------
(* Properties                                                              *)

TypeOK ==
  /\ tree \in Trees
  /\ pc \in {"start", "directory", "entry", "metadata", "resolve", "classify",
             "canonicalize", "end"}
  /\ policy \in Policies
  /\ resolved \in BOOLEAN
  /\ verdict \in [Policies -> {"none", "accepted", "refused"}]
  /\ changes \in Nat
  /\ led \subseteq Policies

\* The policy in one formula ("Policy summary", discovery.rs:3): what the walk
\* accepts, and what the check does, of a path that stays as it is.
Suits ==
  /\ tree.flaw = "none"
  /\ tree.object = "file" \/ (tree.object = "inside" /\ tree.follow)
  /\ Within(tree.object, tree.directory)

Reached ==
  /\ tree.enabled
  /\ \/ tree.directory = "none"
     \/ tree.directory = "plain" /\ ~Ignores(tree.rules, "directory", WalkOrder)
  /\ ~Ignores(tree.rules, "file", WalkOrder)

Declared(k) ==
  IF k = "walk" THEN Suits /\ Reached
  ELSE Suits /\ ~Ignores(Flat(tree.rules), "file", CheckOrder)

\* Whatever order the tests come in, a path that is not replaced is accepted
\* exactly if the policy says so; and one that is replaced at any moment is
\* accepted only if it has led into the root while it was looked at, and has
\* none of the flaws.
Decisions ==
  \A k \in Policies :
    /\ changes = 0 /\ verdict[k] # "none" =>
         (verdict[k] = "accepted" <=> Declared(k))
    /\ verdict[k] = "accepted" => k \in led /\ tree.flaw = "none"

\* What is known of the path while a policy looks at it.
Passed ==
  /\ tree.directory = "none" => tree.flaw # "hidden directory"
  /\ pc \in {"directory", "entry"} => policy = "walk"
  /\ pc = "end" => policy = "check"
  /\ pc \in {"start", "directory", "entry", "metadata", "resolve"} => ~resolved
  /\ policy = "walk" => \A k \in Policies : verdict[k] = "none"
  /\ policy = "check" => verdict["walk"] # "none"
  /\ policy = "check" => (pc = "end" <=> verdict["check"] # "none")
  /\ policy = "walk" /\ pc # "start" => tree.enabled
  /\ policy = "walk" /\ pc \notin {"start", "directory"} =>
       /\ tree.flaw # "hidden directory"
       /\ \/ tree.directory = "none"
          \/ /\ tree.directory = "plain"
             /\ ~Ignores(tree.rules, "directory", WalkOrder)
  /\ policy = "walk" /\ pc \notin {"start", "directory", "entry"} =>
       tree.flaw # "hidden file" /\ ~Ignores(tree.rules, "file", WalkOrder)
  /\ policy = "check" /\ pc \notin {"start", "end"} =>
       /\ tree.flaw \notin {"hidden file", "hidden directory"}
       /\ ~Ignores(Flat(tree.rules), "file", CheckOrder)
  /\ pc = "resolve" /\ changes = 0 => tree.object \in Links /\ tree.follow
  /\ pc \in {"classify", "canonicalize"} /\ changes = 0 =>
       IF tree.object = "inside" THEN resolved /\ tree.follow
       ELSE tree.object = "file" /\ ~resolved
  /\ pc = "canonicalize" => tree.flaw = "none"
  /\ pc # "end" /\ (resolved \/ Within(tree.object, tree.directory)) => policy \in led

\* The inductive invariant.
Examined == TypeOK /\ Passed /\ Decisions

\* What a full scan takes in, an incremental one does, and the reverse: in an
\* enabled root, outside ignored and linked directories, if no rule of a
\* nested .gitignore is anchored and info/exclude does not contradict the
\* .gitignore of the root.
Ordinary ==
  /\ tree.enabled
  /\ tree.directory \in {"none", "plain"}
  /\ \A p \in tree.rules : ~p.anchored /\ (p.names = "directory" => p.keep)
  /\ \A p, q \in tree.rules :
       p.names = q.names /\ {p.source, q.source} = {"top", "exclude"} => p.keep = q.keep

PoliciesAgree ==
  pc = "end" /\ changes = 0 /\ Ordinary => verdict["walk"] = verdict["check"]

\* The same in every directory the walk could go into: the check applies the
\* ignore rules of the root "matching discover_root" (discovery.rs:610).
SameIgnoreRules ==
  pc = "end" /\ changes = 0 /\ tree.enabled /\ tree.directory \in {"none", "plain"}
    => verdict["walk"] = verdict["check"]
=============================================================================
