--------------------------- MODULE DiscoveryProofs ---------------------------
(***************************************************************************)
(* For any number of ignore rules and replacements: each policy decides    *)
(* what its one formula says, and the two agree on ordinary paths.         *)
(***************************************************************************)
EXTENDS Discovery, TLAPS

LEMMA InitExamined == Init => Examined
<1> SUFFICES ASSUME Init PROVE Examined
  OBVIOUS
<1>1. TypeOK
  BY DEF Init, TypeOK, Policies
<1>2. Passed
  BY DEF Init, Passed, Policies
<1>3. Decisions
  BY DEF Init, Decisions, Policies
<1> QED
  BY <1>1, <1>2, <1>3 DEF Examined

\* A path that is replaced keeps its place, its flaw and its rules.
LEMMA ReplaceKeeps ==
  ASSUME Examined, NEW object \in Objects, Replace(object)
  PROVE Examined'
<1>1. tree \in Trees /\ changes \in Nat
  BY DEF Examined, TypeOK
<1>2. /\ tree'.enabled = tree.enabled /\ tree'.follow = tree.follow
      /\ tree'.flaw = tree.flaw /\ tree'.directory = tree.directory
      /\ tree'.rules = tree.rules /\ tree'.object = object
      /\ tree' \in Trees
  BY <1>1 DEF Replace, Trees
<1>3. /\ changes' \in Nat /\ changes' # 0
      /\ UNCHANGED <<pc, policy, resolved, verdict>>
      /\ led \subseteq led' /\ pc # "end"
      /\ led' = IF Within(object, tree.directory) THEN led \cup {policy} ELSE led
  BY <1>1 DEF Replace
<1>4. TypeOK'
  BY <1>2, <1>3 DEF Examined, TypeOK
<1>5. Passed'
  BY <1>2, <1>3 DEF Examined, Passed, TypeOK
<1>6. Decisions'
  BY <1>2, <1>3 DEF Examined, Decisions
<1> QED
  BY <1>4, <1>5, <1>6 DEF Examined

-----------------------------------------------------------------------------
\* A policy that has its verdict: the next one has not begun.
LEMMA DecideKeeps ==
  ASSUME Examined, pc # "end", NEW v \in {"accepted", "refused"}, Decide(v),
         changes = 0 => (v = "accepted" <=> Declared(policy)),
         v = "accepted" => policy \in led /\ tree.flaw = "none"
  PROVE Examined'
<1>1. /\ UNCHANGED <<tree, changes>>
      /\ pc' \in {"start", "end"}
      /\ pc' = "end" => policy = "check"
      /\ policy = "check" => pc' = "end"
      /\ policy' = "check" /\ resolved' = FALSE
      /\ led \subseteq led' /\ led' \subseteq led \cup {"check"}
      /\ Within(tree.object, tree.directory) => "check" \in led'
      /\ verdict' = [verdict EXCEPT ![policy] = v]
  BY DEF Decide, Examined, TypeOK, Policies
<1>2. TypeOK'
  BY <1>1 DEF Examined, TypeOK, Policies
<1>3. /\ verdict \in [Policies -> {"none", "accepted", "refused"}]
      /\ policy \in Policies
  BY DEF Examined, TypeOK
<1>4. verdict'["walk"] # "none" /\ (pc' = "end" <=> verdict'["check"] # "none")
  BY <1>1, <1>3 DEF Examined, Passed, Policies
<1>5. Passed'
  BY <1>1, <1>4 DEF Examined, Passed
<1>6. ASSUME NEW k \in Policies
      PROVE /\ changes' = 0 /\ verdict'[k] # "none" =>
                 (verdict'[k] = "accepted" <=> Declared(k)')
            /\ verdict'[k] = "accepted" => k \in led' /\ tree'.flaw = "none"
  <2>1. Declared(k)' <=> Declared(k)
    BY <1>1 DEF Declared, Suits, Reached
  <2>2. CASE k = policy
    BY <1>1, <1>3, <2>1, <2>2
  <2>3. CASE k # policy
    <3>1. verdict'[k] = verdict[k]
      BY <1>1, <1>3, <2>3
    <3> QED
      BY <1>1, <2>1, <3>1 DEF Examined, Decisions
  <2> QED
    BY <2>2, <2>3
<1>7. Decisions'
  BY <1>6 DEF Decisions
<1> QED
  BY <1>2, <1>5, <1>7 DEF Examined

\* A policy that goes on: it still has no verdict.
LEMMA GoKeeps ==
  ASSUME Examined, NEW here, NEW there, Go(here, there), Passed',
         resolved' \in BOOLEAN,
         there \in {"directory", "entry", "metadata", "resolve", "classify",
                    "canonicalize"}
  PROVE Examined'
<1>1. UNCHANGED <<tree, policy, verdict, changes, led>> /\ pc' = there
  BY DEF Go
<1>2. TypeOK'
  BY <1>1 DEF Examined, TypeOK
<1>3. \A k : Declared(k)' <=> Declared(k)
  BY <1>1 DEF Declared, Suits, Reached
<1>4. Decisions'
  BY <1>1, <1>3 DEF Examined, Decisions
<1> QED
  BY <1>2, <1>4 DEF Examined

\* A test of a policy, which goes on if it is passed and refuses otherwise.
LEMMA GoIfKeeps ==
  ASSUME Examined, NEW here, NEW ok, NEW there, GoIf(here, ok, there),
         here # "end",
         ok /\ Go(here, there) /\ UNCHANGED resolved => Passed',
         ~ok /\ changes = 0 => ~Declared(policy),
         there \in {"directory", "entry", "metadata", "resolve", "classify",
                    "canonicalize"}
  PROVE Examined'
<1>1. pc # "end" /\ resolved \in BOOLEAN
  BY DEF GoIf, Examined, TypeOK
<1>2. CASE ok
  <2>1. Go(here, there) /\ UNCHANGED resolved
    BY <1>2 DEF GoIf
  <2> QED
    BY <1>1, <1>2, <2>1, GoKeeps
<1>3. CASE ~ok
  <2>1. Decide("refused")
    BY <1>3 DEF GoIf
  <2> QED
    BY <1>1, <1>3, <2>1, DecideKeeps
<1> QED
  BY <1>2, <1>3

LEMMA WalkStartsKeeps == ASSUME Examined, WalkStarts PROVE Examined'
<1>1. ASSUME tree.enabled, Go("start", "directory"), UNCHANGED resolved
      PROVE Passed'
  BY <1>1, WalkStarts DEF WalkStarts, Go, Examined, Passed
<1>2. ~tree.enabled => ~Declared(policy)
  BY DEF WalkStarts, Declared, Reached
<1> QED
  BY <1>1, <1>2, GoIfKeeps DEF WalkStarts

LEMMA WalkDirectoryKeeps == ASSUME Examined, WalkDirectory PROVE Examined'
<1> DEFINE ok == \/ tree.directory = "none"
                 \/ /\ tree.directory = "plain"
                    /\ tree.flaw # "hidden directory"
                    /\ ~Ignores(tree.rules, "directory", WalkOrder)
<1>1. GoIf("directory", ok, "entry")
  BY DEF WalkDirectory
<1>2. pc = "directory" /\ policy = "walk"
  BY <1>1 DEF GoIf, Examined, Passed
<1>3. ASSUME ok, Go("directory", "entry"), UNCHANGED resolved
      PROVE Passed'
  BY <1>2, <1>3 DEF Go, Examined, Passed
<1>4. ~ok => ~Declared(policy)
  BY <1>2 DEF Declared, Suits, Reached
<1> HIDE DEF ok
<1> QED
  BY <1>1, <1>3, <1>4, GoIfKeeps

LEMMA WalkEntryKeeps == ASSUME Examined, WalkEntry PROVE Examined'
<1> DEFINE ok == /\ tree.flaw # "hidden file"
                 /\ ~Ignores(tree.rules, "file", WalkOrder)
<1>1. GoIf("entry", ok, "metadata")
  BY DEF WalkEntry
<1>2. pc = "entry" /\ policy = "walk"
  BY <1>1 DEF GoIf, Examined, Passed
<1>3. ASSUME ok, Go("entry", "metadata"), UNCHANGED resolved
      PROVE Passed'
  BY <1>2, <1>3 DEF Go, Examined, Passed
<1>4. ~ok => ~Declared(policy)
  BY <1>2 DEF Declared, Suits, Reached
<1> HIDE DEF ok
<1> QED
  BY <1>1, <1>3, <1>4, GoIfKeeps

LEMMA CheckStartsKeeps == ASSUME Examined, CheckStarts PROVE Examined'
<1> DEFINE ok == /\ tree.flaw \notin {"hidden file", "hidden directory",
                                      "excluded", "not included"}
                 /\ ~Ignores(Flat(tree.rules), "file", CheckOrder)
<1>1. GoIf("start", ok, "metadata") /\ policy = "check"
  BY DEF CheckStarts
<1>2. ASSUME ok, Go("start", "metadata"), UNCHANGED resolved
      PROVE Passed'
  BY <1>1, <1>2 DEF Go, Examined, Passed
<1>3. ~ok => ~Declared(policy)
  BY <1>1 DEF Declared, Suits
<1> HIDE DEF ok
<1> QED
  BY <1>1, <1>2, <1>3, GoIfKeeps

LEMMA MetadataKeeps == ASSUME Examined, Metadata PROVE Examined'
<1>1. pc = "metadata"
  BY DEF Metadata
<1>2. CASE tree.object \in Links
  <2>1. GoIf("metadata", tree.follow, "resolve")
    BY <1>2 DEF Metadata
  <2>2. ASSUME tree.follow, Go("metadata", "resolve"), UNCHANGED resolved
        PROVE Passed'
    BY <1>1, <1>2, <2>2 DEF Go, Examined, Passed
  <2>3. ~tree.follow => ~Declared(policy)
    BY <1>2 DEF Declared, Suits, Links
  <2> QED
    BY <2>1, <2>2, <2>3, GoIfKeeps
<1>3. CASE tree.object \notin Links
  <2>1. GoIf("metadata", tree.object = "file", "classify")
    BY <1>3 DEF Metadata
  <2>2. ASSUME tree.object = "file", Go("metadata", "classify"), UNCHANGED resolved
        PROVE Passed'
    BY <1>1, <2>2 DEF Go, Examined, Passed
  <2>3. tree.object # "file" => ~Declared(policy)
    BY <1>3 DEF Declared, Suits, Links
  <2> QED
    BY <2>1, <2>2, <2>3, GoIfKeeps
<1> QED
  BY <1>2, <1>3

LEMMA ResolveKeeps == ASSUME Examined, Resolve PROVE Examined'
<1>1. pc = "resolve"
  BY DEF Resolve
<1>2. CASE tree.object \in {"file", "inside"} /\ Within(tree.object, tree.directory)
  <2>1. Go("resolve", "classify") /\ resolved' = (tree.object = "inside")
    BY <1>2 DEF Resolve
  <2>2. Passed'
    BY <1>1, <1>2, <2>1 DEF Go, Examined, Passed, Links
  <2>3. resolved' \in BOOLEAN
    BY <2>1, Zenon
  <2> QED
    BY <2>1, <2>2, <2>3, GoKeeps
<1>3. CASE ~(tree.object \in {"file", "inside"} /\ Within(tree.object, tree.directory))
  <2>1. Decide("refused")
    BY <1>3 DEF Resolve
  <2>2. ~Declared(policy)
    BY <1>3 DEF Declared, Suits
  <2> QED
    BY <1>1, <2>1, <2>2, DecideKeeps
<1> QED
  BY <1>2, <1>3

LEMMA ClassifyKeeps == ASSUME Examined, Classify PROVE Examined'
<1> DEFINE ok == tree.flaw \notin {"excluded", "not included", "oversized",
                                   "unsupported"}
<1>1. GoIf("classify", ok, "canonicalize")
  BY DEF Classify
<1>2. pc = "classify" /\ tree.flaw \in Flaws \cup {"none"}
  BY <1>1 DEF GoIf, Examined, TypeOK, Trees
<1>3. tree.flaw \notin {"hidden file", "hidden directory"}
  BY <1>2 DEF Examined, Passed, TypeOK, Policies
<1>4. ASSUME ok, Go("classify", "canonicalize"), UNCHANGED resolved
      PROVE Passed'
  <2>1. tree.flaw = "none"
    BY <1>2, <1>3, <1>4 DEF Flaws
  <2> QED
    BY <1>2, <1>4, <2>1 DEF Go, Examined, Passed
<1>5. ~ok => ~Declared(policy)
  BY DEF Declared, Suits
<1> HIDE DEF ok
<1> QED
  BY <1>1, <1>4, <1>5, GoIfKeeps

LEMMA CanonicalizeKeeps == ASSUME Examined, Canonicalize PROVE Examined'
<1>1. pc = "canonicalize" /\ tree.flaw = "none" /\ policy \in Policies
  BY DEF Canonicalize, Examined, Passed, TypeOK
<1>2. policy = "walk" => Reached
  BY <1>1 DEF Examined, Passed, Reached
<1>3. policy = "check" => ~Ignores(Flat(tree.rules), "file", CheckOrder)
  BY <1>1 DEF Examined, Passed
<1>4. CASE resolved \/ Within(tree.object, tree.directory)
  <2>1. Decide("accepted")
    BY <1>4 DEF Canonicalize
  <2>2. policy \in led
    BY <1>1, <1>4 DEF Examined, Passed
  <2>3. changes = 0 => Suits
    BY <1>1, <1>4 DEF Examined, Passed, Suits, Within
  <2>4. changes = 0 => Declared(policy)
    BY <1>1, <1>2, <1>3, <2>3 DEF Declared, Policies
  <2> QED
    BY <1>1, <2>1, <2>2, <2>4, DecideKeeps
<1>5. CASE ~(resolved \/ Within(tree.object, tree.directory))
  <2>1. Decide("refused")
    BY <1>5 DEF Canonicalize
  <2>2. ~Declared(policy)
    BY <1>5 DEF Declared, Suits
  <2> QED
    BY <1>1, <2>1, <2>2, DecideKeeps
<1> QED
  BY <1>4, <1>5

LEMMA NextExamined == Examined /\ [Next]_vars => Examined'
<1> SUFFICES ASSUME Examined, [Next]_vars PROVE Examined'
  OBVIOUS
<1>1. CASE UNCHANGED vars
  <2>0. /\ tree' = tree /\ pc' = pc /\ policy' = policy /\ resolved' = resolved
        /\ verdict' = verdict /\ changes' = changes /\ led' = led
    BY <1>1 DEF vars
  <2>1. TypeOK' = TypeOK /\ Passed' = Passed
    BY <2>0, Zenon DEF TypeOK, Passed
  <2>4. Suits' = Suits /\ Reached' = Reached
    BY <2>0, Zenon DEF Suits, Reached
  <2>5. \A k \in Policies : Declared(k)' = Declared(k)
    BY <2>0, <2>4, Zenon DEF Declared
  <2>2. Decisions' = Decisions
    BY <2>0, <2>5 DEF Decisions
  <2>3. TypeOK' /\ Passed' /\ Decisions'
    BY <2>1, <2>2 DEF Examined
  <2> QED
    BY <2>3 DEF Examined
<1>2. CASE \E object \in Objects : Replace(object)
  BY <1>2, ReplaceKeeps
<1>3. CASE Examine
  BY <1>3, WalkStartsKeeps, WalkDirectoryKeeps, WalkEntryKeeps, CheckStartsKeeps,
     MetadataKeeps, ResolveKeeps, ClassifyKeeps, CanonicalizeKeeps DEF Examine
<1> QED
  BY <1>1, <1>2, <1>3 DEF Next

\* What is known of a path in every step of the two policies.
THEOREM ExaminedInvariant == Spec => []Examined
<1> QED
  BY InitExamined, NextExamined, PTL DEF Spec

\* Each policy decides what its formula says of a path that stays as it is;
\* no replacement makes one accept a path that never led into the root.
THEOREM PoliciesDecide == Spec => []Decisions
<1>1. Examined => Decisions
  BY DEF Examined
<1> QED
  BY <1>1, ExaminedInvariant, PTL

-----------------------------------------------------------------------------
\* Of ordinary rules, the two matchers make the same.
LEMMA MatchersAgree ==
  ASSUME tree \in Trees, Ordinary
  PROVE Ignores(tree.rules, "file", WalkOrder)
          <=> Ignores(Flat(tree.rules), "file", CheckOrder)
<1> DEFINE R == tree.rules
<1>1. /\ Flat(R) = R
      /\ \A p, q \in R : p.names = q.names /\ {p.source, q.source} = {"top", "exclude"}
           => p.keep = q.keep
      /\ \A p, q \in R : p.source = q.source /\ p.names = q.names => p = q
      /\ \A p \in R : p.source \in {"exclude", "top", "nested"}
  BY DEF Flat, Ordinary, Trees, RuleSets, Rules
<1> QED
  BY <1>1 DEF Ignores, WalkOrder, CheckOrder

\* What a full scan takes in of ordinary paths, an incremental one does.
THEOREM PoliciesAgreeAlways == Spec => []PoliciesAgree
<1>1. Examined => PoliciesAgree
  <2> SUFFICES ASSUME Examined, pc = "end", changes = 0, Ordinary
               PROVE verdict["walk"] = verdict["check"]
    BY DEF PoliciesAgree
  <2>1. tree \in Trees /\ verdict \in [Policies -> {"none", "accepted", "refused"}]
    BY DEF Examined, TypeOK
  <2>2. \A k \in Policies : verdict[k] # "none" =>
          (verdict[k] = "accepted" <=> Declared(k))
    BY DEF Examined, Decisions
  <2>3. Declared("walk") <=> Declared("check")
    <3>1. ~Ignores(tree.rules, "directory", WalkOrder)
      BY DEF Ordinary, Ignores
    <3> QED
      BY <2>1, <3>1, MatchersAgree DEF Declared, Reached, Ordinary
  <2>4. verdict["walk"] # "none" /\ verdict["check"] # "none"
    BY DEF Examined, Passed, Policies
  <2> QED
    BY <2>1, <2>2, <2>3, <2>4 DEF Policies
<1> QED
  BY <1>1, ExaminedInvariant, PTL
=============================================================================
