------------------------------ MODULE Retrieval ------------------------------
(***************************************************************************)
(* A query (retrieval.rs): the semantic channel, the lexical search, the   *)
(* imported snapshots, reciprocal rank fusion and packing, while the       *)
(* indexer promotes and removes revisions between its statements.  Each    *)
(* read is one SQL statement; the fusion and packing loops take one        *)
(* candidate a step.                                                       *)
(*                                                                         *)
(* A ranking is a function from what is ranked to its rank, 1 for the      *)
(* best: what BM25 or a cosine would say is any ranking of what matches.   *)
(* A revision has one segment here.                                        *)
(***************************************************************************)
EXTENDS Integers, Sequences, FiniteSets, Sums

CONSTANTS
  Local,         \* segments of the local index
  Snapshots,     \* imported snapshots
  Imported,      \* the segments of each
  Files, File,   \* the mapped file of each segment
  Texts, Text,   \* its text, told apart by hash
  Order,         \* its place by path, anchor and id
  Tags,          \* sensitivity entries of the configuration, in order
  Tokens, Bytes, \* the estimate and the length of a text
  ResultOverhead, ResponseOverhead, ByteCap,
  Candidates, SnapshotCandidates, SemanticCandidates, FusionCandidates,
  SnapshotsPerQuery,
  K, Scale,      \* the constant of the fusion; scores are multiples of 1/Scale
  Limits, Budgets,
  Queries,       \* estimates of query texts
  None,
  MaxChanges     \* bound on revisions promoted or removed meanwhile

Evidence == Local \cup UNION {Imported[x] : x \in Snapshots}
Scopes == {"never_return_to_mcp", "require_explicit_query"}
Modes == {"lexical", "semantic", "hybrid", "auto"}

ASSUME RetrievalAssumption ==
  /\ File \in [Evidence -> Files] /\ Text \in [Evidence -> Texts]
  /\ Order \in [Evidence -> Nat]
  /\ \A s, t \in Evidence : Order[s] = Order[t] => s = t
  /\ Tags \in Seq([files : SUBSET Files, scope : Scopes])
  /\ Tokens \in [Texts -> Nat] /\ Bytes \in [Texts -> Nat]
  /\ \A t \in Texts : Bytes[t] <= ByteCap
  /\ ResultOverhead \in Nat \ {0} /\ ResponseOverhead \in Nat /\ ByteCap \in Nat
  /\ Candidates \in Nat /\ SnapshotCandidates \in Nat
  /\ SemanticCandidates \in Nat /\ FusionCandidates \in Nat
  /\ SnapshotsPerQuery \in Nat
  /\ K \in Nat \ {0} /\ Scale \in Nat
  /\ Limits \subseteq Nat \ {0} /\ Budgets \subseteq Nat \ {0}
  /\ Queries \subseteq Nat
  /\ "local" \notin Snapshots
  /\ MaxChanges \in Nat

\* A hit is a segment with its origin.
Hits == [seg : Local, from : {"local"}] \cup [seg : Evidence, from : Snapshots]
Here(s) == [seg |-> s, from |-> "local"]
IsLocal(h) == h.from = "local"
TextOf(h) == Text[h.seg]

ASSUME HitsAssumption == IsFiniteSet(Hits) /\ IsFiniteSet(Snapshots)
ASSUME NoneAssumption == None \notin [hit : Hits, score : Int]

VARIABLES
  current,    \* segments of current revisions of active files
  at,         \* where the query stands
  request,    \* its mode, and whether it includes sensitive paths
  semantic,   \* hits of the semantic channel, ranked
  found,      \* rows of the lexical statement, ranked
  lexical,    \* what is left of them
  sources,    \* snapshots still to search
  lists,      \* the lists to fuse
  cursor,     \* the list and the rank the fusion has reached
  admitted,   \* candidates it has taken
  best,       \* for each text, the hit that stands for it and its score
  ranked,     \* the final ranking
  packing,    \* limit and budget of the request, tokens and bytes used
  result,     \* hits of the response, with their cost in tokens
  truncated,  \* the flag of the response
  changes,
  seen        \* history: segments current at some time since the query began

index == <<current, changes, seen>>
channels == <<semantic, found, lexical, sources, lists>>
fusion == <<cursor, admitted, best>>
response == <<packing, result, truncated>>
vars == <<index, at, request, channels, fusion, ranked, response>>

-----------------------------------------------------------------------------
(* Rankings                                                                *)

Empty == [h \in {} |-> 0]

Rankings(S) ==
  {r \in [S -> 1..Cardinality(S)] : \A h, g \in S : r[h] = r[g] => h = g}

\* Rankings of what a query matches among S.
Matches(S) == UNION {Rankings(m) : m \in SUBSET S}

\* A ranking without those not in kept, which move up.
Keep(r, kept) ==
  [h \in DOMAIN r \cap kept |->
     Cardinality({g \in DOMAIN r \cap kept : r[g] <= r[h]})]

Cut(r, n) == Keep(r, {h \in DOMAIN r : r[h] <= n})

-----------------------------------------------------------------------------
(* Sensitivity and duplicates                                              *)

TagsOf(f) == {i \in DOMAIN Tags : f \in Tags[i].files}

\* sensitivity_for_path: never_return_to_mcp wins, else the last entry.
ScopeOf(f) ==
  IF TagsOf(f) = {} THEN None
  ELSE IF \E i \in TagsOf(f) : Tags[i].scope = "never_return_to_mcp"
  THEN "never_return_to_mcp"
  ELSE "require_explicit_query"

Returnable(h) ==
  \/ ScopeOf(File[h.seg]) # "require_explicit_query"
  \/ request.explicit

\* Mutant: the last row of each text stays.
MutantFirstOfText(r) ==
  {h \in DOMAIN r : \A g \in DOMAIN r : r[g] > r[h] => TextOf(g) # TextOf(h)}

\* suppress_duplicates: the first of each text stays.
FirstOfText(r) ==
  {h \in DOMAIN r : \A g \in DOMAIN r : r[g] < r[h] => TextOf(g) # TextOf(h)}

-----------------------------------------------------------------------------
Init ==
  /\ current \in {c \in SUBSET Local :
                    \A s, t \in c : File[s] = File[t] => s = t}
  /\ changes = 0 /\ seen = {}
  /\ at = "idle"
  /\ request = [mode |-> "lexical", explicit |-> FALSE]
  /\ semantic = Empty /\ found = Empty /\ lexical = Empty
  /\ sources = {} /\ lists = << >>
  /\ cursor = <<1, 1>> /\ admitted = 0
  /\ best = [t \in Texts |-> None]
  /\ ranked = Empty /\ result = << >> /\ truncated = FALSE
  /\ packing = [limit |-> 0, budget |-> 0, tokens |-> 0, bytes |-> 0]

\* The indexer promotes a revision, or finds its file gone.
Promote(s) ==
  /\ changes < MaxChanges
  /\ changes' = changes + 1
  /\ s \notin current
  /\ current' = {t \in current : File[t] # File[s]} \cup {s}
  /\ seen' = IF at = "idle" THEN seen ELSE seen \cup {s}
  /\ UNCHANGED <<at, request, channels, fusion, ranked, response>>

Vanish(s) ==
  /\ changes < MaxChanges
  /\ changes' = changes + 1
  /\ current' = current \ {s}
  /\ UNCHANGED <<seen, at, request, channels, fusion, ranked, response>>

-----------------------------------------------------------------------------
(* The channels                                                            *)

\* retrieve and retrieve_with_runtime: auto is lexical when embeddings are
\* disabled.
Ask ==
  /\ at = "idle"
  /\ \E mode \in Modes, explicit \in BOOLEAN :
       /\ request' = [mode |-> mode, explicit |-> explicit]
       /\ at' \in IF mode = "lexical" THEN {"lexical"}
                  ELSE IF mode = "auto" THEN {"lexical", "semantic"}
                  ELSE {"semantic"}
  /\ seen' = current
  /\ UNCHANGED <<current, changes, channels, fusion, ranked, response>>

\* Mutant: the scan leaves sensitivity to the lexical channel.
MutantSemanticSearch ==
  /\ at = "semantic"
  /\ \E r \in Matches({Here(s) : s \in current}) :
       /\ semantic' = Cut(r, SemanticCandidates)
       /\ ranked' = IF request.mode = "semantic" THEN semantic' ELSE ranked
  /\ at' = IF request.mode = "semantic" THEN "pack" ELSE "lexical"
  /\ UNCHANGED <<index, request, found, lexical, sources, lists, fusion, response>>

\* The scan of linked vectors of current segments, in one statement.
SemanticSearch ==
  /\ at = "semantic"
  /\ \E r \in Matches({h \in {Here(s) : s \in current} : Returnable(h)}) :
       /\ semantic' = Cut(r, SemanticCandidates)
       /\ ranked' = IF request.mode = "semantic" THEN semantic' ELSE ranked
  /\ at' = IF request.mode = "semantic" THEN "pack" ELSE "lexical"
  /\ UNCHANGED <<index, request, found, lexical, sources, lists, fusion, response>>

\* No provider, no space, another digest or dimensions, too many vectors, or
\* none sound: only auto goes on without the channel.
SemanticFails ==
  /\ at = "semantic"
  /\ at' = IF request.mode = "auto" THEN "lexical" ELSE "failed"
  /\ UNCHANGED <<index, request, channels, fusion, ranked, response>>

\* Mutant: rows of older revisions match.
MutantLexicalSearch ==
  /\ at = "lexical"
  /\ \E r \in Matches({Here(s) : s \in Local}) :
       /\ found' = Cut(r, Candidates)
       /\ lexical' = Keep(Keep(found', FirstOfText(found')),
                          {h \in DOMAIN found' : Returnable(h)})
  /\ at' = "federate"
  /\ UNCHANGED <<index, request, semantic, sources, lists, fusion, ranked,
                 response>>

\* search_fts in one statement; duplicates go before sensitive paths do.
LexicalSearch ==
  /\ at = "lexical"
  /\ \E r \in Matches({Here(s) : s \in current}) :
       /\ found' = Cut(r, Candidates)
       /\ lexical' = Keep(Keep(found', FirstOfText(found')),
                          {h \in DOMAIN found' : Returnable(h)})
  /\ at' = "federate"
  /\ UNCHANGED <<index, request, semantic, sources, lists, fusion, ranked,
                 response>>

\* The query does not parse, or a statement fails.
LexicalFails ==
  /\ at = "lexical"
  /\ at' = "failed"
  /\ UNCHANGED <<index, request, channels, fusion, ranked, response>>

\* eligible_snapshot_sources; when it fails, nothing is federated.
Federate ==
  /\ at = "federate"
  /\ \E eligible \in SUBSET Snapshots :
       /\ Cardinality(eligible) <= SnapshotsPerQuery
       /\ sources' = eligible
  /\ lists' = <<lexical>>
  /\ at' = "sources"
  /\ UNCHANGED <<index, request, semantic, found, lexical, fusion, ranked,
                 response>>

\* Mutant: the root of the snapshot has no sensitivity entries.
MutantSearchSnapshot(x) ==
  /\ at = "sources"
  /\ x \in sources
  /\ sources' = sources \ {x}
  /\ \E r \in Matches([seg : Imported[x], from : {x}]) :
       LET hits == Cut(r, SnapshotCandidates)
       IN lists' = IF hits = Empty THEN lists ELSE Append(lists, hits)
  /\ UNCHANGED <<index, at, request, semantic, found, lexical, fusion, ranked,
                 response>>

\* search_snapshot_hits, by the sensitivity of the mapped local root.
SearchSnapshot(x) ==
  /\ at = "sources"
  /\ x \in sources
  /\ sources' = sources \ {x}
  /\ \E r \in Matches([seg : Imported[x], from : {x}]) :
       LET cut == Cut(r, SnapshotCandidates)
           hits == Keep(cut, {h \in DOMAIN cut : Returnable(h)})
       IN lists' = IF hits = Empty THEN lists ELSE Append(lists, hits)
  /\ UNCHANGED <<index, at, request, semantic, found, lexical, fusion, ranked,
                 response>>

\* A payload that does not open or answer is left out.
SnapshotFails(x) ==
  /\ at = "sources"
  /\ x \in sources
  /\ sources' = sources \ {x}
  /\ UNCHANGED <<index, at, request, semantic, found, lexical, lists, fusion,
                 ranked, response>>

\* All sources are searched: one list alone keeps its order.
Gather ==
  LET all == IF semantic = Empty THEN lists ELSE Append(lists, semantic)
  IN /\ at = "sources"
     /\ sources = {}
     /\ lists' = all
     /\ at' = IF Len(all) = 1 THEN "pack" ELSE "fuse"
     /\ ranked' = IF Len(all) = 1 THEN lexical ELSE ranked
     /\ UNCHANGED <<index, request, semantic, found, lexical, sources, fusion,
                    response>>

-----------------------------------------------------------------------------
(* rrf_merge                                                               *)

\* What rank n adds to a score.
Contribution(n) == Scale \div (K + n)

\* Mutant: a snapshot's copy adds to a local hit.
MutantAccumulate(acc, h, c) ==
  IF acc = None THEN [hit |-> h, score |-> c]
  ELSE IF IsLocal(acc.hit) \/ ~IsLocal(h)
       THEN [acc EXCEPT !.score = @ + c]
  ELSE [hit |-> h, score |-> c]

\* A local hit replaces a snapshot's copy and then counts local ranks only.
Accumulate(acc, h, c) ==
  IF acc = None \/ (IsLocal(h) /\ ~IsLocal(acc.hit))
  THEN [hit |-> h, score |-> c]
  ELSE IF IsLocal(acc.hit) => IsLocal(h)
       THEN [acc EXCEPT !.score = @ + c]
  ELSE acc

\* The candidate the cursor points to, if there is one.
Pointed ==
  {h \in DOMAIN lists[cursor[1]] : lists[cursor[1]][h] = cursor[2]}

Admit ==
  /\ at = "fuse"
  /\ cursor[1] <= Len(lists)
  /\ admitted < FusionCandidates
  /\ \E h \in Pointed :
       best' = [best EXCEPT ![TextOf(h)] = Accumulate(@, h, Contribution(cursor[2]))]
  /\ admitted' = admitted + 1
  /\ cursor' = <<cursor[1], cursor[2] + 1>>
  /\ UNCHANGED <<index, at, request, channels, ranked, response>>

\* Mutant: the cap on candidates ends no list.
MutantNextList ==
  /\ at = "fuse"
  /\ cursor[1] <= Len(lists)
  /\ Pointed = {}
  /\ cursor' = <<cursor[1] + 1, 1>>
  /\ UNCHANGED <<index, at, request, channels, admitted, best, ranked, response>>

NextList ==
  /\ at = "fuse"
  /\ cursor[1] <= Len(lists)
  /\ Pointed = {} \/ admitted >= FusionCandidates
  /\ cursor' = <<cursor[1] + 1, 1>>
  /\ UNCHANGED <<index, at, request, channels, admitted, best, ranked, response>>

Fused == {best[t].hit : t \in {u \in Texts : best[u] # None}}

Score(h) == best[TextOf(h)].score

\* The highest score first, then path, anchor and id.
Precedes(h, g) ==
  \/ Score(h) > Score(g)
  \/ Score(h) = Score(g) /\ Order[h.seg] < Order[g.seg]

Rank ==
  /\ at = "fuse"
  /\ cursor[1] > Len(lists)
  /\ \E r \in Rankings(Fused) :
       /\ \A h, g \in Fused : Precedes(h, g) => r[h] < r[g]
       /\ ranked' = r
  /\ at' = "pack"
  /\ UNCHANGED <<index, request, channels, fusion, response>>

-----------------------------------------------------------------------------
(* pack_results.  The limit, the budget and the estimate of the query text  *)
(* are read here first, so the model chooses them here.                     *)

StartPack ==
  /\ at = "pack"
  /\ \E limit \in Limits, budget \in Budgets, query \in Queries :
       packing' = [limit |-> limit, budget |-> budget,
                   tokens |-> ResponseOverhead + query, bytes |-> 0]
  /\ at' = "packing"
  /\ UNCHANGED <<index, request, channels, fusion, ranked, result, truncated>>

Cost(h) == ResultOverhead + Tokens[TextOf(h)]

Fits(h) ==
  /\ packing.tokens + Cost(h) <= packing.budget
  /\ packing.bytes + Bytes[TextOf(h)] <= ByteCap

\* The hit that comes next.
Following == {h \in DOMAIN ranked : ranked[h] = Len(result) + 1}

Pack(h, cost, cut) ==
  /\ result' = Append(result, [hit |-> h, cost |-> cost, cut |-> cut])
  /\ packing' = [packing EXCEPT !.tokens = @ + cost,
                                !.bytes = @ + Bytes[TextOf(h)]]
  /\ UNCHANGED <<index, at, request, channels, fusion, ranked, truncated>>

\* Mutant: the bytes are not counted.
MutantTake ==
  /\ at = "packing"
  /\ Len(result) < packing.limit
  /\ \E h \in Following :
       /\ packing.tokens + ResultOverhead <= packing.budget
       /\ Pack(h, Cost(h), FALSE)

Take ==
  /\ at = "packing"
  /\ Len(result) < packing.limit
  /\ \E h \in Following : Fits(h) /\ Pack(h, Cost(h), FALSE)

\* What the budget leaves for the text of the first hit, one token at least.
Room ==
  LET spent == packing.tokens + ResultOverhead
  IN IF packing.budget > spent THEN packing.budget - spent ELSE 1

\* The first hit is shortened when it does not fit.
Shorten ==
  /\ at = "packing"
  /\ result = << >>
  /\ \E h \in Following :
       /\ ~Fits(h)
       /\ Pack(h, ResultOverhead
                       + IF Tokens[TextOf(h)] < Room THEN Tokens[TextOf(h)]
                         ELSE Room, TRUE)

\* Mutant: a full response is not called truncated, and nothing else is.
MutantStop ==
  /\ at = "packing"
  /\ result # << >>
  /\ \E h \in Following : Len(result) >= packing.limit \/ ~Fits(h)
  /\ truncated' = (Len(result) >= packing.limit)
  /\ at' = "done"
  /\ UNCHANGED <<index, request, channels, fusion, ranked, packing, result>>

\* A later one that does not fit ends the response.
Stop ==
  /\ at = "packing"
  /\ result # << >>
  /\ \E h \in Following : Len(result) >= packing.limit \/ ~Fits(h)
  /\ truncated' = TRUE
  /\ at' = "done"
  /\ UNCHANGED <<index, request, channels, fusion, ranked, packing, result>>

\* All hits are packed; a full response counts as truncated.
EndPack ==
  /\ at = "packing"
  /\ Following = {}
  /\ truncated' = (Len(result) >= packing.limit)
  /\ at' = "done"
  /\ UNCHANGED <<index, request, channels, fusion, ranked, packing, result>>

-----------------------------------------------------------------------------
Channels ==
  \/ Ask \/ SemanticSearch \/ SemanticFails \/ LexicalSearch \/ LexicalFails
  \/ Federate \/ Gather
  \/ \E x \in Snapshots : SearchSnapshot(x) \/ SnapshotFails(x)

Fusing == Admit \/ NextList \/ Rank

Packing == StartPack \/ Take \/ Shorten \/ Stop \/ EndPack

Next ==
  \/ \E s \in Local : Promote(s)
  \/ \E s \in current : Vanish(s)
  \/ Channels \/ Fusing \/ Packing

Spec == Init /\ [][Next]_vars

\* A process that runs goes on: nobody else is needed for its next step.
FairSpec == Spec /\ WF_vars(Channels \/ Fusing \/ Packing)

-----------------------------------------------------------------------------
(* Properties                                                              *)

Acc == [hit : Hits, score : Int]

IsRanking(r) ==
  /\ DOMAIN r \subseteq Hits
  /\ r \in [DOMAIN r -> Nat]

TypeOK ==
  /\ current \subseteq Local /\ seen \subseteq Local /\ changes \in Nat
  /\ request \in [mode : Modes, explicit : BOOLEAN]
  /\ IsRanking(semantic) /\ IsRanking(found) /\ IsRanking(lexical)
  /\ IsRanking(ranked)
  /\ sources \subseteq Snapshots
  /\ \A i \in DOMAIN lists : IsRanking(lists[i])
  /\ cursor \in (Nat \ {0}) \X (Nat \ {0}) /\ admitted \in Nat
  /\ best \in [Texts -> Acc \cup {None}]
  /\ packing \in [limit : Nat, budget : Nat, tokens : Nat, bytes : Nat]
  /\ result \in Seq([hit : Hits, cost : Nat, cut : BOOLEAN])
  /\ truncated \in BOOLEAN

\* What may be in a list: what the request may see, and of the local index
\* what was current at some time since the query began.
Permitted(h) == Returnable(h) /\ (IsLocal(h) => h.seg \in seen)

ListsPermitted ==
  /\ \A h \in DOMAIN semantic \cup DOMAIN lexical \cup DOMAIN ranked : Permitted(h)
  /\ \A i \in DOMAIN lists : \A h \in DOMAIN lists[i] : Permitted(h)
  /\ \A t \in Texts : best[t] # None => Permitted(best[t].hit)

\* Whatever channel a hit comes from, and whatever the indexer does between
\* the statements of the query: no path that needs an explicit request is in
\* the response of another, and no text is that was not served by the index
\* while the query ran.
OnlyPermitted == \A i \in DOMAIN result : Permitted(result[i].hit)

\* What the query holds is of its kind, and what it may return.
Sound == TypeOK /\ ListsPermitted

\* One statement sees one revision of a file: a response that comes from one
\* local channel never has two.  (A hybrid one may: its channels are two
\* statements, and a promotion may fall between them.)
OneRevision ==
  semantic = Empty \/ request.mode = "semantic" =>
    \A i, j \in DOMAIN result :
      LET h == result[i].hit
          g == result[j].hit
      IN IsLocal(h) /\ IsLocal(g) /\ File[h.seg] = File[g.seg] => h = g

\* What the lists say of text t, up to the cursor.
Taken(t) ==
  {e \in (DOMAIN lists) \X Hits :
     /\ e[2] \in DOMAIN lists[e[1]] /\ TextOf(e[2]) = t
     /\ \/ e[1] < cursor[1]
        \/ e[1] = cursor[1] /\ lists[e[1]][e[2]] < cursor[2]}

\* What each of these entries adds.
Shares(entries) == [e \in entries |-> Contribution(lists[e[1]][e[2]])]

\* Fusion by its definition: a text found here is shown as found here, with
\* the reciprocal ranks it has in the local lists; a text found in snapshots
\* only has those of all its copies.  (While the cap on candidates is not
\* reached.)
FusedByDefinition ==
  at = "fuse" /\ admitted < FusionCandidates =>
    \A t \in Texts :
      LET own == {e \in Taken(t) : IsLocal(e[2])}
      IN IF Taken(t) = {} THEN best[t] = None
         ELSE /\ best[t] # None
              /\ IsLocal(best[t].hit) <=> own # {}
              /\ best[t].score = Total(Shares(IF own # {} THEN own ELSE Taken(t)))

\* A row the lexical statement has found, which may be shown, is missing
\* because another row with its text ranks above it, and for no other reason.
LostToCopies ==
  at = "federate" =>
    \A h \in DOMAIN found :
      h \in DOMAIN lexical
      \/ ~Returnable(h)
      \/ \E g \in DOMAIN found : found[g] < found[h] /\ TextOf(g) = TextOf(h)

\* The response is the head of the ranking, whole if it is not called
\* truncated; a text occurs once unless the scan alone has answered.
HeadOfRanking ==
  /\ \A i \in DOMAIN result : ranked[result[i].hit] = i
  /\ at = "done" /\ ~truncated => Len(result) = Cardinality(DOMAIN ranked)
  /\ request.mode # "semantic" =>
       \A i, j \in DOMAIN result :
         TextOf(result[i].hit) = TextOf(result[j].hit) => i = j

\* The budget and the byte cap hold, except that one result is always
\* returned; a shortened one stands alone.
WithinBudget ==
  at \in {"packing", "done"} =>
    /\ Len(result) <= packing.limit
    /\ \/ packing.tokens <= packing.budget
       \/ Len(result) <= 1
    /\ packing.bytes <= ByteCap
    /\ \A i \in DOMAIN result : result[i].cut => Len(result) = 1

\* A query that is asked is answered or fails: the loops end.
EveryQueryEnds == at # "idle" ~> at \in {"done", "failed"}

\* A path under a require_explicit_query entry is returned only when the
\* request opts in, whatever other entries it is under.
ExplicitOnly ==
  \A i \in DOMAIN result :
    (\E j \in TagsOf(File[result[i].hit.seg]) :
        Tags[j].scope = "require_explicit_query") => request.explicit
=============================================================================
