---------------------------- MODULE EmbeddingSync ----------------------------
(***************************************************************************)
(* Embedding synchronisation (embedding_sync.rs) and semantic queries      *)
(* (retrieval.rs) over the tables of migration 0004, while the indexer     *)
(* replaces segments, the owner changes the configured dimensions and the  *)
(* model tag is pulled anew.  Every action is one SQL statement or         *)
(* transaction, or one call of the provider: a synchronisation holds no    *)
(* lock between two of them.                                               *)
(*                                                                         *)
(* A space is a model digest with its dimensions; the other parts of its   *)
(* identity (provider, name, normalization, contract) never differ here.   *)
(***************************************************************************)
EXTENDS Naturals, Sequences, FiniteSets

CONSTANTS
  Procs,        \* processes that may run omnisem index
  Segments,     \* ids of segments
  Texts,        \* texts of segments, and their hashes
  Models,       \* digests the configured tag may resolve to
  Native,       \* the dimensions a model answers with when none are asked for
  Settings,     \* values of embeddings.dimensions in the configuration
  Batch,        \* embeddings.batch_size
  New, Gone,    \* a segment id not used yet, a segment that was deleted
  None,         \* NULL, or no value
  MaxChanges,   \* bound on what owner, indexer and registry do meanwhile
  MaxFaults     \* bound on failures, damaged rows and crashes

\* The setting that leaves the dimensions to the provider.
Unset == 0

Dims == {Native[m] : m \in Models} \cup (Settings \ {Unset})
Spaces == Models \X Dims

ASSUME EmbeddingSyncAssumption ==
  /\ Native \in [Models -> Nat \ {0}]
  /\ Settings \subseteq Nat
  /\ Batch \in Nat \ {0}
  /\ New \notin Texts /\ Gone \notin Texts /\ New # Gone
  /\ None \notin Spaces \cup Models \cup Texts \cup Dims
  /\ None \notin [by : Models, sound : BOOLEAN]
  /\ MaxChanges \in Nat /\ MaxFaults \in Nat

VARIABLES
  stored,     \* table segments: the text of each id
  current,    \* segments of current revisions of active files
  spaces,     \* table embedding_spaces, in the order of created_at_ms
  active,     \* embedding_state.active_embedding_space_id
  vectors,    \* table embedding_vectors
  links,      \* table segment_embeddings
  failures,   \* table embedding_failures
  tag,        \* the model the configured tag resolves to
  wanted,     \* embeddings.dimensions in the configuration
  pc,         \* where each synchronisation stands
  job,        \* and its locals
  query,      \* the semantic channel of a query, with its locals
  changes,    \* changes made so far
  faults,     \* faults so far
  moved       \* history: models the tag left while a command counted on it

evidence == <<stored, current>>
tables == <<spaces, active, vectors, links, failures>>
environment == <<tag, wanted, changes, faults, moved>>
vars == <<evidence, tables, pc, job, query, environment>>

-----------------------------------------------------------------------------
(* The tables                                                              *)

\* A vector: the model that computed it, and whether its bytes decode to a
\* normalized vector of its space's dimensions.
Vector == [by : Models, sound : BOOLEAN]

\* The segments of the list that have text t.
Of(list, t) == {s \in Segments : <<s, t>> \in list}

TextsOf(list) == {p[2] : p \in list}

\* The dimensions of the youngest space of model m: none or one.
Youngest(m) ==
  {d \in Dims : \E i \in DOMAIN spaces :
     /\ spaces[i] = <<m, d>>
     /\ \A j \in DOMAIN spaces : j > i => spaces[j][1] # m}

Known == {spaces[i] : i \in DOMAIN spaces}

\* Foreign keys: a link needs its segment and the vector of its text.
Linkable(refs, sp, t) ==
  /\ \A s \in refs : stored[s] \in Texts
  /\ vectors[<<sp, t>>] # None

\* What a query can score in a space: linked segments of current revisions.
Scorable(sp) ==
  {s \in current : <<s, sp>> \in links /\ vectors[<<sp, stored[s]>>].sound}

-----------------------------------------------------------------------------
(* Locals                                                                  *)

NoJob ==
  [segs |-> {}, wanted |-> Unset, model |-> None, space |-> None, todo |-> {},
   at |-> None, pending |-> {}, chunk |-> {}, by |-> None,
   linked |-> {}, failed |-> {}]

Job ==
  [segs : SUBSET (Segments \X Texts), wanted : Settings \cup {Unset},
   model : Models \cup {None}, space : Spaces \cup {None},
   todo : SUBSET Texts, at : Texts \cup {None}, pending : SUBSET Texts,
   chunk : SUBSET Texts, by : Models \cup {None},
   linked : SUBSET Segments, failed : SUBSET Segments]

Places ==
  {"idle", "resolve", "space", "clear", "persist", "activate", "lookup", "link",
   "drop", "blame", "embed", "reject", "store", "report"}

Asked ==
  [at : {"idle", "count", "resolve", "embed", "scan"},
   wanted : Settings \cup {Unset}, space : Spaces \cup {None},
   by : Models \cup {None}]

NoQuery == [at |-> "idle", wanted |-> Unset, space |-> None, by |-> None]

\* A synchronisation counts on the model it has resolved until it ends.
Resolved(k) == pc[k] \notin {"idle", "resolve"}

Init ==
  /\ stored = [s \in Segments |-> New]
  /\ current = {}
  /\ spaces = << >>
  /\ active = None
  /\ vectors = [v \in Spaces \X Texts |-> None]
  /\ links = {}
  /\ failures = {}
  /\ tag \in Models
  /\ wanted \in Settings
  /\ pc = [k \in Procs |-> "idle"]
  /\ job = [k \in Procs |-> NoJob]
  /\ query = NoQuery
  /\ changes = 0
  /\ faults = 0
  /\ moved = {}

-----------------------------------------------------------------------------
(* What goes on meanwhile                                                  *)

Change ==
  /\ changes < MaxChanges
  /\ changes' = changes + 1
  /\ UNCHANGED <<pc, job, faults>>

\* The indexer commits a revision with one segment, in place of another.
Promote(old, s, t) ==
  /\ Change
  /\ stored[s] = New
  /\ stored' = [stored EXCEPT ![s] = t]
  /\ current' = (current \ old) \cup {s}
  /\ UNCHANGED <<tables, query, tag, wanted, moved>>

\* A file is gone: its source is no longer active.
Vanish(old) ==
  /\ Change
  /\ current' = current \ old
  /\ UNCHANGED <<stored, tables, query, tag, wanted, moved>>

\* The root is removed: its segments go, and with them links and failures.
RemoveRoot ==
  /\ Change
  /\ current # {}
  /\ stored' = [s \in Segments |-> IF stored[s] = New THEN New ELSE Gone]
  /\ current' = {}
  /\ links' = {}
  /\ failures' = {}
  /\ UNCHANGED <<spaces, active, vectors, query, tag, wanted, moved>>

\* The models that running commands take the tag to name: a query from its
\* check of the digest until its text is embedded.
CountedOn ==
  {job[k].model : k \in {l \in Procs : Resolved(l)}}
    \cup (IF query.at = "embed" THEN {query.space[1]} ELSE {})

\* The tag is pulled anew and names other weights.
Pull(m) ==
  /\ Change
  /\ m # tag
  /\ tag' = m
  /\ moved' = moved \cup CountedOn
  /\ UNCHANGED <<evidence, tables, query, wanted>>

\* The owner edits embeddings.dimensions.
Configure(d) ==
  /\ Change
  /\ d # wanted
  /\ wanted' = d
  /\ UNCHANGED <<evidence, tables, query, tag, moved>>

\* The bytes of a stored vector are damaged.
Damage(sp, t) ==
  /\ faults < MaxFaults
  /\ faults' = faults + 1
  /\ vectors[<<sp, t>>] # None
  /\ vectors[<<sp, t>>].sound
  /\ vectors' = [vectors EXCEPT ![<<sp, t>>].sound = FALSE]
  /\ UNCHANGED <<evidence, spaces, active, links, failures, pc, job, query,
                 tag, wanted, changes, moved>>

World ==
  \/ \E s \in Segments, t \in Texts, old \in SUBSET current :
        Cardinality(old) <= 1 /\ Promote(old, s, t)
  \/ \E s \in current : Vanish({s})
  \/ RemoveRoot
  \/ \E m \in Models : Pull(m)
  \/ \E d \in Settings : Configure(d)
  \/ \E sp \in Spaces, t \in Texts : Damage(sp, t)

-----------------------------------------------------------------------------
(* Synchronisation                                                         *)

Step(k, here, there, locals) ==
  /\ pc[k] = here
  /\ pc' = [pc EXCEPT ![k] = there]
  /\ job' = [job EXCEPT ![k] = locals]
  /\ UNCHANGED <<evidence, query, tag, wanted, changes, moved>>

\* The process ends: with its report, with an error, or because it died.
End(k) ==
  /\ pc' = [pc EXCEPT ![k] = "idle"]
  /\ job' = [job EXCEPT ![k] = NoJob]
  /\ UNCHANGED <<evidence, query, tag, wanted, changes, moved>>

Fault ==
  /\ faults < MaxFaults
  /\ faults' = faults + 1

\* synchronize_with_provider: active_segments, before the provider is asked.
Start(k) ==
  /\ Step(k, "idle", "resolve",
          [NoJob EXCEPT !.segs = {<<s, stored[s]>> : s \in current},
                        !.wanted = wanted])
  /\ UNCHANGED <<tables, faults>>

\* The tag is resolved to a digest.
Resolve(k) ==
  /\ Step(k, "resolve", "space", [job[k] EXCEPT !.model = tag])
  /\ UNCHANGED <<tables, faults>>

\* Configured dimensions, else those of the youngest space of the model.
ChooseSpace(k) ==
  LET known == IF job[k].wanted # Unset THEN {job[k].wanted}
               ELSE Youngest(job[k].model)
  IN /\ \/ known = {} /\ Step(k, "space", "clear", job[k])
        \/ \E d \in known :
             Step(k, "space", "persist",
                  [job[k] EXCEPT !.space = <<job[k].model, d>>])
     /\ UNCHANGED <<tables, faults>>

\* No dimensions are known: no space is active, and every text is to embed.
Clear(k) ==
  /\ Step(k, "clear", "embed", [job[k] EXCEPT !.pending = TextsOf(job[k].segs)])
  /\ active' = None
  /\ UNCHANGED <<spaces, vectors, links, failures, faults>>

\* persist_space: INSERT OR IGNORE.
Persist(k) ==
  /\ Step(k, "persist", "activate", job[k])
  /\ spaces' = IF job[k].space \in Known THEN spaces
               ELSE Append(spaces, job[k].space)
  /\ UNCHANGED <<active, vectors, links, failures, faults>>

\* set_active_space, before the cache is looked up or, when the first answer
\* gave the dimensions, before that answer is stored.
Activate(k) ==
  /\ IF job[k].chunk = {}
     THEN Step(k, "activate", "lookup",
               [job[k] EXCEPT !.todo = TextsOf(job[k].segs)])
     ELSE Step(k, "activate", "store", job[k])
  /\ active' = job[k].space
  /\ UNCHANGED <<spaces, vectors, links, failures, faults>>

\* Mutant: a text that has a sound vector counts as linked.
MutantLookup(k) ==
  /\ \E t \in job[k].todo :
       LET row == vectors[<<job[k].space, t>>]
           left == [job[k] EXCEPT !.todo = @ \ {t}]
       IN Step(k, "lookup", "lookup",
               IF row # None /\ row.sound
               THEN [left EXCEPT !.linked = @ \cup Of(job[k].segs, t)]
               ELSE [left EXCEPT !.pending = @ \cup {t}])
  /\ UNCHANGED <<tables, faults>>

\* load_validated_cache for one text: a miss, a sound vector or a damaged one.
Lookup(k) ==
  /\ \E t \in job[k].todo :
       LET row == vectors[<<job[k].space, t>>]
           left == [job[k] EXCEPT !.todo = @ \ {t}]
       IN IF row = None
          THEN Step(k, "lookup", "lookup", [left EXCEPT !.pending = @ \cup {t}])
          ELSE Step(k, "lookup", IF row.sound THEN "link" ELSE "drop",
                    [left EXCEPT !.at = t])
  /\ UNCHANGED <<tables, faults>>

EndLookup(k) ==
  /\ job[k].todo = {}
  /\ Step(k, "lookup", "embed", job[k])
  /\ UNCHANGED <<tables, faults>>

\* The segments of the job that have text t.
Refs(k, t) == Of(job[k].segs, t)

\* link_refs: one transaction.
Link(k) ==
  LET sp == job[k].space
      refs == Refs(k, job[k].at)
  IN /\ Step(k, "link", "lookup", [job[k] EXCEPT !.linked = @ \cup refs])
     /\ Linkable(refs, sp, job[k].at)
     /\ links' = links \cup (refs \X {sp})
     /\ failures' = failures \ (refs \X {sp})
     /\ UNCHANGED <<spaces, active, vectors, faults>>

\* Mutants: the links of a deleted vector stay; the damaged vector stays.
MutantDrop(k) ==
  /\ Step(k, "drop", "blame", [job[k] EXCEPT !.chunk = {job[k].at}])
  /\ vectors' = [vectors EXCEPT ![<<job[k].space, job[k].at>>] = None]
  /\ UNCHANGED <<spaces, active, links, failures, faults>>

MutantKeep(k) ==
  /\ Step(k, "drop", "blame", [job[k] EXCEPT !.chunk = {job[k].at}])
  /\ UNCHANGED <<tables, faults>>

\* A damaged vector is deleted, and its links with it.
Drop(k) ==
  LET sp == job[k].space
      t == job[k].at
  IN /\ Step(k, "drop", "blame", [job[k] EXCEPT !.chunk = {t}])
     /\ vectors' = [vectors EXCEPT ![<<sp, t>>] = None]
     /\ links' = {l \in links : ~(l[2] = sp /\ stored[l[1]] = t)}
     /\ UNCHANGED <<spaces, active, failures, faults>>

\* record_failures for the chunk, in one transaction; nothing is recorded
\* while no space is known.
Blame(k) ==
  LET sp == job[k].space
      refs == UNION {Refs(k, t) : t \in job[k].chunk}
  IN /\ pc[k] \in {"blame", "reject"}
     /\ sp # None => \A s \in refs : stored[s] \in Texts
     /\ Step(k, pc[k], IF pc[k] = "blame" THEN "lookup" ELSE "embed",
             [job[k] EXCEPT !.failed = @ \cup refs, !.chunk = {}])
     /\ failures' = IF sp = None THEN failures ELSE failures \cup (refs \X {sp})
     /\ UNCHANGED <<spaces, active, vectors, links, faults>>

\* The dimensions the provider answers with.
Answer(setting) == IF setting # Unset THEN setting ELSE Native[tag]

Chunks(k) ==
  {c \in SUBSET job[k].pending :
     \/ Cardinality(c) = Batch
     \/ c = job[k].pending /\ c # {} /\ Cardinality(c) < Batch}

\* embed and validate_provider_batch for the next chunk: the tag is sent, not
\* the digest; dimensions other than the space's refuse the whole batch.
Embed(k) ==
  /\ \E c \in Chunks(k) :
       LET d == Answer(job[k].wanted)
           rest == [job[k] EXCEPT !.pending = @ \ c, !.chunk = c, !.by = tag]
       IN IF job[k].space = None
          THEN Step(k, "embed", "persist",
                    [rest EXCEPT !.space = <<job[k].model, d>>])
          ELSE Step(k, "embed", IF d = job[k].space[2] THEN "store" ELSE "reject",
                    rest)
  /\ UNCHANGED <<tables, faults>>

\* Mutant: what failed before stays listed as failed.
MutantStore(k) ==
  LET sp == job[k].space
      refs == UNION {Refs(k, t) : t \in job[k].chunk}
  IN /\ Step(k, "store", "embed",
             [job[k] EXCEPT !.linked = @ \cup refs, !.chunk = {}])
     /\ \A s \in refs : stored[s] \in Texts
     /\ vectors' = [v \in Spaces \X Texts |->
                      IF v[1] = sp /\ v[2] \in job[k].chunk
                      THEN [by |-> job[k].by, sound |-> TRUE] ELSE vectors[v]]
     /\ links' = links \cup (refs \X {sp})
     /\ UNCHANGED <<spaces, active, failures, faults>>

\* A chunk is stored: vectors and links in one transaction.
Store(k) ==
  LET sp == job[k].space
      refs == UNION {Refs(k, t) : t \in job[k].chunk}
  IN /\ Step(k, "store", "embed",
             [job[k] EXCEPT !.linked = @ \cup refs, !.chunk = {}])
     /\ \A s \in refs : stored[s] \in Texts
     /\ vectors' = [v \in Spaces \X Texts |->
                      IF v[1] = sp /\ v[2] \in job[k].chunk
                      THEN [by |-> job[k].by, sound |-> TRUE] ELSE vectors[v]]
     /\ links' = links \cup (refs \X {sp})
     /\ failures' = failures \ (refs \X {sp})
     /\ UNCHANGED <<spaces, active, faults>>

\* The space is made the active one again.
Finish(k) ==
  /\ job[k].pending = {}
  /\ Step(k, "embed", "report", job[k])
  /\ active' = IF job[k].space # None THEN job[k].space ELSE active
  /\ UNCHANGED <<spaces, vectors, links, failures, faults>>

\* What the report says.
Completed(k) == job[k].failed = {} /\ {p[1] : p \in job[k].segs} = job[k].linked

\* record_sync_run, and the end.
Report(k) ==
  /\ pc[k] = "report"
  /\ End(k)
  /\ UNCHANGED <<tables, faults>>

\* A foreign key refuses the transaction: the segment is gone, or the vector.
Refused(k) ==
  /\ \/ pc[k] = "link" /\ ~Linkable(Refs(k, job[k].at), job[k].space, job[k].at)
     \/ /\ pc[k] \in {"store", "blame", "reject"}
        /\ job[k].space # None
        /\ \E t \in job[k].chunk, s \in Segments :
             s \in Refs(k, t) /\ stored[s] \notin Texts
  /\ End(k)
  /\ UNCHANGED <<tables, faults>>

\* The provider is out when the tag is to be resolved, or the process dies.
Crash(k) ==
  /\ Fault
  /\ pc[k] # "idle"
  /\ End(k)
  /\ UNCHANGED tables

\* The provider answers badly for one chunk, or is out for all that remain.
Malformed(k) ==
  /\ Fault
  /\ \E c \in Chunks(k) \cup ({job[k].pending} \ {{}}) :
       Step(k, "embed", "reject", [job[k] EXCEPT !.pending = @ \ c, !.chunk = c])
  /\ UNCHANGED tables

Go(k) ==
  \/ Resolve(k) \/ ChooseSpace(k) \/ Clear(k) \/ Persist(k) \/ Activate(k)
  \/ Lookup(k) \/ EndLookup(k) \/ Link(k) \/ Drop(k) \/ Blame(k)
  \/ Embed(k) \/ Store(k) \/ Finish(k) \/ Report(k) \/ Refused(k)

Sync(k) == Start(k) \/ Go(k)

-----------------------------------------------------------------------------
(* The semantic channel of a query (semantic_hits): no transaction spans    *)
(* its statements.  Every error ends it.                                   *)

Ask(here, goesOn, next) ==
  /\ query.at = here
  /\ query' = IF goesOn THEN next ELSE NoQuery
  /\ UNCHANGED <<evidence, tables, pc, job, environment>>

\* load_active_space and the configured dimensions.
LoadSpace ==
  Ask("idle", active # None /\ (wanted = Unset \/ wanted = active[2]),
      [NoQuery EXCEPT !.at = "count", !.wanted = wanted, !.space = active])

\* Some segment must be linked in the space.
CountLinked ==
  Ask("count", \E s \in current : <<s, query.space>> \in links,
      [query EXCEPT !.at = "resolve"])

\* Mutant: the digest is not compared.
MutantResolveQuery == Ask("resolve", TRUE, [query EXCEPT !.at = "embed"])

\* The tag must still resolve to the digest of the space.
ResolveQuery ==
  Ask("resolve", tag = query.space[1], [query EXCEPT !.at = "embed"])

\* The query text is embedded; its vector must have the space's dimensions.
EmbedQuery ==
  Ask("embed", Answer(query.wanted) = query.space[2],
      [query EXCEPT !.at = "scan", !.by = tag])

\* SqliteExactVectorSearch scores what is Scorable, in one statement.
Scan == Ask("scan", FALSE, NoQuery)

Query == LoadSpace \/ CountLinked \/ ResolveQuery \/ EmbedQuery \/ Scan

-----------------------------------------------------------------------------
Next ==
  \/ World
  \/ \E k \in Procs : Sync(k) \/ Crash(k) \/ Malformed(k)
  \/ Query

Spec == Init /\ [][Next]_vars

\* A synchronisation that runs goes on, and somebody runs the next one.
FairSpec == Spec /\ \A k \in Procs : WF_vars(Sync(k))

-----------------------------------------------------------------------------
(* Properties                                                              *)

TypeOK ==
  /\ stored \in [Segments -> Texts \cup {New, Gone}]
  /\ current \subseteq Segments
  /\ spaces \in Seq(Spaces)
  /\ active \in Spaces \cup {None}
  /\ vectors \in [Spaces \X Texts -> Vector \cup {None}]
  /\ links \subseteq Segments \X Spaces
  /\ failures \subseteq Segments \X Spaces
  /\ tag \in Models /\ wanted \in Settings /\ moved \subseteq Models
  /\ pc \in [Procs -> Places]
  /\ job \in [Procs -> Job]
  /\ query \in Asked

\* "digest-isolated spaces" (README): a space has vectors made by its own model
\* only.  embed sends the tag, which may name another model by then.
NeverMixed ==
  \A sp \in Spaces, t \in Texts :
    vectors[<<sp, t>>] # None => vectors[<<sp, t>>].by = sp[1]

\* What is left of that: only a space of a model the tag left under a running
\* command may have others.
Unmixed ==
  \A sp \in Spaces, t \in Texts :
    vectors[<<sp, t>>] # None => sp[1] \in moved \/ vectors[<<sp, t>>].by = sp[1]

\* What is current is stored, what is linked is stored and has a vector.
LinksHold ==
  /\ \A s \in current : stored[s] \in Texts
  /\ \A l \in links :
       stored[l[1]] \in Texts /\ vectors[<<l[2], stored[l[1]]>>] # None

\* The texts a synchronisation has read are those of the segments, which may
\* be gone; its space is one of its model; its model is the one the tag
\* resolves to, and so is the model of an answer it has not stored yet,
\* unless the tag has left that model meanwhile.
JobHolds(at, j) ==
  /\ \A p \in j.segs : stored[p[1]] \in {p[2], Gone}
  /\ j.space # None => j.space[1] = j.model
  /\ at \notin {"idle", "resolve"} =>
       j.model \in Models /\ (j.model \in moved \/ j.model = tag)
  /\ at \in {"persist", "activate", "lookup", "link", "drop", "blame", "store"} =>
       j.space # None
  /\ at \in {"resolve", "space", "clear"} => j.space = None /\ j.chunk = {}
  /\ at \in {"link", "drop"} => j.at # None
  /\ at \in {"persist", "activate", "store"} /\ j.chunk # {} =>
       j.by \in Models /\ (j.model \in moved \/ j.by = j.model)

JobsHold == \A k \in Procs : JobHolds(pc[k], job[k])

\* The digest a query goes on with is that of its space.
QueryHolds ==
  /\ query.at = "embed" => query.space[1] \in moved \/ tag = query.space[1]
  /\ query.at = "scan" => query.space[1] \in moved \/ query.by = query.space[1]
  /\ query.at # "idle" => query.space \in Spaces

\* No row of the embedding tables refers to what is not there, through any
\* interleaving of synchronisations with the indexer, what each process goes on
\* with still fits, and a space has its own model's vectors unless the tag left
\* that very model under a running command.
Sound == TypeOK /\ LinksHold /\ JobsHold /\ QueryHolds /\ Unmixed

\* A query's vector is compared with vectors of the same model, whatever was
\* written between the statements of the query: the digest it has resolved
\* is that of the space it has read, and spaces are not mixed; but for a space
\* of a model the tag left while a command counted on it.
ComparedAlike ==
  query.at = "scan" /\ query.space[1] \notin moved =>
    \A s \in Scorable(query.space) :
      vectors[<<query.space, stored[s]>>].by = query.by

\* When a synchronisation reports "completed", each segment it has read, and
\* which is still there, is linked in the space it has made active.  (One
\* process: a second one may drop links of a vector damaged meanwhile.)
ReportIsTrue ==
  \A k \in Procs :
    pc[k] = "report" /\ Completed(k) =>
      \A p \in job[k].segs :
        stored[p[1]] \in Texts => <<p[1], job[k].space>> \in links

\* What status counts as failed is what is not linked.  (One process: of two,
\* one may fail to embed what the other has linked meanwhile.)
FailedIsUnlinked == failures \cap links = {}

\* Every current segment has a sound vector in the active space, which is one
\* of the model the tag resolves to.
Covered ==
  \A s \in current : active # None /\ active[1] = tag /\ s \in Scorable(active)

\* The youngest space of the model has dimensions the provider was asked for
\* once, and would not answer with when none are configured.
Outdated == wanted = Unset /\ ~(Youngest(tag) \subseteq {Native[tag]})

\* As long as somebody runs synchronisations and failures end, damaged, lost
\* and missing vectors come back, unless the configuration went from explicit
\* dimensions to none.
CoverageReturns == <>[](Covered \/ Outdated)

\* The same for every configuration: zero stands for what the provider gives.
AlwaysBackfills == <>[]Covered
=============================================================================
