------------------------- MODULE EmbeddingSyncProofs -------------------------
(***************************************************************************)
(* Any number of synchronisations, interleaved with the indexer, the owner *)
(* and a query, keep the embedding tables sound; unless the tag moves      *)
(* under a running command, no space mixes models and no query compares    *)
(* vectors of different ones.                                              *)
(***************************************************************************)
EXTENDS EmbeddingSync, TLAPS, WellFoundedInduction

USE EmbeddingSyncAssumption DEF Unset

LEMMA SpaceIsPair ==
  ASSUME NEW sp \in Spaces
  PROVE sp[1] \in Models /\ sp[2] \in Dims /\ sp = <<sp[1], sp[2]>>
BY DEF Spaces

\* What a model answers with is a dimension of some space.
LEMMA AnswerIsDims ==
  ASSUME Sound, NEW setting \in Settings \cup {Unset}
  PROVE Answer(setting) \in Dims
BY DEF Sound, TypeOK, Answer, Dims

\* A step of one process keeps what the others hold.
LEMMA StepKeeps ==
  ASSUME Sound, NEW k \in Procs, NEW here, NEW there \in Places, NEW j \in Job,
         Step(k, here, there, j), JobHolds(there, j)
  PROVE /\ pc' \in [Procs -> Places] /\ job' \in [Procs -> Job]
        /\ JobsHold'
        /\ QueryHolds'
        /\ query' \in Asked
        /\ stored' = stored /\ current' = current
        /\ tag' = tag /\ wanted' = wanted /\ moved' = moved
<1>1. /\ stored' = stored /\ current' = current /\ query' = query
      /\ tag' = tag /\ moved' = moved /\ wanted' = wanted
      /\ pc' = [pc EXCEPT ![k] = there] /\ job' = [job EXCEPT ![k] = j]
  BY DEF Step, evidence
<1>2. pc' \in [Procs -> Places] /\ job' \in [Procs -> Job]
  BY <1>1 DEF Sound, TypeOK
<1>3. ASSUME NEW h \in Procs PROVE JobHolds(pc[h], job[h])'
  <2>1. CASE h = k
    <3>1. pc'[h] = there /\ job'[h] = j
      BY <1>1, <2>1 DEF Sound, TypeOK
    <3> QED
      BY <3>1, <1>1 DEF JobHolds
  <2>2. CASE h # k
    <3>1. pc'[h] = pc[h] /\ job'[h] = job[h]
      BY <1>1, <2>2 DEF Sound, TypeOK
    <3>2. JobHolds(pc[h], job[h])
      BY DEF Sound, JobsHold
    <3> QED
      BY <3>1, <3>2, <1>1 DEF JobHolds
  <2> QED
    BY <2>1, <2>2
<1> QED
  BY <1>1, <1>2, <1>3 DEF JobsHold, QueryHolds, Sound, TypeOK

LEMMA NoJobHolds ==
  /\ NoJob \in Job /\ JobHolds("idle", NoJob)
  /\ "idle" \in Places
BY DEF NoJob, Job, JobHolds, Places

LEMMA EndKeeps ==
  ASSUME Sound, NEW k \in Procs, End(k)
  PROVE /\ pc' \in [Procs -> Places] /\ job' \in [Procs -> Job]
        /\ JobsHold'
        /\ QueryHolds'
        /\ query' \in Asked
        /\ stored' = stored /\ current' = current
        /\ tag' = tag /\ wanted' = wanted /\ moved' = moved
<1>1. Step(k, pc[k], "idle", NoJob)
  BY DEF End, Step
<1> QED
  BY <1>1, NoJobHolds, StepKeeps

LEMMA JobFacts ==
  ASSUME Sound, NEW k \in Procs
  PROVE /\ job[k] \in Job /\ pc[k] \in Places
        /\ JobHolds(pc[k], job[k])
        /\ tag \in Models /\ moved \subseteq Models
BY DEF Sound, TypeOK, JobsHold

\* Steps that write no table.
LEMMA QuietStep ==
  ASSUME Sound, NEW k \in Procs, NEW here, NEW there \in Places, NEW j \in Job,
         Step(k, here, there, j), JobHolds(there, j), UNCHANGED tables
  PROVE Sound'
<1>1. /\ pc' \in [Procs -> Places] /\ job' \in [Procs -> Job]
      /\ JobsHold' /\ QueryHolds'
      /\ query' \in Asked
      /\ stored' = stored /\ current' = current
      /\ tag' = tag /\ wanted' = wanted /\ moved' = moved
  BY StepKeeps
<1>2. UNCHANGED <<spaces, active, vectors, links, failures>>
  BY DEF tables
<1>3. TypeOK'
  BY <1>1, <1>2 DEF Sound, TypeOK
<1>4. LinksHold' /\ Unmixed'
  BY <1>1, <1>2 DEF Sound, LinksHold, Unmixed
<1> QED
  BY <1>1, <1>3, <1>4 DEF Sound

LEMMA QuietEnd ==
  ASSUME Sound, NEW k \in Procs, End(k), UNCHANGED tables
  PROVE Sound'
<1>1. Step(k, pc[k], "idle", NoJob)
  BY DEF End, Step
<1> QED
  BY <1>1, NoJobHolds, QuietStep

\* Steps that write the state of the spaces only.
LEMMA SpaceStep ==
  ASSUME Sound, NEW k \in Procs, NEW here, NEW there \in Places, NEW j \in Job,
         Step(k, here, there, j), JobHolds(there, j),
         UNCHANGED <<vectors, links, failures>>,
         spaces' \in Seq(Spaces), active' \in Spaces \cup {None}
  PROVE Sound'
<1>1. /\ pc' \in [Procs -> Places] /\ job' \in [Procs -> Job]
      /\ JobsHold' /\ QueryHolds'
      /\ query' \in Asked
      /\ stored' = stored /\ current' = current
      /\ tag' = tag /\ wanted' = wanted /\ moved' = moved
  BY StepKeeps
<1>3. TypeOK'
  BY <1>1 DEF Sound, TypeOK
<1>4. LinksHold' /\ Unmixed'
  BY <1>1 DEF Sound, LinksHold, Unmixed
<1> QED
  BY <1>1, <1>3, <1>4 DEF Sound

-----------------------------------------------------------------------------
(* One lemma per action of a synchronisation.                              *)

LEMMA StartKeeps ==
  ASSUME Sound, NEW k \in Procs, Start(k)
  PROVE Sound'
<1> DEFINE j == [NoJob EXCEPT !.segs = {<<s, stored[s]>> : s \in current},
                             !.wanted = wanted]
<1>1. Step(k, "idle", "resolve", j) /\ UNCHANGED tables
  BY DEF Start
<1>2. {<<s, stored[s]>> : s \in current} \subseteq Segments \X Texts
  BY DEF Sound, TypeOK, LinksHold
<1>3. j \in Job /\ "resolve" \in Places
  BY <1>2 DEF Sound, TypeOK, NoJob, Job, Places
<1>4. JobHolds("resolve", j)
  BY DEF JobHolds, NoJob
<1> QED
  BY <1>1, <1>3, <1>4, QuietStep

LEMMA ResolveKeeps ==
  ASSUME Sound, NEW k \in Procs, Resolve(k)
  PROVE Sound'
<1> DEFINE j == [job[k] EXCEPT !.model = tag]
<1>1. Step(k, "resolve", "space", j) /\ UNCHANGED tables /\ pc[k] = "resolve"
  BY DEF Resolve, Step
<1>2. j \in Job /\ "space" \in Places
  BY JobFacts DEF Job, Places
<1>3. /\ j.segs = job[k].segs /\ j.space = job[k].space
      /\ j.model = tag /\ j.chunk = job[k].chunk
  BY JobFacts DEF Job
<1>4. j.space = None /\ j.chunk = {}
  BY <1>1, <1>3, JobFacts DEF JobHolds
<1>5. JobHolds("space", j)
  BY <1>1, <1>3, <1>4, JobFacts DEF JobHolds
<1> QED
  BY <1>1, <1>2, <1>5, QuietStep

LEMMA ChooseSpaceKeeps ==
  ASSUME Sound, NEW k \in Procs, ChooseSpace(k)
  PROVE Sound'
<1>1. pc[k] = "space" /\ UNCHANGED tables
  BY DEF ChooseSpace, Step
<1>2. CASE Step(k, "space", "clear", job[k])
  <2>1. "clear" \in Places /\ JobHolds("clear", job[k]) /\ job[k] \in Job
    BY <1>1, JobFacts DEF JobHolds, Places
  <2> QED
    BY <1>1, <1>2, <2>1, QuietStep
<1>3. ASSUME NEW d \in Dims,
             Step(k, "space", "persist",
                  [job[k] EXCEPT !.space = <<job[k].model, d>>])
      PROVE Sound'
  <2> DEFINE j == [job[k] EXCEPT !.space = <<job[k].model, d>>]
  <2>1. job[k].model \in Models
    BY <1>1, JobFacts DEF JobHolds
  <2>2. j \in Job /\ "persist" \in Places
    BY <2>1, JobFacts DEF Job, Places, Spaces
  <2>3. /\ j.segs = job[k].segs /\ j.space = <<job[k].model, d>>
        /\ j.model = job[k].model /\ j.chunk = job[k].chunk
    BY JobFacts DEF Job
  <2>4. j.space \in Spaces /\ j.space[1] = j.model
    BY <2>1, <2>3 DEF Spaces
  <2>5. JobHolds("persist", j)
    BY <1>1, <2>1, <2>3, <2>4, JobFacts DEF JobHolds
  <2> QED
    BY <1>1, <1>3, <2>2, <2>5, QuietStep
<1>4. job[k].wanted \in Settings \cup {Unset}
  BY JobFacts DEF Job
<1>5. \A d \in Youngest(job[k].model) : d \in Dims
  BY DEF Youngest
<1>6. job[k].wanted # Unset => job[k].wanted \in Dims
  BY <1>4 DEF Dims
<1> QED
  BY <1>2, <1>3, <1>5, <1>6 DEF ChooseSpace

LEMMA ClearKeeps ==
  ASSUME Sound, NEW k \in Procs, Clear(k)
  PROVE Sound'
<1> DEFINE j == [job[k] EXCEPT !.pending = TextsOf(job[k].segs)]
<1>1. /\ Step(k, "clear", "embed", j) /\ pc[k] = "clear" /\ active' = None
      /\ UNCHANGED <<spaces, vectors, links, failures>>
  BY DEF Clear, Step
<1>2. TextsOf(job[k].segs) \subseteq Texts
  BY JobFacts DEF TextsOf, Job
<1>3. j \in Job /\ "embed" \in Places
  BY <1>2, JobFacts DEF Job, Places
<1>4. j.segs = job[k].segs /\ j.space = job[k].space /\ j.model = job[k].model
  BY JobFacts DEF Job
<1>5. JobHolds("embed", j)
  BY <1>1, <1>4, JobFacts DEF JobHolds
<1>6. spaces' \in Seq(Spaces)
  BY <1>1 DEF Sound, TypeOK
<1> QED
  BY <1>1, <1>3, <1>5, <1>6, SpaceStep

LEMMA PersistKeeps ==
  ASSUME Sound, NEW k \in Procs, Persist(k)
  PROVE Sound'
<1>1. /\ Step(k, "persist", "activate", job[k]) /\ pc[k] = "persist"
      /\ UNCHANGED <<active, vectors, links, failures>>
      /\ spaces' = IF job[k].space \in Known THEN spaces
                   ELSE Append(spaces, job[k].space)
  BY DEF Persist, Step
<1>2. job[k] \in Job /\ job[k].space \in Spaces /\ "activate" \in Places
  BY <1>1, JobFacts DEF JobHolds, Job, Places
<1>3. JobHolds("activate", job[k])
  BY <1>1, JobFacts DEF JobHolds
<1>4. spaces' \in Seq(Spaces)
  BY <1>1, <1>2 DEF Sound, TypeOK
<1>5. active' \in Spaces \cup {None}
  BY <1>1 DEF Sound, TypeOK
<1> QED
  BY <1>1, <1>2, <1>3, <1>4, <1>5, SpaceStep

LEMMA ActivateKeeps ==
  ASSUME Sound, NEW k \in Procs, Activate(k)
  PROVE Sound'
<1> DEFINE j == [job[k] EXCEPT !.todo = TextsOf(job[k].segs)]
<1>1. /\ pc[k] = "activate" /\ active' = job[k].space
      /\ UNCHANGED <<spaces, vectors, links, failures>>
  BY DEF Activate, Step
<1>2. /\ job[k] \in Job /\ job[k].space \in Spaces
      /\ "lookup" \in Places /\ "store" \in Places
  BY <1>1, JobFacts DEF JobHolds, Job, Places
<1>3. active' \in Spaces \cup {None} /\ spaces' \in Seq(Spaces)
  BY <1>1, <1>2 DEF Sound, TypeOK
<1>4. CASE job[k].chunk = {}
  <2>1. Step(k, "activate", "lookup", j)
    BY <1>4 DEF Activate
  <2>2. TextsOf(job[k].segs) \subseteq Texts
    BY JobFacts DEF TextsOf, Job
  <2>3. j \in Job
    BY <2>2, JobFacts DEF Job
  <2>4. j.segs = job[k].segs /\ j.space = job[k].space /\ j.model = job[k].model
    BY JobFacts DEF Job
  <2>5. JobHolds("lookup", j)
    BY <1>1, <2>4, JobFacts DEF JobHolds
  <2> QED
    BY <1>1, <1>2, <1>3, <2>1, <2>3, <2>5, SpaceStep
<1>5. CASE job[k].chunk # {}
  <2>1. Step(k, "activate", "store", job[k])
    BY <1>5 DEF Activate
  <2>2. JobHolds("store", job[k])
    BY <1>1, JobFacts DEF JobHolds
  <2> QED
    BY <1>1, <1>2, <1>3, <2>1, <2>2, SpaceStep
<1> QED
  BY <1>4, <1>5

LEMMA LookupKeeps ==
  ASSUME Sound, NEW k \in Procs, Lookup(k)
  PROVE Sound'
<1>1. pc[k] = "lookup" /\ UNCHANGED tables
  BY DEF Lookup, Step
<1>2. PICK t \in job[k].todo :
        LET row == vectors[<<job[k].space, t>>]
            left == [job[k] EXCEPT !.todo = @ \ {t}]
        IN IF row = None
           THEN Step(k, "lookup", "lookup", [left EXCEPT !.pending = @ \cup {t}])
           ELSE Step(k, "lookup", IF row.sound THEN "link" ELSE "drop",
                     [left EXCEPT !.at = t])
  BY DEF Lookup
<1>3. t \in Texts /\ {"lookup", "link", "drop"} \subseteq Places
  BY JobFacts DEF Job, Places
<1> DEFINE left == [job[k] EXCEPT !.todo = @ \ {t}]
           p == [left EXCEPT !.pending = @ \cup {t}]
           a == [left EXCEPT !.at = t]
<1>4. left \in Job
  BY JobFacts DEF Job
<1>13. /\ left.segs = job[k].segs /\ left.space = job[k].space
       /\ left.model = job[k].model
  BY JobFacts DEF Job
<1>14. left.pending \cup {t} \in SUBSET Texts
  BY <1>3, <1>4 DEF Job
<1> HIDE DEF left
<1>5. /\ p \in Job /\ p.segs = job[k].segs /\ p.space = job[k].space
      /\ p.model = job[k].model
  <2>1. p = [left EXCEPT !.pending = left.pending \cup {t}]
    OBVIOUS
  <2>2. /\ p \in Job /\ p.segs = left.segs /\ p.space = left.space
        /\ p.model = left.model
    BY <1>4, <1>14, <2>1 DEF Job
  <2> QED
    BY <1>13, <2>2
<1>6. /\ a \in Job /\ a.segs = job[k].segs /\ a.space = job[k].space
      /\ a.model = job[k].model /\ a.at = t
  <2>1. /\ a \in Job /\ a.segs = left.segs /\ a.space = left.space
        /\ a.model = left.model /\ a.at = t
    BY <1>3, <1>4 DEF Job
  <2> QED
    BY <1>13, <2>1
<1>7. JobHolds("lookup", p)
  BY <1>1, <1>5, JobFacts DEF JobHolds
<1>8. t # None
  BY <1>3
<1>9. JobHolds("link", a) /\ JobHolds("drop", a)
  BY <1>1, <1>6, <1>8, JobFacts DEF JobHolds
<1> HIDE DEF p, a
<1>10. CASE Step(k, "lookup", "lookup", p)
  BY <1>1, <1>3, <1>5, <1>7, <1>10, QuietStep
<1>11. CASE Step(k, "lookup", "link", a)
  BY <1>1, <1>3, <1>6, <1>9, <1>11, QuietStep
<1>12. CASE Step(k, "lookup", "drop", a)
  BY <1>1, <1>3, <1>6, <1>9, <1>12, QuietStep
<1> QED
  BY <1>2, <1>10, <1>11, <1>12 DEF left, p, a

LEMMA EndLookupKeeps ==
  ASSUME Sound, NEW k \in Procs, EndLookup(k)
  PROVE Sound'
<1>1. Step(k, "lookup", "embed", job[k]) /\ pc[k] = "lookup" /\ UNCHANGED tables
  BY DEF EndLookup, Step
<1>2. job[k] \in Job /\ "embed" \in Places /\ JobHolds("embed", job[k])
  BY <1>1, JobFacts DEF JobHolds, Places
<1> QED
  BY <1>1, <1>2, QuietStep

\* Steps that write vectors, links and failures.
LEMMA VectorStep ==
  ASSUME Sound, NEW k \in Procs, NEW here, NEW there \in Places, NEW j \in Job,
         Step(k, here, there, j), JobHolds(there, j),
         UNCHANGED <<spaces, active>>,
         vectors' \in [Spaces \X Texts -> Vector \cup {None}],
         links' \subseteq Segments \X Spaces,
         failures' \subseteq Segments \X Spaces,
         \A l \in links' :
           stored[l[1]] \in Texts /\ vectors'[<<l[2], stored[l[1]]>>] # None,
         Unmixed'
  PROVE Sound'
<1>1. /\ pc' \in [Procs -> Places] /\ job' \in [Procs -> Job]
      /\ JobsHold' /\ QueryHolds'
      /\ query' \in Asked
      /\ stored' = stored /\ current' = current
      /\ tag' = tag /\ wanted' = wanted /\ moved' = moved
  BY StepKeeps
<1>3. TypeOK'
  BY <1>1 DEF Sound, TypeOK
<1>4. LinksHold'
  BY <1>1 DEF Sound, LinksHold
<1> QED
  BY <1>1, <1>3, <1>4 DEF Sound

\* The segments with one text that a job knows: each has it, or is gone.
LEMMA RefsFacts ==
  ASSUME Sound, NEW k \in Procs, NEW t \in Texts
  PROVE /\ Refs(k, t) \subseteq Segments
        /\ \A s \in Refs(k, t) : stored[s] \in Texts => stored[s] = t
<1>1. \A p \in job[k].segs : stored[p[1]] \in {p[2], Gone}
  BY JobFacts DEF JobHolds
<1>2. \A s \in Refs(k, t) : s \in Segments /\ stored[s] \in {t, Gone}
  BY <1>1 DEF Refs, Of
<1> QED
  BY <1>2

LEMMA LinkKeeps ==
  ASSUME Sound, NEW k \in Procs, Link(k)
  PROVE Sound'
<1> DEFINE sp == job[k].space
           t == job[k].at
           refs == Refs(k, t)
           j == [job[k] EXCEPT !.linked = @ \cup refs]
<1>1. /\ Step(k, "link", "lookup", j) /\ pc[k] = "link"
      /\ Linkable(refs, sp, t)
      /\ links' = links \cup (refs \X {sp})
      /\ failures' = failures \ (refs \X {sp})
      /\ UNCHANGED <<spaces, active, vectors>>
  BY DEF Link, Step
<1>2. sp \in Spaces /\ t \in Texts /\ "lookup" \in Places
  BY <1>1, JobFacts DEF JobHolds, Job, Places
<1>3. refs \subseteq Segments /\ \A s \in refs : stored[s] \in Texts => stored[s] = t
  BY <1>2, RefsFacts
<1>4. j \in Job
  BY <1>3, JobFacts DEF Job
<1>5. j.segs = job[k].segs /\ j.space = sp /\ j.model = job[k].model
  BY JobFacts DEF Job
<1>6. JobHolds("lookup", j)
  BY <1>1, <1>5, JobFacts DEF JobHolds
<1>7. \A s \in refs : stored[s] \in Texts /\ vectors[<<sp, stored[s]>>] # None
  BY <1>1, <1>3 DEF Linkable
<1>8. ASSUME NEW l \in links'
      PROVE stored[l[1]] \in Texts /\ vectors'[<<l[2], stored[l[1]]>>] # None
  <2>1. CASE l \in links
    BY <1>1, <2>1 DEF Sound, LinksHold
  <2>2. CASE l \in refs \X {sp}
    BY <1>1, <1>7, <2>2
  <2> QED
    BY <1>1, <2>1, <2>2
<1>9. /\ vectors' \in [Spaces \X Texts -> Vector \cup {None}]
      /\ links' \subseteq Segments \X Spaces /\ failures' \subseteq Segments \X Spaces
  BY <1>1, <1>2, <1>3 DEF Sound, TypeOK
<1>10. Unmixed'
  BY <1>1 DEF Sound, Unmixed, Step
<1> QED
  BY <1>1, <1>2, <1>4, <1>6, <1>8, <1>9, <1>10, VectorStep

LEMMA DropKeeps ==
  ASSUME Sound, NEW k \in Procs, Drop(k)
  PROVE Sound'
<1> DEFINE sp == job[k].space
           t == job[k].at
           j == [job[k] EXCEPT !.chunk = {t}]
<1>1. /\ Step(k, "drop", "blame", j) /\ pc[k] = "drop"
      /\ vectors' = [vectors EXCEPT ![<<sp, t>>] = None]
      /\ links' = {l \in links : ~(l[2] = sp /\ stored[l[1]] = t)}
      /\ UNCHANGED <<spaces, active, failures>>
  BY DEF Drop, Step
<1>2. sp \in Spaces /\ t \in Texts /\ "blame" \in Places
  BY <1>1, JobFacts DEF JobHolds, Job, Places
<1>3. j \in Job
  BY <1>2, JobFacts DEF Job
<1>4. j.segs = job[k].segs /\ j.space = sp /\ j.model = job[k].model
  BY JobFacts DEF Job
<1>5. JobHolds("blame", j)
  BY <1>1, <1>4, JobFacts DEF JobHolds
<1>6. vectors \in [Spaces \X Texts -> Vector \cup {None}]
  BY DEF Sound, TypeOK
<1>7. \A sq \in Spaces, u \in Texts :
        vectors'[<<sq, u>>] = IF sq = sp /\ u = t THEN None ELSE vectors[<<sq, u>>]
  BY <1>1, <1>6
<1>8. ASSUME NEW l \in links'
      PROVE stored[l[1]] \in Texts /\ vectors'[<<l[2], stored[l[1]]>>] # None
  <2>1. l \in links /\ ~(l[2] = sp /\ stored[l[1]] = t)
    BY <1>1
  <2>2. l[2] \in Spaces
    BY <2>1 DEF Sound, TypeOK
  <2>3. stored[l[1]] \in Texts /\ vectors[<<l[2], stored[l[1]]>>] # None
    BY <2>1 DEF Sound, LinksHold
  <2> QED
    BY <1>7, <2>1, <2>2, <2>3
<1>9. /\ vectors' \in [Spaces \X Texts -> Vector \cup {None}]
      /\ links' \subseteq Segments \X Spaces /\ failures' \subseteq Segments \X Spaces
  BY <1>1, <1>6 DEF Sound, TypeOK
<1>10. Unmixed'
  BY <1>1, <1>7 DEF Sound, Unmixed, Step
<1> QED
  BY <1>1, <1>2, <1>3, <1>5, <1>8, <1>9, <1>10, VectorStep

LEMMA BlameKeeps ==
  ASSUME Sound, NEW k \in Procs, Blame(k)
  PROVE Sound'
<1> DEFINE sp == job[k].space
           refs == UNION {Refs(k, t) : t \in job[k].chunk}
           there == IF pc[k] = "blame" THEN "lookup" ELSE "embed"
           j == [job[k] EXCEPT !.failed = @ \cup refs, !.chunk = {}]
<1>1. /\ pc[k] \in {"blame", "reject"} /\ Step(k, pc[k], there, j)
      /\ failures' = IF sp = None THEN failures ELSE failures \cup (refs \X {sp})
      /\ UNCHANGED <<spaces, active, vectors, links>>
  BY DEF Blame
<1>2. /\ job[k] \in Job /\ job[k].chunk \subseteq Texts
      /\ sp \in Spaces \cup {None}
  BY JobFacts DEF Job
<1>3. refs \subseteq Segments
  BY <1>2, RefsFacts
<1>4. j \in Job /\ there \in Places
  BY <1>2, <1>3 DEF Job, Places
<1>5. /\ j.segs = job[k].segs /\ j.space = sp /\ j.model = job[k].model
  BY <1>2 DEF Job
<1>6. JobHolds(there, j)
  BY <1>1, <1>5, JobFacts DEF JobHolds
<1>7. failures' \subseteq Segments \X Spaces
  BY <1>1, <1>2, <1>3 DEF Sound, TypeOK
<1>8. /\ vectors' \in [Spaces \X Texts -> Vector \cup {None}]
      /\ links' \subseteq Segments \X Spaces
  BY <1>1 DEF Sound, TypeOK
<1>9. \A l \in links' :
        stored[l[1]] \in Texts /\ vectors'[<<l[2], stored[l[1]]>>] # None
  BY <1>1 DEF Sound, LinksHold
<1>10. Unmixed'
  BY <1>1 DEF Sound, Unmixed, Step
<1> QED
  BY <1>1, <1>4, <1>6, <1>7, <1>8, <1>9, <1>10, VectorStep

LEMMA EmbedKeeps ==
  ASSUME Sound, NEW k \in Procs, Embed(k)
  PROVE Sound'
<1> DEFINE d == Answer(job[k].wanted)
<1>1. pc[k] = "embed" /\ UNCHANGED tables
  BY DEF Embed, Step
<1>2. PICK c \in Chunks(k) :
        LET rest == [job[k] EXCEPT !.pending = @ \ c, !.chunk = c, !.by = tag]
        IN IF job[k].space = None
           THEN Step(k, "embed", "persist",
                     [rest EXCEPT !.space = <<job[k].model, d>>])
           ELSE Step(k, "embed", IF d = job[k].space[2] THEN "store" ELSE "reject",
                     rest)
  BY DEF Embed
<1> DEFINE rest == [job[k] EXCEPT !.pending = @ \ c, !.chunk = c, !.by = tag]
           first == [rest EXCEPT !.space = <<job[k].model, d>>]
<1>3. /\ job[k] \in Job /\ job[k].model \in Models
      /\ job[k].model \in moved \/ job[k].model = tag
      /\ tag \in Models /\ c \subseteq Texts
  BY <1>1, JobFacts DEF JobHolds, Job, Chunks
<1>4. d \in Dims
  BY AnswerIsDims, <1>3 DEF Job
<1>5. <<job[k].model, d>> \in Spaces
  BY <1>3, <1>4 DEF Spaces
<1>6. /\ rest \in Job /\ rest.segs = job[k].segs /\ rest.space = job[k].space
      /\ rest.model = job[k].model /\ rest.by = tag
  BY <1>3 DEF Job
<1>7. /\ first \in Job /\ first.segs = job[k].segs
      /\ first.space = <<job[k].model, d>>
      /\ first.model = job[k].model /\ first.by = tag
  BY <1>3, <1>5 DEF Job
<1>8. {"persist", "store", "reject"} \subseteq Places
  BY DEF Places
<1>9. CASE job[k].space = None
  <2>1. Step(k, "embed", "persist", first)
    BY <1>2, <1>9
  <2>2. first.space # None
    BY <1>5, <1>7
  <2>3. first.space[1] = first.model
    BY <1>7
  <2>4. JobHolds("persist", first)
    BY <1>1, <1>3, <1>7, <2>2, <2>3, JobFacts DEF JobHolds
  <2> QED
    BY <1>1, <1>7, <1>8, <2>1, <2>4, QuietStep
<1>10. CASE job[k].space # None
  <2>1. JobHolds("store", rest) /\ JobHolds("reject", rest)
    BY <1>1, <1>3, <1>6, <1>10, JobFacts DEF JobHolds
  <2>2. Step(k, "embed", "store", rest) \/ Step(k, "embed", "reject", rest)
    BY <1>2, <1>10
  <2> QED
    BY <1>1, <1>6, <1>8, <2>1, <2>2, QuietStep
<1> QED
  BY <1>9, <1>10

LEMMA StoreKeeps ==
  ASSUME Sound, NEW k \in Procs, Store(k)
  PROVE Sound'
<1> DEFINE sp == job[k].space
           refs == UNION {Refs(k, t) : t \in job[k].chunk}
           j == [job[k] EXCEPT !.linked = @ \cup refs, !.chunk = {}]
<1>1. /\ Step(k, "store", "embed", j) /\ pc[k] = "store"
      /\ \A s \in refs : stored[s] \in Texts
      /\ vectors' = [v \in Spaces \X Texts |->
                       IF v[1] = sp /\ v[2] \in job[k].chunk
                       THEN [by |-> job[k].by, sound |-> TRUE] ELSE vectors[v]]
      /\ links' = links \cup (refs \X {sp})
      /\ failures' = failures \ (refs \X {sp})
      /\ UNCHANGED <<spaces, active>>
  BY DEF Store, Step
<1>2. /\ job[k] \in Job /\ sp \in Spaces /\ job[k].chunk \subseteq Texts
      /\ sp[1] = job[k].model /\ "embed" \in Places
  BY <1>1, JobFacts DEF JobHolds, Job, Places
<1>3. job[k].chunk # {} =>
        job[k].by \in Models /\ (sp[1] \in moved \/ job[k].by = sp[1])
  BY <1>1, <1>2, JobFacts DEF JobHolds
<1>4. /\ refs \subseteq Segments
      /\ \A s \in refs : stored[s] \in job[k].chunk
  BY <1>1, <1>2, RefsFacts
<1>5. j \in Job
  BY <1>2, <1>4 DEF Job
<1>6. j.segs = job[k].segs /\ j.space = sp /\ j.model = job[k].model
  BY <1>2 DEF Job
<1>7. JobHolds("embed", j)
  BY <1>1, <1>6, JobFacts DEF JobHolds
<1>8. job[k].chunk # {} => [by |-> job[k].by, sound |-> TRUE] \in Vector
  BY <1>3 DEF Vector
<1>9. vectors \in [Spaces \X Texts -> Vector \cup {None}]
  BY DEF Sound, TypeOK
<1>10. vectors' \in [Spaces \X Texts -> Vector \cup {None}]
  <2>1. ASSUME NEW v \in Spaces \X Texts
        PROVE (IF v[1] = sp /\ v[2] \in job[k].chunk
               THEN [by |-> job[k].by, sound |-> TRUE] ELSE vectors[v])
              \in Vector \cup {None}
    BY <1>8, <1>9
  <2> QED
    BY <1>1, <2>1
<1>11. links' \subseteq Segments \X Spaces /\ failures' \subseteq Segments \X Spaces
  BY <1>1, <1>2, <1>4 DEF Sound, TypeOK
<1>12. \A sq \in Spaces, u \in Texts :
         vectors'[<<sq, u>>] = IF sq = sp /\ u \in job[k].chunk
                               THEN [by |-> job[k].by, sound |-> TRUE]
                               ELSE vectors[<<sq, u>>]
  BY <1>1
<1>13. [by |-> job[k].by, sound |-> TRUE] # None \/ job[k].chunk = {}
  BY <1>8 DEF Vector
<1>14. ASSUME NEW l \in links'
       PROVE stored[l[1]] \in Texts /\ vectors'[<<l[2], stored[l[1]]>>] # None
  <2>1. CASE l \in links
    <3>1. /\ l[2] \in Spaces /\ stored[l[1]] \in Texts
          /\ vectors[<<l[2], stored[l[1]]>>] # None
      BY <2>1 DEF Sound, TypeOK, LinksHold
    <3> QED
      BY <1>12, <1>13, <3>1
  <2>2. CASE l \in refs \X {sp}
    <3>1. l[2] = sp /\ stored[l[1]] \in job[k].chunk /\ stored[l[1]] \in Texts
      BY <1>2, <1>4, <2>2
    <3> QED
      BY <1>2, <1>12, <1>13, <3>1
  <2> QED
    BY <1>1, <2>1, <2>2
<1>15. Unmixed'
  <2>0. moved' = moved
    BY <1>1 DEF Step
  <2>1. ASSUME NEW sq \in Spaces, NEW u \in Texts, sq[1] \notin moved,
               vectors'[<<sq, u>>] # None
        PROVE vectors'[<<sq, u>>].by = sq[1]
    <3>1. CASE sq = sp /\ u \in job[k].chunk
      <4>1. vectors'[<<sq, u>>].by = job[k].by
        BY <1>12, <3>1
      <4> QED
        BY <1>3, <2>1, <3>1, <4>1
    <3>2. CASE ~(sq = sp /\ u \in job[k].chunk)
      BY <1>12, <2>1, <3>2 DEF Sound, Unmixed
    <3> QED
      BY <3>1, <3>2
  <2> QED
    BY <2>0, <2>1 DEF Unmixed
<1> QED
  BY <1>1, <1>2, <1>5, <1>7, <1>10, <1>11, <1>14, <1>15, VectorStep

LEMMA FinishKeeps ==
  ASSUME Sound, NEW k \in Procs, Finish(k)
  PROVE Sound'
<1>1. /\ Step(k, "embed", "report", job[k]) /\ pc[k] = "embed"
      /\ active' = IF job[k].space # None THEN job[k].space ELSE active
      /\ UNCHANGED <<spaces, vectors, links, failures>>
  BY DEF Finish, Step
<1>2. job[k] \in Job /\ "report" \in Places /\ JobHolds("report", job[k])
  BY <1>1, JobFacts DEF JobHolds, Places
<1>3. active' \in Spaces \cup {None} /\ spaces' \in Seq(Spaces)
  BY <1>1, <1>2 DEF Sound, TypeOK, Job
<1> QED
  BY <1>1, <1>2, <1>3, SpaceStep

LEMMA MalformedKeeps ==
  ASSUME Sound, NEW k \in Procs, Malformed(k)
  PROVE Sound'
<1>1. pc[k] = "embed" /\ UNCHANGED tables
  BY DEF Malformed, Step
<1>2. PICK c \in Chunks(k) \cup ({job[k].pending} \ {{}}) :
        Step(k, "embed", "reject", [job[k] EXCEPT !.pending = @ \ c, !.chunk = c])
  BY DEF Malformed
<1> DEFINE i == [job[k] EXCEPT !.pending = @ \ c]
           j == [i EXCEPT !.chunk = c]
<1>3. c \in SUBSET Texts /\ "reject" \in Places
  BY JobFacts DEF Chunks, Job, Places
<1>7. i \in Job
  BY JobFacts DEF Job
<1>4. j \in Job
  BY <1>3, <1>7 DEF Job
<1>5. j.segs = job[k].segs /\ j.space = job[k].space /\ j.model = job[k].model
  BY JobFacts DEF Job
<1>6. JobHolds("reject", j)
  BY <1>1, <1>5, JobFacts DEF JobHolds
<1> QED
  BY <1>1, <1>2, <1>3, <1>4, <1>6, QuietStep

\* Every step of a synchronisation, with its errors and its end.
LEMMA SyncKeeps ==
  ASSUME Sound, NEW k \in Procs, Sync(k) \/ Crash(k) \/ Malformed(k)
  PROVE Sound'
<1>1. CASE Report(k) \/ Refused(k) \/ Crash(k)
  BY <1>1, QuietEnd DEF Report, Refused, Crash
<1> QED
  BY <1>1, StartKeeps, ResolveKeeps, ChooseSpaceKeeps, ClearKeeps, PersistKeeps,
     ActivateKeeps, LookupKeeps, EndLookupKeeps, LinkKeeps, DropKeeps,
     BlameKeeps, EmbedKeeps, StoreKeeps, FinishKeeps, MalformedKeeps
  DEF Sync, Go

-----------------------------------------------------------------------------
(* What goes on meanwhile.                                                 *)

\* Jobs know segments that were stored when they were read: one that appears
\* is none of theirs, and one that goes is allowed for.
LEMMA PromoteKeeps ==
  ASSUME Sound, NEW old \in SUBSET current, NEW s \in Segments, NEW t \in Texts,
         Promote(old, s, t)
  PROVE Sound'
<1>1. /\ stored[s] = New /\ stored' = [stored EXCEPT ![s] = t]
      /\ current' = (current \ old) \cup {s}
      /\ UNCHANGED <<tables, query, tag, wanted, moved, pc, job>>
  BY DEF Promote, Change
<1>2. UNCHANGED <<spaces, active, vectors, links, failures>>
  BY <1>1 DEF tables
<1>3. \A u \in Segments : stored'[u] = IF u = s THEN t ELSE stored[u]
  BY <1>1 DEF Sound, TypeOK
<1>4. TypeOK'
  BY <1>1, <1>2 DEF Sound, TypeOK
<1>5. LinksHold'
  <2>1. \A l \in links : l[1] \in Segments /\ stored[l[1]] \in Texts
    BY DEF Sound, TypeOK, LinksHold
  <2>2. \A l \in links : stored'[l[1]] = stored[l[1]]
    BY <1>1, <1>3, <2>1
  <2>3. \A u \in current : u \in Segments /\ stored[u] \in Texts
    BY DEF Sound, TypeOK, LinksHold
  <2> QED
    BY <1>1, <1>2, <1>3, <2>1, <2>2, <2>3 DEF Sound, LinksHold
<1>6. JobsHold'
  <2>1. ASSUME NEW k \in Procs PROVE JobHolds(pc[k], job[k])'
    <3>1. \A p \in job[k].segs :
            p[1] \in Segments /\ p[2] \in Texts /\ stored[p[1]] \in {p[2], Gone}
      BY JobFacts DEF JobHolds, Job
    <3>2. \A p \in job[k].segs : p[1] # s
      BY <1>1, <3>1
    <3> QED
      BY <1>1, <1>3, <3>1, <3>2, JobFacts DEF JobHolds
  <2> QED
    BY <2>1 DEF JobsHold
<1>7. QueryHolds' /\ Unmixed'
  BY <1>1, <1>2 DEF Sound, QueryHolds, Unmixed
<1> QED
  BY <1>4, <1>5, <1>6, <1>7 DEF Sound

LEMMA VanishKeeps ==
  ASSUME Sound, NEW old, Vanish(old)
  PROVE Sound'
<1>1. /\ current' = current \ old
      /\ UNCHANGED <<stored, tables, query, tag, wanted, moved, pc, job>>
  BY DEF Vanish, Change
<1> QED
  BY <1>1 DEF tables, Sound, TypeOK, LinksHold, JobsHold, JobHolds, QueryHolds,
              Unmixed

LEMMA RemoveRootKeeps ==
  ASSUME Sound, RemoveRoot
  PROVE Sound'
<1>1. /\ stored' = [s \in Segments |-> IF stored[s] = New THEN New ELSE Gone]
      /\ current' = {} /\ links' = {} /\ failures' = {}
      /\ UNCHANGED <<spaces, active, vectors, query, tag, wanted, moved, pc, job>>
  BY DEF RemoveRoot, Change
<1>2. TypeOK'
  BY <1>1 DEF Sound, TypeOK
<1>3. JobsHold'
  <2>1. ASSUME NEW k \in Procs PROVE JobHolds(pc[k], job[k])'
    <3>1. \A p \in job[k].segs :
            p[1] \in Segments /\ p[2] \in Texts /\ stored[p[1]] \in {p[2], Gone}
      BY JobFacts DEF JobHolds, Job
    <3>2. \A p \in job[k].segs : stored'[p[1]] = Gone
      BY <1>1, <3>1
    <3> QED
      BY <1>1, <3>2, JobFacts DEF JobHolds
  <2> QED
    BY <2>1 DEF JobsHold
<1>4. LinksHold' /\ QueryHolds' /\ Unmixed'
  BY <1>1 DEF Sound, LinksHold, QueryHolds, Unmixed
<1> QED
  BY <1>2, <1>3, <1>4 DEF Sound

\* A tag that moves is noted when somebody counts on it.
LEMMA PullKeeps ==
  ASSUME Sound, NEW m \in Models, Pull(m)
  PROVE Sound'
<1>1. /\ tag' = m
      /\ moved' = moved \cup CountedOn
      /\ UNCHANGED <<stored, current, spaces, active, vectors, links, failures,
                     query, wanted, pc, job>>
  BY DEF Pull, Change, evidence, tables
<1>2. CountedOn \subseteq Models
  <2>1. ASSUME NEW k \in Procs, Resolved(k) PROVE job[k].model \in Models
    BY <2>1, JobFacts DEF Resolved, JobHolds
  <2>2. query.at = "embed" => query.space[1] \in Models
    BY DEF Sound, QueryHolds, Spaces
  <2> QED
    BY <2>1, <2>2 DEF CountedOn
<1>3. TypeOK' /\ LinksHold'
  BY <1>1, <1>2 DEF Sound, TypeOK, LinksHold
<1>4. JobsHold'
  <2>1. ASSUME NEW k \in Procs PROVE JobHolds(pc[k], job[k])'
    <3>1. pc[k] \notin {"idle", "resolve"} => job[k].model \in moved'
      BY <1>1 DEF Resolved, CountedOn
    <3> QED
      BY <1>1, <3>1, JobFacts DEF JobHolds
  <2> QED
    BY <2>1 DEF JobsHold
<1>5. QueryHolds' /\ Unmixed'
  BY <1>1 DEF Sound, QueryHolds, Unmixed, CountedOn
<1> QED
  BY <1>3, <1>4, <1>5 DEF Sound

LEMMA ConfigureKeeps ==
  ASSUME Sound, NEW d \in Settings, Configure(d)
  PROVE Sound'
<1>1. wanted' = d /\ UNCHANGED <<evidence, tables, query, tag, moved, pc, job>>
  BY DEF Configure, Change
<1> QED
  BY <1>1 DEF evidence, tables, Sound, TypeOK, LinksHold, JobsHold, JobHolds,
              QueryHolds, Unmixed

LEMMA DamageKeeps ==
  ASSUME Sound, NEW sp \in Spaces, NEW t \in Texts, Damage(sp, t)
  PROVE Sound'
<1>1. /\ vectors[<<sp, t>>] # None
      /\ vectors' = [vectors EXCEPT ![<<sp, t>>].sound = FALSE]
      /\ UNCHANGED <<stored, current, spaces, active, links, failures, pc, job,
                     query, tag, wanted, moved>>
  BY DEF Damage, evidence
<1>2. vectors \in [Spaces \X Texts -> Vector \cup {None}]
  BY DEF Sound, TypeOK
<1>3. vectors[<<sp, t>>] \in Vector
  BY <1>1, <1>2
<1> DEFINE damaged == [vectors[<<sp, t>>] EXCEPT !.sound = FALSE]
<1>4. damaged \in Vector /\ damaged.by = vectors[<<sp, t>>].by
  BY <1>3 DEF Vector
<1>5. damaged # None
  BY <1>4 DEF Vector
<1>6. vectors' = [vectors EXCEPT ![<<sp, t>>] = damaged]
  BY <1>1
<1>7. /\ vectors' \in [Spaces \X Texts -> Vector \cup {None}]
      /\ \A sq \in Spaces, u \in Texts :
           vectors'[<<sq, u>>] = IF sq = sp /\ u = t THEN damaged
                                 ELSE vectors[<<sq, u>>]
  BY <1>2, <1>4, <1>6
<1>8. TypeOK'
  BY <1>1, <1>7 DEF Sound, TypeOK
<1>9. LinksHold'
  <2>1. \A l \in links : /\ l[2] \in Spaces /\ stored[l[1]] \in Texts
                         /\ vectors[<<l[2], stored[l[1]]>>] # None
    BY DEF Sound, TypeOK, LinksHold
  <2>2. \A l \in links : vectors'[<<l[2], stored[l[1]]>>] # None
    BY <1>5, <1>7, <2>1
  <2> QED
    BY <1>1, <2>1, <2>2 DEF Sound, LinksHold
<1>10. Unmixed'
  BY <1>1, <1>4, <1>7 DEF Sound, Unmixed
<1>11. JobsHold' /\ QueryHolds'
  BY <1>1 DEF Sound, JobsHold, JobHolds, QueryHolds
<1> QED
  BY <1>8, <1>9, <1>10, <1>11 DEF Sound

LEMMA WorldKeeps == Sound /\ World => Sound'
<1> SUFFICES ASSUME Sound, World PROVE Sound'
  OBVIOUS
<1>1. \A s \in current : s \in Segments
  BY DEF Sound, TypeOK
<1> QED
  BY PromoteKeeps, VanishKeeps, RemoveRootKeeps, PullKeeps, ConfigureKeeps,
     DamageKeeps DEF World

-----------------------------------------------------------------------------
(* A query writes nothing: what it goes on with is what it has compared.   *)

LEMMA QueryKeeps == Sound /\ Query => Sound'
<1> SUFFICES ASSUME Sound, Query PROVE Sound'
  OBVIOUS
<1>1. UNCHANGED <<stored, current, spaces, active, vectors, links, failures, pc,
                  job, tag, wanted, moved>>
  BY DEF Query, LoadSpace, CountLinked, ResolveQuery, EmbedQuery, Scan, Ask,
         evidence, tables, environment
<1>2. LinksHold' /\ JobsHold' /\ Unmixed'
  BY <1>1 DEF Sound, LinksHold, JobsHold, JobHolds, Unmixed
<1>3. /\ query' \in Asked
      /\ QueryHolds'
  <2>1. /\ active \in Spaces \cup {None} /\ tag \in Models
        /\ wanted \in Settings
    BY DEF Sound, TypeOK
  <2>9. query \in Asked
    BY DEF Sound, TypeOK
  <2>2. QueryHolds
    BY DEF Sound
  <2>3. CASE query' = NoQuery
    BY <2>3 DEF NoQuery, QueryHolds, Asked
  <2>4. CASE LoadSpace /\ query' # NoQuery
    BY <2>1, <2>4 DEF LoadSpace, Ask, NoQuery, QueryHolds, Asked
  <2>5. CASE CountLinked /\ query' # NoQuery
    <3>1. query.at = "count" /\ query' = [query EXCEPT !.at = "resolve"]
      BY <2>5 DEF CountLinked, Ask
    <3>2. /\ query'.at = "resolve" /\ query'.space = query.space
          /\ query' \in Asked
      BY <3>1, <2>1, <2>9 DEF Asked
    <3> QED
      BY <2>2, <3>1, <3>2 DEF QueryHolds
  <2>6. CASE ResolveQuery /\ query' # NoQuery
    <3>1. /\ query.at = "resolve" /\ query' = [query EXCEPT !.at = "embed"]
          /\ tag = query.space[1]
      BY <2>6 DEF ResolveQuery, Ask
    <3>2. /\ query'.at = "embed" /\ query'.space = query.space
          /\ query' \in Asked
      BY <3>1, <2>1, <2>9 DEF Asked
    <3> QED
      BY <1>1, <2>2, <3>1, <3>2 DEF QueryHolds
  <2>7. CASE EmbedQuery /\ query' # NoQuery
    <3>1. /\ query.at = "embed"
          /\ query' = [query EXCEPT !.at = "scan", !.by = tag]
      BY <2>7 DEF EmbedQuery, Ask
    <3>2. /\ query'.at = "scan" /\ query'.space = query.space /\ query'.by = tag
          /\ query' \in Asked
      BY <3>1, <2>1, <2>9 DEF Asked
    <3> QED
      BY <1>1, <2>2, <3>1, <3>2 DEF QueryHolds
  <2>8. CASE Scan
    BY <2>3, <2>8 DEF Scan, Ask
  <2> QED
    BY <2>3, <2>4, <2>5, <2>6, <2>7, <2>8 DEF Query
<1>4. TypeOK'
  BY <1>1, <1>3 DEF Sound, TypeOK
<1> QED
  BY <1>2, <1>3, <1>4 DEF Sound

-----------------------------------------------------------------------------
LEMMA InitSound == Init => Sound
<1> SUFFICES ASSUME Init PROVE Sound
  OBVIOUS
<1>1. TypeOK
  <2>1. query \in Asked
    BY DEF Init, NoQuery, Asked
  <2>2. spaces \in Seq(Spaces)
    BY DEF Init
  <2>3. pc \in [Procs -> Places] /\ job \in [Procs -> Job]
    BY NoJobHolds DEF Init
  <2>4. vectors \in [Spaces \X Texts -> Vector \cup {None}]
    BY DEF Init
  <2> QED
    BY <2>1, <2>2, <2>3, <2>4 DEF Init, TypeOK
<1>2. JobsHold
  BY NoJobHolds DEF Init, JobsHold
<1>3. LinksHold /\ QueryHolds /\ Unmixed
  BY DEF Init, LinksHold, QueryHolds, NoQuery, Unmixed
<1> QED
  BY <1>1, <1>2, <1>3 DEF Sound

LEMMA NextSound == Sound /\ [Next]_vars => Sound'
<1> SUFFICES ASSUME Sound, [Next]_vars PROVE Sound'
  OBVIOUS
<1>1. CASE UNCHANGED vars
  BY <1>1 DEF vars, evidence, tables, environment, Sound, TypeOK, LinksHold,
              JobsHold, JobHolds, QueryHolds, Unmixed
<1> QED
  BY <1>1, WorldKeeps, SyncKeeps, QueryKeeps DEF Next

\* Through any interleaving of any number of synchronisations with the
\* indexer, the owner, damaged rows, crashes and queries, no row of the
\* embedding tables refers to a segment or a vector that is not there, and only
\* the spaces of a model that the tag left under a running command may hold
\* vectors of another.
THEOREM EmbeddingsSound == Spec => []Sound
<1> QED
  BY InitSound, NextSound, PTL DEF Spec

\* A query compares its vector with vectors of the model it was embedded by,
\* unless the tag left that model under a running command.
THEOREM QueriesCompareAlike == Spec => []ComparedAlike
<1>1. Sound => ComparedAlike
  <2> SUFFICES ASSUME Sound, query.space[1] \notin moved, query.at = "scan",
                      NEW s \in Scorable(query.space)
               PROVE vectors[<<query.space, stored[s]>>].by = query.by
    BY DEF ComparedAlike
  <2>1. query.space \in Spaces /\ query.by = query.space[1] /\ Unmixed
    BY DEF Sound, QueryHolds
  <2>2. <<s, query.space>> \in links
    BY DEF Scorable
  <2>3. stored[s] \in Texts /\ vectors[<<query.space, stored[s]>>] # None
    BY <2>2 DEF Sound, LinksHold
  <2> QED
    BY <2>1, <2>3 DEF Unmixed
<1> QED
  BY <1>1, EmbeddingsSound, PTL

-----------------------------------------------------------------------------
(* One process: what it reports, and what it counts as failed.              *)

\* One process at most runs synchronisations.
OneProcess == \A j, k \in Procs : j = k

\* What a synchronisation has not begun yet.
Begun(at, j) ==
  /\ at \in {"idle", "resolve", "space", "clear"} =>
       j.pending = {} /\ j.chunk = {} /\ j.space = None
  /\ at \in {"idle", "resolve", "space", "clear", "persist", "activate"} =>
       j.linked = {}
  /\ j.space = None => j.linked = {}
  /\ at \in {"persist", "activate", "store"} => j.pending \cap j.chunk = {}

\* A segment it counts as linked is linked while it is there, and the texts it
\* has still to look up are not the text of such a segment.
LinkedHold(at, j) ==
  /\ \A s \in j.linked :
       /\ stored[s] # New
       /\ stored[s] \in Texts => <<s, j.space>> \in links
       /\ at \in {"lookup", "link", "drop", "blame"} => stored[s] \notin j.todo
       /\ at \in {"link", "drop"} => stored[s] # j.at
  /\ at \in {"link", "drop"} => j.at \notin j.todo

\* A text it has still to embed or to record as failed has no vector in its
\* space; the space is in the table unless it is about to be; without a space,
\* none of its model is.
PendingHold(at, j) ==
  /\ j.space # None => \A t \in j.pending \cup j.chunk : vectors[<<j.space, t>>] = None
  /\ j.space # None /\ at # "persist" => j.space \in Known
  /\ j.space = None /\ at \notin {"idle", "resolve", "space"} =>
       \A sp \in Known : sp[1] # j.model

Progress(at, j) == Begun(at, j) /\ LinkedHold(at, j) /\ PendingHold(at, j)

\* Vectors are of spaces in the table, and no failure of what is linked.
RowsHold ==
  /\ \A sp \in Spaces, t \in Texts : vectors[<<sp, t>>] # None => sp \in Known
  /\ failures \cap links = {}

\* The inductive invariant of one process after another.
Solitary == RowsHold /\ \A k \in Procs : Progress(pc[k], job[k])

LEMMA SoloFacts ==
  ASSUME Sound, Solitary, NEW k \in Procs
  PROVE /\ job[k] \in Job /\ JobHolds(pc[k], job[k])
        /\ Progress(pc[k], job[k])
BY JobFacts DEF Solitary

-----------------------------------------------------------------------------
(* What a step of the one process leaves.                                  *)

LEMMA SoloStep ==
  ASSUME Sound, OneProcess, NEW k \in Procs, NEW here, NEW there, NEW j,
         Step(k, here, there, j), RowsHold', Progress(there, j)'
  PROVE Solitary'
<1>1. pc' = [pc EXCEPT ![k] = there] /\ job' = [job EXCEPT ![k] = j]
  BY DEF Step
<1>2. pc'[k] = there /\ job'[k] = j
  BY <1>1 DEF Sound, TypeOK
<1>3. ASSUME NEW h \in Procs PROVE Progress(pc[h], job[h])'
  <2>1. h = k
    BY DEF OneProcess
  <2> QED
    BY <1>2, <2>1 DEF Progress, Begun, LinkedHold, PendingHold, Known
<1> QED
  BY <1>3 DEF Solitary

LEMMA SoloQuiet ==
  ASSUME Sound, Solitary, OneProcess, NEW k \in Procs, NEW here, NEW there,
         NEW j, Step(k, here, there, j), Progress(there, j), UNCHANGED tables
  PROVE Solitary'
<1>1. UNCHANGED <<stored, spaces, vectors, links, failures>>
  BY DEF Step, evidence, tables
<1>2. RowsHold'
  BY <1>1 DEF Solitary, RowsHold, Known
<1>3. Progress(there, j)'
  BY <1>1 DEF Progress, Begun, LinkedHold, PendingHold, Known
<1> QED
  BY <1>2, <1>3, SoloStep

LEMMA NothingBegun == Progress("idle", NoJob)
BY DEF Progress, Begun, LinkedHold, PendingHold, NoJob

LEMMA SoloEnd ==
  ASSUME Sound, Solitary, OneProcess, NEW k \in Procs, End(k), UNCHANGED tables
  PROVE Solitary'
<1>1. Step(k, pc[k], "idle", NoJob)
  BY DEF End, Step
<1> QED
  BY <1>1, NothingBegun, SoloQuiet

-----------------------------------------------------------------------------
(* One lemma per action of the synchronisation.                            *)

LEMMA StartSolo ==
  ASSUME Sound, Solitary, OneProcess, NEW k \in Procs, Start(k)
  PROVE Solitary'
<1> DEFINE j == [NoJob EXCEPT !.segs = {<<s, stored[s]>> : s \in current},
                             !.wanted = wanted]
<1>1. Step(k, "idle", "resolve", j) /\ UNCHANGED tables
  BY DEF Start
<1>2. j.pending = {} /\ j.chunk = {} /\ j.space = None /\ j.linked = {}
  BY DEF NoJob
<1>3. Progress("resolve", j)
  BY <1>2 DEF Progress, Begun, LinkedHold, PendingHold
<1> QED
  BY <1>1, <1>3, SoloQuiet

LEMMA ResolveSolo ==
  ASSUME Sound, Solitary, OneProcess, NEW k \in Procs, Resolve(k)
  PROVE Solitary'
<1> DEFINE j == [job[k] EXCEPT !.model = tag]
<1>1. Step(k, "resolve", "space", j) /\ UNCHANGED tables /\ pc[k] = "resolve"
  BY DEF Resolve, Step
<1>2. /\ j.pending = job[k].pending /\ j.chunk = job[k].chunk
      /\ j.space = job[k].space /\ j.linked = job[k].linked
  BY SoloFacts DEF Job
<1>3. Begun("resolve", job[k])
  BY <1>1, SoloFacts DEF Progress
<1>4. /\ j.pending = {} /\ j.chunk = {} /\ j.space = None /\ j.linked = {}
  BY <1>2, <1>3 DEF Begun
<1>5. Progress("space", j)
  BY <1>4 DEF Progress, Begun, LinkedHold, PendingHold
<1> QED
  BY <1>1, <1>5, SoloQuiet

\* Without a youngest space of a model, there is none.
LEMMA NoneIsYoungest ==
  ASSUME Sound, NEW m \in Models, Youngest(m) = {}
  PROVE \A sp \in Known : sp[1] # m
<1> DEFINE T == {Len(spaces) - i : i \in {h \in DOMAIN spaces : spaces[h][1] = m}}
<1>1. spaces \in Seq(Spaces)
  BY DEF Sound, TypeOK
<1>2. /\ Len(spaces) \in Nat /\ DOMAIN spaces = 1 .. Len(spaces)
      /\ \A i \in DOMAIN spaces : spaces[i] \in Spaces
  BY <1>1
<1>3. SUFFICES ASSUME NEW h \in DOMAIN spaces, spaces[h][1] = m PROVE FALSE
  BY DEF Known
<1>4. T \subseteq Nat /\ T # {}
  BY <1>2, <1>3
<1>5. PICK n \in T : \A l \in T : ~(<<l, n>> \in OpToRel(<, Nat))
  BY <1>4, NatLessThanWellFounded, WFMin
<1>6. \A l \in T : ~(l < n)
  BY <1>4, <1>5 DEF OpToRel
<1>7. PICK i \in DOMAIN spaces : spaces[i][1] = m /\ n = Len(spaces) - i
  BY <1>5
<1>8. ASSUME NEW j \in DOMAIN spaces, j > i PROVE spaces[j][1] # m
  <2>1. SUFFICES ASSUME spaces[j][1] = m PROVE FALSE
    OBVIOUS
  <2>2. Len(spaces) - j \in T
    BY <2>1
  <2>3. ~(Len(spaces) - j < n)
    BY <1>6, <2>2
  <2> QED
    BY <1>2, <1>7, <1>8, <2>3
<1>9. spaces[i][2] \in Dims /\ spaces[i] = <<m, spaces[i][2]>>
  BY <1>2, <1>7, SpaceIsPair
<1>10. spaces[i][2] \in Youngest(m)
  BY <1>8, <1>9 DEF Youngest
<1> QED
  BY <1>10

LEMMA ChooseSpaceSolo ==
  ASSUME Sound, Solitary, OneProcess, NEW k \in Procs, ChooseSpace(k)
  PROVE Solitary'
<1>1. pc[k] = "space" /\ UNCHANGED tables
  BY DEF ChooseSpace, Step
<1>2. /\ job[k].pending = {} /\ job[k].chunk = {} /\ job[k].space = None
      /\ job[k].linked = {} /\ job[k].model \in Models
  BY <1>1, SoloFacts DEF Progress, Begun, JobHolds
<1>3. ASSUME Step(k, "space", "clear", job[k]), Youngest(job[k].model) = {}
      PROVE Solitary'
  <2>1. \A sp \in Known : sp[1] # job[k].model
    BY <1>2, <1>3, NoneIsYoungest
  <2>2. Progress("clear", job[k])
    BY <1>2, <2>1 DEF Progress, Begun, LinkedHold, PendingHold
  <2> QED
    BY <1>1, <1>3, <2>2, SoloQuiet
<1>4. ASSUME NEW d \in Dims,
             Step(k, "space", "persist",
                  [job[k] EXCEPT !.space = <<job[k].model, d>>])
      PROVE Solitary'
  <2> DEFINE j == [job[k] EXCEPT !.space = <<job[k].model, d>>]
  <2>1. /\ j.pending = {} /\ j.chunk = {} /\ j.linked = {}
        /\ j.space = <<job[k].model, d>>
    BY <1>2, SoloFacts DEF Job
  <2>2. j.space # None
    BY <1>2, <2>1 DEF Spaces
  <2>3. Progress("persist", j)
    BY <2>1, <2>2 DEF Progress, Begun, LinkedHold, PendingHold
  <2> QED
    BY <1>1, <1>4, <2>3, SoloQuiet
<1>5. job[k].wanted \in Settings \cup {Unset}
  BY SoloFacts DEF Job
<1>6. \A d \in Youngest(job[k].model) : d \in Dims
  BY DEF Youngest
<1>7. job[k].wanted # Unset => job[k].wanted \in Dims
  BY <1>5 DEF Dims
<1> QED
  BY <1>3, <1>4, <1>6, <1>7 DEF ChooseSpace

\* Steps that leave what a job is held to alone.
LEMMA TablesAlone ==
  ASSUME Sound, Solitary, OneProcess, NEW k \in Procs, NEW here, NEW there,
         NEW j, Step(k, here, there, j), Progress(there, j),
         UNCHANGED <<spaces, vectors, links, failures>>
  PROVE Solitary'
<1>1. UNCHANGED stored
  BY DEF Step, evidence
<1>2. RowsHold'
  BY DEF Solitary, RowsHold, Known
<1>3. Progress(there, j)'
  BY <1>1 DEF Progress, Begun, LinkedHold, PendingHold, Known
<1> QED
  BY <1>2, <1>3, SoloStep

LEMMA ClearSolo ==
  ASSUME Sound, Solitary, OneProcess, NEW k \in Procs, Clear(k)
  PROVE Solitary'
<1> DEFINE j == [job[k] EXCEPT !.pending = TextsOf(job[k].segs)]
<1>1. /\ Step(k, "clear", "embed", j) /\ pc[k] = "clear"
      /\ UNCHANGED <<spaces, vectors, links, failures>>
  BY DEF Clear, Step
<1>2. /\ j.chunk = job[k].chunk /\ j.space = job[k].space
      /\ j.linked = job[k].linked /\ j.model = job[k].model
  BY SoloFacts DEF Job
<1>3. /\ job[k].space = None /\ job[k].linked = {}
      /\ \A sp \in Known : sp[1] # job[k].model
  BY <1>1, SoloFacts DEF Progress, Begun, PendingHold
<1>4. Progress("embed", j)
  BY <1>2, <1>3 DEF Progress, Begun, LinkedHold, PendingHold
<1> QED
  BY <1>1, <1>4, TablesAlone

LEMMA PersistSolo ==
  ASSUME Sound, Solitary, OneProcess, NEW k \in Procs, Persist(k)
  PROVE Solitary'
<1>1. /\ Step(k, "persist", "activate", job[k]) /\ pc[k] = "persist"
      /\ UNCHANGED <<vectors, links, failures, stored>>
      /\ spaces' = IF job[k].space \in Known THEN spaces
                   ELSE Append(spaces, job[k].space)
  BY DEF Persist, Step, evidence
<1>2. job[k].space \in Spaces
  BY <1>1, SoloFacts DEF JobHolds, Job
<1>3. PICK j : j = job[k]
  OBVIOUS
<1>4. Known \cup {j.space} \subseteq Known'
  <2>1. spaces \in Seq(Spaces)
    BY DEF Sound, TypeOK
  <2>2. CASE job[k].space \in Known
    BY <1>1, <1>3, <2>2 DEF Known
  <2>3. CASE job[k].space \notin Known
    <3>1. spaces' = Append(spaces, j.space)
      BY <1>1, <1>3, <2>3
    <3>2. /\ \A i \in DOMAIN spaces : i \in DOMAIN spaces' /\ spaces'[i] = spaces[i]
          /\ Len(spaces) + 1 \in DOMAIN spaces'
          /\ spaces'[Len(spaces) + 1] = j.space
      BY <1>2, <1>3, <2>1, <3>1
    <3> QED
      BY <3>2 DEF Known
  <2> QED
    BY <2>2, <2>3
<1>5. RowsHold'
  BY <1>1, <1>4 DEF Solitary, RowsHold
<1>6. /\ j.linked = {} /\ j.space # None /\ j.pending \cap j.chunk = {}
      /\ \A t \in j.pending \cup j.chunk : vectors[<<j.space, t>>] = None
  <2>1. Progress("persist", j)
    BY <1>1, <1>3, SoloFacts
  <2>2. j.space # None
    BY <1>2, <1>3
  <2> QED
    BY <2>1, <2>2 DEF Progress, Begun, PendingHold
<1>7. Progress("activate", j)'
  <2>1. Begun("activate", j)'
    BY <1>6 DEF Begun
  <2>2. LinkedHold("activate", j)'
    BY <1>6 DEF LinkedHold
  <2>3. PendingHold("activate", j)'
    BY <1>1, <1>4, <1>6 DEF PendingHold
  <2> QED
    BY <2>1, <2>2, <2>3 DEF Progress
<1> QED
  BY <1>1, <1>3, <1>5, <1>7, SoloStep

LEMMA ActivateSolo ==
  ASSUME Sound, Solitary, OneProcess, NEW k \in Procs, Activate(k)
  PROVE Solitary'
<1> DEFINE j == [job[k] EXCEPT !.todo = TextsOf(job[k].segs)]
<1>1. pc[k] = "activate" /\ UNCHANGED <<spaces, vectors, links, failures>>
  BY DEF Activate, Step
<1>2. /\ job[k].space # None /\ job[k].linked = {}
      /\ job[k].pending \cap job[k].chunk = {}
      /\ PendingHold("activate", job[k])
  BY <1>1, SoloFacts DEF Progress, Begun, JobHolds
<1>3. CASE job[k].chunk = {}
  <2>1. Step(k, "activate", "lookup", j)
    BY <1>3 DEF Activate
  <2>2. /\ j.space = job[k].space /\ j.linked = {}
        /\ j.pending = job[k].pending /\ j.chunk = job[k].chunk
    BY <1>2, SoloFacts DEF Job
  <2>3. Progress("lookup", j)
    BY <1>2, <2>2 DEF Progress, Begun, LinkedHold, PendingHold
  <2> QED
    BY <1>1, <2>1, <2>3, TablesAlone
<1>4. CASE job[k].chunk # {}
  <2>1. Step(k, "activate", "store", job[k])
    BY <1>4 DEF Activate
  <2>2. Progress("store", job[k])
    BY <1>2 DEF Progress, Begun, LinkedHold, PendingHold
  <2> QED
    BY <1>1, <2>1, <2>2, TablesAlone
<1> QED
  BY <1>3, <1>4

LEMMA LookupSolo ==
  ASSUME Sound, Solitary, OneProcess, NEW k \in Procs, Lookup(k)
  PROVE Solitary'
<1>1. pc[k] = "lookup" /\ UNCHANGED tables
  BY DEF Lookup, Step
<1>2. PICK t \in job[k].todo :
        LET row == vectors[<<job[k].space, t>>]
            left == [job[k] EXCEPT !.todo = @ \ {t}]
        IN IF row = None
           THEN Step(k, "lookup", "lookup", [left EXCEPT !.pending = @ \cup {t}])
           ELSE Step(k, "lookup", IF row.sound THEN "link" ELSE "drop",
                     [left EXCEPT !.at = t])
  BY DEF Lookup
<1> DEFINE left == [job[k] EXCEPT !.todo = @ \ {t}]
           p == [left EXCEPT !.pending = @ \cup {t}]
           a == [left EXCEPT !.at = t]
<1>3. left \in Job
  BY SoloFacts DEF Job
<1>4. /\ left.space = job[k].space /\ left.linked = job[k].linked
      /\ left.pending = job[k].pending /\ left.chunk = job[k].chunk
      /\ left.todo = job[k].todo \ {t}
  BY SoloFacts DEF Job
<1>5. /\ job[k].space # None /\ job[k].space \in Known
      /\ \A u \in job[k].pending \cup job[k].chunk : vectors[<<job[k].space, u>>] = None
      /\ LinkedHold("lookup", job[k])
  BY <1>1, SoloFacts DEF Progress, PendingHold, JobHolds
<1>6. \A s \in job[k].linked :
        /\ stored[s] # New
        /\ stored[s] \in Texts => <<s, job[k].space>> \in links
        /\ stored[s] \notin job[k].todo
  BY <1>5 DEF LinkedHold
<1> HIDE DEF left
<1>7. /\ p.space = left.space /\ p.linked = left.linked /\ p.chunk = left.chunk
      /\ p.todo = left.todo /\ p.pending = left.pending \cup {t}
  BY <1>3 DEF Job
<1>8. /\ a.space = left.space /\ a.linked = left.linked /\ a.chunk = left.chunk
      /\ a.todo = left.todo /\ a.pending = left.pending /\ a.at = t
  BY <1>3 DEF Job
<1> HIDE DEF p, a
<1>9. CASE Step(k, "lookup", "lookup", p) /\ vectors[<<job[k].space, t>>] = None
  <2>1. Progress("lookup", p)
    BY <1>4, <1>5, <1>6, <1>7, <1>9 DEF Progress, Begun, LinkedHold, PendingHold
  <2> QED
    BY <1>1, <1>9, <2>1, SoloQuiet
<1>10. Progress("link", a) /\ Progress("drop", a)
  BY <1>4, <1>5, <1>6, <1>8 DEF Progress, Begun, LinkedHold, PendingHold
<1>11. CASE Step(k, "lookup", "link", a)
  BY <1>1, <1>10, <1>11, SoloQuiet
<1>12. CASE Step(k, "lookup", "drop", a)
  BY <1>1, <1>10, <1>12, SoloQuiet
<1> QED
  BY <1>2, <1>9, <1>11, <1>12 DEF left, p, a

LEMMA EndLookupSolo ==
  ASSUME Sound, Solitary, OneProcess, NEW k \in Procs, EndLookup(k)
  PROVE Solitary'
<1>1. Step(k, "lookup", "embed", job[k]) /\ pc[k] = "lookup" /\ UNCHANGED tables
  BY DEF EndLookup, Step
<1>2. Progress("lookup", job[k]) /\ job[k].space # None
  BY <1>1, SoloFacts DEF JobHolds
<1>3. Progress("embed", job[k])
  BY <1>2 DEF Progress, Begun, LinkedHold, PendingHold
<1> QED
  BY <1>1, <1>3, SoloQuiet

LEMMA LinkSolo ==
  ASSUME Sound, Solitary, OneProcess, NEW k \in Procs, Link(k)
  PROVE Solitary'
<1>1. /\ Step(k, "link", "lookup",
              [job[k] EXCEPT !.linked = @ \cup Refs(k, job[k].at)])
      /\ pc[k] = "link" /\ Linkable(Refs(k, job[k].at), job[k].space, job[k].at)
      /\ links' = links \cup (Refs(k, job[k].at) \X {job[k].space})
      /\ failures' = failures \ (Refs(k, job[k].at) \X {job[k].space})
      /\ UNCHANGED <<spaces, vectors, stored>>
  BY DEF Link, Step, evidence
<1>2. PICK sp, t, refs : sp = job[k].space /\ t = job[k].at /\ refs = Refs(k, t)
  OBVIOUS
<1>3. PICK j : j = [job[k] EXCEPT !.linked = @ \cup refs]
  OBVIOUS
<1>4. /\ j.space = sp /\ j.linked = job[k].linked \cup refs
      /\ j.todo = job[k].todo /\ j.pending = job[k].pending
      /\ j.chunk = job[k].chunk
  BY <1>2, <1>3, SoloFacts DEF Job
<1>5. sp # None /\ sp \in Spaces /\ t \in Texts
  BY <1>1, <1>2, SoloFacts DEF JobHolds, Job
<1>6. \A s \in refs : stored[s] = t
  BY <1>1, <1>2, <1>5, RefsFacts DEF Linkable
<1>7. /\ sp \in Known /\ t \notin job[k].todo
      /\ \A u \in job[k].pending \cup job[k].chunk : vectors[<<sp, u>>] = None
      /\ \A s \in job[k].linked :
           /\ stored[s] # New
           /\ stored[s] \in Texts => <<s, sp>> \in links
           /\ stored[s] \notin job[k].todo
  BY <1>1, <1>2, <1>5, SoloFacts DEF Progress, PendingHold, LinkedHold
<1>8. /\ links' = links \cup (refs \X {sp})
      /\ failures' = failures \ (refs \X {sp})
  BY <1>1, <1>2
<1>9. RowsHold'
  BY <1>1, <1>8 DEF Solitary, RowsHold, Known
<1>10. Begun("lookup", j)' /\ PendingHold("lookup", j)'
  BY <1>1, <1>4, <1>5, <1>7 DEF Begun, PendingHold, Known
<1>11. LinkedHold("lookup", j)'
  BY <1>1, <1>4, <1>5, <1>6, <1>7, <1>8 DEF LinkedHold
<1>12. Progress("lookup", j)'
  BY <1>10, <1>11 DEF Progress
<1> QED
  BY <1>1, <1>2, <1>3, <1>9, <1>12, SoloStep

LEMMA DropSolo ==
  ASSUME Sound, Solitary, OneProcess, NEW k \in Procs, Drop(k)
  PROVE Solitary'
<1>1. /\ Step(k, "drop", "blame", [job[k] EXCEPT !.chunk = {job[k].at}])
      /\ pc[k] = "drop"
      /\ vectors' = [vectors EXCEPT ![<<job[k].space, job[k].at>>] = None]
      /\ links' = {l \in links : ~(l[2] = job[k].space /\ stored[l[1]] = job[k].at)}
      /\ UNCHANGED <<spaces, failures, stored>>
  BY DEF Drop, Step, evidence
<1>2. PICK sp, t : sp = job[k].space /\ t = job[k].at
  OBVIOUS
<1>3. PICK j : j = [job[k] EXCEPT !.chunk = {t}]
  OBVIOUS
<1>4. /\ j.space = sp /\ j.linked = job[k].linked /\ j.todo = job[k].todo
      /\ j.pending = job[k].pending /\ j.chunk = {t}
  BY <1>2, <1>3, SoloFacts DEF Job
<1>5. sp # None /\ sp \in Spaces /\ t \in Texts /\ job[k].pending \subseteq Texts
  BY <1>1, <1>2, SoloFacts DEF JobHolds, Job
<1>6. \A sq \in Spaces, u \in Texts :
        vectors'[<<sq, u>>] = IF sq = sp /\ u = t THEN None ELSE vectors[<<sq, u>>]
  BY <1>1, <1>2 DEF Sound, TypeOK
<1>7. /\ sp \in Known
      /\ \A u \in job[k].pending \cup job[k].chunk : vectors[<<sp, u>>] = None
      /\ \A s \in job[k].linked :
           /\ stored[s] # New
           /\ stored[s] \in Texts => <<s, sp>> \in links
           /\ stored[s] \notin job[k].todo
           /\ stored[s] # t
  BY <1>1, <1>2, <1>5, SoloFacts DEF Progress, PendingHold, LinkedHold
<1>8. links' = {l \in links : ~(l[2] = sp /\ stored[l[1]] = t)}
  BY <1>1, <1>2
<1>9. RowsHold'
  BY <1>1, <1>6, <1>8 DEF Solitary, RowsHold, Known
<1>10. Begun("blame", j)'
  BY <1>4, <1>5 DEF Begun
<1>11. PendingHold("blame", j)'
  BY <1>1, <1>4, <1>5, <1>6, <1>7 DEF PendingHold, Known
<1>12. LinkedHold("blame", j)'
  BY <1>1, <1>4, <1>7, <1>8 DEF LinkedHold
<1>13. Progress("blame", j)'
  BY <1>10, <1>11, <1>12 DEF Progress
<1> QED
  BY <1>1, <1>2, <1>3, <1>9, <1>13, SoloStep

\* What is recorded as failed has a text without a vector, or it is gone.
LEMMA BlameSolo ==
  ASSUME Sound, Solitary, OneProcess, NEW k \in Procs, Blame(k)
  PROVE Solitary'
<1>1. PICK there, sp, refs :
        /\ there = IF pc[k] = "blame" THEN "lookup" ELSE "embed"
        /\ sp = job[k].space
        /\ refs = UNION {Refs(k, t) : t \in job[k].chunk}
  OBVIOUS
<1>2. PICK j : j = [job[k] EXCEPT !.failed = @ \cup refs, !.chunk = {}]
  OBVIOUS
<1>3. /\ pc[k] \in {"blame", "reject"} /\ Step(k, pc[k], there, j)
      /\ sp # None => \A s \in refs : stored[s] \in Texts
      /\ failures' = IF sp = None THEN failures ELSE failures \cup (refs \X {sp})
      /\ UNCHANGED <<spaces, vectors, links, stored>>
  BY <1>1, <1>2 DEF Blame, Step, evidence
<1>4. /\ j.space = sp /\ j.linked = job[k].linked /\ j.todo = job[k].todo
      /\ j.pending = job[k].pending /\ j.chunk = {} /\ j.model = job[k].model
  BY <1>1, <1>2, SoloFacts DEF Job
<1>5. Progress(pc[k], job[k]) /\ job[k].chunk \subseteq Texts
  BY SoloFacts DEF Job
<1>6. ASSUME sp # None, NEW s \in refs PROVE <<s, sp>> \notin links
  <2>1. PICK t \in job[k].chunk : s \in Refs(k, t)
    BY <1>1, <1>6
  <2>2. stored[s] = t
    BY <1>3, <1>5, <1>6, <2>1, RefsFacts
  <2>3. vectors[<<sp, t>>] = None
    BY <1>1, <1>5, <1>6 DEF Progress, PendingHold
  <2> QED
    BY <2>2, <2>3 DEF Sound, LinksHold
<1>7. RowsHold'
  <2>1. failures' \cap links' = {}
    BY <1>3, <1>6 DEF Solitary, RowsHold
  <2> QED
    BY <1>3, <2>1 DEF Solitary, RowsHold, Known
<1>8. there = "lookup" => pc[k] = "blame"
  BY <1>1
<1>9. there \in {"lookup", "embed"}
  BY <1>1
<1>10. there = "lookup" => sp # None
  BY <1>1, <1>8, SoloFacts DEF JobHolds
<1>11. Begun(there, j) /\ PendingHold(there, j)
  BY <1>1, <1>3, <1>4, <1>5, <1>9, <1>10 DEF Progress, Begun, PendingHold
<1>12. LinkedHold(there, j)
  BY <1>1, <1>4, <1>5, <1>8, <1>9 DEF Progress, LinkedHold
<1>13. Progress(there, j)'
  BY <1>3, <1>11, <1>12 DEF Progress, Begun, PendingHold, LinkedHold, Known
<1> QED
  BY <1>3, <1>7, <1>13, SoloStep

LEMMA EmbedSolo ==
  ASSUME Sound, Solitary, OneProcess, NEW k \in Procs, Embed(k)
  PROVE Solitary'
<1>1. pc[k] = "embed" /\ UNCHANGED tables
  BY DEF Embed, Step
<1>2. PICK c \in Chunks(k) :
        LET rest == [job[k] EXCEPT !.pending = @ \ c, !.chunk = c, !.by = tag]
        IN IF job[k].space = None
           THEN Step(k, "embed", "persist",
                     [rest EXCEPT !.space = <<job[k].model, Answer(job[k].wanted)>>])
           ELSE Step(k, "embed",
                     IF Answer(job[k].wanted) = job[k].space[2]
                     THEN "store" ELSE "reject",
                     rest)
  BY DEF Embed
<1> DEFINE rest == [job[k] EXCEPT !.pending = @ \ c, !.chunk = c, !.by = tag]
           first == [rest EXCEPT !.space = <<job[k].model, Answer(job[k].wanted)>>]
<1>3. /\ job[k] \in Job /\ c \subseteq job[k].pending /\ job[k].model \in Models
      /\ c \subseteq Texts /\ job[k].pending \subseteq Texts
  BY <1>1, SoloFacts DEF Chunks, Job, JobHolds
<1>4. <<job[k].model, Answer(job[k].wanted)>> \in Spaces
  BY <1>3, AnswerIsDims DEF Spaces, Job
<1>5. /\ rest.pending = job[k].pending \ c /\ rest.chunk = c
      /\ rest.space = job[k].space /\ rest.linked = job[k].linked
  BY <1>3 DEF Job
<1>6. /\ first.pending = job[k].pending \ c /\ first.chunk = c
      /\ first.space = <<job[k].model, Answer(job[k].wanted)>>
      /\ first.linked = job[k].linked
  BY <1>3 DEF Job
<1>7. Progress("embed", job[k])
  BY <1>1, SoloFacts
<1> HIDE DEF rest, first
<1>8. CASE job[k].space = None
  <2>1. Step(k, "embed", "persist", first)
    BY <1>2, <1>8 DEF rest, first
  <2>2. \A t \in Texts : vectors[<<first.space, t>>] = None
    <3>1. first.space \notin Known
      BY <1>6, <1>7, <1>8 DEF Progress, PendingHold
    <3> QED
      BY <1>4, <1>6, <3>1 DEF Solitary, RowsHold
  <2>3. first.linked = {} /\ first.space # None
    BY <1>4, <1>6, <1>7, <1>8 DEF Progress, Begun
  <2>4. Begun("persist", first) /\ LinkedHold("persist", first)
    BY <1>6, <2>3 DEF Begun, LinkedHold
  <2>5. PendingHold("persist", first)
    BY <1>3, <1>6, <2>2, <2>3 DEF PendingHold
  <2> QED
    BY <1>1, <2>1, <2>4, <2>5, SoloQuiet DEF Progress
<1>9. CASE job[k].space # None
  <2>1. Begun("store", rest) /\ Begun("reject", rest)
    BY <1>5, <1>9 DEF Begun
  <2>2. LinkedHold("store", rest) /\ LinkedHold("reject", rest)
    BY <1>5, <1>7 DEF Progress, LinkedHold
  <2>3. PendingHold("store", rest) /\ PendingHold("reject", rest)
    BY <1>3, <1>5, <1>7, <1>9 DEF Progress, PendingHold
  <2>4. Step(k, "embed", "store", rest) \/ Step(k, "embed", "reject", rest)
    BY <1>2, <1>9 DEF rest
  <2> QED
    BY <1>1, <2>1, <2>2, <2>3, <2>4, SoloQuiet DEF Progress
<1> QED
  BY <1>8, <1>9

LEMMA StoreSolo ==
  ASSUME Sound, Solitary, OneProcess, NEW k \in Procs, Store(k)
  PROVE Solitary'
<1>1. PICK sp, refs, c : /\ sp = job[k].space /\ c = job[k].chunk
                         /\ refs = UNION {Refs(k, t) : t \in job[k].chunk}
  OBVIOUS
<1>2. PICK j : j = [job[k] EXCEPT !.linked = @ \cup refs, !.chunk = {}]
  OBVIOUS
<1>3. /\ Step(k, "store", "embed", j) /\ pc[k] = "store"
      /\ \A s \in refs : stored[s] \in Texts
      /\ vectors' = [v \in Spaces \X Texts |->
                       IF v[1] = sp /\ v[2] \in c
                       THEN [by |-> job[k].by, sound |-> TRUE] ELSE vectors[v]]
      /\ links' = links \cup (refs \X {sp})
      /\ failures' = failures \ (refs \X {sp})
      /\ UNCHANGED <<spaces, stored>>
  BY <1>1, <1>2 DEF Store, Step, evidence
<1>4. /\ j.space = sp /\ j.linked = job[k].linked \cup refs
      /\ j.pending = job[k].pending /\ j.chunk = {} /\ j.model = job[k].model
  BY <1>1, <1>2, SoloFacts DEF Job
<1>5. sp \in Spaces /\ sp # None /\ job[k].pending \subseteq Texts
  BY <1>1, <1>3, SoloFacts DEF JobHolds, Job
<1>6. /\ sp \in Known /\ job[k].pending \cap c = {}
      /\ \A u \in job[k].pending : vectors[<<sp, u>>] = None
      /\ \A s \in job[k].linked :
           /\ stored[s] # New
           /\ stored[s] \in Texts => <<s, sp>> \in links
  BY <1>1, <1>3, <1>5, SoloFacts DEF Progress, Begun, PendingHold, LinkedHold
<1>7. \A sq \in Spaces, u \in Texts :
        ~(sq = sp /\ u \in c) => vectors'[<<sq, u>>] = vectors[<<sq, u>>]
  BY <1>3
<1>8. RowsHold'
  <2>1. failures' \cap links' = {}
    BY <1>3 DEF Solitary, RowsHold
  <2>2. \A sq \in Spaces, u \in Texts : vectors'[<<sq, u>>] # None => sq \in Known'
    BY <1>3, <1>6, <1>7 DEF Solitary, RowsHold, Known
  <2> QED
    BY <2>1, <2>2 DEF RowsHold
<1>9. Begun("embed", j)'
  BY <1>4, <1>5 DEF Begun
<1>10. PendingHold("embed", j)'
  BY <1>3, <1>4, <1>5, <1>6, <1>7 DEF PendingHold, Known
<1>11. LinkedHold("embed", j)'
  BY <1>3, <1>4, <1>6 DEF LinkedHold
<1>12. Progress("embed", j)'
  BY <1>9, <1>10, <1>11 DEF Progress
<1> QED
  BY <1>3, <1>8, <1>12, SoloStep

LEMMA FinishSolo ==
  ASSUME Sound, Solitary, OneProcess, NEW k \in Procs, Finish(k)
  PROVE Solitary'
<1>1. /\ Step(k, "embed", "report", job[k]) /\ pc[k] = "embed"
      /\ UNCHANGED <<spaces, vectors, links, failures>>
  BY DEF Finish, Step
<1>2. Progress("embed", job[k])
  BY <1>1, SoloFacts
<1>3. Progress("report", job[k])
  BY <1>2 DEF Progress, Begun, LinkedHold, PendingHold
<1> QED
  BY <1>1, <1>3, TablesAlone

LEMMA MalformedSolo ==
  ASSUME Sound, Solitary, OneProcess, NEW k \in Procs, Malformed(k)
  PROVE Solitary'
<1>1. pc[k] = "embed" /\ UNCHANGED tables
  BY DEF Malformed, Step
<1>2. PICK c \in Chunks(k) \cup ({job[k].pending} \ {{}}) :
        Step(k, "embed", "reject", [job[k] EXCEPT !.pending = @ \ c, !.chunk = c])
  BY DEF Malformed
<1> DEFINE j == [job[k] EXCEPT !.pending = @ \ c, !.chunk = c]
<1>3. c \subseteq job[k].pending
  BY DEF Chunks
<1>4. /\ j.pending = job[k].pending \ c /\ j.chunk = c /\ j.model = job[k].model
      /\ j.space = job[k].space /\ j.linked = job[k].linked
  BY SoloFacts DEF Job
<1>5. Progress("embed", job[k])
  BY <1>1, SoloFacts
<1> HIDE DEF j
<1>6. Progress("reject", j)
  BY <1>3, <1>4, <1>5 DEF Progress, Begun, LinkedHold, PendingHold
<1> QED
  BY <1>1, <1>2, <1>6, SoloQuiet DEF j

LEMMA SyncSolo ==
  ASSUME Sound, Solitary, OneProcess, NEW k \in Procs,
         Sync(k) \/ Crash(k) \/ Malformed(k)
  PROVE Solitary'
<1>1. CASE Report(k) \/ Refused(k) \/ Crash(k)
  BY <1>1, SoloEnd DEF Report, Refused, Crash
<1> QED
  BY <1>1, StartSolo, ResolveSolo, ChooseSpaceSolo, ClearSolo, PersistSolo,
     ActivateSolo, LookupSolo, EndLookupSolo, LinkSolo, DropSolo, BlameSolo,
     EmbedSolo, StoreSolo, FinishSolo, MalformedSolo
  DEF Sync, Go

-----------------------------------------------------------------------------
(* What goes on meanwhile leaves the job as it is held.                    *)

LEMMA PromoteSolo ==
  ASSUME Sound, Solitary, NEW old, NEW s \in Segments, NEW t \in Texts,
         Promote(old, s, t)
  PROVE Solitary'
<1>1. /\ stored[s] = New /\ stored' = [stored EXCEPT ![s] = t]
      /\ UNCHANGED <<spaces, vectors, links, failures, pc, job>>
  BY DEF Promote, Change, tables
<1>2. RowsHold'
  BY <1>1 DEF Solitary, RowsHold, Known
<1>3. ASSUME NEW k \in Procs PROVE Progress(pc[k], job[k])'
  <2>1. Progress(pc[k], job[k]) /\ job[k].linked \subseteq Segments
    BY SoloFacts DEF Job
  <2>2. \A u \in job[k].linked : stored'[u] = stored[u]
    BY <1>1, <2>1 DEF Progress, LinkedHold, Sound, TypeOK
  <2>3. LinkedHold(pc[k], job[k])'
    BY <1>1, <2>1, <2>2 DEF Progress, LinkedHold
  <2>4. Begun(pc[k], job[k])' /\ PendingHold(pc[k], job[k])'
    BY <1>1, <2>1 DEF Progress, Begun, PendingHold, Known
  <2> QED
    BY <2>3, <2>4 DEF Progress
<1> QED
  BY <1>2, <1>3 DEF Solitary

LEMMA RemoveRootSolo ==
  ASSUME Sound, Solitary, RemoveRoot
  PROVE Solitary'
<1>1. /\ stored' = [s \in Segments |-> IF stored[s] = New THEN New ELSE Gone]
      /\ links' = {} /\ failures' = {}
      /\ UNCHANGED <<spaces, vectors, pc, job>>
  BY DEF RemoveRoot, Change
<1>2. RowsHold'
  BY <1>1 DEF Solitary, RowsHold, Known
<1>3. ASSUME NEW k \in Procs PROVE Progress(pc[k], job[k])'
  <2>1. /\ Progress(pc[k], job[k]) /\ job[k].linked \subseteq Segments
        /\ job[k].todo \subseteq Texts /\ job[k].at \in Texts \cup {None}
        /\ pc[k] \in {"link", "drop"} => job[k].at # None
    BY SoloFacts DEF Job, JobHolds
  <2>2. \A u \in job[k].linked : stored'[u] = Gone
    BY <1>1, <2>1 DEF Progress, LinkedHold
  <2>3. LinkedHold(pc[k], job[k])'
    BY <1>1, <2>1, <2>2 DEF Progress, LinkedHold
  <2>4. Begun(pc[k], job[k])' /\ PendingHold(pc[k], job[k])'
    BY <1>1, <2>1 DEF Progress, Begun, PendingHold, Known
  <2> QED
    BY <2>3, <2>4 DEF Progress
<1> QED
  BY <1>2, <1>3 DEF Solitary

\* A damaged vector is still there.
LEMMA DamageSolo ==
  ASSUME Sound, Solitary, NEW sp \in Spaces, NEW t \in Texts, Damage(sp, t)
  PROVE Solitary'
<1>1. /\ vectors[<<sp, t>>] # None
      /\ vectors' = [vectors EXCEPT ![<<sp, t>>].sound = FALSE]
      /\ UNCHANGED <<stored, spaces, links, failures, pc, job>>
  BY DEF Damage, evidence
<1>2. \A sq \in Spaces, u \in Texts :
        vectors'[<<sq, u>>] = IF sq = sp /\ u = t THEN vectors'[<<sp, t>>]
                              ELSE vectors[<<sq, u>>]
  BY <1>1 DEF Sound, TypeOK
<1>3. RowsHold'
  <2>1. sp \in Known
    BY <1>1 DEF Solitary, RowsHold
  <2> QED
    BY <1>1, <1>2, <2>1 DEF Solitary, RowsHold, Known
<1>4. ASSUME NEW k \in Procs PROVE Progress(pc[k], job[k])'
  <2>1. /\ Progress(pc[k], job[k]) /\ job[k].space \in Spaces \cup {None}
        /\ job[k].pending \cup job[k].chunk \subseteq Texts
    BY SoloFacts DEF Job
  <2>2. PendingHold(pc[k], job[k])'
    BY <1>1, <1>2, <2>1 DEF Progress, PendingHold, Known
  <2>3. Begun(pc[k], job[k])' /\ LinkedHold(pc[k], job[k])'
    BY <1>1, <2>1 DEF Progress, Begun, LinkedHold
  <2> QED
    BY <2>2, <2>3 DEF Progress
<1> QED
  BY <1>3, <1>4 DEF Solitary

LEMMA OthersSolo ==
  ASSUME Solitary, UNCHANGED <<stored, spaces, vectors, links, failures, pc, job>>
  PROVE Solitary'
BY DEF Solitary, RowsHold, Progress, Begun, LinkedHold, PendingHold, Known

LEMMA WorldSolo ==
  ASSUME Sound, Solitary, World
  PROVE Solitary'
<1>1. CASE \E s \in current : Vanish({s})
  BY <1>1, OthersSolo DEF Vanish, Change, tables
<1>2. CASE \E m \in Models : Pull(m)
  BY <1>2, OthersSolo DEF Pull, Change, evidence, tables
<1>3. CASE \E d \in Settings : Configure(d)
  BY <1>3, OthersSolo DEF Configure, Change, evidence, tables
<1> QED
  BY <1>1, <1>2, <1>3, PromoteSolo, RemoveRootSolo, DamageSolo DEF World

LEMMA QuerySolo ==
  ASSUME Solitary, Query
  PROVE Solitary'
<1>1. UNCHANGED <<evidence, tables, pc, job>>
  BY DEF Query, LoadSpace, CountLinked, ResolveQuery, EmbedQuery, Scan, Ask
<1> QED
  BY <1>1, OthersSolo DEF evidence, tables

LEMMA InitSolo == Init => Solitary
<1> SUFFICES ASSUME Init PROVE Solitary
  OBVIOUS
<1>1. RowsHold
  BY DEF Init, RowsHold
<1>2. \A k \in Procs : pc[k] = "idle" /\ job[k] = NoJob
  BY DEF Init
<1> QED
  BY <1>1, <1>2, NothingBegun DEF Solitary

LEMMA NextSolo == OneProcess /\ Sound /\ Solitary /\ [Next]_vars => Solitary'
<1> SUFFICES ASSUME OneProcess, Sound, Solitary, [Next]_vars PROVE Solitary'
  OBVIOUS
<1>1. CASE UNCHANGED vars
  BY <1>1, OthersSolo DEF vars, evidence, tables
<1> QED
  BY <1>1, WorldSolo, SyncSolo, QuerySolo DEF Next

LEMMA SolitaryHolds == OneProcess => (Spec => []Solitary)
<1> SUFFICES ASSUME OneProcess PROVE Spec => []Solitary
  OBVIOUS
<1>1. Solitary /\ Sound /\ [Next]_vars => Solitary'
  BY NextSolo
<1> QED
  BY <1>1, InitSolo, EmbeddingsSound, PTL DEF Spec

\* With one process, a synchronisation that reports "completed" has linked
\* each segment it has read, and which is still there, in the space it has made
\* active: whatever the indexer, the owner and damage do between its statements.
THEOREM SoloReportsAreTrue == OneProcess => (Spec => []ReportIsTrue)
<1> SUFFICES ASSUME OneProcess PROVE Spec => []ReportIsTrue
  OBVIOUS
<1>1. Solitary => ReportIsTrue
  <2> SUFFICES ASSUME Solitary, NEW k \in Procs, pc[k] = "report", Completed(k),
                      NEW p \in job[k].segs, stored[p[1]] \in Texts
               PROVE <<p[1], job[k].space>> \in links
    BY DEF ReportIsTrue
  <2>1. p[1] \in job[k].linked
    BY DEF Completed
  <2> QED
    BY <2>1 DEF Solitary, Progress, LinkedHold
<1> QED
  BY <1>1, SolitaryHolds, PTL

\* With one process, what is recorded as failed is not linked.
THEOREM SoloFailuresAreUnlinked == OneProcess => (Spec => []FailedIsUnlinked)
<1> SUFFICES ASSUME OneProcess PROVE Spec => []FailedIsUnlinked
  OBVIOUS
<1>1. Solitary => FailedIsUnlinked
  BY DEF Solitary, RowsHold, FailedIsUnlinked
<1> QED
  BY <1>1, SolitaryHolds, PTL
=============================================================================
