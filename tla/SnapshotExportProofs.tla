------------------------ MODULE SnapshotExportProofs ------------------------
(***************************************************************************)
(* For any roots and names, any number of exports that meet in a temporary *)
(* directory, wherever they crash, and whatever other commands commit      *)
(* between their SELECTs: what a snapshot that can be imported shows was   *)
(* served while it was made.  Of an export that was alone it shows the     *)
(* roots at one moment, and when nothing changed it can be imported.       *)
(***************************************************************************)
EXTENDS SnapshotExport, TLAPS

-----------------------------------------------------------------------------
(* The kinds of what there is.                                             *)

Payload ==
  [tables : BOOLEAN, roots : SUBSET Roots, sources : SUBSET Copy,
   revisions : SUBSET Copy, segments : SUBSET Copy]

Tallies == {Counts(payload) : payload \in Payload}

Manifest == [checksum : Payload, roots : SUBSET Roots, counts : Tallies]

Directory ==
  [exists : BOOLEAN, payload : Payload \cup {None}, open : SUBSET Procs,
   manifest : Manifest \cup {None}]

Job ==
  [destination : Destinations \cup {None}, only : SUBSET Roots,
   todo : SUBSET Roots, root : Roots \cup {None}, bytes : Payload,
   roots : SUBSET Roots, counts : Tallies, alone : BOOLEAN,
   moment : SUBSET Copy, lost : SUBSET Source, seen : SUBSET Copy,
   changed : BOOLEAN]

\* Before a process has made the tables, and from then on.
Early == {"clear", "make", "open", "create"}
Copying == {"roots", "sources", "revisions", "segments"}
Copied == {"describe", "count", "manifest", "restrict", "rename"}
Past == Copying \cup Copied

Kinds ==
  /\ active \subseteq Source /\ current \in [Source -> Nat]
  /\ newest \in [Source -> Nat]
  /\ temp \in Directory
  /\ published = [d \in Destinations |-> published[d]]
  /\ pc \in [Procs -> {"idle"} \cup Early \cup Past]
  /\ job \in [Procs -> Job]

-----------------------------------------------------------------------------
(* The invariant.                                                          *)

\* Nobody has a file open that is not there; only tables are written to, and
\* only a process that has made them writes.
Shelf ==
  /\ temp.payload = None => temp.open = {}
  /\ temp.payload # None /\ ~temp.payload.tables => temp.payload = Blank
  /\ \A k \in Procs :
       pc[k] \in Past /\ k \in temp.open => temp.payload.tables

\* What a running export may yet copy, what is at its path once it has made the
\* tables, and what it has published, has been served while it ran.
Witnessed ==
  /\ \A k \in Procs :
       /\ pc[k] # "idle" => Served \subseteq job[k].seen
       /\ pc[k] \in Past /\ temp.payload # None =>
            temp.payload.segments \subseteq job[k].seen
  /\ \A d \in Destinations :
       published[d] # None /\ published[d].payload # None =>
         published[d].payload.segments \subseteq published[d].export.seen

\* An export that is alone has seen no other one start.
Apart ==
  \A k \in Procs :
    /\ job[k].alone => pc[k] # "idle" /\ \A l \in Procs \ {k} : pc[l] = "idle"
    /\ pc[k] \in Early \cup {"roots"} => job[k].todo = {} /\ job[k].moment = {}

\* The roots whose sources, revisions and segments an export has copied.
Sourced(k) == temp.payload.roots \ job[k].todo
Revised(k) == Sourced(k) \ (IF pc[k] = "revisions" THEN {job[k].root} ELSE {})
Segmented(k) ==
  Sourced(k) \ (IF pc[k] \in {"revisions", "segments"} THEN {job[k].root} ELSE {})

\* The payload of an export that is alone is its own, and has the roots it has
\* asked for and the sources it has seen.
Own(k) ==
  LET payload == temp.payload
  IN /\ payload # None /\ k \in temp.open
     /\ pc[k] = "roots" => payload = [Blank EXCEPT !.tables = TRUE]
     /\ payload.roots \subseteq job[k].only
     /\ job[k].todo \subseteq payload.roots
     /\ pc[k] \in {"revisions", "segments"} => job[k].root \in Sourced(k)
     /\ pc[k] \in Copied => job[k].todo = {}
     /\ payload.sources = job[k].moment
     /\ \A c \in payload.sources : c[1][1] \in Sourced(k)

\* One revision of each source has been copied, and one segment of each that
\* had one and has not been deleted since.
Matched(k) ==
  LET payload == temp.payload
  IN /\ \A c \in payload.revisions : c[1][1] \in Revised(k)
     /\ \A b, c \in payload.revisions : b[1] = c[1] => b = c
     /\ \A c \in job[k].moment :
          c[2] # 0 /\ c[1] \notin job[k].lost =>
            /\ c[1] \in active /\ current[c[1]] # 0
            /\ c[1][1] \in Segmented(k) => \E g \in payload.segments : g[1] = c[1]

\* What an export that is alone has written down of its payload.
Written(k) ==
  LET payload == temp.payload
  IN /\ pc[k] \in Copied => job[k].bytes = payload
     /\ pc[k] \in Copied \ {"describe"} => job[k].roots = payload.roots
     /\ pc[k] \in {"manifest", "restrict", "rename"} =>
          job[k].counts = Counts(payload)
     /\ pc[k] \in {"restrict", "rename"} =>
          temp.manifest = [checksum |-> job[k].bytes, roots |-> job[k].roots,
                           counts |-> job[k].counts]
     /\ pc[k] = "rename" => temp.manifest # None

\* What the database says of some roots.
Of(roots) == {<<s, current[s]>> : s \in {t \in active : t[1] \in roots}}
Revisions(roots) == {c \in Of(roots) : c[2] # 0}

\* When nothing has changed since it selected its roots, the payload has what
\* the database says of them.
Still(k) ==
  ~job[k].changed /\ pc[k] # "roots" =>
    /\ temp.payload.sources = Of(Sourced(k))
    /\ temp.payload.revisions = Revisions(Revised(k))
    /\ temp.payload.segments = Revisions(Segmented(k))

Lone ==
  \A k \in Procs :
    job[k].alone /\ pc[k] \in Past => Own(k) /\ Matched(k) /\ Written(k) /\ Still(k)

\* What holds of every export, alone or not.
Common == Kinds /\ Shelf /\ Witnessed /\ Apart

-----------------------------------------------------------------------------
(* Kinds.                                                                  *)

LEMMA CountsTally ==
  ASSUME NEW payload \in Payload
  PROVE Counts(payload) \in Tallies
BY DEF Tallies

LEMMA NoneIsNoPayload == None \notin Payload
BY SnapshotExportAssumption DEF Payload

LEMMA BlankKind ==
  /\ Blank \in Payload /\ File(None) = Blank
  /\ \A payload \in Payload : File(payload) = payload
<1>1. Blank \in Payload
  BY DEF Blank, Payload
<1> QED
  BY <1>1, NoneIsNoPayload DEF File

LEMMA IdleKind == Idle \in Job
<1>1. Blank \in Payload /\ Counts(Blank) \in Tallies
  BY BlankKind, CountsTally
<1> QED
  BY <1>1 DEF Idle, Job

LEMMA NoDirectoryKind == NoDirectory \in Directory
BY DEF NoDirectory, Directory

LEMMA KindsFacts ==
  ASSUME Kinds, NEW k \in Procs
  PROVE /\ temp \in Directory /\ temp.payload \in Payload \cup {None}
        /\ temp.open \subseteq Procs /\ temp.manifest \in Manifest \cup {None}
        /\ job[k] \in Job
        /\ job[k].todo \subseteq Roots /\ job[k].only \subseteq Roots
        /\ job[k].root \in Roots \cup {None}
        /\ job[k].moment \subseteq Copy
        /\ job[k].bytes \in Payload /\ job[k].counts \in Tallies
        /\ job[k].roots \subseteq Roots
        /\ DOMAIN job = Procs /\ DOMAIN pc = Procs
BY DEF Kinds, Directory, Job

\* What the statements of an export see is of its kind.
LEMMA RowsKind ==
  ASSUME Kinds
  PROVE /\ Served \subseteq Copy
        /\ \A r : /\ Rows(r) \subseteq Copy
                  /\ CurrentRevisions(r) \subseteq Rows(r)
        /\ \A r \in Roots : CurrentRevisions(r) \subseteq Served
BY DEF Kinds, Served, CurrentRevisions, Rows, Copy

\* What a commit of another command does.
LEMMA IndexFacts ==
  ASSUME Kinds, Index
  PROVE \E lost \in SUBSET Source :
          /\ active' \subseteq Source /\ current' \in [Source -> Nat]
          /\ newest' \in [Source -> Nat]
          /\ \A s \in active \ lost :
               s \in active' /\ (current[s] # 0 => current'[s] # 0)
          /\ Change(lost)
<1>1. /\ active \subseteq Source /\ current \in [Source -> Nat]
      /\ newest \in [Source -> Nat]
  BY DEF Kinds
<1>2. ASSUME NEW s \in Source, Upsert(s)
      PROVE /\ active' \subseteq Source /\ current' = current /\ newest' = newest
            /\ active \subseteq active' /\ Change({})
  BY <1>1, <1>2 DEF Upsert
<1>3. ASSUME NEW s \in Source, Promote(s)
      PROVE /\ active' = active /\ current' \in [Source -> Nat]
            /\ newest' \in [Source -> Nat]
            /\ \A t \in Source : current[t] # 0 => current'[t] # 0
            /\ Change({})
  <2>1. newest[s] + 1 \in Nat \ {0}
    BY <1>1
  <2> QED
    BY <1>1, <1>3, <2>1 DEF Promote
<1>4. ASSUME NEW s \in Source, MarkDeleted(s)
      PROVE /\ active' = active \ {s} /\ current' \in [Source -> Nat]
            /\ newest' = newest
            /\ \A t \in active \ {s} : current'[t] = current[t]
            /\ Change({s})
  BY <1>1, <1>4 DEF MarkDeleted
<1>5. ASSUME NEW r \in Roots, UpsertRoot(r)
      PROVE UNCHANGED <<active, current, newest>> /\ Change({})
  BY <1>5 DEF UpsertRoot
<1>6. ASSUME NEW r \in Roots, DeleteRoot(r)
      PROVE LET lost == {s \in active : s[1] = r}
            IN /\ active' = active \ lost /\ current' \in [Source -> Nat]
               /\ newest' = newest
               /\ \A t \in active \ lost : current'[t] = current[t]
               /\ Change(lost)
  BY <1>1, <1>6 DEF DeleteRoot
<1>7. ASSUME NEW s \in Source, Upsert(s) \/ Promote(s) \/ MarkDeleted(s)
      PROVE \E lost \in SUBSET Source :
              /\ active' \subseteq Source /\ current' \in [Source -> Nat]
              /\ newest' \in [Source -> Nat]
              /\ \A t \in active \ lost :
                   t \in active' /\ (current[t] # 0 => current'[t] # 0)
              /\ Change(lost)
  <2>1. {} \in SUBSET Source /\ {s} \in SUBSET Source
    OBVIOUS
  <2> QED
    BY <1>1, <1>2, <1>3, <1>4, <1>7, <2>1
<1>8. ASSUME NEW r \in Roots, UpsertRoot(r) \/ DeleteRoot(r)
      PROVE \E lost \in SUBSET Source :
              /\ active' \subseteq Source /\ current' \in [Source -> Nat]
              /\ newest' \in [Source -> Nat]
              /\ \A t \in active \ lost :
                   t \in active' /\ (current[t] # 0 => current'[t] # 0)
              /\ Change(lost)
  <2>1. {} \in SUBSET Source /\ {s \in active : s[1] = r} \in SUBSET Source
    BY <1>1
  <2> QED
    BY <1>1, <1>5, <1>6, <1>8, <2>1
<1> QED
  BY <1>7, <1>8 DEF Index

LEMMA ChangeFacts ==
  ASSUME Kinds, NEW lost \in SUBSET Source, Change(lost),
         active' \subseteq Source, current' \in [Source -> Nat]
  PROVE /\ UNCHANGED <<temp, published, pc>>
        /\ job' \in [Procs -> Job]
        /\ \A k \in Procs :
             /\ pc[k] = "idle" => job'[k] = job[k]
             /\ pc[k] # "idle" =>
                  job'[k] = [job[k] EXCEPT !.lost = @ \cup lost,
                                           !.seen = @ \cup Served',
                                           !.changed = TRUE]
<1>1. Served' \subseteq Copy
  BY DEF Served, CurrentRevisions, Rows, Copy
<1>2. PICK now : now = Served'
  OBVIOUS
<1>3. job' = [k \in Procs |->
                IF pc[k] = "idle" THEN job[k]
                ELSE [job[k] EXCEPT !.lost = @ \cup lost, !.seen = @ \cup now,
                                    !.changed = TRUE]]
  BY <1>2 DEF Change
<1>4. ASSUME NEW k \in Procs
      PROVE [job[k] EXCEPT !.lost = @ \cup lost, !.seen = @ \cup now,
                           !.changed = TRUE] \in Job
  <2>1. job[k] \in Job
    BY KindsFacts
  <2> QED
    BY <1>1, <1>2, <2>1 DEF Job
<1>5. job' \in [Procs -> Job]
  BY <1>3, <1>4, KindsFacts
<1> QED
  BY <1>2, <1>3, <1>5 DEF Change

LEMMA IndexKinds ==
  ASSUME Kinds, Index
  PROVE Kinds'
<1>1. PICK lost \in SUBSET Source :
          /\ active' \subseteq Source /\ current' \in [Source -> Nat]
          /\ newest' \in [Source -> Nat]
          /\ Change(lost)
  BY IndexFacts
<1>2. UNCHANGED <<temp, published, pc>> /\ job' \in [Procs -> Job]
  BY <1>1, ChangeFacts
<1> QED
  BY <1>1, <1>2 DEF Kinds

-----------------------------------------------------------------------------
(* What a step of an export does.                                          *)

Places == {"idle"} \cup Early \cup Past

\* An action of k leads from here to there, with the job j.
Moves(k, here, there, j) ==
  /\ pc[k] = here /\ here # "idle" /\ there \in Places /\ j \in Job
  /\ pc' = [pc EXCEPT ![k] = there] /\ job' = [job EXCEPT ![k] = j]
  /\ there = "idle" => j = Idle
  /\ there # "idle" => j.seen = job[k].seen /\ j.alone = job[k].alone
  /\ UNCHANGED <<active, current, newest>>

\* It leaves the payload as it is, or nothing, or what opening it makes of it.
Looks(k, there) ==
  \/ temp'.payload = temp.payload /\ temp'.open = temp.open
  \/ temp' = NoDirectory
  \/ /\ temp'.payload = File(temp.payload)
     /\ temp'.open = temp.open
  \/ /\ temp'.payload = File(temp.payload)
     /\ temp'.open = temp.open \cup {k} /\ there = "create"

\* It writes to it, to a file that it has open and that has tables.
Writes(k) ==
  /\ Holds(k) /\ temp.payload.tables /\ temp'.open = temp.open
  /\ temp'.payload \in Payload /\ temp'.payload.tables
  /\ temp'.payload.segments \subseteq temp.payload.segments \cup Served

\* It makes the tables.
Makes(k, here, there) ==
  /\ here = "create" /\ there = "roots"
  /\ Holds(k) /\ ~temp.payload.tables /\ temp'.open = temp.open
  /\ temp'.payload = [temp.payload EXCEPT !.tables = TRUE]

Step(k, here, there, j) ==
  /\ Moves(k, here, there, j)
  /\ temp' \in Directory
  /\ here \in Early /\ there \in Past => Makes(k, here, there)
  /\ here \in Early /\ there # "idle" => j = job[k]
  /\ there \in Early \cup {"roots"} => here \in Early
  /\ \/ Looks(k, there)
     \/ here \in Copying /\ Writes(k)
     \/ Makes(k, here, there)
  /\ \/ published' = published
     \/ /\ here = "rename"
        /\ \E d \in Destinations : \E manifest :
             published' = [published EXCEPT ![d] =
               [payload |-> temp.payload, manifest |-> manifest, export |-> job[k]]]

\* k fails, and nothing else.
LEMMA FailsFacts ==
  ASSUME Kinds, NEW k \in Procs, Ends(k), UNCHANGED published,
         UNCHANGED <<active, current, newest>>, pc[k] # "idle",
         \/ UNCHANGED temp \/ temp' = NoDirectory
         \/ temp' = [temp EXCEPT !.payload = File(@)]
  PROVE Step(k, pc[k], "idle", Idle)
<1>1. Moves(k, pc[k], "idle", Idle)
  BY IdleKind DEF Moves, Ends, Places
<1>2. temp' \in Directory /\ Looks(k, "idle")
  <2>1. temp \in Directory /\ temp.payload \in Payload \cup {None}
    BY KindsFacts
  <2>2. CASE UNCHANGED temp
    BY <2>1, <2>2 DEF Looks
  <2>3. CASE temp' = NoDirectory
    BY <2>3, NoDirectoryKind DEF Looks
  <2>4. CASE temp' = [temp EXCEPT !.payload = File(@)]
    <3>1. PICK file : file = File(temp.payload)
      OBVIOUS
    <3>2. file \in Payload
      BY <2>1, <3>1, BlankKind
    <3>3. temp' = [temp EXCEPT !.payload = file]
      BY <2>4, <3>1
    <3> QED
      BY <2>1, <3>1, <3>2, <3>3 DEF Looks, Directory
  <2> QED
    BY <2>2, <2>3, <2>4
<1>3. "idle" \notin Past /\ "idle" \notin Early \cup {"roots"}
  BY DEF Past, Copying, Copied, Early
<1> QED
  BY <1>1, <1>2, <1>3 DEF Step

LEMMA FailsOnly ==
  ASSUME Kinds, NEW k \in Procs, Fails(k), UNCHANGED database, pc[k] # "idle"
  PROVE Step(k, pc[k], "idle", Idle)
BY FailsFacts DEF Fails, database

\* k goes on, with the job j.
LEMMA GoesOn ==
  ASSUME Kinds, NEW k \in Procs, NEW here, At(k, here), here # "idle",
         NEW there \in Places, pc' = [pc EXCEPT ![k] = there],
         there # "idle", NEW j \in Job, job' = [job EXCEPT ![k] = j],
         j.seen = job[k].seen, j.alone = job[k].alone
  PROVE Moves(k, here, there, j) /\ pc[k] = here
BY DEF At, Moves, database

LEMMA SameJob ==
  ASSUME Kinds, NEW k \in Procs
  PROVE job = [job EXCEPT ![k] = job[k]] /\ job[k] \in Job
BY DEF Kinds

LEMMA EarlySteps ==
  ASSUME Kinds, NEW k \in Procs,
         Clear(k) \/ ClearFails(k) \/ MakeDirectory(k) \/ Open(k)
  PROVE \E here, there, j : Step(k, here, there, j)
<1> USE DEF Places, Early, Past, Copying, Copied
<1>1. CASE Clear(k)
  <2>1. At(k, "clear") /\ temp' = NoDirectory /\ job' = job /\ published' = published
        /\ pc' = [pc EXCEPT ![k] = "make"]
    BY <1>1 DEF Clear, Goto
  <2>2. Moves(k, "clear", "make", job[k])
    BY <2>1, SameJob, GoesOn
  <2>3. Step(k, "clear", "make", job[k])
    BY <2>1, <2>2, NoDirectoryKind DEF Step, Looks
  <2> QED
    BY <2>3
<1>2. CASE ClearFails(k)
  <2>1. At(k, "clear") /\ temp' = temp /\ job' = job /\ published' = published
        /\ pc' = [pc EXCEPT ![k] = "make"]
    BY <1>2 DEF ClearFails
  <2>2. Moves(k, "clear", "make", job[k])
    BY <2>1, SameJob, GoesOn
  <2>3. Step(k, "clear", "make", job[k])
    BY <2>1, <2>2, KindsFacts DEF Step, Looks
  <2> QED
    BY <2>3
<1>3. CASE MakeDirectory(k)
  <2>1. At(k, "make") /\ temp' = [temp EXCEPT !.exists = TRUE] /\ job' = job
        /\ published' = published /\ pc' = [pc EXCEPT ![k] = "open"]
    BY <1>3 DEF MakeDirectory, Goto
  <2>2. Moves(k, "make", "open", job[k])
    BY <2>1, SameJob, GoesOn
  <2>3. /\ temp' \in Directory
        /\ temp'.payload = temp.payload /\ temp'.open = temp.open
    BY <2>1, KindsFacts DEF Directory
  <2>4. Step(k, "make", "open", job[k])
    BY <2>1, <2>2, <2>3 DEF Step, Looks
  <2> QED
    BY <2>4
<1>4. CASE Open(k)
  <2>1. At(k, "open")
    BY <1>4 DEF Open
  <2>2. CASE Fails(k)
    BY <2>1, <2>2, FailsOnly DEF At
  <2>3. CASE ~Fails(k)
    <3>1. /\ temp' = [temp EXCEPT !.payload = File(@), !.open = @ \cup {k}]
          /\ job' = job /\ published' = published
          /\ pc' = [pc EXCEPT ![k] = "create"]
      BY <1>4, <2>3 DEF Open, Goto
    <3>2. Moves(k, "open", "create", job[k])
      BY <2>1, <3>1, SameJob, GoesOn
    <3>3. PICK file : file = File(temp.payload)
      OBVIOUS
    <3>4. file \in Payload
      BY <3>3, KindsFacts, BlankKind
    <3>5. temp' = [temp EXCEPT !.payload = file, !.open = temp.open \cup {k}]
      BY <3>1, <3>3
    <3>6. /\ temp' \in Directory
          /\ temp'.payload = file /\ temp'.open = temp.open \cup {k}
      BY <3>4, <3>5, KindsFacts DEF Directory
    <3>7. Step(k, "open", "create", job[k])
      BY <3>1, <3>2, <3>3, <3>6 DEF Step, Looks
    <3> QED
      BY <3>7
  <2> QED
    BY <2>2, <2>3
<1> QED
  BY <1>1, <1>2, <1>3, <1>4

\* A write to the payload of the temporary directory.
LEMMA WriteKind ==
  ASSUME Kinds, temp.payload # None, NEW file \in Payload,
         temp' = [temp EXCEPT !.payload = file]
  PROVE temp' \in Directory /\ temp'.payload = file /\ temp'.open = temp.open
BY DEF Kinds, Directory

LEMMA CreateStep ==
  ASSUME Kinds, NEW k \in Procs, CreateTables(k)
  PROVE \E here, there, j : Step(k, here, there, j)
<1>1. At(k, "create")
  BY DEF CreateTables
<1>2. CASE Fails(k)
  BY <1>1, <1>2, FailsOnly DEF At
<1>3. CASE ~Fails(k)
  <2>1. /\ Holds(k) /\ ~temp.payload.tables
        /\ temp' = [temp EXCEPT !.payload.tables = TRUE] /\ job' = job
        /\ published' = published /\ pc' = [pc EXCEPT ![k] = "roots"]
    BY <1>3 DEF CreateTables, Goto
  <2>2. PICK file : file = [temp.payload EXCEPT !.tables = TRUE]
    OBVIOUS
  <2>3. temp.payload \in Payload /\ temp.payload # None
    BY <2>1, KindsFacts DEF Holds
  <2>4. file \in Payload
    BY <2>2, <2>3 DEF Payload
  <2>5. temp' = [temp EXCEPT !.payload = file]
    BY <2>1, <2>2
  <2>6. temp' \in Directory /\ temp'.payload = file /\ temp'.open = temp.open
    BY <2>3, <2>4, <2>5, WriteKind
  <2>7. Moves(k, "create", "roots", job[k])
    BY <1>1, <2>1, SameJob, GoesOn DEF Places, Past, Copying
  <2>8. Step(k, "create", "roots", job[k])
    BY <2>1, <2>2, <2>6, <2>7 DEF Step, Makes, Early
  <2> QED
    BY <2>8
<1> QED
  BY <1>2, <1>3

\* A step from one of the statements that copy.
LEMMA CopyStep ==
  ASSUME Kinds, Shelf, NEW k \in Procs, NEW here \in Copying, At(k, here),
         NEW there \in Past \ {"roots"}, pc' = [pc EXCEPT ![k] = there],
         NEW j \in Job, job' = [job EXCEPT ![k] = j],
         j.seen = job[k].seen, j.alone = job[k].alone,
         published' = published,
         \/ temp' = temp
         \/ /\ Holds(k)
            /\ \E file \in Payload :
                 /\ temp' = [temp EXCEPT !.payload = file]
                 /\ file.tables = temp.payload.tables
                 /\ file.segments \subseteq temp.payload.segments \cup Served
  PROVE Step(k, here, there, j)
<1> USE DEF Places, Early, Past, Copying, Copied
<1>1. Moves(k, here, there, j)
  BY GoesOn
<1>2. CASE temp' = temp
  BY <1>1, <1>2, KindsFacts DEF Step, Looks
<1>3. CASE temp' # temp
  <2>1. Holds(k)
    BY <1>3
  <2>2. PICK file \in Payload :
          /\ temp' = [temp EXCEPT !.payload = file]
          /\ file.tables = temp.payload.tables
          /\ file.segments \subseteq temp.payload.segments \cup Served
    BY <1>3
  <2>3. temp.payload.tables
    BY <2>1 DEF At, Shelf, Holds
  <2>4. temp' \in Directory /\ temp'.payload = file /\ temp'.open = temp.open
    BY <2>1, <2>2, WriteKind DEF Holds
  <2> QED
    BY <1>1, <2>1, <2>2, <2>3, <2>4 DEF Step, Writes
<1> QED
  BY <1>2, <1>3

LEMMA SelectRootsStep ==
  ASSUME Kinds, Shelf, NEW k \in Procs, SelectRoots(k)
  PROVE \E here, there, j : Step(k, here, there, j)
<1>1. At(k, "roots")
  BY DEF SelectRoots
<1>2. CASE Fails(k)
  BY <1>1, <1>2, FailsOnly DEF At
<1>3. CASE ~Fails(k)
  <2>1. PICK found : found = {r \in job[k].only : rows[r] = "enabled"}
    OBVIOUS
  <2>2. /\ Holds(k) \/ found = {}
        /\ temp' = IF found = {} THEN temp ELSE [temp EXCEPT !.payload.roots = found]
        /\ job' = [job EXCEPT ![k].todo = found, ![k].changed = FALSE]
        /\ published' = published /\ pc' = [pc EXCEPT ![k] = "sources"]
    BY <1>3, <2>1 DEF SelectRoots, Goto
  <2>3. found \subseteq Roots
    BY <2>1, KindsFacts
  <2>4. PICK j : j = [job[k] EXCEPT !.todo = found, !.changed = FALSE]
    OBVIOUS
  <2>5. j \in Job /\ j.seen = job[k].seen /\ j.alone = job[k].alone
    BY <2>3, <2>4, KindsFacts DEF Job
  <2>6. job' = [job EXCEPT ![k] = j]
    BY <2>2, <2>4, KindsFacts
  <2>7. \/ temp' = temp
        \/ /\ Holds(k)
           /\ \E file \in Payload :
                /\ temp' = [temp EXCEPT !.payload = file]
                /\ file.tables = temp.payload.tables
                /\ file.segments \subseteq temp.payload.segments \cup Served
    <3>1. CASE found = {}
      BY <2>2, <3>1
    <3>2. CASE found # {}
      <4>1. PICK file : file = [temp.payload EXCEPT !.roots = found]
        OBVIOUS
      <4>2. Holds(k) /\ temp' = [temp EXCEPT !.payload = file]
        BY <2>2, <3>2, <4>1
      <4>3. temp.payload \in Payload
        BY <4>2, KindsFacts DEF Holds
      <4>4. /\ file \in Payload /\ file.tables = temp.payload.tables
            /\ file.segments = temp.payload.segments
        BY <2>3, <4>1, <4>3 DEF Payload
      <4> QED
        BY <4>2, <4>4
    <3> QED
      BY <3>1, <3>2
  <2>8. Step(k, "roots", "sources", j)
    BY <1>1, <2>2, <2>5, <2>6, <2>7, CopyStep DEF Past, Copying
  <2> QED
    BY <2>8
<1> QED
  BY <1>2, <1>3

LEMMA CopySourcesStep ==
  ASSUME Kinds, Shelf, NEW k \in Procs, NEW r \in Roots, CopySources(k, r)
  PROVE \E here, there, j : Step(k, here, there, j)
<1>1. At(k, "sources")
  BY DEF CopySources
<1>2. CASE Fails(k)
  BY <1>1, <1>2, FailsOnly DEF At
<1>3. CASE ~Fails(k)
  <2>1. PICK found : found = Rows(r)
    OBVIOUS
  <2>2. /\ Holds(k) \/ found = {}
        /\ temp' = IF found = {} THEN temp
                   ELSE [temp EXCEPT !.payload.sources = @ \cup found]
        /\ job' = [job EXCEPT ![k].root = r,
                              ![k].todo = @ \ {r},
                              ![k].moment = @ \cup found,
                              ![k].lost = {s \in @ : s[1] # r}]
        /\ published' = published /\ pc' = [pc EXCEPT ![k] = "revisions"]
    BY <1>3, <2>1 DEF CopySources, Goto
  <2>3. found \subseteq Copy
    BY <2>1, RowsKind
  <2>4. PICK lost : lost = {s \in job[k].lost : s[1] # r}
    OBVIOUS
  <2>5. PICK j : j = [job[k] EXCEPT !.root = r, !.todo = @ \ {r},
                                    !.moment = @ \cup found, !.lost = lost]
    OBVIOUS
  <2>6. j \in Job /\ j.seen = job[k].seen /\ j.alone = job[k].alone
    <3>1. job[k] \in Job /\ lost \subseteq job[k].lost
      BY <2>4, KindsFacts
    <3>2. /\ job[k].todo \ {r} \in SUBSET Roots /\ lost \in SUBSET Source
          /\ job[k].moment \cup found \in SUBSET Copy
      BY <2>3, <3>1 DEF Job
    <3> QED
      BY <2>5, <3>1, <3>2 DEF Job
  <2>7. job' = [job EXCEPT ![k] = j]
    BY <2>2, <2>4, <2>5, KindsFacts
  <2>8. \/ temp' = temp
        \/ /\ Holds(k)
           /\ \E file \in Payload :
                /\ temp' = [temp EXCEPT !.payload = file]
                /\ file.tables = temp.payload.tables
                /\ file.segments \subseteq temp.payload.segments \cup Served
    <3>1. CASE found = {}
      BY <2>2, <3>1
    <3>2. CASE found # {}
      <4>1. PICK file : file = [temp.payload EXCEPT !.sources = @ \cup found]
        OBVIOUS
      <4>2. Holds(k) /\ temp' = [temp EXCEPT !.payload = file]
        BY <2>2, <3>2, <4>1
      <4>3. temp.payload \in Payload
        BY <4>2, KindsFacts DEF Holds
      <4>4. /\ file \in Payload /\ file.tables = temp.payload.tables
            /\ file.segments = temp.payload.segments
        BY <2>3, <4>1, <4>3 DEF Payload
      <4> QED
        BY <4>2, <4>4
    <3> QED
      BY <3>1, <3>2
  <2>9. Step(k, "sources", "revisions", j)
    BY <1>1, <2>2, <2>6, <2>7, <2>8, CopyStep DEF Past, Copying
  <2> QED
    BY <2>9
<1> QED
  BY <1>2, <1>3

LEMMA CopyRevisionsStep ==
  ASSUME Kinds, Shelf, NEW k \in Procs, CopyRevisions(k)
  PROVE \E here, there, j : Step(k, here, there, j)
<1>1. At(k, "revisions")
  BY DEF CopyRevisions
<1>2. CASE Fails(k)
  BY <1>1, <1>2, FailsOnly DEF At
<1>3. CASE ~Fails(k)
  <2>1. PICK found : found = CurrentRevisions(job[k].root)
    OBVIOUS
  <2>2. /\ Holds(k) \/ found = {}
        /\ temp' = IF found = {} THEN temp
                   ELSE [temp EXCEPT !.payload.revisions = @ \cup found]
        /\ job' = job
        /\ published' = published /\ pc' = [pc EXCEPT ![k] = "segments"]
    BY <1>3, <2>1 DEF CopyRevisions, Goto
  <2>3. found \subseteq Copy
    BY <2>1, RowsKind
  <2>4. \/ temp' = temp
        \/ /\ Holds(k)
           /\ \E file \in Payload :
                /\ temp' = [temp EXCEPT !.payload = file]
                /\ file.tables = temp.payload.tables
                /\ file.segments \subseteq temp.payload.segments \cup Served
    <3>1. CASE found = {}
      BY <2>2, <3>1
    <3>2. CASE found # {}
      <4>1. PICK file : file = [temp.payload EXCEPT !.revisions = @ \cup found]
        OBVIOUS
      <4>2. Holds(k) /\ temp' = [temp EXCEPT !.payload = file]
        BY <2>2, <3>2, <4>1
      <4>3. temp.payload \in Payload
        BY <4>2, KindsFacts DEF Holds
      <4>4. /\ file \in Payload /\ file.tables = temp.payload.tables
            /\ file.segments = temp.payload.segments
        BY <2>3, <4>1, <4>3 DEF Payload
      <4> QED
        BY <4>2, <4>4
    <3> QED
      BY <3>1, <3>2
  <2>5. Step(k, "revisions", "segments", job[k])
    BY <1>1, <2>2, <2>4, SameJob, CopyStep DEF Past, Copying
  <2> QED
    BY <2>5
<1> QED
  BY <1>2, <1>3

\* The segments of a root that a job copies are served now.
LEMMA SegmentsServed ==
  ASSUME Kinds, NEW r \in Roots \cup {None}
  PROVE r \in Roots => CurrentSegments(r) \subseteq Served
BY RowsKind DEF CurrentSegments

LEMMA CopySegmentsStep ==
  ASSUME Kinds, Shelf, NEW k \in Procs, CopySegments(k)
  PROVE \E here, there, j : Step(k, here, there, j)
<1>1. At(k, "segments")
  BY DEF CopySegments
<1>2. CASE Fails(k)
  BY <1>1, <1>2, FailsOnly DEF At
<1>3. CASE ~Fails(k)
  <2>1. PICK found : found = CurrentSegments(job[k].root)
    OBVIOUS
  <2>2. /\ Holds(k) \/ found = {}
        /\ temp' = IF found = {} THEN temp
                   ELSE [temp EXCEPT !.payload.segments = @ \cup found]
        /\ job' = job
        /\ published' = published /\ pc' = [pc EXCEPT ![k] = "sources"]
    BY <1>3, <2>1 DEF CopySegments, Goto
  <2>3. found \subseteq Copy /\ found \subseteq Served
    <3>1. \A c \in found : c[1] \in Source /\ c[1][1] = job[k].root
      BY <2>1 DEF CurrentSegments, CurrentRevisions, Rows, Kinds
    <3>2. found # {} => job[k].root \in Roots
      BY <3>1 DEF Source
    <3> QED
      BY <2>1, <3>2, SegmentsServed, RowsKind, KindsFacts
  <2>4. \/ temp' = temp
        \/ /\ Holds(k)
           /\ \E file \in Payload :
                /\ temp' = [temp EXCEPT !.payload = file]
                /\ file.tables = temp.payload.tables
                /\ file.segments \subseteq temp.payload.segments \cup Served
    <3>1. CASE found = {}
      BY <2>2, <3>1
    <3>2. CASE found # {}
      <4>1. PICK file : file = [temp.payload EXCEPT !.segments = @ \cup found]
        OBVIOUS
      <4>2. Holds(k) /\ temp' = [temp EXCEPT !.payload = file]
        BY <2>2, <3>2, <4>1
      <4>3. temp.payload \in Payload
        BY <4>2, KindsFacts DEF Holds
      <4>4. /\ file \in Payload /\ file.tables = temp.payload.tables
            /\ file.segments = temp.payload.segments \cup found
        BY <2>3, <4>1, <4>3 DEF Payload
      <4> QED
        BY <2>3, <4>2, <4>4
    <3> QED
      BY <3>1, <3>2
  <2>5. Step(k, "segments", "sources", job[k])
    BY <1>1, <2>2, <2>4, SameJob, CopyStep DEF Past, Copying
  <2> QED
    BY <2>5
<1> QED
  BY <1>2, <1>3

LEMMA ReadBytesStep ==
  ASSUME Kinds, Shelf, NEW k \in Procs, ReadBytes(k)
  PROVE \E here, there, j : Step(k, here, there, j)
<1>1. At(k, "sources")
  BY DEF ReadBytes
<1>2. CASE Fails(k)
  BY <1>1, <1>2, FailsOnly DEF At
<1>3. CASE ~Fails(k)
  <2>1. /\ temp.payload # None /\ temp' = temp
        /\ job' = [job EXCEPT ![k].bytes = temp.payload]
        /\ published' = published /\ pc' = [pc EXCEPT ![k] = "describe"]
    BY <1>3 DEF ReadBytes, Goto
  <2>2. PICK j : j = [job[k] EXCEPT !.bytes = temp.payload]
    OBVIOUS
  <2>3. j \in Job /\ j.seen = job[k].seen /\ j.alone = job[k].alone
    BY <2>1, <2>2, KindsFacts DEF Job
  <2>4. job' = [job EXCEPT ![k] = j]
    BY <2>1, <2>2, KindsFacts
  <2>5. Step(k, "sources", "describe", j)
    BY <1>1, <2>1, <2>3, <2>4, CopyStep DEF Past, Copying, Copied
  <2> QED
    BY <2>5
<1> QED
  BY <1>2, <1>3

\* A step after copying, that makes no more of the file than opening it does.
LEMMA LateStep ==
  ASSUME Kinds, NEW k \in Procs, NEW here \in Copied, At(k, here),
         NEW there \in Copied, pc' = [pc EXCEPT ![k] = there],
         NEW j \in Job, job' = [job EXCEPT ![k] = j],
         j.seen = job[k].seen, j.alone = job[k].alone,
         published' = published,
         \/ temp' = temp
         \/ temp' = [temp EXCEPT !.payload = File(@)]
         \/ \E manifest \in Manifest : temp' = [temp EXCEPT !.manifest = manifest]
  PROVE Step(k, here, there, j)
<1> USE DEF Places, Early, Past, Copying, Copied
<1>1. Moves(k, here, there, j)
  BY GoesOn
<1>2. CASE temp' = temp
  BY <1>1, <1>2, KindsFacts DEF Step, Looks
<1>3. CASE temp' = [temp EXCEPT !.payload = File(@)]
  <2>1. PICK file : file = File(temp.payload)
    OBVIOUS
  <2>2. file \in Payload
    BY <2>1, KindsFacts, BlankKind
  <2>3. temp' = [temp EXCEPT !.payload = file]
    BY <1>3, <2>1
  <2>4. temp' \in Directory /\ temp'.payload = file /\ temp'.open = temp.open
    BY <2>2, <2>3, KindsFacts DEF Directory
  <2> QED
    BY <1>1, <2>1, <2>4 DEF Step, Looks
<1>4. ASSUME NEW manifest \in Manifest, temp' = [temp EXCEPT !.manifest = manifest]
      PROVE Step(k, here, there, j)
  <2>1. /\ temp' \in Directory /\ temp'.payload = temp.payload
        /\ temp'.open = temp.open
    BY <1>4, KindsFacts DEF Directory
  <2> QED
    BY <1>1, <2>1 DEF Step, Looks
<1> QED
  BY <1>2, <1>3, <1>4

LEMMA DescribeSteps ==
  ASSUME Kinds, NEW k \in Procs, ListPayloadRoots(k) \/ TooLarge(k)
  PROVE \E here, there, j : Step(k, here, there, j)
<1>1. At(k, "describe")
  BY DEF ListPayloadRoots, TooLarge
<1>2. CASE TooLarge(k)
  <2>1. temp' = NoDirectory /\ Ends(k) /\ UNCHANGED published
    BY <1>2 DEF TooLarge
  <2> QED
    BY <1>1, <2>1, FailsFacts DEF At, database
<1>3. CASE ListPayloadRoots(k)
  <2>1. CASE temp.payload # None /\ temp.payload.tables
    <3>1. /\ temp' = temp /\ job' = [job EXCEPT ![k].roots = temp.payload.roots]
          /\ published' = published /\ pc' = [pc EXCEPT ![k] = "count"]
      BY <1>3, <2>1 DEF ListPayloadRoots, Goto
    <3>2. PICK j : j = [job[k] EXCEPT !.roots = temp.payload.roots]
      OBVIOUS
    <3>3. temp.payload.roots \in SUBSET Roots
      BY <2>1, KindsFacts DEF Payload
    <3>4. j \in Job /\ j.seen = job[k].seen /\ j.alone = job[k].alone
      BY <3>2, <3>3, KindsFacts DEF Job
    <3>5. job' = [job EXCEPT ![k] = j]
      BY <3>1, <3>2, KindsFacts
    <3>6. Step(k, "describe", "count", j)
      BY <1>1, <3>1, <3>4, <3>5, LateStep DEF Copied
    <3> QED
      BY <3>6
  <2>2. CASE ~(temp.payload # None /\ temp.payload.tables)
    <3>1. /\ temp' = IF temp.exists THEN [temp EXCEPT !.payload = File(@)] ELSE temp
          /\ Ends(k) /\ UNCHANGED published
      BY <1>3, <2>2 DEF ListPayloadRoots
    <3> QED
      BY <1>1, <3>1, FailsFacts DEF At, database
  <2> QED
    BY <2>1, <2>2
<1> QED
  BY <1>2, <1>3

LEMMA CountPayloadStep ==
  ASSUME Kinds, NEW k \in Procs, CountPayload(k)
  PROVE \E here, there, j : Step(k, here, there, j)
<1>1. At(k, "count")
  BY DEF CountPayload
<1>2. CASE Fails(k)
  BY <1>1, <1>2, FailsOnly DEF At
<1>3. CASE ~Fails(k)
  <2>1. /\ temp' = [temp EXCEPT !.payload = File(@)]
        /\ job' = [job EXCEPT ![k].counts = Counts(File(temp.payload))]
        /\ published' = published /\ pc' = [pc EXCEPT ![k] = "manifest"]
    BY <1>3 DEF CountPayload, Goto
  <2>2. PICK counts : counts = Counts(File(temp.payload))
    OBVIOUS
  <2>3. counts \in Tallies
    BY <2>2, KindsFacts, BlankKind, CountsTally
  <2>4. PICK j : j = [job[k] EXCEPT !.counts = counts]
    OBVIOUS
  <2>5. j \in Job /\ j.seen = job[k].seen /\ j.alone = job[k].alone
    BY <2>3, <2>4, KindsFacts DEF Job
  <2>6. job' = [job EXCEPT ![k] = j]
    BY <2>1, <2>2, <2>4, KindsFacts
  <2>7. Step(k, "count", "manifest", j)
    BY <1>1, <2>1, <2>5, <2>6, LateStep DEF Copied
  <2> QED
    BY <2>7
<1> QED
  BY <1>2, <1>3

LEMMA LastSteps ==
  ASSUME Kinds, NEW k \in Procs, WriteManifest(k) \/ Restrict(k)
  PROVE \E here, there, j : Step(k, here, there, j)
<1>1. CASE WriteManifest(k)
  <2>1. At(k, "manifest")
    BY <1>1 DEF WriteManifest
  <2>2. CASE Fails(k)
    BY <2>1, <2>2, FailsOnly DEF At
  <2>3. CASE ~Fails(k)
    <3>1. PICK manifest :
            manifest = [checksum |-> job[k].bytes, roots |-> job[k].roots,
                        counts |-> job[k].counts]
      OBVIOUS
    <3>2. manifest \in Manifest
      BY <3>1, KindsFacts DEF Manifest
    <3>3. /\ temp' = [temp EXCEPT !.manifest = manifest]
          /\ job' = job
          /\ published' = published /\ pc' = [pc EXCEPT ![k] = "restrict"]
      BY <1>1, <2>3, <3>1 DEF WriteManifest, Goto
    <3>4. Step(k, "manifest", "restrict", job[k])
      BY <2>1, <3>2, <3>3, SameJob, LateStep DEF Copied
    <3> QED
      BY <3>4
  <2> QED
    BY <2>2, <2>3
<1>2. CASE Restrict(k)
  <2>1. At(k, "restrict")
    BY <1>2 DEF Restrict
  <2>2. CASE Fails(k)
    BY <2>1, <2>2, FailsOnly DEF At
  <2>3. CASE ~Fails(k)
    <3>1. /\ temp' = temp /\ job' = job
          /\ published' = published /\ pc' = [pc EXCEPT ![k] = "rename"]
      BY <1>2, <2>3 DEF Restrict, Goto
    <3>2. Step(k, "restrict", "rename", job[k])
      BY <2>1, <3>1, SameJob, LateStep DEF Copied
    <3> QED
      BY <3>2
  <2> QED
    BY <2>2, <2>3
<1> QED
  BY <1>1, <1>2

LEMMA EndSteps ==
  ASSUME Kinds, NEW k \in Procs, Publish(k) \/ Crash(k)
  PROVE \E here, there, j : Step(k, here, there, j)
<1>1. CASE Publish(k)
  <2>1. At(k, "rename")
    BY <1>1 DEF Publish
  <2>2. CASE Fails(k)
    BY <2>1, <2>2, FailsOnly DEF At
  <2>3. CASE ~Fails(k)
    <3>1. PICK d : d = job[k].destination
      OBVIOUS
    <3>2. /\ published' = [published EXCEPT ![d] =
               [payload |-> temp.payload, manifest |-> temp.manifest,
                export |-> job[k]]]
          /\ temp' = NoDirectory /\ Ends(k)
      BY <1>1, <2>3, <3>1 DEF Publish
    <3>3. Moves(k, "rename", "idle", Idle)
      BY <2>1, <3>2, IdleKind DEF Moves, Ends, Places, At, database
    <3>4. \/ published' = published
          \/ \E e \in Destinations : \E manifest :
               published' = [published EXCEPT ![e] =
                 [payload |-> temp.payload, manifest |-> manifest, export |-> job[k]]]
      <4>1. CASE d \in Destinations
        BY <3>2, <4>1
      <4>2. CASE d \notin Destinations
        BY <3>2, <4>2 DEF Kinds
      <4> QED
        BY <4>1, <4>2
    <3>5. Step(k, "rename", "idle", Idle)
      BY <3>2, <3>3, <3>4, NoDirectoryKind
         DEF Step, Looks, Early, Past, Copying, Copied
    <3> QED
      BY <3>5
  <2> QED
    BY <2>2, <2>3
<1>2. CASE Crash(k)
  <2>1. /\ pc[k] # "idle" /\ Ends(k)
        /\ UNCHANGED <<database, temp, published>>
    BY <1>2 DEF Crash
  <2> QED
    BY <2>1, FailsFacts DEF database
<1> QED
  BY <1>1, <1>2

\* k makes a step of its export.
Goes(k) ==
  \/ Clear(k) \/ ClearFails(k) \/ MakeDirectory(k) \/ Open(k) \/ CreateTables(k)
  \/ SelectRoots(k)
  \/ \E r \in Roots : CopySources(k, r)
  \/ CopyRevisions(k) \/ CopySegments(k)
  \/ ReadBytes(k) \/ TooLarge(k) \/ ListPayloadRoots(k) \/ CountPayload(k)
  \/ WriteManifest(k) \/ Restrict(k) \/ Publish(k)
  \/ Crash(k)

LEMMA ExportSteps ==
  ASSUME Kinds, Shelf, NEW k \in Procs, Goes(k)
  PROVE \E here, there, j : Step(k, here, there, j)
BY EarlySteps, CreateStep, SelectRootsStep, CopySourcesStep, CopyRevisionsStep,
   CopySegmentsStep, ReadBytesStep, DescribeSteps, CountPayloadStep, LastSteps,
   EndSteps DEF Goes

-----------------------------------------------------------------------------
(* Who has what open, and what is served while an export runs.             *)

LEMMA StartFacts ==
  ASSUME Kinds, NEW k \in Procs, NEW d \in Destinations,
         NEW only \in {Roots} \cup {{r} : r \in Roots}, Start(k, d, only)
  PROVE /\ pc[k] = "idle" /\ pc' = [pc EXCEPT ![k] = "clear"]
        /\ UNCHANGED <<active, current, newest, temp, published>>
        /\ job' \in [Procs -> Job]
        /\ job'[k].seen = Served /\ job'[k].todo = {} /\ job'[k].moment = {}
        /\ job'[k].alone => \A l \in Procs : pc[l] = "idle"
        /\ \A l \in Procs \ {k} :
             /\ ~job'[l].alone /\ job'[l].seen = job[l].seen
             /\ job'[l].todo = job[l].todo /\ job'[l].moment = job[l].moment
<1>1. PICK alone : alone = ({l \in Procs : pc[l] # "idle"} = {})
  OBVIOUS
<1>2. alone \in BOOLEAN
  BY <1>1
<1>3. PICK mine : mine = [Idle EXCEPT !.destination = d, !.only = only,
                                      !.alone = alone, !.seen = Served]
  OBVIOUS
<1>4. /\ mine \in Job /\ mine.seen = Served /\ mine.todo = {} /\ mine.moment = {}
      /\ mine.alone = alone
  <2>1. Served \in SUBSET Copy /\ only \in SUBSET Roots
    BY RowsKind
  <2>2. Idle \in Job /\ Idle.todo = {} /\ Idle.moment = {}
    BY IdleKind DEF Idle
  <2> QED
    BY <1>2, <1>3, <2>1, <2>2 DEF Job
<1>5. /\ pc[k] = "idle" /\ pc' = [pc EXCEPT ![k] = "clear"]
      /\ UNCHANGED <<active, current, newest, temp, published>>
      /\ job' = [l \in Procs |->
                   IF l = k THEN mine ELSE [job[l] EXCEPT !.alone = FALSE]]
  BY <1>1, <1>3 DEF Start, Goto, database
<1>6. \A l \in Procs : LET other == [job[l] EXCEPT !.alone = FALSE]
                       IN /\ other \in Job /\ ~other.alone
                          /\ other.seen = job[l].seen
                          /\ other.todo = job[l].todo
                          /\ other.moment = job[l].moment
  <2> TAKE l \in Procs
  <2>1. job[l] \in Job
    BY KindsFacts
  <2> QED
    BY <2>1 DEF Job
<1>7. job'[k] = mine
  BY <1>5
<1>8. job' \in [Procs -> Job]
  BY <1>4, <1>5, <1>6
<1>9. mine.alone => \A l \in Procs : pc[l] = "idle"
  BY <1>1, <1>4
<1> QED
  BY <1>4, <1>5, <1>6, <1>7, <1>8, <1>9

LEMMA StepKinds ==
  ASSUME Kinds, NEW k \in Procs, NEW here, NEW there, NEW j,
         Step(k, here, there, j)
  PROVE Kinds'
<1>1. /\ there \in Places /\ j \in Job /\ temp' \in Directory
      /\ pc' = [pc EXCEPT ![k] = there] /\ job' = [job EXCEPT ![k] = j]
      /\ UNCHANGED <<active, current, newest>>
  BY DEF Step, Moves
<1>2. published' = [d \in Destinations |-> published'[d]]
  BY DEF Step, Kinds
<1> QED
  BY <1>1, <1>2 DEF Kinds, Places

LEMMA StartKinds ==
  ASSUME Kinds, NEW k \in Procs, NEW d \in Destinations,
         NEW only \in {Roots} \cup {{r} : r \in Roots}, Start(k, d, only)
  PROVE Kinds'
<1>1. /\ pc' = [pc EXCEPT ![k] = "clear"]
      /\ UNCHANGED <<active, current, newest, temp, published>>
      /\ job' \in [Procs -> Job]
  BY StartFacts
<1>2. "clear" \in Early
  BY DEF Early
<1> QED
  BY <1>1, <1>2 DEF Kinds

\* The cases of what a step does to the payload.
LEMMA StepFiles ==
  ASSUME Kinds, Shelf, NEW k \in Procs, NEW here, NEW there, NEW j,
         Step(k, here, there, j)
  PROVE \/ temp'.payload = temp.payload /\ temp'.open = temp.open
        \/ temp'.payload = None /\ temp'.open = {}
        \/ /\ temp.payload = None /\ temp'.payload = Blank
           /\ temp'.open = {} \/ (temp'.open = {k} /\ there = "create")
        \/ /\ temp.payload # None /\ temp'.payload = temp.payload
           /\ temp'.open = temp.open \cup {k} /\ there = "create"
        \/ /\ temp.payload # None /\ temp'.payload # None
           /\ k \in temp.open /\ temp'.open = temp.open
           /\ temp'.payload.tables /\ here \in Copying
           /\ temp'.payload.segments \subseteq temp.payload.segments \cup Served
        \/ /\ temp.payload # None /\ temp'.payload # None
           /\ temp'.open = temp.open /\ temp'.payload.tables
           /\ here = "create" /\ there = "roots"
           /\ temp'.payload.segments = {}
<1>1. /\ temp.payload \in Payload \cup {None}
      /\ temp.payload = None => temp.open = {}
  BY KindsFacts DEF Shelf
<1>2. CASE Looks(k, there)
  <2>1. CASE temp' = NoDirectory
    BY <2>1 DEF NoDirectory
  <2>2. CASE temp.payload = None
    BY <1>1, <1>2, <2>1, <2>2, BlankKind DEF Looks
  <2>3. CASE temp.payload # None
    <3>1. File(temp.payload) = temp.payload
      BY <1>1, <2>3, BlankKind
    <3> QED
      BY <1>2, <2>1, <2>3, <3>1 DEF Looks
  <2> QED
    BY <2>2, <2>3
<1>3. CASE here \in Copying /\ Writes(k)
  BY <1>3, NoneIsNoPayload DEF Writes, Holds
<1>4. CASE Makes(k, here, there)
  <2>1. temp.payload \in Payload /\ temp.payload = Blank
    BY <1>1, <1>4 DEF Makes, Holds, Shelf
  <2>2. /\ temp'.payload = [temp.payload EXCEPT !.tables = TRUE]
        /\ here = "create" /\ there = "roots"
        /\ temp.payload # None /\ temp'.open = temp.open
    BY <1>4 DEF Makes, Holds
  <2>3. temp'.payload \in Payload /\ temp'.payload.tables
    BY <2>1, <2>2 DEF Payload
  <2>4. temp'.payload.segments = {}
    BY <2>1, <2>2 DEF Blank
  <2> QED
    BY <2>2, <2>3, <2>4, NoneIsNoPayload
<1> QED
  BY <1>2, <1>3, <1>4 DEF Step

LEMMA StepShelf ==
  ASSUME Kinds, Shelf, NEW k \in Procs, NEW here, NEW there, NEW j,
         Step(k, here, there, j)
  PROVE Shelf'
<1> USE DEF Early, Past, Copying, Copied
<1>1. /\ pc[k] = here
      /\ \A l \in Procs : pc'[l] = IF l = k THEN there ELSE pc[l]
      /\ here \in Early /\ there \in Past => here = "create" /\ there = "roots"
  BY KindsFacts DEF Step, Moves, Makes
<1>2. there \in Past => here \in Past \/ (here = "create" /\ there = "roots")
  BY <1>1 DEF Step, Moves, Kinds
<1>3. "create" \notin Past /\ Blank.tables = FALSE
  BY DEF Blank
<1>4. temp.payload = None => temp.open = {}
  BY DEF Shelf
<1>5. temp.payload # None /\ ~temp.payload.tables => temp.payload = Blank
  BY DEF Shelf
<1>6. \A l \in Procs : pc[l] \in Past /\ l \in temp.open => temp.payload.tables
  BY DEF Shelf
<1>7. CASE temp'.payload = None /\ temp'.open = {}
  BY <1>7 DEF Shelf
<1>8. CASE /\ temp.payload = None /\ temp'.payload = Blank
           /\ temp'.open = {} \/ (temp'.open = {k} /\ there = "create")
  BY <1>1, <1>3, <1>8, BlankKind, NoneIsNoPayload DEF Shelf
<1>9. CASE /\ temp.payload # None /\ temp'.payload = temp.payload
           /\ temp'.open = temp.open \cup {k} /\ there = "create"
  BY <1>1, <1>3, <1>5, <1>6, <1>9 DEF Shelf
<1>10. CASE /\ temp'.payload # None /\ temp'.payload.tables
  BY <1>10 DEF Shelf
<1>11. CASE /\ temp'.payload = temp.payload /\ temp'.open = temp.open
            /\ ~(here = "create" /\ there = "roots")
  BY <1>1, <1>2, <1>4, <1>5, <1>6, <1>11 DEF Shelf
<1>12. here = "create" /\ there = "roots" => temp'.payload # None /\ temp'.payload.tables
  BY NoneIsNoPayload, KindsFacts DEF Step, Makes, Holds, Payload
<1> QED
  BY <1>7, <1>8, <1>9, <1>10, <1>11, <1>12, StepFiles

LEMMA StepWitnessed ==
  ASSUME Kinds, Shelf, Witnessed, NEW k \in Procs, NEW here, NEW there, NEW j,
         Step(k, here, there, j)
  PROVE Witnessed'
<1> USE DEF Early, Past, Copying, Copied
<1>1. /\ pc[k] = here /\ here # "idle"
      /\ \A l \in Procs : /\ pc'[l] = IF l = k THEN there ELSE pc[l]
                          /\ job'[l] = IF l = k THEN j ELSE job[l]
      /\ there # "idle" => j.seen = job[k].seen
      /\ here \in Early /\ there \in Past => here = "create" /\ there = "roots"
  BY KindsFacts DEF Step, Moves, Makes
<1>2. there \in Past => here \in Past \/ (here = "create" /\ there = "roots")
  BY <1>1 DEF Step, Moves, Kinds
<1>3. Served' = Served
  BY DEF Step, Moves, Served, CurrentRevisions, Rows
<1>4. \A l \in Procs : /\ pc[l] # "idle" => Served \subseteq job[l].seen
                       /\ pc[l] \in Past /\ temp.payload # None =>
                            temp.payload.segments \subseteq job[l].seen
  BY DEF Witnessed
<1>5. \A l \in Procs :
        pc'[l] # "idle" => pc[l] # "idle" /\ job'[l].seen = job[l].seen
  BY <1>1
<1>6. \/ temp'.payload = temp.payload /\ ~(here = "create" /\ there = "roots")
      \/ temp'.payload = None
      \/ temp'.payload.segments = {}
      \/ /\ temp.payload # None /\ here \in Copying
         /\ temp'.payload.segments \subseteq temp.payload.segments \cup Served
  <2>1. here = "create" /\ there = "roots" => temp'.payload.segments = {}
    <3>1. here = "create" /\ there = "roots" => Makes(k, here, there)
      BY DEF Step
    <3>2. Makes(k, here, there) => temp.payload = Blank
      BY DEF Makes, Holds, Shelf
    <3> QED
      BY <3>1, <3>2 DEF Makes, Blank
  <2> QED
    BY <2>1, StepFiles DEF Blank
<1>7. \A l \in Procs :
        pc'[l] \in Past /\ temp'.payload # None =>
          temp'.payload.segments \subseteq job'[l].seen
  <2> SUFFICES ASSUME NEW l \in Procs, pc'[l] \in Past, temp'.payload # None
               PROVE temp'.payload.segments \subseteq job'[l].seen
    OBVIOUS
  <2>1. pc[l] # "idle" /\ job'[l].seen = job[l].seen
    BY <1>5
  <2>2. CASE temp'.payload.segments = {}
    BY <2>2
  <2>3. CASE here = "create" /\ there = "roots"
    BY <1>6, <2>2, <2>3
  <2>4. CASE ~(here = "create" /\ there = "roots")
    <3>1. pc[l] \in Past
      BY <1>1, <1>2, <2>4
    <3> QED
      BY <1>4, <1>6, <2>1, <2>2, <3>1
  <2> QED
    BY <2>3, <2>4
<1>8. \A d \in Destinations :
        published'[d] # None /\ published'[d].payload # None =>
          published'[d].payload.segments \subseteq published'[d].export.seen
  <2>1. CASE published' = published
    BY <2>1 DEF Witnessed
  <2>2. ASSUME here = "rename", NEW e \in Destinations, NEW manifest,
               published' = [published EXCEPT ![e] =
                 [payload |-> temp.payload, manifest |-> manifest, export |-> job[k]]]
        PROVE \A d \in Destinations :
                published'[d] # None /\ published'[d].payload # None =>
                  published'[d].payload.segments \subseteq published'[d].export.seen
    <3> TAKE d \in Destinations
    <3>1. CASE d = e
      <4>1. /\ published'[d].payload = temp.payload
            /\ published'[d].export = job[k]
        BY <2>2, <3>1 DEF Kinds
      <4> QED
        BY <1>1, <1>4, <2>2, <4>1
    <3>2. CASE d # e
      <4>1. published'[d] = published[d]
        BY <2>2, <3>2 DEF Kinds
      <4> QED
        BY <4>1 DEF Witnessed
    <3> QED
      BY <3>1, <3>2
  <2> QED
    BY <2>1, <2>2 DEF Step
<1> QED
  BY <1>3, <1>4, <1>5, <1>7, <1>8 DEF Witnessed

LEMMA StepApart ==
  ASSUME Kinds, Apart, NEW k \in Procs, NEW here, NEW there, NEW j,
         Step(k, here, there, j)
  PROVE Apart'
<1>1. /\ pc[k] = here /\ here # "idle"
      /\ \A l \in Procs : /\ pc'[l] = IF l = k THEN there ELSE pc[l]
                          /\ job'[l] = IF l = k THEN j ELSE job[l]
      /\ there # "idle" => j.alone = job[k].alone
      /\ there = "idle" => j = Idle
      /\ here \in Early /\ there # "idle" => j = job[k]
      /\ there \in Early \cup {"roots"} => here \in Early
      /\ "idle" \notin Early
  BY KindsFacts DEF Step, Moves, Early
<1>2. Idle.alone = FALSE
  BY DEF Idle
<1>3. \A l \in Procs :
        job'[l].alone => pc'[l] # "idle" /\ \A m \in Procs \ {l} : pc'[m] = "idle"
  <2> SUFFICES ASSUME NEW l \in Procs, job'[l].alone
               PROVE pc'[l] # "idle" /\ \A m \in Procs \ {l} : pc'[m] = "idle"
    OBVIOUS
  <2>1. CASE l = k
    <3>1. there # "idle" /\ job[k].alone
      BY <1>1, <1>2, <2>1
    <3> QED
      BY <1>1, <2>1, <3>1 DEF Apart
  <2>2. CASE l # k
    BY <1>1, <2>2 DEF Apart
  <2> QED
    BY <2>1, <2>2
<1>4. \A l \in Procs :
        pc'[l] \in Early \cup {"roots"} => job'[l].todo = {} /\ job'[l].moment = {}
  <2> SUFFICES ASSUME NEW l \in Procs, pc'[l] \in Early \cup {"roots"}
               PROVE job'[l].todo = {} /\ job'[l].moment = {}
    OBVIOUS
  <2>1. CASE l = k
    <3>1. job'[l] = job[k] /\ pc[k] \in Early
      BY <1>1, <2>1
    <3> QED
      BY <3>1 DEF Apart
  <2>2. CASE l # k
    BY <1>1, <2>2 DEF Apart
  <2> QED
    BY <2>1, <2>2
<1> QED
  BY <1>3, <1>4 DEF Apart

LEMMA StartKeeps ==
  ASSUME Kinds, Shelf, Witnessed, Apart, NEW k \in Procs, NEW d \in Destinations,
         NEW only \in {Roots} \cup {{r} : r \in Roots}, Start(k, d, only)
  PROVE Shelf' /\ Witnessed' /\ Apart'
<1>1. /\ pc[k] = "idle" /\ UNCHANGED <<active, current, newest, temp, published>>
      /\ \A l \in Procs : pc'[l] = IF l = k THEN "clear" ELSE pc[l]
      /\ job'[k].seen = Served /\ job'[k].todo = {} /\ job'[k].moment = {}
      /\ job'[k].alone => \A l \in Procs : pc[l] = "idle"
      /\ \A l \in Procs \ {k} :
             /\ ~job'[l].alone /\ job'[l].seen = job[l].seen
             /\ job'[l].todo = job[l].todo /\ job'[l].moment = job[l].moment
  BY StartFacts, KindsFacts
<1>2. "clear" \notin Past
  BY DEF Past, Copying, Copied
<1>3. Shelf'
  BY <1>1, <1>2 DEF Shelf
<1>4. Served' = Served
  BY <1>1 DEF Served, CurrentRevisions, Rows
<1>5. Witnessed'
  BY <1>1, <1>2, <1>4 DEF Witnessed
<1>6. Apart'
  BY <1>1 DEF Apart
<1> QED
  BY <1>3, <1>5, <1>6

LEMMA IndexKeeps ==
  ASSUME Kinds, Shelf, Witnessed, Apart, Index
  PROVE Shelf' /\ Witnessed' /\ Apart'
<1>1. PICK lost \in SUBSET Source :
        active' \subseteq Source /\ current' \in [Source -> Nat] /\ Change(lost)
  BY IndexFacts
<1>2. /\ UNCHANGED <<temp, published, pc>>
      /\ \A k \in Procs :
             /\ pc[k] = "idle" => job'[k] = job[k]
             /\ pc[k] # "idle" =>
                  job'[k] = [job[k] EXCEPT !.lost = @ \cup lost,
                                           !.seen = @ \cup Served',
                                           !.changed = TRUE]
  BY <1>1, ChangeFacts
<1>3. Shelf'
  BY <1>2 DEF Shelf
<1>4. PICK now : now = Served'
  OBVIOUS
<1>5. \A k \in Procs :
        /\ job'[k].alone = job[k].alone /\ job'[k].todo = job[k].todo
        /\ job'[k].moment = job[k].moment
        /\ job[k].seen \subseteq job'[k].seen
        /\ pc[k] # "idle" => now \subseteq job'[k].seen
  <2> TAKE k \in Procs
  <2>1. job[k] \in Job
    BY KindsFacts
  <2>2. PICK next : next = [job[k] EXCEPT !.lost = @ \cup lost,
                                          !.seen = @ \cup now,
                                          !.changed = TRUE]
    OBVIOUS
  <2>3. /\ next.alone = job[k].alone /\ next.todo = job[k].todo
        /\ next.moment = job[k].moment /\ next.seen = job[k].seen \cup now
    BY <2>1, <2>2 DEF Job
  <2>4. (pc[k] = "idle" /\ job'[k] = job[k]) \/ (pc[k] # "idle" /\ job'[k] = next)
    BY <1>2, <1>4, <2>2
  <2> QED
    BY <2>3, <2>4
<1>6. Witnessed'
  BY <1>2, <1>4, <1>5 DEF Witnessed
<1>7. Apart'
  BY <1>2, <1>5 DEF Apart
<1> QED
  BY <1>3, <1>6, <1>7

-----------------------------------------------------------------------------
LEMMA InitKinds == Init => Kinds /\ Shelf /\ Witnessed /\ Apart
<1> SUFFICES ASSUME Init PROVE Kinds /\ Shelf /\ Witnessed /\ Apart
  OBVIOUS
<1>1. /\ active \in SUBSET Source /\ newest = current
      /\ current = [s \in Source |-> IF s \in active THEN 1 ELSE 0]
      /\ temp = NoDirectory /\ published = [d \in Destinations |-> None]
      /\ pc = [k \in Procs |-> "idle"] /\ job = [k \in Procs |-> Idle]
  BY DEF Init
<1>2. current \in [Source -> Nat]
  BY <1>1
<1>3. Kinds
  BY <1>1, <1>2, IdleKind, NoDirectoryKind DEF Kinds
<1>4. Shelf
  BY <1>1 DEF Shelf, NoDirectory
<1>5. "idle" \notin Past /\ "idle" \notin Early \cup {"roots"} /\ Idle.alone = FALSE
  BY DEF Past, Copying, Copied, Early, Idle
<1>6. Witnessed /\ Apart
  BY <1>1, <1>5 DEF Witnessed, Apart
<1> QED
  BY <1>3, <1>4, <1>6

LEMMA NextCommon == Common /\ [Next]_vars => Common'
<1> SUFFICES ASSUME Common, [Next]_vars PROVE Common'
  OBVIOUS
<1>1. Kinds /\ Shelf /\ Witnessed /\ Apart
  BY DEF Common
<1>2. CASE UNCHANGED vars
  <2>1. UNCHANGED <<active, current, newest, temp, published, pc, job>>
    BY <1>2 DEF vars, database
  <2>2. Kinds' /\ Shelf' /\ Apart'
    BY <1>1, <2>1 DEF Kinds, Shelf, Apart
  <2>3. Witnessed'
    BY <1>1, <2>1 DEF Witnessed, Served, CurrentRevisions, Rows
  <2> QED
    BY <2>2, <2>3 DEF Common
<1>3. CASE Index
  BY <1>1, <1>3, IndexKinds, IndexKeeps DEF Common
<1>4. ASSUME NEW k \in Procs, NEW d \in Destinations,
             NEW only \in {Roots} \cup {{r} : r \in Roots}, Start(k, d, only)
      PROVE Common'
  BY <1>1, <1>4, StartKinds, StartKeeps DEF Common
<1>5. ASSUME NEW k \in Procs, Goes(k) PROVE Common'
  <2>1. PICK here, there, j : Step(k, here, there, j)
    BY <1>1, <1>5, ExportSteps
  <2> QED
    BY <1>1, <2>1, StepKinds, StepShelf, StepWitnessed, StepApart DEF Common
<1>6. ASSUME NEW k \in Procs, Export(k) PROVE Common'
  BY <1>4, <1>5, <1>6 DEF Export, Goes
<1> QED
  BY <1>2, <1>3, <1>6 DEF Next

LEMMA CommonHolds == Spec => []Common
<1>1. Init => Common
  BY InitKinds DEF Common
<1> QED
  BY <1>1, NextCommon, PTL DEF Spec

\* However many exports share the temporary directory, wherever they crash, and
\* whatever is committed meanwhile: what a snapshot that can be imported shows
\* was served by the local index while the export that published it ran.
THEOREM SnapshotsAreRecent == Spec => []Recent
<1>1. Common => Recent
  BY DEF Common, Witnessed, Recent, Imported, Accepts, Hits
<1> QED
  BY <1>1, CommonHolds, PTL

-----------------------------------------------------------------------------
(* An export that is alone.                                                *)

Right(k) == Own(k) /\ Matched(k) /\ Written(k) /\ Still(k)

LEMMA LoneFacts ==
  ASSUME Common, Lone, NEW k \in Procs, job[k].alone, pc[k] \in Past
  PROVE /\ Own(k) /\ Matched(k) /\ Written(k) /\ Still(k)
        /\ temp.payload \in Payload /\ temp.payload # None /\ temp.payload.tables
        /\ job[k] \in Job /\ k \in temp.open /\ Holds(k)
<1>1. Right(k)
  BY DEF Lone, Right
<1>2. temp.payload # None /\ k \in temp.open
  BY <1>1 DEF Right, Own
<1> QED
  BY <1>1, <1>2, KindsFacts DEF Right, Common, Shelf, Holds

\* Only the export that makes the step can be alone.
LEMMA LoneStep ==
  ASSUME Common, Lone, NEW k \in Procs, Goes(k),
         job[k].alone /\ job'[k].alone /\ pc'[k] \in Past => Right(k)'
  PROVE Lone'
<1>1. PICK here, there, j : Step(k, here, there, j)
  BY ExportSteps DEF Common
<1>2. /\ pc[k] = here /\ here # "idle"
      /\ \A l \in Procs : /\ pc'[l] = IF l = k THEN there ELSE pc[l]
                          /\ job'[l] = IF l = k THEN j ELSE job[l]
      /\ there # "idle" => j.alone = job[k].alone
  BY <1>1, KindsFacts DEF Step, Moves, Common
<1>3. "idle" \notin Past
  BY DEF Past, Copying, Copied
<1>4. \A l \in Procs \ {k} : ~job'[l].alone
  <2> SUFFICES ASSUME NEW l \in Procs \ {k}, job[l].alone PROVE FALSE
    BY <1>2
  <2>1. pc[k] = "idle"
    BY DEF Common, Apart
  <2> QED
    BY <1>2, <2>1
<1>5. job'[k].alone /\ pc'[k] \in Past => job[k].alone
  BY <1>2, <1>3
<1> QED
  BY <1>4, <1>5 DEF Lone, Right

LEMMA StartLone ==
  ASSUME Common, Lone, NEW k \in Procs, NEW d \in Destinations,
         NEW only \in {Roots} \cup {{r} : r \in Roots}, Start(k, d, only)
  PROVE Lone'
<1>1. \A l \in Procs \ {k} : ~job'[l].alone
  BY StartFacts DEF Common
<1>2. pc'[k] = "clear"
  BY StartFacts, KindsFacts DEF Common
<1>3. "clear" \notin Past
  BY DEF Past, Copying, Copied
<1> QED
  BY <1>1, <1>2, <1>3 DEF Lone

\* Other commands commit: what they delete is noted.
LEMMA IndexLone ==
  ASSUME Common, Lone, Index
  PROVE Lone'
<1>1. PICK lost \in SUBSET Source :
        /\ active' \subseteq Source /\ current' \in [Source -> Nat]
        /\ \A s \in active \ lost :
             s \in active' /\ (current[s] # 0 => current'[s] # 0)
        /\ Change(lost)
  BY IndexFacts DEF Common
<1>2. /\ UNCHANGED <<temp, published, pc>>
      /\ \A k \in Procs :
             /\ pc[k] = "idle" => job'[k] = job[k]
             /\ pc[k] # "idle" =>
                  job'[k] = [job[k] EXCEPT !.lost = @ \cup lost,
                                           !.seen = @ \cup Served',
                                           !.changed = TRUE]
  BY <1>1, ChangeFacts DEF Common
<1>3. SUFFICES ASSUME NEW k \in Procs, job'[k].alone, pc'[k] \in Past
               PROVE Right(k)'
  BY DEF Lone, Right
<1>4. pc[k] \in Past /\ pc[k] # "idle"
  BY <1>2, <1>3 DEF Past, Copying, Copied
<1>5. job[k] \in Job
  BY KindsFacts DEF Common
<1>6. PICK now : now = Served'
  OBVIOUS
<1>7. PICK next : next = [job[k] EXCEPT !.lost = @ \cup lost, !.seen = @ \cup now,
                                        !.changed = TRUE]
  OBVIOUS
<1>8. /\ next.alone = job[k].alone /\ next.only = job[k].only
      /\ next.todo = job[k].todo /\ next.root = job[k].root
      /\ next.bytes = job[k].bytes /\ next.roots = job[k].roots
      /\ next.counts = job[k].counts /\ next.moment = job[k].moment
      /\ next.lost = job[k].lost \cup lost /\ next.changed = TRUE
  BY <1>5, <1>7 DEF Job
<1>9. job'[k] = next
  BY <1>2, <1>4, <1>6, <1>7
<1>10. Own(k) /\ Matched(k) /\ Written(k)
  BY <1>3, <1>4, <1>8, <1>9, LoneFacts
<1>11. /\ Sourced(k)' = Sourced(k) /\ Revised(k)' = Revised(k)
       /\ Segmented(k)' = Segmented(k)
  BY <1>2, <1>8, <1>9 DEF Sourced, Revised, Segmented
<1>12. Own(k)'
  BY <1>2, <1>8, <1>9, <1>10, <1>11 DEF Own
<1>13. Matched(k)'
  <2>1. \A c \in next.moment :
          c[2] # 0 /\ c[1] \notin next.lost =>
            /\ c[1] \in active' /\ current'[c[1]] # 0
            /\ c[1][1] \in Segmented(k) =>
                 \E g \in temp.payload.segments : g[1] = c[1]
    <3> SUFFICES ASSUME NEW c \in job[k].moment, c[2] # 0,
                        c[1] \notin job[k].lost, c[1] \notin lost
                 PROVE /\ c[1] \in active' /\ current'[c[1]] # 0
                       /\ c[1][1] \in Segmented(k) =>
                            \E g \in temp.payload.segments : g[1] = c[1]
      BY <1>8
    <3>1. /\ c[1] \in active /\ current[c[1]] # 0
          /\ c[1][1] \in Segmented(k) =>
               \E g \in temp.payload.segments : g[1] = c[1]
      BY <1>10 DEF Matched
    <3> QED
      BY <1>1, <3>1
  <2>2. /\ \A c \in temp.payload.revisions : c[1][1] \in Revised(k)
        /\ \A b, c \in temp.payload.revisions : b[1] = c[1] => b = c
    BY <1>10 DEF Matched
  <2>3. temp' = temp /\ job'[k].moment = next.moment /\ job'[k].lost = next.lost
    BY <1>2, <1>9
  <2> QED
    BY ONLY <1>11, <2>1, <2>2, <2>3 DEF Matched
<1>14. Written(k)'
  BY <1>2, <1>8, <1>9, <1>10 DEF Written
<1>15. Still(k)'
  BY <1>8, <1>9 DEF Still
<1> QED
  BY <1>12, <1>13, <1>14, <1>15 DEF Right

\* The tables are made in an empty file.
LEMMA CreateRight ==
  ASSUME Common, Lone, NEW k \in Procs, CreateTables(k), job[k].alone,
         pc'[k] \in Past
  PROVE Right(k)'
<1>1. pc[k] = "create" /\ DOMAIN pc = Procs
  BY KindsFacts DEF CreateTables, At, Common
<1>2. /\ Holds(k) /\ ~temp.payload.tables
      /\ temp' = [temp EXCEPT !.payload.tables = TRUE] /\ job' = job
      /\ pc' = [pc EXCEPT ![k] = "roots"]
  <2>1. ~Fails(k)
    BY <1>1 DEF Fails, Ends, Past, Copying, Copied
  <2> QED
    BY <2>1 DEF CreateTables, Goto
<1>3. temp.payload = Blank /\ temp \in Directory /\ Blank \in Payload
  BY <1>2, BlankKind DEF Common, Shelf, Holds, Kinds
<1>4. PICK file : file = [Blank EXCEPT !.tables = TRUE]
  OBVIOUS
<1>5. /\ file.roots = {} /\ file.sources = {} /\ file.revisions = {}
      /\ file.segments = {} /\ file \in Payload
  BY <1>3, <1>4 DEF Blank, Payload
<1>6. temp'.payload = file /\ temp'.open = temp.open
  BY <1>2, <1>3, <1>4 DEF Directory
<1>7. file # None /\ k \in temp.open
  BY <1>2, <1>5, NoneIsNoPayload DEF Holds
<1>8. pc'[k] = "roots" /\ job'[k] = job[k]
  BY <1>1, <1>2
<1>9. job[k].todo = {} /\ job[k].moment = {}
  BY <1>1 DEF Common, Apart, Early
<1>10. Own(k)'
  BY <1>4, <1>5, <1>6, <1>7, <1>8, <1>9 DEF Own, Sourced, Copied
<1>11. Matched(k)' /\ Written(k)' /\ Still(k)'
  BY <1>5, <1>6, <1>8, <1>9 DEF Matched, Written, Still, Copied
<1> QED
  BY <1>10, <1>11 DEF Right

LEMMA OfNone == Of({}) = {} /\ Revisions({}) = {}
BY DEF Of, Revisions

\* The roots are selected before anything is copied.
LEMMA SelectRootsRight ==
  ASSUME Common, Lone, NEW k \in Procs, SelectRoots(k), job[k].alone,
         pc'[k] \in Past
  PROVE Right(k)'
<1>1. pc[k] = "roots" /\ DOMAIN pc = Procs /\ pc[k] \in Past
  BY KindsFacts DEF SelectRoots, At, Common, Past, Copying
<1>2. PICK found : found = {r \in job[k].only : rows[r] = "enabled"}
  OBVIOUS
<1>3. /\ temp' = IF found = {} THEN temp ELSE [temp EXCEPT !.payload.roots = found]
      /\ job' = [job EXCEPT ![k].todo = found, ![k].changed = FALSE]
      /\ pc' = [pc EXCEPT ![k] = "sources"]
  <2>1. ~Fails(k)
    BY <1>1 DEF Fails, Ends, Past, Copying, Copied
  <2> QED
    BY <1>2, <2>1 DEF SelectRoots, Goto
<1>4. /\ Own(k) /\ temp.payload \in Payload /\ temp.payload # None
      /\ k \in temp.open /\ job[k] \in Job
  BY <1>1, LoneFacts
<1>5. temp.payload = [Blank EXCEPT !.tables = TRUE] /\ Blank \in Payload
  BY <1>1, <1>4, BlankKind DEF Own
<1>6. /\ temp.payload.roots = {} /\ temp.payload.sources = {}
      /\ temp.payload.revisions = {} /\ temp.payload.segments = {}
  BY <1>5 DEF Blank
<1>7. found \subseteq job[k].only /\ found \subseteq Roots
  BY <1>2, KindsFacts DEF Common
<1>8. PICK file : file = temp'.payload
  OBVIOUS
<1>9. /\ file.roots = found /\ file.sources = {} /\ file.revisions = {}
      /\ file.segments = {} /\ file # None /\ temp'.open = temp.open
  <2>1. CASE found = {}
    BY <1>3, <1>4, <1>6, <1>8, <2>1
  <2>2. CASE found # {}
    <3>1. PICK new : new = [temp.payload EXCEPT !.roots = found]
      OBVIOUS
    <3>2. temp' = [temp EXCEPT !.payload = new] /\ temp \in Directory
      BY <1>3, <2>2, <3>1 DEF Common, Kinds
    <3>3. file = new /\ temp'.open = temp.open
      BY <1>8, <3>2 DEF Directory
    <3>4. /\ new \in Payload /\ new.roots = found /\ new.sources = {}
          /\ new.revisions = {} /\ new.segments = {}
      BY <1>4, <1>6, <1>7, <3>1 DEF Payload
    <3> QED
      BY <3>3, <3>4, NoneIsNoPayload
  <2> QED
    BY <2>1, <2>2
<1>10. PICK j : j = job'[k]
  OBVIOUS
<1>11. /\ j.todo = found /\ j.changed = FALSE /\ j.only = job[k].only
       /\ j.moment = job[k].moment
  BY <1>3, <1>4, <1>10, KindsFacts DEF Job, Common
<1>12. j.moment = {}
  BY <1>1, <1>11 DEF Common, Apart
<1>13. pc'[k] = "sources"
  BY <1>1, <1>3
<1>14. Sourced(k)' = {} /\ Revised(k)' = {} /\ Segmented(k)' = {}
  BY <1>8, <1>9, <1>10, <1>11 DEF Sourced, Revised, Segmented
<1>15. Own(k)'
  BY <1>4, <1>7, <1>8, <1>9, <1>10, <1>11, <1>12, <1>13, <1>14 DEF Own, Copied
<1>16. Matched(k)' /\ Written(k)'
  BY <1>8, <1>9, <1>10, <1>12, <1>13 DEF Matched, Written, Copied
<1>17. Of({})' = {} /\ Revisions({})' = {}
  BY DEF Of, Revisions
<1>18. Still(k)'
  BY <1>8, <1>9, <1>14, <1>17 DEF Still
<1> QED
  BY <1>15, <1>16, <1>18 DEF Right

LEMMA OfMore ==
  ASSUME NEW S, NEW r
  PROVE /\ Of(S \cup {r}) = Of(S) \cup Rows(r)
        /\ Revisions(S \cup {r}) = Revisions(S) \cup CurrentRevisions(r)
<1>1. Of(S \cup {r}) = Of(S) \cup Rows(r)
  BY DEF Of, Rows
<1> QED
  BY <1>1 DEF Revisions, CurrentRevisions

LEMMA CopySourcesRight ==
  ASSUME Common, Lone, NEW k \in Procs, NEW r \in Roots, CopySources(k, r),
         job[k].alone, pc'[k] \in Past
  PROVE Right(k)'
<1>1. pc[k] = "sources" /\ DOMAIN pc = Procs /\ pc[k] \in Past
  BY KindsFacts DEF CopySources, At, Common, Past, Copying
<1>2. PICK found : found = Rows(r)
  OBVIOUS
<1>3. /\ temp' = IF found = {} THEN temp
                 ELSE [temp EXCEPT !.payload.sources = @ \cup found]
      /\ job' = [job EXCEPT ![k].root = r,
                            ![k].todo = @ \ {r},
                            ![k].moment = @ \cup found,
                            ![k].lost = {s \in @ : s[1] # r}]
      /\ pc' = [pc EXCEPT ![k] = "revisions"] /\ r \in job[k].todo
      /\ UNCHANGED <<active, current>>
  <2>1. ~Fails(k)
    BY <1>1 DEF Fails, Ends, Past, Copying, Copied
  <2> QED
    BY <1>2, <2>1 DEF CopySources, Goto, At, database
<1>4. /\ Own(k) /\ Matched(k) /\ Still(k)
      /\ temp.payload \in Payload /\ temp.payload # None
      /\ k \in temp.open /\ job[k] \in Job
  BY <1>1, LoneFacts
<1>5. found \subseteq Copy
  BY <1>2, RowsKind DEF Common
<1>6. PICK old : old = temp.payload
  OBVIOUS
<1>7. PICK file : file = temp'.payload
  OBVIOUS
<1>8. /\ file.sources = old.sources \cup found /\ file.roots = old.roots
      /\ file.revisions = old.revisions /\ file.segments = old.segments
      /\ file # None /\ temp'.open = temp.open
  <2>1. CASE found = {}
    BY <1>3, <1>4, <1>6, <1>7, <2>1
  <2>2. CASE found # {}
    <3>1. PICK new : new = [old EXCEPT !.sources = @ \cup found]
      OBVIOUS
    <3>2. temp' = [temp EXCEPT !.payload = new] /\ temp \in Directory
      BY <1>3, <1>6, <2>2, <3>1 DEF Common, Kinds
    <3>3. file = new /\ temp'.open = temp.open
      BY <1>7, <3>2 DEF Directory
    <3>4. /\ new \in Payload /\ new.sources = old.sources \cup found
          /\ new.roots = old.roots /\ new.revisions = old.revisions
          /\ new.segments = old.segments
      BY <1>4, <1>5, <1>6, <3>1 DEF Payload
    <3> QED
      BY <3>3, <3>4, NoneIsNoPayload
  <2> QED
    BY <2>1, <2>2
<1>9. PICK j, lost : j = job'[k] /\ lost = {s \in job[k].lost : s[1] # r}
  OBVIOUS
<1>10. /\ j.root = r /\ j.todo = job[k].todo \ {r} /\ j.only = job[k].only
       /\ j.moment = job[k].moment \cup found /\ j.lost = lost
       /\ j.changed = job[k].changed
  <2>1. j = [job[k] EXCEPT !.root = r, !.todo = @ \ {r}, !.moment = @ \cup found,
                           !.lost = lost]
    BY <1>3, <1>9, KindsFacts DEF Common
  <2> QED
    BY <1>4, <2>1 DEF Job
<1>11. pc'[k] = "revisions"
  BY <1>1, <1>3
<1>12. PICK S : S = Sourced(k)
  OBVIOUS
<1>13. /\ r \in old.roots /\ r \notin S /\ S \subseteq old.roots
       /\ S = old.roots \ job[k].todo
       /\ Revised(k) = S /\ Segmented(k) = S
  BY <1>1, <1>3, <1>4, <1>6, <1>12 DEF Own, Sourced, Revised, Segmented
<1>14. Sourced(k)' = S \cup {r} /\ Revised(k)' = S /\ Segmented(k)' = S
  <2>1. Sourced(k)' = S \cup {r}
    BY <1>7, <1>8, <1>9, <1>10, <1>13 DEF Sourced
  <2> QED
    BY <1>9, <1>10, <1>11, <1>13, <2>1 DEF Revised, Segmented
<1>15. \A c \in found : /\ c[1] \in active /\ c[1][1] = r
                        /\ c[2] = current[c[1]]
  BY <1>2 DEF Rows
<1>16. Own(k)'
  <2>1. \A c \in file.sources : c[1][1] \in S \cup {r}
    BY <1>4, <1>6, <1>8, <1>12, <1>15 DEF Own
  <2>2. file.roots \subseteq j.only /\ j.todo \subseteq file.roots
        /\ file.sources = j.moment
    BY <1>4, <1>6, <1>8, <1>10 DEF Own
  <2> QED
    BY <1>4, <1>7, <1>8, <1>9, <1>10, <1>11, <1>14, <2>1, <2>2 DEF Own, Copied
<1>17. Matched(k)'
  <2>1. ASSUME NEW c \in j.moment, c[2] # 0, c[1] \notin lost
        PROVE /\ c[1] \in active /\ current[c[1]] # 0
              /\ c[1][1] \in S => \E g \in old.segments : g[1] = c[1]
    <3>1. CASE c \in found
      BY <1>13, <1>15, <2>1, <3>1
    <3>2. CASE c \notin found
      <4>1. c \in job[k].moment
        BY <1>10, <3>2
      <4>2. c[1][1] # r
        BY <1>4, <1>12, <1>13, <4>1 DEF Own
      <4>3. c[1] \notin job[k].lost
        BY <1>9, <2>1, <4>2
      <4> QED
        BY <1>4, <1>6, <1>13, <2>1, <4>1, <4>3 DEF Matched
    <3> QED
      BY <3>1, <3>2
  <2>2. /\ \A c \in file.revisions : c[1][1] \in S
        /\ \A b, c \in file.revisions : b[1] = c[1] => b = c
    BY <1>4, <1>6, <1>8, <1>13 DEF Matched
  <2>3. /\ temp'.payload = file /\ file.segments = old.segments
        /\ job'[k].moment = j.moment /\ job'[k].lost = lost
        /\ UNCHANGED <<active, current>>
    BY <1>3, <1>7, <1>8, <1>9, <1>10
  <2> QED
    BY ONLY <1>14, <2>1, <2>2, <2>3 DEF Matched
<1>18. Written(k)'
  BY <1>11 DEF Written, Copied
<1>19. Still(k)'
  <2> SUFFICES ASSUME ~job[k].changed
               PROVE /\ file.sources = Of(S \cup {r})
                     /\ file.revisions = Revisions(S)
                     /\ file.segments = Revisions(S)
    <3>1. Of(S \cup {r})' = Of(S \cup {r}) /\ Revisions(S)' = Revisions(S)
      BY <1>3 DEF Of, Revisions
    <3> QED
      BY <1>7, <1>9, <1>10, <1>14, <3>1 DEF Still
  <2>1. /\ old.sources = Of(S) /\ old.revisions = Revisions(S)
        /\ old.segments = Revisions(S)
    BY <1>1, <1>4, <1>6, <1>12, <1>13 DEF Still
  <2> QED
    BY <1>2, <1>8, <2>1, OfMore
<1> QED
  BY <1>16, <1>17, <1>18, <1>19 DEF Right

LEMMA CopyRevisionsRight ==
  ASSUME Common, Lone, NEW k \in Procs, CopyRevisions(k),
         job[k].alone, pc'[k] \in Past
  PROVE Right(k)'
<1>1. pc[k] = "revisions" /\ DOMAIN pc = Procs /\ pc[k] \in Past
  BY KindsFacts DEF CopyRevisions, At, Common, Past, Copying
<1>2. PICK r, found : r = job[k].root /\ found = CurrentRevisions(r)
  OBVIOUS
<1>3. /\ temp' = IF found = {} THEN temp
                 ELSE [temp EXCEPT !.payload.revisions = @ \cup found]
      /\ job' = job /\ pc' = [pc EXCEPT ![k] = "segments"]
      /\ UNCHANGED <<active, current>>
  <2>1. ~Fails(k)
    BY <1>1 DEF Fails, Ends, Past, Copying, Copied
  <2> QED
    BY <1>2, <2>1 DEF CopyRevisions, Goto, At, database
<1>4. /\ Own(k) /\ Matched(k) /\ Still(k)
      /\ temp.payload \in Payload /\ temp.payload # None
      /\ k \in temp.open /\ job[k] \in Job
  BY <1>1, LoneFacts
<1>5. found \subseteq Copy
  BY <1>2, RowsKind DEF Common
<1>6. PICK old : old = temp.payload
  OBVIOUS
<1>7. PICK file : file = temp'.payload
  OBVIOUS
<1>8. /\ file.revisions = old.revisions \cup found /\ file.roots = old.roots
      /\ file.sources = old.sources /\ file.segments = old.segments
      /\ file # None /\ temp'.open = temp.open
  <2>1. CASE found = {}
    BY <1>3, <1>4, <1>6, <1>7, <2>1
  <2>2. CASE found # {}
    <3>1. PICK new : new = [old EXCEPT !.revisions = @ \cup found]
      OBVIOUS
    <3>2. temp' = [temp EXCEPT !.payload = new] /\ temp \in Directory
      BY <1>3, <1>6, <2>2, <3>1 DEF Common, Kinds
    <3>3. file = new /\ temp'.open = temp.open
      BY <1>7, <3>2 DEF Directory
    <3>4. /\ new \in Payload /\ new.revisions = old.revisions \cup found
          /\ new.roots = old.roots /\ new.sources = old.sources
          /\ new.segments = old.segments
      BY <1>4, <1>5, <1>6, <3>1 DEF Payload
    <3> QED
      BY <3>3, <3>4, NoneIsNoPayload
  <2> QED
    BY <2>1, <2>2
<1>9. job'[k] = job[k] /\ pc'[k] = "segments"
  BY <1>1, <1>3
<1>10. PICK S : S = Sourced(k)
  OBVIOUS
<1>11. r \in S /\ Revised(k) = S \ {r} /\ Segmented(k) = S \ {r}
  BY <1>1, <1>2, <1>4, <1>10 DEF Own, Revised, Segmented
<1>12. Sourced(k)' = S /\ Revised(k)' = S /\ Segmented(k)' = S \ {r}
  <2>1. Sourced(k)' = S
    BY <1>3, <1>6, <1>7, <1>8, <1>10 DEF Sourced
  <2> QED
    BY <1>2, <1>9, <2>1 DEF Revised, Segmented
<1>13. \A c \in found : c[1][1] = r /\ c = <<c[1], current[c[1]]>>
  BY <1>2 DEF CurrentRevisions, Rows
<1>14. Own(k)'
  BY <1>4, <1>6, <1>7, <1>8, <1>9, <1>10, <1>1, <1>2, <1>11, <1>12 DEF Own, Copied
<1>15. Matched(k)'
  <2>1. \A c \in file.revisions : c[1][1] \in S
    BY <1>4, <1>6, <1>8, <1>11, <1>13 DEF Matched
  <2>2. ASSUME NEW b \in file.revisions, NEW c \in file.revisions, b[1] = c[1]
        PROVE b = c
    <3>1. CASE b[1][1] = r
      <4>1. b \in found /\ c \in found
        BY <1>4, <1>6, <1>8, <1>11, <2>2, <3>1 DEF Matched
      <4> QED
        BY <1>13, <2>2, <4>1
    <3>2. CASE b[1][1] # r
      <4>1. b \in old.revisions /\ c \in old.revisions
        BY <1>8, <1>13, <2>2, <3>2
      <4> QED
        BY <1>4, <1>6, <2>2, <4>1 DEF Matched
    <3> QED
      BY <3>1, <3>2
  <2> QED
    BY <1>3, <1>4, <1>6, <1>7, <1>8, <1>9, <1>11, <1>12, <2>1, <2>2 DEF Matched
<1>16. Written(k)'
  BY <1>9 DEF Written, Copied
<1>17. Still(k)'
  <2> SUFFICES ASSUME ~job[k].changed
               PROVE /\ file.sources = Of(S)
                     /\ file.revisions = Revisions(S)
                     /\ file.segments = Revisions(S \ {r})
    <3>1. /\ Of(S)' = Of(S) /\ Revisions(S)' = Revisions(S)
          /\ Revisions(S \ {r})' = Revisions(S \ {r})
      BY <1>3 DEF Of, Revisions
    <3> QED
      BY <1>7, <1>9, <1>12, <3>1 DEF Still
  <2>1. /\ old.sources = Of(S) /\ old.revisions = Revisions(S \ {r})
        /\ old.segments = Revisions(S \ {r})
    BY <1>1, <1>4, <1>6, <1>10, <1>11 DEF Still
  <2>2. PICK T : T = S \ {r}
    OBVIOUS
  <2>3. Revisions(T \cup {r}) = Revisions(T) \cup found
    BY <1>2, OfMore
  <2>4. Revisions(S) = Revisions(S \ {r}) \cup found
    <3>1. S = T \cup {r}
      BY <1>11, <2>2
    <3> QED
      BY <2>2, <2>3, <3>1
  <2> QED
    BY <1>8, <2>1, <2>4
<1> QED
  BY <1>14, <1>15, <1>16, <1>17 DEF Right

LEMMA CopySegmentsRight ==
  ASSUME Common, Lone, NEW k \in Procs, CopySegments(k),
         job[k].alone, pc'[k] \in Past
  PROVE Right(k)'
<1>1. pc[k] = "segments" /\ DOMAIN pc = Procs /\ pc[k] \in Past
  BY KindsFacts DEF CopySegments, At, Common, Past, Copying
<1>2. PICK r, found : r = job[k].root /\ found = CurrentRevisions(r)
  OBVIOUS
<1>3. /\ temp' = IF found = {} THEN temp
                 ELSE [temp EXCEPT !.payload.segments = @ \cup found]
      /\ job' = job /\ pc' = [pc EXCEPT ![k] = "sources"]
      /\ UNCHANGED <<active, current>>
  <2>1. ~Fails(k)
    BY <1>1 DEF Fails, Ends, Past, Copying, Copied
  <2> QED
    BY <1>2, <2>1 DEF CopySegments, CurrentSegments, Goto, At, database
<1>4. /\ Own(k) /\ Matched(k) /\ Still(k)
      /\ temp.payload \in Payload /\ temp.payload # None
      /\ k \in temp.open /\ job[k] \in Job
  BY <1>1, LoneFacts
<1>5. found \subseteq Copy
  BY <1>2, RowsKind DEF Common
<1>6. PICK old : old = temp.payload
  OBVIOUS
<1>7. PICK file : file = temp'.payload
  OBVIOUS
<1>8. /\ file.segments = old.segments \cup found /\ file.roots = old.roots
      /\ file.sources = old.sources /\ file.revisions = old.revisions
      /\ file # None /\ temp'.open = temp.open
  <2>1. CASE found = {}
    BY <1>3, <1>4, <1>6, <1>7, <2>1
  <2>2. CASE found # {}
    <3>1. PICK new : new = [old EXCEPT !.segments = @ \cup found]
      OBVIOUS
    <3>2. temp' = [temp EXCEPT !.payload = new] /\ temp \in Directory
      BY <1>3, <1>6, <2>2, <3>1 DEF Common, Kinds
    <3>3. file = new /\ temp'.open = temp.open
      BY <1>7, <3>2 DEF Directory
    <3>4. /\ new \in Payload /\ new.segments = old.segments \cup found
          /\ new.roots = old.roots /\ new.sources = old.sources
          /\ new.revisions = old.revisions
      BY <1>4, <1>5, <1>6, <3>1 DEF Payload
    <3> QED
      BY <3>3, <3>4, NoneIsNoPayload
  <2> QED
    BY <2>1, <2>2
<1>9. job'[k] = job[k] /\ pc'[k] = "sources"
  BY <1>1, <1>3
<1>10. PICK S : S = Sourced(k)
  OBVIOUS
<1>11. r \in S /\ Revised(k) = S /\ Segmented(k) = S \ {r}
  BY <1>1, <1>2, <1>4, <1>10 DEF Own, Revised, Segmented
<1>12. Sourced(k)' = S /\ Revised(k)' = S /\ Segmented(k)' = S
  <2>1. Sourced(k)' = S
    BY <1>3, <1>6, <1>7, <1>8, <1>10 DEF Sourced
  <2> QED
    BY <1>2, <1>9, <2>1 DEF Revised, Segmented
<1>13. Own(k)'
  BY <1>4, <1>6, <1>7, <1>8, <1>9, <1>10, <1>12 DEF Own, Copied
<1>14. Matched(k)'
  <2>1. ASSUME NEW c \in job[k].moment, c[2] # 0, c[1] \notin job[k].lost
        PROVE /\ c[1] \in active /\ current[c[1]] # 0
              /\ c[1][1] \in S => \E g \in file.segments : g[1] = c[1]
    <3>1. /\ c[1] \in active /\ current[c[1]] # 0
          /\ c[1][1] \in S \ {r} => \E g \in old.segments : g[1] = c[1]
      BY <1>4, <1>6, <1>11, <2>1 DEF Matched
    <3>2. CASE c[1][1] = r
      <4>1. PICK g : g = <<c[1], current[c[1]]>>
        OBVIOUS
      <4>2. g \in found /\ g[1] = c[1]
        BY <1>2, <3>1, <3>2, <4>1 DEF CurrentRevisions, Rows
      <4> QED
        BY <1>8, <3>1, <4>2
    <3>3. CASE c[1][1] # r
      BY <1>8, <3>1, <3>3
    <3> QED
      BY <3>2, <3>3
  <2>2. /\ \A c \in file.revisions : c[1][1] \in S
        /\ \A b, c \in file.revisions : b[1] = c[1] => b = c
    BY <1>4, <1>6, <1>8, <1>11 DEF Matched
  <2> QED
    BY <1>3, <1>7, <1>9, <1>12, <2>1, <2>2 DEF Matched
<1>15. Written(k)'
  BY <1>9 DEF Written, Copied
<1>16. Still(k)'
  <2> SUFFICES ASSUME ~job[k].changed
               PROVE /\ file.sources = Of(S)
                     /\ file.revisions = Revisions(S)
                     /\ file.segments = Revisions(S)
    <3>1. Of(S)' = Of(S) /\ Revisions(S)' = Revisions(S)
      BY <1>3 DEF Of, Revisions
    <3> QED
      BY <1>7, <1>9, <1>12, <3>1 DEF Still
  <2>1. /\ old.sources = Of(S) /\ old.revisions = Revisions(S)
        /\ old.segments = Revisions(S \ {r})
    BY <1>1, <1>4, <1>6, <1>10, <1>11 DEF Still
  <2>2. PICK T : T = S \ {r}
    OBVIOUS
  <2>3. Revisions(T \cup {r}) = Revisions(T) \cup found
    BY <1>2, OfMore
  <2>4. Revisions(S) = Revisions(S \ {r}) \cup found
    <3>1. S = T \cup {r}
      BY <1>11, <2>2
    <3> QED
      BY <2>2, <2>3, <3>1
  <2> QED
    BY <1>8, <2>1, <2>4
<1> QED
  BY <1>13, <1>14, <1>15, <1>16 DEF Right

\* After copying, an export that is alone leaves the payload as it is.
LEMMA LoneSame ==
  ASSUME Common, Lone, NEW k \in Procs, job[k].alone,
         pc[k] \in {"sources"} \cup Copied, job[k].todo = {}, pc'[k] \in Copied,
         temp'.payload = temp.payload, temp'.open = temp.open,
         UNCHANGED <<active, current>>,
         job'[k].only = job[k].only, job'[k].todo = job[k].todo,
         job'[k].root = job[k].root, job'[k].moment = job[k].moment,
         job'[k].lost = job[k].lost, job'[k].changed = job[k].changed
  PROVE Own(k)' /\ Matched(k)' /\ Still(k)'
<1>1. /\ pc[k] \in Past /\ pc[k] \notin {"roots", "revisions", "segments"}
      /\ pc'[k] \notin {"roots", "revisions", "segments"}
  BY DEF Past, Copying, Copied
<1>2. Own(k) /\ Matched(k) /\ Still(k)
  BY <1>1, LoneFacts
<1>3. PICK S : S = Sourced(k)
  OBVIOUS
<1>4. Revised(k) = S /\ Segmented(k) = S
  BY <1>1, <1>3 DEF Revised, Segmented
<1>5. Sourced(k)' = S
  BY <1>3 DEF Sourced
<1>6. Revised(k)' = S /\ Segmented(k)' = S
  BY <1>1, <1>5 DEF Revised, Segmented
<1>7. Own(k)'
  BY <1>1, <1>2, <1>3, <1>5 DEF Own
<1>8. Matched(k)'
  BY <1>2, <1>4, <1>6 DEF Matched
<1>9. Still(k)'
  <2>1. Of(S)' = Of(S) /\ Revisions(S)' = Revisions(S)
    BY DEF Of, Revisions
  <2> QED
    BY <1>1, <1>2, <1>3, <1>4, <1>5, <1>6, <2>1 DEF Still
<1> QED
  BY <1>7, <1>8, <1>9

LEMMA ReadBytesRight ==
  ASSUME Common, Lone, NEW k \in Procs, ReadBytes(k), job[k].alone,
         pc'[k] \in Past
  PROVE Right(k)'
<1>1. /\ pc[k] = "sources" /\ job[k].todo = {} /\ DOMAIN pc = Procs
      /\ UNCHANGED <<active, current>> /\ job[k] \in Job
  BY KindsFacts DEF ReadBytes, At, database, Common
<1>2. /\ temp' = temp /\ pc' = [pc EXCEPT ![k] = "describe"]
      /\ job' = [job EXCEPT ![k].bytes = temp.payload]
  <2>1. ~Fails(k)
    BY <1>1 DEF Fails, Ends, Past, Copying, Copied
  <2> QED
    BY <2>1 DEF ReadBytes, Goto
<1>3. pc'[k] = "describe" /\ pc'[k] \in Copied
  BY <1>1, <1>2 DEF Copied
<1>4. PICK j : j = [job[k] EXCEPT !.bytes = temp.payload]
  OBVIOUS
<1>5. /\ j.bytes = temp.payload /\ j.only = job[k].only /\ j.todo = job[k].todo
      /\ j.root = job[k].root /\ j.moment = job[k].moment
      /\ j.lost = job[k].lost /\ j.changed = job[k].changed
  BY <1>1, <1>4 DEF Job
<1>6. job'[k] = j
  BY <1>2, <1>4, KindsFacts DEF Common
<1>7. Own(k)' /\ Matched(k)' /\ Still(k)'
  BY <1>1, <1>2, <1>3, <1>5, <1>6, LoneSame
<1>8. Written(k)'
  BY <1>2, <1>3, <1>5, <1>6 DEF Written
<1> QED
  BY <1>7, <1>8 DEF Right

LEMMA ListPayloadRootsRight ==
  ASSUME Common, Lone, NEW k \in Procs, ListPayloadRoots(k), job[k].alone,
         pc'[k] \in Past
  PROVE Right(k)'
<1>1. /\ pc[k] = "describe" /\ pc[k] \in Copied /\ pc[k] \in Past
      /\ DOMAIN pc = Procs /\ UNCHANGED <<active, current>> /\ job[k] \in Job
  BY KindsFacts DEF ListPayloadRoots, At, database, Common, Past, Copied
<1>2. /\ temp' = temp /\ pc' = [pc EXCEPT ![k] = "count"]
      /\ job' = [job EXCEPT ![k].roots = temp.payload.roots]
  <2>1. ~Ends(k)
    BY <1>1 DEF Ends, Past, Copying, Copied
  <2> QED
    BY <2>1 DEF ListPayloadRoots, Goto
<1>3. pc'[k] = "count" /\ pc'[k] \in Copied
  BY <1>1, <1>2 DEF Copied
<1>4. Own(k) /\ Written(k)
  BY <1>1, LoneFacts
<1>5. job[k].todo = {} /\ job[k].bytes = temp.payload
  BY <1>1, <1>4 DEF Own, Written
<1>6. PICK j : j = [job[k] EXCEPT !.roots = temp.payload.roots]
  OBVIOUS
<1>7. /\ j.bytes = job[k].bytes /\ j.only = job[k].only /\ j.todo = job[k].todo
      /\ j.root = job[k].root /\ j.moment = job[k].moment
      /\ j.lost = job[k].lost /\ j.changed = job[k].changed
      /\ j.roots = temp.payload.roots
  BY <1>1, <1>6 DEF Job
<1>8. job'[k] = j
  BY <1>2, <1>6, KindsFacts DEF Common
<1>9. Own(k)' /\ Matched(k)' /\ Still(k)'
  BY <1>1, <1>2, <1>3, <1>5, <1>7, <1>8, LoneSame
<1>10. Written(k)'
  BY <1>2, <1>3, <1>5, <1>7, <1>8 DEF Written
<1> QED
  BY <1>9, <1>10 DEF Right

LEMMA CountPayloadRight ==
  ASSUME Common, Lone, NEW k \in Procs, CountPayload(k), job[k].alone,
         pc'[k] \in Past
  PROVE Right(k)'
<1>1. /\ pc[k] = "count" /\ pc[k] \in Copied /\ pc[k] \in Past
      /\ DOMAIN pc = Procs /\ UNCHANGED <<active, current>> /\ job[k] \in Job
  BY KindsFacts DEF CountPayload, At, database, Common, Past, Copied
<1>2. Own(k) /\ Written(k) /\ temp.payload \in Payload
  BY <1>1, LoneFacts
<1>3. job[k].todo = {} /\ job[k].bytes = temp.payload /\ job[k].roots = temp.payload.roots
  BY <1>1, <1>2 DEF Own, Written
<1>4. PICK counts : counts = Counts(temp.payload)
  OBVIOUS
<1>5. File(temp.payload) = temp.payload
  BY <1>2, BlankKind
<1>6. /\ temp' = [temp EXCEPT !.payload = temp.payload]
      /\ pc' = [pc EXCEPT ![k] = "manifest"]
      /\ job' = [job EXCEPT ![k].counts = counts]
  <2>1. ~Fails(k)
    BY <1>1 DEF Fails, Ends, Past, Copying, Copied
  <2> QED
    BY <1>4, <1>5, <2>1 DEF CountPayload, Goto
<1>7. temp'.payload = temp.payload /\ temp'.open = temp.open
  BY <1>6, KindsFacts DEF Directory, Common
<1>8. pc'[k] = "manifest" /\ pc'[k] \in Copied
  BY <1>1, <1>6 DEF Copied
<1>9. PICK j : j = [job[k] EXCEPT !.counts = counts]
  OBVIOUS
<1>10. /\ j.bytes = job[k].bytes /\ j.only = job[k].only /\ j.todo = job[k].todo
       /\ j.root = job[k].root /\ j.moment = job[k].moment
       /\ j.lost = job[k].lost /\ j.changed = job[k].changed
       /\ j.roots = job[k].roots /\ j.counts = counts
  BY <1>1, <1>9 DEF Job
<1>11. job'[k] = j
  BY <1>6, <1>9, KindsFacts DEF Common
<1>12. Own(k)' /\ Matched(k)' /\ Still(k)'
  BY <1>1, <1>3, <1>7, <1>8, <1>10, <1>11, LoneSame
<1>13. Counts(temp.payload)' = counts
  BY <1>4, <1>7 DEF Counts
<1>14. Written(k)'
  BY <1>3, <1>7, <1>8, <1>10, <1>11, <1>13 DEF Written
<1> QED
  BY <1>12, <1>14 DEF Right

LEMMA WriteManifestRight ==
  ASSUME Common, Lone, NEW k \in Procs, WriteManifest(k), job[k].alone,
         pc'[k] \in Past
  PROVE Right(k)'
<1>1. /\ pc[k] = "manifest" /\ pc[k] \in Copied /\ pc[k] \in Past
      /\ DOMAIN pc = Procs /\ UNCHANGED <<active, current>> /\ job[k] \in Job
  BY KindsFacts DEF WriteManifest, At, database, Common, Past, Copied
<1>2. Own(k) /\ Written(k)
  BY <1>1, LoneFacts
<1>3. /\ job[k].todo = {} /\ job[k].bytes = temp.payload
      /\ job[k].roots = temp.payload.roots /\ job[k].counts = Counts(temp.payload)
  BY <1>1, <1>2 DEF Own, Written, Copied
<1>4. PICK manifest : manifest = [checksum |-> job[k].bytes, roots |-> job[k].roots,
                                  counts |-> job[k].counts]
  OBVIOUS
<1>5. /\ temp' = [temp EXCEPT !.manifest = manifest] /\ job' = job
      /\ pc' = [pc EXCEPT ![k] = "restrict"]
  <2>1. ~Fails(k)
    BY <1>1 DEF Fails, Ends, Past, Copying, Copied
  <2> QED
    BY <1>4, <2>1 DEF WriteManifest, Goto
<1>6. /\ temp'.payload = temp.payload /\ temp'.open = temp.open
      /\ temp'.manifest = manifest
  BY <1>5, KindsFacts DEF Directory, Common
<1>7. pc'[k] = "restrict" /\ pc'[k] \in Copied
  BY <1>1, <1>5 DEF Copied
<1>8. Own(k)' /\ Matched(k)' /\ Still(k)'
  BY <1>1, <1>3, <1>5, <1>6, <1>7, LoneSame
<1>9. Counts(temp.payload)' = Counts(temp.payload)
  BY <1>6 DEF Counts
<1>10. Written(k)'
  BY <1>3, <1>4, <1>5, <1>6, <1>7, <1>9 DEF Written
<1> QED
  BY <1>8, <1>10 DEF Right

LEMMA RestrictRight ==
  ASSUME Common, Lone, NEW k \in Procs, Restrict(k), job[k].alone,
         pc'[k] \in Past
  PROVE Right(k)'
<1>1. /\ pc[k] = "restrict" /\ pc[k] \in Copied /\ pc[k] \in Past
      /\ DOMAIN pc = Procs /\ UNCHANGED <<active, current>>
  BY KindsFacts DEF Restrict, At, database, Common, Past, Copied
<1>2. Own(k) /\ Written(k)
  BY <1>1, LoneFacts
<1>3. job[k].todo = {}
  BY <1>1, <1>2 DEF Own
<1>4. /\ temp' = temp /\ job' = job /\ temp.manifest # None
      /\ pc' = [pc EXCEPT ![k] = "rename"]
  <2>1. ~Fails(k)
    BY <1>1 DEF Fails, Ends, Past, Copying, Copied
  <2> QED
    BY <2>1 DEF Restrict, Goto
<1>5. pc'[k] = "rename" /\ pc'[k] \in Copied
  BY <1>1, <1>4 DEF Copied
<1>6. Own(k)' /\ Matched(k)' /\ Still(k)'
  BY <1>1, <1>3, <1>4, <1>5, LoneSame
<1>7. Counts(temp.payload)' = Counts(temp.payload)
  BY <1>4 DEF Counts
<1>8. Written(k)'
  BY <1>1, <1>2, <1>4, <1>5, <1>7 DEF Written, Copied
<1> QED
  BY <1>6, <1>8 DEF Right

LEMMA GoesLone ==
  ASSUME Common, Lone, NEW k \in Procs, Goes(k)
  PROVE Lone'
<1> SUFFICES ASSUME job[k].alone, pc'[k] \in Past PROVE Right(k)'
  BY LoneStep
<1>1. DOMAIN pc = Procs
  BY KindsFacts DEF Common
<1>2. ~Clear(k) /\ ~ClearFails(k) /\ ~MakeDirectory(k) /\ ~Open(k)
  BY <1>1 DEF Clear, ClearFails, MakeDirectory, Open, Fails, Ends, Goto,
              Past, Copying, Copied
<1>3. ~TooLarge(k) /\ ~Publish(k) /\ ~Crash(k)
  BY <1>1 DEF TooLarge, Publish, Crash, Fails, Ends, Past, Copying, Copied
<1> QED
  BY <1>2, <1>3, CreateRight, SelectRootsRight, CopySourcesRight,
     CopyRevisionsRight, CopySegmentsRight, ReadBytesRight, ListPayloadRootsRight,
     CountPayloadRight, WriteManifestRight, RestrictRight DEF Goes

LEMMA NextLone == Common /\ Lone /\ [Next]_vars => Lone'
<1> SUFFICES ASSUME Common, Lone, [Next]_vars PROVE Lone'
  OBVIOUS
<1>1. CASE UNCHANGED vars
  <2>1. UNCHANGED <<active, current, temp, pc, job>>
    BY <1>1 DEF vars, database
  <2> SUFFICES ASSUME NEW k \in Procs, Right(k) PROVE Right(k)'
    BY <2>1 DEF Lone, Right
  <2>2. /\ Sourced(k)' = Sourced(k) /\ Revised(k)' = Revised(k)
        /\ Segmented(k)' = Segmented(k)
    BY <2>1 DEF Sourced, Revised, Segmented
  <2>3. Own(k)' /\ Written(k)'
    BY <2>1, <2>2 DEF Right, Own, Written, Counts
  <2>4. Matched(k)'
    BY <2>1, <2>2 DEF Right, Matched
  <2>5. PICK S, R, T : S = Sourced(k) /\ R = Revised(k) /\ T = Segmented(k)
    OBVIOUS
  <2>6. Of(S)' = Of(S) /\ Revisions(R)' = Revisions(R) /\ Revisions(T)' = Revisions(T)
    BY <2>1 DEF Of, Revisions
  <2>7. Still(k)'
    BY <2>1, <2>2, <2>5, <2>6 DEF Right, Still
  <2> QED
    BY <2>3, <2>4, <2>7 DEF Right
<1>2. CASE Index
  BY <1>2, IndexLone
<1>3. ASSUME NEW k \in Procs, Export(k) PROVE Lone'
  BY <1>3, StartLone, GoesLone DEF Export, Goes
<1> QED
  BY <1>1, <1>2, <1>3 DEF Next

-----------------------------------------------------------------------------
(* What an export that is alone publishes.                                 *)

ShowsOneMoment(p) ==
  Accepts(p) /\ p.export.alone =>
    /\ p.manifest.roots \subseteq p.export.only
    /\ Hits(p) \subseteq p.export.moment
    /\ \A c \in p.export.moment : c[1] \in p.export.lost \/ c \in Hits(p)

ImportsQuietly(p) ==
  p.export.alone /\ ~p.export.changed /\ (\A c \in p.export.moment : c[2] # 0)
    => Accepts(p) /\ Hits(p) = p.export.moment

Kept ==
  \A d \in Destinations :
    published[d] # None =>
      ShowsOneMoment(published[d]) /\ ImportsQuietly(published[d])

LEMMA PublishedRight ==
  ASSUME Common, Lone, NEW k \in Procs, pc[k] = "rename", NEW p,
         p = [payload |-> temp.payload, manifest |-> temp.manifest,
              export |-> job[k]]
  PROVE ShowsOneMoment(p) /\ ImportsQuietly(p)
<1>1. p.payload = temp.payload /\ p.manifest = temp.manifest /\ p.export = job[k]
  OBVIOUS
<1> SUFFICES ASSUME job[k].alone PROVE ShowsOneMoment(p) /\ ImportsQuietly(p)
  BY <1>1 DEF ShowsOneMoment, ImportsQuietly
<1>2. /\ pc[k] \in Past /\ pc[k] \in Copied
      /\ pc[k] \notin {"roots", "revisions", "segments", "describe"}
  BY DEF Past, Copying, Copied
<1>3. /\ Own(k) /\ Matched(k) /\ Written(k) /\ Still(k)
      /\ temp.payload # None /\ temp.payload.tables
  BY <1>2, LoneFacts
<1>4. PICK payload : payload = temp.payload
  OBVIOUS
<1>5. PICK S : S = payload.roots
  OBVIOUS
<1>6. Sourced(k) = S /\ Revised(k) = S /\ Segmented(k) = S
  <2>1. job[k].todo = {}
    BY <1>2, <1>3 DEF Own
  <2>2. Sourced(k) = S
    BY <1>4, <1>5, <2>1 DEF Sourced
  <2> QED
    BY <1>2, <2>2 DEF Revised, Segmented
<1>7. /\ S \subseteq job[k].only /\ payload.sources = job[k].moment
      /\ \A c \in payload.sources : c[1][1] \in S
  BY <1>3, <1>4, <1>5, <1>6 DEF Own
<1>8. /\ \A b, c \in payload.revisions : b[1] = c[1] => b = c
      /\ \A c \in job[k].moment : c[2] # 0 /\ c[1] \notin job[k].lost =>
           (c[1][1] \in S => \E g \in payload.segments : g[1] = c[1])
  BY <1>3, <1>4, <1>6 DEF Matched
<1>9. /\ temp.manifest # None /\ temp.manifest.checksum = payload
      /\ temp.manifest.roots = S /\ temp.manifest.counts = Counts(payload)
  <2>1. /\ job[k].bytes = payload /\ job[k].roots = S
        /\ job[k].counts = Counts(payload) /\ temp.manifest # None
        /\ temp.manifest = [checksum |-> job[k].bytes, roots |-> job[k].roots,
                            counts |-> job[k].counts]
    BY <1>2, <1>3, <1>4, <1>5 DEF Written
  <2> QED
    BY <2>1
<1>10. Hits(p) = payload.segments \cap job[k].moment
  BY <1>1, <1>4, <1>7 DEF Hits
<1>11. ShowsOneMoment(p)
  <2> SUFFICES ASSUME Accepts(p), NEW c \in job[k].moment, c[1] \notin job[k].lost
               PROVE c \in payload.segments
    BY <1>1, <1>7, <1>9, <1>10 DEF ShowsOneMoment
  <2>1. /\ \A b \in payload.sources : b[2] # 0 /\ b \in payload.revisions
        /\ \A b \in payload.segments : b \in payload.revisions
    BY <1>1, <1>4 DEF Accepts, Related
  <2>2. c[2] # 0 /\ c \in payload.revisions /\ c[1][1] \in S
    BY <1>7, <2>1
  <2>3. PICK g \in payload.segments : g[1] = c[1]
    BY <1>8, <2>2
  <2>4. g = c
    BY <1>8, <2>1, <2>2, <2>3
  <2> QED
    BY <2>3, <2>4
<1>12. ImportsQuietly(p)
  <2> SUFFICES ASSUME ~job[k].changed, \A c \in job[k].moment : c[2] # 0
               PROVE Accepts(p) /\ Hits(p) = job[k].moment
    BY <1>1 DEF ImportsQuietly
  <2>1. /\ payload.sources = Of(S) /\ payload.revisions = Revisions(S)
        /\ payload.segments = Revisions(S)
    BY <1>2, <1>3, <1>4, <1>6 DEF Still
  <2>2. Of(S) = Revisions(S)
    BY <1>7, <2>1 DEF Revisions
  <2>3. Related(payload)
    BY <1>7, <2>1, <2>2 DEF Related
  <2>4. Accepts(p)
    BY <1>1, <1>3, <1>4, <1>7, <1>9, <2>3 DEF Accepts
  <2> QED
    BY <1>7, <1>10, <2>1, <2>2, <2>4
<1> QED
  BY <1>11, <1>12

LEMMA NextKept == Common /\ Lone /\ Kept /\ [Next]_vars => Kept'
<1> SUFFICES ASSUME Common, Lone, Kept, [Next]_vars PROVE Kept'
  OBVIOUS
<1>1. CASE UNCHANGED published
  BY <1>1 DEF Kept, ShowsOneMoment, ImportsQuietly, Accepts, Related, Hits, Counts
<1>2. ASSUME NEW k \in Procs, Publish(k), published' # published PROVE Kept'
  <2>1. pc[k] = "rename"
    BY <1>2 DEF Publish, At
  <2>2. PICK d, p : /\ published' = [published EXCEPT ![d] = p]
                    /\ p = [payload |-> temp.payload, manifest |-> temp.manifest,
                            export |-> job[k]]
    BY <1>2 DEF Publish, Fails
  <2>3. ShowsOneMoment(p) /\ ImportsQuietly(p)
    BY <2>1, <2>2, PublishedRight
  <2>4. DOMAIN published = Destinations
    BY DEF Common, Kinds
  <2> SUFFICES ASSUME NEW e \in Destinations, published'[e] # None
               PROVE ShowsOneMoment(published'[e]) /\ ImportsQuietly(published'[e])
    BY DEF Kept, ShowsOneMoment, ImportsQuietly, Accepts, Related, Hits, Counts
  <2> QED
    BY <2>2, <2>3, <2>4 DEF Kept
<1>3. CASE Index
  <2>1. PICK lost \in SUBSET Source :
          active' \subseteq Source /\ current' \in [Source -> Nat] /\ Change(lost)
    BY <1>3, IndexFacts DEF Common
  <2> QED
    BY <1>1, <2>1 DEF Change
<1>4. ASSUME NEW k \in Procs, Export(k), ~Publish(k) PROVE Kept'
  <2>1. CASE \E d \in Destinations, only \in {Roots} \cup {{r} : r \in Roots} :
               Start(k, d, only)
    BY <1>1, <2>1 DEF Start, Goto
  <2>2. CASE Goes(k)
    <3>1. UNCHANGED published
      BY <1>4, <2>2 DEF Goes, Clear, ClearFails, MakeDirectory, Open, CreateTables,
         SelectRoots, CopySources, CopyRevisions, CopySegments, ReadBytes, TooLarge,
         ListPayloadRoots, CountPayload, WriteManifest, Restrict, Crash, Fails, Goto
    <3> QED
      BY <1>1, <3>1
  <2> QED
    BY <1>4, <2>1, <2>2 DEF Export, Goes
<1>5. CASE UNCHANGED vars
  BY <1>1, <1>5 DEF vars
<1> QED
  BY <1>1, <1>2, <1>3, <1>4, <1>5 DEF Next

LEMMA KeptHolds == Spec => [](Common /\ Lone /\ Kept)
<1>1. Init => Common /\ Lone /\ Kept
  <2> SUFFICES ASSUME Init PROVE Common /\ Lone /\ Kept
    OBVIOUS
  <2>1. Common
    BY InitKinds DEF Common
  <2>2. \A k \in Procs : ~job[k].alone
    BY DEF Init, Idle
  <2>3. \A d \in Destinations : published[d] = None
    BY DEF Init
  <2> QED
    BY <2>1, <2>2, <2>3 DEF Lone, Kept
<1>2. Common /\ Lone /\ Kept /\ [Next]_vars => (Common /\ Lone /\ Kept)'
  BY NextCommon, NextLone, NextKept
<1> QED
  BY <1>1, <1>2, PTL DEF Spec

\* An export that meets no other one in the temporary directory: whatever other
\* commands commit between its SELECTs, what can be imported shows the selected
\* roots as they were at one moment, less what was deleted since.
THEOREM SnapshotsShowOneMoment == Spec => []OneMoment
<1>1. Kept => OneMoment
  BY DEF Kept, ShowsOneMoment, OneMoment, Imported
<1> QED
  BY <1>1, KeptHolds, PTL

\* Such an export, of roots that did not change and whose active sources all
\* have a revision, can be imported and finds all of them.
THEOREM QuietExportsImport == Spec => []QuietExportImports
<1>1. Kept => QuietExportImports
  BY DEF Kept, ImportsQuietly, QuietExportImports
<1> QED
  BY <1>1, KeptHolds, PTL
=============================================================================
