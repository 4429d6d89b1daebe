--------------------------- MODULE EvidenceStore ---------------------------
(***************************************************************************)
(* What lexical search promises about one approved root, with no database  *)
(* in sight: for every path, search serves the content of some version of  *)
(* that file (or nothing, for a version in which the file was absent), and *)
(* the version it serves never moves back in time.  A promotion or a       *)
(* withdrawal is one step: no state shows half of it.                      *)
(***************************************************************************)
EXTENDS Naturals, Sequences

CONSTANTS
  Paths,        \* root-relative paths
  Contents,     \* file contents, told apart by their hash
  Absent,       \* no eligible, readable document at the path
  MaxVersions   \* bound: versions of one file a behaviour may contain

VARIABLES
  log,          \* log[p]: every version of file p, oldest first
  reflects,     \* reflects[p]: the version of p that search reflects
  served        \* served[p]: the content search serves for p

vars == <<log, reflects, served>>

Init ==
  /\ log = [p \in Paths |-> <<Absent>>]
  /\ reflects = [p \in Paths |-> 1]
  /\ served = [p \in Paths |-> Absent]

\* The owner of the root writes, creates or removes a file.
Edit(p, c) ==
  /\ Len(log[p]) < MaxVersions
  /\ log' = [log EXCEPT ![p] = Append(@, c)]
  /\ UNCHANGED <<reflects, served>>

\* Search comes to reflect version i of p, in one step.
Reflect(p, i) ==
  /\ i \in reflects[p] .. Len(log[p])
  /\ reflects' = [reflects EXCEPT ![p] = i]
  /\ served' = [served EXCEPT ![p] = log[p][i]]
  /\ UNCHANGED log

Next ==
  \E p \in Paths :
    \/ \E c \in Contents \cup {Absent} : Edit(p, c)
    \/ \E i \in 1 .. MaxVersions : Reflect(p, i)

Spec == Init /\ [][Next]_vars
=============================================================================
