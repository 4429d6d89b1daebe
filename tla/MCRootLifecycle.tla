-------------------------- MODULE MCRootLifecycle --------------------------
(* Small instances of RootLifecycle for TLC.                               *)
EXTENDS RootLifecycle, TLC

\* Two scenarios in one run: solo, one command at a time and no failure; and
\* two commands at once with a fault, which leave one of the ids unused.
VARIABLE solo

Spare == CHOOSE r \in Roots : TRUE

\* At most one process runs a command.
OneCommand == \A j, k \in Procs : pc[j] # "idle" /\ pc[k] # "idle" => j = k

MCInit == Init /\ solo \in BOOLEAN

MCNext ==
  /\ Next
  /\ IF solo THEN OneCommand' /\ faults' = 0 ELSE approved'[Spare] = None
  /\ UNCHANGED solo

MCSpec == MCInit /\ [][MCNext]_<<vars, solo>> /\ Fairness

\* Commands one after the other leave the two stores with the same roots.
SoloStoresAgree == solo => StoresAgree

\* Commands one after the other never bring a removed root back: neither
\* configured, nor registered, nor searched.
SoloRemovedStaysOut == solo => RemovedStaysOut

\* With commands one after the other, a root that stays enabled comes to be
\* searched, whichever commands come in between.
SoloEnabledIsSearched == solo => EnabledIsSearched

\* Nothing tells two processes, ids or directories apart.
Symmetry == UNION {Permutations(S) : S \in {Procs, Roots, Dirs}}
=============================================================================
