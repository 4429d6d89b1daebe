----------------------------- MODULE MCSoloScan -----------------------------
(***************************************************************************)
(* SourceIndex with one process and two files, either both edited now and  *)
(* then or one of them edited often.                                       *)
(***************************************************************************)
EXTENDS SourceIndex, TLC

CONSTANTS a, b

\* The first version of a file is that it is not there.  Five are A, B, A, then
\* C, or removal and recreation after a change; three are created and changed,
\* or created and removed.
OneOrBoth == {(a :> 5 @@ b :> 1), (a :> 3 @@ b :> 3)}
=============================================================================
