---------------------------- MODULE MCRetrieval ----------------------------
EXTENDS JudgedRetrieval, TLC

CONSTANTS a1, a2, b, c, y, z, t1, t2, fa, fb, fc, s1, s2

\* Two revisions of file fa, one of fb and fc; fb has the text of a1.  Two
\* snapshots, each with a copy of that text, one of them under fb.
MCImported == s1 :> {y} @@ s2 :> {z}
MCFile == a1 :> fa @@ a2 :> fa @@ b :> fb @@ c :> fc @@ y :> fb @@ z :> fa
MCText == a1 :> t1 @@ a2 :> t2 @@ b :> t1 @@ c :> t2 @@ y :> t1 @@ z :> t1
MCOrder == a1 :> 1 @@ a2 :> 2 @@ b :> 3 @@ c :> 4 @@ y :> 5 @@ z :> 6

\* One entry, on fb; and a second one that also covers fb.
MCTags == <<[files |-> {fb}, scope |-> "require_explicit_query"]>>
MCBothTags ==
  Append(MCTags, [files |-> {fb, fc}, scope |-> "never_return_to_mcp"])

MCTokens == t1 :> 3 @@ t2 :> 5
MCBytes == t1 :> 4 @@ t2 :> 6

\* 1/log2(rank + 1), in thousandths.
MCDiscount == <<1000, 631, 500>>
=============================================================================
