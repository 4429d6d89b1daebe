--------------------------- MODULE MCEmbeddingSync ---------------------------
(* Small instances of EmbeddingSync for TLC.                               *)
EXTENDS EmbeddingSync, TLC

CONSTANTS m1, m2

MCModels == {m1, m2}
MCNative == m1 :> 4 @@ m2 :> 8
=============================================================================
