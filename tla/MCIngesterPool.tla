--------------------------- MODULE MCIngesterPool ---------------------------
(* Instances of IngesterPool with one repost.                               *)
EXTENDS IngesterPool, TLC

CONSTANTS note, repost

\* The repost carries the note, which clients also submit themselves.
RepostOfNote == (note :> None) @@ (repost :> note)
=============================================================================
